SPECIFICATION FairSpec
CONSTANTS
  Jobs = {1, 2}
  Downloads = {1, 2}
  Procs = {p1}
  Slots = {s1, s2}
  Workers = 2
  MaxAttempts = 2
  AttemptCap = 2
  MaxFaults = 1
  Windows = {}
PROPERTIES OrphanReturns PendingServed
CHECK_DEADLOCK FALSE
