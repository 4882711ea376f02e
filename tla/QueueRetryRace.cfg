SPECIFICATION Spec
CONSTANTS
  Jobs = {1}
  Downloads = {}
  Procs = {p1, p2}
  Slots = {s1}
  Workers = 1
  MaxAttempts = 2
  AttemptCap = 3
  MaxFaults = 1
  Windows = {"retry"}
PROPERTIES RetryLeavesRunningAlone
CHECK_DEADLOCK FALSE
