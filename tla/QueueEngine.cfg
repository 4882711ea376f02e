SPECIFICATION Spec
CONSTANTS
  Jobs = {1}
  Downloads = {}
  Procs = {p1}
  Slots = {s1, s2, s3}
  Workers = 2
  MaxAttempts = 2
  AttemptCap = 3
  MaxFaults = 2
  Windows = {"lapse", "shutdown", "retry", "reclaim", "quota", "resume"}
SYMMETRY Symmetry
PROPERTIES SettledByWorkerStays WorkStaysHeld
CHECK_DEADLOCK FALSE
