SPECIFICATION Spec
CONSTANTS
  Jobs = {1, 2}
  Downloads = {1, 2}
  Procs = {p1, p2}
  Slots = {s1}
  Workers = 1
  MaxAttempts = 2
  AttemptCap = 2
  MaxFaults = 2
  Windows = {}
SYMMETRY Symmetry
INVARIANTS TypeOK LaneExclusive SingleRunner
PROPERTIES ImplementsBoard SpentJobsStayDown
CHECK_DEADLOCK FALSE
