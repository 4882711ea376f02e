SPECIFICATION TargetsFairSpec
CONSTANTS
  Kinds = {"question", "video", "module"}
  MaxJobs = 2
  MaxAttempts = 2
  MaxFaults = 2
  MaxRequests = 1
  MaxParts = 2
  OwnDocuments = "unmarked"
  MaxTurns = 3
  Turns = {1, 2}
  Modules = {a}
  Pictures = {x}
  MaxOps = 0
  Windows = {"crash", "retry", "stalled", "late", "again", "redo", "twice", "edit",
             "timeout", "account", "cut", "unmarked"}
PROPERTIES EveryStatusEnds
CHECK_DEADLOCK FALSE
