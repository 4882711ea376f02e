SPECIFICATION TargetsSpec
CONSTANTS
  Kinds = {"question", "video", "patch", "panel"}
  MaxJobs = 4
  MaxAttempts = 2
  MaxFaults = 1
  MaxRequests = 2
  MaxParts = 3
  OwnDocuments = "unmarked"
  MaxTurns = 3
  Turns = {1, 2}
  Modules = {a, b}
  Pictures = {x, y}
  MaxOps = 3
  Windows = {"timeout", "account", "crash", "cut", "redo", "twice", "late", "retry", "again", "meanwhile",
             "shared", "replaced", "outgrown"}
SYMMETRY Symmetry
INVARIANTS TargetsTypeOK EveryStatusAttended OneAnswerJob ThreadAnsweredRight
  FramesHandedOver TurnsTakenInTurn FilesMatchRows
PROPERTIES AnsweredStays UploadStands
CHECK_DEADLOCK FALSE
