SPECIFICATION PipelineSpec
CONSTANTS
  MaxJobs = 2
  MaxAttempts = 1
  MaxFaults = 1
  MaxRequests = 1
  MaxParts = 2
  OwnDocuments = "unmarked"
  Windows = {"unmarked"}
INVARIANT ModuleAttended
CHECK_DEADLOCK FALSE
