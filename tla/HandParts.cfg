SPECIFICATION PipelineSpec
CONSTANTS
  MaxJobs = 2
  MaxAttempts = 1
  MaxFaults = 1
  MaxRequests = 1
  MaxParts = 3
  OwnDocuments = "unmarked"
  Windows = {"edit"}
PROPERTY HandPartsKept
CHECK_DEADLOCK FALSE
