SPECIFICATION CodexSpec
CONSTANTS
  CodexJobs = {j1}
  MaxTokens = 4
  MaxPastes = 2
  Windows = {"over"}
INVARIANT RunsOnItsLogin
CHECK_DEADLOCK FALSE
