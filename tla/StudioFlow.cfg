SPECIFICATION StudioSpec
CONSTANTS
  Parts = {"takes", "tokens", "codex", "cables", "module", "voice", "page",
           "pauses", "racks", "floor", "jobs"}
  Asks = {a, b}
  MaxConnections = 2
  Contents = {x, y}
  Looks = {l}
  Kinds = {"audio"}
  Things = {"patch"}
  Jobs = {a, b}
  Workers = {x, y}
  Nobody = nobody
  MaxPairs = 2
  MaxLogins = 2
  CodexJobs = {a, b}
  MaxTokens = 4
  MaxPastes = 2
  Jacks <- MCJacks
  Wires <- MCWires
  Pairs <- MCPairs
  Dials <- MCDials
  Routes <- MCRoutes
  Normals <- MCNormals
  Switches <- MCSwitches
  MaxFlowNodes = 4
  Rigs <- MCRigs
  MaxCables = 3
  MaxUnseen = 1
  MaxJobs = 3
  MaxAttempts = 1
  MaxFaults = 1
  MaxRequests = 1
  MaxParts = 3
  OwnDocuments = "unmarked"
  VoiceModes = {"ptt", "toggle", "wake", "phrase"}
  Engines = {"browser", "whisper"}
  MaxBuilds = 2
  MaxAsked = 1
  MaxSaid = 2
  Patches = {a, b}
  Cords = {x, y}
  MaxCalls = 2
  MaxMoves = 2
  Owners = {a, b}
  Hands = {x, y}
  MaxClaims = 3
  MaxShifts = 2
  Racks = {1, 2}
  Edits = {x, y}
  MaxEdits = 2
  MaxCopies = 2
  Cases = {a, b}
  Plans = {x, y}
  MaxPlans = 3
  MaxX = 2
  Errands = {e}
  MaxNews = 2
  MaxStrokes = 3
  Windows = {"refused", "cascade", "stale", "crash",
             "lost", "died", "unlocked", "timeout", "order", "redo", "late", "retry", "again", "edit", "unmarked",
             "twice", "restart", "cut", "field", "clicked", "prompt", "turned", "silent",
             "overtaken", "switched", "elsewhere", "missed", "offline", "stopped", "failed",
             "leftover", "relogin", "between", "crossed", "unread", "swept", "sibling",
             "checked", "reimport", "removed", "grown", "handed", "left",
             "ghost", "talks", "requeued", "passed"}
SYMMETRY Symmetry
INVARIANTS StudioTypeOK EveryWaitEnds TakeHasFile NoTakeLitter
  NeverRefused NobodyWaitsInVain HomeFollowsRow OneDriver FlowIsTrue ModuleAttendedBarring
  MicrophoneHonest SaidIsTaken PageShowsPatch
  PausedForItsOwnBarring PlacedIsHeld SystemStaysWhole JobsShown
PROPERTIES LoginStands HandWorkKept PauseHolds CopiesKept
CHECK_DEADLOCK FALSE
