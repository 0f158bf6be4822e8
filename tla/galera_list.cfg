SPECIFICATION Spec
CONSTANTS
  Hashes = {"h1"}
  IPs = {"ia", "ib"}
  Names = {"n1"}
  Methods = {"tcp"}
  Short <- MCShort
  AssumeIPStable = TRUE
  MaxTime = 4
  Horizon = 4
  Dir <- MCDir
  Paths <- MCPaths
  History <- MCHistory
  NodeOf <- MCNodeOf
  Windows <- MCWindows
  Options <- MCOptions
  Calendars <- MCCalendars
  PipeRoom = 1
  FooterAt = 3
INVARIANTS TypeOK FoundAsAsked NoneLost ShownOnceInOrder TransitionsOnce
PROPERTY FilesRead
CHECK_DEADLOCK FALSE
