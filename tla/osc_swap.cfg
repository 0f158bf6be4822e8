SPECIFICATION FairSpec
CONSTANTS
  Keys = {1, 2}
  Vals = {a}
  NewNames = {1}
  MaxJobs = 1
  MaxChunk = 1
  MaxTries = 2
  Options <- AllSafe
  Absent = Absent
  NoTable = NoTable
  None = None
  CarefulOperator = TRUE
  ResumeBites = FALSE
  PluginStops = TRUE
  LostAcks = TRUE
INVARIANTS NeverNoCopy
PROPERTY RunEnds
CHECK_DEADLOCK FALSE
