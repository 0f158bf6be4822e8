SPECIFICATION Spec
CONSTANTS
  Keys = {1, 2}
  Vals = {a}
  NewNames = {1}
  MaxJobs = 3
  MaxChunk = 1
  MaxTries = 1
  Options <- RenameOptions
  Absent = Absent
  NoTable = NoTable
  None = None
  CarefulOperator = FALSE
  ResumeBites = FALSE
  PluginStops = FALSE
  LostAcks = FALSE
INVARIANT SwapComplete
CHECK_DEADLOCK FALSE
