SPECIFICATION Spec
CONSTANTS
  Keys = {1, 2}
  Vals = {a}
  NewNames = {1}
  MaxJobs = 1
  MaxChunk = 1
  MaxTries = 1
  Options <- DefaultOptions
  Absent = Absent
  NoTable = NoTable
  None = None
  CarefulOperator = TRUE
  ResumeBites = FALSE
  PluginStops = FALSE
  LostAcks = FALSE
INVARIANT ReportTellsWhether
CHECK_DEADLOCK FALSE
