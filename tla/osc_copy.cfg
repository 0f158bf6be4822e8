SPECIFICATION Spec
CONSTANTS
  Keys = {1, 2, 3}
  Vals = {a, b}
  NewNames = {1}
  MaxJobs = 1
  MaxChunk = 2
  MaxTries = 2
  Options <- DefaultOptions
  Absent = Absent
  NoTable = NoTable
  None = None
  CarefulOperator = TRUE
  ResumeBites = FALSE
  PluginStops = FALSE
  LostAcks = FALSE
INVARIANTS TypeOK InSync SwapComplete
PROPERTIES ReportTruthful ChunksAdvance Atomic
SYMMETRY Symmetry
CHECK_DEADLOCK FALSE
