SPECIFICATION Spec
CONSTANTS
  Keys = {1, 2, 3}
  Vals = {a}
  NewNames = {1}
  MaxJobs = 2
  MaxChunk = 1
  MaxTries = 1
  Options <- ResumeOptions
  Absent = Absent
  NoTable = NoTable
  None = None
  CarefulOperator = TRUE
  ResumeBites = FALSE
  PluginStops = FALSE
  LostAcks = TRUE
INVARIANTS ResumePoint NoDanglingTrigger
PROPERTY Atomic
CHECK_DEADLOCK FALSE
