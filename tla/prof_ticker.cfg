SPECIFICATION FairSpec
CONSTANTS
  NDocs = 3
  Groups = {"find", "insert"}
  GroupOf <- TwoGroups
  Stoppers = {s1}
  MaxTicks = 2
  MaxReceives = 3
INVARIANTS TypeOK SamplesMatch TicksDisjoint
PROPERTIES Exact ReportArrives SignalledStopReturns
CHECK_DEADLOCK FALSE
