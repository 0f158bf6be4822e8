SPECIFICATION Spec
CONSTANTS
  Hashes = {"h1", "h2"}
  IPs = {"i1", "i2"}
  Methods = {"tcp"}
  Names <- MCNames
  Short <- MCShort
  Unspecified = {"n1"}
  AssumeIPStable = FALSE
  MaxTime = 2
  MaxFacts = 3
  MaxFiles = 2
INVARIANTS DBTypeOK LookupsRight FoundExactly
PROPERTIES WhoisEnds
CHECK_DEADLOCK FALSE
