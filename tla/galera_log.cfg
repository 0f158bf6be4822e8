SPECIFICATION Spec
CONSTANTS
  Hashes = {"h1", "h2", "h3", "h4", "h5"}
  IPs = {"i1", "i2", "i3"}
  Methods = {"tcp"}
  Names <- MCNames
  Short <- MCShort
  AssumeIPStable = TRUE
  MaxTime = 3
  Printed = {"n1", "n2.long", "n3"}
  Self = "n2.long"
  HashOf <- MCHashOf
  Reborn <- MCReborn
  IPOf <- MCIPOf
  Views <- MCViews
  Idxs <- MCIdxs
  Seqnos = {"s1", "s2"}
  MD5s <- MCMD5s
  Voters = {"n1", "n2"}
  MaxLines <- MCMaxLines
INVARIANTS TypeOK OwnIdentity Propagated WinnerIsOwn OrderFree ViewOrderFree
CHECK_DEADLOCK FALSE
