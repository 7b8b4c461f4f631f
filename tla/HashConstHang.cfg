SPECIFICATION FairSpec
CONSTANTS
  k1 = k1
  k2 = k2
  k3 = k3
  k4 = k4
  k5 = k5
  v1 = v1
  v2 = v2
  NoKey = NoKey
  Null = Null
  Keys = {k1, k2, k3, k4, k5}
  Values = {v1, v2}
  Buckets = 26
  Operations = {"find", "add"}
  Clears = FALSE
  Hash <- ConstHash
  Succ <- ConstSucc
PROPERTY LookupsEnd
