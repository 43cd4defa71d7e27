SPECIFICATION Spec
CONSTANTS
  r1 = r1  r2 = r2  r3 = r3  k1 = k1  k2 = k2  k3 = k3
  NoRequest = NoRequest  NoKey = NoKey
  Requests = {r1, r2, r3}
  Keys = {k1, k2}
  ShardOf <- MCShardOfSame
  NumShards = 1
  MaxCapacity = 3
  Ttl = 2
  MaxTime = 3
  UsizeMax = 1000
SYMMETRY MCSymmetry
CHECK_DEADLOCK FALSE
INVARIANT Exclusive
