SPECIFICATION FairSpec
CONSTANTS
  r1 = r1  r2 = r2  r3 = r3  k1 = k1  k2 = k2  k3 = k3
  NoRequest = NoRequest  NoKey = NoKey
  Requests = {r1, r2, r3}
  Keys = {k1, k2, k3}
  ShardOf <- MCShardOfThree
  NumShards = 2
  MaxCapacity = 0
  Ttl = 1
  MaxTime = 1
  UsizeMax = 1000
CHECK_DEADLOCK FALSE
INVARIANTS CounterNeverWraps ShardOrder
PROPERTIES ImplementsStore CallsReturn
