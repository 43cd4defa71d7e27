SPECIFICATION FairSpec
CONSTANTS
  Conns = {c1, c2}
  Subs = {s1}
  Topics = {t1, t2}
  Pumps = {p1, p2}
  Capacity = 1
  MaxBroadcasts = 2
  NoConn = NoConn
CHECK_DEADLOCK FALSE
INVARIANTS MapsAgree
PROPERTIES OnlyClientEnds BroadcastReturns
