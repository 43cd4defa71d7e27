SPECIFICATION FairSpec
CONSTANTS
  Threads = {t1, t2}
  MaxLogical = 1
  MaxDrift = 1
  Remotes <- MCRemotes
  MaxWall = 1
  MaxCalls = 3
INVARIANTS ClockInv DriftBound
PROPERTIES UpdateIsAfterRemote CallsReturn
