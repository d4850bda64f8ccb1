CONSTANTS
  w1 = w1
  w2 = w2
  w3 = w3
  Workers = {w1, w2, w3}
  MaxParts = 4
  MaxLives = 3
  HCRange = 16
  NewThreads = {t1, t2}
  Topics = {"pool", "clusters", "limits"}
  MaxIterations = 40
  Pools = {0, 1, 2, 3, 5}
  Loads = {0, 1, 2, 4, 7}
  Costs = {1, 2, 3, 7}
  Divisions = {1, 2, 3, 4}
  ProductRange = 4096
SPECIFICATION MCSpec
INVARIANTS LeavesLast NoMissedWakeup NotifiesBeforeEnd FunctorLifetime PartsTile ChunkedTiles HmpTiles LimitExact
PROPERTY ImplementsBarrier
CHECK_DEADLOCK FALSE
