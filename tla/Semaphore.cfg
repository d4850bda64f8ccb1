CONSTANTS
  t1 = t1
  t2 = t2
  t3 = t3
  Threads = {t1, t2, t3}
  Counts = {1, 2}
  HCRange = 4
  MaxTokens = 1
SPECIFICATION MCSpec
INVARIANTS TypeOK ExactCredits NoMissedWakeup AtRestExact
PROPERTY ImplementsSemaphore
