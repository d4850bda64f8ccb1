CONSTANTS
  NewThreads = {t1, t2}
  MayFail = TRUE
SPECIFICATION Spec
PROPERTY StartEnds
CHECK_DEADLOCK FALSE
