CONSTANTS
  Setups <- WakeSetups
  PoolSizes = {}
  NumCallers = 1
  Items = {}
  Spreads = {s1}
  MaxDepth = 1
  StickyDepth = 0
  DivisionMin = 1
  DivisionMax = 1
  HCRange = 8
  SizeRange = 8
SPECIFICATION SafeSpec
CHECK_DEADLOCK FALSE
INVARIANT SkippedWorkDone
