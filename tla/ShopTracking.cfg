CONSTANTS
  Setups <- TrackingSetups
  PoolSizes = {}
  NumCallers = 2
  Items = {i1, i2}
  Spreads = {}
  MaxDepth = 1
  StickyDepth = 0
  DivisionMin = 1
  DivisionMax = 1
  HCRange = 8
  SizeRange = 8
SPECIFICATION SafeSpec
CHECK_DEADLOCK FALSE
INVARIANT IdleMeansDone
