CONSTANTS
  Setups <- NestedSetups
  PoolSizes = {}
  NumCallers = 1
  Items = {i1}
  Spreads = {s1, s2, s3}
  MaxDepth = 2
  StickyDepth = 0
  DivisionMin = 1
  DivisionMax = 1
  HCRange = 8
  SizeRange = 8
SPECIFICATION SafeSpec
CHECK_DEADLOCK FALSE
SYMMETRY CallSymmetry
INVARIANT NoDeadlock
