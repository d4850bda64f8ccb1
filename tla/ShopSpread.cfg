CONSTANTS
  Setups <- SpreadSetups
  PoolSizes = {}
  NumCallers = 1
  Items = {i1}
  Spreads = {s1}
  MaxDepth = 2
  StickyDepth = 0
  DivisionMin = 1
  DivisionMax = 2
  HCRange = 16
  SizeRange = 16
SPECIFICATION SafeSpec
CHECK_DEADLOCK FALSE
SYMMETRY CallSymmetry
INVARIANTS SpreadComplete WorkOutlivesNoSpread 
