CONSTANTS
  Setups <- CallSetups
  PoolSizes = {1, 2}
  NumCallers = 2
  Items = {i1, i2}
  Spreads = {s1, s2}
  MaxDepth = 2
  StickyDepth = 0
  DivisionMin = 1
  DivisionMax = 1
  HCRange = 8
  SizeRange = 8
SPECIFICATION Spec
CHECK_DEADLOCK FALSE
INVARIANTS CountersSettle NestedFiresDrained BarrierExact NoStrandedWork
PROPERTIES ItemsRun StopTerminates SpreadsReturn
