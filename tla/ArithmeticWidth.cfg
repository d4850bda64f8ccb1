CONSTANTS
  Topics = {"pool"}
  MaxIterations = 400
  Pools = {63, 64}
  Loads = {0}
  Costs = {1}
  Divisions = {4}
  HCRange = 256
  ProductRange = 4096
SPECIFICATION Spec
INVARIANT ChunkCountFits
CHECK_DEADLOCK FALSE
