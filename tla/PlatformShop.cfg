CONSTANTS
  c1 = c1
  c2 = c2
  f1 = f1
  d1 = d1
  s1 = s1
  s2 = s2
  Backends = {"windows", "apple", "openmp", "threads", "inline", "generic"}
  Callers = {c1}
  Fires = {f1}
  Dispatches = {d1}
  Spreads = {s1, s2}
  Iterations = {0, 3}
  Cores = 2
  MaxDepth = 1
  MaxCalls = 2
  MayFail = {"memory", "submit"}
SPECIFICATION Spec
INVARIANTS SlotLifetime GetSeesResult SpreadComplete IdleMeansDone
PROPERTIES CallsReturn SpreadsReturn
CHECK_DEADLOCK FALSE
