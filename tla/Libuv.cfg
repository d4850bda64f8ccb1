CONSTANTS
  p1 = p1
  c1 = c1
  loop1 = loop1
  s1 = s1
  s2 = s2
  i1 = i1
  Pool = {p1}
  Callers = {c1}
  Loop = loop1
  Spreads = {s1, s2}
  Items = {i1}
  Iterations = {3}
  MaxChunks = 8
  MaxDepth = 1
  MaxOpen = 2
  MayFail = {"context", "queue"}
SPECIFICATION Spec
INVARIANTS NodeLifetime SpreadComplete IdleMeansDone
PROPERTY SpreadsReturn
CHECK_DEADLOCK FALSE
