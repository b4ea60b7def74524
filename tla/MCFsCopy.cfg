SPECIFICATION Spec
CONSTANTS
  p = p
  q = q
  r = r
  i1 = i1
  i2 = i2
  i3 = i3
  i4 = i4
  x = x
  y = y
  c1 = c1
  c2 = c2
  None = None
  Callers = {c1, c2}
  Paths = {p, q, r}
  Inodes = {i1, i2, i3, i4}
  Units = {x, y}
  BufSize = 2
  MaxCalls = 3
  Calls <- AllCalls
  Trees <- AllTrees
INVARIANTS TypeOK
PROPERTIES OnlyOwnWrites FreshCopyExact
CHECK_DEADLOCK FALSE
