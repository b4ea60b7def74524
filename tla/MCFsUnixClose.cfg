SPECIFICATION Spec
CONSTANTS
  h1 = h1
  h2 = h2
  p1 = p1
  p2 = p2
  n1 = n1
  n2 = n2
  n3 = n3
  a1 = a1
  a2 = a2
  None = None
  MaxOrphans = 1
  Handles = {h1, h2}
  Addresses = {a1, a2}
  Paths = {p1, p2}
  Names = {n1, n2, n3}
  Listing <- TwoPaths
INVARIANTS EntriesOfThePath
CHECK_DEADLOCK FALSE
