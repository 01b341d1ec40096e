SPECIFICATION Spec
CONSTANTS
  a = a
  b = b
  v1 = v1
  v2 = v2
  None = None
  Label = {a, b}
  Name <- Names
  Value = {v1, v2}
  MaxItems = 3
SYMMETRY Symm
CHECK_DEADLOCK FALSE
INVARIANTS
  ClosestEntry
