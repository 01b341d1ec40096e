\* Reports of two domains, which may leave one of three out.
\* CHECK_DEADLOCK FALSE: dnss exits if the flag is invalid.
SPECIFICATION StatsSpec
CONSTANTS
  a = a
  b = b
  v1 = v1
  v2 = v2
  None = None
  Label = {a, b}
  Name <- Names
  Value = {v1, v2}
  Alphabet <- Spelled
  MaxItems = 3
  Limit = 2
  MaxQueries = 3
SYMMETRY Symm
VIEW Relevant
CHECK_DEADLOCK FALSE
INVARIANTS
  TypeOK
  MostSpecific
  ReportConsistent
PROPERTIES
  TopIsTop
