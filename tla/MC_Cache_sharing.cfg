SPECIFICATION Spec
CONSTANTS
  q1 = q1
  q2 = q2
  c1 = c1
  c2 = c2
  None = None
  Question = {q1, q2}
  Caller = {c1, c2}
  Slice <- Slices
  Second = 1
  maxCacheSize = 1
  minTTL = 2
  maxTTL = 3
  maintenancePeriod = 1
  MaxLag = 0
  MaxQueries = 3
  BackHeader <- MCHeaders
  BackTTLs <- MixedTTLs
VIEW Live
SYMMETRY Symm
INVARIANTS
  TypeOK
  WithinCapacity
  AnswerMatchesQuestion
  CachedWellFormed
  CachedComplete
PROPERTIES
  HeldRRsImmutable
