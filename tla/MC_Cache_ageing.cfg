\* No SYMMETRY and no VIEW: the run checks a liveness property.
SPECIFICATION FairSpec
CONSTANTS
  q1 = q1
  q2 = q2
  c1 = c1
  c2 = c2
  None = None
  Question = {q1, q2}
  Caller = {c1}
  Slice <- FewSlices
  Second = 2
  maxCacheSize = 2
  minTTL = 4
  maxTTL = 6
  maintenancePeriod = 2
  MaxLag = 1
  MaxQueries = 2
  BackHeader <- GoodHeaders
  BackTTLs <- EdgeTTLs
INVARIANTS
  StaleBound
PROPERTIES
  ImplementsLease
  EveryEntryExpires
