\* The constants of the code, in seconds.  No SYMMETRY and no VIEW:
\* the run checks a liveness property.
SPECIFICATION FairSpec
CONSTANTS
  r1 = r1
  r2 = r2
  r3 = r3
  None = None
  Request = {r1, r2, r3}
  RotateAfter = 10
  Timeout = 4
  Period = 2
INVARIANTS
  TypeOK
  AtMostOneOldClient
  StreakBounded
PROPERTIES
  RotationJustified
  StreakEnds
