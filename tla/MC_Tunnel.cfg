\* The times of the code, halved.  No SYMMETRY: the run checks a liveness property.
SPECIFICATION FairTunnelSpec
CONSTANTS
  r1 = r1
  h1 = h1
  None = None
  Request = {r1}
  Handler = {h1}
  RotateAfter = 5
  Timeout = 2
  Period = 1
  upstreamTimeout = 2
  Foreign <- Foreigners
  Numbers = 2
  MaxCuts = 1
INVARIANTS
  CompleteIfPossible
  FailureNotMasked
  OnlyOwnAnswers
PROPERTIES
  RotatesOnlyUnheard
  DeadClientReplaced
