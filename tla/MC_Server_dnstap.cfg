SPECIFICATION Spec
CONSTANTS
  h1 = h1
  h2 = h2
  i1 = i1
  i2 = i2
  lan = lan
  host = host
  web = web
  None = None
  Handler = {h1, h2}
  ID = {i1, i2}
  Name = {lan, host, web}
  Overridden = {}
  Unqualified = {}
  unqUpstream = TRUE
  dnstap = TRUE
  Size = {}
  EDNS = {1, 3}
  ClientQuery <- Queries
  MinMsgSize = 2
  NewIDs = 1
  Records = 1
INVARIANTS
  PairHasOneID
