SPECIFICATION FairSpec
CONSTANTS
  Capacity = 2
  MaxRecords = 5
  MaxBreaks = 2
\* Records and breaks run out, and the queue stays empty.
CHECK_DEADLOCK FALSE
INVARIANTS
  TypeOK
  StreamWellFormed
  Conservation
PROPERTIES
  ImplementsFifo
  Drains
