\* CHECK_DEADLOCK FALSE: everything stops once all traces have been finished
\* and none is looked up.
SPECIFICATION Spec
CONSTANTS
  Trace = {t1, t2, t3}
  Family = {f1}
  Bounds <- TwoBuckets
  TracesInBucket = 2
  Latencies = {0, 1}
  MaxRefs = 1
  Looked = {t1, t2, t3}
  None = None
SYMMETRY Symm
VIEW Relevant
INVARIANTS TypeOK RingsKeepLatest HistogramExact LookupSucceeds
CHECK_DEADLOCK FALSE
