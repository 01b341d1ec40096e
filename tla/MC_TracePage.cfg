\* Logs of 3 and 4 events, with rings of 2 and 3 that six events go round in;
\* 2 asks for the minimum.  Two references are a circle of two traces, two
\* ways to one, or a trace that refers to itself twice.
\* CHECK_DEADLOCK FALSE: everything stops at MaxLogged.
SPECIFICATION Spec
CONSTANTS
  Trace = {t1, t2}
  Writer = {w1, w2}
  Requested = {2, 4}
  DefaultMaxEvents = 3
  MinEvents = 3
  MaxLogged = 6
  MaxRefs = 2
  None = None
VIEW Relevant
SYMMETRY Symm
INVARIANTS PageTypeOK EventsAreFirstAndLast ShownOnce PageComplete
CHECK_DEADLOCK FALSE
