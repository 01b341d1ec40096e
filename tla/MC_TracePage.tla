---------------------------- MODULE MC_TracePage ----------------------------
EXTENDS TracePage, TLC
Symm == Permutations(Trace) \cup Permutations(Writer)

(***************************************************************************)
(* What the invariants can tell apart: an event is its place in its log,   *)
(* whatever its time, the ring is what became of the events logged, and    *)
(* the order in which a page is rendered plays no part.                    *)
(***************************************************************************)
Place(t, e) ==
  <<CHOOSE i \in 1 .. Len(logged[t]) : logged[t][i].When = e.When, e.drop>>

RefsOf(s) == [i \in 1 .. Len(s) |-> s[i].Ref]

Gathered ==
  IF view = "gather"
  THEN [i \in 1 .. Len(evts) |-> <<evts[i].trace, Place(evts[i].trace, evts[i].evt)>>]
  ELSE <<Len(evts),
         {<<l.trace, Place(l.trace, l.evt)>> : l \in ToSet(evts)}>>

Relevant ==
  <<[t \in Exists |-> <<log[t].maxEvents, RefsOf(logged[t])>>],
    [w \in {x \in Writer : pending[x] # None} |->
       <<pending[w].trace, pending[w].evt.Ref>>],
    clock, refs, view, trace, calls, seen, Gathered,
    [t \in Exists |-> {Place(t, e) : e \in lasting[t]}]>>
=============================================================================
