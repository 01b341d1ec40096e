-------------------------- MODULE MC_TraceRegistry --------------------------
EXTENDS TraceRegistry
TwoBuckets == <<0, 1>>

Symm == Permutations(Trace)

(***************************************************************************)
(* What the future and the invariants depend on, for one family:           *)
(*  - nothing that a trace which was dropped referred to, and no reference *)
(*    of a trace to itself;                                                *)
(*  - of a lookup that returned, whether it should have succeeded.  One    *)
(*    that need not succeed may return anything.                           *)
(***************************************************************************)
Relevant ==
  LET Gone(t) == stage[t] = "done" /\ ~Kept(t)
  IN <<stage, familyVars, latency, isError,
       [t \in Trace |-> IF Gone(t) THEN <<>>
                        ELSE <<parentArg[t], Parent[t], refs[t] \ {t}>>],
       IF pc # "idle" /\ sure THEN <<pc, want, via, ref>> ELSE <<pc = "idle">>,
       LookupSucceeds, done>>
=============================================================================
