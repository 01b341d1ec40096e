-------------------------- MODULE MC_CachingResolver --------------------------
(* Instances of CachingResolver for TLC. *)
EXTENDS CachingResolver, TLC

CONSTANTS q1, q2, c1, c2

\* A reply that may be cached for q.
Good(q) == [rcode |-> "success", response |-> TRUE, opcode |-> "query",
            truncated |-> FALSE, question |-> <<q>>]

\* Good replies, and for one question each single way not to be one.
MCHeaders ==
  {Good(q) : q \in Question} \cup
  {[Good(q1) EXCEPT !.rcode = "failure"],
   [Good(q1) EXCEPT !.response = FALSE],
   [Good(q1) EXCEPT !.opcode = "other"],
   [Good(q1) EXCEPT !.truncated = TRUE],
   [Good(q1) EXCEPT !.question = <<>>]}

GoodHeaders == {Good(q) : q \in Question}

\* An empty answer, one below minTTL, and one above maxTTL whose records differ.
MixedTTLs == {<<>>, <<1>>, <<4, 1>>}

\* Answers below minTTL, at it, at maxTTL and above.
EdgeTTLs == {<<1>>, <<2>>, <<3>>, <<4, 1>>}

Slices == 1..5
FewSlices == 1..4

\* States that differ only in memory nothing refers to are the same.
Live ==
  <<answer, [s \in Slice \ FreeSlices |-> <<ttl[s], owner[s]>>], todo, local,
    stats, phase, tick, history>>

Symm == Permutations(Caller)
=============================================================================
