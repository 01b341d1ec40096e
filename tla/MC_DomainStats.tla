---------------------------- MODULE MC_DomainStats ----------------------------
(* An instance of DomainStats for TLC, with the names of MC_DomainMap. *)
EXTENDS DomainStats, TLC

CONSTANTS a, b, v1, v2

Names == {<<>>, <<a>>, <<b>>, <<a, b>>, <<a, b, b>>}

Spelled == <<<<>>, <<a>>, <<a, b>>, <<b>>, <<a, b, b>>>>

Symm == Permutations(Value)

\* The flag only matters by the map it leads to and what may still be added to
\* it, and the histories by what they determine.
Relevant ==
  <<pc, IF pc = "parse" THEN Len(items) ELSE 0, m, domain, todo, mc, mv, ok,
    stage, question, total, overrides, counts, report>>
=============================================================================
