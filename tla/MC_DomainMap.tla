----------------------------- MODULE MC_DomainMap -----------------------------
(* Instances of DomainMap for TLC. *)
EXTENDS DomainMap, TLC

CONSTANTS a, b, v1, v2

\* The root, two top-level names, and a chain of subdomains.
Names == {<<>>, <<a>>, <<b>>, <<a, b>>, <<a, b, b>>}

Symm == Permutations(Value)
=============================================================================
