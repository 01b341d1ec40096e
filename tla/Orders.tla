-------------------------------- MODULE Orders --------------------------------
(***************************************************************************)
(* Sorting and filtering.  SortSeq and SelectSeq of the standard modules   *)
(* have operators as parameters and are defined by permutations and by     *)
(* recursion; these are functions of a set and of an order on it, a set of *)
(* pairs, so that OrderTheorems can say what they do.                      *)
(***************************************************************************)
EXTENDS Integers, Sequences, FiniteSets

\* The elements of S ahead of x.
Ahead(S, ord, x) == {y \in S : <<y, x>> \in ord}

\* The elements of a finite set, in a strict total order.
InOrder(S, ord) ==
  [n \in 1 .. Cardinality(S) |->
     CHOOSE x \in S : Cardinality(Ahead(S, ord, x)) = n - 1]

\* The elements of s whose indices are in I, in the order of s.
Selected(s, I) ==
  LET order == InOrder(I, {p \in I \X I : p[1] < p[2]})
  IN [n \in 1 .. Cardinality(I) |-> s[order[n]]]

===============================================================================
