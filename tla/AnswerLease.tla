------------------------------ MODULE AnswerLease ------------------------------
(***************************************************************************)
(* What a cache of answers promises, without saying how it is kept: an     *)
(* answer is granted for some time; from then on what it tells a client is *)
(* left of that time agrees with the clock, but for Error; it is given up  *)
(* no earlier than that allows, unless all of them are; and there are      *)
(* never more than Capacity.                                               *)
(***************************************************************************)
EXTENDS Integers, FiniteSets

CONSTANTS
  Question,
  Capacity,   \* answers kept at the same time
  Longest,    \* time that an answer may be granted for
  Error       \* how far the time left may be off, either way

VARIABLES
  left,      \* the time left that a client is told, 0 for no answer
  granted,   \* the time that the answer was granted for
  age        \* the time since then

vars == <<left, granted, age>>

Kept == {q \in Question : left[q] > 0}

\* Off by no more than Error, when q has d left at age a of g.
Agrees(d, a, g) == d + a - g \in -Error..Error

Init ==
  /\ left = [q \in Question |-> 0]
  /\ granted = [q \in Question |-> 0]
  /\ age = [q \in Question |-> 0]

Set(q, d, g, a) ==
  /\ left' = [left EXCEPT ![q] = d]
  /\ granted' = [granted EXCEPT ![q] = g]
  /\ age' = [age EXCEPT ![q] = a]

Grant(q) ==
  /\ Cardinality(Kept) < Capacity
  /\ \E d \in 1..Longest : Set(q, d, d, 0)

\* The time left is brought closer to what the clock says.
Refresh(q) ==
  /\ q \in Kept
  /\ \E d \in 1..(left[q] - 1) :
       /\ Agrees(d, age[q], granted[q])
       /\ Set(q, d, granted[q], age[q])

Expire(q) ==
  /\ q \in Kept /\ age[q] >= granted[q] - Error
  /\ Set(q, 0, 0, 0)

Flush ==
  /\ left' = [q \in Question |-> 0]
  /\ granted' = [q \in Question |-> 0]
  /\ age' = [q \in Question |-> 0]

\* Time does not pass by an answer that would then be off.
TimePasses ==
  /\ \A q \in Kept : Agrees(left[q], age[q] + 1, granted[q])
  /\ age' = [q \in Question |-> IF q \in Kept THEN age[q] + 1 ELSE age[q]]
  /\ UNCHANGED <<left, granted>>

Next ==
  \/ \E q \in Question : Grant(q) \/ Refresh(q) \/ Expire(q)
  \/ Flush
  \/ TimePasses

Spec == Init /\ [][Next]_vars

=============================================================================
