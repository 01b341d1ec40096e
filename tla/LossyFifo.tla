------------------------------- MODULE LossyFifo -------------------------------
(***************************************************************************)
(* What a bounded export queue promises, whatever happens to the           *)
(* connection behind it: of the items offered, numbered 1, 2, ..., those   *)
(* that are accepted leave in order; each of them is delivered once or     *)
(* lost; and an item is refused only when Capacity accepted ones are       *)
(* waiting.                                                                *)
(***************************************************************************)
EXTENDS Naturals, Sequences

CONSTANT
  Capacity   \* of the buffer; the item being delivered may be kept besides

VARIABLES
  offered,   \* number of items offered
  waiting,   \* the accepted items that were neither delivered nor lost
  delivered  \* the items delivered, in order

vars == <<offered, waiting, delivered>>

Init == offered = 0 /\ waiting = <<>> /\ delivered = <<>>

Accept ==
  /\ Len(waiting) <= Capacity
  /\ offered' = offered + 1
  /\ waiting' = Append(waiting, offered')
  /\ UNCHANGED delivered

Refuse ==
  /\ Len(waiting) >= Capacity
  /\ offered' = offered + 1
  /\ UNCHANGED <<waiting, delivered>>

Deliver ==
  /\ waiting # <<>>
  /\ waiting' = Tail(waiting)
  /\ delivered' = Append(delivered, Head(waiting))
  /\ UNCHANGED offered

Lose ==
  /\ waiting # <<>>
  /\ waiting' = Tail(waiting)
  /\ UNCHANGED <<offered, delivered>>

Next == Accept \/ Refuse \/ Deliver \/ Lose

Spec == Init /\ [][Next]_vars

=============================================================================
