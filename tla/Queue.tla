------------------------------- MODULE Queue -------------------------------
(***************************************************************************)
(* What the FIFO containers promise: elements leave in the order in which  *)
(* they came, each once, and never more than Capacity are inside.          *)
(***************************************************************************)
EXTENDS Naturals, Sequences

CONSTANTS Elements, Capacity

VARIABLES inside, delivered

vars == <<inside, delivered>>

Init == inside = <<>> /\ delivered = <<>>

Enqueue(x) ==
  /\ Len(inside) < Capacity
  /\ inside' = Append(inside, x)
  /\ UNCHANGED delivered

Dequeue ==
  /\ inside # <<>>
  /\ delivered' = Append(delivered, Head(inside))
  /\ inside' = Tail(inside)

Next == (\E x \in Elements : Enqueue(x)) \/ Dequeue

Spec == Init /\ [][Next]_vars

-----------------------------------------------------------------------------
\* A queue whose owner may also give up what is inside.
Discard == inside' = <<>> /\ UNCHANGED delivered

ClearingNext == Next \/ Discard

ClearingSpec == Init /\ [][ClearingNext]_vars
============================================================================
