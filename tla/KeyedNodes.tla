---------------------------- MODULE KeyedNodes ----------------------------
(***************************************************************************)
(* What the structures that keep nodes by their keys promise.  The heaps   *)
(* and the adaptive queues: a node stays with the key it was given last,   *)
(* and asking for the least node answers with one whose key no other node  *)
(* undercuts.  The search trees: nodes with distinct keys, found by key    *)
(* and walked in the order of their keys.                                  *)
(***************************************************************************)
EXTENDS Integers

CONSTANTS Nodes, Keys, NoKey, None

VARIABLES
  keyOf,    \* the key of every node that is in, NoKey of the others
  result    \* what the last call returned, None for calls that return nothing

vars == <<keyOf, result>>

Queued == {n \in Nodes : keyOf[n] # NoKey}
IsLeast(n) == n \in Queued /\ \A m \in Queued : keyOf[n] <= keyOf[m]

Init == keyOf = [n \in Nodes |-> NoKey] /\ result = None

Insert(n, k) ==
  /\ n \notin Queued
  /\ keyOf' = [keyOf EXCEPT ![n] = k]
  /\ result' = None

Change(n, k) ==
  /\ n \in Queued
  /\ keyOf' = [keyOf EXCEPT ![n] = k]
  /\ result' = None

Delete(n) ==
  /\ n \in Queued
  /\ keyOf' = [keyOf EXCEPT ![n] = NoKey]
  /\ result' = None

Least(n) ==
  /\ IsLeast(n)
  /\ result' = <<n, keyOf[n]>>
  /\ UNCHANGED keyOf

ExtractLeast(n) ==
  /\ IsLeast(n)
  /\ result' = <<n, keyOf[n]>>
  /\ keyOf' = [keyOf EXCEPT ![n] = NoKey]

Discard ==
  /\ keyOf' = [n \in Nodes |-> NoKey]
  /\ result' = None

Next ==
  \/ \E n \in Nodes :
       \/ Delete(n) \/ Least(n) \/ ExtractLeast(n)
       \/ \E k \in Keys : Insert(n, k) \/ Change(n, k)
  \/ Discard

Spec == Init /\ [][Next]_vars

-----------------------------------------------------------------------------
(* Search trees.                                                           *)

\* The node of S with the least, the greatest key; None if S is empty.
First(S) == IF S = {} THEN None ELSE CHOOSE n \in S : \A m \in S : keyOf[n] <= keyOf[m]
Final(S) == IF S = {} THEN None ELSE CHOOSE n \in S : \A m \in S : keyOf[m] <= keyOf[n]

At(k) == First({n \in Queued : keyOf[n] = k})
NearestGE(k) == First({n \in Queued : keyOf[n] >= k})
Next1(n) == First({m \in Queued : keyOf[m] > keyOf[n]})
Prev1(n) == Final({m \in Queued : keyOf[m] < keyOf[n]})

\* A node with the same key keeps the new one out.
MapNext == \E n \in Nodes :
  Delete(n) \/ \E k \in Keys : Insert(n, k) /\ At(k) = None
=============================================================================
