------------------------------ MODULE PairHeap ------------------------------
(***************************************************************************)
(* The pairing heap of pairheap.c and of pairheap_nonintrusive_int.c,      *)
(* which has the same algorithm for nodes of its own: first as operators   *)
(* on a forest, which apq.c, _adaq.c and dij.c use through pairheap.c,     *)
(* then under one caller.                                                  *)
(*                                                                         *)
(* A forest holds, for Root and for every node, the list of its children   *)
(* in order (the circular lists of list.h), and the keys.  OrEqual says    *)
(* whether the user's lt is <= instead of <, as in apq.c and _adaq.c.      *)
(***************************************************************************)
EXTENDS Integers, SequencesExt

CONSTANTS Nodes, Root, NoKey, OrEqual, Keys, None

VARIABLES heap, result

RootIsNoNode == Root \notin Nodes /\ OrEqual \in BOOLEAN

Places == Nodes \cup {Root}

\* borListDel: a node sits in one list, wherever that is.
ListDel(lists, n) == [x \in Places |-> Remove(lists[x], n)]
ListAppend(lists, x, n) == [lists EXCEPT ![x] = Append(@, n)]
Moved(lists, n, x) == ListAppend(ListDel(lists, n), x, n)

EmptyForest ==
  [lists |-> [x \in Places |-> <<>>], key |-> [n \in Nodes |-> NoKey]]

Members(f) == UNION {Range(f.lists[x]) : x \in Places}
IsEmpty(f) == f.lists[Root] = <<>>

lt(f, a, b) == f.key[a] < f.key[b] \/ (OrEqual /\ f.key[a] = f.key[b])

\* One comparison of two siblings: the loser becomes the winner's last child.
Match(f, a, b) ==
  [f EXCEPT !.lists = IF lt(f, a, b) THEN Moved(@, b, a) ELSE Moved(@, a, b)]

\* A bug the checks must find: the first pass links without a comparison.
PairUpBlindly(f) ==
  LET roots == f.lists[Root]
      pairs == [i \in 1..(Len(roots) \div 2) |-> <<roots[2 * i - 1], roots[2 * i]>>]
  IN FoldLeft(LAMBDA g, p : [g EXCEPT !.lists = Moved(@, p[2], p[1])], f, pairs)

\* First pass: neighbours meet from left to right, an odd last root rests.
PairUp(f) ==
  LET roots == f.lists[Root]
      pairs == [i \in 1..(Len(roots) \div 2) |-> <<roots[2 * i - 1], roots[2 * i]>>]
  IN FoldLeft(LAMBDA g, p : Match(g, p[1], p[2]), f, pairs)

\* Second pass: the winner so far, first of the roots, meets the next one.
MergeAll(f) ==
  FoldLeft(LAMBDA g, n : Match(g, Head(g.lists[Root]), n), f, Tail(f.lists[Root]))

Consolidate(f) == MergeAll(PairUp(f))

Add(f, n, k) ==
  [lists |-> ListAppend([f.lists EXCEPT ![n] = <<>>], Root, n),
   key |-> [f.key EXCEPT ![n] = k]]

\* borPairHeapMin changes the forest: the least node is the first root then.
Settled(f) == IF Len(f.lists[Root]) > 1 THEN Consolidate(f) ELSE f
Min1(f) == Head(f.lists[Root])

\* The children move to the end of the roots one by one, then n leaves.
RemoveNode(f, n) ==
  LET freed == FoldLeft(LAMBDA l, c : Moved(l, c, Root), f.lists, f.lists[n])
  IN [lists |-> ListDel(freed, n), key |-> [f.key EXCEPT ![n] = NoKey]]

\* The caller has stored a smaller key k in n: n moves, with its subtree.
DecreaseKey(f, n, k) ==
  [lists |-> Moved(f.lists, n, Root), key |-> [f.key EXCEPT ![n] = k]]

Update(f, n, k) == Add(RemoveNode(f, n), n, k)

\* Every queued node is in one place of one list, children do not undercut
\* their parent, and the roots lead to every node.
WellFormed(f) ==
  LET count(n) == Cardinality({<<x, i>> \in Places \X (1..Cardinality(Nodes)) :
                                i \in DOMAIN f.lists[x] /\ f.lists[x][i] = n})
      Reach[d \in 0..Cardinality(Nodes)] ==
        IF d = 0 THEN Range(f.lists[Root])
        ELSE Reach[d - 1] \cup UNION {Range(f.lists[n]) : n \in Reach[d - 1]}
  IN /\ \A n \in Nodes : count(n) = (IF f.key[n] = NoKey THEN 0 ELSE 1)
     /\ \A n \in Nodes : \A c \in Range(f.lists[n]) : f.key[n] <= f.key[c]
     /\ Members(f) \subseteq Reach[Cardinality(Nodes)]
-----------------------------------------------------------------------------
(* One caller.  A program changes the key of a node and calls the heap at  *)
(* once, so both are one step.                                             *)

vars == <<heap, result>>

Init == heap = EmptyForest /\ result = None

AddCall(n, k) ==
  /\ heap.key[n] = NoKey
  /\ heap' = Add(heap, n, k)
  /\ result' = None

MinCall ==
  /\ ~IsEmpty(heap)
  /\ heap' = Settled(heap)
  /\ result' = <<Min1(heap'), heap'.key[Min1(heap')]>>

ExtractMin ==
  /\ ~IsEmpty(heap)
  /\ LET f == Settled(heap)
         n == Min1(f)
     IN heap' = RemoveNode(f, n) /\ result' = <<n, f.key[n]>>

DecreaseKeyCall(n, k) ==
  /\ heap.key[n] # NoKey /\ k < heap.key[n]
  /\ heap' = DecreaseKey(heap, n, k)
  /\ result' = None

UpdateCall(n, k) ==
  /\ heap.key[n] # NoKey
  /\ heap' = Update(heap, n, k)
  /\ result' = None

RemoveCall(n) ==
  /\ heap.key[n] # NoKey
  /\ heap' = RemoveNode(heap, n)
  /\ result' = None

\* recursiveClear unlinks every node, children before their parent.
Clear ==
  /\ ~IsEmpty(heap)
  /\ heap' = EmptyForest
  /\ result' = None

Next ==
  \/ \E n \in Nodes :
       \/ RemoveCall(n)
       \/ \E k \in Keys : AddCall(n, k) \/ DecreaseKeyCall(n, k) \/ UpdateCall(n, k)
  \/ MinCall \/ ExtractMin \/ Clear

Spec == Init /\ [][Next]_vars
=============================================================================
