---------------------------- MODULE MultiMapInt ----------------------------
(***************************************************************************)
(* The multimap of multimap_int.c: a red-black tree of key-nodes, each the *)
(* head of the list of its nodes, and one key-node in stock for the next   *)
(* new key.                                                                *)
(***************************************************************************)
EXTENDS FiniteSetsExt, Integers, Sequences

CONSTANTS Nodes, Keys, NoKey, None, IntBits,
          Items,      \* the pairs of a node and its key that the program inserts
          KeyNodes    \* the memory for key-nodes, numbers

VARIABLES store, result

vars == <<store, result>>

T == INSTANCE RBTree WITH Nodes <- KeyNodes
L == INSTANCE CircularList WITH Heads <- KeyNodes, Listed <- Nodes

\* The key-nodes that are allocated: those in the tree and the one in stock.
Unused(tree) == KeyNodes \ T!InTree(tree)

Init ==
  /\ store = [tree |-> T!EmptyTree, lists |-> L!AllAlone, pre_keynode |-> Min(KeyNodes)]
  /\ result = None

Inside == {n \in Nodes : \E h \in KeyNodes : n \in L!ItemSet(store.lists, h)}

InsertNewKey(n, k) ==
  /\ n \notin Inside /\ T!Find(store.tree, k) = None
  /\ LET tree == T!Insert(store.tree, store.pre_keynode, k)
     IN store' = [tree |-> tree, lists |-> L!Append1(store.lists, store.pre_keynode, n),
                  pre_keynode |-> Min(Unused(tree))]
  /\ result' = None

InsertOldKey(n, k) ==
  /\ n \notin Inside /\ T!Find(store.tree, k) # None
  /\ store' = [store EXCEPT !.lists = L!Append1(@, T!Find(store.tree, k), n)]
  /\ result' = None

\* Mutant: the head is looked for on the other side, after the removal.
RemovedByPrev(s, n) ==
  LET lists == L!Del(s.lists, n)
      l == lists.prev[n]
  IN [s EXCEPT !.lists = lists,
               !.tree = IF l \in KeyNodes /\ L!Empty(lists, l) THEN T!Remove(@, l) ELSE @]

\* borMultiMapIntRemove knows neither the key nor the head: if the next link is
\* alone after the removal it was the head, and its key-node goes.
Removed(s, n) ==
  LET l == s.lists.next[n]
      lists == L!Del(s.lists, n)
  IN [s EXCEPT !.lists = lists, !.tree = IF L!Empty(lists, l) THEN T!Remove(@, l) ELSE @]

RemoveCall(n) ==
  /\ n \in Inside
  /\ store' = Removed(store, n)
  /\ result' = None

LeastHead == T!Extreme(store.tree, "left")

ExtractMinNodeFifo ==
  /\ store.tree.root # None
  /\ result' = store.lists.next[LeastHead]
  /\ store' = Removed(store, store.lists.next[LeastHead])

ExtractMinNodeLifo ==
  /\ store.tree.root # None
  /\ result' = store.lists.prev[LeastHead]
  /\ store' = Removed(store, store.lists.prev[LeastHead])

Next ==
  \/ \E i \in Items : InsertNewKey(i[1], i[2]) \/ InsertOldKey(i[1], i[2])
  \/ \E n \in Nodes : RemoveCall(n)
  \/ ExtractMinNodeFifo \/ ExtractMinNodeLifo

Spec == Init /\ [][Next]_vars

\* What borMultiMapIntFind leads to.
Under(s, k) ==
  LET h == T!Find(s.tree, k) IN IF h = None THEN <<>> ELSE L!Items(s.lists, h)

\* Every key-node in the tree has nodes, the stock is not in the tree, and the
\* links agree in both directions.
WellFormed(s) ==
  /\ T!WellFormed(s.tree)
  /\ \A h \in KeyNodes : h \in T!InTree(s.tree) <=> ~L!Empty(s.lists, h)
  /\ s.pre_keynode \notin T!InTree(s.tree)
  /\ \A l \in Nodes \cup KeyNodes : s.lists.prev[s.lists.next[l]] = l
=============================================================================
