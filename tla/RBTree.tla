------------------------------- MODULE RBTree -------------------------------
(***************************************************************************)
(* The red-black tree of _rbtree.c, which rbtree.c and rbtree_int.c        *)
(* include.  The code writes every case twice, for left and for right;     *)
(* here the side is a parameter.  None is NULL.  Keys are those of         *)
(* rbtree_int.c, compared as an int of IntBits bits; the cmp of rbtree.c   *)
(* is the program's and compares as keys of any width do.                  *)
(***************************************************************************)
EXTENDS Integers, Sequences, FiniteSets

CONSTANTS
  Nodes, NoKey, None,
  Keys,
  IntBits,
  Items    \* the pairs of a node and its key that the program inserts

VARIABLE store

Sides == {"left", "right"}
Other(s) == IF s = "left" THEN "right" ELSE "left"

EmptyTree ==
  [root |-> None,
   kid |-> [n \in Nodes |-> [s \in Sides |-> None]],
   parent |-> [n \in Nodes |-> None],
   red |-> [n \in Nodes |-> FALSE],
   key |-> [n \in Nodes |-> NoKey]]

InTree(t) == {n \in Nodes : t.key[n] # NoKey}
Black(t, n) == n = None \/ ~t.red[n]
SideOf(t, n) == IF t.kid[t.parent[n]]["left"] = n THEN "left" ELSE "right"

\* Whoever points down to n, its parent p or the head, points to m.
Repoint(t, p, n, m) ==
  IF p = None THEN [t EXCEPT !.root = m]
  ELSE IF t.kid[p]["left"] = n THEN [t EXCEPT !.kid[p]["left"] = m]
  ELSE [t EXCEPT !.kid[p]["right"] = m]

SetParent(t, n, p) == IF n = None THEN t ELSE [t EXCEPT !.parent[n] = p]

\* RB_ROTATE_LEFT for s = "left": n goes down to that side, its other child
\* takes its place.
Rotate(t, n, s) ==
  LET up == t.kid[n][Other(s)]
      inner == t.kid[up][s]
      t1 == SetParent([t EXCEPT !.kid[n][Other(s)] = inner], inner, n)
      t2 == Repoint([t1 EXCEPT !.parent[up] = t.parent[n]], t.parent[n], n, up)
  IN [t2 EXCEPT !.kid[up][s] = n, !.parent[n] = up]

\* rbInsertColor
RECURSIVE InsertColor(_, _)
InsertColor(t, n) ==
  LET p == t.parent[n]
  IN IF Black(t, p) THEN [t EXCEPT !.red[t.root] = FALSE]
     ELSE LET g == t.parent[p]
              s == SideOf(t, p)
              uncle == t.kid[g][Other(s)]
          IN IF ~Black(t, uncle)
             THEN InsertColor([t EXCEPT !.red[uncle] = FALSE, !.red[p] = FALSE, !.red[g] = TRUE], g)
             ELSE LET bent == t.kid[p][Other(s)] = n
                      t1 == IF bent THEN Rotate(t, p, s) ELSE t
                      top == IF bent THEN n ELSE p
                      t2 == [t1 EXCEPT !.red[top] = FALSE, !.red[g] = TRUE]
                  IN InsertColor(Rotate(t2, g, Other(s)), IF bent THEN p ELSE n)

\* What the key is with the colour bit set, and a difference as an int.
Shifted(k) == 2 * k + 1
Half == 2^(IntBits - 1)
Wrapped(x) == ((x + Half) % (2 * Half)) - Half

\* Mutant: the colour bit of the node in the tree is left as it is.
ComparedColoured(t, k, n) == Wrapped(Shifted(k) - (2 * t.key[n] + (IF t.red[n] THEN 1 ELSE 0)))

\* RB_CMP of rbtree_int.c
Compared(t, k, n) == Wrapped(Shifted(k) - Shifted(t.key[n]))

\* The descent of RB_INSERT for key k: the last node before a NULL or the node
\* that has the key.
RECURSIVE Descent(_, _, _)
Descent(t, k, n) ==
  LET s == IF Compared(t, k, n) < 0 THEN "left" ELSE "right"
  IN IF Compared(t, k, n) = 0 \/ t.kid[n][s] = None THEN n ELSE Descent(t, k, t.kid[n][s])

\* The new node below p, which is None in an empty tree.
Hung(t, n, k, p) ==
  LET set == [t EXCEPT !.key[n] = k, !.parent[n] = p, !.red[n] = TRUE,
                       !.kid[n] = [s \in Sides |-> None]]
  IN InsertColor(IF p = None THEN [set EXCEPT !.root = n]
                 ELSE [set EXCEPT !.kid[p][IF Compared(t, k, p) < 0 THEN "left" ELSE "right"] = n],
                 n)

\* RB_INSERT; a node that has the key already keeps the new one out.
Insert(t, n, k) ==
  LET p == IF t.root = None THEN None ELSE Descent(t, k, t.root)
  IN IF p # None /\ Compared(t, k, p) = 0 THEN t ELSE Hung(t, n, k, p)

\* rbRemoveColor: n, child of p and possibly NULL, is short of a black node.
RECURSIVE RemoveColor(_, _, _)
RemoveColor(t, p, n) ==
  IF ~Black(t, n) \/ n = t.root
  THEN IF n = None THEN t ELSE [t EXCEPT !.red[n] = FALSE]
  ELSE LET s == IF t.kid[p]["left"] = n THEN "left" ELSE "right"
           o == Other(s)
           m0 == t.kid[p][o]
           t1 == IF t.red[m0]
                 THEN Rotate([t EXCEPT !.red[m0] = FALSE, !.red[p] = TRUE], p, s) ELSE t
           m == t1.kid[p][o]
       IN IF Black(t1, t1.kid[m]["left"]) /\ Black(t1, t1.kid[m]["right"])
          THEN RemoveColor([t1 EXCEPT !.red[m] = TRUE], t1.parent[p], p)
          ELSE LET near == t1.kid[m][s]
                   t2 == IF Black(t1, t1.kid[m][o])
                         THEN Rotate([t1 EXCEPT !.red[near] = FALSE, !.red[m] = TRUE], m, o)
                         ELSE t1
                   m2 == t2.kid[p][o]
                   t3 == [t2 EXCEPT !.red[m2] = t2.red[p], !.red[p] = FALSE,
                                    !.red[t2.kid[m2][o]] = FALSE]
                   t4 == Rotate(t3, p, s)
               IN [t4 EXCEPT !.red[t4.root] = FALSE]

\* The first node below n on the way to side s that has no child there.
RECURSIVE Outermost(_, _, _)
Outermost(t, n, s) == IF t.kid[n][s] = None THEN n ELSE Outermost(t, t.kid[n][s], s)

\* Mutant: a black node leaves without repair when a child takes its place.
SplicedNoColor(t, n) ==
  LET child == IF t.kid[n]["left"] = None THEN t.kid[n]["right"] ELSE t.kid[n]["left"]
  IN Repoint(SetParent(t, child, t.parent[n]), t.parent[n], n, child)

\* A node with one child at most gives its place to it.
Spliced(t, n) ==
  LET child == IF t.kid[n]["left"] = None THEN t.kid[n]["right"] ELSE t.kid[n]["left"]
      p == t.parent[n]
      t1 == Repoint(SetParent(t, child, p), p, n, child)
  IN IF t.red[n] THEN t1 ELSE RemoveColor(t1, p, child)

\* A node with two children gives its place, links and colour to its
\* successor, which is spliced out first.
Succeeded(t, n) ==
  LET m == Outermost(t, t.kid[n]["right"], "left")
      child == t.kid[m]["right"]
      p == t.parent[m]
      t1 == Repoint(SetParent(t, child, p), p, m, child)
      short == IF p = n THEN m ELSE p
      t2 == [t1 EXCEPT !.kid[m] = t1.kid[n], !.parent[m] = t1.parent[n], !.red[m] = t1.red[n]]
      t3 == Repoint(t2, t2.parent[n], n, m)
      t4 == SetParent(SetParent(t3, t3.kid[n]["left"], m), t3.kid[n]["right"], m)
  IN IF t.red[m] THEN t4 ELSE RemoveColor(t4, short, child)

\* RB_REMOVE; what the removed node keeps in its fields does not matter.
Remove(t, n) ==
  LET t1 == IF None \in {t.kid[n][s] : s \in Sides} THEN Spliced(t, n) ELSE Succeeded(t, n)
  IN [t1 EXCEPT !.key[n] = NoKey, !.red[n] = FALSE, !.parent[n] = None,
                !.kid[n] = [s \in Sides |-> None]]

-----------------------------------------------------------------------------
RECURSIVE FindFrom(_, _, _)
FindFrom(t, k, n) ==
  IF n = None \/ t.key[n] = k THEN n
  ELSE FindFrom(t, k, t.kid[n][IF k < t.key[n] THEN "left" ELSE "right"])
Find(t, k) == FindFrom(t, k, t.root)

RECURSIVE NearestFrom(_, _, _, _)
NearestFrom(t, k, n, best) ==
  CASE n = None -> best
    [] n # None /\ k = t.key[n] -> n
    [] n # None /\ k < t.key[n] -> NearestFrom(t, k, t.kid[n]["left"], n)
    [] OTHER -> NearestFrom(t, k, t.kid[n]["right"], best)
FindNearestGE(t, k) == NearestFrom(t, k, t.root, None)

\* Up from n, over ancestors of which n is on side s.
RECURSIVE Above(_, _, _)
Above(t, n, s) ==
  IF t.parent[n] # None /\ t.kid[t.parent[n]][s] = n THEN Above(t, t.parent[n], s)
  ELSE t.parent[n]

\* Mutant: the parent is taken for the next node on either side of it.
NeighbourNoClimb(t, n, s) ==
  IF t.kid[n][s] # None THEN Outermost(t, t.kid[n][s], Other(s)) ELSE t.parent[n]

\* borRBTreeNext for s = "right", borRBTreePrev for s = "left".
Neighbour(t, n, s) ==
  IF t.kid[n][s] # None THEN Outermost(t, t.kid[n][s], Other(s)) ELSE Above(t, n, s)

\* borRBTreeMin for s = "left", borRBTreeMax for s = "right".
Extreme(t, s) == IF t.root = None THEN None ELSE Outermost(t, t.root, s)

-----------------------------------------------------------------------------
RECURSIVE Under(_, _)
Under(t, n) == IF n = None THEN {} ELSE {n} \cup UNION {Under(t, t.kid[n][s]) : s \in Sides}

\* The numbers of black nodes on the paths from n down.
RECURSIVE BlackHeights(_, _)
BlackHeights(t, n) ==
  IF n = None THEN {0}
  ELSE {h + (IF t.red[n] THEN 0 ELSE 1) : h \in UNION {BlackHeights(t, t.kid[n][s]) : s \in Sides}}

\* A search tree, linked both ways, whose paths have equally many black nodes
\* and no two red ones in a row.
WellFormed(t) ==
  /\ Under(t, t.root) = InTree(t)
  /\ t.root # None => t.parent[t.root] = None
  /\ \A n \in InTree(t), s \in Sides :
       LET c == t.kid[n][s]
       IN /\ c # None => t.parent[c] = n /\ (t.red[n] => ~t.red[c])
          /\ \A m \in Under(t, c) : IF s = "left" THEN t.key[m] < t.key[n] ELSE t.key[m] > t.key[n]
  /\ Cardinality(BlackHeights(t, t.root)) = 1

-----------------------------------------------------------------------------
(* The calls that change the tree.  Those that only look (find, nearest,   *)
(* next, previous, least, greatest) are judged by QueriesAnswer in every   *)
(* state.                                                                  *)

Init == store = EmptyTree

\* A node that has the key already stays and is returned.
InsertCall(n, k) ==
  /\ n \notin InTree(store)
  /\ store' = Insert(store, n, k)

RemoveCall(n) ==
  /\ n \in InTree(store)
  /\ store' = Remove(store, n)

ExtractMin ==
  /\ store.root # None
  /\ store' = Remove(store, Extreme(store, "left"))

Next ==
  \/ \E i \in Items : InsertCall(i[1], i[2])
  \/ \E n \in Nodes : RemoveCall(n)
  \/ ExtractMin

Spec == Init /\ [][Next]_store

\* Every search and every walk finds what the order of the keys says.
QueriesAnswer(t) ==
  LET M == INSTANCE KeyedNodes WITH keyOf <- t.key, result <- None
  IN /\ \A k \in Keys : Find(t, k) = M!At(k) /\ FindNearestGE(t, k) = M!NearestGE(k)
     /\ \A n \in InTree(t) : /\ Neighbour(t, n, "right") = M!Next1(n)
                             /\ Neighbour(t, n, "left") = M!Prev1(n)
     /\ Extreme(t, "left") = M!First(M!Queued)
     /\ Extreme(t, "right") = M!Final(M!Queued)
=============================================================================
