----------------------------- MODULE SplayTree -----------------------------
(***************************************************************************)
(* The splay tree of splaytree_def.h, for splaytree.c and splaytree_int.c. *)
(* Every call, a search too, moves the node it is about to the root.       *)
(***************************************************************************)
EXTENDS Integers, FiniteSets

CONSTANTS Nodes, Keys, NoKey, None,
          Items,    \* the pairs of a node and its key that the program inserts
          Header    \* the local __node of borSplay

VARIABLE store

Sides == {"left", "right"}
Other(s) == IF s = "left" THEN "right" ELSE "left"
NoKids == [s \in Sides |-> None]

EmptyTree ==
  [root |-> None,
   kid |-> [n \in Nodes \cup {Header} |-> NoKids],
   key |-> [n \in Nodes |-> NoKey]]

InTree(t) == {n \in Nodes : t.key[n] # NoKey}

\* BOR_SPLAY_ROTATE_RIGHT for s = "left": the child on side s becomes root.
RotateRoot(t, s) ==
  LET c == t.kid[t.root][s]
  IN [t EXCEPT !.kid[t.root][s] = t.kid[c][Other(s)], !.kid[c][Other(s)] = t.root, !.root = c]

\* BOR_SPLAY_LINKLEFT for s = "left": the root and what is beyond it hang below
\* hook[s], and the descent goes on at side s.
Link(w, s) ==
  LET r == w.tree.root
  IN [tree |-> [w.tree EXCEPT !.kid[w.hook[s]][s] = r, !.root = w.tree.kid[r][s]],
      hook |-> [w.hook EXCEPT ![s] = r]]

\* The loop of borSplay.  A key below all others makes it the loop of
\* borSplayMin, one above them that of borSplayMax.
RECURSIVE Descend(_, _)
Descend(w, k) ==
  LET r == w.tree.root
      s == IF k < w.tree.key[r] THEN "left" ELSE "right"
      c == w.tree.kid[r][s]
  IN IF k = w.tree.key[r] \/ c = None THEN w
     ELSE LET beyond == IF s = "left" THEN k < w.tree.key[c] ELSE k > w.tree.key[c]
              t == IF beyond THEN RotateRoot(w.tree, s) ELSE w.tree
          IN IF t.kid[t.root][s] = None THEN [w EXCEPT !.tree = t]
             ELSE Descend(Link([w EXCEPT !.tree = t], s), k)

\* BOR_SPLAY_ASSEMBLE: __right is hook["left"], __left is hook["right"].
Assemble(w) ==
  LET r == w.tree.root
      t1 == [w.tree EXCEPT !.kid[w.hook["right"]]["right"] = w.tree.kid[r]["left"]]
      t2 == [t1 EXCEPT !.kid[w.hook["left"]]["left"] = t1.kid[r]["right"]]
  IN [t2 EXCEPT !.kid[r] = [left |-> t2.kid[Header]["right"], right |-> t2.kid[Header]["left"]],
                !.kid[Header] = NoKids]

Splay(t, k) == Assemble(Descend([tree |-> t, hook |-> [s \in Sides |-> Header]], k))

BelowAll == -1
AboveAll == NoKey

\* A new node becomes root between the two parts of the splayed tree.
Insert(t, n, k) ==
  LET r == t.root
      s == IF k < t.key[r] THEN "left" ELSE "right"
  IN [t EXCEPT !.kid[n][s] = t.kid[r][s], !.kid[n][Other(s)] = r, !.kid[r][s] = None,
               !.root = n, !.key[n] = k]

\* Mutant: the left part is not splayed before it takes the right one.
RemoveRootNoSplay(t) ==
  LET n == t.root
      l == t.kid[n]["left"]
      t1 == IF l = None THEN [t EXCEPT !.root = t.kid[n]["right"]]
            ELSE [t EXCEPT !.root = l, !.kid[l]["right"] = t.kid[n]["right"]]
  IN [t1 EXCEPT !.key[n] = NoKey, !.kid[n] = NoKids]

\* The root leaves its splayed tree; the left part is splayed for its key,
\* which brings the greatest node up, and takes the right part.
RemoveRoot(t) ==
  LET n == t.root
      left == Splay([t EXCEPT !.root = t.kid[n]["left"]], t.key[n])
      t1 == IF t.kid[n]["left"] = None THEN [t EXCEPT !.root = t.kid[n]["right"]]
            ELSE [left EXCEPT !.kid[left.root]["right"] = t.kid[n]["right"]]
  IN [t1 EXCEPT !.key[n] = NoKey, !.kid[n] = NoKids]

-----------------------------------------------------------------------------
(* The answers; a call that asks also leaves the tree as its splay made it. *)

\* borSplayFind; an insertion returns a node that has the key already.
Find(t, k) ==
  LET u == Splay(t, k) IN IF t.root # None /\ u.key[u.root] = k THEN u.root ELSE None

RECURSIVE Outermost(_, _, _)
Outermost(t, n, s) == IF t.kid[n][s] = None THEN n ELSE Outermost(t, t.kid[n][s], s)

\* borSplayNext for s = "right", borSplayPrev for s = "left".
Neighbour(t, n, s) ==
  LET u == Splay(t, t.key[n])
  IN IF u.kid[n][s] = None THEN None ELSE Outermost(u, u.kid[n][s], Other(s))

\* borSplayMin for k = BelowAll, borSplayMax for k = AboveAll.
Extreme(t, k) == IF t.root = None THEN None ELSE Splay(t, k).root

-----------------------------------------------------------------------------
Init == store = EmptyTree

InsertFirst(n, k) ==
  /\ store.root = None
  /\ store' = [store EXCEPT !.root = n, !.key[n] = k]

InsertMore(n, k) ==
  /\ store.root # None /\ n \notin InTree(store)
  /\ LET t == Splay(store, k)
     IN store' = IF t.key[t.root] = k THEN t ELSE Insert(t, n, k)

Remove(n) ==
  /\ n \in InTree(store)
  /\ store' = RemoveRoot(Splay(store, store.key[n]))

Ask(k) ==
  /\ store.root # None
  /\ store' = Splay(store, k)

ExtractMin ==
  /\ store.root # None
  /\ LET t == Splay(store, BelowAll) IN store' = RemoveRoot(Splay(t, t.key[t.root]))

Next ==
  \/ \E i \in Items : InsertFirst(i[1], i[2]) \/ InsertMore(i[1], i[2])
  \/ \E n \in Nodes : Remove(n)
  \/ \E k \in Keys \cup {BelowAll, AboveAll} : Ask(k)
  \/ ExtractMin

Spec == Init /\ [][Next]_store

\* Every search and every walk finds what the order of the keys says.
QueriesAnswer(t) ==
  LET M == INSTANCE KeyedNodes WITH keyOf <- t.key, result <- None
  IN /\ \A k \in Keys : Find(t, k) = M!At(k)
     /\ \A n \in InTree(t) : /\ Neighbour(t, n, "right") = M!Next1(n)
                             /\ Neighbour(t, n, "left") = M!Prev1(n)
     /\ Extreme(t, BelowAll) = M!First(M!Queued)
     /\ Extreme(t, AboveAll) = M!Final(M!Queued)

RECURSIVE Under(_, _)
Under(t, n) == IF n = None THEN {} ELSE {n} \cup UNION {Under(t, t.kid[n][s]) : s \in Sides}

\* All nodes hang below the root once, in the order of their keys.
WellFormed(t) ==
  /\ Under(t, t.root) = InTree(t)
  /\ \A n \in InTree(t) :
       /\ \A m \in Under(t, t.kid[n]["left"]) : t.key[m] < t.key[n]
       /\ \A m \in Under(t, t.kid[n]["right"]) : t.key[m] > t.key[n]
=============================================================================
