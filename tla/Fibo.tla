-------------------------------- MODULE Fibo --------------------------------
(***************************************************************************)
(* The Fibonacci heap of fibo.c.  The degrees are unsigned ints of UIntBits *)
(* bits, and cons has one place for each bit; using another place is       *)
(* undefined behaviour, after which the program does nothing we can say:   *)
(* ok turns FALSE and stays so.                                            *)
(***************************************************************************)
EXTENDS Integers, SequencesExt

CONSTANTS Nodes, Root, Keys, NoKey, None,
          UIntBits    \* sizeof(unsigned int) << 3

VARIABLES heap, result

vars == <<heap, result>>

Places == Nodes \cup {Root}
ConsIndices == 0..(UIntBits - 1)
Wrapped(i) == i % (2 ^ UIntBits)

ListDel(lists, n) == [x \in Places |-> Remove(lists[x], n)]
ListAppend(lists, x, n) == [lists EXCEPT ![x] = Append(@, n)]
Moved(lists, n, x) == ListAppend(ListDel(lists, n), x, n)

\* None is the NULL pointer.
EmptyHeap ==
  [lists |-> [x \in Places |-> <<>>],
   key |-> [n \in Nodes |-> NoKey],
   degree |-> [n \in Nodes |-> 0],
   mark |-> [n \in Nodes |-> FALSE],
   parent |-> [n \in Nodes |-> None],
   min |-> None,
   ok |-> TRUE]

lt(h, a, b) == h.key[a] < h.key[b]

\* __borFiboLink: a becomes a child of b.
Link(h, a, b) ==
  [h EXCEPT !.lists = Moved(@, a, b),
            !.parent[a] = b,
            !.degree[b] = Wrapped(@ + 1),
            !.mark[a] = FALSE]

\* A bug the checks must find: a root that still points to its parent.
CutKeepsParent(h, x, y) ==
  [h EXCEPT !.lists = Moved(@, x, Root), !.degree[y] = Wrapped(@ - 1), !.mark[x] = FALSE]

\* __borFiboCut: x becomes a root, whether or not it is a child of y.
Cut(h, x, y) ==
  [h EXCEPT !.lists = Moved(@, x, Root),
            !.degree[y] = Wrapped(@ - 1),
            !.parent[x] = None,
            !.mark[x] = FALSE]

\* The loop of __borFiboCutCascade: it climbs from p to the first unmarked
\* ancestor and marks it, but what it cuts at every step is n.
RECURSIVE Cascade(_, _, _)
Cascade(h, n, p) ==
  CASE p = None -> h
    [] p # None /\ ~h.mark[p] -> [h EXCEPT !.mark[p] = TRUE]
    [] p # None /\ h.mark[p] -> LET g == Cut(h, n, p) IN Cascade(g, n, g.parent[p])

CutCascade(h, n) ==
  LET p == h.parent[n]
  IN IF p # None /\ lt(h, n, p) THEN Cascade(Cut(h, n, p), n, p) ELSE h

\* f->cons and f->max_degree while __borFiboConsolidate runs.  Between two
\* consolidations they mean nothing: an entry is set together with a
\* max_degree that reaches it, and the next run clears that far.
EmptyCons == [cons |-> [i \in ConsIndices |-> None], max_degree |-> 0]

\* The root n enters cons at d: it is linked with the roots of its degree until
\* a place is free.
RECURSIVE Enter(_, _, _, _)
Enter(h, c, n, d) ==
  IF d \notin ConsIndices THEN <<[h EXCEPT !.ok = FALSE], c>>
  ELSE LET m == c.cons[d]
           freed == [c EXCEPT !.cons[d] = None]
       IN CASE m = None ->
                 <<h, [c EXCEPT !.cons[d] = n, !.max_degree = IF d > @ THEN d ELSE @]>>
            [] m # None /\ lt(h, m, n) -> Enter(Link(h, n, m), freed, m, d + 1)
            [] OTHER -> Enter(Link(h, m, n), freed, n, d + 1)

EnterAll(h) ==
  FoldLeft(LAMBDA hc, n : IF hc[1].ok THEN Enter(hc[1], hc[2], n, hc[1].degree[n]) ELSE hc,
           <<h, EmptyCons>>, h.lists[Root])

\* The first of the least entries of cons, NULL if there is none.
LeastEntry(h, c) ==
  FoldLeft(LAMBDA m, n : IF m = None \/ (n # None /\ lt(h, n, m)) THEN n ELSE m,
           None, [i \in 1..(c.max_degree + 1) |-> c.cons[i - 1]])

Consolidate(h) ==
  LET hc == EnterAll(h)
  IN [hc[1] EXCEPT !.min = LeastEntry(hc[1], hc[2])]

\* A node that is not queued keeps stale fields, which Add sets before anybody
\* reads them.
Forget(h, n) ==
  [h EXCEPT !.key[n] = NoKey, !.degree[n] = 0, !.mark[n] = FALSE, !.parent[n] = None]

Add(h, n, k) ==
  LET g == [h EXCEPT !.key[n] = k, !.degree[n] = 0, !.mark[n] = FALSE,
                     !.parent[n] = None,
                     !.lists = ListAppend([@ EXCEPT ![n] = <<>>], Root, n)]
  IN [g EXCEPT !.min = IF @ = None \/ lt(g, n, @) THEN n ELSE @]

\* borFiboRemove.  A parent that n has not left goes on counting it.
RemoveNode(h, n) ==
  LET g == CutCascade(h, n)
      freed == FoldLeft(LAMBDA f, c : Cut(f, c, n), g, g.lists[n])
  IN Consolidate([freed EXCEPT !.lists = ListDel(@, n)])

\* The children of the least node become roots, with their marks.
WithoutMin(h) ==
  LET orphaned == FoldLeft(LAMBDA f, c : [f EXCEPT !.lists = Moved(@, c, Root),
                                                   !.parent[c] = None],
                           h, h.lists[h.min])
  IN Consolidate([orphaned EXCEPT !.lists = ListDel(@, h.min)])

-----------------------------------------------------------------------------
Init == heap = EmptyHeap /\ result = None

\* A call that left cons is the end of what is known.
Becomes(h, r) ==
  IF h.ok THEN heap' = h /\ result' = r
  ELSE heap' = [heap EXCEPT !.ok = FALSE] /\ UNCHANGED result

AddCall(n, k) ==
  /\ heap.ok /\ heap.key[n] = NoKey
  /\ Becomes(Add(heap, n, k), None)

Min1 ==
  /\ heap.ok /\ heap.min # None
  /\ Becomes(heap, <<heap.min, heap.key[heap.min]>>)

ExtractMin ==
  /\ heap.ok /\ heap.min # None
  /\ LET g == WithoutMin(heap)
     IN Becomes(Forget(g, heap.min), <<heap.min, heap.key[heap.min]>>)

DecreaseKey(n, k) ==
  /\ heap.ok /\ heap.key[n] # NoKey /\ k < heap.key[n]
  /\ LET h == CutCascade([heap EXCEPT !.key[n] = k], n)
     IN Becomes([h EXCEPT !.min = IF lt(h, n, @) THEN n ELSE @], None)

Update(n, k) ==
  /\ heap.ok /\ heap.key[n] # NoKey
  /\ LET g == RemoveNode([heap EXCEPT !.key[n] = k], n)
     IN Becomes(Add(g, n, k), None)

RemoveCall(n) ==
  /\ heap.ok /\ heap.key[n] # NoKey
  /\ Becomes(Forget(RemoveNode(heap, n), n), None)

Next ==
  \/ \E n \in Nodes :
       \/ RemoveCall(n)
       \/ \E k \in Keys : AddCall(n, k) \/ DecreaseKey(n, k) \/ Update(n, k)
  \/ Min1 \/ ExtractMin

Spec == Init /\ [][Next]_vars

-----------------------------------------------------------------------------
Queued(h) == {n \in Nodes : h.key[n] # NoKey}

\* Every queued node sits in the list of its parent, does not undercut it, and
\* min is a least node.
WellFormed(h) ==
  /\ \A n \in Queued(h) :
       LET p == IF h.parent[n] = None THEN Root ELSE h.parent[n]
       IN /\ Cardinality({i \in DOMAIN h.lists[p] : h.lists[p][i] = n}) = 1
          /\ p # Root => p \in Queued(h) /\ h.key[p] <= h.key[n]
  /\ \A x \in Places : Range(h.lists[x]) \subseteq Queued(h)
  /\ FoldFunction(LAMBDA l, total : total + Len(l), 0, h.lists) = Cardinality(Queued(h))
  /\ IF Queued(h) = {} THEN h.min = None
     ELSE h.min \in Queued(h) /\ \A n \in Queued(h) : h.key[h.min] <= h.key[n]

\* __borFiboConsolidate stays inside cons, which has an entry for every bit of
\* a degree.
StaysInCons == heap.ok
=============================================================================
