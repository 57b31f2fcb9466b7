-------------------------------- MODULE Dij --------------------------------
(***************************************************************************)
(* The search of dij.c on the pairing heap of pairheap.c.  The keys of the *)
(* heap are the nodes' own distances.  The callback expand lists the       *)
(* neighbours of a node in the order of their names, each once; a step is  *)
(* a call of the heap or the relaxation of one neighbour.                  *)
(***************************************************************************)
EXTENDS Integers, SequencesExt

CONSTANTS Nodes, NoKey, Root, Lengths, RealMax, Start, End, Null, Arcs

VARIABLE store

Heap == INSTANCE PairHeap WITH
  Keys <- Lengths, OrEqual <- FALSE, None <- Null, heap <- store.heap, result <- Null

\* Graphs: the length of each arc of Arcs, or RealMax for an arc that is not there.
Graphs == [Arcs -> Lengths \cup {RealMax}]
Neighbours(g, n) == {m \in Nodes : <<n, m>> \in Arcs /\ g[<<n, m>>] # RealMax}

Infinite == [n \in Nodes |-> RealMax]

MinOf(a, b) == IF a < b THEN a ELSE b

\* All nodes are fresh from borDijNodeInit, and borDijRun was called.
Begun(g) ==
  [graph |-> g, outcome |-> "running",
   state |-> [n \in Nodes |-> IF n = Start THEN "open" ELSE "unknown"],
   dist |-> [Infinite EXCEPT ![Start] = 0],
   prev |-> [n \in Nodes |-> Null],
   heap |-> Heap!Add(Heap!EmptyForest, Start, 0), node |-> Null, list |-> <<>>]

\* A bug the checks must find: a node on the heap keeps its place.
RelaxUnplaced(s, n, m) ==
  LET dist == s.dist[n] + s.graph[<<n, m>>]
  IN IF s.state[m] = "closed" \/ dist >= s.dist[m] THEN s
     ELSE [s EXCEPT !.dist[m] = dist, !.prev[m] = n, !.state[m] = "open",
                    !.heap = IF s.state[m] = "open" THEN @ ELSE Heap!Add(@, m, dist)]

\* A closed node is skipped; a shorter way is stored and moves the node up, on
\* the heap or onto it.
Relax(s, n, m) ==
  LET dist == s.dist[n] + s.graph[<<n, m>>]
  IN IF s.state[m] = "closed" \/ dist >= s.dist[m] THEN s
     ELSE [s EXCEPT !.dist[m] = dist, !.prev[m] = n, !.state[m] = "open",
                    !.heap = IF s.state[m] = "open" THEN Heap!DecreaseKey(@, m, dist) ELSE Heap!Add(@, m, dist)]

\* borDijPath, read from the start.
RECURSIVE Path(_, _)
Path(s, n) == IF n = Null THEN <<>> ELSE Append(Path(s, s.prev[n]), n)

-----------------------------------------------------------------------------

Init == \E g \in Graphs : store = Begun(g)

Waiting == store.outcome = "running" /\ store.list = <<>>

\* The least node leaves the heap and is closed; End ends the search, any other
\* node is expanded.
Take ==
  /\ Waiting /\ ~Heap!IsEmpty(store.heap)
  /\ LET f == Heap!Settled(store.heap)
         n == Heap!Min1(f)
     IN store' = [store EXCEPT
          !.heap = Heap!RemoveNode(f, n), !.state[n] = "closed", !.node = n,
          !.outcome = IF n = End THEN "found" ELSE @,
          !.list = IF n = End THEN @ ELSE SetToSortSeq(Neighbours(store.graph, n), <)]

RelaxNext ==
  /\ store.list # <<>>
  /\ store' = [Relax(store, store.node, Head(store.list)) EXCEPT !.list = Tail(@)]

GiveUp ==
  /\ Waiting /\ Heap!IsEmpty(store.heap)
  /\ store' = [store EXCEPT !.outcome = "failed"]

Next == Take \/ RelaxNext \/ GiveUp

-----------------------------------------------------------------------------

\* The heap has the open nodes, under their distances; a node that was reached
\* got its distance over its predecessor, a closed one.
WellFormedSearch(s) ==
  /\ Heap!WellFormed(s.heap)
  /\ \A n \in Nodes :
       /\ s.heap.key[n] = (IF s.state[n] = "open" THEN s.dist[n] ELSE NoKey)
       /\ s.state[n] = "unknown" <=> s.dist[n] = RealMax
       /\ n # Start /\ s.state[n] # "unknown" =>
            /\ s.state[s.prev[n]] = "closed"
            /\ s.dist[n] = s.dist[s.prev[n]] + s.graph[<<s.prev[n], n>>]

\* The length of a shortest path from Start to n, RealMax or more if there is
\* none: over more and more nodes that a path may pass.
Length(g, a) == IF a \in DOMAIN g THEN g[a] ELSE RealMax
Distance(g, n) ==
  LET D[inner \in SUBSET Nodes, u \in Nodes, v \in Nodes] ==
        IF inner = {} THEN IF u = v THEN 0 ELSE Length(g, <<u, v>>)
        ELSE LET w == CHOOSE w \in inner : TRUE
                 rest == inner \ {w}
             IN MinOf(D[rest, u, v], D[rest, u, w] + D[rest, w, v])
  IN D[Nodes \ {Start, n}, Start, n]

\* The length of the path that the arcs of p make.
PathLength(g, p) ==
  FoldLeft(LAMBDA sum, i : sum + Length(g, <<p[i], p[i + 1]>>), 0, [i \in 1..(Len(p) - 1) |-> i])

\* The search finds End if there is a path, by a shortest one.
AnswersRight(s) ==
  CASE s.outcome = "running" -> TRUE
    [] s.outcome = "failed" -> Distance(s.graph, End) >= RealMax
    [] s.outcome = "found" ->
         LET p == Path(s, End)
         IN /\ p[1] = Start /\ s.dist[End] = Distance(s.graph, End)
            /\ s.dist[End] = PathLength(s.graph, p)
=============================================================================
