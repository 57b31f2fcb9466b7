------------------------------- MODULE Tarjan -------------------------------
(***************************************************************************)
(* Tarjan's search for strongly connected components, which scc.c and      *)
(* borDigraphSCC of digraph.c both have.  The recursion is a stack of      *)
(* frames: a node and the successors that its loop has still to see.       *)
(*                                                                         *)
(* Searches has the graphs to be searched with the root of each search: -1 *)
(* for all nodes, or the node of borSCC1.                                  *)
(***************************************************************************)
EXTENDS Integers, FiniteSets, SequencesExt

CONSTANTS Size, Searches

VARIABLE store

NodeIds == 0..(Size - 1)

\* The successors of a node in the order of the callbacks, or of the edge ids.
Successors(arcs, v) == SetToSortSeq({a[2] : a \in {a \in arcs : a[1] = v}}, <)

Begun(arcs, root) ==
  [arcs |-> arcs, root |-> root, curIndex |-> 0,
   index |-> [v \in NodeIds |-> -1], lowlink |-> [v \in NodeIds |-> -1],
   inStack |-> [v \in NodeIds |-> FALSE], stack |-> <<>>,
   calls |-> <<>>, comps |-> <<>>, searched |-> FALSE, todo |-> arcs, links |-> <<>>]

Top(s) == Last(s.calls)
MinOf(a, b) == IF a < b THEN a ELSE b

\* sccTarjanStrongconnect begins with a node.
Enter(s, v) ==
  [s EXCEPT !.index[v] = s.curIndex, !.lowlink[v] = s.curIndex, !.curIndex = @ + 1,
            !.stack = Append(@, v), !.inStack[v] = TRUE,
            !.calls = Append(@, [node |-> v, left |-> Successors(s.arcs, v)])]

\* The loop of the top frame has its next successor.
Advanced(s) == [s EXCEPT !.calls[Len(s.calls)].left = Tail(@)]

\* The component on top of the stack, down to v.
Extract(s, v) ==
  LET i == CHOOSE i \in DOMAIN s.stack : s.stack[i] = v
      comp == {s.stack[j] : j \in i..Len(s.stack)}
  IN [s EXCEPT !.stack = SubSeq(@, 1, i - 1),
               !.inStack = [u \in NodeIds |-> @[u] /\ u \notin comp],
               !.comps = Append(@, comp)]

\* The caller of a finished call takes over its lowlink.
Leave(s, v) ==
  LET calls == Front(s.calls)
      s1 == [s EXCEPT !.calls = calls]
  IN IF calls = <<>> THEN s1
     ELSE [s1 EXCEPT !.lowlink[Last(calls).node] = MinOf(@, s.lowlink[v])]

-----------------------------------------------------------------------------

Init == \E x \in Searches : store = Begun(x[1], x[2])

Unseen(s) == {v \in NodeIds : s.index[v] = -1}
NextRoots(s) ==
  IF s.root = -1 THEN {v \in Unseen(s) : \A u \in Unseen(s) : v <= u}
  ELSE {s.root} \cap Unseen(s)

StartRoot ==
  /\ store.calls = <<>> /\ ~store.searched
  /\ \E v \in NextRoots(store) : store' = Enter(store, v)

Descend ==
  /\ store.calls # <<>> /\ Top(store).left # <<>>
  /\ LET w == Head(Top(store).left)
     IN store.index[w] = -1 /\ store' = Enter(Advanced(store), w)

SeeInStack ==
  /\ store.calls # <<>> /\ Top(store).left # <<>>
  /\ LET w == Head(Top(store).left)
         v == Top(store).node
     IN /\ store.index[w] # -1 /\ store.inStack[w]
        /\ store' = [Advanced(store) EXCEPT !.lowlink[v] = MinOf(@, store.lowlink[w])]

Skip ==
  /\ store.calls # <<>> /\ Top(store).left # <<>>
  /\ LET w == Head(Top(store).left)
     IN store.index[w] # -1 /\ ~store.inStack[w] /\ store' = Advanced(store)

\* A bug the checks must find: a finished call keeps its lowlink to itself.
ReturnSilently ==
  /\ store.calls # <<>> /\ Top(store).left = <<>>
  /\ LET v == Top(store).node
         s == IF store.index[v] = store.lowlink[v] THEN Extract(store, v) ELSE store
     IN store' = [s EXCEPT !.calls = Front(@)]

Return ==
  /\ store.calls # <<>> /\ Top(store).left = <<>>
  /\ LET v == Top(store).node
         s == IF store.index[v] = store.lowlink[v] THEN Extract(store, v) ELSE store
     IN store' = Leave(s, v)

\* The search is over.  borDigraphSCC goes on to the edges, unless there is only
\* one component; borSCC1 does not, and has one root.
Searched ==
  /\ store.calls = <<>> /\ ~store.searched /\ NextRoots(store) = {}
  /\ store' = [store EXCEPT !.searched = TRUE,
                 !.todo = IF store.root # -1 \/ Len(store.comps) <= 1 THEN {} ELSE @]

\* sccAddEdges has its next arc, in the order of their ids: one that leads from one component to another
\* labels the edge between them, a new one if there was none.
CompOf(s, v) == CHOOSE c \in DOMAIN s.comps : v \in s.comps[c]
AddLink(s, a) ==
  LET from == CompOf(s, a[1])
      to == CompOf(s, a[2])
      known == {k \in DOMAIN s.links : s.links[k].from = from /\ s.links[k].to = to}
  IN CASE from = to -> s
       [] from # to /\ known = {} ->
            [s EXCEPT !.links = Append(@, [from |-> from, to |-> to, label |-> {a}])]
       [] from # to /\ known # {} ->
            [s EXCEPT !.links[CHOOSE k \in known : TRUE].label = @ \cup {a}]

Before(a, b) == a[1] < b[1] \/ (a[1] = b[1] /\ a[2] <= b[2])

Link ==
  /\ store.searched
  /\ \E a \in store.todo :
       /\ \A b \in store.todo : Before(a, b)
       /\ store' = [AddLink(store, a) EXCEPT !.todo = @ \ {a}]

Done(s) == s.searched /\ s.todo = {}

Next == StartRoot \/ Descend \/ SeeInStack \/ Skip \/ Return \/ Searched \/ Link

-----------------------------------------------------------------------------

G == INSTANCE Graphs
Reaches(s) == G!ConnectionsIn([node |-> NodeIds, edge |-> s.arcs])
ClassOf(reaches, v) == {u \in NodeIds : reaches[u, v] /\ reaches[v, u]}

\* The stack has the nodes with a mark and in the order in which they were
\* visited; the open calls are a path through it; a lowlink is the index of a
\* node of the stack that can be reached; and every node of the stack is on a
\* cycle with an open call below it, or is one.
WellFormed(s) ==
  LET reaches == Reaches(s)
      onStack == Range(s.stack)
      open == {s.calls[i].node : i \in DOMAIN s.calls}
  IN /\ onStack = {v \in NodeIds : s.inStack[v]}
     /\ \A i, j \in DOMAIN s.stack : i < j => s.index[s.stack[i]] < s.index[s.stack[j]]
     /\ \A i \in 1..(Len(s.calls) - 1) :
          /\ <<s.calls[i].node, s.calls[i + 1].node>> \in s.arcs
          /\ s.index[s.calls[i].node] < s.index[s.calls[i + 1].node]
     /\ open \subseteq onStack
     /\ \A v \in onStack :
          /\ s.lowlink[v] <= s.index[v]
          /\ \E u \in onStack : s.index[u] = s.lowlink[v] /\ reaches[v, u]
          /\ \E u \in open : s.index[u] <= s.index[v] /\ reaches[v, u] /\ reaches[u, v]
     /\ \A v \in NodeIds \ Unseen(s) :
          Cardinality({c \in DOMAIN s.comps : v \in s.comps[c]}) = (IF s.inStack[v] THEN 0 ELSE 1)

\* At the end the components are all classes of nodes that reach each other (of
\* those the root reaches), and the edges between them are the arcs between them.
AnswersRight(s) ==
  LET reaches == Reaches(s)
      seen == IF s.root = -1 THEN NodeIds ELSE {v \in NodeIds : reaches[s.root, v]}
      between(c, d) == {a \in s.arcs : a[1] \in s.comps[c] /\ a[2] \in s.comps[d]}
      linked(c, d) == {k \in DOMAIN s.links : s.links[k].from = c /\ s.links[k].to = d}
  IN Done(s) =>
       /\ Range(s.comps) = {ClassOf(reaches, v) : v \in seen}
       /\ IF s.root = -1
          THEN \A c, d \in DOMAIN s.comps :
                 IF c = d \/ between(c, d) = {} THEN linked(c, d) = {}
                 ELSE \E k \in DOMAIN s.links :
                        linked(c, d) = {k} /\ s.links[k].label = between(c, d)
          ELSE s.links = <<>>
=============================================================================
