---------------------------- MODULE Collections ----------------------------
(***************************************************************************)
(* What the containers other than queues and search trees promise: the     *)
(* LIFO, the multimap and the hash table, the hash set, the sets and the   *)
(* lists, the searches through graphs, which collect what they find, and   *)
(* the nodes, edges and faces of nets and meshes.                          *)
(***************************************************************************)
EXTENDS Integers, SequencesExt

CONSTANTS
  Elements,       \* what is pushed on a LIFO
  Nodes, Keys,    \* what a multimap holds, and under what
  Values,         \* what a set and a hash set hold
  Names,          \* of the sets
  None

VARIABLES
  inside,    \* a LIFO: the elements from the bottom; a multimap: the nodes of
             \* every key; a hash set: the values in the order of their ids;
             \* sets: the members of every one; lists: the items of every
             \* one; a search: the components in the order in which they were
             \* found, or the distance that was said of every closed node; a
             \* net or mesh: the nodes, the set of ends of each edge and the
             \* set of edges of each face
  result     \* what the last call returned; a net or mesh: the element it was
             \* about, and its answer

vars == <<inside, result>>

-----------------------------------------------------------------------------
(* LIFO: the element pushed last leaves first.                             *)

Push(x) == inside' = Append(inside, x)
Pop == inside # <<>> /\ inside' = Front(inside)
Empty == inside' = <<>>

StackNext == (\E x \in Elements : Push(x)) \/ Pop \/ Empty

-----------------------------------------------------------------------------
(* Multimap and hash table: for every key the nodes inserted with it, in   *)
(* the order in which they came.                                           *)

InUse == {k \in Keys : inside[k] # <<>>}
LeastKey == CHOOSE k \in InUse : \A j \in InUse : k <= j
Present == UNION {Range(inside[k]) : k \in Keys}
FirstOf(k) == IF inside[k] = <<>> THEN None ELSE Head(inside[k])

Insert(n, k) ==
  /\ n \notin Present
  /\ inside' = [inside EXCEPT ![k] = Append(@, n)]
  /\ result' = None

Delete(n) ==
  /\ n \in Present
  /\ inside' = [k \in Keys |-> Remove(inside[k], n)]
  /\ result' = None

ExtractFirst ==
  /\ InUse # {}
  /\ result' = Head(inside[LeastKey])
  /\ inside' = [inside EXCEPT ![LeastKey] = Tail(@)]

ExtractLast ==
  /\ InUse # {}
  /\ result' = Last(inside[LeastKey])
  /\ inside' = [inside EXCEPT ![LeastKey] = Front(@)]

Find(k) == result' = FirstOf(k) /\ UNCHANGED inside

\* The first node of the key leaves and is named.
Erase(k) ==
  /\ inside[k] # <<>>
  /\ result' = FirstOf(k)
  /\ inside' = [inside EXCEPT ![k] = Tail(@)]

Discard == inside' = [k \in Keys |-> <<>>] /\ result' = None

MultiMapNext ==
  \/ \E n \in Nodes : Delete(n) \/ \E k \in Keys : Insert(n, k)
  \/ \E k \in Keys : Find(k) \/ Erase(k)
  \/ ExtractFirst \/ ExtractLast \/ Discard

-----------------------------------------------------------------------------
(* Hash set: every value has one id, given when it is added first, counted *)
(* from 0 and valid for good.                                              *)

IdOf(v) == (CHOOSE i \in DOMAIN inside : inside[i] = v) - 1

AddNew(v) ==
  /\ v \notin Range(inside)
  /\ inside' = Append(inside, v)
  /\ result' = Len(inside)

Answer(v) ==
  /\ result' = IF v \in Range(inside) THEN IdOf(v) ELSE -1
  /\ UNCHANGED inside

InternerNext == \E v \in Values : AddNew(v) \/ Answer(v)

-----------------------------------------------------------------------------
(* The sets of _set_arr.c: they are sets.                                  *)

Becomes(a, S) == inside' = [inside EXCEPT ![a] = S]

SetsNext ==
  \E a \in Names :
    \/ \E v \in Values : Becomes(a, inside[a] \cup {v}) \/ Becomes(a, inside[a] \ {v})
    \/ \E remap \in [inside[a] -> Values] :
         /\ \A v, w \in inside[a] : v < w => remap[v] < remap[w]
         /\ Becomes(a, {remap[v] : v \in inside[a]})
    \/ \E b \in Names : \/ Becomes(a, inside[b])
                        \/ \E c \in Names : \/ Becomes(a, inside[b] \cup inside[c])
                                            \/ Becomes(a, inside[b] \cap inside[c])
                                            \/ Becomes(a, inside[b] \ inside[c])

-----------------------------------------------------------------------------
(* The lists of list.h: sequences of items, each in one of them at most.   *)

InNoList(x) == \A h \in DOMAIN inside : x \notin Range(inside[h])

ListsNext ==
  \/ \E h \in DOMAIN inside, x \in Elements :
       InNoList(x) /\ (Becomes(h, Append(inside[h], x)) \/ Becomes(h, <<x>> \o inside[h]))
  \/ \E h, g \in DOMAIN inside :
       h # g /\ inside' = [inside EXCEPT ![h] = @ \o inside[g], ![g] = <<>>]
  \/ \E h \in DOMAIN inside, gone \in SUBSET Elements :
       Becomes(h, SelectSeq(inside[h], LAMBDA x : x \notin gone))

-----------------------------------------------------------------------------
(* Searches.  Strongly connected components come one by one, each          *)
(* complete, and after all those that it leads to.                         *)

G == INSTANCE Graphs
IsComponent(c, nodes, arcs) ==
  LET reaches == G!ConnectionsIn([node |-> nodes, edge |-> arcs])
  IN \E v \in c : c = {u \in nodes : reaches[u, v] /\ reaches[v, u]}

ComponentsNext(nodes, arcs) ==
  LET earlier == UNION {inside[i] : i \in DOMAIN inside}
  IN \E c \in SUBSET (nodes \ earlier) :
       /\ IsComponent(c, nodes, arcs)
       /\ \A a \in arcs : a[1] \in c => a[2] \in c \cup earlier
       /\ inside' = Append(inside, c)

\* The nodes that a search for shortest paths closes come in the order of their
\* true distance (Infinite and more: none), with that distance.
PathsNext(distance, Infinite) ==
  LET open == DOMAIN distance \ DOMAIN inside
  IN \E n \in {n \in open : distance[n] < Infinite} :
       /\ \A m \in open : distance[n] <= distance[m]
       /\ inside' = [m \in DOMAIN inside \cup {n} |-> distance[m]]
       /\ \A m \in DOMAIN inside : inside[m] = distance[m]

-----------------------------------------------------------------------------
(* A net and a mesh: nodes, edges between nodes, and faces bounded by      *)
(* edges.  Nothing leaves that something else rests on, an edge bounds two *)
(* faces at most, and a call is refused for no other reason.               *)

Without(f, x) == [y \in DOMAIN f \ {x} |-> f[y]]
With(f, x, s) == [y \in DOMAIN f \cup {x} |-> IF y = x THEN s ELSE f[y]]
Bounds(e) == {x \in DOMAIN inside.sides : e \in inside.sides[x]}
Busy(v) == \E e \in DOMAIN inside.ends : v \in inside.ends[e]

\* The answer 0, and -1 with nothing changed.
Done(x) == result' = <<x, 0>>
Refused(x) == result' = <<x, -1>> /\ UNCHANGED inside

AddNode == \E v \in inside'.nodes \ inside.nodes :
  inside' = [inside EXCEPT !.nodes = @ \cup {v}] /\ Done(v)

AddEdge == \E e \in DOMAIN inside'.ends \ DOMAIN inside.ends : \E v, w \in inside.nodes :
  inside' = [inside EXCEPT !.ends = With(@, e, {v, w})] /\ Done(e)

AddFace == \E x \in DOMAIN inside'.sides \ DOMAIN inside.sides : \E s \in SUBSET DOMAIN inside.ends :
  /\ Cardinality(s) = 3 /\ \A e \in s : Cardinality(Bounds(e)) < 2
  /\ inside' = [inside EXCEPT !.sides = With(@, x, s)] /\ Done(x)

FaceRefused == \E x \in {result'[1]} \ DOMAIN inside.sides :
  Refused(x) /\ \E e \in DOMAIN inside.ends : Cardinality(Bounds(e)) = 2

NodeLeaves(v) == ~Busy(v) /\ inside' = [inside EXCEPT !.nodes = @ \ {v}]
EdgeLeaves(e) == Bounds(e) = {} /\ inside' = [inside EXCEPT !.ends = Without(@, e)]
FaceLeaves(x) == inside' = [inside EXCEPT !.sides = Without(@, x)]

Removal ==
  \/ \E v \in inside.nodes : (NodeLeaves(v) /\ Done(v)) \/ (Busy(v) /\ Refused(v))
  \/ \E e \in DOMAIN inside.ends : (EdgeLeaves(e) /\ Done(e)) \/ (Bounds(e) # {} /\ Refused(e))
  \/ \E x \in DOMAIN inside.sides : FaceLeaves(x) /\ Done(x)

\* The whole is deleted, one element after the other.
Dissolve ==
  /\ \/ \E v \in inside.nodes : NodeLeaves(v)
     \/ \E e \in DOMAIN inside.ends : EdgeLeaves(e)
     \/ \E x \in DOMAIN inside.sides : FaceLeaves(x)
  /\ UNCHANGED result

\* A call that is no business of nodes, edges and faces.
Other == UNCHANGED inside /\ \A x \in inside.nodes \cup DOMAIN inside.ends \cup DOMAIN inside.sides :
  result' \notin {<<x, 0>>, <<x, -1>>}

ComplexNext == AddNode \/ AddEdge \/ AddFace \/ FaceRefused \/ Removal \/ Dissolve \/ Other
=============================================================================
