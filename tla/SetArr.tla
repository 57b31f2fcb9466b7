------------------------------- MODULE SetArr -------------------------------
(***************************************************************************)
(* The sets of _set_arr.c (iset, lset, cset): sorted arrays without        *)
(* duplicates.  The growth of the memory is left out.                      *)
(***************************************************************************)
EXTENDS Integers, SequencesExt

CONSTANTS Names,     \* the sets of a program
          Values

VARIABLE store       \* the array of every set

\* The new element sinks to its place from the end and disappears beside an
\* equal one.
Add(s, v) ==
  LET below == Max({0} \cup {i \in DOMAIN s : s[i] <= v})
  IN IF below > 0 /\ s[below] = v THEN s ELSE InsertAt(s, below + 1, v)

AddAll(s, t) == FoldLeft(Add, s, t)

Rm(s, v) ==
  LET above == {i \in DOMAIN s : s[i] >= v}
  IN IF above # {} /\ s[Min(above)] = v THEN RemoveAt(s, Min(above)) ELSE s

\* The walk of two indices that all binary operations share: it keeps the
\* elements of both arrays, of the first only, of the second only, as told.
RECURSIVE Walk(_, _, _)
Walk(s, t, keep) ==
  LET kept(what, v) == IF what \in keep THEN <<v>> ELSE <<>>
  IN CASE s = <<>> -> IF "second" \in keep THEN t ELSE <<>>
       [] s # <<>> /\ t = <<>> -> IF "first" \in keep THEN s ELSE <<>>
       [] s # <<>> /\ t # <<>> /\ Head(s) = Head(t) ->
            kept("both", Head(s)) \o Walk(Tail(s), Tail(t), keep)
       [] s # <<>> /\ t # <<>> /\ Head(s) < Head(t) ->
            kept("first", Head(s)) \o Walk(Tail(s), t, keep)
       [] OTHER -> kept("second", Head(t)) \o Walk(s, Tail(t), keep)

Union2(s, t) == AddAll(<<>>, Walk(s, t, {"both", "first", "second"}))
Intersect(s, t) == Walk(s, t, {"both"})
Intersect2(s, t) == AddAll(<<>>, Walk(s, t, {"both"}))
Minus(s, t) == Walk(s, t, {"first"})
Minus2(s, t) == AddAll(<<>>, Walk(s, t, {"first"}))

Remapped(s, remap) == [i \in DOMAIN s |-> remap[s[i]]]

Has(s, v) == \E i \in DOMAIN s : s[i] = v
IsSubset(s, t) == Len(s) <= Len(t) /\ Walk(s, t, {"first"}) = <<>>
IntersectionSize(s, t) == Len(Walk(s, t, {"both"}))

\* The counts below stop at the limit.
IntersectionSizeAtLeast(s, t, limit) == limit = 0 \/ IntersectionSize(s, t) >= limit

RECURSIVE Common3(_, _, _)
Common3(s, t, u) ==
  CASE s = <<>> \/ t = <<>> \/ u = <<>> -> 0
    [] s # <<>> /\ t # <<>> /\ u # <<>> ->
         LET a == Head(s)  b == Head(t)  c == Head(u)
         IN CASE a = b /\ a = c -> 1 + Common3(Tail(s), Tail(t), Tail(u))
              [] a < b \/ a < c -> Common3(Tail(s), t, u)
              [] ~(a < b \/ a < c) /\ (b < a \/ b < c) -> Common3(s, Tail(t), u)
              [] OTHER -> Common3(s, t, Tail(u))

\* Mutant: the count is compared before it is raised.
AtLeast3LateCount(s, t, u, limit) == limit = 0 \/ Common3(s, t, u) > limit

IntersectionSizeAtLeast3(s, t, u, limit) == limit = 0 \/ Common3(s, t, u) >= limit

-----------------------------------------------------------------------------
Init == store = [a \in Names |-> <<>>]

AddCall(a, v) == store' = [store EXCEPT ![a] = Add(@, v)]
RmCall(a, v) == store' = [store EXCEPT ![a] = Rm(@, v)]
SetCall(a, b) == store' = [store EXCEPT ![a] = store[b]]
UnionCall(a, b) == store' = [store EXCEPT ![a] = AddAll(@, store[b])]
IntersectCall(a, b) == store' = [store EXCEPT ![a] = Intersect(@, store[b])]
MinusCall(a, b) == store' = [store EXCEPT ![a] = Minus(@, store[b])]
Union2Call(a, b, c) == store' = [store EXCEPT ![a] = Union2(store[b], store[c])]
Intersect2Call(a, b, c) == store' = [store EXCEPT ![a] = Intersect2(store[b], store[c])]
Minus2Call(a, b, c) == store' = [store EXCEPT ![a] = Minus2(store[b], store[c])]

\* borSetRemap wants a map that keeps the order.
RemapCall(a, remap) ==
  /\ \A v, w \in Range(store[a]) : v < w => remap[v] < remap[w]
  /\ store' = [store EXCEPT ![a] = Remapped(@, remap)]

\* The destination of the calls with two sources is emptied first: it is none
\* of them.
Next ==
  \E a \in Names :
    \/ \E v \in Values : AddCall(a, v) \/ RmCall(a, v)
    \/ \E remap \in [Range(store[a]) -> Values] : RemapCall(a, remap)
    \/ \E b \in Names \ {a} :
         \/ SetCall(a, b) \/ UnionCall(a, b) \/ IntersectCall(a, b) \/ MinusCall(a, b)
         \/ \E c \in Names \ {a} : Union2Call(a, b, c) \/ Intersect2Call(a, b, c) \/ Minus2Call(a, b, c)

Spec == Init /\ [][Next]_store

\* The arrays are sorted and without duplicates.
WellFormed(st) == \A a \in Names : \A i \in 2..Len(st[a]) : st[a][i - 1] < st[a][i]

\* The questions are answered as for sets.
QueriesAnswer(st) ==
  \A a, b \in Names :
    LET A == Range(st[a])
        B == Range(st[b])
    IN /\ \A v \in Values : Has(st[a], v) <=> v \in A
       /\ IsSubset(st[a], st[b]) <=> A \subseteq B
       /\ IntersectionSize(st[a], st[b]) = Cardinality(A \cap B)
       /\ \A n \in 0..Cardinality(Values) :
            /\ IntersectionSizeAtLeast(st[a], st[b], n) <=> Cardinality(A \cap B) >= n
            /\ \A c \in Names : IntersectionSizeAtLeast3(st[a], st[b], st[c], n)
                                  <=> Cardinality(A \cap B \cap Range(st[c])) >= n
=============================================================================
