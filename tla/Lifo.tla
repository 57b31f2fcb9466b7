-------------------------------- MODULE Lifo --------------------------------
(***************************************************************************)
(* The segmented stack of lifo.c.  A segment has room for SegCap elements; *)
(* cur is the place of the top element in the last segment, counted from   *)
(* 1, and 0 for the NULL of an empty stack.  Places above hold what was    *)
(* left there.                                                             *)
(***************************************************************************)
EXTENDS Integers, SequencesExt

CONSTANTS Elements, Junk, SegCap,
          MaxLen    \* a bound on the elements, for the model only

VARIABLE store

EmptyLifo == [segms |-> <<>>, cur |-> 0]

IsEmpty(l) == l.segms = <<>>
Back(l) == Last(l.segms)[l.cur]

\* lifoAddSegment leaves cur at the first element.
AddSegment(l) ==
  [segms |-> Append(l.segms, [i \in 1..SegCap |-> Junk]), cur |-> 1]

Push(l, x) ==
  LET m == IF IsEmpty(l) \/ l.cur + 1 > SegCap THEN AddSegment(l)
           ELSE [l EXCEPT !.cur = @ + 1]
  IN [m EXCEPT !.segms[Len(m.segms)][m.cur] = x]

Pop(l) ==
  CASE IsEmpty(l) -> l
    [] ~IsEmpty(l) /\ l.cur > 1 -> [l EXCEPT !.cur = @ - 1]
    [] ~IsEmpty(l) /\ l.cur = 1 ->
         [segms |-> Front(l.segms), cur |-> IF Len(l.segms) = 1 THEN 0 ELSE SegCap]

Size(l) == IF IsEmpty(l) THEN 0 ELSE (Len(l.segms) - 1) * SegCap + l.cur

\* The elements from the bottom to the top.
Contents(l) ==
  [i \in 1..Size(l) |-> l.segms[((i - 1) \div SegCap) + 1][((i - 1) % SegCap) + 1]]

-----------------------------------------------------------------------------
Init == store = EmptyLifo

PushCall(x) ==
  /\ Len(Contents(store)) < MaxLen
  /\ store' = Push(store, x)

PopCall == store' = Pop(store)

Clear == store' = EmptyLifo

Next == (\E x \in Elements : PushCall(x)) \/ PopCall \/ Clear

Spec == Init /\ [][Next]_store

\* cur stays inside the last segment, which is there as long as the stack is
\* not empty; borLifoBack is the last element of the stack.
WellFormed(l) ==
  IF IsEmpty(l) THEN l.cur = 0
  ELSE l.cur \in 1..SegCap /\ Junk \notin Range(Contents(l)) /\ Back(l) = Last(Contents(l))
=============================================================================
