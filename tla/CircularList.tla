---------------------------- MODULE CircularList ----------------------------
(***************************************************************************)
(* The intrusive lists of list.h: a ring of next and prev pointers through *)
(* a head and its items, none of which knows which one is the head.  The   *)
(* calls of a program come behind.                                         *)
(***************************************************************************)
EXTENDS Integers, Sequences

CONSTANTS Heads, Listed    \* what heads a list, and what may be in one

VARIABLE store

Links == Heads \cup Listed

\* borListInit
AllAlone == [next |-> [l \in Links |-> l], prev |-> [l \in Links |-> l]]

Empty(r, l) == r.next[l] = l

Append1(r, head, l) ==
  [next |-> [r.next EXCEPT ![l] = head, ![r.prev[head]] = l],
   prev |-> [r.prev EXCEPT ![l] = r.prev[head], ![head] = l]]

Prepend1(r, head, l) ==
  [next |-> [r.next EXCEPT ![l] = r.next[head], ![head] = l],
   prev |-> [r.prev EXCEPT ![l] = head, ![r.next[head]] = l]]

Del(r, l) ==
  [next |-> [r.next EXCEPT ![r.prev[l]] = r.next[l], ![l] = l],
   prev |-> [r.prev EXCEPT ![r.next[l]] = r.prev[l], ![l] = l]]

\* A bug the checks must find: the item that is moved is not deleted first.
RECURSIVE MoveUndeleted(_, _, _)
MoveUndeleted(r, src, dst) ==
  IF Empty(r, src) THEN r
  ELSE MoveUndeleted(Append1([r EXCEPT !.next[src] = r.next[r.next[src]]], dst, r.next[src]), src, dst)

RECURSIVE Move(_, _, _)
Move(r, src, dst) ==
  IF Empty(r, src) THEN r ELSE Move(Append1(Del(r, r.next[src]), dst, r.next[src]), src, dst)

\* BOR_LIST_FOR_EACH_SAFE from item on, whose body deletes the items in gone.
RECURSIVE Purged(_, _, _, _)
Purged(r, head, item, gone) ==
  IF item = head THEN r
  ELSE Purged(IF item \in gone THEN Del(r, item) ELSE r, head, r.next[item], gone)

\* The items behind head, in order; in the order of prev.
RECURSIVE ItemsFrom(_, _, _)
ItemsFrom(next, head, l) == IF l = head THEN <<>> ELSE <<l>> \o ItemsFrom(next, head, next[l])
Items(r, head) == ItemsFrom(r.next, head, r.next[head])
ItemSet(r, head) == {Items(r, head)[i] : i \in DOMAIN Items(r, head)}

-----------------------------------------------------------------------------
Init == store = AllAlone

Free(r, l) == \A head \in Heads : l \notin ItemSet(r, head)

AppendCall(head, l) == Free(store, l) /\ store' = Append1(store, head, l)
PrependCall(head, l) == Free(store, l) /\ store' = Prepend1(store, head, l)

\* Of an item in no list, too.
DelCall(l) == store' = Del(store, l)

\* A list that is moved to itself is never empty.
MoveCall(src, dst) == src # dst /\ store' = Move(store, src, dst)
PurgeCall(head, gone) == store' = Purged(store, head, store.next[head], gone)

Next ==
  \/ \E head \in Heads, l \in Listed : AppendCall(head, l) \/ PrependCall(head, l)
  \/ \E l \in Listed : DelCall(l)
  \/ \E src, dst \in Heads : MoveCall(src, dst)
  \/ \E head \in Heads, gone \in SUBSET Listed : PurgeCall(head, gone)

Spec == Init /\ [][Next]_store

\* Both directions of every ring agree, and no ring has two heads.
WellFormed(r) ==
  /\ \A l \in Links : r.prev[r.next[l]] = l /\ r.next[r.prev[l]] = l
  /\ \A head \in Heads : ItemSet(r, head) \subseteq Listed
=============================================================================
