------------------------------- MODULE HTable -------------------------------
(***************************************************************************)
(* The hash table of htable.c.  An element is a pair of a name and a key;  *)
(* eq compares the keys, and hash is the key itself, so that keys collide  *)
(* when the table is small.  Buckets are numbered from 0.  Behind come the *)
(* calls of a program, and the hash set of hashset.c with its own.         *)
(***************************************************************************)
EXTENDS Integers, SequencesExt

CONSTANTS
  InitialSize,    \* BOR_HTABLE_INITIAL_SIZE
  Primes,         \* the table of borHTableNextPrime
  Keys, None,
  Items           \* the pairs of a name and its key that the program inserts

VARIABLES store, result

vars == <<store, result>>

EmptyTable(size) == [bucket |-> [b \in 0..(size - 1) |-> <<>>], num_elements |-> 0]

Size(t) == Cardinality(DOMAIN t.bucket)
Bucket(t, k) == k % Size(t)

NextPrime(hint) ==
  LET above == {p \in Primes : p >= hint} IN IF above = {} THEN Max(Primes) ELSE Min(above)

\* borHTableFindBucket: the elements that eq accepts, the first one first.
Equals(t, k) == SelectSeq(t.bucket[Bucket(t, k)], LAMBDA e : e[2] = k)

InsertNoResize(t, e) ==
  [bucket |-> [t.bucket EXCEPT ![Bucket(t, e[2])] = Append(@, e)],
   num_elements |-> t.num_elements + 1]

\* The elements of all buckets in their order.
AllElements(t) == FlattenSeq([i \in 1..Size(t) |-> t.bucket[i - 1]])

Resize(t, size) == FoldLeft(InsertNoResize, EmptyTable(size), AllElements(t))

\* The table grows before it holds more elements than it has buckets, as long
\* as there is a prime.
Grown(t) ==
  LET prime == NextPrime(t.num_elements + 1)
  IN IF t.num_elements + 1 > Size(t) /\ prime > Size(t) THEN Resize(t, prime) ELSE t

\* Mutant: the bucket is not computed again for the table that has grown.
InsertOldBucket(t, e) ==
  [bucket |-> [Grown(t).bucket EXCEPT ![Bucket(t, e[2])] = Append(@, e)],
   num_elements |-> t.num_elements + 1]
Insert(t, e) == InsertNoResize(Grown(t), e)

InsertUnique(t, e) == IF Equals(t, e[2]) = <<>> THEN Insert(t, e) ELSE t

Erase(t, k) ==
  IF Equals(t, k) = <<>> THEN t
  ELSE [bucket |-> [t.bucket EXCEPT ![Bucket(t, k)] = Remove(@, Head(Equals(t, k)))],
        num_elements |-> t.num_elements - 1]

\* Elements sit in the bucket of their key and are all counted.
WellFormed(t) ==
  /\ \A b \in DOMAIN t.bucket : \A e \in Range(t.bucket[b]) : Bucket(t, e[2]) = b
  /\ t.num_elements = Len(AllElements(t))
  /\ IsInjective(AllElements(t))

-----------------------------------------------------------------------------
Init == store = EmptyTable(InitialSize) /\ result = None

Outside(n) == \A e \in Range(AllElements(store)) : e[1] # n
FirstName(t, k) == IF Equals(t, k) = <<>> THEN None ELSE Head(Equals(t, k))[1]

InsertCall(n, k) ==
  /\ Outside(n)
  /\ store' = Insert(store, <<n, k>>)
  /\ result' = None

InsertUniqueCall(n, k) ==
  /\ Outside(n)
  /\ store' = InsertUnique(store, <<n, k>>)
  /\ result' = FirstName(store, k)

InsertNoResizeCall(n, k) ==
  /\ Outside(n)
  /\ store' = InsertNoResize(store, <<n, k>>)
  /\ result' = None

FindCall(k) ==
  /\ result' = FirstName(store, k)
  /\ UNCHANGED store

\* The caller learns only whether there was an element; result says which.
EraseCall(k) ==
  /\ store' = Erase(store, k)
  /\ result' = FirstName(store, k)

ResizeCall(size) ==
  /\ Size(store) # size
  /\ store' = Resize(store, size)
  /\ UNCHANGED result

Gather ==
  /\ store.num_elements # 0
  /\ store' = EmptyTable(Size(store))
  /\ result' = None

Next ==
  \/ \E i \in Items : \/ InsertCall(i[1], i[2]) \/ InsertUniqueCall(i[1], i[2])
                      \/ InsertNoResizeCall(i[1], i[2])
  \/ \E k \in Keys : FindCall(k) \/ EraseCall(k)
  \/ \E size \in {1, Max(Primes)} : ResizeCall(size)
  \/ Gather

Spec == Init /\ [][Next]_vars

\* The names of the elements of a key, as borHTableFindAll lists them.
Under(t, k) == [i \in DOMAIN Equals(t, k) |-> Equals(t, k)[i][1]]

-----------------------------------------------------------------------------
(* hashset.c: values in an array, at their ids, and a table of the ids     *)
(* with the values as keys.  store.el[i + 1] is the value with id i.       *)

SetInit ==
  /\ store = [table |-> EmptyTable(InitialSize), el |-> <<>>]
  /\ result = None

IdIn(t, v) == Head(Equals(t, v))[1]

SetAdd(v) ==
  LET id == Len(store.el)
      old == Equals(store.table, v)
  IN /\ store' = [table |-> InsertUnique(store.table, <<id, v>>),
                  el |-> IF old = <<>> THEN Append(store.el, v) ELSE store.el]
     /\ result' = IF old = <<>> THEN id ELSE IdIn(store.table, v)

SetFind(v) ==
  /\ result' = IF Equals(store.table, v) = <<>> THEN -1 ELSE IdIn(store.table, v)
  /\ UNCHANGED store

SetNext == \E v \in Keys : SetAdd(v) \/ SetFind(v)

SetSpec == SetInit /\ [][SetNext]_vars

\* The ids in the table are those of the array, under the values there.
WellFormedSet(s) ==
  /\ WellFormed(s.table)
  /\ ToSet(AllElements(s.table)) = {<<i - 1, s.el[i]>> : i \in DOMAIN s.el}
============================================================================
