-------------------------- MODULE RingQueueProofs ---------------------------
(***************************************************************************)
(* Proofs about the concurrent ring of ring_queue.c: for every first size, *)
(* every number of threads and every bound of the semaphores, elements     *)
(* leave in the order in which they came, and the semaphores count them.   *)
(***************************************************************************)
EXTENDS RingQueue, FiniteSetTheorems, TLAPS

----------------------------------------------------------------------------
(* The ring: indices and slots.                                            *)

\* The values that a slot may hold.
Values == Elements \cup {Junk}

\* The slots of a ring of n from h to t, and their contents in b.
Length(n, h, t) == (t - h) % n
Items(b, n, h, t) == [i \in 1..Length(n, h, t) |-> b[(h + i - 1) % n]]

\* Reduction by the size of the ring wraps once.
LEMMA Wrap == ASSUME NEW n \in Nat \ {0}, NEW k \in (-n)..(2 * n - 1)
  PROVE  k % n = IF k < 0 THEN k + n ELSE IF k < n THEN k ELSE k - n
<1>1. ASSUME NEW S \in Int, S > 0, NEW q \in Int, NEW s \in Int, 0 <= s, s < S, k = q * S + s
      PROVE  k % S = s
  <2>1. k \in Int
    OBVIOUS
  <2> QED
    BY ONLY <1>1, <2>1
<1>2. n \in Int /\ n > 0 /\ k \in Int
  OBVIOUS
<1>3. CASE k < 0
  <2>1. k = (-1) * n + (k + n) /\ 0 <= k + n /\ k + n < n
    BY <1>3
  <2> QED
    BY <1>1, <1>2, <1>3, <2>1
<1>4. CASE 0 <= k /\ k < n
  <2>1. k = 0 * n + k
    BY <1>2
  <2> QED
    BY <1>1, <1>2, <1>4, <2>1
<1>5. CASE n <= k
  <2>1. k = 1 * n + (k - n) /\ 0 <= k - n /\ k - n < n
    BY <1>5
  <2> QED
    BY <1>1, <1>2, <1>5, <2>1
<1> QED
  BY <1>2, <1>3, <1>4, <1>5

\* The length of a ring is below its size, and 0 exactly if head meets tail.
LEMMA LengthIs ==
  ASSUME NEW n \in Nat \ {0}, NEW h \in 0..(n - 1), NEW t \in 0..(n - 1)
  PROVE  /\ h <= t => Length(n, h, t) = t - h
         /\ t < h => Length(n, h, t) = t - h + n
         /\ Length(n, h, t) \in 0..(n - 1)
         /\ Length(n, h, t) = 0 <=> h = t
<1>1. t - h \in (-n)..(2 * n - 1)
  OBVIOUS
<1>2. Length(n, h, t) = IF t - h < 0 THEN (t - h) + n ELSE IF t - h < n THEN t - h ELSE (t - h) - n
  BY <1>1, Wrap, Zenon DEF Length
<1>3. (h <= t => Length(n, h, t) = t - h) /\ (t < h => Length(n, h, t) = t - h + n)
  BY <1>2
<1> QED
  BY <1>3

\* The next index.
LEMMA NextIs ==
  ASSUME NEW n \in Nat \ {0}, NEW k \in 0..(n - 1)
  PROVE  /\ k + 1 = n => queueNextId(k, n) = 0
         /\ k + 1 < n => queueNextId(k, n) = k + 1
         /\ queueNextId(k, n) \in 0..(n - 1)
<1>1. k + 1 \in (-n)..(2 * n - 1)
  OBVIOUS
<1>2. queueNextId(k, n) = IF k + 1 < 0 THEN (k + 1) + n ELSE IF k + 1 < n THEN k + 1 ELSE (k + 1) - n
  BY <1>1, Wrap, Zenon DEF queueNextId
<1> QED
  BY <1>2

\* Where the i-th item is.
LEMMA PlaceIs ==
  ASSUME NEW n \in Nat \ {0}, NEW h \in 0..(n - 1), NEW i \in 1..n
  PROVE  /\ h + i - 1 < n => (h + i - 1) % n = h + i - 1
         /\ n <= h + i - 1 => (h + i - 1) % n = h + i - 1 - n
         /\ (h + i - 1) % n \in 0..(n - 1)
<1>1. h + i - 1 \in (-n)..(2 * n - 1)
  OBVIOUS
<1>2. (h + i - 1) % n = IF h + i - 1 < 0 THEN (h + i - 1) + n ELSE IF h + i - 1 < n THEN h + i - 1 ELSE (h + i - 1) - n
  BY <1>1, Wrap, Zenon
<1> QED
  BY <1>2

\* Sequences are told apart by their items.
LEMMA SameItems ==
  ASSUME NEW V, NEW p \in Seq(V), NEW q \in Seq(V), Len(p) = Len(q), \A i \in 1..Len(p) : p[i] = q[i]
  PROVE  p = q
OBVIOUS

\* A sequence with one item more, the last one x, is the old one with x appended.
LEMMA Appended ==
  ASSUME NEW V, NEW p \in Seq(V), NEW q \in Seq(V), NEW x \in V,
         Len(q) = Len(p) + 1, \A i \in 1..Len(p) : q[i] = p[i], q[Len(p) + 1] = x
  PROVE  q = Append(p, x)
<1>1. Append(p, x) \in Seq(V) /\ Len(Append(p, x)) = Len(p) + 1
  OBVIOUS
<1>2. \A i \in 1..Len(q) : q[i] = Append(p, x)[i]
  OBVIOUS
<1> QED
  BY <1>1, <1>2, SameItems

\* A sequence with one item less, all of them moved down by one, is the tail.
LEMMA Tailed ==
  ASSUME NEW V, NEW p \in Seq(V), NEW q \in Seq(V), p # <<>>,
         Len(q) = Len(p) - 1, \A i \in 1..(Len(p) - 1) : q[i] = p[i + 1]
  PROVE  q = Tail(p)
<1>1. Tail(p) \in Seq(V) /\ Len(Tail(p)) = Len(p) - 1
  OBVIOUS
<1>2. \A i \in 1..Len(q) : q[i] = Tail(p)[i]
  OBVIOUS
<1> QED
  BY <1>1, <1>2, SameItems

\* The contents are a sequence of slots.
LEMMA ItemsSeq ==
  ASSUME NEW n \in Nat \ {0}, NEW h \in 0..(n - 1), NEW t \in 0..(n - 1), NEW b \in [0..(n - 1) -> Values]
  PROVE  /\ Items(b, n, h, t) \in Seq(Values)
         /\ Len(Items(b, n, h, t)) = Length(n, h, t)
         /\ \A i \in 1..Length(n, h, t) : Items(b, n, h, t)[i] = b[(h + i - 1) % n]
<1>1. Length(n, h, t) \in 0..(n - 1)
  BY LengthIs
<1>2. PICK s \in 0..(n - 1) : s = Length(n, h, t)
  BY <1>1
<1>3. \A i \in 1..s : b[(h + i - 1) % n] \in Values
  BY PlaceIs
<1>4. Items(b, n, h, t) = [i \in 1..s |-> b[(h + i - 1) % n]]
  BY <1>2 DEF Items
<1>5. s \in Nat
  OBVIOUS
<1>6. [i \in 1..s |-> b[(h + i - 1) % n]] \in Seq(Values) /\ Len([i \in 1..s |-> b[(h + i - 1) % n]]) = s
  <2> DEFINE g(i) == b[(h + i - 1) % n]
  <2>1. \A i \in 1..s : g(i) \in Values
    BY <1>3
  <2> HIDE DEF g
  <2>2. [i \in 1..s |-> g(i)] \in Seq(Values) /\ Len([i \in 1..s |-> g(i)]) = s
    BY ONLY s \in Nat, <1>5, <2>1
  <2> QED
    BY <2>2 DEF g
<1> QED
  BY <1>2, <1>4, <1>6

----------------------------------------------------------------------------
(* The three changes of the ring.                                          *)

\* The ring c with its tail at u is the ring b with x stored at its tail t.
Stored(b, n, h, t, x, c, u) ==
  Length(n, h, u) = Length(n, h, t) + 1 /\ Items(c, n, h, u) = Append(Items(b, n, h, t), x)

\* An element is stored at the tail of a ring that keeps a free slot.
LEMMA StoreItems ==
  ASSUME NEW n \in Nat \ {0}, NEW h \in 0..(n - 1), NEW t \in 0..(n - 1), NEW b \in [0..(n - 1) -> Values],
         NEW x \in Values, NEW c \in [0..(n - 1) -> Values], c = [b EXCEPT ![t] = x],
         NEW u \in 0..(n - 1), u = queueNextId(t, n), u # h
  PROVE  Stored(b, n, h, t, x, c, u)
<1>1. (t + 1 = n => u = 0) /\ (t + 1 < n => u = t + 1)
  BY NextIs
<1>2. PICK s \in 0..(n - 1) : s = Length(n, h, t) /\ (h <= t => s = t - h) /\ (t < h => s = t - h + n)
  <2>1. /\ (h <= t => Length(n, h, t) = t - h) /\ (t < h => Length(n, h, t) = t - h + n)
        /\ Length(n, h, t) \in 0..(n - 1)
    BY LengthIs
  <2> QED
    BY <2>1
<1>3. Length(n, h, u) = s + 1
  <2>1. (h <= u => Length(n, h, u) = u - h) /\ (u < h => Length(n, h, u) = u - h + n)
    BY ONLY n \in Nat \ {0}, h \in 0..(n - 1), u \in 0..(n - 1), LengthIs
  <2> QED
    BY <1>1, <1>2, <2>1
<1>4. s + 1 \in 1..n /\ s + 1 < n
  <2>1. Length(n, h, u) \in 0..(n - 1)
    BY LengthIs
  <2> QED
    BY <1>3, <2>1
<1>6. c \in [0..(n - 1) -> Values] /\ c[t] = x /\ \A k \in 0..(n - 1) : k # t => c[k] = b[k]
  OBVIOUS
<1>7. (h + (s + 1) - 1) % n = t
  <2>1. /\ h + (s + 1) - 1 < n => (h + (s + 1) - 1) % n = h + (s + 1) - 1
        /\ n <= h + (s + 1) - 1 => (h + (s + 1) - 1) % n = h + (s + 1) - 1 - n
    BY <1>4, PlaceIs, ZenonT(30)
  <2>2. PICK z : z = (h + (s + 1) - 1) % n
    OBVIOUS
  <2>3. (h + (s + 1) - 1 < n => z = h + (s + 1) - 1) /\ (n <= h + (s + 1) - 1 => z = h + (s + 1) - 1 - n)
    BY ONLY <2>1, <2>2
  <2>4. z = t
    BY ONLY n \in Nat \ {0}, h \in 0..(n - 1), t \in 0..(n - 1), s \in 0..(n - 1), <1>2, <2>3
  <2> QED
    BY ONLY <2>2, <2>4
<1>8. \A i \in 1..s : (h + i - 1) % n # t /\ (h + i - 1) % n \in 0..(n - 1)
  <2> SUFFICES ASSUME NEW i \in 1..s PROVE (h + i - 1) % n # t /\ (h + i - 1) % n \in 0..(n - 1)
    OBVIOUS
  <2>1. i \in 1..n
    OBVIOUS
  <2>2. /\ (h + i - 1 < n => (h + i - 1) % n = h + i - 1) /\ (n <= h + i - 1 => (h + i - 1) % n = h + i - 1 - n)
        /\ (h + i - 1) % n \in 0..(n - 1)
    BY <2>1, PlaceIs
  <2> QED
    BY <1>2, <2>2
<1>9. PICK p, q : p = Items(b, n, h, t) /\ q = Items(c, n, h, u)
  OBVIOUS
<1>10. p \in Seq(Values) /\ Len(p) = s /\ \A i \in 1..s : p[i] = b[(h + i - 1) % n]
  <2>1. Items(b, n, h, t) \in Seq(Values)
    BY <1>2, <1>9, ItemsSeq
  <2>2. Len(Items(b, n, h, t)) = Length(n, h, t)
    BY <1>2, <1>9, ItemsSeq
  <2>3. \A i \in 1..Length(n, h, t) : Items(b, n, h, t)[i] = b[(h + i - 1) % n]
    BY DEF Items
  <2> QED
    BY <1>2, <1>9, <2>1, <2>2, <2>3
<1>11. q \in Seq(Values) /\ Len(q) = s + 1 /\ \A i \in 1..(s + 1) : q[i] = c[(h + i - 1) % n]
  <2>1. Items(c, n, h, u) \in Seq(Values)
    BY ONLY n \in Nat \ {0}, h \in 0..(n - 1), u \in 0..(n - 1), <1>6, ItemsSeq
  <2>2. Len(Items(c, n, h, u)) = Length(n, h, u)
    BY ONLY n \in Nat \ {0}, h \in 0..(n - 1), u \in 0..(n - 1), <1>6, ItemsSeq
  <2>3. \A i \in 1..Length(n, h, u) : Items(c, n, h, u)[i] = c[(h + i - 1) % n]
    BY DEF Items
  <2> QED
    BY <1>3, <1>6, <1>9, <2>1, <2>2, <2>3
<1>12. q[s + 1] = x
  <2>1. q[s + 1] = c[(h + (s + 1) - 1) % n]
    <3>1. s + 1 \in 1..(s + 1)
      OBVIOUS
    <3> QED
      BY <1>11, <3>1
  <2> QED
    BY <1>6, <1>7, <2>1
<1>13. \A i \in 1..s : q[i] = p[i]
  <2> SUFFICES ASSUME NEW i \in 1..s PROVE q[i] = p[i]
    OBVIOUS
  <2>1. i \in 1..(s + 1)
    OBVIOUS
  <2>2. q[i] = c[(h + i - 1) % n]
    BY <1>11, <2>1
  <2>3. c[(h + i - 1) % n] = b[(h + i - 1) % n]
    BY <1>6, <1>8
  <2> QED
    BY <1>10, <2>2, <2>3
<1>14. q = Append(p, x)
  BY <1>10, <1>11, <1>12, <1>13, Appended
<1> QED
  BY <1>2, <1>3, <1>9, <1>14 DEF Stored

\* The element at the head leaves.
LEMMA TakeItems ==
  ASSUME NEW n \in Nat \ {0}, NEW h \in 0..(n - 1), NEW t \in 0..(n - 1), NEW b \in [0..(n - 1) -> Values],
         h # t
  PROVE  /\ queueNextId(h, n) \in 0..(n - 1)
         /\ Length(n, queueNextId(h, n), t) = Length(n, h, t) - 1
         /\ Items(b, n, h, t) # <<>> /\ Head(Items(b, n, h, t)) = b[h]
         /\ Items(b, n, queueNextId(h, n), t) = Tail(Items(b, n, h, t))
<1>1. PICK u \in 0..(n - 1) : u = queueNextId(h, n) /\ (h + 1 = n => u = 0) /\ (h + 1 < n => u = h + 1)
  BY NextIs
<1>2. PICK s \in 0..(n - 1) : s = Length(n, h, t) /\ (h <= t => s = t - h) /\ (t < h => s = t - h + n) /\ s # 0
  <2>1. /\ (h <= t => Length(n, h, t) = t - h) /\ (t < h => Length(n, h, t) = t - h + n)
        /\ Length(n, h, t) \in 0..(n - 1)
    BY ONLY n \in Nat \ {0}, h \in 0..(n - 1), t \in 0..(n - 1), LengthIs
  <2> QED
    BY <2>1
<1>3. Length(n, u, t) = s - 1 /\ s - 1 \in Nat
  <2>1. (u <= t => Length(n, u, t) = t - u) /\ (t < u => Length(n, u, t) = t - u + n)
    BY ONLY n \in Nat \ {0}, u \in 0..(n - 1), t \in 0..(n - 1), LengthIs
  <2> QED
    BY <1>1, <1>2, <2>1
<1>4. \A i \in 1..(s - 1) : (u + i - 1) % n = (h + (i + 1) - 1) % n
  <2> SUFFICES ASSUME NEW i \in 1..(s - 1) PROVE (u + i - 1) % n = (h + (i + 1) - 1) % n
    OBVIOUS
  <2>1. i \in 1..n /\ i + 1 \in 1..n
    OBVIOUS
  <2>2. (u + i - 1 < n => (u + i - 1) % n = u + i - 1) /\ (n <= u + i - 1 => (u + i - 1) % n = u + i - 1 - n)
    BY <2>1, PlaceIs
  <2>3. /\ h + (i + 1) - 1 < n => (h + (i + 1) - 1) % n = h + (i + 1) - 1
        /\ n <= h + (i + 1) - 1 => (h + (i + 1) - 1) % n = h + (i + 1) - 1 - n
    BY <2>1, PlaceIs
  <2>4. PICK x, y : x = (u + i - 1) % n /\ y = (h + (i + 1) - 1) % n
    OBVIOUS
  <2>5. (u + i - 1 < n => x = u + i - 1) /\ (n <= u + i - 1 => x = u + i - 1 - n)
    BY <2>2, <2>4, Zenon
  <2>6. (h + (i + 1) - 1 < n => y = h + (i + 1) - 1) /\ (n <= h + (i + 1) - 1 => y = h + (i + 1) - 1 - n)
    BY <2>3, <2>4, Zenon
  <2>7. x = y
    BY ONLY n \in Nat \ {0}, h \in 0..(n - 1), u \in 0..(n - 1), s \in 0..(n - 1), i \in 1..(s - 1), <1>1, <2>5, <2>6
  <2> QED
    BY <2>4, <2>7
<1>5. (h + 1 - 1) % n = h
  <2>1. 1 \in 1..n
    OBVIOUS
  <2>2. (h + 1 - 1 < n => (h + 1 - 1) % n = h + 1 - 1) /\ (n <= h + 1 - 1 => (h + 1 - 1) % n = h + 1 - 1 - n)
    BY <2>1, PlaceIs
  <2> QED
    BY <2>2
<1>6. PICK p, q : p = Items(b, n, h, t) /\ q = Items(b, n, u, t)
  OBVIOUS
<1>7. p \in Seq(Values) /\ Len(p) = s /\ \A i \in 1..s : p[i] = b[(h + i - 1) % n]
  <2>1. Items(b, n, h, t) \in Seq(Values)
    BY ONLY n \in Nat \ {0}, h \in 0..(n - 1), t \in 0..(n - 1), b \in [0..(n - 1) -> Values], ItemsSeq
  <2>2. Len(Items(b, n, h, t)) = Length(n, h, t)
    BY ONLY n \in Nat \ {0}, h \in 0..(n - 1), t \in 0..(n - 1), b \in [0..(n - 1) -> Values], ItemsSeq
  <2>3. \A i \in 1..Length(n, h, t) : Items(b, n, h, t)[i] = b[(h + i - 1) % n]
    BY DEF Items
  <2> QED
    BY <1>2, <1>6, <2>1, <2>2, <2>3
<1>8. q \in Seq(Values) /\ Len(q) = s - 1 /\ \A i \in 1..(s - 1) : q[i] = b[(u + i - 1) % n]
  <2>1. Items(b, n, u, t) \in Seq(Values)
    BY ONLY n \in Nat \ {0}, u \in 0..(n - 1), t \in 0..(n - 1), b \in [0..(n - 1) -> Values], ItemsSeq
  <2>2. Len(Items(b, n, u, t)) = Length(n, u, t)
    BY ONLY n \in Nat \ {0}, u \in 0..(n - 1), t \in 0..(n - 1), b \in [0..(n - 1) -> Values], ItemsSeq
  <2>3. \A i \in 1..Length(n, u, t) : Items(b, n, u, t)[i] = b[(u + i - 1) % n]
    BY DEF Items
  <2> QED
    BY <1>3, <1>6, <2>1, <2>2, <2>3
<1>9. p # <<>> /\ Head(p) = b[h]
  <2>1. 1 \in 1..s /\ p # <<>>
    BY <1>2, <1>7
  <2>2. p[1] = b[(h + 1 - 1) % n]
    BY <1>7, <2>1
  <2>3. Head(p) = p[1]
    BY <1>7, <2>1
  <2> QED
    BY <1>5, <2>1, <2>2, <2>3
<1>10. \A i \in 1..(s - 1) : q[i] = p[i + 1]
  <2> SUFFICES ASSUME NEW i \in 1..(s - 1) PROVE q[i] = p[i + 1]
    OBVIOUS
  <2>1. i + 1 \in 1..s
    OBVIOUS
  <2> QED
    BY <1>4, <1>7, <1>8, <2>1
<1>11. q = Tail(p)
  BY <1>7, <1>8, <1>9, <1>10, Tailed
<1> QED
  BY <1>1, <1>2, <1>3, <1>6, <1>9, <1>11


----------------------------------------------------------------------------
(* Where the threads stand.                                                *)

ProducerPlaces == {"idle", "reserve", "append", "post"}
ConsumerPlaces == {"idle", "wait", "timed", "pick", "room"}
Places == ProducerPlaces \cup ConsumerPlaces

\* What every variable is; a thread that pushes carries an element.
RingOK ==
  /\ size \in Nat \ {0} /\ head \in 0..(size - 1) /\ tail \in 0..(size - 1)
  /\ buf \in [0..(size - 1) -> Values]
  /\ Contents \in Seq(Elements)
SemsOK == full \in Nat /\ empty \in 0..QueueSize /\ interrupts \in 0..MaxInterrupts
ThreadsOK ==
  /\ pc \in [Procs -> Places]
  /\ \A p \in Producers : pc[p] \in ProducerPlaces
  /\ \A c \in Consumers : pc[c] \in ConsumerPlaces
  /\ item \in [Producers -> Elements \cup {None}]
  /\ \A p \in Producers : pc[p] \in {"reserve", "append", "post"} => item[p] \in Elements
Typed == RingOK /\ SemsOK /\ ThreadsOK

\* How many of the threads stand at place k when f says where each stands.
Count(f, k) == Cardinality({q \in Procs : f[q] = k})

\* Those that have a unit of full for an element of the buffer, or owe one, and
\* those that have a unit of empty for a place that holds no element.
NAnnounced == Count(pc, "pick") + Count(pc, "post")
NOccupying == Count(pc, "append") + Count(pc, "room")

\* The two equations of SemaphoresMatchRing, and what is left of the second one
\* when waits are interrupted: each interrupted push puts at most one element
\* more into the ring.
Synchronised ==
  /\ full + NAnnounced = Size
  /\ interrupts = 0 => empty + Size + NOccupying = QueueSize
  /\ empty + Size + NOccupying <= QueueSize + interrupts

Inv == Typed /\ Synchronised

\* Counts are numbers.
LEMMA CountNat == ASSUME IsFiniteSet(Procs), NEW f, NEW k PROVE Count(f, k) \in Nat
BY FS_Subset, FS_CardinalityType DEF Count

\* One thread goes from one place to another.
LEMMA CountMove ==
  ASSUME IsFiniteSet(Procs), NEW f \in [Procs -> Places], NEW p \in Procs, NEW l, f[p] # l,
         NEW g, g[p] = l, \A q \in Procs \ {p} : g[q] = f[q], NEW k
  PROVE  /\ k = l => Count(g, k) = Count(f, k) + 1
         /\ k = f[p] => Count(g, k) = Count(f, k) - 1
         /\ k \notin {l, f[p]} => Count(g, k) = Count(f, k)
<1> DEFINE A == {q \in Procs : f[q] = k}
           B == {q \in Procs : g[q] = k}
<1>1. IsFiniteSet(A) /\ Count(f, k) = Cardinality(A) /\ Count(g, k) = Cardinality(B)
  BY FS_Subset DEF Count
<1>2. CASE k = l
  <2>1. B = A \cup {p} /\ p \notin A
    BY <1>2
  <2>2. Cardinality(A \cup {p}) = Cardinality(A) + 1
    BY <1>1, <2>1, FS_AddElement
  <2> HIDE DEF A, B
  <2> QED
    BY <1>1, <1>2, <2>1, <2>2
<1>3. CASE k = f[p]
  <2>1. B = A \ {p} /\ p \in A
    BY <1>3
  <2>2. Cardinality(A \ {p}) = Cardinality(A) - 1
    BY <1>1, <2>1, FS_RemoveElement
  <2> HIDE DEF A, B
  <2> QED
    BY <1>1, <1>3, <2>1, <2>2
<1>4. CASE k \notin {l, f[p]}
  <2>1. B = A
    BY <1>4
  <2> HIDE DEF A, B
  <2> QED
    BY <1>1, <1>4, <2>1
<1> QED
  BY <1>2, <1>3, <1>4

\* A thread that stands at k is counted there.
LEMMA CountPositive == ASSUME IsFiniteSet(Procs), NEW f, NEW p \in Procs PROVE Count(f, f[p]) >= 1
<1> DEFINE A == {q \in Procs : f[q] = f[p]}
<1>1. IsFiniteSet(A) /\ p \in A
  BY FS_Subset
<1>2. Cardinality(A) # 0 /\ Cardinality(A) \in Nat
  BY <1>1, FS_EmptySet, FS_CardinalityType
<1> QED
  BY <1>2 DEF Count

Announced(k) == IF k \in {"pick", "post"} THEN 1 ELSE 0
Occupying(k) == IF k \in {"append", "room"} THEN 1 ELSE 0

\* The two groups follow the move of a thread.
LEMMA GroupsMove ==
  ASSUME IsFiniteSet(Procs), pc \in [Procs -> Places], NEW p \in Procs, NEW l, pc[p] # l, pc' = [pc EXCEPT ![p] = l]
  PROVE  /\ NAnnounced \in Nat /\ NAnnounced' \in Nat /\ NOccupying \in Nat /\ NOccupying' \in Nat
         /\ NAnnounced' + Announced(pc[p]) = NAnnounced + Announced(l)
         /\ NOccupying' + Occupying(pc[p]) = NOccupying + Occupying(l)
         /\ NAnnounced >= Announced(pc[p]) /\ NOccupying >= Occupying(pc[p])
<1> DEFINE n(k) == Count(pc, k)
           m(k) == Count(pc', k)
<1>1. \A k : n(k) \in Nat /\ m(k) \in Nat
  BY CountNat
<1>2. \A k : /\ k = l => m(k) = n(k) + 1
             /\ k = pc[p] => m(k) = n(k) - 1
             /\ k \notin {l, pc[p]} => m(k) = n(k)
  <2> SUFFICES ASSUME NEW k
               PROVE  /\ k = l => m(k) = n(k) + 1
                      /\ k = pc[p] => m(k) = n(k) - 1
                      /\ k \notin {l, pc[p]} => m(k) = n(k)
    OBVIOUS
  <2>1. pc'[p] = l /\ \A q \in Procs \ {p} : pc'[q] = pc[q]
    OBVIOUS
  <2>2. /\ k = l => Count(pc', k) = Count(pc, k) + 1
        /\ k = pc[p] => Count(pc', k) = Count(pc, k) - 1
        /\ k \notin {l, pc[p]} => Count(pc', k) = Count(pc, k)
    <3>1. ASSUME NEW f \in [Procs -> Places], f[p] # l, NEW g, g[p] = l, \A q \in Procs \ {p} : g[q] = f[q]
          PROVE  /\ k = l => Count(g, k) = Count(f, k) + 1
                 /\ k = f[p] => Count(g, k) = Count(f, k) - 1
                 /\ k \notin {l, f[p]} => Count(g, k) = Count(f, k)
      BY ONLY IsFiniteSet(Procs), <3>1, p \in Procs, CountMove
    <3> QED
      BY ONLY <2>1, <3>1, pc \in [Procs -> Places], pc[p] # l
  <2> QED
    BY <2>2
<1>3. n(pc[p]) >= 1
  BY CountPositive
<1>4. /\ NAnnounced = n("pick") + n("post") /\ NAnnounced' = m("pick") + m("post")
      /\ NOccupying = n("append") + n("room") /\ NOccupying' = m("append") + m("room")
  BY DEF NAnnounced, NOccupying, Count
<1> HIDE DEF n, m
<1>5. ASSUME NEW a, NEW b, a # b
      PROVE  /\ n(a) + n(b) \in Nat /\ m(a) + m(b) \in Nat
             /\ m(a) + m(b) + (IF pc[p] \in {a, b} THEN 1 ELSE 0) = n(a) + n(b) + (IF l \in {a, b} THEN 1 ELSE 0)
             /\ n(a) + n(b) >= IF pc[p] \in {a, b} THEN 1 ELSE 0
  <2>1. PICK na \in Nat, nb \in Nat, ma \in Nat, mb \in Nat : na = n(a) /\ nb = n(b) /\ ma = m(a) /\ mb = m(b)
    BY <1>1
  <2>2. /\ a = l => ma = na + 1
        /\ a = pc[p] => ma = na - 1 /\ na >= 1
        /\ a \notin {l, pc[p]} => ma = na
    BY <1>2, <1>3, <2>1
  <2>3. /\ b = l => mb = nb + 1
        /\ b = pc[p] => mb = nb - 1 /\ nb >= 1
        /\ b \notin {l, pc[p]} => mb = nb
    BY <1>2, <1>3, <2>1
  <2> QED
    BY <1>5, <2>1, <2>2, <2>3
<1>6. "pick" # "post" /\ "append" # "room"
  OBVIOUS
<1> QED
  BY <1>4, <1>5, <1>6 DEF Announced, Occupying

----------------------------------------------------------------------------
(* The steps of FifoSem.                                                   *)

\* The ring in terms of its indices and slots.
LEMMA RingIs == Size = Length(size, head, tail) /\ Contents = Items(buf, size, head, tail)
BY DEF Size, Contents, Length, Items

\* The size of the ring is the length of its contents.
LEMMA SizeNat == ASSUME RingOK
  PROVE  Size \in Nat /\ Len(Contents) = Size /\ (Size = 0 <=> head = tail)
<1>1. size \in Nat \ {0} /\ head \in 0..(size - 1) /\ tail \in 0..(size - 1) /\ buf \in [0..(size - 1) -> Values]
  BY DEF RingOK
<1>2. Length(size, head, tail) \in 0..(size - 1) /\ (Length(size, head, tail) = 0 <=> head = tail)
  BY ONLY <1>1, LengthIs
<1>3. Len(Items(buf, size, head, tail)) = Length(size, head, tail)
  BY <1>2 DEF Items
<1> QED
  BY <1>1, <1>2, <1>3, RingIs

\* queueExtend: a ring that would fill up moves to the start of one twice as big.
LEMMA ExtendItems ==
  ASSUME RingOK, queueNextId(tail, size) = head
  PROVE  /\ 2 * size \in Nat \ {0} /\ Size \in 0..(2 * size - 1)
         /\ Extended \in [0..(2 * size - 1) -> Values]
         /\ Items(Extended, 2 * size, 0, Size) = Contents
         /\ Length(2 * size, 0, Size) = Size
         /\ queueNextId(Size, 2 * size) # 0
<1>0. size \in Nat \ {0} /\ head \in 0..(size - 1) /\ tail \in 0..(size - 1) /\ buf \in [0..(size - 1) -> Values]
  BY DEF RingOK
<1>n. PICK n \in Nat \ {0} : n = size
  BY <1>0
<1>h. PICK h \in 0..(n - 1), t \in 0..(n - 1), b \in [0..(n - 1) -> Values] : h = head /\ t = tail /\ b = buf
  BY <1>0, <1>n
<1>a. Size = Length(n, h, t) /\ Contents = Items(b, n, h, t)
  BY <1>n, <1>h, RingIs
<1>b. PICK e : e = [k \in 0..(2 * n - 1) |-> IF k < Length(n, h, t) THEN b[(h + k) % n] ELSE Junk]
  OBVIOUS
<1>c. Extended = e /\ Junk \in Values
  BY <1>n, <1>h, <1>a, <1>b DEF Extended, Values
<1>1. (t + 1 = n => h = 0) /\ (t + 1 < n => h = t + 1)
  BY <1>n, <1>h, NextIs
<1>2. PICK s \in 0..(n - 1) : s = Length(n, h, t) /\ (h <= t => s = t - h) /\ (t < h => s = t - h + n)
  <2>1. /\ (h <= t => Length(n, h, t) = t - h) /\ (t < h => Length(n, h, t) = t - h + n)
        /\ Length(n, h, t) \in 0..(n - 1)
    BY LengthIs
  <2> QED
    BY <2>1
<1>3. PICK m \in Nat \ {0} : m = 2 * n /\ s \in 0..(m - 1) /\ 0 \in 0..(m - 1) /\ s + 1 < m
  <2>1. s = n - 1
    BY <1>1, <1>2
  <2>2. 2 * n \in Nat \ {0} /\ s \in 0..(2 * n - 1) /\ 0 \in 0..(2 * n - 1) /\ s + 1 < 2 * n
    BY <2>1
  <2> QED
    BY <2>2
<1>4. Length(m, 0, s) = s
  <2>1. (0 <= s => Length(m, 0, s) = s - 0) /\ (s < 0 => Length(m, 0, s) = s - 0 + m)
    BY <1>3, LengthIs
  <2> QED
    BY <2>1
<1>5. queueNextId(s, m) = s + 1
  <2>1. s + 1 < m => queueNextId(s, m) = s + 1
    BY <1>3, NextIs
  <2> QED
    BY <1>3, <2>1
<1>6. \A i \in 1..s : (h + i - 1) % n \in 0..(n - 1) /\ (0 + i - 1) % m = i - 1 /\ i - 1 \in 0..(m - 1) /\ i - 1 < s
  <2> SUFFICES ASSUME NEW i \in 1..s
               PROVE (h + i - 1) % n \in 0..(n - 1) /\ (0 + i - 1) % m = i - 1 /\ i - 1 \in 0..(m - 1) /\ i - 1 < s
    OBVIOUS
  <2>1. i \in 1..n /\ i \in 1..m
    BY <1>3
  <2>2. (h + i - 1) % n \in 0..(n - 1)
    BY <2>1, PlaceIs
  <2>3. (0 + i - 1 < m => (0 + i - 1) % m = 0 + i - 1) /\ (m <= 0 + i - 1 => (0 + i - 1) % m = 0 + i - 1 - m)
    BY <1>3, <2>1, PlaceIs
  <2> QED
    BY <1>3, <2>1, <2>2, <2>3
<1>7. e \in [0..(m - 1) -> Values]
  <2>1. \A k \in 0..(m - 1) : k < s => (h + k) % n \in 0..(n - 1)
    <3> SUFFICES ASSUME NEW k \in 0..(m - 1), k < s PROVE (h + k) % n \in 0..(n - 1)
      OBVIOUS
    <3>1. k + 1 \in 1..n /\ h + (k + 1) - 1 = h + k
      OBVIOUS
    <3>2. (h + (k + 1) - 1) % n \in 0..(n - 1)
      BY <3>1, PlaceIs
    <3> QED
      BY <3>1, <3>2
  <2>2. \A k \in 0..(m - 1) : (IF k < s THEN b[(h + k) % n] ELSE Junk) \in Values
    BY ONLY b \in [0..(n - 1) -> Values], <1>c, <2>1
  <2>3. e = [k \in 0..(m - 1) |-> IF k < s THEN b[(h + k) % n] ELSE Junk]
    BY <1>b, <1>2, <1>3
  <2> QED
    BY ONLY <2>2, <2>3
<1>8. PICK p, q : p = Items(b, n, h, t) /\ q = Items(e, m, 0, s)
  OBVIOUS
<1>9. p \in Seq(Values) /\ Len(p) = s /\ \A i \in 1..s : p[i] = b[(h + i - 1) % n]
  <2>1. Items(b, n, h, t) \in Seq(Values)
    BY ONLY n \in Nat \ {0}, h \in 0..(n - 1), t \in 0..(n - 1), b \in [0..(n - 1) -> Values], ItemsSeq
  <2>2. Len(Items(b, n, h, t)) = Length(n, h, t)
    BY ONLY n \in Nat \ {0}, h \in 0..(n - 1), t \in 0..(n - 1), b \in [0..(n - 1) -> Values], ItemsSeq
  <2>3. \A i \in 1..Length(n, h, t) : Items(b, n, h, t)[i] = b[(h + i - 1) % n]
    BY DEF Items
  <2> QED
    BY <1>2, <1>8, <2>1, <2>2, <2>3
<1>10. q \in Seq(Values) /\ Len(q) = s /\ \A i \in 1..s : q[i] = e[(0 + i - 1) % m]
  <2>1. Items(e, m, 0, s) \in Seq(Values)
    BY ONLY m \in Nat \ {0}, <1>3, <1>7, ItemsSeq
  <2>2. Len(Items(e, m, 0, s)) = Length(m, 0, s)
    BY <1>4 DEF Items
  <2>3. \A i \in 1..Length(m, 0, s) : Items(e, m, 0, s)[i] = e[(0 + i - 1) % m]
    BY DEF Items
  <2> QED
    BY <1>3, <1>4, <1>7, <1>8, <2>1, <2>2, <2>3
<1>11. \A i \in 1..s : q[i] = p[i]
  <2> SUFFICES ASSUME NEW i \in 1..s PROVE q[i] = p[i]
    OBVIOUS
  <2>1. q[i] = e[i - 1]
    BY <1>6, <1>10
  <2>2. e[i - 1] = b[(h + (i - 1)) % n]
    BY <1>b, <1>2, <1>3, <1>6
  <2>3. h + (i - 1) = h + i - 1
    OBVIOUS
  <2> QED
    BY <1>9, <2>1, <2>2, <2>3
<1>12. q = p
  BY <1>9, <1>10, <1>11, SameItems
<1> QED
  BY <1>n, <1>h, <1>a, <1>c, <1>2, <1>3, <1>4, <1>5, <1>7, <1>8, <1>12

\* borRingQueuePush stores behind the last element, whether or not the ring is
\* doubled first.
LEMMA StoreStep ==
  ASSUME RingOK, NEW p \in Producers, Append1(p), NEW x \in Elements, x = item[p]
  PROVE  RingOK' /\ Size' = Size + 1 /\ Contents' = Append(Contents, x)
<1>1. size \in Nat \ {0} /\ head \in 0..(size - 1) /\ tail \in 0..(size - 1) /\ buf \in [0..(size - 1) -> Values]
  BY DEF RingOK
<1>2. x \in Values /\ Junk \in Values
  BY DEF Values
<1>3. Contents \in Seq(Elements) /\ Append(Contents, x) \in Seq(Elements)
  BY DEF RingOK
<1>4. Size' = Length(size', head', tail') /\ Contents' = Items(buf', size', head', tail')
  BY DEF Size, Contents, Length, Items
<1>5. CASE queueNextId(tail, size) # head
  <2>1. buf' = [buf EXCEPT ![tail] = x] /\ size' = size /\ head' = head /\ tail' = queueNextId(tail, size)
    BY <1>5 DEF Append1, Store
  <2>2. queueNextId(tail, size) \in 0..(size - 1) /\ [buf EXCEPT ![tail] = x] \in [0..(size - 1) -> Values]
    BY <1>1, <1>2, NextIs
  <2>3. PICK c, u : c = [buf EXCEPT ![tail] = x] /\ u = queueNextId(tail, size)
    OBVIOUS
  <2>4. /\ Length(size, head, u) = Length(size, head, tail) + 1
        /\ Items(c, size, head, u) = Append(Items(buf, size, head, tail), x)
    <3>1. Stored(buf, size, head, tail, x, c, u)
      BY ONLY <1>1, <1>2, <1>5, <2>2, <2>3, StoreItems
    <3> QED
      BY ONLY <3>1 DEF Stored
  <2>5. Size' = Size + 1 /\ Contents' = Append(Contents, x)
    BY <1>4, <2>1, <2>3, <2>4, RingIs
  <2> QED
    BY <1>1, <1>3, <2>1, <2>2, <2>5 DEF RingOK
<1>6. CASE queueNextId(tail, size) = head
  <2>1. /\ buf' = [Extended EXCEPT ![Size] = x] /\ size' = 2 * size /\ head' = 0
        /\ tail' = queueNextId(Size, 2 * size)
    BY <1>6 DEF Append1, Store
  <2>2. PICK e, m, s : e = Extended /\ m = 2 * size /\ s = Size
    OBVIOUS
  <2>3. /\ m \in Nat \ {0} /\ s \in 0..(m - 1) /\ e \in [0..(m - 1) -> Values]
        /\ Items(e, m, 0, s) = Contents /\ Length(m, 0, s) = s /\ queueNextId(s, m) # 0
    BY <1>6, <2>2, ExtendItems
  <2>4. 0 \in 0..(m - 1)
    BY <2>3
  <2>5. queueNextId(s, m) \in 0..(m - 1) /\ [e EXCEPT ![s] = x] \in [0..(m - 1) -> Values]
    BY <1>2, <2>3, NextIs
  <2>6. PICK c, u : c = [e EXCEPT ![s] = x] /\ u = queueNextId(s, m)
    OBVIOUS
  <2>7. Length(m, 0, u) = Length(m, 0, s) + 1 /\ Items(c, m, 0, u) = Append(Items(e, m, 0, s), x)
    <3>1. Stored(e, m, 0, s, x, c, u)
      BY ONLY <1>2, <2>3, <2>4, <2>5, <2>6, StoreItems
    <3> QED
      BY ONLY <3>1 DEF Stored
  <2>8. buf' = c /\ size' = m /\ head' = 0 /\ tail' = u
    BY <2>1, <2>2, <2>6
  <2>9. Size' = Size + 1 /\ Contents' = Append(Contents, x)
    BY <1>4, <2>2, <2>3, <2>7, <2>8
  <2> QED
    BY <1>3, <2>3, <2>4, <2>5, <2>6, <2>8, <2>9 DEF RingOK
<1> QED
  BY <1>5, <1>6

\* queuePost takes the first element.
LEMMA TakeStep ==
  ASSUME RingOK, NEW c \in Consumers, Pick(c), head # tail
  PROVE  RingOK' /\ Size' = Size - 1 /\ Size' \in Nat /\ Line!Dequeue
<1>1. size \in Nat \ {0} /\ head \in 0..(size - 1) /\ tail \in 0..(size - 1) /\ buf \in [0..(size - 1) -> Values]
  BY DEF RingOK
<1>2. /\ delivered' = Append(delivered, buf[head]) /\ head' = queueNextId(head, size)
      /\ buf' = buf /\ size' = size /\ tail' = tail
  BY DEF Pick
<1>3. /\ queueNextId(head, size) \in 0..(size - 1)
      /\ Length(size, queueNextId(head, size), tail) = Length(size, head, tail) - 1
      /\ Items(buf, size, head, tail) # <<>> /\ Head(Items(buf, size, head, tail)) = buf[head]
      /\ Items(buf, size, queueNextId(head, size), tail) = Tail(Items(buf, size, head, tail))
  BY ONLY <1>1, head # tail, TakeItems
<1>4. Size' = Length(size', head', tail') /\ Contents' = Items(buf', size', head', tail')
  BY DEF Size, Contents, Length, Items
<1>5. Size' = Size - 1 /\ Contents # <<>> /\ Head(Contents) = buf[head] /\ Contents' = Tail(Contents)
  BY <1>2, <1>3, <1>4, RingIs
<1>6. Contents' \in Seq(Elements)
  <2>1. Contents \in Seq(Elements)
    BY DEF RingOK
  <2> QED
    BY <1>5, <2>1
<1>7. RingOK'
  BY <1>1, <1>2, <1>3, <1>6 DEF RingOK
<1>8. Size' \in Nat
  <2>1. Size \in Nat /\ Size # 0
    BY SizeNat
  <2> QED
    BY <1>5, <2>1
<1>9. Line!Dequeue
  BY <1>2, <1>5 DEF Line!Dequeue
<1> QED
  BY <1>5, <1>7, <1>8, <1>9

\* borRingQueueInit.
LEMMA InitInv == ASSUME ConstantsOK, Init PROVE Inv
<1>1. RingOK /\ Size = 0
  <2>1. size = RingSize /\ head = 0 /\ tail = 0 /\ buf = [k \in 0..(RingSize - 1) |-> Junk] /\ RingSize \in Nat \ {0}
    BY DEF Init, ConstantsOK
  <2>2. 0 \in 0..(RingSize - 1) /\ buf \in [0..(RingSize - 1) -> Values]
    BY <2>1 DEF Values
  <2>3. Length(RingSize, 0, 0) = 0
    BY ONLY <2>1, <2>2, LengthIs
  <2>4. Size = 0
    BY <2>1, <2>3 DEF Size, Length
  <2>5. Contents = <<>>
    BY <2>4 DEF Contents
  <2>6. Contents \in Seq(Elements)
    BY <2>5
  <2> QED
    BY <2>1, <2>2, <2>4, <2>6 DEF RingOK
<1>2. SemsOK
  BY DEF Init, SemsOK, ConstantsOK
<1>3. ThreadsOK
  BY DEF Init, ThreadsOK, Procs, Places, ProducerPlaces, ConsumerPlaces
<1>4. \A k : k # "idle" => Count(pc, k) = 0
  <2> SUFFICES ASSUME NEW k, k # "idle" PROVE Count(pc, k) = 0
    OBVIOUS
  <2>1. {q \in Procs : pc[q] = k} = {}
    BY DEF Init
  <2> QED
    BY <2>1, FS_EmptySet DEF Count
<1>5. NAnnounced = 0 /\ NOccupying = 0
  BY <1>4 DEF NAnnounced, NOccupying
<1>6. Synchronised
  <2>1. full = 0 /\ empty = QueueSize /\ interrupts = 0 /\ QueueSize \in Nat
    BY DEF Init, ConstantsOK
  <2> QED
    BY <1>1, <1>5, <2>1 DEF Synchronised
<1> QED
  BY <1>1, <1>2, <1>3, <1>6 DEF Inv, Typed

\* A thread goes from one place to another, with the item of a push.
LEMMA MoveThreads ==
  ASSUME ThreadsOK, NEW p \in Procs, NEW l, pc' = [pc EXCEPT ![p] = l],
         p \in Producers => l \in ProducerPlaces, p \in Consumers => l \in ConsumerPlaces,
         item' = item, p \in Producers /\ l \in {"reserve", "append", "post"} => item[p] \in Elements
  PROVE  ThreadsOK'
<1>1. l \in Places /\ pc' \in [Procs -> Places]
  BY DEF ThreadsOK, Places, Procs
<1>2. \A q \in Procs : pc'[q] = IF q = p THEN l ELSE pc[q]
  BY DEF ThreadsOK
<1>3. \A q \in Producers : pc'[q] \in ProducerPlaces
  BY <1>2 DEF ThreadsOK, Procs
<1>4. \A q \in Consumers : pc'[q] \in ConsumerPlaces
  BY <1>2 DEF ThreadsOK, Procs
<1>5. \A q \in Producers : pc'[q] \in {"reserve", "append", "post"} => item'[q] \in Elements
  BY <1>2 DEF ThreadsOK, Procs
<1> QED
  BY <1>1, <1>3, <1>4, <1>5 DEF ThreadsOK

\* What the semaphores say and what there is change by the same numbers.
LEMMA MoveSync ==
  ASSUME ConstantsOK, Typed, Synchronised, NEW p \in Procs, NEW l, pc[p] # l, pc' = [pc EXCEPT ![p] = l],
         full' \in Nat, empty' \in Nat, Size' \in Nat, interrupts' = interrupts,
         full' + Announced(l) + Size = full + Announced(pc[p]) + Size',
         empty' + Size' + Occupying(l) = empty + Size + Occupying(pc[p])
  PROVE  Synchronised'
<1>1. /\ NAnnounced \in Nat /\ NAnnounced' \in Nat /\ NOccupying \in Nat /\ NOccupying' \in Nat
      /\ NAnnounced' + Announced(pc[p]) = NAnnounced + Announced(l)
      /\ NOccupying' + Occupying(pc[p]) = NOccupying + Occupying(l)
  BY GroupsMove DEF Typed, ThreadsOK, ConstantsOK
<1>2. PICK a \in Nat, a1 \in Nat, o \in Nat, o1 \in Nat :
        a = NAnnounced /\ a1 = NAnnounced' /\ o = NOccupying /\ o1 = NOccupying'
  BY <1>1
<1>3. PICK s \in Nat, s1 \in Nat, f \in Nat, f1 \in Nat, e \in Nat, e1 \in Nat, i \in Nat :
        s = Size /\ s1 = Size' /\ f = full /\ f1 = full' /\ e = empty /\ e1 = empty' /\ i = interrupts
  BY SizeNat DEF Typed, SemsOK
<1>4. PICK x \in 0..1, x1 \in 0..1, y \in 0..1, y1 \in 0..1 :
        x = Announced(pc[p]) /\ x1 = Announced(l) /\ y = Occupying(pc[p]) /\ y1 = Occupying(l)
  BY DEF Announced, Occupying
<1>5. /\ f1 + x1 + s = f + x + s1 /\ e1 + s1 + y1 = e + s + y
      /\ a1 + x = a + x1 /\ o1 + y = o + y1
  BY <1>1, <1>2, <1>3, <1>4
<1>6. /\ f + a = s /\ (i = 0 => e + s + o = QueueSize)
      /\ e + s + o <= QueueSize + i
  BY <1>2, <1>3 DEF Synchronised
<1>7. /\ f1 + a1 = s1 /\ (i = 0 => e1 + s1 + o1 = QueueSize)
      /\ e1 + s1 + o1 <= QueueSize + i
  BY <1>5, <1>6 DEF ConstantsOK
<1>8. Size' = s1 /\ interrupts' = i
  BY <1>3
<1> QED
  BY <1>2, <1>3, <1>7, <1>8 DEF Synchronised

\* The steps that leave the buffer, and with it the promised queue, alone.
RingStays == RingOK' /\ Size' = Size /\ Size' \in Nat /\ UNCHANGED Line!vars

\* A step that leaves the ring and the deliveries alone leaves the promised queue alone.
LEMMA Stays == ASSUME RingOK, ring' = ring, delivered' = delivered PROVE RingStays
<1>1. buf' = buf /\ size' = size /\ head' = head /\ tail' = tail
  BY DEF ring
<1>2. Size' = Size /\ Contents' = Contents
  BY <1>1 DEF Size, Contents
<1>3. Size \in Nat
  BY SizeNat
<1> QED
  BY <1>1, <1>2, <1>3 DEF RingStays, RingOK, Line!vars

\* A producer calls borRingQueuePush.
LEMMA PushCallStep ==
  ASSUME ConstantsOK, Inv, NEW p \in Producers, NEW x \in Elements, PushCall(p, x)
  PROVE  Inv' /\ UNCHANGED Line!vars
<1> USE DEF PushCall, Goto, sems
<1>0. Typed /\ Synchronised /\ RingOK /\ SemsOK /\ ThreadsOK /\ p \in Procs
  BY DEF Inv, Typed, Procs
<1>1. RingStays
  BY <1>0, Stays
<1>2. SemsOK'
  BY <1>0 DEF SemsOK
<1>3. ThreadsOK'
  <2>1. \A q \in Procs : pc'[q] = IF q = p THEN "reserve" ELSE pc[q]
    BY <1>0 DEF ThreadsOK
  <2>2. item' \in [Producers -> Elements \cup {None}] /\ item'[p] \in Elements
    BY <1>0 DEF ThreadsOK
  <2>3. \A q \in Producers : pc'[q] \in {"reserve", "append", "post"} => item'[q] \in Elements
    BY <1>0, <2>1, <2>2 DEF ThreadsOK, Procs
  <2>4. pc' \in [Procs -> Places]
    BY <1>0 DEF ThreadsOK, Places, ProducerPlaces
  <2>5. (\A q \in Producers : pc'[q] \in ProducerPlaces) /\ (\A q \in Consumers : pc'[q] \in ConsumerPlaces)
    BY <1>0, <2>1 DEF ThreadsOK, Procs, ProducerPlaces, ConstantsOK
  <2> QED
    BY <2>2, <2>3, <2>4, <2>5 DEF ThreadsOK
<1>4. Synchronised'
  <2>1. /\ pc[p] = "idle" /\ pc' = [pc EXCEPT ![p] = "reserve"]
        /\ full' = full /\ empty' = empty /\ interrupts' = interrupts
    OBVIOUS
  <2>2. full \in Nat /\ empty \in Nat /\ Size' = Size /\ Size' \in Nat
    BY <1>0, <1>1 DEF SemsOK, RingStays
  <2>3. Announced("reserve") = Announced("idle") /\ Occupying("reserve") = Occupying("idle")
    BY DEF Announced, Occupying
  <2> HIDE DEF PushCall
  <2> QED
    BY <1>0, <2>1, <2>2, <2>3, MoveSync
<1> QED
  BY <1>1, <1>2, <1>3, <1>4 DEF Inv, Typed, RingStays

\* The steps of a call that moves a unit, or none, between a semaphore and the
\* thread.
LEMMA SemStep ==
  ASSUME ConstantsOK, Inv, NEW p \in Procs, NEW l, pc[p] # l, Goto(p, l),
         p \in Producers => l \in ProducerPlaces, p \in Consumers => l \in ConsumerPlaces,
         p \in Producers /\ l \in {"reserve", "append", "post"} => item[p] \in Elements,
         UNCHANGED <<ring, item, interrupts, delivered>>, full' \in Nat, empty' \in 0..QueueSize,
         full' + Announced(l) = full + Announced(pc[p]),
         empty' + Occupying(l) = empty + Occupying(pc[p])
  PROVE  Inv' /\ UNCHANGED Line!vars
<1>0. Typed /\ Synchronised /\ RingOK /\ SemsOK /\ ThreadsOK
  BY DEF Inv, Typed
<1>1. RingStays
  BY <1>0, Stays
<1>2. SemsOK'
  BY <1>0 DEF SemsOK
<1>3. ThreadsOK'
  BY <1>0, MoveThreads DEF Goto
<1>4. Synchronised'
  <2>1. PICK s \in Nat, f \in Nat, f1 \in Nat, e \in Nat, e1 \in Nat :
          s = Size /\ f = full /\ f1 = full' /\ e = empty /\ e1 = empty'
    BY <1>0, <1>1 DEF SemsOK, RingStays
  <2>2. PICK x \in 0..1, x1 \in 0..1, y \in 0..1, y1 \in 0..1 :
          x = Announced(pc[p]) /\ x1 = Announced(l) /\ y = Occupying(pc[p]) /\ y1 = Occupying(l)
    BY DEF Announced, Occupying
  <2>3. f1 + x1 = f + x /\ e1 + y1 = e + y
    BY <2>1, <2>2
  <2>4. f1 + x1 + s = f + x + s /\ e1 + s + y1 = e + s + y
    BY <2>3
  <2>5. Size' = s
    BY <1>1, <2>1 DEF RingStays
  <2>6. full' + Announced(l) + Size = full + Announced(pc[p]) + Size'
    BY <2>1, <2>2, <2>4, <2>5
  <2>7. empty' + Size' + Occupying(l) = empty + Size + Occupying(pc[p])
    BY <2>1, <2>2, <2>4, <2>5
  <2>8. full' \in Nat /\ empty' \in Nat /\ Size' \in Nat
    BY <2>1, <2>5
  <2> QED
    BY <1>0, <2>6, <2>7, <2>8, MoveSync DEF Goto
<1> QED
  BY <1>1, <1>2, <1>3, <1>4 DEF Inv, Typed, RingStays

\* The critical section of borRingQueuePush: the buffer has room in the promised
\* queue, because the thread has a unit of empty or was interrupted.
LEMMA AppendStep ==
  ASSUME ConstantsOK, Inv, NEW p \in Producers, Append1(p)
  PROVE  Inv' /\ \E x \in Elements : Line!Enqueue(x)
<1>0. Typed /\ Synchronised /\ RingOK /\ SemsOK /\ ThreadsOK /\ p \in Procs
  BY DEF Inv, Typed, Procs
<1>1. pc[p] = "append" /\ item[p] \in Elements /\ pc' = [pc EXCEPT ![p] = "post"]
  BY <1>0 DEF Append1, Goto, ThreadsOK
<1>2. PICK x \in Elements : x = item[p]
  BY <1>1
<1>3. UNCHANGED <<full, empty, item, interrupts, delivered>>
  BY <1>2 DEF Append1, sems, history
<1>4. RingOK' /\ Size' = Size + 1 /\ Contents' = Append(Contents, x)
  BY <1>0, <1>2, StoreStep
<1>5. Contents \in Seq(Elements)
  BY <1>0 DEF RingOK
<1>6. SemsOK'
  BY <1>0, <1>3 DEF SemsOK
<1>7. ThreadsOK'
  BY <1>0, <1>1, <1>3, MoveThreads DEF ProducerPlaces, ConstantsOK, Procs
<1>8. PICK s \in Nat, f \in Nat, e \in Nat, i \in Nat : s = Size /\ f = full /\ e = empty /\ i = interrupts
  BY <1>0, SizeNat DEF SemsOK
<1>9. Synchronised'
  <2>1. Announced("append") = 0 /\ Announced("post") = 1 /\ Occupying("append") = 1 /\ Occupying("post") = 0
    BY DEF Announced, Occupying
  <2>2. full' + Announced("post") + Size = full + Announced(pc[p]) + Size'
    BY <1>1, <1>3, <1>4, <1>8, <2>1
  <2>3. empty' + Size' + Occupying("post") = empty + Size + Occupying(pc[p])
    BY <1>1, <1>3, <1>4, <1>8, <2>1
  <2>4. full' \in Nat /\ empty' \in Nat /\ Size' \in Nat
    BY <1>3, <1>4, <1>8
  <2> QED
    BY <1>0, <1>1, <1>3, <2>2, <2>3, <2>4, MoveSync
<1>10. Len(Contents) < QueueSize + MaxInterrupts
  <2>1. NOccupying \in Nat /\ NOccupying >= 1
    <3>1. NOccupying >= Occupying("append") /\ NOccupying \in Nat
      BY <1>0, <1>1, GroupsMove DEF ThreadsOK, ConstantsOK
    <3> QED
      BY <3>1 DEF Occupying
  <2>2. e + s + NOccupying <= QueueSize + i
    BY <1>0, <1>8 DEF Synchronised
  <2>3. i <= MaxInterrupts
    BY <1>0, <1>8 DEF SemsOK
  <2>4. Len(Contents) = s
    BY <1>0, <1>8, SizeNat
  <2> QED
    BY <2>1, <2>2, <2>3, <2>4 DEF ConstantsOK
<1>11. Line!Enqueue(x)
  BY <1>3, <1>4, <1>10 DEF Line!Enqueue
<1> QED
  BY <1>4, <1>6, <1>7, <1>9, <1>11 DEF Inv, Typed

\* queuePost finds an element: the thread has a unit of full.
LEMMA PickStep ==
  ASSUME ConstantsOK, Inv, NEW c \in Consumers, Pick(c)
  PROVE  Inv' /\ Line!Dequeue
<1>0. Typed /\ Synchronised /\ RingOK /\ SemsOK /\ ThreadsOK /\ c \in Procs /\ c \notin Producers
  BY DEF Inv, Typed, Procs, ConstantsOK
<1>1. pc[c] = "pick" /\ pc' = [pc EXCEPT ![c] = "room"] /\ UNCHANGED <<full, empty, item, interrupts>>
  BY DEF Pick, Goto, sems
<1>2. PICK s \in Nat, f \in Nat, e \in Nat : s = Size /\ f = full /\ e = empty
  BY <1>0, SizeNat DEF SemsOK
<1>3. SemsOK'
  BY <1>0, <1>1 DEF SemsOK
<1>4. s # 0
  <2>1. Count(pc, "pick") >= 1 /\ Count(pc, "pick") \in Nat /\ Count(pc, "post") \in Nat
    BY <1>0, <1>1, CountPositive, CountNat DEF ConstantsOK
  <2>2. PICK x \in Nat, y \in Nat : x = Count(pc, "pick") /\ y = Count(pc, "post") /\ x >= 1
    BY <2>1
  <2>3. f + (x + y) = s
    BY <1>0, <1>2, <2>2 DEF Synchronised, NAnnounced
  <2> QED
    BY <2>2, <2>3
<1>5. head # tail
  BY <1>0, <1>2, <1>4, SizeNat
<1>6. RingOK' /\ Size' = Size - 1 /\ Size' \in Nat /\ Line!Dequeue
  BY <1>0, <1>5, TakeStep
<1>7. ThreadsOK'
  BY <1>0, <1>1, MoveThreads DEF ConsumerPlaces
<1>8. Synchronised'
  <2>1. Announced("pick") = 1 /\ Announced("room") = 0 /\ Occupying("pick") = 0 /\ Occupying("room") = 1
    BY DEF Announced, Occupying
  <2>2. full' + Announced("room") + Size = full + Announced(pc[c]) + Size'
    BY <1>1, <1>2, <1>6, <2>1
  <2>3. empty' + Size' + Occupying("room") = empty + Size + Occupying(pc[c])
    BY <1>1, <1>2, <1>6, <2>1
  <2>4. full' \in Nat /\ empty' \in Nat
    BY <1>1, <1>2
  <2> QED
    BY <1>0, <1>1, <1>6, <2>2, <2>3, <2>4, MoveSync
<1> QED
  BY <1>3, <1>6, <1>7, <1>8 DEF Inv, Typed

\* The semaphore empty does not rise above its maximum.
LEMMA RoomStep ==
  ASSUME ConstantsOK, Inv, NEW c \in Consumers, Room(c)
  PROVE  Inv' /\ UNCHANGED Line!vars
<1>0. Typed /\ Synchronised /\ RingOK /\ SemsOK /\ ThreadsOK /\ c \in Procs /\ c \notin Producers
  BY DEF Inv, Typed, Procs, ConstantsOK
<1>1. pc[c] = "room" /\ Goto(c, "idle") /\ UNCHANGED <<ring, full, item, interrupts, delivered>>
  BY DEF Room, history
<1>2. CASE empty < QueueSize
  <2>1. empty' = empty + 1
    BY <1>2 DEF Room
  <2>2. empty' \in 0..QueueSize /\ full' \in Nat
    BY <1>0, <1>1, <1>2, <2>1 DEF SemsOK, ConstantsOK
  <2>3. Announced("room") = 0 /\ Announced("idle") = 0 /\ Occupying("room") = 1 /\ Occupying("idle") = 0
    BY DEF Announced, Occupying
  <2>4. full' + Announced("idle") = full + Announced(pc[c]) /\ empty' + Occupying("idle") = empty + Occupying(pc[c])
    BY <1>0, <1>1, <2>1, <2>3 DEF SemsOK
  <2> QED
    BY <1>0, <1>1, <2>2, <2>4, SemStep DEF ConsumerPlaces
<1>3. CASE ~(empty < QueueSize)
  <2>1. empty' = empty /\ empty = QueueSize
    BY <1>0, <1>3 DEF Room, SemsOK, ConstantsOK
  <2>2. RingStays /\ SemsOK'
    BY <1>0, <1>1, <2>1, Stays DEF SemsOK
  <2>3. ThreadsOK'
    BY <1>0, <1>1, MoveThreads DEF ConsumerPlaces, Goto
  <2>4. /\ NOccupying \in Nat /\ NOccupying' \in Nat
        /\ NOccupying' + 1 = NOccupying
    <3>1. /\ NOccupying \in Nat /\ NOccupying' \in Nat
          /\ NOccupying' + Occupying("room") = NOccupying + Occupying("idle")
      BY <1>0, <1>1, GroupsMove DEF ThreadsOK, Goto, ConstantsOK
    <3>2. Occupying("room") = 1 /\ Occupying("idle") = 0
      BY DEF Occupying
    <3>3. PICK o \in Nat, o1 \in Nat : o = NOccupying /\ o1 = NOccupying'
      BY <3>1
    <3>4. o1 + 1 = o + 0
      BY <3>1, <3>2, <3>3
    <3>5. o1 + 1 = o
      BY ONLY o \in Nat, o1 \in Nat, <3>4
    <3> QED
      BY ONLY <3>1, <3>3, <3>5
  <2>a. PICK o \in Nat, o1 \in Nat : o = NOccupying /\ o1 = NOccupying' /\ o1 + 1 = o
    BY <2>4
  <2>b. o1 + 1 = o
    BY <2>a, Zenon
  <2>5. PICK s \in Nat, i \in Nat : s = Size /\ i = interrupts /\ Size' = s /\ interrupts' = i
    BY <1>0, <1>1, <2>2, SizeNat DEF SemsOK, RingStays
  <2>c. QueueSize \in Nat
    BY DEF ConstantsOK
  <2>6. i # 0
    <3>1. i = 0 => QueueSize + s + o = QueueSize
      BY <1>0, <2>1, <2>5, <2>a DEF Synchronised
    <3> QED
      BY ONLY <2>c, s \in Nat, o \in Nat, o1 \in Nat, <2>b, <3>1
  <2>7. QueueSize + s + o <= QueueSize + i
    BY <1>0, <2>1, <2>5, <2>a DEF Synchronised
  <2>8. QueueSize + s + o1 <= QueueSize + i
    BY ONLY <2>c, s \in Nat, i \in Nat, o \in Nat, o1 \in Nat, <2>b, <2>7
  <2>9. NAnnounced' = NAnnounced /\ full' = full
    <3>1. /\ NAnnounced \in Nat /\ NAnnounced' \in Nat
          /\ NAnnounced' + Announced("room") = NAnnounced + Announced("idle")
      BY <1>0, <1>1, GroupsMove DEF ThreadsOK, Goto, ConstantsOK
    <3>2. Announced("room") = 0 /\ Announced("idle") = 0
      BY DEF Announced
    <3> QED
      BY <1>1, <3>1, <3>2
  <2>10. Synchronised'
    BY <1>0, <2>1, <2>2, <2>5, <2>6, <2>8, <2>9, <2>a DEF Synchronised, RingStays
  <2> QED
    BY <2>2, <2>3, <2>10 DEF Inv, Typed, RingStays
<1> QED
  BY <1>2, <1>3

\* An interrupted push goes on without a unit of empty; from then on only the
\* bound on what is inside is kept.
LEMMA InterruptPushStep ==
  ASSUME ConstantsOK, Inv, NEW p \in Producers, InterruptPush(p)
  PROVE  Inv' /\ UNCHANGED Line!vars
<1>0. Typed /\ Synchronised /\ RingOK /\ SemsOK /\ ThreadsOK /\ p \in Procs /\ p \notin Consumers
  BY DEF Inv, Typed, Procs, ConstantsOK
<1>1. /\ UNCHANGED <<ring, full, empty, item, delivered>> /\ interrupts' = interrupts + 1 /\ interrupts < MaxInterrupts
      /\ pc[p] = "reserve" /\ pc' = [pc EXCEPT ![p] = "append"]
  BY DEF InterruptPush, sems, history, Goto
<1>2. RingStays
  BY <1>0, <1>1, Stays
<1>3. SemsOK'
  BY <1>0, <1>1 DEF SemsOK, ConstantsOK
<1>4. ThreadsOK'
  <2>1. item[p] \in Elements
    BY <1>0, <1>1 DEF ThreadsOK
  <2> QED
    BY <1>0, <1>1, <2>1, MoveThreads DEF ProducerPlaces
<1>5. Synchronised'
  <2>1. /\ NAnnounced \in Nat /\ NAnnounced' \in Nat /\ NOccupying \in Nat /\ NOccupying' \in Nat
        /\ NAnnounced' + Announced("reserve") = NAnnounced + Announced("append")
        /\ NOccupying' + Occupying("reserve") = NOccupying + Occupying("append")
    BY <1>0, <1>1, GroupsMove DEF ThreadsOK, ConstantsOK
  <2>2. /\ Announced("reserve") = 0 /\ Announced("append") = 0
        /\ Occupying("reserve") = 0 /\ Occupying("append") = 1
    BY DEF Announced, Occupying
  <2>3. PICK a \in Nat, a1 \in Nat, o \in Nat, o1 \in Nat :
          a = NAnnounced /\ a1 = NAnnounced' /\ o = NOccupying /\ o1 = NOccupying'
    BY <2>1
  <2>4. a1 = a /\ o1 = o + 1
    BY <2>1, <2>2, <2>3
  <2>5. PICK s \in Nat, e \in Nat, i \in Nat, f \in Nat :
          s = Size /\ e = empty /\ i = interrupts /\ f = full
    BY <1>0, SizeNat DEF SemsOK
  <2>6. Size' = s /\ empty' = e /\ interrupts' = i + 1 /\ full' = f
    BY <1>1, <1>2, <2>5 DEF RingStays
  <2>7. f + a = s /\ e + s + o <= QueueSize + i /\ QueueSize \in Nat
    BY <1>0, <2>3, <2>5 DEF Synchronised, ConstantsOK
  <2>8. f + a1 = s /\ e + s + o1 <= QueueSize + (i + 1) /\ i + 1 # 0
    BY <2>4, <2>7
  <2> QED
    BY <2>3, <2>6, <2>8 DEF Synchronised
<1> QED
  BY <1>2, <1>3, <1>4, <1>5 DEF Inv, Typed, RingStays

\* An interrupted pop returns without a unit of full.
LEMMA InterruptPopStep ==
  ASSUME ConstantsOK, Inv, NEW c \in Consumers, InterruptPop(c)
  PROVE  Inv' /\ UNCHANGED Line!vars
<1>0. Typed /\ Synchronised /\ RingOK /\ SemsOK /\ ThreadsOK /\ c \in Procs /\ c \notin Producers
  BY DEF Inv, Typed, Procs, ConstantsOK
<1>1. /\ UNCHANGED <<ring, full, empty, item, delivered>> /\ interrupts' = interrupts + 1 /\ interrupts < MaxInterrupts
      /\ pc[c] \in {"wait", "timed"} /\ pc' = [pc EXCEPT ![c] = "idle"]
  BY DEF InterruptPop, Refuse, sems, history, Goto
<1>2. RingStays
  BY <1>0, <1>1, Stays
<1>3. SemsOK'
  BY <1>0, <1>1 DEF SemsOK, ConstantsOK
<1>4. ThreadsOK'
  BY <1>0, <1>1, MoveThreads DEF ConsumerPlaces
<1>5. Synchronised'
  <2>1. pc[c] # "idle" /\ pc \in [Procs -> Places]
    BY <1>0, <1>1 DEF ThreadsOK
  <2>2. /\ NAnnounced \in Nat /\ NAnnounced' \in Nat /\ NOccupying \in Nat /\ NOccupying' \in Nat
        /\ NAnnounced' + Announced(pc[c]) = NAnnounced + Announced("idle")
        /\ NOccupying' + Occupying(pc[c]) = NOccupying + Occupying("idle")
    BY <1>0, <1>1, <2>1, GroupsMove DEF ConstantsOK
  <2>3. /\ Announced(pc[c]) = 0 /\ Announced("idle") = 0
        /\ Occupying(pc[c]) = 0 /\ Occupying("idle") = 0
    BY <1>1 DEF Announced, Occupying
  <2>4. NAnnounced' = NAnnounced /\ NOccupying' = NOccupying
    BY <2>2, <2>3
  <2>5. PICK s \in Nat, e \in Nat, i \in Nat, f \in Nat, o \in Nat :
          s = Size /\ e = empty /\ i = interrupts /\ f = full /\ o = NOccupying
    BY <1>0, <2>2, SizeNat DEF SemsOK
  <2>6. Size' = s /\ empty' = e /\ interrupts' = i + 1 /\ full' = f /\ NOccupying' = o
    BY <1>1, <1>2, <2>4, <2>5 DEF RingStays
  <2>7. f + NAnnounced = s /\ e + s + o <= QueueSize + i /\ QueueSize \in Nat
    BY <1>0, <2>5 DEF Synchronised, ConstantsOK
  <2>8. e + s + o <= QueueSize + (i + 1) /\ i + 1 # 0
    BY <2>7
  <2> QED
    BY <2>4, <2>6, <2>7, <2>8 DEF Synchronised
<1> QED
  BY <1>2, <1>3, <1>4, <1>5 DEF Inv, Typed, RingStays

\* A call that is refused, or no step at all.
LEMMA NothingMoves ==
  ASSUME Inv, UNCHANGED <<ring, full, empty, pc, item, interrupts, delivered>>
  PROVE  Inv' /\ UNCHANGED Line!vars
<1>1. RingStays
  BY Stays DEF Inv, Typed
<1>2. NAnnounced' = NAnnounced /\ NOccupying' = NOccupying
  BY DEF NAnnounced, NOccupying, Count
<1>3. SemsOK' /\ ThreadsOK'
  BY DEF Inv, Typed, SemsOK, ThreadsOK
<1>4. Synchronised'
  BY <1>1, <1>2 DEF Inv, Synchronised, RingStays
<1> QED
  BY <1>1, <1>3, <1>4 DEF Inv, Typed, RingStays

\* Every step keeps the invariant and is a step of the queue, or none.
LEMMA Step == ASSUME ConstantsOK PROVE Inv /\ [Next]_vars => Inv' /\ [Line!Next]_(Line!vars)
<1> SUFFICES ASSUME Inv, [Next]_vars PROVE Inv' /\ [Line!Next]_(Line!vars)
  OBVIOUS
<1>0. SemsOK /\ ThreadsOK
  BY DEF Inv, Typed
<1>a. \A k : /\ Announced(k) = (IF k \in {"pick", "post"} THEN 1 ELSE 0)
             /\ Occupying(k) = (IF k \in {"append", "room"} THEN 1 ELSE 0)
  BY DEF Announced, Occupying
<1>1. ASSUME NEW p \in Producers, ProducerStep(p) PROVE Inv' /\ [Line!Next]_(Line!vars)
  <2>0. p \in Procs /\ p \notin Consumers
    BY DEF Procs, ConstantsOK
  <2>1. CASE Reserve(p)
    <3>1. /\ pc[p] = "reserve" /\ Goto(p, "append") /\ UNCHANGED <<ring, item, interrupts, delivered>>
          /\ full' \in Nat /\ empty' \in 0..QueueSize /\ item[p] \in Elements
          /\ full' + 0 = full + 0 /\ empty' + 1 = empty + 0
      BY <1>0, <2>1 DEF Reserve, history, SemsOK, ThreadsOK, ConstantsOK
    <3> QED
      BY <1>a, <2>0, <3>1, SemStep DEF ProducerPlaces
  <2>2. CASE Append1(p)
    BY <2>2, AppendStep DEF Line!Next
  <2>3. CASE Post(p)
    <3> USE DEF Post, Goto, history
    <3>1. Typed /\ Synchronised /\ RingOK
      BY DEF Inv, Typed
    <3>2. RingStays /\ SemsOK'
      BY <1>0, <2>3, <3>1, Stays DEF SemsOK
    <3>3. ThreadsOK'
      <4>1. \A q \in Procs : pc'[q] = IF q = p THEN "idle" ELSE pc[q]
        BY <1>0, <2>3 DEF ThreadsOK
      <4>2. item' \in [Producers -> Elements \cup {None}] /\ \A q \in Producers : q # p => item'[q] = item[q]
        BY <1>0, <2>3 DEF ThreadsOK
      <4>3. pc' \in [Procs -> Places]
        BY <1>0, <2>3 DEF ThreadsOK, Places, ProducerPlaces
      <4>4. (\A q \in Producers : pc'[q] \in ProducerPlaces) /\ (\A q \in Consumers : pc'[q] \in ConsumerPlaces)
        BY <1>0, <4>1 DEF ThreadsOK, Procs, ProducerPlaces, ConsumerPlaces
      <4>5. \A q \in Producers : pc'[q] \in {"reserve", "append", "post"} => item'[q] \in Elements
        BY <1>0, <4>1, <4>2 DEF ThreadsOK, Procs
      <4> QED
        BY <4>2, <4>3, <4>4, <4>5 DEF ThreadsOK
    <3>4. Synchronised'
      <4>1. /\ pc[p] = "post" /\ pc' = [pc EXCEPT ![p] = "idle"] /\ full' = full + 1 /\ empty' = empty
            /\ interrupts' = interrupts /\ Size' = Size /\ Size' \in Nat
        BY <2>3, <3>2 DEF RingStays
      <4>2. full' + 0 + Size = full + 1 + Size' /\ empty' + Size' + 0 = empty + Size + 0
        BY <1>0, <4>1 DEF SemsOK
      <4>3. full' \in Nat /\ empty' \in Nat
        BY <1>0, <4>1 DEF SemsOK
      <4> HIDE DEF Post
      <4> QED
        BY <1>a, <2>0, <3>1, <4>1, <4>2, <4>3, MoveSync
    <3> QED
      BY <1>0, <3>2, <3>3, <3>4 DEF Inv, Typed, RingStays
  <2> QED
    BY <1>1, <2>1, <2>2, <2>3 DEF ProducerStep
<1>2. ASSUME NEW c \in Consumers, NEW l, pc[c] # l, Goto(c, l),
             l \in {"idle", "wait", "timed"}, pc[c] \in {"idle", "timed"},
             UNCHANGED <<ring, sems, item, interrupts, history>>
      PROVE  Inv' /\ [Line!Next]_(Line!vars)
  <2>0. c \in Procs /\ c \notin Producers
    BY DEF Procs, ConstantsOK
  <2>1. /\ UNCHANGED <<ring, item, interrupts, delivered>>
        /\ full' \in Nat /\ empty' \in 0..QueueSize
        /\ full' + 0 = full + 0 /\ empty' + 0 = empty + 0
    BY <1>0, <1>2 DEF sems, history, SemsOK
  <2>2. /\ l \in ConsumerPlaces /\ l \notin {"pick", "post", "append", "room"}
        /\ pc[c] \notin {"pick", "post", "append", "room"}
    BY <1>2 DEF ConsumerPlaces
  <2> QED
    BY <1>2, <1>a, <2>0, <2>1, <2>2, SemStep
<1>3. ASSUME NEW c \in Consumers, pc[c] \in {"idle", "wait", "timed"}, Acquire(c)
      PROVE  Inv' /\ [Line!Next]_(Line!vars)
  <2>0. c \in Procs /\ c \notin Producers
    BY DEF Procs, ConstantsOK
  <2>1. /\ Goto(c, "pick") /\ UNCHANGED <<ring, item, interrupts, delivered>>
        /\ full' \in Nat /\ empty' \in 0..QueueSize
        /\ full' + 1 = full + 0 /\ empty' + 0 = empty + 0
    BY <1>0, <1>3 DEF Acquire, history, SemsOK
  <2>2. "pick" \in ConsumerPlaces /\ pc[c] # "pick" /\ pc[c] \notin {"pick", "post", "append", "room"}
    BY <1>3 DEF ConsumerPlaces
  <2> QED
    BY <1>a, <2>0, <2>1, <2>2, SemStep
<1>4. ASSUME NEW c \in Consumers, pc[c] = "idle", Refuse(c), UNCHANGED interrupts
      PROVE  Inv' /\ [Line!Next]_(Line!vars)
  <2>0. c \in Procs
    BY DEF Procs, ConstantsOK
  <2>1. UNCHANGED vars
    <3>1. pc' = pc
      BY <1>0, <1>4, <2>0 DEF Refuse, Goto, ThreadsOK
    <3> QED
      BY <1>4, <3>1 DEF Refuse, vars
  <2>2. Inv' /\ UNCHANGED Line!vars
    <3>1. UNCHANGED <<ring, full, empty, pc, item, interrupts, delivered>>
      BY <2>1 DEF vars, sems, history
    <3> QED
      BY <3>1, NothingMoves
  <2> QED
    BY <2>2
<1>5. CASE UNCHANGED vars
  <2>1. UNCHANGED <<ring, full, empty, pc, item, interrupts, delivered>>
    BY <1>5 DEF vars, sems, history
  <2> QED
    BY <2>1, NothingMoves
<1>6. ASSUME NEW c \in Consumers, ConsumerStep(c) PROVE Inv' /\ [Line!Next]_(Line!vars)
  <2>1. CASE Wait(c) \/ TimedWait(c)
    BY <1>3, <2>1 DEF Wait, TimedWait
  <2>2. CASE Timeout(c)
    BY <1>2, <2>2 DEF Timeout, Refuse
  <2>3. CASE Pick(c)
    BY <2>3, PickStep DEF Line!Next
  <2>4. CASE Room(c)
    BY <2>4, RoomStep
  <2> QED
    BY <1>6, <2>1, <2>2, <2>3, <2>4 DEF ConsumerStep
<1>7. ASSUME NEW c \in Consumers, TryPop(c) \/ TryPopEmpty(c) \/ PopBlock(c) \/ TimedPop(c) \/ TimedPopInvalid(c)
      PROVE  Inv' /\ [Line!Next]_(Line!vars)
  <2>1. CASE TryPop(c)
    BY <1>3, <2>1 DEF TryPop
  <2>2. CASE TryPopEmpty(c) \/ TimedPopInvalid(c)
    BY <1>4, <2>2 DEF TryPopEmpty, TimedPopInvalid
  <2>3. CASE PopBlock(c)
    BY <1>2, <2>3 DEF PopBlock
  <2>4. CASE TimedPop(c)
    BY <1>2, <2>4 DEF TimedPop
  <2> QED
    BY <1>7, <2>1, <2>2, <2>3, <2>4
<1>8. ASSUME NEW p \in Producers, NEW x \in Elements, PushCall(p, x) PROVE Inv' /\ [Line!Next]_(Line!vars)
  BY <1>8, PushCallStep
<1>9. ASSUME NEW p \in Producers, InterruptPush(p) PROVE Inv' /\ [Line!Next]_(Line!vars)
  BY <1>9, InterruptPushStep
<1>11. ASSUME NEW c \in Consumers, InterruptPop(c) PROVE Inv' /\ [Line!Next]_(Line!vars)
  BY <1>11, InterruptPopStep
<1>10. CASE Quiescent
  BY <1>5, <1>10 DEF Quiescent
<1> QED
  BY <1>1, <1>5, <1>6, <1>7, <1>8, <1>9, <1>10, <1>11 DEF Next

\* The invariant holds throughout.
LEMMA Inductive == ASSUME ConstantsOK PROVE Spec => []Inv
<1>1. Init => Inv
  BY InitInv
<1>2. Inv /\ [Next]_vars => Inv'
  BY Step
<1> QED
  BY <1>1, <1>2, PTL DEF Spec

\* Indices stay inside the ring, also while it doubles, and the semaphore empty
\* stays between 0 and its maximum, whatever the interleaving of
\* borRingQueuePush and the pops.
THEOREM TypeCorrect == ASSUME ConstantsOK PROVE Spec => []TypeOK
<1>1. Inv => TypeOK
  BY DEF Inv, Typed, RingOK, SemsOK, ThreadsOK, TypeOK, Places, ProducerPlaces, ConsumerPlaces, Values
<1> QED
  BY <1>1, Inductive, PTL

\* The semaphores of ring_queue.c count the elements and the room, and queuePost
\* finds an element whenever a pop has passed the semaphore.
THEOREM SemaphoresCount == ASSUME ConstantsOK PROVE Spec => []SemaphoresMatchRing
<1>1. Inv => SemaphoresMatchRing
  <2> SUFFICES ASSUME Inv
               PROVE  /\ full + Cardinality(At("pick")) + Cardinality(At("post")) = Size
                      /\ interrupts = 0 =>
                           empty + Size + Cardinality(At("append")) + Cardinality(At("room")) = QueueSize
    BY DEF SemaphoresMatchRing
  <2>1. \A k : Cardinality(At(k)) = Count(pc, k) /\ Count(pc, k) \in Nat
    BY CountNat DEF At, Count, ConstantsOK
  <2>2. PICK a \in Nat, b \in Nat, c \in Nat, d \in Nat :
          a = Count(pc, "pick") /\ b = Count(pc, "post") /\ c = Count(pc, "append") /\ d = Count(pc, "room")
    BY <2>1
  <2>3. PICK s \in Nat, f \in Nat, e \in Nat : s = Size /\ f = full /\ e = empty
    BY SizeNat DEF Inv, Typed, SemsOK
  <2>4. f + (a + b) = s /\ (interrupts = 0 => e + s + (c + d) = QueueSize)
    BY <2>2, <2>3 DEF Inv, Synchronised, NAnnounced, NOccupying
  <2>5. f + a + b = s /\ (interrupts = 0 => e + s + c + d = QueueSize)
    BY <2>4
  <2> QED
    BY <2>1, <2>2, <2>3, <2>5
<1> QED
  BY <1>1, Inductive, PTL

\* The ring implements the promised queue: elements are delivered in the order in
\* which borRingQueuePush stored them, each once, wherever the ring wraps and
\* however often it doubles, and at most QueueSize plus one for each interrupted
\* wait are inside.
THEOREM KeepsOrder == ASSUME ConstantsOK PROVE Spec => RingImplementsQueue
<1>1. Init => Line!Init
  <2> SUFFICES ASSUME Init PROVE Line!Init
    OBVIOUS
  <2>1. Inv /\ delivered = <<>> /\ head = tail
    BY InitInv DEF Init
  <2>2. Size = 0
    BY <2>1, SizeNat DEF Inv, Typed
  <2>3. Contents = <<>>
    BY <2>2 DEF Contents
  <2> QED
    BY <2>1, <2>3 DEF Line!Init
<1>2. Inv /\ [Next]_vars => [Line!Next]_(Line!vars)
  BY Step
<1> QED
  BY <1>1, <1>2, Inductive, PTL DEF Spec, RingImplementsQueue, Line!Spec
=============================================================================
