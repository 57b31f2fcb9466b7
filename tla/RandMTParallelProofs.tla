------------------------ MODULE RandMTParallelProofs ------------------------
(***************************************************************************)
(* Proofs about RandMTParallel, for every number of threads and every size *)
(* of the pools: the threads divide the stream among them, in order.       *)
(***************************************************************************)
EXTENDS RandMTParallel, FiniteSetTheorems, TLAPS

Busy == {"draw", "advance"}

\* The numbers that a thread received or will receive without a refill.
Own(t) == Received(t) \cup Waiting(t)

HistoryOK == reg \in [Pools -> Nat] /\ got \in [Pools -> Seq(Nat)]

\* Whoever draws holds the lock, and no one else.
LockOK == \A t \in Pools : pc[t] \in Busy <=> lock = t

\* A pool is refilled from an empty one with consecutive numbers, the last of
\* them the last that was drawn.
PoolOf(t) ==
  /\ pc[t] # "idle" => next[t] = PoolSize
  /\ pc[t] = "advance" => reg[t] = pos /\ i[t] < PoolSize
  /\ pc[t] \in Busy => \A k \in 0..(i[t] - 1) : pool[t][k] + i[t] = pos + k
  /\ pc[t] = "idle" => \A k \in 0..(PoolSize - 1) : pool[t][k] = pool[t][0] + k

\* The numbers received increase and lie before those that wait; the last of
\* them came from the place before the next one, and the place of the next one
\* is their number modulo the size of a pool.
GotOf(t) ==
  /\ \A j, k \in 1..Len(got[t]) : j < k => got[t][j] < got[t][k]
  /\ \A j \in 1..Len(got[t]) : \A w \in Waiting(t) : got[t][j] < w
  /\ next[t] < PoolSize => Len(got[t]) % PoolSize = next[t]
  /\ next[t] = PoolSize => Len(got[t]) % PoolSize = 0
  /\ pc[t] = "idle" /\ next[t] > 0 => Len(got[t]) > 0 /\ got[t][Len(got[t])] = pool[t][next[t] - 1]

\* OrderKept for one thread.
OrderOf(t) ==
  \A k \in 2..Len(got[t]) :
    IF (k - 1) % PoolSize = 0 THEN got[t][k] > got[t][k - 1] ELSE got[t][k] = got[t][k - 1] + 1

\* No number has two owners, and every number drawn has one.
Divided ==
  /\ \A t, u \in Pools : t # u => Own(t) \cap Own(u) = {}
  /\ UNION {Own(t) : t \in Pools} = 0..(pos - 1)

ThreadsOK == \A t \in Pools : PoolOf(t) /\ GotOf(t) /\ OrderOf(t)

Inv == TypeOK /\ HistoryOK /\ LockOK /\ ThreadsOK /\ Divided

----------------------------------------------------------------------------
(* Numbers and sets.                                                       *)

\* The remainder of the next number.
LEMMA NextRest ==
  ASSUME NEW n \in Nat \ {0}, NEW x \in Nat
  PROVE  ((x % n) + 1 = n => (x + 1) % n = 0) /\ ((x % n) + 1 < n => (x + 1) % n = (x % n) + 1)
<1>1. PICK q \in Nat, r \in 0..(n - 1) : x = q * n + r /\ x % n = r
  OBVIOUS
<1>2. \A p \in Nat, s \in 0..(n - 1) : (p * n + s) % n = s
  OBVIOUS
<1>3. CASE r + 1 = n
  <2>1. x + 1 = (q + 1) * n + 0
    BY <1>1, <1>3
  <2> QED
    BY <1>1, <1>2, <1>3, <2>1
<1>4. CASE r + 1 < n
  <2>1. x + 1 = q * n + (r + 1) /\ r + 1 \in 0..(n - 1)
    BY <1>1, <1>4
  <2>2. (q * n + (r + 1)) % n = r + 1
    BY <1>2, <2>1
  <2> QED
    BY <1>1, <2>1, <2>2
<1> QED
  BY <1>1, <1>3, <1>4

\* The numbers of an increasing sequence are as many as its length.
LEMMA Increasing ==
  ASSUME NEW s \in Seq(Nat), \A j, k \in 1..Len(s) : j < k => s[j] < s[k]
  PROVE  Cardinality({s[k] : k \in DOMAIN s}) = Len(s)
<1> DEFINE S == {s[k] : k \in 1..Len(s)}
<1>1. DOMAIN s = 1..Len(s) /\ Len(s) \in Nat /\ \A k \in 1..Len(s) : s[k] \in Nat
  OBVIOUS
<1>2. \A j, k \in 1..Len(s) : s[j] = s[k] => j = k
  <2> SUFFICES ASSUME NEW j \in 1..Len(s), NEW k \in 1..Len(s), s[j] = s[k], j # k PROVE FALSE
    OBVIOUS
  <2>1. j < k \/ k < j
    BY <1>1
  <2> QED
    BY <1>1, <2>1
<1>3. s \in Bijection(1..Len(s), S)
  <2>1. s \in [1..Len(s) -> S]
    BY <1>1
  <2>2. s \in Injection(1..Len(s), S)
    BY <1>2, <2>1 DEF Injection, IsInjective
  <2>3. \A y \in S : \E k \in 1..Len(s) : s[k] = y
    OBVIOUS
  <2>4. s \in Surjection(1..Len(s), S)
    BY <2>1, <2>3 DEF Surjection
  <2> QED
    BY <2>2, <2>4 DEF Bijection
<1>4. Cardinality(S) = Len(s)
  BY <1>1, <1>3, FS_CountingElements DEF ExistsBijection
<1> QED
  BY <1>1, <1>4

\* Where a number of the stream is after borRandMTParallelNew: n pools of size m.
LEMMA Placed ==
  ASSUME NEW n \in Nat \ {0}, NEW m \in Nat \ {0}
  PROVE  /\ \A t \in 1..n, k \in 0..(m - 1) : (t - 1) * m + k \in 0..(n * m - 1)
         /\ \A t, u \in 1..n, k, l \in 0..(m - 1) : t < u => (t - 1) * m + k < (u - 1) * m + l
         /\ \A z \in 0..(n * m - 1) : \E t \in 1..n, k \in 0..(m - 1) : z = (t - 1) * m + k
<1>1. \A t, u \in Int : t <= u => t * m <= u * m
  OBVIOUS
<1>2. ASSUME NEW t \in 1..n, NEW k \in 0..(m - 1) PROVE (t - 1) * m + k \in 0..(n * m - 1)
  <2>1. t * m <= n * m /\ 0 * m <= (t - 1) * m
    BY <1>1
  <2>2. (t - 1) * m = t * m - m /\ 0 * m = 0
    OBVIOUS
  <2>3. PICK a \in Int, b \in Int, c \in Int : a = t * m /\ b = n * m /\ c = (t - 1) * m
    OBVIOUS
  <2>4. c + k \in 0..(b - 1)
    BY <2>1, <2>2, <2>3
  <2> QED
    BY <2>3, <2>4
<1>3. ASSUME NEW t \in 1..n, NEW u \in 1..n, NEW k \in 0..(m - 1), NEW l \in 0..(m - 1), t < u
      PROVE  (t - 1) * m + k < (u - 1) * m + l
  <2>1. t * m <= (u - 1) * m
    BY <1>1, <1>3
  <2>2. (t - 1) * m = t * m - m
    OBVIOUS
  <2>3. PICK a \in Int, b \in Int, c \in Int : a = t * m /\ b = (u - 1) * m /\ c = (t - 1) * m
    OBVIOUS
  <2>4. c + k < b + l
    BY <2>1, <2>2, <2>3
  <2> QED
    BY <2>3, <2>4
<1>4. ASSUME NEW z \in 0..(n * m - 1) PROVE \E t \in 1..n, k \in 0..(m - 1) : z = (t - 1) * m + k
  <2>1. PICK q \in Nat, r \in 0..(m - 1) : z = q * m + r
    <3>1. z \in Nat
      OBVIOUS
    <3>2. z \div m \in Nat
      BY <3>1
    <3>3. z % m \in 0..(m - 1)
      BY <3>1
    <3>4. z = (z \div m) * m + (z % m)
      <4>1. z \in Int /\ m \in Int /\ m > 0
        BY <3>1
      <4> QED
        BY ONLY <4>1, Z3T(60)
    <3> QED
      BY <3>2, <3>3, <3>4
  <2>2. q < n
    <3> SUFFICES ASSUME n <= q PROVE FALSE
      OBVIOUS
    <3>1. n * m <= q * m
      BY <1>1
    <3>2. PICK a \in Int, b \in Int : a = n * m /\ b = q * m
      OBVIOUS
    <3> QED
      BY <2>1, <3>1, <3>2
  <2>3. q + 1 \in 1..n /\ (q + 1) - 1 = q
    BY <2>2
  <2> QED
    BY <2>1, <2>3
<1> QED
  BY <1>2, <1>3, <1>4

\* What waits in a pool.
LEMMA WaitingIs ==
  \A t \in Pools :
    /\ pc[t] \in Busy => Waiting(t) = {pool[t][k] : k \in 0..(i[t] - 1)}
    /\ pc[t] \notin Busy => Waiting(t) = {pool[t][k] : k \in next[t]..(PoolSize - 1)}
BY DEF Waiting, Busy

\* The same of the next state.
LEMMA WaitingIsNext ==
  (\A t \in Pools :
    /\ pc[t] \in Busy => Waiting(t) = {pool[t][k] : k \in 0..(i[t] - 1)}
    /\ pc[t] \notin Busy => Waiting(t) = {pool[t][k] : k \in next[t]..(PoolSize - 1)})'
BY WaitingIs, PTL

\* The threads that an action leaves alone.
Alone(t) ==
  /\ pc'[t] = pc[t] /\ next'[t] = next[t] /\ i'[t] = i[t] /\ reg'[t] = reg[t]
  /\ pool'[t] = pool[t] /\ got'[t] = got[t]

\* What is known of a thread's pool stays true when the step leaves the thread alone.
LEMMA AloneOK ==
  ASSUME NEW t \in Pools, Alone(t), PoolOf(t) /\ GotOf(t) /\ OrderOf(t),
         pos' = pos \/ pc[t] \notin Busy
  PROVE  PoolOf(t)' /\ GotOf(t)' /\ OrderOf(t)' /\ Own(t)' = Own(t)
<1>1. Waiting(t)' = Waiting(t)
  BY DEF Alone, Waiting
<1>2. Received(t)' = Received(t)
  BY DEF Alone, Received
<1>3. PoolOf(t)'
  BY DEF Alone, PoolOf, Busy
<1>4. GotOf(t)'
  BY <1>1 DEF Alone, GotOf
<1>5. OrderOf(t)'
  BY DEF Alone, OrderOf
<1> QED
  BY <1>1, <1>2, <1>3, <1>4, <1>5 DEF Own

----------------------------------------------------------------------------
(* The initial state, and what each action does to the numbers.            *)

\* The invariant holds at the start.
LEMMA InitInv == ASSUME ConstantsOK, Init PROVE Inv
<1> USE DEF ConstantsOK
<1>1. NumThreads \in Nat \ {0} /\ PoolSize \in Nat \ {0} /\ Pools = 1..NumThreads
  BY DEF Pools
<1>2. NumThreads * PoolSize \in Nat
  BY <1>1
<1>3. \A t \in Pools, k \in 0..(PoolSize - 1) : (t - 1) * PoolSize + k \in 0..(pos - 1)
  BY <1>1, Placed DEF Init
<1>4. \A t \in Pools : pool[t] = [k \in 0..(PoolSize - 1) |-> (t - 1) * PoolSize + k]
  BY DEF Init
<1>5. TypeOK
  <2>1. pool \in [Pools -> [0..(PoolSize - 1) -> Nat]]
    <3>1. \A t \in Pools, k \in 0..(PoolSize - 1) : (t - 1) * PoolSize + k \in Nat
      BY <1>2, <1>3 DEF Init
    <3>2. \A t \in Pools : [k \in 0..(PoolSize - 1) |-> (t - 1) * PoolSize + k] \in [0..(PoolSize - 1) -> Nat]
      BY <3>1
    <3> QED
      BY <3>2 DEF Init
  <2>2. pos \in Nat /\ lock \in Pools \cup {NoThread}
    BY <1>2 DEF Init
  <2>3. next \in [Pools -> 0..PoolSize] /\ i \in [Pools -> 0..PoolSize]
    BY <1>1 DEF Init
  <2>4. pc \in [Pools -> {"idle", "lock", "draw", "advance"}]
    BY DEF Init
  <2> QED
    BY <2>1, <2>2, <2>3, <2>4 DEF TypeOK
<1>6. HistoryOK
  BY DEF Init, HistoryOK
<1>7. LockOK
  BY DEF Init, LockOK, Busy
<1>8. \A t \in Pools : got[t] = <<>> /\ pc[t] = "idle" /\ next[t] = 0 /\ pc[t] \notin Busy
  BY DEF Init, Busy
<1>9. \A t \in Pools : Own(t) = {(t - 1) * PoolSize + k : k \in 0..(PoolSize - 1)}
  <2> SUFFICES ASSUME NEW t \in Pools PROVE Own(t) = {(t - 1) * PoolSize + k : k \in 0..(PoolSize - 1)}
    OBVIOUS
  <2>1. Received(t) = {}
    BY <1>8 DEF Received
  <2>2. Waiting(t) = {pool[t][k] : k \in 0..(PoolSize - 1)}
    BY <1>8, WaitingIs
  <2>3. {pool[t][k] : k \in 0..(PoolSize - 1)} = {(t - 1) * PoolSize + k : k \in 0..(PoolSize - 1)}
    <3>1. \A k \in 0..(PoolSize - 1) : pool[t][k] = (t - 1) * PoolSize + k
      BY <1>4
    <3> QED
      BY <3>1, Zenon
  <2> QED
    BY <2>1, <2>2, <2>3 DEF Own
<1>10. ThreadsOK
  <2> SUFFICES ASSUME NEW t \in Pools PROVE PoolOf(t) /\ GotOf(t) /\ OrderOf(t)
    BY DEF ThreadsOK
  <2>1. \A k \in 0..(PoolSize - 1) : pool[t][k] = pool[t][0] + k
    <3>1. \A k \in 0..(PoolSize - 1) : pool[t][k] = (t - 1) * PoolSize + k
      BY <1>4
    <3>2. (t - 1) * PoolSize \in Int
      BY <1>1
    <3>3. pool[t][0] = (t - 1) * PoolSize + 0
      BY <1>1, <3>1
    <3>4. PICK a \in Int : a = (t - 1) * PoolSize
      BY <3>2
    <3> QED
      BY <3>1, <3>3, <3>4
  <2>2. PoolOf(t)
    BY <1>8, <2>1 DEF PoolOf
  <2>3. Len(got[t]) = 0 /\ 0 % PoolSize = 0
    BY <1>1, <1>8
  <2>4. GotOf(t)
    BY <1>1, <1>8, <2>3 DEF GotOf
  <2>5. OrderOf(t)
    BY <2>3 DEF OrderOf
  <2> QED
    BY <2>2, <2>4, <2>5
<1>11. Divided
  <2>1. ASSUME NEW t \in Pools, NEW u \in Pools, t < u PROVE Own(t) \cap Own(u) = {}
    <3> SUFFICES ASSUME NEW z \in Own(t), z \in Own(u) PROVE FALSE
      OBVIOUS
    <3>1. PICK k \in 0..(PoolSize - 1) : z = (t - 1) * PoolSize + k
      BY <1>9
    <3>2. PICK l \in 0..(PoolSize - 1) : z = (u - 1) * PoolSize + l
      BY <1>9
    <3>3. (t - 1) * PoolSize + k < (u - 1) * PoolSize + l
      BY <1>1, <2>1, Placed
    <3>4. (t - 1) * PoolSize + k \in 0..(pos - 1)
      BY <1>3
    <3>5. z < z /\ z \in Int
      BY <3>1, <3>2, <3>3, <3>4
    <3> QED
      BY <3>5
  <2>2. \A t, u \in Pools : t # u => Own(t) \cap Own(u) = {}
    <3> SUFFICES ASSUME NEW t \in Pools, NEW u \in Pools, t # u PROVE Own(t) \cap Own(u) = {}
      OBVIOUS
    <3>1. t < u \/ u < t
      BY <1>1
    <3> QED
      BY <2>1, <3>1
  <2>3. UNION {Own(t) : t \in Pools} \subseteq 0..(pos - 1)
    BY <1>3, <1>9
  <2>4. ASSUME NEW z \in 0..(pos - 1) PROVE \E t \in Pools : z \in Own(t)
    <3>0. z \in 0..(NumThreads * PoolSize - 1)
      BY DEF Init
    <3>1. \A y \in 0..(NumThreads * PoolSize - 1) :
            \E t \in 1..NumThreads, k \in 0..(PoolSize - 1) : y = (t - 1) * PoolSize + k
      BY ONLY <1>1, Placed, Zenon
    <3>2. \E t \in Pools, k \in 0..(PoolSize - 1) : z = (t - 1) * PoolSize + k
      BY <1>1, <3>0, <3>1
    <3> QED
      BY <1>9, <3>2
  <2> QED
    BY <2>2, <2>3, <2>4 DEF Divided
<1> QED
  BY <1>5, <1>6, <1>7, <1>10, <1>11 DEF Inv

\* Every action changes the state of one thread.
LEMMA OthersAlone ==
  ASSUME TypeOK, HistoryOK, NEW t \in Pools, Take(t) \/ RefillCall(t) \/ Refill(t),
         NEW u \in Pools, u # t
  PROVE  Alone(u)
<1> USE DEF TypeOK, HistoryOK, Alone, Goto
<1>1. CASE Take(t)
  BY <1>1 DEF Take
<1>2. CASE RefillCall(t)
  BY <1>2 DEF RefillCall
<1>3. CASE Lock(t)
  BY <1>3 DEF Lock
<1>4. CASE Draw(t)
  BY <1>4 DEF Draw
<1>5. CASE Advance(t)
  BY <1>5 DEF Advance
<1>6. CASE Unlock(t)
  BY <1>6 DEF Unlock
<1> QED
  BY <1>1, <1>2, <1>3, <1>4, <1>5, <1>6 DEF Refill

\* A thread takes the next number of its pool.
LEMMA TakeThread ==
  ASSUME ConstantsOK, Inv, NEW t \in Pools, Take(t)
  PROVE  PoolOf(t)' /\ GotOf(t)' /\ OrderOf(t)' /\ Own(t)' = Own(t)
<1>1. /\ PoolSize \in Nat \ {0} /\ next[t] \in 0..PoolSize /\ got[t] \in Seq(Nat)
      /\ \A k \in 0..(PoolSize - 1) : pool[t][k] \in Nat
  BY DEF ConstantsOK, Inv, TypeOK, HistoryOK
<1>2. PICK n \in 0..(PoolSize - 1) : n = next[t] /\ pc[t] = "idle"
  BY <1>1 DEF Take
<1>3. PICK g \in Seq(Nat), x \in Nat : g = got[t] /\ x = pool[t][n]
  BY <1>1
<1>4. /\ got'[t] = Append(g, x) /\ next'[t] = n + 1 /\ pool'[t] = pool[t] /\ pc'[t] = "idle"
  BY <1>2, <1>3 DEF Take, Inv, TypeOK, HistoryOK
<1>5. PICK L \in Nat : L = Len(g)
  OBVIOUS
<1>6. /\ Len(got'[t]) = L + 1 /\ got'[t][L + 1] = x /\ \A k \in 1..L : got'[t][k] = g[k]
  BY <1>4, <1>5
<1>7. /\ \A j, k \in 1..L : j < k => g[j] < g[k]
      /\ \A j \in 1..L : g[j] \in Nat
      /\ L % PoolSize = n
      /\ n > 0 => L > 0 /\ g[L] = pool[t][n - 1]
      /\ \A k \in 0..(PoolSize - 1) : pool[t][k] = pool[t][0] + k
  <2>1. PoolOf(t) /\ GotOf(t)
    BY DEF Inv, ThreadsOK
  <2>2. \A j, k \in 1..L : j < k => g[j] < g[k]
    BY <1>3, <1>5, <2>1 DEF GotOf
  <2>3. (L % PoolSize = n) /\ (n > 0 => L > 0 /\ g[L] = pool[t][n - 1])
    <3>1. next[t] < PoolSize
      BY <1>1, <1>2
    <3>2. Len(got[t]) % PoolSize = next[t]
      BY <2>1, <3>1 DEF GotOf
    <3>3. next[t] > 0 => Len(got[t]) > 0 /\ got[t][Len(got[t])] = pool[t][next[t] - 1]
      BY <1>2, <2>1 DEF GotOf
    <3> QED
      BY ONLY <1>2, <1>3, <1>5, <3>2, <3>3
  <2>4. \A k \in 0..(PoolSize - 1) : pool[t][k] = pool[t][0] + k
    BY <1>2, <2>1 DEF PoolOf
  <2> QED
    BY <1>5, <2>2, <2>3, <2>4
<1>8. /\ Waiting(t) = {pool[t][k] : k \in n..(PoolSize - 1)}
      /\ Waiting(t)' = {pool[t][k] : k \in (n + 1)..(PoolSize - 1)}
  <2>1. Waiting(t) = {pool[t][k] : k \in n..(PoolSize - 1)}
    BY <1>2, WaitingIs DEF Busy
  <2>2. Waiting(t)' = {pool'[t][k] : k \in (n + 1)..(PoolSize - 1)}
    BY <1>4 DEF Waiting
  <2> QED
    BY <1>4, <2>1, <2>2
<1>9. \A j \in 1..L : \A k \in n..(PoolSize - 1) : g[j] < pool[t][k]
  <2>1. \A j \in 1..Len(got[t]) : \A w \in Waiting(t) : got[t][j] < w
    BY DEF Inv, ThreadsOK, GotOf
  <2> QED
    BY <1>3, <1>5, <1>8, <2>1
<1>10. PoolOf(t)'
  BY <1>4, <1>7 DEF PoolOf, Busy
<1>11. \A k \in n..(PoolSize - 1) : k # n => x < pool[t][k]
  <2> SUFFICES ASSUME NEW k \in n..(PoolSize - 1), k # n PROVE x < pool[t][k]
    OBVIOUS
  <2>1. pool[t][k] = pool[t][0] + k /\ x = pool[t][0] + n /\ pool[t][0] \in Nat
    BY <1>1, <1>3, <1>7
  <2> QED
    BY <2>1
<1>12. GotOf(t)'
  <2>1. \A j, k \in 1..(L + 1) : j < k => got'[t][j] < got'[t][k]
    <3> SUFFICES ASSUME NEW j \in 1..(L + 1), NEW k \in 1..(L + 1), j < k PROVE got'[t][j] < got'[t][k]
      OBVIOUS
    <3>1. CASE k = L + 1
      <4>1. j \in 1..L /\ g[j] < x
        BY <1>3, <1>9, <3>1
      <4> QED
        BY <1>6, <3>1, <4>1
    <3>2. CASE k # L + 1
      <4>1. j \in 1..L /\ k \in 1..L
        BY <3>2
      <4> QED
        BY <1>6, <1>7, <4>1
    <3> QED
      BY <3>1, <3>2
  <2>2. \A j \in 1..(L + 1) : \A k \in (n + 1)..(PoolSize - 1) : got'[t][j] < pool[t][k]
    <3> SUFFICES ASSUME NEW j \in 1..(L + 1), NEW k \in (n + 1)..(PoolSize - 1) PROVE got'[t][j] < pool[t][k]
      OBVIOUS
    <3>1. k \in n..(PoolSize - 1) /\ k # n
      OBVIOUS
    <3>2. CASE j = L + 1
      BY <1>6, <1>11, <3>1, <3>2
    <3>3. CASE j # L + 1
      <4>1. j \in 1..L
        BY <3>3
      <4> QED
        BY <1>6, <1>9, <3>1, <4>1
    <3> QED
      BY <3>2, <3>3
  <2>3. /\ n + 1 < PoolSize => (L + 1) % PoolSize = n + 1
        /\ n + 1 = PoolSize => (L + 1) % PoolSize = 0
    BY <1>1, <1>7, NextRest
  <2>4. L + 1 > 0 /\ got'[t][L + 1] = pool'[t][(n + 1) - 1]
    BY <1>3, <1>4, <1>6
  <2>5. \A j \in 1..Len(got'[t]) : \A w \in Waiting(t)' : got'[t][j] < w
    BY <1>6, <1>8, <2>2
  <2> QED
    BY <1>4, <1>6, <2>1, <2>3, <2>4, <2>5 DEF GotOf
<1>13. OrderOf(t)'
  <2> SUFFICES ASSUME NEW k \in 2..(L + 1)
               PROVE  IF (k - 1) % PoolSize = 0 THEN got'[t][k] > got'[t][k - 1]
                      ELSE got'[t][k] = got'[t][k - 1] + 1
    BY <1>6 DEF OrderOf
  <2>1. CASE k = L + 1
    <3>1. k - 1 = L /\ L \in 1..L /\ got'[t][k] = x /\ got'[t][k - 1] = g[L]
      BY <1>6, <2>1
    <3>2. n = 0 => x > g[L]
      <4>1. g[L] < x
        BY <1>3, <1>9, <3>1
      <4> QED
        BY <1>3, <1>7, <3>1, <4>1
    <3>3. n > 0 => x = g[L] + 1
      <4> SUFFICES ASSUME n > 0 PROVE x = g[L] + 1
        OBVIOUS
      <4>1. n - 1 \in 0..(PoolSize - 1) /\ pool[t][0] \in Nat
        BY <1>1
      <4>2. pool[t][n - 1] = pool[t][0] + (n - 1) /\ x = pool[t][0] + n /\ g[L] = pool[t][n - 1]
        BY <1>3, <1>7, <4>1
      <4> QED
        BY <4>1, <4>2
    <3> QED
      BY <1>7, <3>1, <3>2, <3>3
  <2>2. CASE k # L + 1
    <3>1. k \in 2..L /\ k \in 1..L /\ k - 1 \in 1..L
      BY <2>2
    <3>2. IF (k - 1) % PoolSize = 0 THEN g[k] > g[k - 1] ELSE g[k] = g[k - 1] + 1
      BY <1>3, <1>5, <3>1 DEF Inv, ThreadsOK, OrderOf
    <3> QED
      BY <1>6, <3>1, <3>2
  <2> QED
    BY <2>1, <2>2
<1>14. Own(t)' = Own(t)
  <2>1. Received(t) = {g[k] : k \in 1..L}
    BY <1>3, <1>5 DEF Received
  <2>2. Received(t)' = {got'[t][k] : k \in 1..(L + 1)}
    <3>1. DOMAIN got'[t] = 1..(L + 1)
      BY <1>4, <1>5
    <3> QED
      BY <3>1 DEF Received
  <2>3. Received(t)' = Received(t) \cup {x}
    <3>1. \A y \in Received(t)' : y \in Received(t) \cup {x}
      <4> SUFFICES ASSUME NEW k \in 1..(L + 1) PROVE got'[t][k] \in Received(t) \cup {x}
        BY <2>2
      <4>1. k \in 1..L \/ k = L + 1
        OBVIOUS
      <4> QED
        BY <1>6, <2>1, <4>1
    <3>2. x \in Received(t)'
      <4>1. L + 1 \in 1..(L + 1)
        OBVIOUS
      <4> QED
        BY <1>6, <2>2, <4>1
    <3>3. \A k \in 1..L : g[k] \in Received(t)'
      <4>1. \A k \in 1..L : k \in 1..(L + 1)
        OBVIOUS
      <4> QED
        BY <1>6, <2>2, <4>1
    <3> QED
      BY <2>1, <3>1, <3>2, <3>3
  <2>4. Waiting(t) = Waiting(t)' \cup {x}
    <3>1. \A k \in n..(PoolSize - 1) : k = n \/ k \in (n + 1)..(PoolSize - 1)
      OBVIOUS
    <3>2. n \in n..(PoolSize - 1) /\ \A k \in (n + 1)..(PoolSize - 1) : k \in n..(PoolSize - 1)
      OBVIOUS
    <3> QED
      BY <1>3, <1>8, <3>1, <3>2
  <2> QED
    BY <2>3, <2>4 DEF Own
<1> QED
  BY <1>10, <1>12, <1>13, <1>14

\* A refill is asked for, and waits for the lock.
LEMMA RefillCallThread ==
  ASSUME ConstantsOK, Inv, NEW t \in Pools, RefillCall(t) \/ Lock(t)
  PROVE  PoolOf(t)' /\ GotOf(t)' /\ OrderOf(t)' /\ Own(t)' = Own(t)
<1>1. PoolSize \in Nat \ {0} /\ PoolOf(t) /\ GotOf(t) /\ OrderOf(t)
  BY DEF ConstantsOK, Inv, ThreadsOK
<1>2. /\ next[t] = PoolSize /\ next' = next /\ pool' = pool /\ got' = got /\ pc[t] \notin Busy
      /\ pc'[t] # "idle" /\ pc'[t] # "advance"
  BY <1>1 DEF RefillCall, Lock, Goto, Inv, TypeOK, PoolOf, Busy
<1>3. Waiting(t) = {}
  BY <1>1, <1>2, WaitingIs
<1>4. pc'[t] \in Busy => i'[t] = 0
  BY DEF RefillCall, Lock, Goto, Inv, TypeOK, Busy
<1>5. Waiting(t)' = {}
  <2>1. CASE pc'[t] \in Busy
    <3>1. Waiting(t)' = {pool'[t][k] : k \in 0..(i'[t] - 1)}
      BY <2>1 DEF Waiting, Busy
    <3> QED
      BY <1>4, <2>1, <3>1
  <2>2. CASE pc'[t] \notin Busy
    <3>1. Waiting(t)' = {pool'[t][k] : k \in next'[t]..(PoolSize - 1)}
      BY <2>2 DEF Waiting, Busy
    <3> QED
      BY <1>1, <1>2, <3>1
  <2> QED
    BY <2>1, <2>2
<1>6. PoolOf(t)'
  BY <1>1, <1>2, <1>4 DEF PoolOf
<1>7. GotOf(t)'
  BY <1>1, <1>2, <1>5 DEF GotOf
<1>8. OrderOf(t)'
  BY <1>1, <1>2 DEF OrderOf
<1>9. Own(t)' = Own(t)
  BY <1>2, <1>3, <1>5 DEF Own, Received
<1> QED
  BY <1>6, <1>7, <1>8, <1>9

\* The generator is read under the lock.
LEMMA DrawThread ==
  ASSUME ConstantsOK, Inv, NEW t \in Pools, Draw(t)
  PROVE  PoolOf(t)' /\ GotOf(t)' /\ OrderOf(t)' /\ Own(t)' = Own(t)
<1>1. PoolSize \in Nat \ {0} /\ PoolOf(t) /\ GotOf(t) /\ OrderOf(t)
  BY DEF ConstantsOK, Inv, ThreadsOK
<1>2. /\ next' = next /\ pool' = pool /\ got' = got /\ i' = i /\ pos' = pos /\ reg'[t] = pos
      /\ pc[t] = "draw" /\ pc'[t] = "advance" /\ i[t] < PoolSize
  BY DEF Draw, Goto, Inv, TypeOK, HistoryOK
<1>3. Waiting(t)' = Waiting(t)
  BY <1>2 DEF Waiting
<1>4. PoolOf(t)'
  BY <1>1, <1>2 DEF PoolOf, Busy
<1>5. GotOf(t)'
  BY <1>1, <1>2, <1>3 DEF GotOf
<1>6. OrderOf(t)'
  BY <1>1, <1>2 DEF OrderOf
<1>7. Own(t)' = Own(t)
  BY <1>2, <1>3 DEF Own, Received
<1> QED
  BY <1>4, <1>5, <1>6, <1>7

\* The number drawn goes to the pool.
LEMMA AdvanceThread ==
  ASSUME ConstantsOK, Inv, NEW t \in Pools, Advance(t)
  PROVE  /\ PoolOf(t)' /\ GotOf(t)' /\ OrderOf(t)'
         /\ Own(t)' = Own(t) \cup {pos} /\ pos' = pos + 1
<1>1. PoolSize \in Nat \ {0} /\ PoolOf(t) /\ GotOf(t) /\ OrderOf(t) /\ pos \in Nat /\ got[t] \in Seq(Nat)
  BY DEF ConstantsOK, Inv, ThreadsOK, TypeOK, HistoryOK
<1>2. PICK j \in 0..(PoolSize - 1) : j = i[t]
  BY <1>1 DEF Inv, TypeOK, PoolOf, Advance
<1>3. /\ next' = next /\ got' = got /\ i'[t] = j + 1 /\ reg[t] = pos /\ pos' = pos + 1
      /\ pc[t] = "advance" /\ pc'[t] = "draw"
  BY <1>1, <1>2 DEF Advance, Goto, Inv, TypeOK, HistoryOK, PoolOf
<1>4. pool'[t] = [pool[t] EXCEPT ![j] = pos] /\ pool[t] \in [0..(PoolSize - 1) -> Nat]
  BY <1>2, <1>3 DEF Advance, Inv, TypeOK
<1>5. pool'[t][j] = pos /\ \A k \in 0..(PoolSize - 1) : k # j => pool'[t][k] = pool[t][k]
  BY <1>4
<1>6. \A k \in 0..(j - 1) : pool[t][k] + j = pos + k /\ pool[t][k] \in Nat /\ pool'[t][k] = pool[t][k]
  <2>1. \A k \in 0..(i[t] - 1) : pool[t][k] + i[t] = pos + k
    BY <1>1, <1>3 DEF PoolOf, Busy
  <2>2. \A k \in 0..(j - 1) : k \in 0..(PoolSize - 1) /\ k # j
    BY <1>1
  <2> QED
    BY <1>2, <1>4, <1>5, <2>1, <2>2
<1>7. \A k \in 0..j : pool'[t][k] + (j + 1) = pos' + k
  <2> SUFFICES ASSUME NEW k \in 0..j PROVE pool'[t][k] + (j + 1) = pos' + k
    OBVIOUS
  <2>1. CASE k = j
    <3>1. pool'[t][k] = pos /\ k + 1 = j + 1 /\ k \in Int /\ pos \in Int
      BY <1>1, <1>5, <2>1
    <3> QED
      BY ONLY <1>3, <2>1, <3>1
  <2>2. CASE k # j
    <3>1. k \in 0..(j - 1)
      BY <2>2
    <3>2. pool[t][k] + j = pos + k /\ pool[t][k] \in Nat /\ pool'[t][k] = pool[t][k]
      BY <1>6, <3>1
    <3> QED
      <4>1. PICK a \in Nat, z \in Nat : a = pool[t][k] /\ a = pool'[t][k] /\ z = pos /\ pos' = z + 1
        BY <1>1, <1>3, <3>2
      <4>2. a + j = z + k
        BY ONLY <3>2, <4>1
      <4>3. a + (j + 1) = (z + 1) + k
        BY <4>2
      <4> QED
        BY ONLY <4>1, <4>3
  <2> QED
    BY <2>1, <2>2
<1>8. PoolOf(t)'
  <2>1. next'[t] = PoolSize
    BY <1>1, <1>3 DEF PoolOf
  <2>2. \A k \in 0..(i'[t] - 1) : pool'[t][k] + i'[t] = pos' + k
    BY <1>3, <1>7
  <2> QED
    BY <1>3, <2>1, <2>2 DEF PoolOf
<1>9. Waiting(t) = {pool[t][k] : k \in 0..(j - 1)}
  BY <1>2, <1>3, WaitingIs DEF Busy
<1>10. Waiting(t)' = {pool'[t][k] : k \in 0..j}
  <2>1. Waiting(t)' = {pool'[t][k] : k \in 0..(i'[t] - 1)}
    BY <1>3 DEF Waiting
  <2>2. i'[t] - 1 = j
    BY <1>3
  <2> QED
    BY <2>1, <2>2
<1>11. Waiting(t)' = Waiting(t) \cup {pos}
  <2>1. \A k \in 0..j : k = j \/ k \in 0..(j - 1)
    OBVIOUS
  <2>2. j \in 0..j /\ \A k \in 0..(j - 1) : k \in 0..j
    OBVIOUS
  <2> QED
    BY <1>5, <1>6, <1>9, <1>10, <2>1, <2>2
<1>12. \A k \in 1..Len(got[t]) : got[t][k] < pos
  <2>1. Own(t) \subseteq 0..(pos - 1)
    BY DEF Inv, Divided
  <2>2. \A k \in 1..Len(got[t]) : got[t][k] \in Own(t)
    BY <1>1 DEF Own, Received
  <2> QED
    BY <1>1, <2>1, <2>2
<1>13. GotOf(t)'
  <2>1. \A k \in 1..Len(got[t]) : \A w \in Waiting(t)' : got[t][k] < w
    <3>1. \A k \in 1..Len(got[t]) : \A w \in Waiting(t) : got[t][k] < w
      BY <1>1 DEF GotOf
    <3> QED
      BY <1>11, <1>12, <3>1
  <2> QED
    BY <1>1, <1>3, <2>1 DEF GotOf
<1>14. OrderOf(t)'
  BY <1>1, <1>3 DEF OrderOf
<1>15. Own(t)' = Own(t) \cup {pos}
  BY <1>3, <1>11 DEF Own, Received
<1> QED
  BY <1>3, <1>8, <1>13, <1>14, <1>15

\* The refilled pool starts again.
LEMMA UnlockThread ==
  ASSUME ConstantsOK, Inv, NEW t \in Pools, Unlock(t)
  PROVE  PoolOf(t)' /\ GotOf(t)' /\ OrderOf(t)' /\ Own(t)' = Own(t)
<1>1. PoolSize \in Nat \ {0} /\ PoolOf(t) /\ GotOf(t) /\ OrderOf(t) /\ pos \in Nat
  BY DEF ConstantsOK, Inv, ThreadsOK, TypeOK
<1>2. /\ next'[t] = 0 /\ pool' = pool /\ got' = got /\ i' = i /\ pos' = pos
      /\ pc[t] = "draw" /\ pc'[t] = "idle" /\ i[t] = PoolSize /\ next[t] = PoolSize
  BY <1>1 DEF Unlock, Goto, Inv, TypeOK, PoolOf
<1>3. Waiting(t)' = Waiting(t)
  <2>1. Waiting(t)' = {pool'[t][k] : k \in 0..(PoolSize - 1)}
    BY <1>2 DEF Waiting
  <2>2. Waiting(t) = {pool[t][k] : k \in 0..(PoolSize - 1)}
    BY <1>2, WaitingIs DEF Busy
  <2> QED
    BY <1>2, <2>1, <2>2
<1>4. \A k \in 0..(PoolSize - 1) : pool[t][k] + PoolSize = pos + k /\ pool[t][k] \in Nat
  <2>1. \A k \in 0..(i[t] - 1) : pool[t][k] + i[t] = pos + k
    BY <1>1, <1>2 DEF PoolOf, Busy
  <2>2. \A k \in 0..(PoolSize - 1) : pool[t][k] \in Nat
    BY DEF Inv, TypeOK
  <2> QED
    BY <1>2, <2>1, <2>2
<1>5. \A k \in 0..(PoolSize - 1) : pool[t][k] = pool[t][0] + k
  <2> SUFFICES ASSUME NEW k \in 0..(PoolSize - 1) PROVE pool[t][k] = pool[t][0] + k
    OBVIOUS
  <2>1. 0 \in 0..(PoolSize - 1)
    BY <1>1
  <2>2. /\ pool[t][k] + PoolSize = pos + k /\ pool[t][k] \in Nat
        /\ pool[t][0] + PoolSize = pos + 0 /\ pool[t][0] \in Nat
    BY <1>4, <2>1
  <2> QED
    BY <1>1, <2>2
<1>6. PoolOf(t)'
  BY <1>2, <1>5 DEF PoolOf, Busy
<1>7. GotOf(t)'
  <2>1. /\ \A j, k \in 1..Len(got[t]) : j < k => got[t][j] < got[t][k]
        /\ \A j \in 1..Len(got[t]) : \A w \in Waiting(t) : got[t][j] < w
    BY <1>1 DEF GotOf
  <2>2. Len(got[t]) % PoolSize = 0
    BY <1>1, <1>2 DEF GotOf
  <2>3. got'[t] = got[t] /\ ~(next'[t] > 0) /\ next'[t] # PoolSize
    BY <1>1, <1>2
  <2> QED
    BY <1>2, <1>3, <2>1, <2>2, <2>3 DEF GotOf
<1>8. OrderOf(t)'
  BY <1>1, <1>2 DEF OrderOf
<1>9. Own(t)' = Own(t)
  BY <1>2, <1>3 DEF Own, Received
<1> QED
  BY <1>6, <1>7, <1>8, <1>9

----------------------------------------------------------------------------
(* Together.                                                               *)

\* Every step keeps the types.
LEMMA TypesStep ==
  ASSUME ConstantsOK, Inv, NEW t \in Pools, Take(t) \/ RefillCall(t) \/ Refill(t)
  PROVE  TypeOK' /\ HistoryOK' /\ LockOK'
<1> USE DEF Goto
<1>1. PoolSize \in Nat \ {0} /\ NoThread \notin Pools /\ TypeOK /\ HistoryOK /\ LockOK /\ PoolOf(t)
  BY DEF ConstantsOK, Inv, ThreadsOK
<1>2. CASE Take(t)
  <2>1. next[t] \in 0..(PoolSize - 1)
    BY <1>1, <1>2 DEF Take, TypeOK
  <2>2. next[t] + 1 \in 0..PoolSize /\ pool[t][next[t]] \in Nat
    BY <1>1, <2>1 DEF TypeOK
  <2>3. TypeOK'
    BY <1>1, <1>2, <2>2 DEF Take, TypeOK
  <2>4. HistoryOK'
    BY <1>1, <1>2, <2>2 DEF Take, HistoryOK
  <2>5. LockOK'
    BY <1>1, <1>2 DEF Take, LockOK
  <2> QED
    BY <2>3, <2>4, <2>5
<1>3. CASE RefillCall(t)
  BY <1>1, <1>3 DEF RefillCall, TypeOK, HistoryOK, LockOK, Busy
<1>4. CASE Lock(t)
  <2>1. TypeOK' /\ HistoryOK'
    BY <1>1, <1>4 DEF Lock, TypeOK, HistoryOK
  <2>2. lock' = t /\ pc' = [pc EXCEPT ![t] = "draw"] /\ \A u \in Pools : pc[u] \notin Busy
    BY <1>1, <1>4 DEF Lock, LockOK
  <2>3. \A u \in Pools : pc'[u] = IF u = t THEN "draw" ELSE pc[u]
    BY <1>1, <2>2 DEF TypeOK
  <2>4. LockOK'
    BY <2>2, <2>3 DEF LockOK, Busy
  <2> QED
    BY <2>1, <2>4
<1>5. CASE Draw(t)
  BY <1>1, <1>5 DEF Draw, TypeOK, HistoryOK, LockOK, Busy
<1>6. CASE Advance(t)
  <2>1. i[t] \in 0..(PoolSize - 1) /\ reg[t] \in Nat
    BY <1>1, <1>6 DEF Advance, TypeOK, HistoryOK, PoolOf
  <2>2. i[t] + 1 \in 0..PoolSize /\ reg[t] + 1 \in Nat
    BY <1>1, <2>1
  <2>3. pool' \in [Pools -> [0..(PoolSize - 1) -> Nat]]
    <3>1. [pool[t] EXCEPT ![i[t]] = reg[t]] \in [0..(PoolSize - 1) -> Nat]
      BY <1>1, <2>1 DEF TypeOK
    <3>2. pool' = [pool EXCEPT ![t] = [pool[t] EXCEPT ![i[t]] = reg[t]]]
      BY <1>6 DEF Advance
    <3> QED
      BY <1>1, <3>1, <3>2 DEF TypeOK
  <2>4. TypeOK'
    BY <1>1, <1>6, <2>2, <2>3 DEF Advance, TypeOK
  <2>5. HistoryOK' /\ LockOK'
    BY <1>1, <1>6 DEF Advance, HistoryOK, LockOK, Busy, TypeOK
  <2> QED
    BY <2>4, <2>5
<1>7. CASE Unlock(t)
  <2>1. TypeOK' /\ HistoryOK'
    BY <1>1, <1>7 DEF Unlock, TypeOK, HistoryOK
  <2>2. lock = t /\ lock' = NoThread /\ pc' = [pc EXCEPT ![t] = "idle"]
    BY <1>1, <1>7 DEF Unlock, LockOK, Busy
  <2>3. \A u \in Pools : pc'[u] = IF u = t THEN "idle" ELSE pc[u]
    BY <1>1, <2>2 DEF TypeOK
  <2>4. LockOK'
    BY <1>1, <2>2, <2>3 DEF LockOK, Busy
  <2> QED
    BY <2>1, <2>4
<1> QED
  BY <1>2, <1>3, <1>4, <1>5, <1>6, <1>7 DEF Refill

\* A number drawn belongs to the thread that drew it; nothing else changes hands.
LEMMA Owners ==
  ASSUME ConstantsOK, Inv, NEW t \in Pools, Take(t) \/ RefillCall(t) \/ Refill(t)
  PROVE  /\ PoolOf(t)' /\ GotOf(t)' /\ OrderOf(t)'
         /\ \/ Own(t)' = Own(t) /\ pos' = pos
            \/ Own(t)' = Own(t) \cup {pos} /\ pos' = pos + 1 /\ lock = t
<1>1. CASE Take(t)
  BY <1>1, TakeThread DEF Take
<1>2. CASE RefillCall(t)
  BY <1>2, RefillCallThread DEF RefillCall
<1>3. CASE Lock(t)
  BY <1>3, RefillCallThread DEF Lock
<1>4. CASE Draw(t)
  BY <1>4, DrawThread DEF Draw
<1>5. CASE Advance(t)
  <2>1. lock = t
    BY <1>5 DEF Advance, Inv, LockOK, Busy
  <2> QED
    BY <1>5, <2>1, AdvanceThread
<1>6. CASE Unlock(t)
  BY <1>6, UnlockThread DEF Unlock
<1> QED
  BY <1>1, <1>2, <1>3, <1>4, <1>5, <1>6 DEF Refill

\* Every step of a thread keeps the invariant.
LEMMA StepInv ==
  ASSUME ConstantsOK, Inv, NEW t \in Pools, Take(t) \/ RefillCall(t) \/ Refill(t)
  PROVE  Inv'
<1>1. \A u \in Pools \ {t} : PoolOf(u)' /\ GotOf(u)' /\ OrderOf(u)' /\ Own(u)' = Own(u)
  <2> SUFFICES ASSUME NEW u \in Pools \ {t} PROVE PoolOf(u)' /\ GotOf(u)' /\ OrderOf(u)' /\ Own(u)' = Own(u)
    OBVIOUS
  <2>1. Alone(u)
    BY OthersAlone DEF Inv
  <2>2. PoolOf(u) /\ GotOf(u) /\ OrderOf(u)
    BY DEF Inv, ThreadsOK
  <2>3. pos' = pos \/ lock = t
    BY Owners
  <2>4. lock = t => pc[u] \notin Busy
    BY DEF Inv, LockOK
  <2> QED
    BY <2>1, <2>2, <2>3, <2>4, AloneOK
<1>2. ThreadsOK'
  BY <1>1, Owners DEF ThreadsOK
<1>3. /\ pos \in Nat /\ UNION {Own(u) : u \in Pools} = 0..(pos - 1)
      /\ \A u \in Pools : Own(u) \subseteq 0..(pos - 1)
  BY DEF Inv, TypeOK, Divided
<1>4. \A u, v \in Pools : u # v => Own(u) \cap Own(v) = {}
  BY DEF Inv, Divided
<1>5. pos \notin 0..(pos - 1) /\ 0..((pos + 1) - 1) = 0..(pos - 1) \cup {pos}
  BY <1>3
<1>6. CASE Own(t)' = Own(t) /\ pos' = pos
  <2>1. \A u \in Pools : Own(u)' = Own(u)
    BY <1>1, <1>6
  <2> QED
    BY <1>2, <1>3, <1>4, <1>6, <2>1, TypesStep DEF Inv, Divided
<1>7. CASE Own(t)' = Own(t) \cup {pos} /\ pos' = pos + 1
  <2>1. \A u, v \in Pools : u # v => Own(u)' \cap Own(v)' = {}
    <3>1. \A u \in Pools : pos \notin Own(u)
      BY <1>3, <1>5
    <3> QED
      BY <1>1, <1>4, <1>7, <3>1
  <2>2. UNION {Own(u)' : u \in Pools} = 0..(pos' - 1)
    <3>1. PICK A, B : A = UNION {Own(u) : u \in Pools} /\ B = UNION {Own(u)' : u \in Pools}
      BY Zenon
    <3>2. \A z : z \in A <=> \E u \in Pools : z \in Own(u)
      BY <3>1, Zenon
    <3>3. \A z : z \in B <=> \E u \in Pools : z \in Own(u)'
      BY <3>1, Zenon
    <3>4. \A u \in Pools : Own(u)' = Own(u) \cup (IF u = t THEN {pos} ELSE {})
      BY <1>1, <1>7
    <3>5. \A z : z \in B <=> z \in A \cup {pos}
      BY ONLY t \in Pools, <3>2, <3>3, <3>4
    <3>6. A = 0..(pos - 1)
      BY <1>3, <3>1, Zenon
    <3>7. B = 0..((pos + 1) - 1)
      BY ONLY <1>5, <3>5, <3>6
    <3> QED
      BY ONLY <1>7, <3>1, <3>7, Zenon
  <2> QED
    BY <1>2, <2>1, <2>2, TypesStep DEF Inv, Divided
<1> QED
  BY <1>6, <1>7, Owners

\* Every step of the specification keeps the invariant.
LEMMA NextInv == ASSUME ConstantsOK, Inv, [Next]_vars PROVE Inv'
<1>1. CASE UNCHANGED vars
  <2>1. \A t \in Pools : Received(t)' = Received(t) /\ Waiting(t)' = Waiting(t)
    BY <1>1 DEF vars, Received, Waiting
  <2>2. \A t \in Pools : PoolOf(t)' /\ GotOf(t)' /\ OrderOf(t)' /\ Own(t)' = Own(t)
    BY <1>1, <2>1 DEF vars, Inv, ThreadsOK, PoolOf, GotOf, OrderOf, Own
  <2> QED
    BY <1>1, <2>2 DEF vars, Inv, TypeOK, HistoryOK, LockOK, ThreadsOK, Divided
<1>2. ASSUME NEW t \in Pools, Take(t) \/ RefillCall(t) \/ Refill(t) PROVE Inv'
  BY <1>2, StepInv
<1> QED
  BY <1>1, <1>2 DEF Next, Exhausted

\* The invariant holds in every state that is reached.
LEMMA Inductive == ASSUME ConstantsOK PROVE Spec => []Inv
<1>1. Init => Inv
  BY InitInv
<1>2. Inv /\ [Next]_vars => Inv'
  BY NextInv
<1> QED
  BY <1>1, <1>2, PTL DEF Spec

\* The invariant says that the pools partition the stream.
LEMMA InvPartitions == ASSUME Inv PROVE StreamPartitioned
<1>1. \A t, u \in Pools : t # u => (Received(t) \cup Waiting(t)) \cap (Received(u) \cup Waiting(u)) = {}
  BY DEF Inv, Divided, Own
<1>2. \A t \in Pools : Received(t) \cap Waiting(t) = {}
  <2> SUFFICES ASSUME NEW t \in Pools, NEW w \in Waiting(t), w \in Received(t) PROVE FALSE
    OBVIOUS
  <2>1. got[t] \in Seq(Nat)
    BY DEF Inv, HistoryOK
  <2>2. PICK k \in 1..Len(got[t]) : w = got[t][k]
    BY <2>1 DEF Received
  <2>3. got[t][k] < w
    BY DEF Inv, ThreadsOK, GotOf
  <2> QED
    BY <2>1, <2>2, <2>3
<1>3. \A t \in Pools : Cardinality(Received(t)) = Len(got[t])
  <2> SUFFICES ASSUME NEW t \in Pools PROVE Cardinality(Received(t)) = Len(got[t])
    OBVIOUS
  <2>1. got[t] \in Seq(Nat) /\ \A j, k \in 1..Len(got[t]) : j < k => got[t][j] < got[t][k]
    BY DEF Inv, HistoryOK, ThreadsOK, GotOf
  <2> QED
    BY <2>1, Increasing DEF Received
<1>4. UNION {Received(t) \cup Waiting(t) : t \in Pools} = 0..(pos - 1)
  BY DEF Inv, Divided, Own
<1>5. OrderKept
  BY DEF Inv, ThreadsOK, OrderOf, OrderKept
<1> QED
  BY <1>1, <1>2, <1>3, <1>4, <1>5 DEF StreamPartitioned

\* The variables have their types: no thread reads beyond its pool, and the
\* lock has one holder.
THEOREM TypeCorrect == ASSUME ConstantsOK PROVE Spec => []TypeOK
<1>1. Inv => TypeOK
  BY DEF Inv
<1> QED
  BY <1>1, Inductive, PTL

\* borRandMTParallel01: every number of the stream goes to one thread, once and
\* in order, and none is lost, however calls and refills interleave.
THEOREM DividesStream == ASSUME ConstantsOK PROVE Spec => []StreamPartitioned
<1>1. Inv => StreamPartitioned
  BY InvPartitions
<1> QED
  BY <1>1, Inductive, PTL

=============================================================================
