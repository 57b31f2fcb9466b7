--------------------------- MODULE RandMTParallel ---------------------------
(***************************************************************************)
(* The random number generator of src/rand-mt-parallel.c: threads take     *)
(* numbers of one stream from pools of their own, and refill an empty pool *)
(* from the generator under a mutex.  A number is its place in the stream. *)
(***************************************************************************)
EXTENDS Integers, Sequences, FiniteSets

CONSTANTS
  NumThreads,   \* threads, the number of pools
  PoolSize,         \* size, the numbers in a pool
  MaxPos,       \* bound on the numbers drawn from the generator
  NoThread

\* thread_id: every thread has a pool of its own.
Pools == 1..NumThreads

ConstantsOK ==
  /\ NumThreads \in Nat \ {0} /\ PoolSize \in Nat \ {0}
  /\ MaxPos \in Nat
  /\ NoThread \notin Pools

VARIABLES
  pos,        \* r->rand: numbers drawn from the generator so far
  lock,       \* holder of r->lock, or NoThread
  pool,       \* r->pool
  next,       \* r->next
  pc, i, reg, \* where each thread stands, its loop counter, the number drawn
  got         \* history: the numbers each thread received

vars == <<pos, lock, pool, next, pc, i, reg, got>>

\* borRandMTParallelNew: refillAll fills pool after pool.
Init ==
  /\ pos = NumThreads * PoolSize
  /\ lock = NoThread
  /\ pool = [t \in Pools |-> [k \in 0..(PoolSize - 1) |-> (t - 1) * PoolSize + k]]
  /\ next = [t \in Pools |-> 0]
  /\ pc = [t \in Pools |-> "idle"]
  /\ i = [t \in Pools |-> 0]
  /\ reg = [t \in Pools |-> 0]
  /\ got = [t \in Pools |-> <<>>]

Goto(t, l) == pc' = [pc EXCEPT ![t] = l]

\* Mutant: an empty pool is noticed one number too late.
TakeLate(t) ==
  /\ pc[t] = "idle" /\ next[t] <= PoolSize
  /\ got' = [got EXCEPT ![t] = Append(@, pool[t][next[t] % PoolSize])]
  /\ next' = [next EXCEPT ![t] = @ + 1]
  /\ UNCHANGED <<pos, lock, pool, pc, i, reg>>

\* borRandMTParallel01 with a number left in the pool: no lock is needed.
Take(t) ==
  /\ pc[t] = "idle" /\ next[t] < PoolSize
  /\ got' = [got EXCEPT ![t] = Append(@, pool[t][next[t]])]
  /\ next' = [next EXCEPT ![t] = @ + 1]
  /\ UNCHANGED <<pos, lock, pool, pc, i, reg>>

\* borRandMTParallel01 with an empty pool calls __borRandMTParallelRefill.
RefillCall(t) ==
  /\ pc[t] = "idle" /\ next[t] = PoolSize
  /\ pos + NumThreads * PoolSize <= MaxPos
  /\ Goto(t, "lock")
  /\ UNCHANGED <<pos, lock, pool, next, i, reg, got>>

\* Mutant: the generator is used without its lock.
LockNot(t) ==
  /\ pc[t] = "lock"
  /\ i' = [i EXCEPT ![t] = 0]
  /\ Goto(t, "draw")
  /\ UNCHANGED <<pos, lock, pool, next, reg, got>>

Lock(t) ==
  /\ pc[t] = "lock"
  /\ lock = NoThread
  /\ lock' = t
  /\ i' = [i EXCEPT ![t] = 0]
  /\ Goto(t, "draw")
  /\ UNCHANGED <<pos, pool, next, reg, got>>

\* borRandMT01 reads the state of the generator ...
Draw(t) ==
  /\ pc[t] = "draw" /\ i[t] < PoolSize
  /\ reg' = [reg EXCEPT ![t] = pos]
  /\ Goto(t, "advance")
  /\ UNCHANGED <<pos, lock, pool, next, i, got>>

\* ... and changes it; the number goes to the pool.
Advance(t) ==
  /\ pc[t] = "advance"
  /\ pos' = reg[t] + 1
  /\ pool' = [pool EXCEPT ![t][i[t]] = reg[t]]
  /\ i' = [i EXCEPT ![t] = @ + 1]
  /\ Goto(t, "draw")
  /\ UNCHANGED <<lock, next, reg, got>>

\* Mutant: the lock is kept.
UnlockNot(t) ==
  /\ pc[t] = "draw" /\ i[t] = PoolSize
  /\ next' = [next EXCEPT ![t] = 0]
  /\ Goto(t, "idle")
  /\ UNCHANGED <<pos, lock, pool, i, reg, got>>

\* The pool is full: the thread goes on to take its first number.
Unlock(t) ==
  /\ pc[t] = "draw" /\ i[t] = PoolSize
  /\ next' = [next EXCEPT ![t] = 0]
  /\ lock' = NoThread
  /\ Goto(t, "idle")
  /\ UNCHANGED <<pos, pool, i, reg, got>>

\* The bound is reached.
Exhausted == (\A t \in Pools : pc[t] = "idle" /\ next[t] = PoolSize) /\ UNCHANGED vars

Refill(t) == Lock(t) \/ Draw(t) \/ Advance(t) \/ Unlock(t)
Next == (\E t \in Pools : Take(t) \/ RefillCall(t) \/ Refill(t)) \/ Exhausted

Spec == Init /\ [][Next]_vars
FairSpec == Spec /\ \A t \in Pools : WF_vars(Refill(t))
----------------------------------------------------------------------------
(* Properties.                                                             *)

TypeOK ==
  /\ pos \in Nat
  /\ lock \in Pools \cup {NoThread}
  /\ pool \in [Pools -> [0..(PoolSize - 1) -> Nat]]
  /\ next \in [Pools -> 0..PoolSize] /\ i \in [Pools -> 0..PoolSize]
  /\ pc \in [Pools -> {"idle", "lock", "draw", "advance"}]

Received(t) == {got[t][k] : k \in DOMAIN got[t]}
\* Numbers that wait in the pool of t.
Waiting(t) ==
  {pool[t][k] : k \in IF pc[t] \in {"draw", "advance"} THEN 0..(i[t] - 1) ELSE next[t]..(PoolSize - 1)}

\* A thread gets its numbers in the order of the stream, in runs of PoolSize
\* consecutive ones (one run per refill).
OrderKept ==
  \A t \in Pools : \A k \in 2..Len(got[t]) :
    IF (k - 1) % PoolSize = 0 THEN got[t][k] > got[t][k - 1] ELSE got[t][k] = got[t][k - 1] + 1

\* Each number of the stream goes to exactly one thread, once, in order, and
\* none is skipped, while threads take and refill concurrently.
StreamPartitioned ==
  /\ \A t, u \in Pools : t # u => (Received(t) \cup Waiting(t)) \cap (Received(u) \cup Waiting(u)) = {}
  /\ \A t \in Pools : Received(t) \cap Waiting(t) = {} /\ Cardinality(Received(t)) = Len(got[t])
  /\ UNION {Received(t) \cup Waiting(t) : t \in Pools} = 0..(pos - 1)
  /\ OrderKept

\* A thread whose pool is empty gets it refilled.
RefillReturns == \A t \in Pools : pc[t] = "lock" ~> pc[t] = "idle" /\ next[t] = 0
============================================================================
