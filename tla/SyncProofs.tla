----------------------------- MODULE SyncProofs -----------------------------
(***************************************************************************)
(* Proofs about what MCSync puts together: the barrier, for every finite   *)
(* set of threads, every goal and any number of spurious wakeups; and what *)
(* is proved of each part, as a theorem of the composition.                *)
(***************************************************************************)
EXTENDS MCSync, FifoProofs

-----------------------------------------------------------------------------
(* The barrier.                                                            *)

\* Only signalled wakeups, in a barrier for all its threads.
Proper == goal = Cardinality(Threads) /\ spurious = 0

\* Where a thread stands says which of its calls is under way, counted by the
\* broadcasts so far.
InStep ==
  Proper => \A t \in Threads :
              /\ place[t] = "idle" => arrived[t] = releases /\ left[t] = releases
              /\ place[t] = "blocked" => arrived[t] = releases + 1 /\ left[t] = releases
              /\ place[t] = "woken" => arrived[t] = releases /\ left[t] + 1 = releases

IInv == BarrierTypeOK /\ CurCountsBlocked /\ InStep

USE ConstantAssumption DEF ConstantAssumption

\* A barrier just created satisfies the invariant.
LEMMA InitIInv == BarrierInit => IInv
<1> SUFFICES ASSUME BarrierInit PROVE IInv
  OBVIOUS
<1>1. Standing("blocked") = {}
  BY DEF BarrierInit, Standing
<1>2. CurCountsBlocked
  BY <1>1, FS_EmptySet DEF BarrierInit, CurCountsBlocked
<1>3. BarrierTypeOK
  BY DEF BarrierInit, BarrierTypeOK
<1>4. InStep
  BY DEF BarrierInit, InStep
<1> QED
  BY <1>2, <1>3, <1>4 DEF IInv

\* uint16_t does not wrap below the goal.
LEMMA NoWrap ==
  ASSUME NEW g \in 1..(CurMod - 1), NEW c \in 0..(g - 1) PROVE (c + 1) % CurMod = c + 1
<1>1. c + 1 \in 0..(CurMod - 1)
  OBVIOUS
<1> QED
  BY <1>1

\* The last thread to arrive finds all others asleep.
LEMMA OthersBlocked ==
  ASSUME Proper, IInv, NEW t \in Threads, place[t] = "idle", cur + 1 = goal
  PROVE  \A u \in Threads \ {t} : place[u] = "blocked"
<1>1. Standing("blocked") \subseteq Threads \ {t}
  BY DEF Standing
<1>2. IsFiniteSet(Threads \ {t}) /\ Cardinality(Threads \ {t}) = goal - 1
  BY FS_RemoveElement DEF Proper
<1>3. Cardinality(Standing("blocked")) = goal - 1
  BY DEF IInv, CurCountsBlocked, BarrierTypeOK, Proper
<1>4. Standing("blocked") = Threads \ {t}
  BY <1>1, <1>2, <1>3, FS_Subset
<1> QED
  BY <1>4 DEF Standing

\* A thread that arrives at the barrier keeps the invariant.
LEMMA ArriveIInv == ASSUME IInv, NEW t \in Threads, Arrive(t) PROVE IInv'
<1>0. /\ BarrierTypeOK /\ CurCountsBlocked /\ InStep /\ place[t] = "idle"
      /\ arrived' = [arrived EXCEPT ![t] = @ + 1]
      /\ goal' = goal /\ spurious' = spurious
  BY DEF IInv, Arrive
<1>1. (cur + 1) % CurMod = cur + 1
  BY <1>0, NoWrap DEF BarrierTypeOK
<1>p. Proper' <=> Proper
  BY <1>0 DEF Proper
<1>2. CASE cur + 1 = goal
  <2>1. /\ cur' = 0 /\ releases' = releases + 1
        /\ place' = [u \in Threads |-> IF place[u] = "blocked" THEN "woken" ELSE place[u]]
        /\ left' = [left EXCEPT ![t] = @ + 1]
    BY <1>1, <1>2 DEF Arrive
  <2>2. BarrierTypeOK'
    BY <1>0, <2>1 DEF BarrierTypeOK
  <2>3. ASSUME Proper PROVE InStep'
    <3>1. \A u \in Threads \ {t} : place[u] = "blocked"
      BY <1>0, <1>2, <2>3, OthersBlocked
    <3>2. \A u \in Threads : place'[u] = IF u = t THEN "idle" ELSE "woken"
      BY <1>0, <2>1, <3>1
    <3> QED
      BY <1>0, <2>1, <2>3, <3>1, <3>2 DEF BarrierTypeOK, InStep
  <2>4. InStep'
    BY <2>3, <1>p DEF InStep
  <2>5. Standing("blocked")' = {}
    BY <2>1 DEF Standing
  <2>6. CurCountsBlocked'
    BY <2>1, <2>5, FS_EmptySet DEF CurCountsBlocked
  <2> QED
    BY <2>2, <2>4, <2>6 DEF IInv
<1>3. CASE cur + 1 # goal
  <2>1. /\ cur' = cur + 1 /\ place' = [place EXCEPT ![t] = "blocked"]
        /\ UNCHANGED <<left, releases>>
    BY <1>1, <1>3 DEF Arrive
  <2>2. BarrierTypeOK'
    BY <1>0, <1>3, <2>1 DEF BarrierTypeOK
  <2>3. InStep'
    BY <1>0, <1>p, <2>1 DEF BarrierTypeOK, InStep
  <2>4. Standing("blocked")' = Standing("blocked") \cup {t} /\ t \notin Standing("blocked")
    BY <1>0, <2>1 DEF Standing, BarrierTypeOK
  <2>5. IsFiniteSet(Standing("blocked"))
    BY FS_Subset DEF Standing
  <2>6. CurCountsBlocked'
    BY <1>0, <2>1, <2>4, <2>5, FS_AddElement DEF CurCountsBlocked
  <2> QED
    BY <2>2, <2>3, <2>6 DEF IInv
<1> QED
  BY <1>2, <1>3

\* Every step of the barrier keeps the invariant.
LEMMA StepIInv == IInv /\ [BarrierNext]_barrierVars => IInv'
<1> SUFFICES ASSUME IInv, [BarrierNext]_barrierVars PROVE IInv'
  OBVIOUS
<1>1. ASSUME NEW t \in Threads, Arrive(t) PROVE IInv'
  BY <1>1, ArriveIInv
<1>2. ASSUME NEW t \in Threads, Leave(t) PROVE IInv'
  <2>1. /\ place[t] = "woken" /\ place' = [place EXCEPT ![t] = "idle"]
        /\ left' = [left EXCEPT ![t] = @ + 1]
        /\ UNCHANGED <<goal, cur, arrived, releases, spurious>>
    BY <1>2 DEF Leave
  <2>2. BarrierTypeOK'
    BY <2>1 DEF IInv, BarrierTypeOK
  <2>3. InStep'
    BY <2>1 DEF IInv, BarrierTypeOK, InStep, Proper
  <2>4. Standing("blocked")' = Standing("blocked")
    BY <2>1 DEF Standing, IInv, BarrierTypeOK
  <2>5. CurCountsBlocked'
    BY <2>1, <2>4 DEF IInv, CurCountsBlocked
  <2> QED
    BY <2>2, <2>3, <2>5 DEF IInv
<1>3. ASSUME NEW t \in Threads, SpuriousWake(t) PROVE IInv'
  <2>1. spurious' = spurious + 1 /\ spurious' # 0
    BY <1>3 DEF SpuriousWake, IInv, BarrierTypeOK
  <2>2. BarrierTypeOK'
    BY <1>3 DEF SpuriousWake, IInv, BarrierTypeOK
  <2> QED
    BY <2>1, <2>2 DEF IInv, CurCountsBlocked, InStep, Proper
<1>4. ASSUME UNCHANGED barrierVars PROVE IInv'
  BY <1>4 DEF barrierVars, IInv, BarrierTypeOK, CurCountsBlocked, InStep, Proper, Standing
<1> QED
  BY <1>1, <1>2, <1>3, <1>4 DEF BarrierNext, Quiet

\* The barrier's invariant holds in every state it reaches.
LEMMA BarrierInductive == BarrierSpec => []IInv
  BY InitIInv, StepIInv, PTL DEF BarrierSpec

\* No thread leaves its k-th call of borBarrier before all have made theirs.
THEOREM BarrierTogether == BarrierSpec => []Together
<1>1. IInv => Together
  <2> SUFFICES ASSUME IInv, Proper, NEW t \in Threads, NEW u \in Threads
               PROVE  left[t] <= arrived[u]
    BY DEF Together, Proper
  <2>1. left[t] <= releases /\ releases <= arrived[u]
    BY DEF IInv, BarrierTypeOK, InStep
  <2> QED
    BY <2>1 DEF IInv, BarrierTypeOK
<1> QED
  BY <1>1, BarrierInductive, PTL

\* The counter of the barrier is the number of threads that sleep in it.
THEOREM BarrierCounts == BarrierSpec => []CurCountsBlocked
<1>1. IInv => CurCountsBlocked
  BY DEF IInv
<1> QED
  BY <1>1, BarrierInductive, PTL

-----------------------------------------------------------------------------
(* Every goal-th call broadcasts.                                          *)

Calls == BarrierTypeOK /\ EveryGoalthReleases

\* There are finitely many calls of the barrier's wait.
LEMMA BegunFinite == IsFiniteSet(Begun)
<1>1. IsFiniteSet(1..MaxCalls)
  BY FS_Interval
<1>2. IsFiniteSet(Threads \X (1..MaxCalls))
  BY ONLY <1>1, IsFiniteSet(Threads), FS_Product
<1>3. Begun \subseteq Threads \X (1..MaxCalls)
  BY DEF Begun
<1> QED
  BY <1>2, <1>3, FS_Subset

\* One more call has begun.
LEMMA OneMoreBegun ==
  ASSUME BarrierTypeOK, NEW t \in Threads, arrived[t] < MaxCalls,
         arrived' = [arrived EXCEPT ![t] = @ + 1]
  PROVE  Cardinality(Begun') = Cardinality(Begun) + 1 /\ Cardinality(Begun) \in Nat
<1> DEFINE new == <<t, arrived[t] + 1>>
<1>1. arrived[t] \in Nat /\ new \in Threads \X (1..MaxCalls)
  BY DEF BarrierTypeOK
<1>2. \A c \in Threads \X (1..MaxCalls) : c \in Begun' <=> c \in Begun \/ c = new
  BY <1>1 DEF Begun, BarrierTypeOK
<1>3. Begun' = Begun \cup {new}
  BY <1>1, <1>2 DEF Begun
<1>4. new \notin Begun
  BY <1>1 DEF Begun
<1> QED
  BY <1>3, <1>4, BegunFinite, FS_AddElement, FS_CardinalityType

\* An arrival keeps it that every goal-th call broadcasts.
LEMMA ArriveCalls == ASSUME Calls, NEW t \in Threads, Arrive(t) PROVE EveryGoalthReleases'
<1>0. BarrierTypeOK /\ EveryGoalthReleases /\ goal' = goal
  BY DEF Calls, Arrive
<1>1. Cardinality(Begun') = Cardinality(Begun) + 1 /\ Cardinality(Begun) \in Nat
  BY <1>0, OneMoreBegun DEF Arrive
<1>2. (cur + 1) % CurMod = cur + 1
  BY <1>0, NoWrap DEF BarrierTypeOK
<1>3. goal \in Nat /\ releases \in Nat /\ cur \in Nat
  BY <1>0 DEF BarrierTypeOK
<1>4. goal * (releases + 1) = goal * releases + goal /\ goal * releases \in Nat
  BY <1>3
<1>5. CASE cur + 1 = goal /\ cur' = 0 /\ releases' = releases + 1
  <2>1. goal * releases' = goal * releases + goal
    BY <1>4, <1>5
  <2> QED
    BY <1>0, <1>1, <1>3, <1>4, <1>5, <2>1 DEF EveryGoalthReleases
<1>6. CASE cur' = cur + 1 /\ releases' = releases
  BY <1>0, <1>1, <1>3, <1>4, <1>6 DEF EveryGoalthReleases
<1> QED
  BY <1>2, <1>5, <1>6 DEF Arrive

\* Whatever spurious wakeups happen, a broadcast follows every goal-th call.
THEOREM BarrierReleases == BarrierSpec => []EveryGoalthReleases
<1>1. BarrierInit => EveryGoalthReleases
  <2> SUFFICES ASSUME BarrierInit PROVE EveryGoalthReleases
    OBVIOUS
  <2>1. Begun = {}
    BY DEF BarrierInit, Begun
  <2>2. goal * releases = 0
    BY DEF BarrierInit
  <2> QED
    BY <2>1, <2>2, FS_EmptySet DEF BarrierInit, EveryGoalthReleases
<1>2. IInv /\ EveryGoalthReleases /\ [BarrierNext]_barrierVars => EveryGoalthReleases'
  <2> SUFFICES ASSUME IInv, EveryGoalthReleases, [BarrierNext]_barrierVars PROVE EveryGoalthReleases'
    OBVIOUS
  <2>1. ASSUME NEW t \in Threads, Arrive(t) PROVE EveryGoalthReleases'
    BY <2>1, ArriveCalls DEF Calls, IInv
  <2>2. ASSUME UNCHANGED <<goal, cur, arrived, releases>> PROVE EveryGoalthReleases'
    BY <2>2 DEF EveryGoalthReleases, Begun
  <2> QED
    BY <2>1, <2>2 DEF BarrierNext, Leave, SpuriousWake, Quiet, barrierVars
<1> QED
  BY <1>1, <1>2, BarrierInductive, PTL DEF BarrierSpec

-----------------------------------------------------------------------------
(* The composition.                                                        *)

\* A behaviour of the composition is one of each part: the parts that the
\* scenario leaves out stutter.
LEMMA Steps == SyncSteps => Spec /\ BarrierSpec /\ Ring!Spec /\ Rand!Spec
<1>1. SyncInit => Init /\ BarrierInit /\ Ring!Init /\ Rand!Init
  BY DEF SyncInit
<1>2. [SyncNext]_SyncVars => [Next]_vars
  BY DEF SyncNext, SyncVars, FifoPart, RingPart, BarrierPart, RandPart
<1>3. [SyncNext]_SyncVars => [BarrierNext]_barrierVars
  BY DEF SyncNext, SyncVars, FifoPart, RingPart, BarrierPart, RandPart
<1>4. [SyncNext]_SyncVars => [Ring!Next]_(Ring!vars)
  <2>1. UNCHANGED ringVars => UNCHANGED Ring!vars
    BY DEF ringVars, Ring!vars, Ring!ring, Ring!sems, Ring!history
  <2> QED
    BY <2>1 DEF SyncNext, SyncVars, FifoPart, RingPart, BarrierPart, RandPart
<1>5. [SyncNext]_SyncVars => [Rand!Next]_(Rand!vars)
  <2>1. UNCHANGED randVars => UNCHANGED Rand!vars
    BY DEF randVars, Rand!vars
  <2> QED
    BY <2>1 DEF SyncNext, SyncVars, FifoPart, RingPart, BarrierPart, RandPart
<1> QED
  BY <1>1, <1>2, <1>3, <1>4, <1>5, PTL DEF SyncSteps, Spec, BarrierSpec, Ring!Spec, Rand!Spec

\* borRingQueuePush and the pops of src/ring_queue.c: the semaphores count the
\* elements of the ring and the room left (see RingQueueProofs).
THEOREM RingSemaphores == SyncSpec => []SemaphoresMatchRing
<1>1. Ring!Spec => []Ring!SemaphoresMatchRing
  BY SyncAssumption, Ring!SemaphoresCount
<1> QED
  BY <1>1, Steps, PTL DEF SyncSpec, SemaphoresMatchRing

\* src/ring_queue.c keeps the order, each element once, wherever the ring wraps
\* and doubles (see RingQueueProofs).
THEOREM RingOrder == SyncSpec => RingImplementsQueue
<1>1. Ring!Spec => Ring!RingImplementsQueue
  BY SyncAssumption, Ring!KeepsOrder
<1> QED
  BY <1>1, Steps, PTL DEF SyncSpec, RingImplementsQueue

\* borRandMTParallel01: each number goes to one thread, once, in order (see
\* RandMTParallelProofs).
THEOREM NumbersOnce == SyncSpec => []StreamPartitioned
<1>1. Rand!Spec => []Rand!StreamPartitioned
  BY SyncAssumption, Rand!DividesStream
<1> QED
  BY <1>1, Steps, PTL DEF SyncSpec, StreamPartitioned

\* Every variable of the four parts keeps its type: no offset outside of its
\* segment, no index outside of its ring or pool, no counter out of its bounds.
THEOREM TypesHold == SyncSpec => []TypesOK
<1>1. Ring!Spec => []Ring!TypeOK
  BY SyncAssumption, Ring!TypeCorrect
<1>2. Rand!Spec => []Rand!TypeOK
  BY SyncAssumption, Rand!TypeCorrect
<1>3. BarrierSpec => []BarrierTypeOK
  <2>1. IInv => BarrierTypeOK
    BY DEF IInv
  <2> QED
    BY <2>1, BarrierInductive, PTL
<1> QED
  BY <1>1, <1>2, <1>3, TypeCorrect, Steps, PTL DEF SyncSpec, TypesOK
=============================================================================
