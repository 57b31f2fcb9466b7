------------------------------- MODULE MCSync -------------------------------
(***************************************************************************)
(* What threads share, for TLC, in one run: the queues FifoSem and         *)
(* RingQueue (two implementations of one promise), the barrier and the     *)
(* parallel random numbers.  scenario says which of them a behaviour is    *)
(* about; the others stay in their initial state.  The instances are those *)
(* of the modules with the proofs, so that SyncProofs can cite their       *)
(* theorems.                                                               *)
(***************************************************************************)
EXTENDS FifoSem, Barrier

CONSTANTS RingSize, NumThreads, PoolSize, MaxPos, NoThread

VARIABLES
  scenario,
  buf, size, head, tail, rFull, rEmpty, rPc, rItem, rInterrupts, rUsed, rDelivered,
  pos, lock, pool, next, at, i, reg, got

ringVars == <<buf, size, head, tail, rFull, rEmpty, rPc, rItem, rInterrupts, rUsed, rDelivered>>
randVars == <<pos, lock, pool, next, at, i, reg, got>>

Ring == INSTANCE RingQueueProofs WITH
  full <- rFull, empty <- rEmpty, pc <- rPc, item <- rItem,
  interrupts <- rInterrupts, used <- rUsed, delivered <- rDelivered
Rand == INSTANCE RandMTParallelProofs WITH pc <- at

ASSUME SyncAssumption == Ring!ConstantsOK /\ Rand!ConstantsOK

SyncInit ==
  /\ scenario \in {"fifo", "ring", "barrier", "rand"}
  /\ Init /\ Ring!Init /\ BarrierInit /\ Rand!Init
  /\ scenario # "barrier" => goal = CHOOSE g \in Goals : TRUE

FifoPart ==
  scenario = "fifo" /\ Next /\ UNCHANGED <<scenario, ringVars, barrierVars, randVars>>
RingPart ==
  scenario = "ring" /\ Ring!Next /\ UNCHANGED <<scenario, vars, barrierVars, randVars>>
BarrierPart ==
  scenario = "barrier" /\ BarrierNext /\ UNCHANGED <<scenario, vars, ringVars, randVars>>
RandPart ==
  scenario = "rand" /\ Rand!Next /\ UNCHANGED <<scenario, vars, ringVars, barrierVars>>
SyncNext == FifoPart \/ RingPart \/ BarrierPart \/ RandPart

\* The fairness of each: threads inside a call run, and threads keep coming to
\* the barrier.
RingFairness ==
  /\ \A p \in Producers : WF_ringVars(Ring!ProducerStep(p))
  /\ \A c \in Consumers : WF_ringVars(Ring!ConsumerStep(c))
BarrierFairness ==
  \A t \in Threads : /\ WF_barrierVars(scenario = "barrier" /\ Arrive(t))
                     /\ WF_barrierVars(scenario = "barrier" /\ Leave(t))
RandFairness == \A t \in Rand!Pools : WF_randVars(Rand!Refill(t))

SyncVars == <<scenario, vars, ringVars, barrierVars, randVars>>
SyncSteps == SyncInit /\ [][SyncNext]_SyncVars
SyncFairness == Fairness /\ RingFairness /\ BarrierFairness /\ RandFairness
SyncSpec == SyncSteps /\ SyncFairness

\* Every variable has its type: offsets stay inside their segment, indices
\* inside the ring, the semaphores between their bounds, the counter of the
\* barrier below the goal, and no thread reads beyond its pool.
TypesOK == TypeOK /\ Ring!TypeOK /\ BarrierTypeOK /\ Rand!TypeOK

\* The semaphores of borRingQueuePush and the pops count the elements of the
\* ring and the room left (see RingQueue).
SemaphoresMatchRing == Ring!SemaphoresMatchRing

\* Each random number goes to exactly one thread, once, in order (see
\* RandMTParallel): borRandMTParallel01 with __borRandMTParallelRefill.
StreamPartitioned == Rand!StreamPartitioned

\* The elements of the ring are delivered in order, each once (see RingQueue);
\* FifoSem promises the same as ImplementsQueue.
RingImplementsQueue == Ring!RingImplementsQueue

\* No consumer blocked in borFifoSemPopBlock or borRingQueuePopBlock sleeps
\* while an element stays in its queue, and no producer in borFifoSemPush while
\* the consumers make room (see FifoSem and RingQueue).
NobodySleeps == Served /\ Unblocked /\ Ring!Served

\* borBarrier returns when it is for all its threads, and a thread whose pool
\* is empty gets it refilled: the lock of the generator is always given back.
CallsReturn == EverybodyReturns /\ Rand!RefillReturns
=============================================================================
