------------------------------ MODULE MCTasks ------------------------------
(***************************************************************************)
(* The shared task queue Tasks and the task pool TaskPool, for TLC, in one *)
(* run.  scenario says which of them a behaviour is about; the variables   *)
(* of the others stay in their initial state.  The shared queue is there   *)
(* twice: with places for its jobs, and with a single place, where the     *)
(* workers can fill it themselves and wait for each other.  The pool is an *)
(* instance of the module with its proofs, so that TasksProofs can cite    *)
(* them.                                                                   *)
(***************************************************************************)
EXTENDS Tasks

CONSTANTS
  FewJobs,  \* the jobs of the pool, of the narrow queue, and when there is trouble
  MaxFaults \* bound on the interrupted and unsignalled waits of a behaviour

VARIABLES
  scenario,
  nTasks, nFull, nEmpty, nPending, nLock, nPc, nItem, nCur, nRuns, nHandle, nIdx, nClosing, nUsed,
  nAdded, nFinished, nOwed, nDropped, nSnap, nInterrupts, nSpurious,
  pTasks, pFull, pEmpty, pPending, started, at, pItem, tid, pCur, pIdx, pInterrupts, pSpurious,
  pClosing, pUsed, pAdded, pFinished, pOwed, pSnap

narrowVars ==
  <<nTasks, nFull, nEmpty, nPending, nLock, nPc, nItem, nCur, nRuns, nHandle, nIdx, nClosing, nUsed,
    nAdded, nFinished, nOwed, nDropped, nSnap, nInterrupts, nSpurious>>
poolVars ==
  <<pTasks, pFull, pEmpty, pPending, started, at, pItem, tid, pCur, pIdx, pInterrupts, pSpurious,
    pClosing, pUsed, pAdded, pFinished, pOwed, pSnap>>

Narrow == INSTANCE Tasks WITH
  Jobs <- FewJobs, QueueSize <- 1, MaxInterrupts <- 0, MaxSpurious <- 0, AllowCancel <- FALSE,
  tasks <- nTasks, full <- nFull, empty <- nEmpty, pending <- nPending, lock <- nLock, pc <- nPc,
  item <- nItem, cur <- nCur, runs <- nRuns, handle <- nHandle, idx <- nIdx, closing <- nClosing,
  used <- nUsed, added <- nAdded, finished <- nFinished, owed <- nOwed, dropped <- nDropped,
  snap <- nSnap, interrupts <- nInterrupts, spurious <- nSpurious
Pool == INSTANCE TaskPoolProofs WITH
  Jobs <- FewJobs, Probe <- NumThreads,
  tasks <- pTasks, full <- pFull, empty <- pEmpty, pending <- pPending, pc <- at, item <- pItem,
  cur <- pCur, idx <- pIdx, interrupts <- pInterrupts, spurious <- pSpurious,
  closing <- pClosing, used <- pUsed, added <- pAdded, finished <- pFinished, owed <- pOwed,
  snap <- pSnap

ASSUME ServiceAssumption == ConstantsOK /\ Narrow!ConstantsOK /\ Pool!ConstantsOK

MCInit == scenario \in {"queue", "narrow", "pool"} /\ Init /\ Narrow!Init /\ Pool!Init

\* The bound on the faults of a behaviour, of either kind.  Where one happens,
\* or a queued job is cancelled, the queue makes do with few jobs.
FewFaults ==
  /\ interrupts' + spurious' + pInterrupts' + pSpurious' <= MaxFaults
  /\ interrupts' + spurious' > 0 \/ dropped' # {} => used' \subseteq FewJobs

QueuePart == scenario = "queue" /\ Next /\ UNCHANGED <<scenario, narrowVars, poolVars>>
NarrowPart == scenario = "narrow" /\ Narrow!Next /\ UNCHANGED <<scenario, vars, poolVars>>
PoolPart == scenario = "pool" /\ Pool!Next /\ UNCHANGED <<scenario, vars, narrowVars>>
MCNext == (QueuePart \/ NarrowPart \/ PoolPart) /\ FewFaults

\* The fairness of each: a thread that can run does run; callbacks return.
NarrowFairness ==
  /\ \A c \in Clients : WF_narrowVars(Narrow!ClientStep(c))
  /\ \A w \in Workers : WF_narrowVars(Narrow!WorkerStep(w))
  /\ WF_narrowVars(Narrow!OwnerStep)
PoolFairness ==
  /\ \A c \in Clients : WF_poolVars(Pool!ClientStep(c))
  /\ \A i \in Pool!Threads : WF_poolVars(Pool!ThreadStep(i))
  /\ WF_poolVars(Pool!OwnerStep)

MCVars == <<scenario, vars, narrowVars, poolVars>>
MCSteps == MCInit /\ [][MCNext]_MCVars
MCSpec == MCSteps /\ Fairness /\ NarrowFairness /\ PoolFairness
----------------------------------------------------------------------------
(* The properties of the pool; those of the queue are in Tasks.            *)

\* The counters of each thread of the pool agree with its list: sem_wait,
\* sem_post and pending of task-pool.c (see TaskPool).
CountersMatch == Pool!CountersMatch

\* borTaskPoolBarrier waits for the tasks of its thread (see TaskPool).
PoolBarrierSound == Pool!PoolBarrierSound

\* borTaskPoolDel waits for what was queued and for every thread (see TaskPool).
PoolDelComplete == Pool!PoolDelComplete

\* The queue of a thread of the pool is a TaskService (see TaskPool).
PoolImplementsService == Pool!PoolImplementsService

----------------------------------------------------------------------------
(* Progress, of the queues or the pool, whichever the behaviour is about.  *)

\* Every call of a client returns, unless the program has come to a state where
\* it cannot: CallsReturn of Tasks, also with a queue of a single place, and of
\* TaskPool.
EveryCallReturns ==
  \A c \in Clients : (CallDue(c) \/ Narrow!CallDue(c) \/ Pool!CallDue(c))
        ~> (CallOver(c) /\ Narrow!CallOver(c) /\ Pool!CallOver(c))

\* Every queued job is run unless deletion begins or the program has come to a
\* state where it cannot be: JobsFinish of Tasks and of TaskPool.
EveryJobFinishes ==
  \A j \in FewJobs : (JobDue(j) \/ Narrow!JobDue(j) \/ Pool!JobDue(j))
        ~> (JobOver(j) \/ Narrow!JobOver(j) \/ Pool!JobOver(j))
============================================================================
