------------------------------ MODULE TaskPool ------------------------------
(***************************************************************************)
(* The task pool of src/task-pool.c: NumThreads threads, each with its own *)
(* list of tasks, mutex, pair of semaphores and pending counter.  A caller *)
(* says which thread gets a task.  Every critical section is one action:   *)
(* no thread blocks on anything else while it holds a mutex.               *)
(***************************************************************************)
EXTENDS Integers, Sequences, FiniteSets, Functions, Filter

CONSTANTS
  NumThreads,      \* num_threads, the argument of borTaskPoolNew
  Clients,         \* threads of the program that call the functions
  Owner,           \* the client that starts and deletes the pool
  Jobs,            \* tasks that may be passed to borTaskPoolAdd, once each
  Spawners,        \* jobs whose callback may itself call borTaskPoolAdd
  QueueSize,       \* QUEUE_SIZE (SEM_VALUE_MAX), scaled down
  MaxInterrupts,   \* bound on sem_wait calls that return EINTR
  MaxSpurious,     \* bound on pthread_cond_waits that return unsignalled
  Probe,           \* the thread whose queue is compared with TaskService
  Finish, None

Threads == 1..NumThreads
Procs == Clients \cup Threads
Items == Jobs \cup {Finish}

\* What the module takes for granted about its constants.
ConstantsOK ==
  /\ NumThreads \in Nat \ {0} /\ QueueSize \in Nat \ {0}
  /\ MaxInterrupts \in Nat /\ MaxSpurious \in Nat
  /\ Probe \in Threads
  /\ Owner \in Clients
  /\ IsFiniteSet(Clients)
  /\ Clients \cap Threads = {}
  /\ Spawners \subseteq Jobs
  /\ Finish \notin Jobs
  /\ None \notin Items \cup Threads

VARIABLES
  tasks, full, empty, pending, \* the members of bor_task_pool_thread_t
  started,    \* t->started
  pc,         \* where each client and each thread of the pool stands
  item,       \* task that is passed to _borTaskPoolAdd
  tid,        \* thread whose queue a call works on
  cur,        \* task a thread has taken
  idx,        \* loop counter of the owner
  interrupts, \* interrupted sem_wait calls so far
  spurious,   \* unsignalled wakeups so far
  closing,    \* the owner has called borTaskPoolDel
  used,       \* history: jobs handed to borTaskPoolAdd
  added,      \* history: jobs appended to the list of each thread
  finished,   \* history: jobs whose callback has returned
  owed,       \* history: jobs that were in a list when deletion began
  snap        \* history: unfinished jobs of the thread a client waits for

queues == <<tasks, full, empty, pending>>
history == <<used, added, finished, owed, snap>>
faults == <<interrupts, spurious>>
vars == <<queues, started, pc, item, tid, cur, idx, closing, faults, history>>

At(l) == {p \in Procs : pc[p] = l}
Closed == pc[Owner] = "closed"
Goto(p, l) == pc' = [pc EXCEPT ![p] = l]
Accepted == UNION {added[i] : i \in Threads}

\* sem_post of a semaphore with value n, where QUEUE_SIZE is the largest value
\* a semaphore has: beyond it sem_post fails, and nobody looks at its result.
Posted(n) == IF n < QueueSize THEN n + 1 ELSE n

\* borTaskPoolNew.
Init ==
  /\ tasks = [i \in Threads |-> <<>>]
  /\ full = [i \in Threads |-> 0]
  /\ empty = [i \in Threads |-> QueueSize]
  /\ pending = [i \in Threads |-> 0]
  /\ started = FALSE
  /\ pc = [p \in Procs |-> IF p \in Clients THEN "idle" ELSE "none"]
  /\ item = [p \in Procs |-> None]
  /\ tid = [p \in Procs |-> None]
  /\ cur = [i \in Threads |-> None]
  /\ idx = 1
  /\ interrupts = 0 /\ spurious = 0
  /\ closing = FALSE
  /\ used = {}
  /\ added = [i \in Threads |-> {}]
  /\ finished = {}
  /\ owed = {}
  /\ snap = [c \in Clients |-> {}]

----------------------------------------------------------------------------
(* _borTaskPoolAdd.                                                        *)

\* borTaskPoolAdd, called by a client or by a callback, for any thread.
AddCall(p, j, i) ==
  /\ \/ p \in Clients /\ pc[p] = "idle" /\ ~closing
     \/ p \in Threads /\ pc[p] = "run" /\ cur[p] \in Spawners
  /\ j \in Jobs \ used
  /\ used' = used \cup {j}
  /\ item' = [item EXCEPT ![p] = j]
  /\ tid' = [tid EXCEPT ![p] = i]
  /\ Goto(p, "reserve")
  /\ UNCHANGED <<queues, started, cur, idx, closing, faults, added, finished, owed, snap>>

\* Mutant: no place is reserved.
ReserveUnchecked(p) ==
  /\ pc[p] = "reserve"
  /\ empty' = [empty EXCEPT ![tid[p]] = @ - 1]
  /\ Goto(p, "append")
  /\ UNCHANGED <<tasks, full, pending, started, item, tid, cur, idx, closing, faults, history>>

\* sem_wait(&t->threads[tid]->empty).
Reserve(p) ==
  /\ pc[p] = "reserve"
  /\ empty[tid[p]] > 0
  /\ empty' = [empty EXCEPT ![tid[p]] = @ - 1]
  /\ Goto(p, "append")
  /\ UNCHANGED <<tasks, full, pending, started, item, tid, cur, idx, closing, faults, history>>

\* The wait for a place returns EINTR, which is not looked at: the task is
\* added although there is no room for it.
InterruptReserve(p) ==
  /\ pc[p] = "reserve"
  /\ empty[tid[p]] = 0
  /\ interrupts < MaxInterrupts
  /\ interrupts' = interrupts + 1
  /\ Goto(p, "append")
  /\ UNCHANGED <<queues, started, item, tid, cur, idx, closing, spurious, history>>

\* Mutant: the task is put in front of the others.
AppendFront(p) ==
  /\ pc[p] = "append"
  /\ tasks' = [tasks EXCEPT ![tid[p]] = <<item[p]>> \o @]
  /\ pending' = [pending EXCEPT ![tid[p]] = @ + 1]
  /\ added' = [added EXCEPT ![tid[p]] = @ \cup ({item[p]} \ {Finish})]
  /\ Goto(p, "post")
  /\ UNCHANGED <<full, empty, started, item, tid, cur, idx, closing, faults, used, finished, owed, snap>>

\* The critical section that queues the task and counts it.
Append1(p) ==
  /\ pc[p] = "append"
  /\ tasks' = [tasks EXCEPT ![tid[p]] = Append(@, item[p])]
  /\ pending' = [pending EXCEPT ![tid[p]] = @ + 1]
  /\ added' = [added EXCEPT ![tid[p]] = @ \cup ({item[p]} \ {Finish})]
  /\ Goto(p, "post")
  /\ UNCHANGED <<full, empty, started, item, tid, cur, idx, closing, faults, used, finished, owed, snap>>

Caller(p) == IF p \in Threads THEN "run" ELSE IF item[p] = Finish THEN "mark" ELSE "idle"

\* Mutant: a task is announced only by clients.
PostClientsOnly(p) ==
  /\ pc[p] = "post"
  /\ full' = [full EXCEPT ![tid[p]] = IF p \in Clients THEN Posted(@) ELSE @]
  /\ item' = [item EXCEPT ![p] = None]
  /\ tid' = [tid EXCEPT ![p] = None]
  /\ Goto(p, Caller(p))
  /\ UNCHANGED <<tasks, empty, pending, started, cur, idx, closing, faults, history>>

\* sem_post(&t->threads[tid]->full).
Post(p) ==
  /\ pc[p] = "post"
  /\ full' = [full EXCEPT ![tid[p]] = Posted(@)]
  /\ item' = [item EXCEPT ![p] = None]
  /\ tid' = [tid EXCEPT ![p] = None]
  /\ Goto(p, Caller(p))
  /\ UNCHANGED <<tasks, empty, pending, started, cur, idx, closing, faults, history>>

----------------------------------------------------------------------------
(* borTaskPoolRun and borTaskPoolBarrier.                                  *)

\* borTaskPoolRun, called once: the threads come to life one by one.
RunCall ==
  /\ pc[Owner] = "idle" /\ ~closing /\ ~started
  /\ idx' = 1
  /\ Goto(Owner, "create")
  /\ UNCHANGED <<queues, started, item, tid, cur, closing, faults, history>>

CreateThread ==
  /\ pc[Owner] = "create" /\ idx <= NumThreads
  /\ idx' = idx + 1
  /\ Goto(idx, "wait")
  /\ UNCHANGED <<queues, started, item, tid, cur, closing, faults, history>>

RunDone ==
  /\ pc[Owner] = "create" /\ idx > NumThreads
  /\ started' = TRUE
  /\ Goto(Owner, "idle")
  /\ UNCHANGED <<queues, item, tid, cur, idx, closing, faults, history>>

\* borTaskPoolBarrier of thread i with tasks pending: one wait, not a loop.
\* (With none it changes nothing.)  The owner, who alone could start the
\* threads, does not wait for threads that it has not started.
BarrierCall(c, i) ==
  /\ pc[c] = "idle" /\ ~closing /\ (c = Owner => started)
  /\ pending[i] # 0
  /\ tid' = [tid EXCEPT ![c] = i]
  /\ snap' = [snap EXCEPT ![c] = added[i] \ finished]
  /\ Goto(c, "blocked")
  /\ UNCHANGED <<queues, started, item, cur, idx, closing, faults, used, added, finished, owed>>

SpuriousWake(c) ==
  /\ spurious < MaxSpurious
  /\ pc[c] = "blocked"
  /\ spurious' = spurious + 1
  /\ Goto(c, "woken")
  /\ UNCHANGED <<queues, started, item, tid, cur, idx, closing, interrupts, history>>

\* The wait has the mutex again and the caller returns.
Wake(c) ==
  /\ pc[c] = "woken"
  /\ tid' = [tid EXCEPT ![c] = None]
  /\ snap' = [snap EXCEPT ![c] = {}]
  /\ Goto(c, "idle")
  /\ UNCHANGED <<queues, started, item, cur, idx, closing, faults, used, added, finished, owed>>

----------------------------------------------------------------------------
(* threadMain of thread i.                                                 *)

\* sem_wait(&th->full).
Take(i) ==
  /\ pc[i] = "wait"
  /\ full[i] > 0
  /\ full' = [full EXCEPT ![i] = @ - 1]
  /\ Goto(i, "pick")
  /\ UNCHANGED <<tasks, empty, pending, started, item, tid, cur, idx, closing, faults, history>>

\* A blocked sem_wait returns EINTR; its result is not looked at.
Interrupt(i) ==
  /\ pc[i] = "wait"
  /\ full[i] = 0
  /\ interrupts < MaxInterrupts
  /\ interrupts' = interrupts + 1
  /\ Goto(i, "pick")
  /\ UNCHANGED <<queues, started, item, tid, cur, idx, closing, spurious, history>>

\* The critical section that takes the first task.  Taking the head of an
\* empty list for a task is undefined behaviour ("stray").
Pick(i) ==
  /\ pc[i] = "pick"
  /\ \/ /\ tasks[i] # <<>>
        /\ cur' = [cur EXCEPT ![i] = Head(tasks[i])]
        /\ tasks' = [tasks EXCEPT ![i] = Tail(@)]
        /\ Goto(i, "room")
     \/ /\ tasks[i] = <<>>
        /\ pc' = [p \in Procs |-> "stray"]
        /\ UNCHANGED <<tasks, cur>>
  /\ UNCHANGED <<full, empty, pending, started, item, tid, idx, closing, faults, history>>

\* sem_post(&th->empty), then the task says whether to run or to finish.
Room(i) ==
  /\ pc[i] = "room"
  /\ empty' = [empty EXCEPT ![i] = Posted(@)]
  /\ Goto(i, IF cur[i] = Finish THEN "account" ELSE "run")
  /\ UNCHANGED <<tasks, full, pending, started, item, tid, cur, idx, closing, faults, history>>

\* The callback returns.
Return(i) ==
  /\ pc[i] = "run"
  /\ finished' = finished \cup {cur[i]}
  /\ Goto(i, "account")
  /\ UNCHANGED <<queues, started, item, tid, cur, idx, closing, faults, used, added, owed, snap>>

\* Mutants: every waiter is woken, whichever thread it waits for; the finish
\* task is not counted.
AccountWakesAll(i) ==
  /\ pc[i] = "account"
  /\ pending' = [pending EXCEPT ![i] = @ - 1]
  /\ cur' = [cur EXCEPT ![i] = None]
  /\ pc' = [p \in Procs |->
              IF p = i THEN IF cur[i] = Finish THEN "exited" ELSE "wait"
              ELSE IF pc[p] = "blocked" /\ pending'[i] = 0 THEN "woken" ELSE pc[p]]
  /\ UNCHANGED <<tasks, full, empty, started, item, tid, idx, closing, faults, history>>
AccountJobsOnly(i) ==
  /\ pc[i] = "account"
  /\ pending' = [pending EXCEPT ![i] = IF cur[i] = Finish THEN @ ELSE @ - 1]
  /\ cur' = [cur EXCEPT ![i] = None]
  /\ pc' = [p \in Procs |->
              IF p = i THEN IF cur[i] = Finish THEN "exited" ELSE "wait"
              ELSE IF pc[p] = "blocked" /\ tid[p] = i /\ pending'[i] = 0 THEN "woken" ELSE pc[p]]
  /\ UNCHANGED <<tasks, full, empty, started, item, tid, idx, closing, faults, history>>

\* The last critical section: the clients that wait for this thread are woken
\* when its last task is accounted for.
Account(i) ==
  /\ pc[i] = "account"
  /\ pending' = [pending EXCEPT ![i] = @ - 1]
  /\ cur' = [cur EXCEPT ![i] = None]
  /\ pc' = [p \in Procs |->
              IF p = i THEN IF cur[i] = Finish THEN "exited" ELSE "wait"
              ELSE IF pc[p] = "blocked" /\ tid[p] = i /\ pending'[i] = 0 THEN "woken" ELSE pc[p]]
  /\ UNCHANGED <<tasks, full, empty, started, item, tid, idx, closing, faults, history>>

----------------------------------------------------------------------------
(* borTaskPoolDel.                                                         *)

\* The caller must be the last user.  A pool that was not started is freed as
\* it is.
DelCall ==
  /\ ~closing
  /\ \A c \in Clients : pc[c] = "idle"
  /\ closing' = TRUE
  /\ owed' = Accepted
  /\ idx' = 1
  /\ Goto(Owner, IF started THEN "mark" ELSE "free")
  /\ UNCHANGED <<queues, started, item, tid, cur, faults, used, added, finished, snap>>

\* Mutant: the thread that was started last gets no finishing task.
MarkTooFew ==
  /\ pc[Owner] = "mark"
  /\ \/ /\ idx < NumThreads
        /\ item' = [item EXCEPT ![Owner] = Finish]
        /\ tid' = [tid EXCEPT ![Owner] = idx]
        /\ idx' = idx + 1
        /\ Goto(Owner, "reserve")
     \/ /\ idx >= NumThreads
        /\ idx' = 1
        /\ Goto(Owner, "join")
        /\ UNCHANGED <<item, tid>>
  /\ UNCHANGED <<queues, started, cur, closing, faults, history>>

\* One finishing task for each thread.
Mark ==
  /\ pc[Owner] = "mark"
  /\ \/ /\ idx <= NumThreads
        /\ item' = [item EXCEPT ![Owner] = Finish]
        /\ tid' = [tid EXCEPT ![Owner] = idx]
        /\ idx' = idx + 1
        /\ Goto(Owner, "reserve")
     \/ /\ idx > NumThreads
        /\ idx' = 1
        /\ Goto(Owner, "join")
        /\ UNCHANGED <<item, tid>>
  /\ UNCHANGED <<queues, started, cur, closing, faults, history>>

\* Mutant: only the first thread is waited for.
JoinFirst ==
  /\ pc[Owner] = "join"
  /\ pc[1] = "exited"
  /\ Goto(Owner, "free")
  /\ UNCHANGED <<queues, started, item, tid, cur, idx, closing, faults, history>>

\* threadJoin of thread after thread.
Join ==
  /\ pc[Owner] = "join"
  /\ \/ /\ idx <= NumThreads
        /\ pc[idx] = "exited"
        /\ idx' = idx + 1
        /\ UNCHANGED pc
     \/ /\ idx > NumThreads
        /\ Goto(Owner, "free")
        /\ UNCHANGED idx
  /\ UNCHANGED <<queues, started, item, tid, cur, closing, faults, history>>

\* threadDel of every thread: what is still queued is deleted.
FreeAll ==
  /\ pc[Owner] = "free"
  /\ tasks' = [i \in Threads |-> <<>>]
  /\ Goto(Owner, "closed")
  /\ UNCHANGED <<full, empty, pending, started, item, tid, cur, idx, closing, faults, history>>

----------------------------------------------------------------------------
\* No thread has used the head of its list as a task: after that nothing can be
\* said.
Defined == At("stray") = {}

\* The threads of S wait in their callbacks for a place in the queue of one of
\* them or of a thread that is gone: none of them takes a task any more.
Jammed ==
  \E S \in SUBSET Threads \ {{}} : \A i \in S :
    /\ pc[i] = "reserve" /\ empty[tid[i]] = 0
    /\ tid[i] \in S \/ pc[tid[i]] = "exited"

\* After an interrupted wait a task was added although there was no room, and
\* its sem_post failed: the thread is not going to be woken for its last task.
Adding(l, i) == Cardinality({p \in At(l) : tid[p] = i})
Taken(l, i) == IF pc[i] = l THEN 1 ELSE 0
Unannounced ==
  interrupts > 0 /\ \E i \in Threads : full[i] + Taken("pick", i) + Adding("post", i) < Len(tasks[i])

\* The pool is gone, or the program has come to where it may stand for ever.
Terminated == (Closed \/ ~Defined \/ Jammed \/ Unannounced) /\ UNCHANGED vars

ClientStep(c) == Reserve(c) \/ Append1(c) \/ Post(c) \/ Wake(c)
OwnerStep == CreateThread \/ RunDone \/ Mark \/ Join \/ FreeAll
ThreadStep(i) ==
  \/ Reserve(i) \/ Append1(i) \/ Post(i)
  \/ Take(i) \/ Pick(i) \/ Room(i) \/ Return(i) \/ Account(i)

Next ==
  \/ \E p \in Procs : \/ InterruptReserve(p)
                      \/ \E j \in Jobs, i \in Threads : AddCall(p, j, i)
  \/ \E c \in Clients : \/ ClientStep(c) \/ SpuriousWake(c)
                        \/ \E i \in Threads : BarrierCall(c, i)
  \/ \E i \in Threads : ThreadStep(i) \/ Interrupt(i)
  \/ RunCall \/ DelCall \/ OwnerStep
  \/ Terminated

Spec == Init /\ [][Next]_vars

\* A thread that can run does run; callbacks return.
Fairness ==
  /\ \A c \in Clients : WF_vars(ClientStep(c))
  /\ \A i \in Threads : WF_vars(ThreadStep(i))
  /\ WF_vars(OwnerStep)

FairSpec == Spec /\ Fairness
----------------------------------------------------------------------------
(* Properties.                                                             *)

TypeOK ==
  /\ tasks \in [Threads -> Seq(Items)]
  /\ full \in [Threads -> Nat] /\ empty \in [Threads -> 0..QueueSize]
  /\ pending \in [Threads -> Nat]
  /\ \A c \in Clients : pc[c] \in {"idle", "reserve", "append", "post", "blocked", "woken", "create",
                                   "mark", "join", "free", "closed", "stray"}
  /\ \A i \in Threads : pc[i] \in {"none", "wait", "pick", "room", "run", "reserve", "append", "post",
                                   "account", "exited", "stray"}
  /\ item \in [Procs -> Items \cup {None}]
  /\ tid \in [Procs -> Threads \cup {None}]
  /\ cur \in [Threads -> Items \cup {None}]
  /\ finished \subseteq Jobs

\* The semaphores of each thread count its own list, whoever adds to it, and
\* its pending counter the tasks that are not accounted for; so threadMain,
\* which does not look whether the list is empty, finds a task (it does not
\* look at the result of an interrupted wait either).
CountersMatch ==
  Closed \/ interrupts > 0 \/ \A i \in Threads :
    /\ pc[i] # "stray"
    /\ full[i] + Taken("pick", i) + Adding("post", i) = Len(tasks[i])
    /\ empty[i] + Len(tasks[i]) + Taken("room", i) + Adding("append", i) = QueueSize
    /\ pending[i] = Len(tasks[i]) + (IF cur[i] = None THEN 0 ELSE 1)

\* borTaskPoolBarrier(id) returns only after every task that thread id had
\* when the caller began to wait has been run; its only protection against
\* an unsignalled return of pthread_cond_wait is that there is none.
PoolBarrierSound ==
  spurious = 0 => \A c \in Clients : pc[c] = "woken" => snap[c] \subseteq finished

\* The memory is released after every task that was in a list when
\* borTaskPoolDel was called has been run, if the pool was started, and when no
\* thread is left to use it.  (PoolDelProcessesAll is about the other tasks.)
PoolDelComplete ==
  Closed => /\ started => owed \subseteq finished
            /\ \A i \in Threads : pc[i] \in {"none", "exited"}

\* "Waits for all tasks to be processed and then deletes task pool"
\* (task-pool.h), read literally: no accepted task is left unprocessed, neither
\* those of a pool that was not started nor those that callbacks add behind the
\* finishing tasks.
PoolDelProcessesAll == Closed => Accepted \subseteq finished

\* The queue of a thread is a TaskService that runs one task at a time: its
\* tasks are run strictly one after the other, in the order of their addition.
\* What the service does not owe (the tasks of a pool that is deleted unstarted
\* and the late ones) is the subject of PoolDelProcessesAll.
Waiting == Without(tasks[Probe], Finish)
Running == {cur[Probe]} \ (finished \cup {None, Finish})
Done == added[Probe] \cap finished
Phase ==
  IF Closed THEN "closed" ELSE IF Threads \subseteq At("none") THEN "new"
  ELSE IF closing THEN "closing" ELSE "open"
Owed == IF started THEN owed \cap added[Probe] ELSE {}
Service == INSTANCE TaskService WITH
  Width <- 1, Cancellable <- FALSE,
  waiting <- Waiting, running <- Running, done <- Done, phase <- Phase, owed <- Owed
PoolImplementsService == Service!Spec

\* The promises of progress hold as long as every wait was for something that
\* can come: no thread has taken a list head for a task, no task is queued
\* unannounced, and no threads wait for each other's queues.
Astray == ~Defined \/ Unannounced \/ Jammed

\* Every call of a client returns once the pool is started: borTaskPoolAdd finds
\* a place, borTaskPoolBarrier is released, borTaskPoolDel returns, and that of
\* a pool that was not started as well.
InCall(c) == pc[c] \notin {"idle", "closed", "stray"}
CallDue(c) == InCall(c) /\ (started \/ closing)
CallOver(c) == ~InCall(c) \/ Astray
CallsReturn == \A c \in Clients : CallDue(c) ~> CallOver(c)

\* A queued task of a started pool is run, unless deletion began first.
JobDue(j) == j \in Accepted /\ started
JobOver(j) == j \in finished \/ closing \/ Astray
JobsFinish == \A j \in Jobs : JobDue(j) ~> JobOver(j)
============================================================================
