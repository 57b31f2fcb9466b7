------------------------------- MODULE Tasks -------------------------------
(***************************************************************************)
(* The shared task queue of src/tasks.c: client threads append tasks to    *)
(* one list, NumThreads worker threads take them from its front.  The list *)
(* and the pending counter are guarded by one mutex; the semaphores full   *)
(* and empty count the tasks that may be taken and the room that is left.  *)
(*                                                                         *)
(* One action is one step between two synchronisation points of the code.  *)
(* A critical section that blocks on nothing else is one action guarded by *)
(* lock = NoProc; the mutex is a variable because borTasksRunBlock holds   *)
(* it while it creates the threads.                                        *)
(***************************************************************************)
EXTENDS Integers, Sequences, FiniteSets, Functions, Filter

CONSTANTS
  NumThreads,        \* num_threads, the argument of borTasksNew
  Clients,           \* threads of the program that call the functions
  Owner,             \* the client that starts and deletes the queue
  Jobs,              \* tasks that may be passed to borTasksAdd, once each
  Spawners,          \* jobs whose callback may itself call borTasksAdd
  QueueSize,         \* QUEUE_SIZE (SEM_VALUE_MAX), scaled down
  MaxRuns,           \* bound on the calls of borTasksRun/borTasksRunBlock
  MaxInterrupts,     \* bound on sem_wait calls that return EINTR
  MaxSpurious,       \* bound on pthread_cond_waits that return unsignalled
  AllowCancel,       \* whether the owner may call borTasksCancelDel
  AllowEmptyRunBlock,\* whether borTasksRunBlock is called with no task added
  Finish, None, NoProc

\* A worker is a created thread: the slot of bor_tasks_t.threads that created
\* it and the call of borTasksRun that did.
Workers == (1..NumThreads) \X (1..MaxRuns)
Procs == Clients \cup Workers
Items == Jobs \cup {Finish}

\* What the module takes for granted about its constants.
ConstantsOK ==
  /\ NumThreads \in Nat \ {0} /\ QueueSize \in Nat \ {0} /\ MaxRuns \in Nat \ {0}
  /\ MaxInterrupts \in Nat /\ MaxSpurious \in Nat
  /\ AllowCancel \in BOOLEAN /\ AllowEmptyRunBlock \in BOOLEAN
  /\ Owner \in Clients
  /\ IsFiniteSet(Clients)
  /\ Clients \cap Workers = {}
  /\ NoProc \notin Procs
  /\ Spawners \subseteq Jobs
  /\ Finish \notin Jobs
  /\ None \notin Items

VARIABLES
  tasks,      \* t->tasks, the list of queued tasks
  full,       \* t->full, semaphore
  empty,      \* t->empty, semaphore
  pending,    \* t->pending
  lock,       \* holder of t->lock, or NoProc
  pc,         \* where each thread stands
  item,       \* task a thread is passing to _borTasksAdd
  cur,        \* task a worker has taken
  runs,       \* calls of borTasksRun so far
  handle,     \* th->th: the run whose thread a slot can join, 0 before the first
  idx,        \* loop counter of the owner in borTasksRun and borTasksDel
  closing,    \* the owner has called borTasksDel or borTasksCancelDel
  used,       \* history: jobs handed to borTasksAdd
  added,      \* history: jobs appended to the list
  finished,   \* history: jobs whose callback has returned
  owed,       \* history: jobs that were in the list when deletion began
  dropped,    \* history: jobs that borTasksCancelDel threw away
  snap,       \* history: unfinished jobs when a client began to wait
  interrupts, \* interrupted sem_wait calls so far
  spurious    \* unsignalled wakeups so far

queue == <<tasks, full, empty, pending, lock>>
history == <<used, added, finished, owed, dropped, snap>>
owner == <<runs, handle, idx, closing>>
faults == <<interrupts, spurious>>
vars == <<queue, pc, item, cur, owner, history, faults>>

At(l) == {p \in Procs : pc[p] = l}
Free == lock = NoProc
Closed == pc[Owner] = "closed"
Goto(p, l) == pc' = [pc EXCEPT ![p] = l]

\* sem_post of a semaphore with value n, where QUEUE_SIZE is the largest value
\* a semaphore has: beyond it sem_post fails, and nobody looks at its result.
Posted(n) == IF n < QueueSize THEN n + 1 ELSE n

----------------------------------------------------------------------------
\* borTasksNew: nothing queued, no thread created yet.
Init ==
  /\ tasks = <<>>
  /\ full = 0
  /\ empty = QueueSize
  /\ pending = 0
  /\ lock = NoProc
  /\ pc = [p \in Procs |-> IF p \in Clients THEN "idle" ELSE "none"]
  /\ item = [p \in Procs |-> None]
  /\ cur = [w \in Workers |-> None]
  /\ runs = 0
  /\ handle = [s \in 1..NumThreads |-> 0]
  /\ idx = 1
  /\ closing = FALSE
  /\ used = {}
  /\ added = {}
  /\ finished = {}
  /\ owed = {}
  /\ dropped = {}
  /\ snap = [c \in Clients |-> {}]
  /\ interrupts = 0 /\ spurious = 0

----------------------------------------------------------------------------
(* _borTasksAdd, called by clients, by callbacks and by borTasksDel.       *)

MayCall(p) ==
  \/ p \in Clients /\ pc[p] = "idle" /\ ~closing
  \/ p \in Workers /\ pc[p] = "run" /\ cur[p] \in Spawners

\* borTasksAdd: a task is created for a job nobody has passed yet.
AddCall(p, j) ==
  /\ MayCall(p)
  /\ j \in Jobs \ used
  /\ used' = used \cup {j}
  /\ item' = [item EXCEPT ![p] = j]
  /\ Goto(p, "reserve")
  /\ UNCHANGED <<queue, cur, owner, added, finished, owed, dropped, snap, faults>>

\* Mutant: the queue is appended to without reserving an item.
ReserveUnchecked(p) ==
  /\ pc[p] = "reserve"
  /\ empty' = empty - 1
  /\ Goto(p, "append")
  /\ UNCHANGED <<tasks, full, pending, lock, item, cur, owner, history, faults>>

\* sem_wait(&t->empty): reserve an item in the queue.
Reserve(p) ==
  /\ pc[p] = "reserve"
  /\ empty > 0
  /\ empty' = empty - 1
  /\ Goto(p, "append")
  /\ UNCHANGED <<tasks, full, pending, lock, item, cur, owner, history, faults>>

\* The wait for a place returns EINTR, which is not looked at: the task is
\* added although there is no room for it.
InterruptReserve(p) ==
  /\ pc[p] = "reserve"
  /\ empty = 0
  /\ interrupts < MaxInterrupts
  /\ interrupts' = interrupts + 1
  /\ Goto(p, "append")
  /\ UNCHANGED <<queue, item, cur, owner, history, spurious>>

\* The critical section that queues the task and counts it.
Append1(p) ==
  /\ pc[p] = "append"
  /\ Free
  /\ tasks' = Append(tasks, item[p])
  /\ pending' = pending + 1
  /\ added' = added \cup ({item[p]} \ {Finish})
  /\ Goto(p, "post")
  /\ UNCHANGED <<full, empty, lock, item, cur, owner, used, finished, owed, dropped, snap, faults>>

\* Where _borTasksAdd returns to.
Caller(p) == IF p \in Workers THEN "run"
             ELSE IF item[p] = Finish THEN "mark" ELSE "idle"

\* Mutant: a task that a callback adds is not announced.
PostClientsOnly(p) ==
  /\ pc[p] = "post"
  /\ full' = IF p \in Clients THEN Posted(full) ELSE full
  /\ item' = [item EXCEPT ![p] = None]
  /\ Goto(p, Caller(p))
  /\ UNCHANGED <<tasks, empty, pending, lock, cur, owner, history, faults>>

\* sem_post(&t->full): unblock a waiting thread.
Post(p) ==
  /\ pc[p] = "post"
  /\ full' = Posted(full)
  /\ item' = [item EXCEPT ![p] = None]
  /\ Goto(p, Caller(p))
  /\ UNCHANGED <<tasks, empty, pending, lock, cur, owner, history, faults>>

----------------------------------------------------------------------------
(* borTasksRun, borTasksRunBlock and borTasksBarrier.                      *)

\* borTasksRun: the owner starts to create one thread per slot.
RunCall ==
  /\ pc[Owner] = "idle" /\ ~closing /\ runs < MaxRuns
  /\ runs' = runs + 1
  /\ idx' = 1
  /\ Goto(Owner, "create")
  /\ UNCHANGED <<queue, item, cur, handle, closing, history, faults>>

\* borTasksRunBlock: the same under the lock, which the wait will release.
RunBlockCall ==
  /\ pc[Owner] = "idle" /\ ~closing /\ runs < MaxRuns
  /\ AllowEmptyRunBlock \/ pending # 0
  /\ Free
  /\ lock' = Owner
  /\ runs' = runs + 1
  /\ idx' = 1
  /\ Goto(Owner, "create")
  /\ UNCHANGED <<tasks, full, empty, pending, item, cur, handle, closing, history, faults>>

\* threadRun: pthread_create stores the new thread in the slot.
CreateThread ==
  /\ pc[Owner] = "create" /\ idx <= NumThreads
  /\ handle' = [handle EXCEPT ![idx] = runs]
  /\ idx' = idx + 1
  /\ Goto(<<idx, runs>>, "wait")
  /\ UNCHANGED <<queue, item, cur, runs, closing, history, faults>>

\* pthread_cond_wait in client c: the lock is released and c sleeps.
CondWait(c) ==
  /\ lock' = NoProc
  /\ snap' = [snap EXCEPT ![c] = added \ finished]
  /\ Goto(c, "blocked")

\* All threads exist: borTasksRun returns, borTasksRunBlock waits.
RunDone ==
  /\ pc[Owner] = "create" /\ idx > NumThreads
  /\ \/ /\ lock # Owner
        /\ Goto(Owner, "idle")
        /\ UNCHANGED <<lock, snap>>
     \/ /\ lock = Owner
        /\ CondWait(Owner)
  /\ UNCHANGED <<tasks, full, empty, pending, item, cur, owner, used, added, finished, owed,
                 dropped, faults>>

\* borTasksBarrier with pending tasks: one wait, not a loop.  (With none it
\* changes nothing.)  Before borTasksRun the owner must not call it: no
\* thread would ever wake it.
BarrierCall(c) ==
  /\ pc[c] = "idle" /\ ~closing /\ (c = Owner => runs > 0)
  /\ Free
  /\ pending # 0
  /\ CondWait(c)
  /\ UNCHANGED <<tasks, full, empty, pending, item, cur, owner, used, added, finished, owed,
                 dropped, faults>>

\* pthread_cond_wait takes the lock again and the caller returns.
Wake(c) ==
  /\ pc[c] = "woken"
  /\ Free
  /\ Goto(c, "idle")
  /\ UNCHANGED <<queue, item, cur, owner, history, faults>>

\* POSIX lets pthread_cond_wait return although nobody signalled.
SpuriousWake(c) ==
  /\ spurious < MaxSpurious
  /\ pc[c] = "blocked"
  /\ spurious' = spurious + 1
  /\ Goto(c, "woken")
  /\ UNCHANGED <<queue, item, cur, owner, history, interrupts>>

----------------------------------------------------------------------------
(* threadMain.                                                             *)

\* Mutant: the worker does not wait for a task.
TakeUnchecked(w) ==
  /\ pc[w] = "wait"
  /\ Free
  /\ full' = IF full > 0 THEN full - 1 ELSE 0
  /\ Goto(w, "pick")
  /\ UNCHANGED <<tasks, empty, pending, lock, item, cur, owner, history, faults>>

\* sem_wait(&tasks->full).
Take(w) ==
  /\ pc[w] = "wait"
  /\ full > 0
  /\ full' = full - 1
  /\ Goto(w, "pick")
  /\ UNCHANGED <<tasks, empty, pending, lock, item, cur, owner, history, faults>>

\* A blocked sem_wait returns EINTR; its result is not looked at.
Interrupt(w) ==
  /\ pc[w] = "wait"
  /\ full = 0
  /\ interrupts < MaxInterrupts
  /\ interrupts' = interrupts + 1
  /\ Goto(w, "pick")
  /\ UNCHANGED <<queue, item, cur, owner, history, spurious>>

\* Mutants: the task stays in the list (borListDel forgotten), and the last
\* task is taken instead of the first.
PickKeeps(w) ==
  /\ pc[w] = "pick" /\ Free /\ tasks # <<>>
  /\ cur' = [cur EXCEPT ![w] = Head(tasks)]
  /\ Goto(w, "room")
  /\ UNCHANGED <<tasks, full, empty, pending, lock, item, owner, history, faults>>
PickLast(w) ==
  /\ pc[w] = "pick" /\ Free /\ tasks # <<>>
  /\ cur' = [cur EXCEPT ![w] = tasks[Len(tasks)]]
  /\ tasks' = SubSeq(tasks, 1, Len(tasks) - 1)
  /\ Goto(w, "room")
  /\ UNCHANGED <<full, empty, pending, lock, item, owner, history, faults>>

\* The critical section that takes the first task.  borListNext of an empty
\* list is the list head itself, which is then used as a task: undefined
\* behaviour, after which nothing is said about the program ("stray").
Pick(w) ==
  /\ pc[w] = "pick"
  /\ Free
  /\ \/ /\ tasks # <<>>
        /\ cur' = [cur EXCEPT ![w] = Head(tasks)]
        /\ tasks' = Tail(tasks)
        /\ Goto(w, "room")
     \/ /\ tasks = <<>>
        /\ pc' = [p \in Procs |-> "stray"]
        /\ UNCHANGED <<tasks, cur>>
  /\ UNCHANGED <<full, empty, pending, lock, item, owner, history, faults>>

\* Mutant: the room is given back only for jobs, not for finishing tasks.
RoomJobsOnly(w) ==
  /\ pc[w] = "room"
  /\ empty' = IF cur[w] = Finish THEN empty ELSE Posted(empty)
  /\ Goto(w, IF cur[w] = Finish THEN "account" ELSE "run")
  /\ UNCHANGED <<tasks, full, pending, lock, item, cur, owner, history, faults>>

\* sem_post(&tasks->empty), then the task says whether to run or to finish.
Room(w) ==
  /\ pc[w] = "room"
  /\ empty' = Posted(empty)
  /\ Goto(w, IF cur[w] = Finish THEN "account" ELSE "run")
  /\ UNCHANGED <<tasks, full, pending, lock, item, cur, owner, history, faults>>

\* The callback returns.
Return(w) ==
  /\ pc[w] = "run"
  /\ finished' = finished \cup {cur[w]}
  /\ Goto(w, "account")
  /\ UNCHANGED <<queue, item, cur, owner, used, added, owed, dropped, snap, faults>>

\* Mutants: waiters are woken when one task is left; finishing tasks are not
\* counted; only one waiter is signalled.
AccountWakesEarly(w) ==
  /\ pc[w] = "account" /\ Free
  /\ pending' = pending - 1
  /\ cur' = [cur EXCEPT ![w] = None]
  /\ pc' = [p \in Procs |->
              IF p = w THEN IF cur[w] = Finish THEN "exited" ELSE "wait"
              ELSE IF pending' <= 1 /\ pc[p] = "blocked" THEN "woken" ELSE pc[p]]
  /\ UNCHANGED <<tasks, full, empty, lock, item, owner, history, faults>>
AccountJobsOnly(w) ==
  /\ pc[w] = "account" /\ Free
  /\ pending' = IF cur[w] = Finish THEN pending ELSE pending - 1
  /\ cur' = [cur EXCEPT ![w] = None]
  /\ pc' = [p \in Procs |->
              IF p = w THEN IF cur[w] = Finish THEN "exited" ELSE "wait"
              ELSE IF pending' = 0 /\ pc[p] = "blocked" THEN "woken" ELSE pc[p]]
  /\ UNCHANGED <<tasks, full, empty, lock, item, owner, history, faults>>
AccountNoBroadcast(w) ==
  /\ pc[w] = "account" /\ Free
  /\ pending' = pending - 1
  /\ cur' = [cur EXCEPT ![w] = None]
  /\ LET wakes == {p \in Clients : pending' = 0 /\ pc[p] = "blocked"} IN
     \E q \in IF wakes = {} THEN {w} ELSE wakes :
       pc' = [pc EXCEPT ![q] = "woken", ![w] = IF cur[w] = Finish THEN "exited" ELSE "wait"]
  /\ UNCHANGED <<tasks, full, empty, lock, item, owner, history, faults>>

\* The last critical section of the loop: one task less is pending, and
\* everybody who waits is woken when that was the last one.
Account(w) ==
  /\ pc[w] = "account"
  /\ Free
  /\ pending' = pending - 1
  /\ cur' = [cur EXCEPT ![w] = None]
  /\ pc' = [p \in Procs |->
              IF p = w THEN IF cur[w] = Finish THEN "exited" ELSE "wait"
              ELSE IF pending' = 0 /\ pc[p] = "blocked" THEN "woken" ELSE pc[p]]
  /\ UNCHANGED <<tasks, full, empty, lock, item, owner, history, faults>>

----------------------------------------------------------------------------
(* borTasksDel and borTasksCancelDel.  The caller must be the last user:   *)
(* every other client is outside the functions, and stays so.              *)

MayDelete ==
  /\ ~closing /\ runs > 0
  /\ \A c \in Clients : pc[c] = "idle"

DelCall ==
  /\ MayDelete
  /\ closing' = TRUE
  /\ owed' = added
  /\ idx' = 1
  /\ Goto(Owner, "mark")
  /\ UNCHANGED <<queue, item, cur, runs, handle, used, added, finished, dropped, snap, faults>>

\* Mutant: the tasks are not taken out of the list.
CancelKeeps ==
  /\ AllowCancel /\ MayDelete /\ Free
  /\ closing' = TRUE
  /\ owed' = added \ Range(tasks)
  /\ dropped' = Range(tasks)
  /\ idx' = 1
  /\ Goto(Owner, "mark")
  /\ UNCHANGED <<queue, item, cur, runs, handle, used, added, finished, snap, faults>>

\* borTasksCancelDel first drops every queued task, and nothing else.
CancelCall ==
  /\ AllowCancel
  /\ MayDelete
  /\ Free
  /\ tasks' = <<>>
  /\ closing' = TRUE
  /\ owed' = added \ Range(tasks)
  /\ dropped' = Range(tasks)
  /\ idx' = 1
  /\ Goto(Owner, "mark")
  /\ UNCHANGED <<full, empty, pending, lock, item, cur, runs, handle, used, added, finished, snap,
                 faults>>

\* Mutant: one finishing task too few.
MarkTooFew ==
  /\ pc[Owner] = "mark"
  /\ \/ /\ idx < NumThreads
        /\ item' = [item EXCEPT ![Owner] = Finish]
        /\ idx' = idx + 1
        /\ Goto(Owner, "reserve")
     \/ /\ idx >= NumThreads
        /\ idx' = 1
        /\ Goto(Owner, "join")
        /\ UNCHANGED item
  /\ UNCHANGED <<queue, cur, runs, handle, closing, history, faults>>

\* One finishing task per slot.
Mark ==
  /\ pc[Owner] = "mark"
  /\ \/ /\ idx <= NumThreads
        /\ item' = [item EXCEPT ![Owner] = Finish]
        /\ idx' = idx + 1
        /\ Goto(Owner, "reserve")
     \/ /\ idx > NumThreads
        /\ idx' = 1
        /\ Goto(Owner, "join")
        /\ UNCHANGED item
  /\ UNCHANGED <<queue, cur, runs, handle, closing, history, faults>>

\* Mutant: the threads are not waited for.
JoinNoWait ==
  /\ pc[Owner] = "join" /\ idx <= NumThreads
  /\ idx' = idx + 1
  /\ UNCHANGED <<queue, pc, item, cur, runs, handle, closing, history, faults>>

\* threadJoin of slot after slot.
Join ==
  /\ pc[Owner] = "join" /\ idx <= NumThreads
  /\ pc[<<idx, handle[idx]>>] = "exited"
  /\ idx' = idx + 1
  /\ UNCHANGED <<queue, pc, item, cur, runs, handle, closing, history, faults>>

\* What is still queued is deleted and the memory is released.
FreeAll ==
  /\ pc[Owner] = "join" /\ idx > NumThreads
  /\ tasks' = <<>>
  /\ Goto(Owner, "closed")
  /\ UNCHANGED <<full, empty, pending, lock, item, cur, owner, history, faults>>

----------------------------------------------------------------------------
\* No thread has used the list head as a task: after that nothing can be said.
Defined == At("stray") = {}

\* Nobody takes tasks any more: the queue is full and every thread that could
\* empty it waits in a callback for a place in it, or is gone.
Jammed ==
  /\ empty = 0 /\ At("reserve") # {} /\ pc[Owner] # "create"
  /\ \A w \in Workers : pc[w] \in {"none", "reserve", "exited"}

\* After an interrupted wait a task was added although there was no room, and
\* its sem_post failed: no worker is going to be woken for the last task.
Unannounced ==
  interrupts > 0 /\ full + Cardinality(At("pick")) + Cardinality(At("post")) < Len(tasks)

\* The queue is gone, or the program has come to where it may stand for ever.
Terminated == (Closed \/ ~Defined \/ Jammed \/ Unannounced) /\ UNCHANGED vars

ClientStep(c) == Reserve(c) \/ Append1(c) \/ Post(c) \/ Wake(c)
OwnerStep == CreateThread \/ RunDone \/ Mark \/ Join \/ FreeAll
WorkerStep(w) ==
  \/ Reserve(w) \/ Append1(w) \/ Post(w)
  \/ Take(w) \/ Pick(w) \/ Room(w) \/ Return(w) \/ Account(w)

Next ==
  \/ \E p \in Procs : InterruptReserve(p) \/ \E j \in Jobs : AddCall(p, j)
  \/ \E c \in Clients : BarrierCall(c) \/ SpuriousWake(c) \/ ClientStep(c)
  \/ \E w \in Workers : Interrupt(w) \/ WorkerStep(w)
  \/ RunCall \/ RunBlockCall \/ DelCall \/ CancelCall
  \/ OwnerStep
  \/ Terminated

Spec == Init /\ [][Next]_vars

\* A thread that can run does run; callbacks return.  Which calls the clients
\* make, signals and spurious wakeups are up to the environment.
Fairness ==
  /\ \A c \in Clients : WF_vars(ClientStep(c))
  /\ \A w \in Workers : WF_vars(WorkerStep(w))
  /\ WF_vars(OwnerStep)

FairSpec == Spec /\ Fairness
----------------------------------------------------------------------------
(* Properties.                                                             *)

Busy == {w \in Workers : cur[w] # None}
Held == {cur[w] : w \in Busy}
Queued == Range(tasks)

ClientPlaces == {"idle", "reserve", "append", "post", "blocked", "woken", "create", "mark", "join",
                 "closed", "stray"}
WorkerPlaces == {"none", "wait", "pick", "room", "run", "reserve", "append", "post", "account",
                 "exited", "stray"}
Places == ClientPlaces \cup WorkerPlaces

QueueType ==
  /\ tasks \in Seq(Items)
  /\ full \in Nat /\ empty \in Nat /\ pending \in Int
  /\ lock \in {NoProc, Owner}
ThreadType ==
  /\ pc \in [Procs -> Places]
  /\ item \in [Procs -> Items \cup {None}]
  /\ cur \in [Workers -> Items \cup {None}]
OwnerType ==
  /\ runs \in 0..MaxRuns
  /\ handle \in [1..NumThreads -> 0..MaxRuns]
  /\ idx \in 1..(NumThreads + 1)
  /\ closing \in BOOLEAN
  /\ interrupts \in 0..MaxInterrupts /\ spurious \in 0..MaxSpurious
HistoryType ==
  /\ used \subseteq Jobs /\ added \subseteq Jobs /\ finished \subseteq Jobs
  /\ owed \subseteq Jobs /\ dropped \subseteq Items
  /\ snap \in [Clients -> SUBSET Jobs]

\* Every variable has its type.
TypeOK == QueueType /\ ThreadType /\ OwnerType /\ HistoryType

\* Without interrupted waits the two semaphores count what the list holds:
\* every queued task is matched by a unit of full, by a worker that has taken
\* its unit and not yet its task, or by a caller that has queued it and not yet
\* posted; every place of the queue by a unit of empty or by a task or a thread
\* that occupies it.  (sem_wait/sem_post in _borTasksAdd and threadMain happen
\* outside the lock.)  The tasks that borTasksCancelDel threw away keep their
\* units of full and their places.
SemaphoresMatchList ==
  Closed \/ ~Defined \/ interrupts > 0 \/
    LET listed == Len(tasks) + Cardinality(dropped)
    IN  /\ full + Cardinality(At("pick")) + Cardinality(At("post")) = listed
        /\ empty + listed + Cardinality(At("room")) + Cardinality(At("append")) = QueueSize

\* A worker that passed sem_wait(&full) finds a task: the pop in threadMain,
\* which does not look whether the list is empty, never takes the list head.
NoStray == Defined

\* Nothing but an interrupted wait or the cancellation of a queued task makes a
\* worker take the list head for a task.
TasksFound == interrupts = 0 /\ dropped = {} => Defined

\* t->pending is the number of tasks queued, in the hands of a worker or thrown
\* away by borTasksCancelDel, so that it reaches 0 exactly when the last worker
\* accounts for the last task, and never after a cancellation.
PendingCountsWork ==
  Closed \/ pending = Len(tasks) + Cardinality(Busy) + Cardinality(dropped)

\* No task is lost and none runs twice: a job that was added is in the list
\* once, or in the hands of one worker, or finished, or was cancelled while it
\* was in the list (a job stays in the hands of its worker until that worker
\* has accounted for it).
EachJobOnce ==
  /\ \A i, k \in DOMAIN tasks : tasks[i] = tasks[k] /\ tasks[i] \in Jobs => i = k
  /\ \A v, w \in Workers : cur[v] = cur[w] /\ cur[v] \in Jobs => v = w
  /\ Queued \cap (Held \cup finished \cup dropped) \subseteq {Finish}
  /\ \A w \in Workers : pc[w] \in {"room", "run"} => cur[w] \notin finished
  /\ dropped \cap (Held \cup finished) = {}
  /\ ~Closed => added = ((Queued \cup Held) \cap Jobs) \cup finished \cup dropped

\* borTasksBarrier and borTasksRunBlock return only after every task that was
\* in the queue when the caller began to wait has been run, as long as no wait
\* returns unsignalled; a borTasksBarrier that finds nothing pending is right
\* not to wait.
BarrierSound ==
  /\ spurious = 0 => \A c \in Clients : pc[c] = "woken" => snap[c] \subseteq finished
  /\ pending = 0 /\ ~Closed => added \subseteq finished

\* borTasksDel releases the memory after every task that was in the queue when
\* it was called has been run, and when no thread is left that could touch it.
DelComplete ==
  Closed => /\ owed \subseteq finished
            /\ \A w \in Workers : pc[w] \in {"none", "exited"}

\* "Waits for all tasks to be processed and then deletes task queue"
\* (tasks.h), read literally: no accepted task is left unprocessed.
DelProcessesAll == Closed => added \subseteq finished

\* The queue implements the abstract service: FIFO start order, at most one
\* running job per created thread, deletion that finishes what is owed, and
\* cancellation that drops the jobs that wait and no other; interrupted and
\* unsignalled waits change none of it.
Working == {w \in Busy : cur[w] \notin finished \cup {Finish}}
Waiting == Without(tasks, Finish)
Running == {cur[w] : w \in Working}
Phase ==
  IF Closed THEN "closed" ELSE IF closing THEN "closing"
  ELSE IF Workers \subseteq At("none") THEN "new" ELSE "open"
Service == INSTANCE TaskService WITH
  Width <- NumThreads * MaxRuns, Cancellable <- TRUE,
  waiting <- Waiting, running <- Running, done <- finished, phase <- Phase
ImplementsService == Service!Spec

\* The promises of progress hold as long as every wait was for something that
\* can come: no worker has taken the list head for a task, no task is queued
\* unannounced, and the workers have not filled the queue themselves.
Astray == ~Defined \/ Unannounced \/ Jammed

\* Every call of a client returns once threads run: a wait on the condition
\* variable is released, borTasksAdd finds a place, borTasksDel and
\* borTasksCancelDel return.  (That a callback which calls borTasksAdd returns
\* as well follows with JobsFinish.)
InCall(c) == pc[c] \notin {"idle", "closed", "stray"}
CallDue(c) == InCall(c) /\ runs > 0
CallOver(c) == ~InCall(c) \/ Astray
CallsReturn == \A c \in Clients : CallDue(c) ~> CallOver(c)

\* A queued task is run once threads exist, whoever added it, unless deletion
\* began first (DelComplete says what deletion still runs).
JobDue(j) == j \in added /\ runs > 0
JobOver(j) == j \in finished \/ closing \/ Astray
JobsFinish == \A j \in Jobs : JobDue(j) ~> JobOver(j)
============================================================================
