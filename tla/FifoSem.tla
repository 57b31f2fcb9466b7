------------------------------ MODULE FifoSem ------------------------------
(***************************************************************************)
(* The concurrent FIFO of src/fifo-sem.c: the segmented buffer of fifo.c   *)
(* under a mutex, with the semaphores full and empty.  Every critical      *)
(* section is one action: no thread blocks while it holds the mutex.       *)
(***************************************************************************)
EXTENDS FifoBuffer, FiniteSets

CONSTANTS
  Producers, Consumers,  \* threads that push, threads that pop
  Elements,              \* values that are pushed, each once
  QueueSize,             \* SEM_VALUE_MAX, scaled down
  MaxInterrupts,         \* bound on sem_wait calls that return EINTR
  NowNsecs,              \* what tv_nsec of clock_gettime may be
  Waits,                 \* values of time_in_ms
  None

Procs == Producers \cup Consumers
NsecPerSec == 1000000000

ASSUME SizeAssumption ==
  /\ QueueSize \in Nat \ {0}
  /\ MaxInterrupts \in Nat
  /\ NowNsecs \subseteq 0..(NsecPerSec - 1)
  /\ Waits \subseteq Nat

ASSUME NameAssumption ==
  /\ Producers \cap Consumers = {}
  /\ IsFiniteSet(Procs)
  /\ None \notin Elements

VARIABLES
  fifo,        \* fifo->fifo
  full, empty, \* the semaphores
  pc,          \* where each thread stands
  item,        \* what each producer is about to push
  interrupts,  \* interrupted calls so far
  used,        \* history: elements passed to borFifoSemPush
  delivered    \* history: elements in the order in which they were removed

\* tv_nsec of the deadline: the milliseconds beyond whole seconds are added to
\* the present tv_nsec, and a sum above one second is carried.
DeadlineNsec(now, ms) ==
  LET nsec == now + (ms % 1000) * 1000000
  IN  IF nsec > NsecPerSec THEN nsec % NsecPerSec ELSE nsec

\* sem_timedwait fails with EINVAL for any other value, if it has to wait.
ValidNsec(nsec) == nsec >= 0 /\ nsec < NsecPerSec

sems == <<full, empty>>
history == <<used, delivered>>
vars == <<fifo, sems, pc, item, interrupts, history>>

At(l) == {p \in Procs : pc[p] = l}
Goto(p, l) == pc' = [pc EXCEPT ![p] = l]

\* borFifoSemInitSize.
Init ==
  /\ fifo = EmptyFifo
  /\ full = 0
  /\ empty = QueueSize
  /\ pc = [p \in Procs |-> "idle"]
  /\ item = [p \in Producers |-> None]
  /\ interrupts = 0
  /\ used = {} /\ delivered = <<>>

----------------------------------------------------------------------------
(* borFifoSemPush.                                                         *)

PushCall(p, x) ==
  /\ pc[p] = "idle"
  /\ x \in Elements \ used
  /\ used' = used \cup {x}
  /\ item' = [item EXCEPT ![p] = x]
  /\ Goto(p, "reserve")
  /\ UNCHANGED <<fifo, sems, interrupts, delivered>>

\* Mutant: no place is reserved.
ReserveUnchecked(p) ==
  /\ pc[p] = "reserve"
  /\ empty' = empty - 1
  /\ Goto(p, "append")
  /\ UNCHANGED <<fifo, full, item, interrupts, history>>

\* sem_wait(&fifo->empty).
Reserve(p) ==
  /\ pc[p] = "reserve"
  /\ empty > 0
  /\ empty' = empty - 1
  /\ Goto(p, "append")
  /\ UNCHANGED <<fifo, full, item, interrupts, history>>

Append1(p) ==
  /\ pc[p] = "append"
  /\ fifo' = Push(fifo, item[p])
  /\ Goto(p, "post")
  /\ UNCHANGED <<sems, item, interrupts, history>>

\* Mutant: consumers are only told of the first element.
PostFirst(p) ==
  /\ pc[p] = "post"
  /\ full' = IF Size(fifo) > 1 THEN full ELSE full + 1
  /\ item' = [item EXCEPT ![p] = None]
  /\ Goto(p, "idle")
  /\ UNCHANGED <<fifo, empty, interrupts, history>>

\* sem_post(&fifo->full).
Post(p) ==
  /\ pc[p] = "post"
  /\ full' = full + 1
  /\ item' = [item EXCEPT ![p] = None]
  /\ Goto(p, "idle")
  /\ UNCHANGED <<fifo, empty, interrupts, history>>

----------------------------------------------------------------------------
(* borFifoSemPop, borFifoSemPopBlock, borFifoSemPopBlockTimeout.           *)

\* A semaphore unit is taken and the consumer goes on to popPost.
Acquire(c) ==
  /\ full > 0
  /\ full' = full - 1
  /\ Goto(c, "pick")
  /\ UNCHANGED <<fifo, empty, item, interrupts, history>>

\* The call returns -1.
Refuse(c) ==
  /\ Goto(c, "idle")
  /\ UNCHANGED <<fifo, sems, item, interrupts, history>>

\* sem_trywait.
TryPop(c) == pc[c] = "idle" /\ Acquire(c)
TryPopEmpty(c) == pc[c] = "idle" /\ full = 0 /\ Refuse(c)

PopBlock(c) ==
  /\ pc[c] = "idle"
  /\ Goto(c, "wait")
  /\ UNCHANGED <<fifo, sems, item, interrupts, history>>

\* sem_wait(&fifo->full).
Wait(c) == pc[c] = "wait" /\ Acquire(c)

\* sem_timedwait takes a unit if there is one, whatever the deadline; else it
\* blocks until the deadline, and at once refuses one that is not a time.
TimedPop(c) ==
  /\ pc[c] = "idle" /\ full = 0
  /\ \E now \in NowNsecs, ms \in Waits :
       /\ ValidNsec(DeadlineNsec(now, ms))
       /\ Goto(c, "timed")
  /\ UNCHANGED <<fifo, sems, item, interrupts, history>>
TimedPopInvalid(c) ==
  /\ pc[c] = "idle" /\ full = 0
  /\ \E now \in NowNsecs, ms \in Waits : ~ValidNsec(DeadlineNsec(now, ms))
  /\ Refuse(c)
TimedWait(c) == pc[c] = "timed" /\ Acquire(c)
Timeout(c) == pc[c] = "timed" /\ full = 0 /\ Refuse(c)

\* A signal ends the wait; borFifoSemPopBlock and borFifoSemPush go on as if
\* they had the unit, borFifoSemPopBlockTimeout looks at the result.
Interrupt(p) ==
  /\ interrupts < MaxInterrupts
  /\ interrupts' = interrupts + 1
  /\ \/ pc[p] = "wait" /\ full = 0 /\ Goto(p, "pick")
     \/ pc[p] = "reserve" /\ empty = 0 /\ Goto(p, "append")
     \/ pc[p] = "timed" /\ full = 0 /\ Goto(p, "idle")
  /\ UNCHANGED <<fifo, sems, item, history>>

\* popPost, the critical section: the front is copied and removed.  With an
\* empty buffer the copy is from NULL, and nothing is said about what follows.
Pick(c) ==
  /\ pc[c] = "pick"
  /\ \/ /\ ~IsEmpty(fifo)
        /\ delivered' = Append(delivered, Front(fifo))
        /\ fifo' = Pop(fifo)
        /\ Goto(c, "room")
     \/ /\ IsEmpty(fifo)
        /\ pc' = [p \in Procs |-> "stray"]
        /\ UNCHANGED <<fifo, delivered>>
  /\ UNCHANGED <<sems, item, interrupts, used>>

\* Mutant: the room is given back only while consumers find the queue empty.
RoomIfDrained(c) ==
  /\ pc[c] = "room"
  /\ empty' = IF IsEmpty(fifo) THEN empty + 1 ELSE empty
  /\ Goto(c, "idle")
  /\ UNCHANGED <<fifo, full, item, interrupts, history>>

\* popPost: sem_post(&fifo->empty), which fails at the maximal value.
Room(c) ==
  /\ pc[c] = "room"
  /\ empty' = IF empty < QueueSize THEN empty + 1 ELSE empty
  /\ Goto(c, "idle")
  /\ UNCHANGED <<fifo, full, item, interrupts, history>>

----------------------------------------------------------------------------
\* Nothing is left to do: every element was pushed and taken and all consumers
\* are blocked in borFifoSemPopBlock; or a consumer read from NULL.
Quiescent ==
  /\ \/ used = Elements /\ Producers \subseteq At("idle") /\ Consumers \subseteq At("wait")
        /\ IsEmpty(fifo)
     \/ At("stray") # {}
  /\ UNCHANGED vars

ProducerStep(p) == Reserve(p) \/ Append1(p) \/ Post(p)
ConsumerStep(c) == Wait(c) \/ TimedWait(c) \/ Timeout(c) \/ Pick(c) \/ Room(c)

Next ==
  \/ \E p \in Producers : ProducerStep(p) \/ \E x \in Elements : PushCall(p, x)
  \/ \E c \in Consumers : \/ ConsumerStep(c) \/ TryPop(c) \/ TryPopEmpty(c) \/ PopBlock(c)
                          \/ TimedPop(c) \/ TimedPopInvalid(c)
  \/ \E p \in Procs : Interrupt(p)
  \/ Quiescent

Spec == Init /\ [][Next]_vars

\* Threads inside a call run; whether calls are made is up to the program.
Fairness ==
  /\ \A p \in Producers : WF_vars(ProducerStep(p))
  /\ \A c \in Consumers : WF_vars(ConsumerStep(c))

FairSpec == Spec /\ Fairness
----------------------------------------------------------------------------
(* Properties.                                                             *)

TypeOK ==
  /\ WellFormed(fifo)
  /\ full \in Nat /\ empty \in 0..QueueSize
  /\ pc \in [Procs -> {"idle", "reserve", "append", "post", "wait", "timed", "pick", "room", "stray"}]
  /\ item \in [Producers -> Elements \cup {None}]
  /\ interrupts \in 0..MaxInterrupts

\* The semaphores count the elements and the room of the buffer, up to the
\* threads that are between the semaphore and the buffer; so popPost, which
\* does not look whether the buffer is empty, never copies from NULL, unless
\* a signal ended a wait.
SemaphoresMatchBuffer ==
  interrupts = 0 =>
    /\ At("stray") = {}
    /\ full + Cardinality(At("pick")) + Cardinality(At("post")) = Size(fifo)
    /\ empty + Size(fifo) + Cardinality(At("append")) + Cardinality(At("room")) = QueueSize

\* The elements are delivered in the order in which borFifoSemPush stored them,
\* each once, over growing and released segments, and the buffer holds at most
\* QueueSize of them (and one more for each interrupted push).
Line == INSTANCE Queue WITH Capacity <- QueueSize + MaxInterrupts, inside <- Contents(fifo)
ImplementsQueue == Line!Spec

\* A consumer blocked in borFifoSemPopBlock does not sleep while an element
\* stays in the queue (until one reads from NULL).
Served ==
  (\E c \in Consumers : pc[c] = "wait") /\ ~IsEmpty(fifo)
    ~> IsEmpty(fifo) \/ \A c \in Consumers : pc[c] # "wait"

\* A blocked borFifoSemPush goes on as long as consumers make room.
Unblocked ==
  \A p \in Producers :
    pc[p] = "reserve" ~> \/ pc[p] = "append" \/ At("stray") # {}
                         \/ Size(fifo) >= QueueSize /\ Consumers \subseteq At("idle")
============================================================================
