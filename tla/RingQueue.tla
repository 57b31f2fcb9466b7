----------------------------- MODULE RingQueue -----------------------------
(***************************************************************************)
(* The concurrent queue of src/ring_queue.c: a ring buffer under a mutex   *)
(* that doubles when it is about to fill up, with the semaphores full and  *)
(* empty.  Every critical section is one action: no thread blocks while it *)
(* holds the mutex.                                                        *)
(***************************************************************************)
EXTENDS Integers, Sequences, FiniteSets

CONSTANTS
  Producers, Consumers,  \* threads that push, threads that pop
  Elements,              \* pointers that are pushed, each once
  RingSize,              \* ring_size, the argument of borRingQueueInit
  QueueSize,             \* SEM_VALUE_MAX, scaled down
  MaxInterrupts,         \* bound on semaphore waits that return EINTR
  NowNsecs,              \* what tv_nsec of clock_gettime may be
  Waits,                 \* values of time_in_ms
  None,
  Junk                   \* contents of a slot that was never written

Procs == Producers \cup Consumers
NsecPerSec == 1000000000

ConstantsOK ==
  /\ RingSize \in Nat \ {0}
  /\ QueueSize \in Nat \ {0}
  /\ MaxInterrupts \in Nat
  /\ NowNsecs \subseteq 0..(NsecPerSec - 1)
  /\ Waits \subseteq Nat
  /\ Producers \cap Consumers = {}
  /\ IsFiniteSet(Procs)
  /\ None \notin Elements /\ Junk \notin Elements

VARIABLES
  buf, size, head, tail,  \* q->buf, q->size, q->head, q->tail
  full, empty,            \* the semaphores
  pc,                     \* where each thread stands
  item,                   \* what each producer is about to push
  interrupts,             \* interrupted calls so far
  used,                   \* history: elements passed to borRingQueuePush
  delivered               \* history: elements in the order of their removal

\* tv_nsec of the deadline: the milliseconds beyond whole seconds are added to
\* the present tv_nsec, and a sum above one second is carried.
DeadlineNsec(now, ms) ==
  LET nsec == now + (ms % 1000) * 1000000
  IN  IF nsec > NsecPerSec THEN nsec % NsecPerSec ELSE nsec

\* sem_timedwait fails with EINVAL for any other value, if it has to wait.
ValidNsec(nsec) == nsec >= 0 /\ nsec < NsecPerSec

ring == <<buf, size, head, tail>>
sems == <<full, empty>>
history == <<used, delivered>>
vars == <<ring, sems, pc, item, interrupts, history>>

At(l) == {p \in Procs : pc[p] = l}
Goto(p, l) == pc' = [pc EXCEPT ![p] = l]

queueNextId(id, n) == (id + 1) % n

\* Elements in the ring, and the elements from head to tail.
Size == (tail - head) % size
Contents == [i \in 1..Size |-> buf[(head + i - 1) % size]]

\* borRingQueueInit.
Init ==
  /\ buf = [k \in 0..(RingSize - 1) |-> Junk]
  /\ size = RingSize
  /\ head = 0 /\ tail = 0
  /\ full = 0
  /\ empty = QueueSize
  /\ pc = [p \in Procs |-> "idle"]
  /\ item = [p \in Producers |-> None]
  /\ interrupts = 0
  /\ used = {} /\ delivered = <<>>

----------------------------------------------------------------------------
(* borRingQueuePush.                                                       *)

PushCall(p, x) ==
  /\ pc[p] = "idle"
  /\ x \in Elements \ used
  /\ used' = used \cup {x}
  /\ item' = [item EXCEPT ![p] = x]
  /\ Goto(p, "reserve")
  /\ UNCHANGED <<ring, sems, interrupts, delivered>>

\* sem_wait(&q->empty).
Reserve(p) ==
  /\ pc[p] = "reserve"
  /\ empty > 0
  /\ empty' = empty - 1
  /\ Goto(p, "append")
  /\ UNCHANGED <<ring, full, item, interrupts, history>>

\* The ring b, h, t of n slots takes x at its tail.
Store(b, n, h, t, x) ==
  /\ buf' = [b EXCEPT ![t] = x]
  /\ size' = n
  /\ head' = h
  /\ tail' = queueNextId(t, n)

\* queueExtend: the elements are copied to the start of a ring twice as big.
Extended == [k \in 0..(2 * size - 1) |-> IF k < Size THEN buf[(head + k) % size] ELSE Junk]

\* Mutants: the old buffer is copied slot by slot, whatever head is; the ring
\* doubles only when it is already full, which cannot be told from empty.
AppendCopiesSlots(p) ==
  /\ pc[p] = "append"
  /\ \/ /\ queueNextId(tail, size) = head
        /\ Store([k \in 0..(2 * size - 1) |-> IF k < size THEN buf[k] ELSE Junk],
                 2 * size, 0, Size, item[p])
     \/ /\ queueNextId(tail, size) # head
        /\ Store(buf, size, head, tail, item[p])
  /\ Goto(p, "post")
  /\ UNCHANGED <<sems, item, interrupts, history>>
AppendNoCheck(p) ==
  /\ pc[p] = "append"
  /\ Store(buf, size, head, tail, item[p])
  /\ Goto(p, "post")
  /\ UNCHANGED <<sems, item, interrupts, history>>

\* The critical section of borRingQueuePush.
Append1(p) ==
  /\ pc[p] = "append"
  /\ \/ /\ queueNextId(tail, size) = head
        /\ Store(Extended, 2 * size, 0, Size, item[p])
     \/ /\ queueNextId(tail, size) # head
        /\ Store(buf, size, head, tail, item[p])
  /\ Goto(p, "post")
  /\ UNCHANGED <<sems, item, interrupts, history>>

\* Mutant: consumers are told of an element only when it is the first.
PostFirst(p) ==
  /\ pc[p] = "post"
  /\ full' = IF Size > 1 THEN full ELSE full + 1
  /\ item' = [item EXCEPT ![p] = None]
  /\ Goto(p, "idle")
  /\ UNCHANGED <<ring, empty, interrupts, history>>

\* sem_post(&q->full).
Post(p) ==
  /\ pc[p] = "post"
  /\ full' = full + 1
  /\ item' = [item EXCEPT ![p] = None]
  /\ Goto(p, "idle")
  /\ UNCHANGED <<ring, empty, interrupts, history>>

----------------------------------------------------------------------------
(* borRingQueuePop, borRingQueuePopBlock, borRingQueuePopBlockTimeout.     *)

Acquire(c) ==
  /\ full > 0
  /\ full' = full - 1
  /\ Goto(c, "pick")
  /\ UNCHANGED <<ring, empty, item, interrupts, history>>

\* The call returns NULL.
Refuse(c) ==
  /\ Goto(c, "idle")
  /\ UNCHANGED <<ring, sems, item, history>>

\* sem_trywait.
TryPop(c) == pc[c] = "idle" /\ Acquire(c)
TryPopEmpty(c) == pc[c] = "idle" /\ full = 0 /\ Refuse(c) /\ UNCHANGED interrupts

PopBlock(c) ==
  /\ pc[c] = "idle"
  /\ Goto(c, "wait")
  /\ UNCHANGED <<ring, sems, item, interrupts, history>>

\* sem_wait(&q->full).
Wait(c) == pc[c] = "wait" /\ Acquire(c)

\* sem_timedwait, see FifoSem.
TimedPop(c) ==
  /\ pc[c] = "idle" /\ full = 0
  /\ \E now \in NowNsecs, ms \in Waits : ValidNsec(DeadlineNsec(now, ms))
  /\ Goto(c, "timed")
  /\ UNCHANGED <<ring, sems, item, interrupts, history>>
TimedPopInvalid(c) ==
  /\ pc[c] = "idle" /\ full = 0
  /\ \E now \in NowNsecs, ms \in Waits : ~ValidNsec(DeadlineNsec(now, ms))
  /\ Refuse(c) /\ UNCHANGED interrupts
TimedWait(c) == pc[c] = "timed" /\ Acquire(c)
Timeout(c) == pc[c] = "timed" /\ full = 0 /\ Refuse(c) /\ UNCHANGED interrupts

\* A signal ends the wait: borRingQueuePopBlock and its variant with a timeout
\* return NULL, borRingQueuePush does not look at the result.
InterruptPop(c) ==
  /\ interrupts < MaxInterrupts
  /\ interrupts' = interrupts + 1
  /\ pc[c] \in {"wait", "timed"} /\ full = 0
  /\ Refuse(c)
InterruptPush(p) ==
  /\ interrupts < MaxInterrupts
  /\ interrupts' = interrupts + 1
  /\ pc[p] = "reserve" /\ empty = 0
  /\ Goto(p, "append")
  /\ UNCHANGED <<ring, sems, item, history>>

\* Mutant: the head moves on without the wrap at the end of the buffer that
\* was current when the ring was created.
PickOldWrap(c) ==
  /\ pc[c] = "pick"
  /\ head # tail
  /\ delivered' = Append(delivered, buf[head])
  /\ head' = queueNextId(head, RingSize)
  /\ Goto(c, "room")
  /\ UNCHANGED <<buf, size, tail, sems, item, interrupts, used>>

\* queuePost, the critical section: the element at the head, or NULL if there
\* is none.
Pick(c) ==
  /\ pc[c] = "pick"
  /\ \/ /\ head # tail
        /\ delivered' = Append(delivered, buf[head])
        /\ head' = queueNextId(head, size)
     \/ /\ head = tail
        /\ UNCHANGED <<head, delivered>>
  /\ Goto(c, "room")
  /\ UNCHANGED <<buf, size, tail, sems, item, interrupts, used>>

\* sem_post(&q->empty), which fails at the maximal value.
Room(c) ==
  /\ pc[c] = "room"
  /\ empty' = IF empty < QueueSize THEN empty + 1 ELSE empty
  /\ Goto(c, "idle")
  /\ UNCHANGED <<ring, full, item, interrupts, history>>

----------------------------------------------------------------------------
\* Every element was pushed and taken and all consumers are blocked.
Quiescent ==
  /\ used = Elements /\ Producers \subseteq At("idle") /\ Consumers \subseteq At("wait")
  /\ head = tail
  /\ UNCHANGED vars

ProducerStep(p) == Reserve(p) \/ Append1(p) \/ Post(p)
ConsumerStep(c) == Wait(c) \/ TimedWait(c) \/ Timeout(c) \/ Pick(c) \/ Room(c)

Next ==
  \/ \E p \in Producers : \/ ProducerStep(p) \/ InterruptPush(p)
                          \/ \E x \in Elements : PushCall(p, x)
  \/ \E c \in Consumers : \/ ConsumerStep(c) \/ TryPop(c) \/ TryPopEmpty(c) \/ PopBlock(c)
                          \/ TimedPop(c) \/ TimedPopInvalid(c) \/ InterruptPop(c)
  \/ Quiescent

Spec == Init /\ [][Next]_vars

\* Threads inside a call run; whether calls are made is up to the program.
Fairness ==
  /\ \A p \in Producers : WF_vars(ProducerStep(p))
  /\ \A c \in Consumers : WF_vars(ConsumerStep(c))

FairSpec == Spec /\ Fairness
----------------------------------------------------------------------------
(* Properties.                                                             *)

TypeOK ==
  /\ size \in Nat \ {0}
  /\ head \in 0..(size - 1) /\ tail \in 0..(size - 1)
  /\ buf \in [0..(size - 1) -> Elements \cup {Junk}]
  /\ full \in Nat /\ empty \in 0..QueueSize
  /\ pc \in [Procs -> {"idle", "reserve", "append", "post", "wait", "timed", "pick", "room"}]
  /\ item \in [Producers -> Elements \cup {None}]

\* The semaphore full counts the elements of the ring up to the threads that are
\* between it and the ring, so the test head # tail in queuePost never fails and
\* a pop that passed the semaphore never returns NULL.  The semaphore empty
\* counts the room left in the same way, until a signal ends a wait in
\* borRingQueuePush, which then stores without a unit of room.
SemaphoresMatchRing ==
  /\ full + Cardinality(At("pick")) + Cardinality(At("post")) = Size
  /\ interrupts = 0 =>
       empty + Size + Cardinality(At("append")) + Cardinality(At("room")) = QueueSize

\* The elements are delivered in the order in which borRingQueuePush stored
\* them, each once, wherever the ring wraps and doubles, and the ring holds at
\* most QueueSize of them (and one more for each interrupted push).
Line == INSTANCE Queue WITH Capacity <- QueueSize + MaxInterrupts, inside <- Contents
RingImplementsQueue == Line!Spec

\* A consumer blocked in borRingQueuePopBlock does not sleep while an element
\* stays in the ring.
Served ==
  (\E c \in Consumers : pc[c] = "wait") /\ head # tail
    ~> head = tail \/ \A c \in Consumers : pc[c] # "wait"
============================================================================
