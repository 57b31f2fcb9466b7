---------------------------- MODULE TasksProofs ----------------------------
(***************************************************************************)
(* Proofs about Tasks, for every number of threads, clients and jobs and   *)
(* every size of the queue.                                                *)
(***************************************************************************)
EXTENDS MCTasks, FiniteSetTheorems, TLAPS

Calling == {"reserve", "append", "post"}

\* A client and a worker stand at different places of the code.
PcOK ==
  /\ \A c \in Clients : pc[c] \in ClientPlaces
  /\ \A w \in Workers : pc[w] \in WorkerPlaces

\* What a thread carries agrees with where it stands.
CarryOK ==
  /\ \A p \in Procs : pc[p] \in Calling => item[p] \in Items
  /\ \A w \in Workers : /\ pc[w] \in {"room", "account"} => cur[w] \in Items
                        /\ pc[w] \in Calling \cup {"run"} => cur[w] \in Jobs
                        /\ pc[w] \in {"none", "wait", "pick", "exited"} => cur[w] = None

\* The threads the owner is still to create do not exist yet.
FreshOK ==
  /\ pc[Owner] = "create" => runs > 0
  /\ \A s \in 1..NumThreads, r \in 1..MaxRuns :
       \/ r > runs
       \/ pc[Owner] = "create" /\ r = runs /\ s >= idx
       => pc[<<s, r>>] \in {"none", "stray"}

\* Undefined behaviour strikes the whole program.
StrayOK == \A p, q \in Procs : pc[p] = "stray" => pc[q] = "stray"

Typed == TypeOK /\ PcOK /\ CarryOK /\ FreshOK /\ StrayOK

\* One disjunct of Next, for some thread.
Procedure ==
  \/ \E p \in Procs : \/ \E j \in Jobs : AddCall(p, j)
                      \/ Reserve(p) \/ InterruptReserve(p) \/ Append1(p) \/ Post(p)
  \/ \E c \in Clients : BarrierCall(c) \/ SpuriousWake(c) \/ Wake(c)
  \/ \E w \in Workers : Interrupt(w) \/ Take(w) \/ Pick(w) \/ Room(w) \/ Return(w) \/ Account(w)
  \/ RunCall \/ RunBlockCall \/ DelCall \/ CancelCall
  \/ CreateThread \/ RunDone \/ Mark \/ Join \/ FreeAll
  \/ Terminated

\* Every step of the next-state relation is one of the procedures' steps above.
LEMMA NextCases == Next => Procedure
BY DEF Next, Procedure, ClientStep, OwnerStep, WorkerStep, Procs

USE DEF ConstantsOK

----------------------------------------------------------------------------
(* Type correctness.                                                       *)

\* The types hold at the start.
LEMMA InitTyped == ASSUME ConstantsOK PROVE Init => Typed
<1> SUFFICES ASSUME Init PROVE Typed
  OBVIOUS
<1> USE DEF Init, Procs, Items, Places, ClientPlaces, WorkerPlaces
<1>1. QueueType
  BY DEF QueueType
<1>2. ThreadType
  BY DEF ThreadType
<1>3. OwnerType
  <2>1. runs = 0 /\ idx = 1 /\ interrupts = 0 /\ spurious = 0 /\ closing \in BOOLEAN
    OBVIOUS
  <2>2. handle \in [1..NumThreads -> 0..MaxRuns]
    OBVIOUS
  <2> HIDE DEF Init
  <2>3. /\ runs \in 0..MaxRuns /\ idx \in 1..(NumThreads + 1)
        /\ interrupts \in 0..MaxInterrupts /\ spurious \in 0..MaxSpurious
    BY <2>1
  <2> QED
    BY <2>1, <2>2, <2>3 DEF OwnerType
<1>4. HistoryType
  BY DEF HistoryType
<1>5. PcOK /\ CarryOK
  BY DEF PcOK, CarryOK, Calling
<1>6. FreshOK /\ StrayOK
  BY DEF FreshOK, StrayOK, Workers
<1> QED
  BY <1>1, <1>2, <1>3, <1>4, <1>5, <1>6 DEF Typed, TypeOK

\* _th takes the first task out of the list: the types and places stay right.
LEMMA PickTyped == ASSUME ConstantsOK, Typed, NEW w \in Workers, Pick(w) PROVE Typed'
<1> USE DEF Pick, owner, history, faults
<1>0. /\ QueueType /\ ThreadType /\ OwnerType /\ HistoryType /\ PcOK /\ CarryOK /\ FreshOK
      /\ StrayOK /\ w \in Procs
  BY DEF Typed, TypeOK, Procs
<1>1. CASE tasks # <<>>
  <2>1. pc[w] = "pick" /\ pc' = [pc EXCEPT ![w] = "room"]
    BY <1>1 DEF Goto
  <2>2. cur' = [cur EXCEPT ![w] = Head(tasks)] /\ tasks' = Tail(tasks) /\ item' = item
    BY <1>1
  <2>3. Head(tasks) \in Items /\ Tail(tasks) \in Seq(Items)
    BY <1>0, <1>1 DEF QueueType
  <2>4. QueueType'
    BY <1>0, <2>2, <2>3 DEF QueueType
  <2>5. ThreadType'
    BY <1>0, <2>1, <2>2, <2>3 DEF ThreadType, Places, WorkerPlaces
  <2>6. OwnerType' /\ HistoryType'
    BY <1>0 DEF OwnerType, HistoryType
  <2>7. PcOK'
    BY <1>0, <2>1 DEF PcOK, ThreadType, WorkerPlaces, Procs
  <2>8. CarryOK'
    BY <1>0, <2>1, <2>2, <2>3 DEF CarryOK, ThreadType, Calling, Procs
  <2>9. FreshOK' /\ StrayOK'
    BY <1>0, <2>1 DEF FreshOK, StrayOK, ThreadType, Procs, Workers
  <2> QED
    BY <2>4, <2>5, <2>6, <2>7, <2>8, <2>9 DEF Typed, TypeOK
<1>2. CASE tasks = <<>>
  <2>1. pc' = [p \in Procs |-> "stray"] /\ UNCHANGED <<tasks, cur, item>>
    BY <1>2
  <2>2. QueueType' /\ ThreadType' /\ OwnerType' /\ HistoryType'
    <3>1. QueueType' /\ ThreadType'
      BY <1>0, <2>1 DEF QueueType, ThreadType, Places, ClientPlaces
    <3>2. OwnerType' /\ HistoryType'
      BY <1>0 DEF OwnerType, HistoryType
    <3> QED
      BY <3>1, <3>2
  <2>3. PcOK' /\ CarryOK' /\ FreshOK' /\ StrayOK'
    BY <2>1 DEF PcOK, CarryOK, FreshOK, StrayOK, Procs, Workers, Calling, ClientPlaces, WorkerPlaces
  <2> QED
    BY <2>2, <2>3 DEF Typed, TypeOK
<1> QED
  BY <1>1, <1>2

\* A thread accounts for its task: the types and places stay right.
LEMMA AccountTyped == ASSUME ConstantsOK, Typed, NEW w \in Workers, Account(w) PROVE Typed'
<1>0. /\ QueueType /\ ThreadType /\ OwnerType /\ HistoryType /\ PcOK /\ CarryOK /\ FreshOK
      /\ StrayOK /\ w \in Procs
  BY DEF Typed, TypeOK, Procs
<1>1. \A p \in Procs : \/ pc'[p] = pc[p]
                       \/ p = w /\ pc'[p] \in {"exited", "wait"}
                       \/ pc[p] = "blocked" /\ pc'[p] = "woken"
  BY DEF Account
<1>2. pc[w] = "account" /\ cur' = [cur EXCEPT ![w] = None] /\ item' = item
  BY DEF Account
<1>3. pc'[w] \in {"exited", "wait"}
  BY <1>0 DEF Account
<1>4. QueueType'
  BY <1>0 DEF Account, QueueType
<1>5. ThreadType'
  <2>1. pc' \in [Procs -> Places]
    BY <1>0, <1>1 DEF Account, ThreadType, Places, WorkerPlaces, ClientPlaces
  <2> QED
    BY <1>0, <1>2, <2>1 DEF ThreadType
<1>6. OwnerType' /\ HistoryType'
  BY <1>0 DEF Account, OwnerType, HistoryType, owner, history, faults
<1>7. PcOK'
  BY <1>0, <1>1 DEF PcOK, ClientPlaces, WorkerPlaces, Procs
<1>8. CarryOK'
  BY <1>0, <1>1, <1>2, <1>3 DEF CarryOK, PcOK, WorkerPlaces, ThreadType, Calling, Procs
<1>9. FreshOK' /\ StrayOK'
  BY <1>0, <1>1, <1>2, <1>3 DEF FreshOK, StrayOK, PcOK, WorkerPlaces, Account, owner, Procs, Workers
<1> QED
  BY <1>4, <1>5, <1>6, <1>7, <1>8, <1>9 DEF Typed, TypeOK

\* borTasksRun has created its threads: the types and places stay right.
LEMMA RunDoneTyped == ASSUME ConstantsOK, Typed, RunDone PROVE Typed'
<1>0. /\ QueueType /\ ThreadType /\ OwnerType /\ HistoryType /\ PcOK /\ CarryOK /\ FreshOK
      /\ StrayOK /\ Owner \in Procs
  BY DEF Typed, TypeOK, Procs
<1>1. pc[Owner] = "create" /\ \E l \in {"idle", "blocked"} : pc' = [pc EXCEPT ![Owner] = l]
  BY DEF RunDone, Goto, CondWait
<1>2. QueueType'
  BY <1>0 DEF QueueType, RunDone, CondWait
<1>3. ThreadType'
  BY <1>0, <1>1 DEF ThreadType, RunDone, Places, ClientPlaces
<1>4. OwnerType'
  BY <1>0 DEF OwnerType, RunDone, owner, faults
<1>5. HistoryType'
  BY <1>0 DEF HistoryType, RunDone, CondWait
<1>6. PcOK'
  BY <1>0, <1>1 DEF PcOK, ThreadType, ClientPlaces, Procs
<1>7. CarryOK'
  BY <1>0, <1>1 DEF CarryOK, ThreadType, RunDone, Calling, Procs
<1>8. FreshOK' /\ StrayOK'
  BY <1>0, <1>1 DEF FreshOK, StrayOK, ThreadType, RunDone, owner, Procs, Workers
<1> QED
  BY <1>2, <1>3, <1>4, <1>5, <1>6, <1>7, <1>8 DEF Typed, TypeOK

\* The owner has put its finishing tasks into the list and waits for the threads.
LEMMA MarkTyped == ASSUME ConstantsOK, Typed, Mark PROVE Typed'
<1>0. /\ QueueType /\ ThreadType /\ OwnerType /\ HistoryType /\ PcOK /\ CarryOK /\ FreshOK
      /\ StrayOK /\ Owner \in Procs
  BY DEF Typed, TypeOK, Procs
<1>1. /\ pc[Owner] = "mark"
      /\ \/ pc' = [pc EXCEPT ![Owner] = "reserve"] /\ item' = [item EXCEPT ![Owner] = Finish]
         \/ pc' = [pc EXCEPT ![Owner] = "join"] /\ item' = item
  BY DEF Mark, Goto
<1>2. QueueType'
  BY <1>0 DEF QueueType, Mark, queue
<1>3. ThreadType'
  BY <1>0, <1>1 DEF ThreadType, Mark, Places, ClientPlaces, Items
<1>4. OwnerType'
  BY <1>0 DEF OwnerType, Mark, faults
<1>5. HistoryType'
  BY <1>0 DEF HistoryType, Mark, history
<1>6. PcOK'
  BY <1>0, <1>1 DEF PcOK, ThreadType, ClientPlaces, Procs
<1>7. CarryOK'
  BY <1>0, <1>1 DEF CarryOK, ThreadType, Mark, Calling, Procs, Items
<1>8. FreshOK' /\ StrayOK'
  BY <1>0, <1>1 DEF FreshOK, StrayOK, ThreadType, Mark, Procs, Workers
<1> QED
  BY <1>2, <1>3, <1>4, <1>5, <1>6, <1>7, <1>8 DEF Typed, TypeOK

\* Every step keeps the types, the places and what each thread carries.
LEMMA StepTyped == ASSUME ConstantsOK PROVE Typed /\ [Next]_vars => Typed'
<1> SUFFICES ASSUME Typed, [Next]_vars PROVE Typed'
  OBVIOUS
<1> USE DEF Typed, TypeOK, QueueType, ThreadType, OwnerType, HistoryType, PcOK, CarryOK, FreshOK,
            StrayOK, Calling, Procs, Items, queue, history, owner, faults, vars, Goto, Free, Places,
            ClientPlaces, WorkerPlaces
<1>1. ASSUME NEW p \in Procs, NEW j \in Jobs, AddCall(p, j) PROVE Typed'
  BY <1>1 DEF AddCall, MayCall
<1>2. ASSUME NEW p \in Procs, Reserve(p) PROVE Typed'
  BY <1>2 DEF Reserve
<1>24. ASSUME NEW p \in Procs, InterruptReserve(p) PROVE Typed'
  BY <1>24 DEF InterruptReserve
<1>3. ASSUME NEW p \in Procs, Append1(p) PROVE Typed'
  BY <1>3 DEF Append1
<1>4. ASSUME NEW p \in Procs, Post(p) PROVE Typed'
  BY <1>4 DEF Post, Caller, Posted
<1>5. ASSUME NEW c \in Clients, BarrierCall(c) PROVE Typed'
  BY <1>5 DEF BarrierCall, CondWait
<1>6. ASSUME NEW c \in Clients, SpuriousWake(c) PROVE Typed'
  BY <1>6 DEF SpuriousWake
<1>7. ASSUME NEW c \in Clients, Wake(c) PROVE Typed'
  BY <1>7 DEF Wake
<1>8. ASSUME NEW w \in Workers, Interrupt(w) PROVE Typed'
  BY <1>8 DEF Interrupt
<1>9. ASSUME NEW w \in Workers, Take(w) PROVE Typed'
  BY <1>9 DEF Take
<1>10. ASSUME NEW w \in Workers, Pick(w) PROVE Typed'
  BY <1>10, PickTyped
<1>11. ASSUME NEW w \in Workers, Room(w) PROVE Typed'
  BY <1>11 DEF Room, Posted
<1>12. ASSUME NEW w \in Workers, Return(w) PROVE Typed'
  BY <1>12 DEF Return
<1>13. ASSUME NEW w \in Workers, Account(w) PROVE Typed'
  BY <1>13, AccountTyped
<1>14. ASSUME RunCall PROVE Typed'
  BY <1>14 DEF RunCall
<1>15. ASSUME RunBlockCall PROVE Typed'
  BY <1>15 DEF RunBlockCall
<1>16. ASSUME DelCall PROVE Typed'
  BY <1>16 DEF DelCall, MayDelete
<1>17. ASSUME CancelCall PROVE Typed'
  <2>1. QueueType'
    BY <1>17 DEF CancelCall, MayDelete, Range
  <2>2. ThreadType'
    BY <1>17 DEF CancelCall, MayDelete, Range
  <2>3. OwnerType' /\ HistoryType'
    BY <1>17 DEF CancelCall, MayDelete, Range
  <2>4. PcOK'
    BY <1>17 DEF CancelCall, MayDelete, Range
  <2>5. CarryOK'
    BY <1>17 DEF CancelCall, MayDelete, Range
  <2>6. FreshOK' /\ StrayOK'
    BY <1>17 DEF CancelCall, MayDelete, Range
  <2> QED
    BY <2>1, <2>2, <2>3, <2>4, <2>5, <2>6
<1>18. ASSUME CreateThread PROVE Typed'
  <2>1. QueueType'
    BY <1>18 DEF CreateThread, Workers
  <2>2. ThreadType'
    BY <1>18 DEF CreateThread, Workers
  <2>3. OwnerType' /\ HistoryType'
    BY <1>18 DEF CreateThread, Workers
  <2>4. PcOK'
    BY <1>18 DEF CreateThread, Workers
  <2>5. CarryOK'
    BY <1>18 DEF CreateThread, Workers
  <2>6. FreshOK' /\ StrayOK'
    BY <1>18 DEF CreateThread, Workers
  <2> QED
    BY <2>1, <2>2, <2>3, <2>4, <2>5, <2>6
<1>19. ASSUME RunDone PROVE Typed'
  BY <1>19, RunDoneTyped
<1>20. ASSUME Mark PROVE Typed'
  BY <1>20, MarkTyped
<1>21. ASSUME Join PROVE Typed'
  BY <1>21 DEF Join
<1>22. ASSUME FreeAll PROVE Typed'
  BY <1>22 DEF FreeAll
<1>23. ASSUME UNCHANGED vars PROVE Typed'
  BY <1>23
<1> QED
  BY <1>1, <1>2, <1>3, <1>4, <1>5, <1>6, <1>7, <1>8, <1>9, <1>10, <1>11, <1>12, <1>13, <1>14,
     <1>15, <1>16, <1>17, <1>18, <1>19, <1>20, <1>21, <1>22, <1>23, <1>24, NextCases
  DEF Procedure, Terminated

\* Every variable keeps its type, whatever the constants are.
THEOREM TypeCorrect == ASSUME ConstantsOK PROVE Spec => []TypeOK
<1>1. Spec => []Typed
  BY InitTyped, StepTyped, PTL DEF Spec
<1> QED
  BY <1>1, PTL DEF Typed

----------------------------------------------------------------------------
(* The life of the threads when the queue is started once.                 *)

\* Where the owner stands says whether deletion began, which threads exist
\* and which of them are known to be gone.
Life ==
  pc[Owner] # "stray" =>
    /\ closing <=> \/ pc[Owner] \in {"mark", "join", "closed"}
                   \/ pc[Owner] \in Calling /\ item[Owner] = Finish
    /\ closing => runs = 1
    /\ \A s \in 1..NumThreads :
         \/ runs = 0
         \/ pc[Owner] = "create" /\ s >= idx
         \/ handle[s] = 1
    /\ pc[Owner] = "join" => \A s \in 1..NumThreads : s < idx => pc[<<s, 1>>] = "exited"
    /\ Closed => \A w \in Workers : pc[w] = "exited"

\* A thread other than the owner goes on.
LEMMA OtherMove ==
  ASSUME ConstantsOK, Typed, Life, MaxRuns = 1, NEW p \in Procs \ {Owner}, NEW l,
         pc[p] # "exited", pc' = [pc EXCEPT ![p] = l],
         item'[Owner] = item[Owner], UNCHANGED owner
  PROVE  Life'
<1>1. pc'[Owner] = pc[Owner]
  BY DEF Typed, TypeOK, ThreadType, Procs
<1>2. \A w \in Workers : pc[w] = "exited" => pc'[w] = "exited"
  BY DEF Typed, TypeOK, ThreadType, Procs
<1>3. \A s \in 1..NumThreads : <<s, 1>> \in Workers
  BY DEF Workers
<1> QED
  BY <1>1, <1>2, <1>3 DEF Life, Closed, owner

\* Every step keeps the order of the queue's life, when it is started once.
LEMMA StepLife == ASSUME ConstantsOK, MaxRuns = 1 PROVE Typed /\ Life /\ [Next]_vars => Life'
<1> SUFFICES ASSUME Typed, Life, [Next]_vars PROVE Life'
  OBVIOUS
<1>0. /\ QueueType /\ ThreadType /\ OwnerType /\ PcOK /\ CarryOK /\ FreshOK /\ StrayOK
      /\ Owner \in Procs /\ Workers \subseteq Procs /\ Clients \subseteq Procs
      /\ Owner \notin Workers /\ runs \in {0, 1}
      /\ \A s \in 1..NumThreads : <<s, 1>> \in Workers
      /\ \A w \in Workers : \E s \in 1..NumThreads : w = <<s, 1>>
  BY DEF Typed, TypeOK, Procs, OwnerType, Workers
<1>1. ASSUME NEW p \in Procs, NEW j \in Jobs, AddCall(p, j) PROVE Life'
  <2>1. /\ pc[p] \in {"idle", "run"} /\ (p = Owner => ~closing)
        /\ pc' = [pc EXCEPT ![p] = "reserve"]
        /\ item' = [item EXCEPT ![p] = j] /\ UNCHANGED owner /\ j # Finish
    BY <1>1, <1>0 DEF AddCall, MayCall, Goto
  <2>2. CASE p # Owner
    BY <1>0, <2>1, <2>2, OtherMove DEF ThreadType
  <2>3. CASE p = Owner
    BY <1>0, <2>1, <2>3 DEF Life, ThreadType, Closed, Calling, owner, Procs
  <2> QED
    BY <2>2, <2>3
<1>2. ASSUME NEW p \in Procs, Reserve(p) \/ InterruptReserve(p) PROVE Life'
  <2>1. /\ pc[p] = "reserve" /\ pc' = [pc EXCEPT ![p] = "append"]
        /\ UNCHANGED <<item, owner>>
    BY <1>2 DEF Reserve, InterruptReserve, Goto
  <2>2. CASE p # Owner
    BY <1>0, <2>1, <2>2, OtherMove
  <2>3. CASE p = Owner
    BY <1>0, <2>1, <2>3 DEF Life, ThreadType, Closed, Calling, owner
  <2> QED
    BY <2>2, <2>3
<1>3. ASSUME NEW p \in Procs, Append1(p) PROVE Life'
  <2>1. /\ pc[p] = "append" /\ pc' = [pc EXCEPT ![p] = "post"]
        /\ UNCHANGED <<item, owner>>
    BY <1>3 DEF Append1, Goto
  <2>2. CASE p # Owner
    BY <1>0, <2>1, <2>2, OtherMove
  <2>3. CASE p = Owner
    BY <1>0, <2>1, <2>3 DEF Life, ThreadType, Closed, Calling, owner
  <2> QED
    BY <2>2, <2>3
<1>4. ASSUME NEW p \in Procs, Post(p) PROVE Life'
  <2>1. /\ pc[p] = "post" /\ pc' = [pc EXCEPT ![p] = Caller(p)]
        /\ item' = [item EXCEPT ![p] = None] /\ UNCHANGED owner
    BY <1>4 DEF Post, Goto
  <2>2. CASE p # Owner
    BY <1>0, <2>1, <2>2, OtherMove DEF ThreadType
  <2>3. CASE p = Owner
    BY <1>0, <2>1, <2>3 DEF Life, ThreadType, Closed, Calling, owner, Caller
  <2> QED
    BY <2>2, <2>3
<1>5. ASSUME NEW c \in Clients, BarrierCall(c) PROVE Life'
  <2>1. /\ pc[c] = "idle" /\ pc' = [pc EXCEPT ![c] = "blocked"]
        /\ UNCHANGED <<item, owner>>
    BY <1>5 DEF BarrierCall, CondWait, Goto
  <2>2. CASE c # Owner
    BY <1>0, <2>1, <2>2, OtherMove
  <2>3. CASE c = Owner
    BY <1>0, <2>1, <2>3 DEF Life, ThreadType, Closed, Calling, owner
  <2> QED
    BY <2>2, <2>3
<1>6. ASSUME NEW c \in Clients, SpuriousWake(c) \/ Wake(c) PROVE Life'
  <2>1. /\ pc[c] \in {"blocked", "woken"} /\ UNCHANGED <<item, owner>>
        /\ \E l \in {"woken", "idle"} : pc' = [pc EXCEPT ![c] = l]
    BY <1>6 DEF SpuriousWake, Wake, Goto
  <2>2. CASE c # Owner
    BY <1>0, <2>1, <2>2, OtherMove
  <2>3. CASE c = Owner
    BY <1>0, <2>1, <2>3 DEF Life, ThreadType, Closed, Calling, owner
  <2> QED
    BY <2>2, <2>3
<1>7. ASSUME NEW w \in Workers, Interrupt(w) \/ Take(w) \/ Room(w) \/ Return(w) PROVE Life'
  <2>1. /\ pc[w] # "exited" /\ (\E l : pc' = [pc EXCEPT ![w] = l])
        /\ UNCHANGED <<item, owner>>
    BY <1>7 DEF Interrupt, Take, Room, Return, Goto
  <2> QED
    BY <1>0, <2>1, OtherMove
<1>8. ASSUME NEW w \in Workers, Pick(w) PROVE Life'
  <2>1. CASE tasks # <<>>
    <3>1. /\ pc[w] = "pick" /\ pc' = [pc EXCEPT ![w] = "room"]
          /\ UNCHANGED <<item, owner>>
      BY <1>8, <2>1 DEF Pick, Goto
    <3> QED
      BY <1>0, <3>1, OtherMove
  <2>2. CASE tasks = <<>>
    BY <1>0, <1>8, <2>2 DEF Pick, Life
  <2> QED
    BY <2>1, <2>2
<1>9. ASSUME NEW w \in Workers, Account(w) PROVE Life'
  <2>1. /\ \A v \in Workers : pc[v] = "exited" => pc'[v] = "exited"
        /\ \/ pc'[Owner] = pc[Owner]
           \/ pc[Owner] = "blocked" /\ pc'[Owner] = "woken"
    BY <1>0, <1>9 DEF Account, ThreadType
  <2>2. UNCHANGED <<item, owner>>
    BY <1>9 DEF Account
  <2> QED
    BY <1>0, <2>1, <2>2 DEF Life, Closed, Calling, owner
<1>10. ASSUME RunCall \/ RunBlockCall PROVE Life'
  <2>1. /\ pc[Owner] = "idle" /\ pc' = [pc EXCEPT ![Owner] = "create"] /\ idx' = 1
        /\ UNCHANGED <<item, handle, closing>> /\ ~closing
    BY <1>10 DEF RunCall, RunBlockCall, Goto
  <2> QED
    BY <1>0, <2>1 DEF Life, ThreadType, Closed, Calling
<1>11. ASSUME DelCall \/ CancelCall PROVE Life'
  <2>1. /\ pc[Owner] = "idle" /\ pc' = [pc EXCEPT ![Owner] = "mark"] /\ closing' = TRUE
        /\ UNCHANGED <<item, handle, runs>> /\ runs > 0
    BY <1>0, <1>11 DEF DelCall, CancelCall, MayDelete, Goto
  <2> QED
    BY <1>0, <2>1 DEF Life, ThreadType, Closed, Calling
<1>12. ASSUME CreateThread PROVE Life'
  <2>1. /\ pc[Owner] = "create" /\ runs = 1 /\ idx \in 1..NumThreads
        /\ handle' = [handle EXCEPT ![idx] = 1] /\ idx' = idx + 1
        /\ pc' = [pc EXCEPT ![<<idx, 1>>] = "wait"]
        /\ UNCHANGED <<item, runs, closing>>
    <3>1. pc[Owner] = "create" /\ runs = 1
      BY <1>0, <1>12 DEF CreateThread, FreshOK
    <3>2. idx \in 1..NumThreads
      BY <1>0, <1>12 DEF CreateThread, OwnerType
    <3> QED
      BY <1>12, <3>1, <3>2 DEF CreateThread, Goto
  <2>2. pc'[Owner] = "create"
    BY <1>0, <2>1 DEF ThreadType
  <2> QED
    BY <1>0, <2>1, <2>2 DEF Life, OwnerType, Closed, Calling
<1>13. ASSUME RunDone PROVE Life'
  <2>1. /\ pc[Owner] = "create" /\ idx > NumThreads
        /\ \E l \in {"idle", "blocked"} : pc' = [pc EXCEPT ![Owner] = l]
        /\ UNCHANGED <<item, owner>>
    BY <1>13 DEF RunDone, CondWait, Goto
  <2> QED
    BY <1>0, <2>1 DEF Life, ThreadType, OwnerType, Closed, Calling, owner
<1>14. ASSUME Mark PROVE Life'
  <2>1. pc[Owner] = "mark" /\ UNCHANGED <<runs, handle, closing>>
    BY <1>14 DEF Mark
  <2>2. CASE idx <= NumThreads
    <3>1. pc' = [pc EXCEPT ![Owner] = "reserve"] /\ item' = [item EXCEPT ![Owner] = Finish]
      BY <1>14, <1>0, <2>2 DEF Mark, Goto, OwnerType
    <3> QED
      BY <1>0, <2>1, <3>1 DEF Life, Closed, Calling, ThreadType
  <2>3. CASE idx > NumThreads
    <3>1. pc' = [pc EXCEPT ![Owner] = "join"] /\ idx' = 1
      BY <1>14, <1>0, <2>3 DEF Mark, Goto, OwnerType
    <3> QED
      BY <1>0, <2>1, <3>1 DEF Life, Closed, Calling, ThreadType
  <2> QED
    BY <1>0, <2>2, <2>3 DEF OwnerType
<1>15. ASSUME Join PROVE Life'
  <2>1. /\ pc[Owner] = "join" /\ idx \in 1..NumThreads /\ pc[<<idx, handle[idx]>>] = "exited"
        /\ idx' = idx + 1 /\ UNCHANGED <<pc, item, runs, handle, closing>>
    BY <1>0, <1>15 DEF Join, OwnerType
  <2>2. closing /\ runs = 1 /\ handle[idx] = 1
    BY <2>1 DEF Life
  <2> QED
    BY <1>0, <2>1, <2>2, SMTT(30) DEF Life, OwnerType, Closed, Calling
<1>16. ASSUME FreeAll PROVE Life'
  <2>1. /\ pc[Owner] = "join" /\ idx > NumThreads /\ pc' = [pc EXCEPT ![Owner] = "closed"]
        /\ UNCHANGED <<item, owner>>
    BY <1>16 DEF FreeAll, Goto
  <2>2. \A w \in Workers : pc[w] = "exited"
    BY <1>0, <2>1 DEF Life, OwnerType
  <2> QED
    BY <1>0, <2>1, <2>2 DEF Life, ThreadType, Closed, Calling, owner
<1>17. ASSUME UNCHANGED vars PROVE Life'
  BY <1>17 DEF Life, Closed, vars, owner
<1> QED
  BY <1>1, <1>2, <1>3, <1>4, <1>5, <1>6, <1>7, <1>8, <1>9, <1>10, <1>11, <1>12, <1>13, <1>14,
     <1>15, <1>16, <1>17, NextCases
  DEF Procedure, Terminated

\* A queue just created is at the beginning of its life.
LEMMA InitLife == ASSUME ConstantsOK PROVE Init => Life
<1> SUFFICES ASSUME Init PROVE Life
  OBVIOUS
<1>1. pc[Owner] = "idle" /\ item[Owner] = None /\ closing = FALSE /\ runs = 0
  BY DEF Init, Procs
<1> QED
  BY <1>1 DEF Life, Closed, Calling

----------------------------------------------------------------------------
(* The counters.                                                           *)

\* There are finitely many threads.
LEMMA FiniteProcs == ASSUME ConstantsOK PROVE IsFiniteSet(Procs) /\ IsFiniteSet(Workers)
<1>1. IsFiniteSet(1..NumThreads) /\ IsFiniteSet(1..MaxRuns)
  BY FS_Interval
<1>2. IsFiniteSet(Workers)
  BY <1>1, FS_Product DEF Workers
<1> QED
  BY <1>2, FS_Union DEF Procs

\* How many threads stand at place k when f says where each stands.
Count(f, k) == Cardinality({q \in Procs : f[q] = k})

\* One thread that goes to place l is one more there, one less where it was, and
\* changes no other count.
LEMMA CountMove ==
  ASSUME NEW f \in [Procs -> Places], NEW p \in Procs, NEW l, f[p] # l,
         NEW g \in [Procs -> Places], g[p] = l, \A q \in Procs \ {p} : g[q] = f[q], NEW k,
         IsFiniteSet(Procs)
  PROVE  /\ Count(f, k) \in Nat /\ Count(g, k) \in Nat
         /\ k = l => Count(g, k) = Count(f, k) + 1
         /\ k # l /\ k = f[p] => Count(g, k) = Count(f, k) - 1
         /\ k # l /\ k # f[p] => Count(g, k) = Count(f, k)
<1> DEFINE A == {q \in Procs : f[q] = k}
           B == {q \in Procs : g[q] = k}
<1>1. IsFiniteSet(A) /\ IsFiniteSet(B)
  BY FS_Subset
<1>2. Cardinality(A) \in Nat /\ Cardinality(B) \in Nat
  BY <1>1, FS_CardinalityType
<1>3. Count(f, k) = Cardinality(A) /\ Count(g, k) = Cardinality(B)
  BY DEF Count
<1>4. CASE k = l
  <2>1. B = A \cup {p} /\ p \notin A
    BY <1>4
  <2>2. Cardinality(A \cup {p}) = Cardinality(A) + 1
    BY <1>1, <2>1, FS_AddElement
  <2> HIDE DEF A, B
  <2> QED
    BY <1>2, <1>3, <1>4, <2>1, <2>2
<1>5. CASE k # l /\ k = f[p]
  <2>1. B = A \ {p} /\ p \in A
    BY <1>5
  <2>2. Cardinality(A \ {p}) = Cardinality(A) - 1
    BY <1>1, <2>1, FS_RemoveElement
  <2> HIDE DEF A, B
  <2> QED
    BY <1>2, <1>3, <1>5, <2>1, <2>2
<1>6. CASE k # l /\ k # f[p]
  <2>1. B = A
    BY <1>6
  <2> HIDE DEF A, B
  <2> QED
    BY <1>2, <1>3, <1>6, <2>1
<1> QED
  BY <1>4, <1>5, <1>6

\* The same for two places together.
LEMMA PairMove ==
  ASSUME IsFiniteSet(Procs), NEW f \in [Procs -> Places], NEW p \in Procs, NEW l, f[p] # l,
         NEW g \in [Procs -> Places], g[p] = l, \A q \in Procs \ {p} : g[q] = f[q],
         NEW a, NEW b, a # b
  PROVE  Count(g, a) + Count(g, b) + (IF f[p] \in {a, b} THEN 1 ELSE 0) =
           Count(f, a) + Count(f, b) + (IF l \in {a, b} THEN 1 ELSE 0)
<1>1. ASSUME NEW k
      PROVE  /\ Count(f, k) \in Nat /\ Count(g, k) \in Nat
             /\ k = l => Count(g, k) = Count(f, k) + 1
             /\ k # l /\ k = f[p] => Count(g, k) = Count(f, k) - 1
             /\ k # l /\ k # f[p] => Count(g, k) = Count(f, k)
  <2>1. /\ f \in [Procs -> Places] /\ p \in Procs /\ f[p] # l /\ g \in [Procs -> Places] /\ g[p] = l
        /\ (\A q \in Procs \ {p} : g[q] = f[q]) /\ IsFiniteSet(Procs)
    OBVIOUS
  <2> QED
    BY ONLY <2>1, CountMove
<1>2. /\ Count(f, a) \in Nat /\ Count(g, a) \in Nat /\ Count(f, b) \in Nat /\ Count(g, b) \in Nat
  BY <1>1
<1>3. CASE a = l
  <2>1. Count(g, a) = Count(f, a) + 1
    BY ONLY <1>1, <1>3
  <2>2. CASE b = f[p]
    <3>1. Count(g, b) = Count(f, b) - 1
      BY ONLY <1>1, <1>3, <2>2, a # b
    <3> QED
      BY <1>2, <1>3, <2>1, <2>2, <3>1
  <2>3. CASE b # f[p]
    <3>1. Count(g, b) = Count(f, b)
      BY ONLY <1>1, <1>3, <2>3, a # b
    <3> QED
      BY <1>2, <1>3, <2>1, <2>3, <3>1
  <2> QED
    BY <2>2, <2>3
<1>4. CASE b = l
  <2>1. Count(g, b) = Count(f, b) + 1
    BY ONLY <1>1, <1>4
  <2>2. CASE a = f[p]
    <3>1. Count(g, a) = Count(f, a) - 1
      BY ONLY <1>1, <1>4, <2>2, a # b
    <3> QED
      BY <1>2, <1>4, <2>1, <2>2, <3>1
  <2>3. CASE a # f[p]
    <3>1. Count(g, a) = Count(f, a)
      BY ONLY <1>1, <1>4, <2>3, a # b
    <3> QED
      BY <1>2, <1>4, <2>1, <2>3, <3>1
  <2> QED
    BY <2>2, <2>3
<1>5. CASE a # l /\ b # l
  <2>1. a = f[p] => Count(g, a) = Count(f, a) - 1
    BY ONLY <1>1, <1>5
  <2>2. a # f[p] => Count(g, a) = Count(f, a)
    BY ONLY <1>1, <1>5
  <2>3. b = f[p] => Count(g, b) = Count(f, b) - 1
    BY ONLY <1>1, <1>5
  <2>4. b # f[p] => Count(g, b) = Count(f, b)
    BY ONLY <1>1, <1>5
  <2> QED
    BY <1>2, <1>5, <2>1, <2>2, <2>3, <2>4
<1> QED
  BY <1>3, <1>4, <1>5

\* A thread that stands at k is counted there.
LEMMA CountPositive ==
  ASSUME ConstantsOK, NEW f \in [Procs -> Places], NEW p \in Procs
  PROVE  Count(f, f[p]) \in Nat /\ Count(f, f[p]) > 0
<1> DEFINE A == {q \in Procs : f[q] = f[p]}
<1>1. IsFiniteSet(A) /\ p \in A
  BY FiniteProcs, FS_Subset
<1> QED
  BY <1>1, FS_CardinalityType, FS_EmptySet DEF Count

\* What semaphores and list have to do with each other: a thread is announced
\* or occupies a place of the queue, according to where it stands.
Announced(k) == IF k \in {"pick", "post"} THEN 1 ELSE 0
Occupying(k) == IF k \in {"room", "append"} THEN 1 ELSE 0
NAnnounced == Count(pc, "pick") + Count(pc, "post")
NOccupying == Count(pc, "room") + Count(pc, "append")

Matched ==
  /\ full + NAnnounced = Len(tasks)
  /\ empty + Len(tasks) + NOccupying = QueueSize

Synchronised == Defined /\ (Closed \/ Matched)

\* The number of threads at a place is a natural number.
LEMMA CountsNat ==
  ASSUME ConstantsOK, NEW f \in [Procs -> Places], NEW k
  PROVE  Count(f, k) \in Nat
BY FiniteProcs, FS_Subset, FS_CardinalityType DEF Count

\* Two counters change as one thread goes from place h to place l.
LEMMA CountsMove ==
  ASSUME ConstantsOK, pc \in [Procs -> Places], pc' \in [Procs -> Places], NEW p \in Procs, NEW l, pc[p] # l,
         pc' = [pc EXCEPT ![p] = l]
  PROVE  /\ NAnnounced \in Nat /\ NAnnounced' \in Nat /\ NOccupying \in Nat /\ NOccupying' \in Nat
         /\ NAnnounced' + Announced(pc[p]) = NAnnounced + Announced(l)
         /\ NOccupying' + Occupying(pc[p]) = NOccupying + Occupying(l)
<1>1. p \in Procs /\ pc'[p] = l /\ \A q \in Procs \ {p} : pc'[q] = pc[q]
  OBVIOUS
<1>6. IsFiniteSet(Procs)
  BY FiniteProcs
<1>2. ASSUME NEW a, NEW b, a # b
      PROVE  /\ Count(pc, a) + Count(pc, b) \in Nat /\ Count(pc', a) + Count(pc', b) \in Nat
             /\ Count(pc', a) + Count(pc', b) + (IF pc[p] \in {a, b} THEN 1 ELSE 0) =
                  Count(pc, a) + Count(pc, b) + (IF l \in {a, b} THEN 1 ELSE 0)
  <2>1. PICK x \in Nat, y \in Nat, u \in Nat, v \in Nat :
          x = Count(pc, a) /\ y = Count(pc, b) /\ u = Count(pc', a) /\ v = Count(pc', b)
    BY CountsNat
  <2>2. x + y \in Nat /\ u + v \in Nat
    OBVIOUS
  <2>3. Count(pc', a) + Count(pc', b) + (IF pc[p] \in {a, b} THEN 1 ELSE 0) =
          Count(pc, a) + Count(pc, b) + (IF l \in {a, b} THEN 1 ELSE 0)
    BY ONLY <1>1, <1>2, PairMove, <1>6, pc \in [Procs -> Places], pc' \in [Procs -> Places], pc[p] # l
  <2> QED
    BY <2>1, <2>2, <2>3
<1>3. "pick" # "post" /\ "room" # "append"
  OBVIOUS
<1>4. /\ NAnnounced \in Nat /\ NAnnounced' \in Nat
      /\ NAnnounced' + Announced(pc[p]) = NAnnounced + Announced(l)
  <2>1. "pick" # "post"
    OBVIOUS
  <2>2. /\ Count(pc, "pick") + Count(pc, "post") \in Nat
        /\ Count(pc', "pick") + Count(pc', "post") \in Nat
        /\ Count(pc', "pick") + Count(pc', "post") + (IF pc[p] \in {"pick", "post"} THEN 1 ELSE 0) =
             Count(pc, "pick") + Count(pc, "post") + (IF l \in {"pick", "post"} THEN 1 ELSE 0)
    BY ONLY <1>2, <2>1, Zenon
  <2>3. NAnnounced = Count(pc, "pick") + Count(pc, "post") /\ NAnnounced' = Count(pc', "pick") + Count(pc', "post")
    BY DEF NAnnounced, Count
  <2>4. \A k : Announced(k) = IF k \in {"pick", "post"} THEN 1 ELSE 0
    BY DEF Announced
  <2> QED
    BY ONLY <2>2, <2>3, <2>4, Zenon
<1>5. /\ NOccupying \in Nat /\ NOccupying' \in Nat
      /\ NOccupying' + Occupying(pc[p]) = NOccupying + Occupying(l)
  <2>1. "room" # "append"
    OBVIOUS
  <2>2. /\ Count(pc, "room") + Count(pc, "append") \in Nat
        /\ Count(pc', "room") + Count(pc', "append") \in Nat
        /\ Count(pc', "room") + Count(pc', "append") + (IF pc[p] \in {"room", "append"} THEN 1 ELSE 0) =
             Count(pc, "room") + Count(pc, "append") + (IF l \in {"room", "append"} THEN 1 ELSE 0)
    BY ONLY <1>2, <2>1, Zenon
  <2>3. NOccupying = Count(pc, "room") + Count(pc, "append") /\ NOccupying' = Count(pc', "room") + Count(pc', "append")
    BY DEF NOccupying, Count
  <2>4. \A k : Occupying(k) = IF k \in {"room", "append"} THEN 1 ELSE 0
    BY DEF Occupying
  <2> QED
    BY ONLY <2>2, <2>3, <2>4, Zenon
<1> QED
  BY <1>4, <1>5

\* A thread moves from one place to another and the counters follow.
LEMMA MatchedMove ==
  ASSUME ConstantsOK, Typed, Typed', Matched, NEW p \in Procs, NEW l, pc[p] # l,
         pc' = [pc EXCEPT ![p] = l],
         full' + Announced(l) + Len(tasks) = full + Announced(pc[p]) + Len(tasks'),
         empty' + Len(tasks') + Occupying(l) = empty + Len(tasks) + Occupying(pc[p])
  PROVE  Matched'
<1>1. /\ full \in Nat /\ empty \in Nat /\ full' \in Nat /\ empty' \in Nat
      /\ Len(tasks) \in Nat /\ Len(tasks') \in Nat
  BY DEF Typed, TypeOK, QueueType
<1>2. /\ Announced(pc[p]) \in Nat /\ Announced(l) \in Nat
      /\ Occupying(pc[p]) \in Nat /\ Occupying(l) \in Nat
  BY DEF Announced, Occupying
<1>3. /\ NAnnounced \in Nat /\ NAnnounced' \in Nat /\ NOccupying \in Nat /\ NOccupying' \in Nat
      /\ NAnnounced' + Announced(pc[p]) = NAnnounced + Announced(l)
      /\ NOccupying' + Occupying(pc[p]) = NOccupying + Occupying(l)
  BY CountsMove DEF Typed, TypeOK, ThreadType
<1>4. PICK m \in Nat, n \in Nat : m = Len(tasks) /\ n = Len(tasks')
  BY <1>1
<1>5. full' + NAnnounced' = n
  <2>1. PICK f \in Nat, g \in Nat, x \in Nat, y \in Nat, a \in Nat, b \in Nat :
          /\ f = full /\ g = full' /\ x = NAnnounced /\ y = NAnnounced'
          /\ a = Announced(pc[p]) /\ b = Announced(l)
    BY <1>1, <1>2, <1>3
  <2>2. y + a = x + b
    BY <1>3, <2>1
  <2>3. f + x = m
    BY <1>4, <2>1 DEF Matched
  <2>4. g + b + m = f + a + n
    BY <1>4, <2>1
  <2>5. g + y = n
    BY ONLY <2>2, <2>3, <2>4, m \in Nat, n \in Nat
  <2> QED
    BY <2>1, <2>5
<1>6. empty' + n + NOccupying' = QueueSize
  <2>1. PICK f \in Nat, g \in Nat, x \in Nat, y \in Nat, a \in Nat, b \in Nat, s \in Nat :
          /\ f = empty /\ g = empty' /\ x = NOccupying /\ y = NOccupying'
          /\ a = Occupying(pc[p]) /\ b = Occupying(l) /\ s = QueueSize
    BY <1>1, <1>2, <1>3
  <2>2. y + a = x + b
    BY <1>3, <2>1
  <2>3. f + m + x = s
    BY <1>4, <2>1 DEF Matched
  <2>4. g + n + b = f + m + a
    BY <1>4, <2>1
  <2>5. g + n + y = s
    BY ONLY <2>2, <2>3, <2>4, m \in Nat, n \in Nat
  <2> QED
    BY <2>1, <2>5
<1> QED
  BY <1>4, <1>5, <1>6 DEF Matched

\* A step of one thread that moves the semaphores, the list and its own place together
\* keeps them in balance.
LEMMA SyncMove ==
  ASSUME ConstantsOK, Typed, Typed', Synchronised, NEW p \in Procs, NEW l, pc[p] # l, l # "stray",
         pc' = [pc EXCEPT ![p] = l], p = Owner => ~Closed,
         full' + Announced(l) + Len(tasks) = full + Announced(pc[p]) + Len(tasks'),
         empty' + Len(tasks') + Occupying(l) = empty + Len(tasks) + Occupying(pc[p])
  PROVE  Synchronised'
<1>1. pc \in [Procs -> Places] /\ Owner \in Procs
  BY DEF Typed, TypeOK, ThreadType, Procs
<1>2. Defined'
  BY <1>1 DEF Synchronised, Defined, At
<1>3. CASE Closed
  BY <1>1, <1>2, <1>3 DEF Synchronised, Closed
<1>4. CASE ~Closed
  BY <1>2, <1>4, MatchedMove DEF Synchronised
<1> QED
  BY <1>3, <1>4

\* After the queue is released a thread that goes on changes nothing of it.
LEMMA SyncClosed ==
  ASSUME ConstantsOK, Typed, Synchronised, Closed, NEW p \in Procs \ {Owner}, NEW l, l # "stray",
         pc' = [pc EXCEPT ![p] = l]
  PROVE  Synchronised'
<1>1. pc \in [Procs -> Places] /\ Owner \in Procs
  BY DEF Typed, TypeOK, ThreadType, Procs
<1> QED
  BY <1>1 DEF Synchronised, Defined, At, Closed

\* A semaphore that stands for the place of a thread, or for its task, is not
\* at its largest value when the thread posts it.
LEMMA RoomToPost ==
  ASSUME ConstantsOK, Typed, Matched, NEW p \in Procs
  PROVE  /\ pc[p] = "post" => full < QueueSize
         /\ pc[p] = "room" => empty < QueueSize
<1>1. pc \in [Procs -> Places] /\ full \in Nat /\ empty \in Nat /\ Len(tasks) \in Nat
  BY DEF Typed, TypeOK, ThreadType, QueueType
<1>2. Count(pc, pc[p]) > 0
  BY <1>1, CountPositive
<1>3. PICK f \in Nat, e \in Nat, n \in Nat, s \in Nat :
        f = full /\ e = empty /\ n = Len(tasks) /\ s = QueueSize
  BY <1>1
<1>4. PICK a \in Nat, b \in Nat, c \in Nat, d \in Nat :
        /\ a = Count(pc, "pick") /\ b = Count(pc, "post")
        /\ c = Count(pc, "room") /\ d = Count(pc, "append")
  BY <1>1, CountsNat
<1>5. f + (a + b) = n /\ e + n + (c + d) = s
  BY <1>3, <1>4 DEF Matched, NAnnounced, NOccupying
<1>6. (b > 0 => f < s) /\ (c > 0 => e < s)
  BY ONLY <1>5, f \in Nat, e \in Nat, n \in Nat, s \in Nat, a \in Nat, b \in Nat, c \in Nat, d \in Nat
<1> QED
  BY <1>2, <1>3, <1>4, <1>6

\* The callers of _borTasksAdd.
LEMMA SyncAdd ==
  ASSUME ConstantsOK, Typed, Typed', Synchronised, NEW p \in Procs,
         (\E j \in Jobs : AddCall(p, j)) \/ Reserve(p) \/ Append1(p) \/ Post(p)
  PROVE  Synchronised'
<1>1. /\ tasks \in Seq(Items) /\ full \in Nat /\ empty \in Nat /\ Len(tasks) \in Nat
      /\ item[p] \in Items \cup {None}
  BY DEF Typed, TypeOK, QueueType, ThreadType
<1>2. CASE \E j \in Jobs : AddCall(p, j)
  <2>1. pc[p] \in {"idle", "run"} /\ pc' = [pc EXCEPT ![p] = "reserve"] /\ UNCHANGED queue
    BY <1>2 DEF AddCall, MayCall, Goto
  <2>2. /\ full' + Announced("reserve") + Len(tasks) = full + Announced(pc[p]) + Len(tasks')
        /\ empty' + Len(tasks') + Occupying("reserve") = empty + Len(tasks) + Occupying(pc[p])
    BY <1>1, <2>1 DEF Announced, Occupying, queue
  <2> QED
    BY <2>1, <2>2, SyncMove DEF Closed
<1>3. CASE Reserve(p)
  <2>1. /\ pc[p] = "reserve" /\ pc' = [pc EXCEPT ![p] = "append"]
        /\ empty > 0 /\ empty' = empty - 1 /\ UNCHANGED <<tasks, full>>
    BY <1>3 DEF Reserve, Goto
  <2>2. full' + Announced("append") + Len(tasks) = full + Announced(pc[p]) + Len(tasks')
    BY <1>1, <2>1 DEF Announced
  <2>3. empty' + Len(tasks') + Occupying("append") = empty + Len(tasks) + Occupying(pc[p])
    BY <1>1, <2>1 DEF Occupying
  <2> QED
    BY <2>1, <2>2, <2>3, SyncMove DEF Closed
<1>4. CASE Append1(p)
  <2>1. /\ pc[p] = "append" /\ pc' = [pc EXCEPT ![p] = "post"]
        /\ tasks' = Append(tasks, item[p]) /\ UNCHANGED <<full, empty>>
    BY <1>4 DEF Append1, Goto
  <2>2. Len(tasks') = Len(tasks) + 1
    BY <1>1, <2>1
  <2>3. full' + Announced("post") + Len(tasks) = full + Announced(pc[p]) + Len(tasks')
    BY <1>1, <2>1, <2>2 DEF Announced
  <2>4. empty' + Len(tasks') + Occupying("post") = empty + Len(tasks) + Occupying(pc[p])
    BY <1>1, <2>1, <2>2 DEF Occupying
  <2> QED
    BY <2>1, <2>3, <2>4, SyncMove DEF Closed
<1>5. CASE Post(p)
  <2>1. /\ pc[p] = "post" /\ pc' = [pc EXCEPT ![p] = Caller(p)]
        /\ full' = Posted(full) /\ UNCHANGED <<tasks, empty>>
    BY <1>5 DEF Post, Goto
  <2>2. Caller(p) \in {"run", "mark", "idle"}
    BY DEF Caller
  <2>3. CASE Closed
    BY <2>1, <2>2, <2>3, SyncClosed DEF Closed
  <2>4. CASE ~Closed
    <3>1. full' = full + 1
      BY <2>1, <2>4, RoomToPost DEF Synchronised, Posted
    <3>2. full' + Announced(Caller(p)) + Len(tasks) = full + Announced(pc[p]) + Len(tasks')
      BY <1>1, <2>1, <2>2, <3>1 DEF Announced
    <3>3. empty' + Len(tasks') + Occupying(Caller(p)) = empty + Len(tasks) + Occupying(pc[p])
      BY <1>1, <2>1, <2>2 DEF Occupying
    <3> QED
      BY <2>1, <2>2, <2>4, <3>2, <3>3, SyncMove
  <2> QED
    BY <2>3, <2>4
<1> QED
  BY <1>2, <1>3, <1>4, <1>5

\* A worker that has passed sem_wait(&full) finds a task.
LEMMA PickFinds ==
  ASSUME ConstantsOK, Typed, Life, Synchronised, NEW w \in Workers, pc[w] = "pick"
  PROVE  tasks # <<>>
<1>1. pc \in [Procs -> Places] /\ w \in Procs /\ Owner \in Procs /\ full \in Nat
  BY DEF Typed, TypeOK, ThreadType, QueueType, Procs
<1>2. ~Closed
  BY <1>1 DEF Life, Closed, Synchronised, Defined, At
<1>3. full + NAnnounced = Len(tasks)
  BY <1>2 DEF Synchronised, Matched
<1>4. Count(pc, "pick") \in Nat /\ Count(pc, "pick") > 0 /\ Count(pc, "post") \in Nat
  BY <1>1, CountPositive, CountsNat
<1>5. PICK a \in Nat, b \in Nat, f \in Nat :
        a = Count(pc, "pick") /\ b = Count(pc, "post") /\ f = full
  BY <1>1, <1>4
<1>6. a > 0
  BY <1>4, <1>5
<1>7. f + (a + b) = Len(tasks)
  BY <1>3, <1>5 DEF NAnnounced
<1>8. f + (a + b) # 0
  BY ONLY <1>6, a \in Nat, b \in Nat, f \in Nat
<1> QED
  BY <1>7, <1>8

\* The steps of a worker.
LEMMA SyncWork ==
  ASSUME ConstantsOK, Typed, Typed', Life, Synchronised, NEW w \in Workers,
         Take(w) \/ Pick(w) \/ Room(w) \/ Return(w) \/ Account(w)
  PROVE  Synchronised'
<1>1. /\ tasks \in Seq(Items) /\ full \in Nat /\ empty \in Nat /\ Len(tasks) \in Nat
      /\ pc \in [Procs -> Places] /\ w \in Procs /\ Owner \in Procs /\ w # Owner
  BY DEF Typed, TypeOK, QueueType, ThreadType, Procs
<1>2. CASE Take(w)
  <2>1. /\ pc[w] = "wait" /\ pc' = [pc EXCEPT ![w] = "pick"]
        /\ full > 0 /\ full' = full - 1 /\ UNCHANGED <<tasks, empty>>
    BY <1>2 DEF Take, Goto
  <2>2. full' + Announced("pick") + Len(tasks) = full + Announced(pc[w]) + Len(tasks')
    BY <1>1, <2>1 DEF Announced
  <2>3. empty' + Len(tasks') + Occupying("pick") = empty + Len(tasks) + Occupying(pc[w])
    BY <1>1, <2>1 DEF Occupying
  <2> QED
    BY <1>1, <2>1, <2>2, <2>3, SyncMove
<1>3. CASE Pick(w)
  <2>1. pc[w] = "pick" /\ tasks # <<>>
    BY <1>3, PickFinds DEF Pick
  <2>2. /\ pc' = [pc EXCEPT ![w] = "room"] /\ tasks' = Tail(tasks) /\ UNCHANGED <<full, empty>>
    BY <1>3, <2>1 DEF Pick, Goto
  <2>3. Len(tasks') + 1 = Len(tasks) /\ Len(tasks') \in Nat
    BY <1>1, <2>1, <2>2
  <2>4. full' + Announced("room") + Len(tasks) = full + Announced(pc[w]) + Len(tasks')
    BY <1>1, <2>1, <2>2, <2>3 DEF Announced
  <2>5. empty' + Len(tasks') + Occupying("room") = empty + Len(tasks) + Occupying(pc[w])
    BY <1>1, <2>1, <2>2, <2>3 DEF Occupying
  <2> QED
    BY <1>1, <2>1, <2>2, <2>4, <2>5, SyncMove
<1>4. CASE Room(w)
  <2>4. ~Closed
    BY <1>1, <1>4 DEF Room, Life, Closed
  <2>1. PICK l \in {"account", "run"} :
          /\ pc[w] = "room" /\ pc' = [pc EXCEPT ![w] = l]
          /\ empty' = empty + 1 /\ UNCHANGED <<tasks, full>>
    <3>1. empty < QueueSize
      BY <1>1, <1>4, <2>4, RoomToPost DEF Room, Synchronised
    <3> QED
      BY <1>4, <3>1 DEF Room, Goto, Posted
  <2>2. full' + Announced(l) + Len(tasks) = full + Announced(pc[w]) + Len(tasks')
    BY <1>1, <2>1 DEF Announced
  <2>3. empty' + Len(tasks') + Occupying(l) = empty + Len(tasks) + Occupying(pc[w])
    BY <1>1, <2>1 DEF Occupying
  <2> QED
    BY <1>1, <2>1, <2>2, <2>3, SyncMove
<1>5. CASE Return(w)
  <2>1. pc[w] = "run" /\ pc' = [pc EXCEPT ![w] = "account"] /\ UNCHANGED queue
    BY <1>5 DEF Return, Goto
  <2>2. /\ full' + Announced("account") + Len(tasks) = full + Announced(pc[w]) + Len(tasks')
        /\ empty' + Len(tasks') + Occupying("account") = empty + Len(tasks) + Occupying(pc[w])
    BY <1>1, <2>1 DEF Announced, Occupying, queue
  <2> QED
    BY <1>1, <2>1, <2>2, SyncMove
<1>6. CASE Account(w)
  <2>1. \A q \in Procs : \/ pc'[q] = pc[q]
                         \/ /\ pc[q] \in {"account", "blocked"}
                            /\ pc'[q] \in {"exited", "wait", "woken"}
    BY <1>6 DEF Account
  <2>2. \A k \in {"pick", "post", "room", "append", "stray"} :
          {q \in Procs : pc'[q] = k} = {q \in Procs : pc[q] = k}
    BY <2>1
  <2>3. NAnnounced' = NAnnounced /\ NOccupying' = NOccupying
    BY <2>2 DEF NAnnounced, NOccupying, Count
  <2>4. UNCHANGED <<tasks, full, empty>>
    BY <1>6 DEF Account
  <2>5. Matched => Matched'
    BY <2>3, <2>4 DEF Matched
  <2>6. Defined' /\ (Closed => Closed')
    BY <1>1, <2>1 DEF Synchronised, Defined, At, Closed
  <2> QED
    BY <2>5, <2>6 DEF Synchronised
<1> QED
  BY <1>2, <1>3, <1>4, <1>5, <1>6

\* The steps that leave list and semaphores alone, and the end.
LEMMA SyncRest ==
  ASSUME ConstantsOK, Typed, Typed', Synchronised,
         \/ \E c \in Clients : BarrierCall(c) \/ SpuriousWake(c) \/ Wake(c)
         \/ RunCall \/ RunBlockCall \/ DelCall \/ (CancelCall /\ dropped' = {})
         \/ CreateThread \/ RunDone \/ Mark \/ Join \/ FreeAll \/ UNCHANGED vars
  PROVE  Synchronised'
<1>1. /\ full \in Nat /\ empty \in Nat /\ Len(tasks) \in Nat /\ FreshOK
      /\ pc \in [Procs -> Places] /\ Owner \in Procs /\ Clients \subseteq Procs
      /\ runs \in 0..MaxRuns /\ idx \in 1..(NumThreads + 1)
  BY SMTT(30) DEF Typed, TypeOK, QueueType, ThreadType, OwnerType, Procs
<1> DEFINE Aside == {"idle", "blocked", "woken", "create", "mark", "reserve", "join", "none", "wait"}
<1>2. ASSUME NEW p \in Procs, NEW l \in Aside, pc[p] # l, pc[p] \in Aside,
             pc' = [pc EXCEPT ![p] = l], UNCHANGED <<tasks, full, empty>>
      PROVE  Synchronised'
  <2>1. Announced(l) = 0 /\ Announced(pc[p]) = 0 /\ Occupying(l) = 0 /\ Occupying(pc[p]) = 0
    BY <1>2 DEF Announced, Occupying
  <2>2. /\ full' + Announced(l) + Len(tasks) = full + Announced(pc[p]) + Len(tasks')
        /\ empty' + Len(tasks') + Occupying(l) = empty + Len(tasks) + Occupying(pc[p])
    BY <1>1, <1>2, <2>1
  <2> QED
    BY <1>2, <2>2, SyncMove DEF Closed
<1>3. CASE \E c \in Clients : BarrierCall(c) \/ SpuriousWake(c) \/ Wake(c)
  BY <1>1, <1>2, <1>3 DEF BarrierCall, SpuriousWake, Wake, CondWait, Goto, queue
<1>4. CASE RunCall \/ RunBlockCall \/ DelCall
  BY <1>1, <1>2, <1>4 DEF RunCall, RunBlockCall, DelCall, MayDelete, Goto, queue
<1>10. CASE CancelCall /\ dropped' = {}
  <2>1. Range(tasks) = {} /\ tasks \in Seq(Items)
    BY <1>10 DEF CancelCall, Typed, TypeOK, QueueType
  <2>2. tasks = <<>>
    <3> SUFFICES ASSUME tasks # <<>> PROVE FALSE
      OBVIOUS
    <3>1. 1 \in DOMAIN tasks
      BY <2>1
    <3> QED
      BY <2>1, <3>1 DEF Range
  <2>3. tasks' = tasks
    BY <1>10, <2>2 DEF CancelCall
  <2> QED
    BY <1>1, <1>2, <1>10, <2>3 DEF CancelCall, MayDelete, Goto
<1>5. CASE CreateThread
  <2>1. pc[Owner] = "create" /\ idx \in 1..NumThreads /\ runs \in 1..MaxRuns
    BY <1>1, <1>5 DEF CreateThread, FreshOK
  <2>2. <<idx, runs>> \in Procs /\ pc[<<idx, runs>>] \in {"none", "stray"}
    BY <1>1, <2>1 DEF FreshOK, Procs, Workers
  <2>3. pc[<<idx, runs>>] = "none"
    BY <2>2 DEF Synchronised, Defined, At
  <2>4. pc' = [pc EXCEPT ![<<idx, runs>>] = "wait"] /\ UNCHANGED <<tasks, full, empty>>
    BY <1>5 DEF CreateThread, Goto, queue
  <2> QED
    BY <1>2, <2>2, <2>3, <2>4
<1>6. CASE RunDone
  <2>1. PICK l \in {"idle", "blocked"} : pc' = [pc EXCEPT ![Owner] = l]
    BY <1>6 DEF RunDone, CondWait, Goto
  <2>2. pc[Owner] = "create" /\ UNCHANGED <<tasks, full, empty>>
    BY <1>6 DEF RunDone
  <2> QED
    BY <1>1, <1>2, <2>1, <2>2
<1>7. CASE Mark
  <2>1. PICK l \in {"reserve", "join"} : pc' = [pc EXCEPT ![Owner] = l]
    BY <1>7 DEF Mark, Goto
  <2>2. pc[Owner] = "mark" /\ UNCHANGED <<tasks, full, empty>>
    BY <1>7 DEF Mark, queue
  <2> QED
    BY <1>1, <1>2, <2>1, <2>2
<1>8. CASE Join \/ UNCHANGED vars
  BY <1>8 DEF Join, vars, queue, Synchronised, Defined, Closed, Matched, NAnnounced, NOccupying,
              Count, At
<1>9. CASE FreeAll
  BY <1>1, <1>9 DEF FreeAll, Goto, Synchronised, Defined, Closed, At
<1> QED
  BY <1>3, <1>4, <1>5, <1>6, <1>7, <1>8, <1>9, <1>10

\* No wait has been interrupted and borTasksCancelDel has not found a task.
Calm == interrupts = 0 /\ dropped = {}

\* The semaphores of a queue just created are in balance with its empty list.
LEMMA InitSync == ASSUME ConstantsOK PROVE Init => Synchronised
<1> SUFFICES ASSUME Init PROVE Synchronised
  OBVIOUS
<1>1. /\ tasks = <<>> /\ full = 0 /\ empty = QueueSize
      /\ \A p \in Procs : pc[p] \in {"idle", "none"}
  BY DEF Init
<1>2. Defined
  BY <1>1 DEF Defined, At
<1>3. ASSUME NEW k \in {"pick", "post", "room", "append"} PROVE Count(pc, k) = 0
  <2>1. {q \in Procs : pc[q] = k} = {}
    BY <1>1
  <2> QED
    BY <2>1, FS_EmptySet DEF Count
<1>4. NAnnounced = 0 /\ NOccupying = 0
  BY <1>3 DEF NAnnounced, NOccupying
<1> QED
  BY <1>1, <1>2, <1>4 DEF Synchronised, Matched

\* Every step that leaves the queue calm keeps the semaphores in balance with
\* the list.
LEMMA StepSync ==
  ASSUME ConstantsOK, MaxRuns = 1, Typed, Life, Synchronised, [Next]_vars, Calm' PROVE Synchronised'
<1>1. Typed'
  BY StepTyped
<1>2. (\A w \in Workers : ~Interrupt(w)) /\ (\A p \in Procs : ~InterruptReserve(p))
  BY DEF Interrupt, InterruptReserve, Calm, Typed, TypeOK, OwnerType
<1>3. dropped' = {}
  BY DEF Calm
<1>4. Procedure \/ UNCHANGED vars
  BY NextCases
<1>5. Workers \subseteq Procs
  BY DEF Procs
<1> QED
  BY <1>1, <1>2, <1>3, <1>4, <1>5, SyncAdd, SyncWork, SyncRest DEF Procedure, Terminated

\* Only borTasksCancelDel throws tasks away, and no interrupted wait is forgotten.
LEMMA StepCalm ==
  ASSUME ConstantsOK, Typed, [Next]_vars
  PROVE  /\ dropped' = dropped \/ CancelCall
         /\ interrupts' = 0 => interrupts = 0
<1>1. ASSUME NEW p \in Procs, (\E j \in Jobs : AddCall(p, j)) \/ Reserve(p) \/ InterruptReserve(p) \/ Append1(p) \/ Post(p)
      PROVE  dropped' = dropped /\ interrupts' \in {interrupts, interrupts + 1}
  BY <1>1 DEF AddCall, Reserve, InterruptReserve, Append1, Post, history, faults
<1>2. ASSUME NEW c \in Clients, BarrierCall(c) \/ SpuriousWake(c) \/ Wake(c)
      PROVE  dropped' = dropped /\ interrupts' = interrupts
  BY <1>2 DEF BarrierCall, CondWait, SpuriousWake, Wake, history, faults
<1>3. ASSUME NEW w \in Workers, Interrupt(w) \/ Take(w) \/ Pick(w) \/ Room(w) \/ Return(w) \/ Account(w)
      PROVE  dropped' = dropped /\ interrupts' \in {interrupts, interrupts + 1}
  BY <1>3 DEF Interrupt, Take, Pick, Room, Return, Account, history, faults
<1>4. ASSUME RunCall \/ RunBlockCall \/ DelCall \/ CreateThread \/ RunDone \/ Mark \/ Join \/ FreeAll
      PROVE  dropped' = dropped /\ interrupts' = interrupts
  BY <1>4 DEF RunCall, RunBlockCall, DelCall, CreateThread, RunDone, CondWait, Mark, Join, FreeAll, history, faults
<1>5. CancelCall => interrupts' = interrupts
  BY DEF CancelCall, faults
<1>6. interrupts \in Nat
  BY DEF Typed, TypeOK, OwnerType
<1>7. Procedure \/ UNCHANGED vars
  BY NextCases
<1>8. (dropped' = dropped \/ CancelCall) /\ interrupts' \in {interrupts, interrupts + 1}
  BY <1>1, <1>2, <1>3, <1>4, <1>5, <1>7 DEF Procedure, Terminated, vars, history, faults
<1> QED
  BY <1>6, <1>8

\* Without borTasksCancelDel nothing is thrown away.
LEMMA NothingDropped == ASSUME ConstantsOK, ~AllowCancel PROVE Spec => [](dropped = {})
<1>1. Init => dropped = {} /\ Typed
  BY InitTyped DEF Init
<1>2. dropped = {} /\ Typed /\ [Next]_vars => (dropped = {} /\ Typed)'
  BY StepTyped, StepCalm DEF CancelCall
<1> QED
  BY <1>1, <1>2, PTL DEF Spec

----------------------------------------------------------------------------
(* Jobs on their way into the list.                                       *)

\* Threads inside _borTasksAdd whose task is not in the list yet.
Entering == {p \in Procs : pc[p] \in {"reserve", "append"}}

\* What _borTasksAdd relies on: a job goes in once, by one thread, and only the
\* thread that deletes the queue adds finishing tasks.
EntryOK ==
  /\ added \subseteq used
  /\ \A p \in Entering : item[p] \in Jobs => item[p] \in used \ added
  /\ \A p, q \in Entering : item[p] = item[q] /\ item[p] \in Jobs => p = q
  /\ \A p \in Procs \ {Owner} : item[p] # Finish

\* A new queue: nobody is adding anything.
LEMMA InitEntry == ASSUME ConstantsOK PROVE Init => EntryOK
BY DEF Init, EntryOK, Entering, Items

\* Steps outside _borTasksAdd keep what is said of the jobs that enter.
LEMMA EntryStays ==
  ASSUME ConstantsOK, EntryOK, UNCHANGED <<used, added, item>>, Entering' \subseteq Entering
  PROVE  EntryOK'
BY DEF EntryOK

\* Every step keeps it: a client starts adding only a job never used before.
LEMMA StepEntry == ASSUME ConstantsOK PROVE Typed /\ EntryOK /\ [Next]_vars => EntryOK'
<1> SUFFICES ASSUME Typed, EntryOK, [Next]_vars PROVE EntryOK'
  OBVIOUS
<1>0. /\ pc \in [Procs -> Places] /\ item \in [Procs -> Items \cup {None}] /\ Owner \in Procs
      /\ Clients \subseteq Procs /\ Workers \subseteq Procs /\ runs \in 0..MaxRuns /\ idx \in 1..(NumThreads + 1)
  BY DEF Typed, TypeOK, ThreadType, Procs, OwnerType
<1>1. ASSUME NEW p \in Procs, NEW j \in Jobs, AddCall(p, j) PROVE EntryOK'
  BY <1>0, <1>1 DEF AddCall, Goto, EntryOK, Entering
<1>2. ASSUME NEW p \in Procs, Reserve(p) \/ InterruptReserve(p) PROVE EntryOK'
  <2>1. Entering' \subseteq Entering
    BY <1>0, <1>2 DEF Reserve, InterruptReserve, Goto, Entering
  <2> QED
    BY <1>2, <2>1, EntryStays DEF Reserve, InterruptReserve, history
<1>9. ASSUME NEW p \in Procs, Append1(p) PROVE EntryOK'
  <2>1. Entering' \subseteq Entering \ {p} /\ p \in Entering
    BY <1>0, <1>9 DEF Append1, Goto, Entering
  <2>2. UNCHANGED <<used, item>> /\ added' = added \cup ({item[p]} \ {Finish})
    BY <1>9 DEF Append1
  <2>3. item[p] \in Items
    BY <2>1 DEF Typed, CarryOK, Calling, Entering
  <2> QED
    BY <2>1, <2>2, <2>3 DEF EntryOK, Items
<1>3. ASSUME NEW p \in Procs, Post(p) PROVE EntryOK'
  <2>1. Caller(p) \notin {"reserve", "append"}
    BY DEF Caller
  <2>2. Entering' \subseteq Entering /\ pc[p] = "post"
    BY <1>0, <1>3, <2>1 DEF Post, Goto, Entering
  <2>3. p \notin Entering /\ UNCHANGED <<used, added>> /\ item' = [item EXCEPT ![p] = None]
    BY <1>3, <2>2 DEF Post, history, Entering
  <2> QED
    BY <1>0, <2>2, <2>3 DEF EntryOK, Entering, Items
<1>4. ASSUME Mark PROVE EntryOK'
  <2>1. CASE idx <= NumThreads
    BY <1>0, <1>4, <2>1 DEF Mark, history, Goto, EntryOK, Entering
  <2>2. CASE idx > NumThreads
    <3>1. Entering' \subseteq Entering
      BY <1>0, <1>4, <2>2 DEF Mark, Goto, Entering
    <3>2. UNCHANGED <<used, added, item>>
      BY <1>0, <1>4, <2>2 DEF Mark, history
    <3> QED
      BY <3>1, <3>2, EntryStays
  <2> QED
    BY <1>0, <2>1, <2>2
<1>5. ASSUME NEW c \in Clients, BarrierCall(c) \/ SpuriousWake(c) \/ Wake(c) PROVE EntryOK'
  <2>1. Entering' \subseteq Entering
    BY <1>0, <1>5 DEF BarrierCall, SpuriousWake, Wake, CondWait, Goto, Entering
  <2> QED
    BY <1>5, <2>1, EntryStays DEF BarrierCall, SpuriousWake, Wake, history
<1>6. ASSUME NEW w \in Workers, Interrupt(w) \/ Take(w) \/ Pick(w) \/ Room(w) \/ Return(w) \/ Account(w)
      PROVE  EntryOK'
  <2>1. Entering' \subseteq Entering
    BY <1>0, <1>6 DEF Interrupt, Take, Pick, Room, Return, Account, Goto, Entering
  <2> QED
    BY <1>6, <2>1, EntryStays DEF Interrupt, Take, Pick, Room, Return, Account, history
<1>7. ASSUME RunCall \/ RunBlockCall \/ DelCall \/ CancelCall \/ CreateThread \/ RunDone \/ Join \/ FreeAll
      PROVE  EntryOK'
  <2>1. Entering' \subseteq Entering
    BY <1>0, <1>7 DEF RunCall, RunBlockCall, DelCall, CancelCall, CreateThread, RunDone, CondWait, Join, FreeAll,
                      Goto, Entering
  <2> QED
    BY <1>7, <2>1, EntryStays DEF RunCall, RunBlockCall, DelCall, CancelCall, CreateThread, RunDone, Join,
                                  FreeAll, history
<1>8. ASSUME UNCHANGED vars PROVE EntryOK'
  BY <1>8, EntryStays DEF vars, history, Entering
<1> QED
  BY <1>1, <1>2, <1>3, <1>4, <1>5, <1>6, <1>7, <1>8, <1>9, NextCases DEF Procedure, Terminated

\* Once deletion began no other client is inside a call.
QuietOK == closing => \A c \in Clients \ {Owner} : pc[c] \in {"idle", "stray"}

\* Every step keeps it: deletion begins when no call of another client is open,
\* and a client does not begin a call after it.
LEMMA StepQuiet == ASSUME ConstantsOK, MaxRuns = 1 PROVE Typed /\ Life /\ QuietOK /\ [Next]_vars => QuietOK'
<1> SUFFICES ASSUME Typed, Life, QuietOK, [Next]_vars PROVE QuietOK'
  OBVIOUS
<1>0. /\ pc \in [Procs -> Places] /\ Owner \in Procs /\ Clients \subseteq Procs /\ Workers \subseteq Procs
      /\ Owner \notin Workers
  BY DEF Typed, TypeOK, ThreadType, Procs
<1>1. ASSUME NEW p \in Procs, NEW j \in Jobs, AddCall(p, j) PROVE QuietOK'
  BY <1>0, <1>1 DEF AddCall, MayCall, Goto, owner, QuietOK
<1>2. ASSUME NEW p \in Procs, Reserve(p) \/ InterruptReserve(p) \/ Append1(p) \/ Post(p)
      PROVE  QuietOK'
  <2>1. /\ pc[p] \in Calling /\ (\E l : pc' = [pc EXCEPT ![p] = l]) /\ closing' = closing
    BY <1>2 DEF Reserve, InterruptReserve, Append1, Post, Goto, owner, Calling
  <2> QED
    BY <1>0, <2>1 DEF QuietOK, Calling
<1>3. ASSUME NEW c \in Clients, BarrierCall(c) \/ SpuriousWake(c) \/ Wake(c) PROVE QuietOK'
  BY <1>0, <1>3 DEF BarrierCall, SpuriousWake, Wake, CondWait, Goto, owner, QuietOK
<1>4. ASSUME NEW w \in Workers, Interrupt(w) \/ Take(w) \/ Room(w) \/ Return(w) PROVE QuietOK'
  <2>1. (\E l : pc' = [pc EXCEPT ![w] = l]) /\ closing' = closing
    BY <1>4 DEF Interrupt, Take, Room, Return, Goto, owner
  <2> QED
    BY <1>0, <2>1 DEF QuietOK
<1>5. ASSUME NEW w \in Workers, Pick(w) PROVE QuietOK'
  BY <1>0, <1>5 DEF Pick, Goto, owner, QuietOK
<1>6. ASSUME NEW w \in Workers, Account(w) PROVE QuietOK'
  BY <1>0, <1>6 DEF Account, owner, QuietOK
<1>7. ASSUME RunCall \/ RunBlockCall \/ DelCall \/ CancelCall PROVE QuietOK'
  BY <1>0, <1>7 DEF RunCall, RunBlockCall, DelCall, CancelCall, MayDelete, Goto, QuietOK
<1>8. ASSUME CreateThread PROVE QuietOK'
  <2>1. <<idx, runs>> \in Workers
    BY <1>8 DEF CreateThread, Workers, Typed, TypeOK, OwnerType, FreshOK
  <2> QED
    BY <1>0, <1>8, <2>1 DEF CreateThread, Goto, QuietOK
<1>9. ASSUME RunDone \/ Mark \/ Join \/ FreeAll PROVE QuietOK'
  BY <1>0, <1>9 DEF RunDone, CondWait, Mark, Join, FreeAll, Goto, owner, QuietOK
<1>10. ASSUME UNCHANGED vars PROVE QuietOK'
  BY <1>10 DEF vars, owner, QuietOK
<1> QED
  BY <1>1, <1>2, <1>3, <1>4, <1>5, <1>6, <1>7, <1>8, <1>9, <1>10, NextCases DEF Procedure, Terminated

\* After the queue is released nothing happens any more.
LEMMA ClosedStill ==
  ASSUME ConstantsOK, MaxRuns = 1, Typed, Life, QuietOK, Closed, [Next]_vars
  PROVE  UNCHANGED vars
<1>1. /\ pc[Owner] = "closed" /\ closing /\ \A w \in Workers : pc[w] = "exited"
      /\ \A c \in Clients \ {Owner} : pc[c] \in {"idle", "stray"}
  BY DEF Life, Closed, QuietOK
<1>2. \A p \in Procs : pc[p] \in {"closed", "exited", "idle", "stray"}
  BY <1>1 DEF Procs
<1>3. \A p \in Procs : /\ ~Reserve(p) /\ ~InterruptReserve(p) /\ ~Append1(p) /\ ~Post(p)
                       /\ \A j \in Jobs : ~AddCall(p, j)
  BY <1>1, <1>2 DEF Reserve, InterruptReserve, Append1, Post, AddCall, MayCall
<1>4. \A c \in Clients : ~BarrierCall(c) /\ ~SpuriousWake(c) /\ ~Wake(c)
  BY <1>1, <1>2 DEF BarrierCall, SpuriousWake, Wake, Procs
<1>5. \A w \in Workers : ~Interrupt(w) /\ ~Take(w) /\ ~Pick(w) /\ ~Room(w) /\ ~Return(w) /\ ~Account(w)
  BY <1>1 DEF Interrupt, Take, Pick, Room, Return, Account
<1>6. ~RunCall /\ ~RunBlockCall /\ ~DelCall /\ ~CancelCall
  BY <1>1 DEF RunCall, RunBlockCall, DelCall, CancelCall, MayDelete
<1>7. ~CreateThread /\ ~RunDone /\ ~Mark /\ ~Join /\ ~FreeAll
  BY <1>1 DEF CreateThread, RunDone, Mark, Join, FreeAll
<1> QED
  BY <1>3, <1>4, <1>5, <1>6, <1>7, NextCases DEF Procedure, Terminated

----------------------------------------------------------------------------
(* Where the jobs are.                                                     *)

\* No job stands in the list twice.
Distinct(s) == \A i, k \in DOMAIN s : s[i] = s[k] /\ s[i] \in Jobs => i = k

\* What appending a task does to the members of the list.
LEMMA AppendFacts ==
  ASSUME ConstantsOK, NEW s \in Seq(Items), NEW x \in Items
  PROVE  /\ Range(Append(s, x)) = Range(s) \cup {x}
         /\ Distinct(s) /\ (x \in Jobs => x \notin Range(s)) => Distinct(Append(s, x))
<1>1. /\ DOMAIN Append(s, x) = 1..(Len(s) + 1) /\ DOMAIN s = 1..Len(s) /\ Len(s) \in Nat
      /\ \A i \in 1..Len(s) : Append(s, x)[i] = s[i]
      /\ Append(s, x)[Len(s) + 1] = x
  OBVIOUS
<1>2. Range(Append(s, x)) = Range(s) \cup {x}
  BY <1>1 DEF Range
<1>3. ASSUME Distinct(s), x \in Jobs => x \notin Range(s) PROVE Distinct(Append(s, x))
  BY <1>1, <1>3 DEF Distinct, Range
<1> QED
  BY <1>2, <1>3

\* What taking the first task does to the members of the list.
LEMMA TailFacts ==
  ASSUME ConstantsOK, NEW s \in Seq(Items), s # <<>>
  PROVE  /\ Head(s) \in Range(s) /\ Head(s) \in Items
         /\ Range(s) = Range(Tail(s)) \cup {Head(s)}
         /\ Distinct(s) => Distinct(Tail(s)) /\ (Head(s) \in Jobs => Head(s) \notin Range(Tail(s)))
<1>1. /\ DOMAIN Tail(s) = 1..(Len(s) - 1) /\ DOMAIN s = 1..Len(s) /\ Len(s) \in Nat \ {0}
      /\ \A i \in 1..(Len(s) - 1) : Tail(s)[i] = s[i + 1]
      /\ Head(s) = s[1] /\ Head(s) \in Items
  OBVIOUS
<1>2. Range(s) = Range(Tail(s)) \cup {Head(s)}
  <2>1. ASSUME NEW k \in 1..Len(s), k # 1 PROVE k - 1 \in 1..(Len(s) - 1) /\ s[k] = Tail(s)[k - 1]
    <3>1. k - 1 \in 1..(Len(s) - 1) /\ (k - 1) + 1 = k
      BY <1>1, <2>1
    <3> QED
      BY <1>1, <3>1
  <2>2. \A i \in 1..(Len(s) - 1) : i + 1 \in 1..Len(s)
    BY <1>1
  <2>3. 1 \in 1..Len(s)
    BY <1>1
  <2>4. Range(s) = {s[k] : k \in 1..Len(s)} /\ Range(Tail(s)) = {Tail(s)[k] : k \in 1..(Len(s) - 1)}
    BY <1>1, Zenon DEF Range
  <2>5. ASSUME NEW x \in Range(s) PROVE x \in Range(Tail(s)) \cup {Head(s)}
    BY <1>1, <2>1, <2>4, <2>5
  <2>6. ASSUME NEW x \in Range(Tail(s)) PROVE x \in Range(s)
    BY <1>1, <2>2, <2>4, <2>6
  <2>7. Head(s) \in Range(s)
    BY <1>1, <2>3, <2>4
  <2> QED
    BY <2>5, <2>6, <2>7
<1>3. ASSUME Distinct(s) PROVE Distinct(Tail(s)) /\ (Head(s) \in Jobs => Head(s) \notin Range(Tail(s)))
  <2>1. \A i \in 1..(Len(s) - 1) : i + 1 \in 1..Len(s) /\ i + 1 # 1 /\ 1 \in 1..Len(s)
    BY <1>1
  <2>2. \A i, k \in 1..(Len(s) - 1) : i + 1 = k + 1 => i = k
    OBVIOUS
  <2> QED
    BY <1>1, <1>3, <2>1, <2>2 DEF Distinct, Range
<1>4. Head(s) \in Range(s)
  BY <1>2
<1> QED
  BY <1>1, <1>2, <1>3, <1>4

\* Where a worker still has to finish the job it has taken.
Unfinished == {"room", "run"} \cup Calling

\* Every job that was added is in exactly one place: in the list, held by one
\* worker, finished, or thrown away by borTasksCancelDel; and it has run once in
\* the third place and in none of the others.
PlaceOK ==
  /\ Distinct(tasks)
  /\ \A v, w \in Workers : cur[v] = cur[w] /\ cur[v] \in Jobs => v = w
  /\ Queued \cap (Held \cup finished \cup dropped) \subseteq {Finish}
  /\ \A w \in Workers : pc[w] \in Unfinished => cur[w] \notin finished
  /\ \A w \in Workers : pc[w] = "account" => cur[w] \in finished \cup {Finish}
  /\ dropped \cap (Held \cup finished) = {}
  /\ ~Closed => added = ((Queued \cup Held) \cap Jobs) \cup finished \cup dropped

\* What is queued, held and finished stays, and so does what each worker has
\* to do with it.
LEMMA PlaceStays ==
  ASSUME ConstantsOK, PlaceOK, ~Closed, UNCHANGED <<tasks, cur, added, finished, dropped>>,
         \A w \in Workers : pc'[w] \in Unfinished => pc[w] \in Unfinished,
         \A w \in Workers : pc'[w] = "account" => pc[w] = "account" \/ cur[w] = Finish
  PROVE  PlaceOK'
<1>1. Held' = Held /\ Queued' = Queued
  BY DEF Held, Busy, Queued
<1> QED
  BY <1>1 DEF PlaceOK

\* A new queue has no jobs.
LEMMA InitPlace == ASSUME ConstantsOK PROVE Init => PlaceOK
<1> SUFFICES ASSUME Init PROVE PlaceOK
  OBVIOUS
<1>1. /\ tasks = <<>> /\ added = {} /\ finished = {} /\ dropped = {}
      /\ \A w \in Workers : cur[w] = None /\ pc[w] = "none"
  BY DEF Init, Procs
<1>2. Queued = {} /\ Held = {}
  BY <1>1 DEF Queued, Range, Held, Busy
<1> QED
  BY <1>1, <1>2 DEF PlaceOK, Distinct, Unfinished, Calling, Items

\* _borTasksAdd puts a new job into the list.
LEMMA PlaceAppend ==
  ASSUME ConstantsOK, Typed, EntryOK, PlaceOK, ~Closed, NEW p \in Procs, Append1(p)
  PROVE  PlaceOK'
<1>1. /\ pc[p] = "append" /\ pc' = [pc EXCEPT ![p] = "post"] /\ pc \in [Procs -> Places]
      /\ tasks' = Append(tasks, item[p]) /\ UNCHANGED <<cur, finished, dropped>>
      /\ added' = added \cup ({item[p]} \ {Finish}) /\ tasks \in Seq(Items)
  BY DEF Append1, Goto, history, Typed, TypeOK, QueueType, ThreadType
<1>2. item[p] \in Items /\ (item[p] \in Jobs => item[p] \notin added)
  BY <1>1 DEF Typed, CarryOK, Calling, EntryOK, Entering
<1>3. Queued' = Queued \cup {item[p]} /\ Held' = Held
  BY <1>1, <1>2, AppendFacts DEF Queued, Held, Busy
<1>4. item[p] \in Jobs => item[p] \notin Queued \cup Held \cup finished \cup dropped
  BY <1>2 DEF PlaceOK
<1>5. Distinct(tasks')
  BY <1>1, <1>2, <1>4, AppendFacts DEF PlaceOK, Queued
<1>6. \A w \in Workers : /\ pc'[w] \in Unfinished => pc[w] \in Unfinished
                         /\ pc'[w] = "account" => pc[w] = "account"
  BY <1>1 DEF Unfinished, Calling
<1>7. Queued' \cap (Held' \cup finished' \cup dropped') \subseteq {Finish}
  BY <1>1, <1>2, <1>3, <1>4 DEF PlaceOK, Items
<1>8. added' = ((Queued' \cup Held') \cap Jobs) \cup finished' \cup dropped'
  BY <1>1, <1>2, <1>3 DEF PlaceOK, Items
<1> QED
  BY <1>1, <1>5, <1>3, <1>6, <1>7, <1>8 DEF PlaceOK

\* A worker takes the first task.
LEMMA PlacePick ==
  ASSUME ConstantsOK, Typed, PlaceOK, ~Closed, NEW w \in Workers, Pick(w)
  PROVE  PlaceOK'
<1>1. /\ pc[w] = "pick" /\ pc \in [Procs -> Places] /\ w \in Procs /\ tasks \in Seq(Items)
      /\ cur \in [Workers -> Items \cup {None}] /\ cur[w] = None
      /\ UNCHANGED <<added, finished, dropped>> /\ finished \subseteq Jobs
  BY DEF Pick, Goto, history, Typed, TypeOK, QueueType, ThreadType, HistoryType, CarryOK, Procs
<1>2. CASE tasks = <<>>
  BY <1>1, <1>2, PlaceStays DEF Pick, Unfinished, Calling, Procs
<1>3. CASE tasks # <<>>
  <2> DEFINE h == Head(tasks)
  <2>1. /\ pc' = [pc EXCEPT ![w] = "room"] /\ cur' = [cur EXCEPT ![w] = h]
        /\ tasks' = Tail(tasks)
    BY <1>3 DEF Pick, Goto
  <2>2. /\ h \in Queued /\ h \in Items /\ Queued = Queued' \cup {h}
        /\ Distinct(tasks') /\ (h \in Jobs => h \notin Queued')
    BY <1>1, <1>3, <2>1, TailFacts DEF Queued, PlaceOK
  <2> HIDE DEF h
  <2>3. Held' = Held \cup {h}
    BY <1>1, <2>1, <2>2 DEF Held, Busy
  <2>4. h \in Jobs => h \notin Held \cup finished \cup dropped
    BY <2>2 DEF PlaceOK
  <2>5. Finish \notin dropped /\ Finish \notin finished
    BY <1>1 DEF PlaceOK, Typed, TypeOK, HistoryType
  <2>6. \A v, u \in Workers : cur'[v] = cur'[u] /\ cur'[v] \in Jobs => v = u
    <3>1. \A v \in Workers : cur[v] \in Jobs => cur[v] \in Held
      BY DEF Held, Busy, Items
    <3> QED
      BY <1>1, <2>1, <2>4, <3>1 DEF PlaceOK
  <2>7. Queued' \cap (Held' \cup finished' \cup dropped') \subseteq {Finish}
    BY <1>1, <2>2, <2>3 DEF PlaceOK, Items
  <2>8. \A v \in Workers : /\ pc'[v] \in Unfinished => cur'[v] \notin finished'
                           /\ pc'[v] = "account" => cur'[v] \in finished' \cup {Finish}
    BY <1>1, <2>1, <2>2, <2>4, <2>5 DEF PlaceOK, Unfinished, Items
  <2>9. dropped' \cap (Held' \cup finished') = {}
    BY <1>1, <2>2, <2>3, <2>4, <2>5 DEF PlaceOK, Items
  <2>10. added' = ((Queued' \cup Held') \cap Jobs) \cup finished' \cup dropped'
    BY <1>1, <2>2, <2>3 DEF PlaceOK
  <2> QED
    BY <2>2, <2>6, <2>7, <2>8, <2>9, <2>10 DEF PlaceOK
<1> QED
  BY <1>2, <1>3

\* A callback returns.
LEMMA PlaceReturn ==
  ASSUME ConstantsOK, Typed, PlaceOK, ~Closed, NEW w \in Workers, Return(w)
  PROVE  PlaceOK'
<1>1. /\ pc[w] = "run" /\ pc' = [pc EXCEPT ![w] = "account"] /\ pc \in [Procs -> Places] /\ w \in Procs
      /\ finished' = finished \cup {cur[w]} /\ UNCHANGED <<tasks, cur, added, dropped>>
      /\ cur[w] \in Jobs
  BY DEF Return, Goto, queue, Typed, TypeOK, ThreadType, CarryOK, Procs
<1>2. Held' = Held /\ Queued' = Queued /\ cur[w] \in Held
  BY <1>1 DEF Held, Busy, Queued, Items
<1>3. \A v \in Workers : v # w => cur[v] # cur[w]
  BY <1>1 DEF PlaceOK
<1>4. \A v \in Workers : /\ pc'[v] \in Unfinished => pc[v] \in Unfinished /\ v # w
                         /\ pc'[v] = "account" => pc[v] = "account" \/ v = w
  BY <1>1 DEF Unfinished, Calling
<1> QED
  BY <1>1, <1>2, <1>3, <1>4 DEF PlaceOK

\* A worker is done with its task.
LEMMA PlaceAccount ==
  ASSUME ConstantsOK, Typed, PlaceOK, ~Closed, NEW w \in Workers, Account(w)
  PROVE  PlaceOK'
<1>1. /\ pc[w] = "account" /\ w \in Procs /\ cur \in [Workers -> Items \cup {None}]
      /\ cur' = [cur EXCEPT ![w] = None] /\ UNCHANGED <<tasks, added, finished, dropped>>
      /\ cur[w] \in Items /\ finished \subseteq Jobs
  BY DEF Account, history, Typed, TypeOK, ThreadType, HistoryType, CarryOK, Procs
<1>2. cur[w] \in finished \cup {Finish}
  BY <1>1 DEF PlaceOK
<1>3. Held' \subseteq Held /\ Held \subseteq Held' \cup {cur[w]} /\ Queued' = Queued
  BY <1>1 DEF Held, Busy, Queued
<1>4. \A v \in Workers : /\ pc'[v] \in Unfinished => pc[v] \in Unfinished /\ v # w
                         /\ pc'[v] = "account" => pc[v] = "account" /\ v # w
  BY DEF Account, Unfinished, Calling, Procs
<1>5. added' = ((Queued' \cup Held') \cap Jobs) \cup finished' \cup dropped'
  BY <1>1, <1>2, <1>3 DEF PlaceOK
<1>6. \A v, u \in Workers : cur'[v] = cur'[u] /\ cur'[v] \in Jobs => v = u
  BY <1>1 DEF PlaceOK, Items
<1> QED
  BY <1>1, <1>3, <1>4, <1>5, <1>6 DEF PlaceOK

\* borTasksCancelDel throws the list away.
LEMMA PlaceCancel ==
  ASSUME ConstantsOK, Typed, PlaceOK, ~Closed, dropped = {}, Finish \notin Queued, CancelCall
  PROVE  PlaceOK'
<1>1. /\ tasks' = <<>> /\ dropped' = Queued /\ UNCHANGED <<cur, added, finished>>
      /\ pc' = [pc EXCEPT ![Owner] = "mark"] /\ pc \in [Procs -> Places] /\ Owner \notin Workers
  BY DEF CancelCall, Goto, Queued, Typed, TypeOK, ThreadType, Procs
<1>2. Queued' = {} /\ Held' = Held /\ Distinct(tasks')
  BY <1>1 DEF Queued, Range, Held, Busy, Distinct
<1>3. Queued \subseteq Jobs
  BY DEF Queued, Range, Typed, TypeOK, QueueType, Items
<1>4. \A v \in Workers : pc'[v] = pc[v]
  BY <1>1
<1> QED
  BY <1>1, <1>2, <1>3, <1>4 DEF PlaceOK

----------------------------------------------------------------------------
(* What borTasksDel has to finish.                                        *)

\* What deletion relies on: the tasks that are owed stand in front of every
\* finishing task, so that a worker that got one has left none of them behind.
OwedFirst(s, S) == \A i, k \in DOMAIN s : s[i] = Finish /\ s[k] \in S => k < i

\* The worker that gets a finishing task has left no owed task in the list, and
\* a worker leaves its loop for nothing else.
DelOK ==
  /\ ~closing => /\ owed = {} /\ dropped = {} /\ Finish \notin Queued \cup Held
                 /\ \A w \in Workers : pc[w] # "exited"
  /\ owed \subseteq added /\ owed \cap dropped = {}
  /\ OwedFirst(tasks, owed)
  /\ Finish \in Held \/ (\E w \in Workers : pc[w] = "exited") => Queued \cap owed = {}
  /\ DelComplete

\* A new queue owes nothing.
LEMMA InitDel == ASSUME ConstantsOK PROVE Init => DelOK
<1> SUFFICES ASSUME Init PROVE DelOK
  OBVIOUS
<1>1. /\ tasks = <<>> /\ owed = {} /\ dropped = {} /\ pc[Owner] = "idle"
      /\ \A w \in Workers : cur[w] = None /\ pc[w] = "none"
  BY DEF Init, Procs
<1>2. Queued = {} /\ Held = {}
  BY <1>1 DEF Queued, Range, Held, Busy
<1> QED
  BY <1>1, <1>2 DEF DelOK, OwedFirst, DelComplete, Closed

\* The list keeps its order.
LEMMA AppendOwed ==
  ASSUME ConstantsOK, NEW s \in Seq(Items), NEW x, NEW S, OwedFirst(s, S), x \notin S
  PROVE  OwedFirst(Append(s, x), S)
<1>1. /\ DOMAIN Append(s, x) = 1..(Len(s) + 1) /\ DOMAIN s = 1..Len(s) /\ Len(s) \in Nat
      /\ \A i \in 1..Len(s) : Append(s, x)[i] = s[i]
      /\ Append(s, x)[Len(s) + 1] = x
  OBVIOUS
<1> QED
  BY <1>1 DEF OwedFirst

\* Taking the first task keeps the order, and a finishing task comes out only
\* when no owed task is left behind it.
LEMMA TailOwed ==
  ASSUME ConstantsOK, NEW s \in Seq(Items), s # <<>>, NEW S, OwedFirst(s, S)
  PROVE  /\ OwedFirst(Tail(s), S)
         /\ Head(s) = Finish => Range(s) \cap S = {}
<1>1. /\ DOMAIN Tail(s) = 1..(Len(s) - 1) /\ DOMAIN s = 1..Len(s) /\ Len(s) \in Nat \ {0}
      /\ \A i \in 1..(Len(s) - 1) : Tail(s)[i] = s[i + 1]
      /\ Head(s) = s[1]
  OBVIOUS
<1>2. OwedFirst(Tail(s), S)
  <2> SUFFICES ASSUME NEW i \in 1..(Len(s) - 1), NEW k \in 1..(Len(s) - 1),
                      Tail(s)[i] = Finish, Tail(s)[k] \in S
               PROVE  k < i
    BY <1>1 DEF OwedFirst
  <2>1. /\ i + 1 \in DOMAIN s /\ k + 1 \in DOMAIN s
        /\ s[i + 1] = Finish /\ s[k + 1] \in S
    BY <1>1
  <2>2. k + 1 < i + 1
    BY <2>1 DEF OwedFirst
  <2> QED
    BY <2>2
<1>3. ASSUME Head(s) = Finish, NEW k \in DOMAIN s PROVE s[k] \notin S
  <2>1. 1 \in DOMAIN s /\ s[1] = Finish /\ k \in 1..Len(s)
    BY <1>1, <1>3
  <2>2. s[k] \in S => k < 1
    BY <2>1 DEF OwedFirst
  <2> QED
    BY <2>1, <2>2, <1>1
<1> QED
  BY <1>2, <1>3 DEF Range

\* Steps that leave list, hands and histories alone, before the queue is gone.
LEMMA DelStays ==
  ASSUME ConstantsOK, DelOK, UNCHANGED <<tasks, cur, owed, dropped>>, added \subseteq added', ~Closed', closing => closing',
         \A w \in Workers : pc'[w] = "exited" => pc[w] = "exited"
  PROVE  DelOK'
<1>1. Held' = Held /\ Queued' = Queued
  BY DEF Held, Busy, Queued
<1> QED
  BY <1>1 DEF DelOK, DelComplete

\* _borTasksAdd puts a task behind the others.
LEMMA DelAppend ==
  ASSUME ConstantsOK, Typed, Life, EntryOK, DelOK, ~Closed, NEW p \in Procs, Append1(p)
  PROVE  DelOK'
<1>1. /\ pc[p] = "append" /\ pc' = [pc EXCEPT ![p] = "post"] /\ pc \in [Procs -> Places] /\ Owner \in Procs
      /\ tasks' = Append(tasks, item[p]) /\ UNCHANGED <<cur, owed, dropped, closing>>
      /\ added' = added \cup ({item[p]} \ {Finish}) /\ tasks \in Seq(Items)
      /\ added \subseteq Jobs
  BY DEF Append1, Goto, history, owner, Typed, TypeOK, QueueType, ThreadType, HistoryType, Procs
<1>2. item[p] \in Items /\ (item[p] \in Jobs => item[p] \notin added)
  BY <1>1 DEF Typed, CarryOK, Calling, EntryOK, Entering
<1>3. Queued' = Queued \cup {item[p]} /\ Held' = Held
  BY <1>1, <1>2, AppendFacts DEF Queued, Held, Busy
<1>4. item[p] \notin owed
  BY <1>1, <1>2 DEF DelOK, Items
<1>5. OwedFirst(tasks', owed')
  BY <1>1, <1>4, AppendOwed DEF DelOK
<1>6. item[p] = Finish => closing
  BY <1>1 DEF EntryOK, Life, Calling
<1>7. /\ ~Closed'
      /\ \A w \in Workers : pc'[w] = "exited" => pc[w] = "exited"
  BY <1>1 DEF Closed
<1> QED
  BY <1>1, <1>3, <1>4, <1>5, <1>6, <1>7 DEF DelOK, DelComplete

\* A worker takes the first task.
LEMMA DelPick ==
  ASSUME ConstantsOK, Typed, DelOK, ~Closed, NEW w \in Workers, Pick(w)
  PROVE  DelOK'
<1>1. /\ pc[w] = "pick" /\ pc \in [Procs -> Places] /\ w \in Procs /\ tasks \in Seq(Items)
      /\ cur \in [Workers -> Items \cup {None}] /\ cur[w] = None /\ Owner \in Procs
      /\ UNCHANGED <<added, owed, dropped, closing>>
  BY DEF Pick, Goto, history, owner, Typed, TypeOK, QueueType, ThreadType, CarryOK, Procs
<1>2. CASE tasks = <<>>
  BY <1>1, <1>2, DelStays DEF Pick, Procs, Closed
<1>3. CASE tasks # <<>>
  <2> DEFINE h == Head(tasks)
  <2>1. /\ pc' = [pc EXCEPT ![w] = "room"] /\ cur' = [cur EXCEPT ![w] = h]
        /\ tasks' = Tail(tasks)
    BY <1>3 DEF Pick, Goto
  <2>2. /\ h \in Items /\ Queued = Queued' \cup {h}
        /\ OwedFirst(tasks', owed') /\ (h = Finish => Queued \cap owed = {})
    BY <1>1, <1>3, <2>1, TailFacts, TailOwed DEF Queued, DelOK
  <2> HIDE DEF h
  <2>3. Held' = Held \cup {h}
    BY <1>1, <2>1, <2>2 DEF Held, Busy
  <2>4. /\ ~Closed'
        /\ \A v \in Workers : pc'[v] = "exited" => pc[v] = "exited"
    BY <1>1, <2>1 DEF Closed
  <2> QED
    BY <1>1, <2>2, <2>3, <2>4 DEF DelOK, DelComplete
<1> QED
  BY <1>2, <1>3

\* A worker is done with its task.
LEMMA DelAccount ==
  ASSUME ConstantsOK, Typed, DelOK, ~Closed, NEW w \in Workers, Account(w)
  PROVE  DelOK'
<1>1. /\ pc[w] = "account" /\ w \in Procs /\ cur \in [Workers -> Items \cup {None}]
      /\ cur' = [cur EXCEPT ![w] = None] /\ UNCHANGED <<tasks, added, owed, dropped, closing>>
      /\ cur[w] \in Items /\ Owner \in Procs
  BY DEF Account, history, owner, Typed, TypeOK, ThreadType, CarryOK, Procs
<1>2. Held' \subseteq Held /\ Queued' = Queued
  BY <1>1 DEF Held, Busy, Queued
<1>3. cur[w] \in Held
  BY <1>1 DEF Held, Busy
<1>4. \A v \in Workers : pc'[v] = "exited" => pc[v] = "exited" \/ Finish \in Held
  BY <1>1, <1>3 DEF Account, Procs
<1>5. ~Closed'
  BY <1>1 DEF Account, Closed
<1> QED
  BY <1>1, <1>2, <1>3, <1>4, <1>5 DEF DelOK, DelComplete

\* Deletion begins: the owed tasks are the ones in the list, no finishing task
\* is there yet; borTasksCancelDel owes none.
LEMMA DelCalls ==
  ASSUME ConstantsOK, Typed, PlaceOK, DelOK, ~Closed, DelCall \/ CancelCall
  PROVE  DelOK'
<1>1. /\ ~closing /\ closing' /\ pc' = [pc EXCEPT ![Owner] = "mark"] /\ pc \in [Procs -> Places]
      /\ Owner \notin Workers /\ Owner \in Procs /\ UNCHANGED <<cur, added>>
  BY DEF DelCall, CancelCall, MayDelete, Goto, history, Typed, TypeOK, ThreadType, Procs
<1>2. /\ Finish \notin Queued \cup Held /\ (\A w \in Workers : pc'[w] # "exited") /\ ~Closed'
  BY <1>1 DEF DelOK, Closed
<1>3. Held' = Held
  BY <1>1 DEF Held, Busy
<1>4. CASE DelCall
  <2>1. tasks' = tasks /\ owed' = added /\ dropped' = dropped /\ Queued' = Queued
    BY <1>4 DEF DelCall, queue, Queued
  <2>2. OwedFirst(tasks', owed')
    BY <1>2, <2>1 DEF OwedFirst, Queued, Range
  <2> QED
    BY <1>1, <1>2, <1>3, <2>1, <2>2 DEF DelOK, DelComplete
<1>5. CASE CancelCall
  <2>1. tasks' = <<>> /\ owed' = added \ Queued /\ dropped' = Queued /\ Queued' = {}
    BY <1>5 DEF CancelCall, Queued, Range
  <2>2. OwedFirst(tasks', owed')
    BY <2>1 DEF OwedFirst
  <2> QED
    BY <1>1, <1>2, <1>3, <2>1, <2>2 DEF DelOK, DelComplete
<1> QED
  BY <1>4, <1>5

\* The queue is released when every worker has had its finishing task.
LEMMA DelFree ==
  ASSUME ConstantsOK, MaxRuns = 1, Typed, Life, PlaceOK, DelOK, ~Closed, FreeAll
  PROVE  DelOK'
<1>1. /\ pc[Owner] = "join" /\ idx > NumThreads /\ pc' = [pc EXCEPT ![Owner] = "closed"]
      /\ tasks' = <<>> /\ UNCHANGED <<cur, added, finished, owed, dropped, closing>>
      /\ pc \in [Procs -> Places] /\ Owner \in Procs /\ Owner \notin Workers
  BY DEF FreeAll, Goto, history, owner, Typed, TypeOK, ThreadType, Procs
<1>2. closing /\ \A s \in 1..NumThreads : pc[<<s, 1>>] = "exited"
  BY <1>1 DEF Life, Typed, TypeOK, OwnerType
<1>3. (\A w \in Workers : pc[w] = "exited") /\ <<1, 1>> \in Workers
  BY <1>2 DEF Workers
<1>4. Held = {} /\ Queued \cap owed = {}
  BY <1>3 DEF DelOK, Held, Busy, Typed, CarryOK
<1>5. owed \subseteq finished
  BY <1>4 DEF DelOK, PlaceOK
<1>6. Held' = {} /\ Queued' = {} /\ OwedFirst(tasks', owed')
  BY <1>1, <1>4 DEF Held, Busy, Queued, Range, OwedFirst
<1>7. \A w \in Workers : pc'[w] = "exited"
  BY <1>1, <1>3
<1> QED
  BY <1>1, <1>2, <1>5, <1>6, <1>7 DEF DelOK, DelComplete

----------------------------------------------------------------------------
(* The counter, and what a barrier waits for.                             *)

\* What a client waits for was in the queue, and has been run when the client
\* is woken by a worker.
SnapOK ==
  /\ \A c \in Clients : snap[c] \subseteq added
  /\ spurious = 0 => \A c \in Clients : pc[c] = "woken" => snap[c] \subseteq finished

\* The counter pending, also when tasks were thrown away: these it counts
\* for ever.
Counted ==
  Closed \/ IF dropped = {} THEN pending = Len(tasks) + Cardinality(Busy)
            ELSE pending > Len(tasks) + Cardinality(Busy)

\* The busy threads can be counted.
LEMMA BusyCard ==
  ASSUME ConstantsOK, Typed
  PROVE  IsFiniteSet(Busy) /\ Cardinality(Busy) \in Nat
<1>1. IsFiniteSet(Busy)
  BY FiniteProcs, FS_Subset DEF Busy
<1> QED
  BY <1>1, FS_CardinalityType

\* Nothing is pending in a new queue and nobody waits.
LEMMA InitCounted == ASSUME ConstantsOK PROVE Init => SnapOK /\ Counted
<1> SUFFICES ASSUME Init PROVE SnapOK /\ Counted
  OBVIOUS
<1>1. SnapOK
  BY DEF Init, SnapOK, Procs
<1>2. tasks = <<>> /\ pending = 0 /\ dropped = {} /\ Busy = {}
  BY DEF Init, Busy
<1>3. Cardinality(Busy) = 0 /\ Len(tasks) = 0
  BY <1>2, FS_EmptySet
<1> QED
  BY <1>1, <1>2, <1>3 DEF Counted

\* Steps that leave the counter, the list and the busy threads alone.
LEMMA CountedStays ==
  ASSUME ConstantsOK, Counted, ~Closed, UNCHANGED <<tasks, pending, cur, dropped>>
  PROVE  Counted'
<1>1. Busy' = Busy
  BY DEF Busy
<1> QED
  BY <1>1 DEF Counted

\* _borTasksAdd counts the task it puts into the list.
LEMMA CountedAppend ==
  ASSUME ConstantsOK, Typed, Counted, ~Closed, NEW p \in Procs, Append1(p)
  PROVE  Counted'
<1>1. /\ tasks' = Append(tasks, item[p]) /\ pending' = pending + 1 /\ tasks \in Seq(Items)
      /\ UNCHANGED <<cur, dropped>> /\ pending \in Int
  BY DEF Append1, history, Typed, TypeOK, QueueType
<1>2. Busy' = Busy /\ Cardinality(Busy) \in Nat
  BY <1>1, BusyCard DEF Busy
<1>3. PICK m \in Nat, b \in Nat : m = Len(tasks) /\ b = Cardinality(Busy)
  BY <1>1, <1>2
<1>4. Len(tasks') = m + 1
  BY <1>1, <1>3
<1> QED
  BY <1>1, <1>2, <1>3, <1>4 DEF Counted

\* Taking a task moves it from the list to a busy worker; the sum stays.
LEMMA CountedPick ==
  ASSUME ConstantsOK, Typed, Counted, ~Closed, NEW w \in Workers, Pick(w)
  PROVE  Counted'
<1>1. /\ cur \in [Workers -> Items \cup {None}] /\ cur[w] = None /\ tasks \in Seq(Items)
      /\ UNCHANGED <<pending, dropped>> /\ pending \in Int
  BY DEF Pick, history, Typed, TypeOK, ThreadType, QueueType, CarryOK
<1>2. CASE tasks = <<>>
  BY <1>1, <1>2, CountedStays DEF Pick
<1>3. CASE tasks # <<>>
  <2>1. cur' = [cur EXCEPT ![w] = Head(tasks)] /\ tasks' = Tail(tasks) /\ Head(tasks) \in Items
    BY <1>1, <1>3 DEF Pick
  <2>2. Busy' = Busy \cup {w} /\ w \notin Busy
    BY <1>1, <2>1 DEF Busy
  <2>3. Cardinality(Busy \cup {w}) = Cardinality(Busy) + 1
    BY <2>2, BusyCard, FS_AddElement
  <2>4. PICK m \in Nat, b \in Nat : m = Len(tasks) /\ b = Cardinality(Busy) /\ m > 0
    BY <1>1, <1>3, BusyCard
  <2>5. Len(tasks') = m - 1 /\ Cardinality(Busy') = b + 1
    BY <1>1, <1>3, <2>1, <2>2, <2>3, <2>4
  <2> QED
    BY <1>1, <2>4, <2>5 DEF Counted
<1> QED
  BY <1>2, <1>3

\* Accounting makes one worker less busy.
LEMMA AccountBusy ==
  ASSUME ConstantsOK, Typed, NEW w \in Workers, Account(w)
  PROVE  Cardinality(Busy) \in Nat /\ Cardinality(Busy') \in Nat /\ Cardinality(Busy') + 1 = Cardinality(Busy)
<1>1. /\ cur \in [Workers -> Items \cup {None}] /\ cur[w] \in Items
      /\ cur' = [cur EXCEPT ![w] = None]
  BY DEF Account, Typed, TypeOK, ThreadType, CarryOK
<1>2. Busy' = Busy \ {w} /\ w \in Busy
  BY <1>1 DEF Busy
<1>3. IsFiniteSet(Busy) /\ IsFiniteSet(Busy')
  BY <1>2, BusyCard, FS_RemoveElement
<1>4. Cardinality(Busy \ {w}) = Cardinality(Busy) - 1
  BY <1>2, <1>3, FS_RemoveElement
<1>5. Cardinality(Busy) \in Nat /\ Cardinality(Busy') \in Nat
  BY <1>3, FS_CardinalityType
<1> QED
  BY <1>2, <1>4, <1>5

\* A worker that accounts for its task takes one off the counter.
LEMMA CountedAccount ==
  ASSUME ConstantsOK, Typed, Counted, ~Closed, NEW w \in Workers, Account(w)
  PROVE  Counted'
<1>1. /\ pending' = pending - 1 /\ UNCHANGED <<tasks, dropped>> /\ pending \in Int /\ Len(tasks) \in Nat
  BY DEF Account, history, Typed, TypeOK, QueueType
<1>2. PICK m \in Nat, b \in Nat, n \in Nat :
        m = Len(tasks) /\ b = Cardinality(Busy) /\ n = Cardinality(Busy') /\ n + 1 = b
  BY <1>1, AccountBusy
<1> QED
  BY <1>1, <1>2 DEF Counted

\* borTasksCancelDel throws the list away and leaves the counter as it is.
LEMMA CountedCancel ==
  ASSUME ConstantsOK, Typed, Counted, ~Closed, dropped = {}, CancelCall
  PROVE  Counted'
<1>1. /\ tasks' = <<>> /\ dropped' = Range(tasks) /\ UNCHANGED <<pending, cur>> /\ pending \in Int
      /\ tasks \in Seq(Items)
  BY DEF CancelCall, Typed, TypeOK, QueueType
<1>2. Busy' = Busy /\ Len(tasks') = 0
  BY <1>1 DEF Busy
<1>3. PICK m \in Nat, b \in Nat : m = Len(tasks) /\ b = Cardinality(Busy)
  BY <1>1, BusyCard
<1>4. (dropped' = {}) <=> (m = 0)
  BY <1>1, <1>3 DEF Range
<1> QED
  BY <1>1, <1>2, <1>3, <1>4 DEF Counted

\* Nothing is pending when nothing is queued, held or thrown away.
LEMMA PendingNone ==
  ASSUME ConstantsOK
  PROVE  Typed /\ PlaceOK /\ Counted /\ ~Closed /\ pending = 0 => added \subseteq finished
<1> SUFFICES ASSUME Typed, PlaceOK, Counted, ~Closed, pending = 0 PROVE added \subseteq finished
  OBVIOUS
<1>1. tasks \in Seq(Items) /\ added \subseteq Jobs
  BY DEF Typed, TypeOK, QueueType, HistoryType
<1>2. PICK m \in Nat, b \in Nat : m = Len(tasks) /\ b = Cardinality(Busy)
  BY <1>1, BusyCard
<1>3. dropped = {} /\ m = 0 /\ b = 0
  BY <1>2 DEF Counted
<1>4. tasks = <<>>
  <2>1. Len(tasks) = 0
    BY <1>2, <1>3
  <2> QED
    BY ONLY <2>1, <1>1
<1>6. Busy = {}
  BY <1>2, <1>3, BusyCard, FS_EmptySet
<1>5. Queued = {} /\ Held = {}
  BY <1>4, <1>6 DEF Queued, Range, Held
<1> QED
  BY <1>3, <1>4, <1>5 DEF PlaceOK

\* Steps that leave the waiting clients and the finished jobs alone.
LEMMA SnapStays ==
  ASSUME ConstantsOK, SnapOK, snap' = snap, spurious' = spurious, added \subseteq added', finished \subseteq finished',
         \A c \in Clients : pc'[c] = "woken" => pc[c] = "woken"
  PROVE  SnapOK'
BY DEF SnapOK

\* A client begins to wait.
LEMMA SnapWait ==
  ASSUME ConstantsOK, Typed, SnapOK, NEW c \in Clients, CondWait(c), UNCHANGED <<added, finished, spurious>>
  PROVE  SnapOK'
<1>1. /\ snap' = [snap EXCEPT ![c] = added \ finished] /\ pc' = [pc EXCEPT ![c] = "blocked"]
      /\ snap \in [Clients -> SUBSET Jobs] /\ pc \in [Procs -> Places] /\ c \in Procs
  BY DEF CondWait, Goto, Typed, TypeOK, HistoryType, ThreadType, Procs
<1> QED
  BY <1>1 DEF SnapOK

\* The worker that accounts for the last task wakes everybody who waits.
LEMMA SnapAccount ==
  ASSUME ConstantsOK, Typed, PlaceOK, Counted, SnapOK, ~Closed, NEW w \in Workers, Account(w)
  PROVE  SnapOK'
<1>1. /\ UNCHANGED <<added, finished, snap, spurious>> /\ pc[w] = "account" /\ w \in Procs /\ ~Closed'
      /\ \A c \in Clients : pc'[c] = "woken" => pc[c] = "woken" \/ pending' = 0
  BY DEF Account, history, faults, Procs, Closed
<1>2. CASE pending' # 0
  BY <1>1, <1>2, SnapStays
<1>3. CASE pending' = 0
  <2>1. Typed' /\ PlaceOK' /\ Counted'
    BY AccountTyped, PlaceAccount, CountedAccount
  <2>2. (Typed /\ PlaceOK /\ Counted /\ ~Closed /\ pending = 0 => added \subseteq finished)'
    BY PendingNone, PTL
  <2> QED
    BY <1>1, <1>3, <2>1, <2>2 DEF SnapOK
<1> QED
  BY <1>2, <1>3

----------------------------------------------------------------------------
(* All of it together, and the theorems.                                  *)

\* Everything there is to know about the jobs of a queue that is started once.
JobsOK == EntryOK /\ QuietOK /\ PlaceOK /\ DelOK /\ Counted /\ SnapOK

\* A step that leaves the list, the workers' tasks and the histories alone.
LEMMA JobsStay ==
  ASSUME ConstantsOK, JobsOK, ~Closed, ~Closed',
         UNCHANGED <<tasks, pending, cur, added, finished, owed, dropped>>,
         closing => closing',
         \A w \in Workers : pc'[w] \in Unfinished => pc[w] \in Unfinished,
         \A w \in Workers : pc'[w] = "account" => pc[w] = "account" \/ cur[w] = Finish,
         \A w \in Workers : pc'[w] = "exited" => pc[w] = "exited"
  PROVE  PlaceOK' /\ DelOK' /\ Counted'
BY PlaceStays, DelStays, CountedStays DEF JobsOK

\* The steps of _borTasksAdd.
LEMMA JobsAdd ==
  ASSUME ConstantsOK, Typed, Life, JobsOK, ~Closed, NEW p \in Procs,
         (\E j \in Jobs : AddCall(p, j)) \/ Reserve(p) \/ InterruptReserve(p) \/ Append1(p) \/ Post(p)
  PROVE  PlaceOK' /\ DelOK' /\ Counted' /\ SnapOK'
<1>1. CASE Append1(p)
  <2>1. SnapOK'
    BY <1>1, SnapStays DEF Append1, faults, Goto, Typed, TypeOK, ThreadType, JobsOK
  <2> QED
    BY <1>1, <2>1, PlaceAppend, DelAppend, CountedAppend DEF JobsOK
<1>2. CASE (\E j \in Jobs : AddCall(p, j)) \/ Reserve(p) \/ InterruptReserve(p) \/ Post(p)
  <2>1. /\ pc[p] \in {"idle", "run", "reserve", "post"} /\ pc \in [Procs -> Places] /\ Owner \in Procs
        /\ (p \in Workers => pc[p] # "idle") /\ Workers \subseteq Procs /\ Clients \subseteq Procs
        /\ UNCHANGED <<tasks, pending, cur, added, finished, owed, dropped, closing, snap, spurious>>
    BY <1>2 DEF faults, AddCall, MayCall, Reserve, InterruptReserve, Post, queue, owner, history, Typed, TypeOK, ThreadType,
                PcOK, WorkerPlaces, Procs
  <2>2. PICK l \in {"reserve", "append", "run", "idle", "mark"} :
          pc' = [pc EXCEPT ![p] = l] /\ (p \in Workers => l \in Unfinished)
    BY <1>2 DEF AddCall, Reserve, InterruptReserve, Post, Goto, Caller, Unfinished, Calling
  <2>3. ~Closed'
    BY <2>1, <2>2 DEF Closed
  <2>4. PlaceOK' /\ DelOK' /\ Counted'
    BY <2>1, <2>2, <2>3, JobsStay DEF Unfinished, Calling
  <2>5. SnapOK'
    BY <2>1, <2>2, SnapStays DEF JobsOK
  <2> QED
    BY <2>4, <2>5
<1> QED
  BY <1>1, <1>2

\* The steps of a worker thread and of the callbacks it runs.
LEMMA JobsWork ==
  ASSUME ConstantsOK, Typed, Life, JobsOK, ~Closed, NEW w \in Workers,
         Interrupt(w) \/ Take(w) \/ Pick(w) \/ Room(w) \/ Return(w) \/ Account(w)
  PROVE  PlaceOK' /\ DelOK' /\ Counted' /\ SnapOK'
<1>0. /\ pc \in [Procs -> Places] /\ Owner \in Procs /\ w \in Procs /\ w \notin Clients
      /\ Clients \subseteq Procs /\ Workers \subseteq Procs /\ Owner \notin Workers
  BY DEF Typed, TypeOK, ThreadType, Procs
<1>1. CASE Pick(w)
  <2>1. SnapOK'
    <3>1. snap' = snap /\ added' = added /\ finished' = finished /\ spurious' = spurious
      BY <1>1 DEF Pick, history, faults
    <3>2. \A c \in Clients : pc'[c] = "woken" => pc[c] = "woken"
      BY <1>0, <1>1 DEF Pick, Goto
    <3> QED
      BY <3>1, <3>2, SnapStays DEF JobsOK
  <2> QED
    BY <1>1, <2>1, PlacePick, DelPick, CountedPick DEF JobsOK
<1>2. CASE Account(w)
  BY <1>2, PlaceAccount, DelAccount, CountedAccount, SnapAccount DEF JobsOK
<1>3. CASE Return(w)
  <2>1. /\ pc' = [pc EXCEPT ![w] = "account"] /\ UNCHANGED <<tasks, pending, cur, owed, dropped, closing, added, snap, spurious>>
        /\ finished \subseteq finished'
    BY <1>3 DEF faults, Return, Goto, queue, owner
  <2>2. ~Closed'
    BY <1>0, <2>1 DEF Closed
  <2>3. DelOK' /\ Counted'
    BY <1>0, <2>1, <2>2, DelStays, CountedStays DEF JobsOK
  <2>4. SnapOK'
    BY <1>0, <2>1, SnapStays DEF JobsOK
  <2> QED
    BY <1>3, <2>3, <2>4, PlaceReturn DEF JobsOK
<1>4. CASE Interrupt(w) \/ Take(w) \/ Room(w)
  <2>1. UNCHANGED <<tasks, pending, cur, owed, dropped, closing, added, finished, snap, spurious>>
    BY <1>4 DEF faults, Interrupt, Take, Room, queue, owner, history
  <2>2. \E l \in {"pick", "account", "run"} :
          /\ pc' = [pc EXCEPT ![w] = l]
          /\ l = "account" => cur[w] = Finish
          /\ l = "run" => pc[w] = "room"
    BY <1>4 DEF Interrupt, Take, Room, Goto
  <2>3. ~Closed'
    BY <1>0, <2>2 DEF Closed
  <2>4. PlaceOK' /\ DelOK' /\ Counted'
    BY <1>0, <2>1, <2>2, <2>3, JobsStay DEF Unfinished, Calling
  <2>5. SnapOK'
    BY <1>0, <2>1, <2>2, SnapStays DEF JobsOK
  <2> QED
    BY <2>4, <2>5
<1> QED
  BY <1>1, <1>2, <1>3, <1>4

\* The steps of borTasksBarrier.
LEMMA JobsWait ==
  ASSUME ConstantsOK, Typed, Life, JobsOK, ~Closed, NEW c \in Clients, BarrierCall(c) \/ SpuriousWake(c) \/ Wake(c)
  PROVE  PlaceOK' /\ DelOK' /\ Counted' /\ SnapOK'
<1>1. /\ pc[c] # "closed" /\ pc \in [Procs -> Places] /\ Owner \in Procs /\ Workers \subseteq Procs
      /\ Clients \subseteq Procs /\ c \notin Workers /\ c \in Procs
      /\ UNCHANGED <<tasks, pending, cur, owed, dropped, closing, added, finished>>
  BY DEF BarrierCall, SpuriousWake, Wake, queue, owner, history, Typed, TypeOK, ThreadType, Procs
<1>2. \E l \in {"idle", "woken", "blocked"} : pc' = [pc EXCEPT ![c] = l]
  BY DEF BarrierCall, SpuriousWake, Wake, CondWait, Goto
<1>3. ~Closed' /\ \A w \in Workers : pc'[w] = pc[w]
  BY <1>1, <1>2 DEF Closed
<1>4. PlaceOK' /\ DelOK' /\ Counted'
  BY <1>1, <1>3, JobsStay
<1>5. SnapOK'
  <2>1. CASE BarrierCall(c)
    BY <1>1, <2>1, SnapWait DEF BarrierCall, faults, JobsOK
  <2>2. CASE SpuriousWake(c)
    BY <1>1, <2>2 DEF SpuriousWake, history, faults, SnapOK, JobsOK, Typed, TypeOK, OwnerType
  <2>3. CASE Wake(c)
    BY <1>1, <2>3, SnapStays DEF Wake, Goto, history, faults, JobsOK
  <2> QED
    BY <2>1, <2>2, <2>3
<1> QED
  BY <1>4, <1>5

\* The steps of the owner: borTasksRun, borTasksDel, borTasksCancelDel.
LEMMA JobsOwner ==
  ASSUME ConstantsOK, MaxRuns = 1, Typed, Life, JobsOK, ~Closed,
         \/ RunCall \/ RunBlockCall \/ DelCall \/ CancelCall
         \/ CreateThread \/ RunDone \/ Mark \/ Join \/ FreeAll
  PROVE  PlaceOK' /\ DelOK' /\ Counted' /\ SnapOK'
<1>0. /\ pc \in [Procs -> Places] /\ Owner \in Procs /\ Workers \subseteq Procs /\ Clients \subseteq Procs
      /\ Owner \in Clients /\ Owner \notin Workers /\ Clients \cap Workers = {}
      /\ idx \in 1..(NumThreads + 1) /\ runs \in 0..MaxRuns
  BY DEF Typed, TypeOK, ThreadType, OwnerType, Procs
<1>1. CASE DelCall
  <2>1. /\ pc' = [pc EXCEPT ![Owner] = "mark"] /\ pc[Owner] = "idle"
        /\ UNCHANGED <<tasks, pending, cur, dropped, added, finished, snap, spurious>>
    BY <1>1 DEF faults, DelCall, MayDelete, Goto, queue
  <2>2. ~Closed' /\ \A w \in Workers : pc'[w] = pc[w]
    BY <1>0, <2>1 DEF Closed
  <2>3. PlaceOK' /\ Counted' /\ SnapOK'
    BY <1>0, <2>1, <2>2, PlaceStays, CountedStays, SnapStays DEF JobsOK
  <2> QED
    BY <1>1, <2>3, DelCalls DEF JobsOK
<1>2. CASE CancelCall
  <2>1. ~closing /\ dropped = {} /\ Finish \notin Queued
    BY <1>2 DEF CancelCall, MayDelete, JobsOK, DelOK
  <2>2. SnapOK'
    BY <1>0, <1>2, SnapStays DEF CancelCall, faults, Goto, JobsOK
  <2> QED
    BY <1>2, <2>1, <2>2, PlaceCancel, DelCalls, CountedCancel DEF JobsOK
<1>3. CASE FreeAll
  <2>1. /\ pc' = [pc EXCEPT ![Owner] = "closed"] /\ tasks' = <<>>
        /\ UNCHANGED <<cur, dropped, added, finished, snap, spurious>>
    BY <1>3 DEF faults, FreeAll, Goto, history
  <2>2. Closed' /\ Counted'
    BY <1>0, <2>1 DEF Closed, Counted
  <2>3. SnapOK'
    BY <1>0, <2>1, SnapStays DEF JobsOK
  <2>4. Held' = Held /\ Queued' = {} /\ \A w \in Workers : pc'[w] = pc[w]
    BY <1>0, <2>1 DEF Held, Busy, Queued, Range
  <2>5. PlaceOK'
    BY <2>1, <2>2, <2>4 DEF JobsOK, PlaceOK, Distinct
  <2> QED
    BY <1>3, <2>2, <2>3, <2>5, DelFree DEF JobsOK
<1>4. CASE CreateThread
  <2>1. <<idx, runs>> \in Workers /\ <<idx, runs>> \notin Clients
    BY <1>0, <1>4 DEF CreateThread, FreshOK, Typed, Workers
  <2>2. /\ pc' = [pc EXCEPT ![<<idx, runs>>] = "wait"]
        /\ UNCHANGED <<tasks, pending, cur, owed, dropped, closing, added, finished, snap, spurious>>
    BY <1>4 DEF faults, CreateThread, Goto, queue, history
  <2>3. ~Closed' /\ (\A c \in Clients : pc'[c] = pc[c]) /\ (\A w \in Workers : pc'[w] \in {pc[w], "wait"})
    BY <1>0, <2>1, <2>2 DEF Closed
  <2>4. PlaceOK' /\ DelOK' /\ Counted'
    BY <2>2, <2>3, JobsStay DEF Unfinished, Calling
  <2>5. SnapOK'
    BY <2>2, <2>3, SnapStays DEF JobsOK
  <2> QED
    BY <2>4, <2>5
<1>5. CASE RunCall \/ RunBlockCall \/ RunDone \/ Mark \/ Join
  <2>1. UNCHANGED <<tasks, pending, cur, owed, dropped, closing, added, finished, spurious>>
    BY <1>5 DEF faults, RunCall, RunBlockCall, RunDone, Mark, Join, queue, owner, history
  <2>2. pc' = pc \/ \E l \in {"create", "idle", "blocked", "reserve", "join"} : pc' = [pc EXCEPT ![Owner] = l]
    BY <1>5 DEF RunCall, RunBlockCall, RunDone, CondWait, Mark, Join, Goto
  <2>3. ~Closed' /\ (\A w \in Workers : pc'[w] = pc[w])
        /\ (\A c \in Clients : pc'[c] = "woken" => pc[c] = "woken")
    BY <1>0, <2>2 DEF Closed
  <2>4. PlaceOK' /\ DelOK' /\ Counted'
    BY <2>1, <2>3, JobsStay
  <2>5. CASE snap' = snap
    BY <2>1, <2>3, <2>5, SnapStays, <2>4 DEF JobsOK
  <2>6. CASE snap' # snap
    <3>1. RunDone /\ CondWait(Owner)
      BY <1>5, <2>6 DEF RunCall, RunBlockCall, RunDone, Mark, Join, history
    <3> QED
      BY <1>0, <2>1, <2>4, <3>1, SnapWait DEF JobsOK
  <2> QED
    BY <2>5, <2>6
<1> QED
  BY <1>1, <1>2, <1>3, <1>4, <1>5

\* All of it holds of a new queue.
LEMMA InitJobs == ASSUME ConstantsOK PROVE Init => JobsOK
BY InitEntry, InitPlace, InitDel, InitCounted DEF JobsOK, QuietOK, Init

\* Every step of the system keeps it.
LEMMA StepJobs == ASSUME ConstantsOK, MaxRuns = 1 PROVE Typed /\ Life /\ JobsOK /\ [Next]_vars => JobsOK'
<1> SUFFICES ASSUME Typed, Life, JobsOK, [Next]_vars PROVE JobsOK'
  OBVIOUS
<1>1. EntryOK' /\ QuietOK'
  BY StepEntry, StepQuiet DEF JobsOK
<1>2. CASE UNCHANGED vars
  <2>1. Held' = Held /\ Queued' = Queued /\ Busy' = Busy
    BY <1>2 DEF Held, Busy, Queued, vars, queue, history
  <2>2. PlaceOK' /\ Counted' /\ SnapOK'
    BY <1>2, <2>1 DEF JobsOK, PlaceOK, Counted, SnapOK, vars, queue, history, faults, Closed
  <2>3. DelOK'
    BY <1>2, <2>1 DEF JobsOK, DelOK, DelComplete, vars, queue, owner, history, Closed
  <2> QED
    BY <1>1, <2>2, <2>3 DEF JobsOK
<1>3. CASE Closed
  BY <1>2, <1>3, ClosedStill DEF JobsOK
<1>4. CASE ~Closed
  <2>1. Procedure \/ UNCHANGED vars
    BY NextCases
  <2>2. (PlaceOK' /\ DelOK' /\ Counted' /\ SnapOK') \/ UNCHANGED vars
    BY <1>4, <2>1, JobsAdd, JobsWork, JobsWait, JobsOwner DEF Procedure, Terminated
  <2> QED
    BY <1>1, <1>2, <2>2 DEF JobsOK
<1> QED
  BY <1>3, <1>4

\* The queue is started once, as its documentation has it.
LEMMA JobsInductive == ASSUME ConstantsOK, MaxRuns = 1 PROVE Spec => [](Typed /\ Life /\ JobsOK)
<1>1. Init => Typed /\ Life /\ JobsOK
  BY InitTyped, InitLife, InitJobs
<1>2. Typed /\ Life /\ JobsOK /\ [Next]_vars => (Typed /\ Life /\ JobsOK)'
  BY StepTyped, StepLife, StepJobs
<1> QED
  BY <1>1, <1>2, PTL DEF Spec

\* A calm queue has its semaphores in balance with the list.
LEMMA CalmInductive ==
  ASSUME ConstantsOK, MaxRuns = 1 PROVE Spec => [](Typed /\ Life /\ JobsOK /\ (Calm => Synchronised))
<1>1. Init => Typed /\ Life /\ JobsOK /\ (Calm => Synchronised)
  BY InitTyped, InitLife, InitJobs, InitSync
<1>2. Typed /\ JobsOK /\ [Next]_vars /\ Calm' => Calm
  <2> SUFFICES ASSUME Typed, JobsOK, [Next]_vars, Calm' PROVE Calm
    OBVIOUS
  <2>1. CancelCall => dropped = {}
    BY DEF CancelCall, MayDelete, JobsOK, DelOK
  <2> QED
    BY <2>1, StepCalm DEF Calm
<1>3. Typed /\ Life /\ JobsOK /\ (Calm => Synchronised) /\ [Next]_vars
        => (Typed /\ Life /\ JobsOK /\ (Calm => Synchronised))'
  <2> SUFFICES ASSUME Typed, Life, JobsOK, Calm => Synchronised, [Next]_vars
               PROVE  (Typed /\ Life /\ JobsOK /\ (Calm => Synchronised))'
    OBVIOUS
  <2>1. Typed' /\ Life' /\ JobsOK'
    BY StepTyped, StepLife, StepJobs
  <2>2. Calm' => Synchronised'
    BY <1>2, StepSync
  <2> QED
    BY <2>1, <2>2
<1> QED
  BY <1>1, <1>3, PTL DEF Spec

\* No worker of threadMain takes a task from an empty list, unless a wait was
\* interrupted or borTasksCancelDel found a task and left its unit of full.
THEOREM WorkersFindTasks == ASSUME ConstantsOK, MaxRuns = 1 PROVE Spec => []TasksFound
<1>1. (Calm => Synchronised) => TasksFound
  BY DEF Synchronised, TasksFound, Calm
<1> QED
  BY <1>1, CalmInductive, PTL

\* The semaphores full and empty count the tasks of the list and the room left
\* in it, up to the threads that are between a semaphore and the list, as long
\* as no wait of _borTasksAdd or threadMain is interrupted.
THEOREM SemaphoresCount ==
  ASSUME ConstantsOK, MaxRuns = 1, ~AllowCancel PROVE Spec => []SemaphoresMatchList
<1>1. Typed /\ (Calm => Synchronised) /\ dropped = {} => SemaphoresMatchList
  <2> SUFFICES ASSUME Typed, Calm => Synchronised, dropped = {}, ~Closed, ~(interrupts > 0)
               PROVE  SemaphoresMatchList
    BY DEF SemaphoresMatchList
  <2>0. Synchronised
    <3>1. interrupts \in Nat
      BY DEF Typed, TypeOK, OwnerType
    <3>2. interrupts = 0
      BY <3>1
    <3> QED
      BY <3>2 DEF Calm
  <2>1. /\ full + (Cardinality(At("pick")) + Cardinality(At("post"))) = Len(tasks)
        /\ empty + Len(tasks) + (Cardinality(At("room")) + Cardinality(At("append"))) = QueueSize
    BY <2>0 DEF Synchronised, Matched, NAnnounced, NOccupying, Count, At
  <2>2. PICK a \in Nat, b \in Nat, c \in Nat, d \in Nat :
          /\ a = Cardinality(At("pick")) /\ b = Cardinality(At("post"))
          /\ c = Cardinality(At("room")) /\ d = Cardinality(At("append"))
    BY CountsNat DEF Typed, TypeOK, ThreadType, Count, At
  <2>3. full \in Nat /\ empty \in Nat /\ Len(tasks) \in Nat
    BY DEF Typed, TypeOK, QueueType
  <2>4. PICK f \in Nat, e \in Nat, n \in Nat, s \in Nat :
          f = full /\ e = empty /\ n = Len(tasks) /\ s = QueueSize
    BY <2>3
  <2>5. f + (a + b) = n
    BY <2>1, <2>2, <2>4
  <2>6. e + n + (c + d) = s
    BY <2>1, <2>2, <2>4
  <2>7. f + a + b = n
    BY ONLY <2>5, a \in Nat, b \in Nat, f \in Nat
  <2>8. e + n + c + d = s
    BY ONLY <2>6, c \in Nat, d \in Nat, e \in Nat, n \in Nat
  <2> QED
    <3>1. Len(tasks) + Cardinality(dropped) = n
      BY <2>4, FS_EmptySet
    <3> QED
      BY <2>2, <2>4, <2>7, <2>8, <3>1 DEF SemaphoresMatchList
<1>2. Spec => [](dropped = {})
  BY NothingDropped
<1> QED
  BY <1>1, <1>2, CalmInductive, PTL

\* No job is lost and none runs twice: as long as the queue exists every job
\* that borTasksAdd put into it is in the list, in the hands of one worker,
\* finished, or thrown away by borTasksCancelDel, and a worker calls it exactly
\* once (_borTasksAdd, tasksThread, _borTasksCancel).
THEOREM JobsOnce == ASSUME ConstantsOK, MaxRuns = 1 PROVE Spec => []EachJobOnce
<1>1. Typed /\ Life /\ JobsOK => EachJobOnce
  BY DEF JobsOK, PlaceOK, EachJobOnce, Distinct, Unfinished
<1> QED
  BY <1>1, JobsInductive, PTL

\* When borTasksDel has returned, every job that was in the list when it was
\* called has been run: the finishing tasks it adds stand behind all of them.
THEOREM DeletionComplete == ASSUME ConstantsOK, MaxRuns = 1 PROVE Spec => []DelComplete
<1>1. Typed /\ Life /\ JobsOK => DelComplete
  BY DEF JobsOK, DelOK
<1> QED
  BY <1>1, JobsInductive, PTL

\* A client that borTasksBarrier lets go on finds every job finished that was in
\* the queue when it called. Only without spurious wake-ups: pthread_cond_wait
\* stands in no loop there.
THEOREM BarrierWaits == ASSUME ConstantsOK, MaxRuns = 1 PROVE Spec => []BarrierSound
<1>1. Typed /\ Life /\ JobsOK => BarrierSound
  BY PendingNone DEF JobsOK, SnapOK, BarrierSound
<1> QED
  BY <1>1, JobsInductive, PTL

\* The counter pending of tasks.c is the number of tasks in the list and in the
\* workers' hands at every moment, if no tasks are ever thrown away
\* (borTasksCancelDel does not take them off the counter).
THEOREM PendingCounts == ASSUME ConstantsOK, MaxRuns = 1, ~AllowCancel PROVE Spec => []PendingCountsWork
<1>1. Typed /\ Life /\ JobsOK /\ dropped = {} => PendingCountsWork
  <2> SUFFICES ASSUME Typed, JobsOK, dropped = {}, ~Closed PROVE PendingCountsWork
    BY DEF PendingCountsWork
  <2>1. pending = Len(tasks) + Cardinality(Busy)
    BY DEF JobsOK, Counted
  <2>2. Len(tasks) \in Nat /\ Cardinality(Busy) \in Nat /\ Cardinality(dropped) = 0
    BY BusyCard, FS_EmptySet DEF Typed, TypeOK, QueueType
  <2> QED
    BY <2>1, <2>2 DEF PendingCountsWork
<1>2. Spec => [](dropped = {})
  BY NothingDropped
<1> QED
  BY <1>1, <1>2, JobsInductive, PTL

----------------------------------------------------------------------------
(* The queue serves: every step of tasks.c is one of TaskService, or none  *)
(* that a client could see.                                                *)

\* Threads exist that a call of borTasksRun has created, from the first on.
BornOK ==
  pc[Owner] # "stray" =>
    \A s \in 1..NumThreads :
      runs > 0 /\ ~(pc[Owner] = "create" /\ s >= idx) => pc[<<s, 1>>] # "none"

\* A thread that exists stays in existence.
LEMMA BornStays ==
  ASSUME ConstantsOK, BornOK, UNCHANGED runs, pc[Owner] # "stray",
         pc'[Owner] = "create" => pc[Owner] = "create" /\ idx' = idx, pc[Owner] = "create" => pc'[Owner] = "create",
         \A w \in Workers : pc'[w] = "none" => pc[w] = "none"
  PROVE  BornOK'
<1>1. \A s \in 1..NumThreads : <<s, 1>> \in Workers
  BY DEF Workers
<1> QED
  BY <1>1 DEF BornOK

\* Every step keeps it that a thread not yet created has done nothing.
LEMMA StepBorn == ASSUME ConstantsOK, MaxRuns = 1 PROVE Typed /\ BornOK /\ [Next]_vars => BornOK'
<1> SUFFICES ASSUME Typed, BornOK, [Next]_vars PROVE BornOK'
  OBVIOUS
<1>0. /\ pc \in [Procs -> Places] /\ Owner \in Procs /\ Clients \subseteq Procs /\ Workers \subseteq Procs
      /\ Owner \notin Workers /\ \A s \in 1..NumThreads : <<s, 1>> \in Workers
      /\ idx \in 1..(NumThreads + 1) /\ runs \in 0..1
  BY DEF Typed, TypeOK, ThreadType, OwnerType, Procs, Workers
<1>1. CASE pc[Owner] = "stray"
  <2>1. \A p \in Procs : pc[p] = "stray"
    BY <1>0, <1>1 DEF Typed, StrayOK
  <2>2. UNCHANGED vars
    <3>1. \A p \in Procs : /\ ~Reserve(p) /\ ~InterruptReserve(p) /\ ~Append1(p) /\ ~Post(p)
                           /\ \A j \in Jobs : ~AddCall(p, j)
      BY <2>1 DEF Reserve, InterruptReserve, Append1, Post, AddCall, MayCall
    <3>2. \A c \in Clients : ~BarrierCall(c) /\ ~SpuriousWake(c) /\ ~Wake(c)
      BY <1>0, <2>1 DEF BarrierCall, SpuriousWake, Wake
    <3>3. \A w \in Workers : ~Interrupt(w) /\ ~Take(w) /\ ~Pick(w) /\ ~Room(w) /\ ~Return(w) /\ ~Account(w)
      BY <1>0, <2>1 DEF Interrupt, Take, Pick, Room, Return, Account
    <3>4. ~RunCall /\ ~RunBlockCall /\ ~DelCall /\ ~CancelCall /\ ~CreateThread /\ ~RunDone /\ ~Mark /\ ~Join /\ ~FreeAll
      BY <1>1 DEF RunCall, RunBlockCall, DelCall, CancelCall, MayDelete, CreateThread, RunDone, Mark, Join, FreeAll
    <3> QED
      BY <3>1, <3>2, <3>3, <3>4, NextCases DEF Procedure, Terminated
  <2> QED
    BY <1>1, <2>2 DEF vars, BornOK
<1>2. ASSUME pc[Owner] # "stray", NEW p \in Procs, NEW l \in Places \ {"none", "create"}, pc[p] # "none",
             p = Owner => pc[p] # "create", pc' = [pc EXCEPT ![p] = l], UNCHANGED runs, p # Owner => idx' = idx
      PROVE  BornOK'
  <2>1. \A w \in Workers : pc'[w] = "none" => pc[w] = "none"
    BY <1>0, <1>2
  <2>2. pc'[Owner] = "create" => pc[Owner] = "create" /\ idx' = idx
    BY <1>0, <1>2
  <2>3. pc[Owner] = "create" => pc'[Owner] = "create"
    BY <1>0, <1>2
  <2> QED
    BY <1>2, <2>1, <2>2, <2>3, BornStays
<1>3. ASSUME pc[Owner] # "stray", NEW p \in Procs, \E j \in Jobs : AddCall(p, j) PROVE BornOK'
  BY <1>2, <1>3 DEF AddCall, MayCall, Goto, owner, Places, ClientPlaces, WorkerPlaces
<1>4. ASSUME pc[Owner] # "stray", NEW p \in Procs,
             Reserve(p) \/ InterruptReserve(p) \/ Append1(p) \/ Post(p)
      PROVE  BornOK'
  <2>1. Caller(p) \in Places \ {"none", "create"}
    BY DEF Caller, Places, ClientPlaces, WorkerPlaces
  <2>2. (\E l \in Places \ {"none", "create"} : pc' = [pc EXCEPT ![p] = l]) /\ pc[p] \notin {"none", "create"}
    BY <1>4, <2>1 DEF Reserve, InterruptReserve, Append1, Post, Goto, Places, ClientPlaces, WorkerPlaces
  <2>3. UNCHANGED owner
    BY <1>4 DEF Reserve, InterruptReserve, Append1, Post
  <2> QED
    BY <1>2, <1>4, <2>2, <2>3 DEF owner
<1>5. ASSUME pc[Owner] # "stray", NEW c \in Clients, BarrierCall(c) \/ SpuriousWake(c) \/ Wake(c) PROVE BornOK'
  <2>1. (\E l \in Places \ {"none", "create"} : pc' = [pc EXCEPT ![c] = l]) /\ pc[c] \notin {"none", "create"}
    BY <1>5 DEF BarrierCall, SpuriousWake, Wake, CondWait, Goto, Places, ClientPlaces, WorkerPlaces
  <2>2. UNCHANGED owner
    BY <1>5 DEF BarrierCall, SpuriousWake, Wake
  <2> QED
    BY <1>0, <1>2, <1>5, <2>1, <2>2 DEF owner
<1>6. ASSUME pc[Owner] # "stray", NEW w \in Workers, Interrupt(w) \/ Take(w) \/ Room(w) \/ Return(w) PROVE BornOK'
  <2>1. (\E l \in Places \ {"none", "create"} : pc' = [pc EXCEPT ![w] = l]) /\ pc[w] \notin {"none", "create"}
    BY <1>6 DEF Interrupt, Take, Room, Return, Goto, Places, ClientPlaces, WorkerPlaces
  <2>2. UNCHANGED owner
    BY <1>6 DEF Interrupt, Take, Room, Return
  <2> QED
    BY <1>0, <1>2, <1>6, <2>1, <2>2 DEF owner
<1>7. ASSUME pc[Owner] # "stray", NEW w \in Workers, Pick(w) PROVE BornOK'
  <2>1. UNCHANGED owner /\ pc[w] = "pick"
    BY <1>7 DEF Pick
  <2>2. CASE pc' = [pc EXCEPT ![w] = "room"]
    BY <1>0, <1>2, <1>7, <2>1, <2>2 DEF owner, Places, ClientPlaces, WorkerPlaces
  <2>3. CASE pc' = [p \in Procs |-> "stray"]
    BY <1>0, <2>3 DEF BornOK
  <2> QED
    BY <1>7, <2>2, <2>3 DEF Pick, Goto
<1>8. ASSUME pc[Owner] # "stray", NEW w \in Workers, Account(w) PROVE BornOK'
  <2>1. UNCHANGED owner
    BY <1>8 DEF Account
  <2>2. \A v \in Workers : pc'[v] = "none" => pc[v] = "none"
    BY <1>0, <1>8 DEF Account
  <2>3. (pc[Owner] = "create" <=> pc'[Owner] = "create")
    BY <1>0, <1>8 DEF Account
  <2> QED
    BY <1>8, <2>1, <2>2, <2>3, BornStays DEF owner
<1>9. ASSUME RunCall \/ RunBlockCall PROVE BornOK'
  <2>1. idx' = 1 /\ pc' = [pc EXCEPT ![Owner] = "create"]
    BY <1>9 DEF RunCall, RunBlockCall, Goto
  <2>2. \A s \in 1..NumThreads : s >= idx'
    BY <2>1
  <2>3. pc'[Owner] = "create"
    BY <1>0, <2>1
  <2> QED
    BY <2>2, <2>3 DEF BornOK
<1>10. ASSUME pc[Owner] # "stray", DelCall \/ CancelCall \/ Mark \/ Join \/ FreeAll PROVE BornOK'
  <2>1. runs' = runs /\ pc[Owner] # "create"
    BY <1>10 DEF DelCall, CancelCall, MayDelete, Mark, Join, FreeAll, owner
  <2>2. pc' = pc \/ \E l \in Places \ {"none", "create"} : pc' = [pc EXCEPT ![Owner] = l]
    BY <1>10 DEF DelCall, CancelCall, Mark, Join, FreeAll, Goto, Places, ClientPlaces, WorkerPlaces
  <2>3. \A w \in Workers : pc'[w] = pc[w]
    BY <1>0, <2>2
  <2>4. pc'[Owner] # "create"
    BY <1>0, <2>1, <2>2
  <2> QED
    BY <1>10, <2>1, <2>3, <2>4, BornStays
<1>11. ASSUME CreateThread PROVE BornOK'
  <2>1. /\ pc[Owner] = "create" /\ idx \in 1..NumThreads /\ idx' = idx + 1 /\ runs' = runs
        /\ pc' = [pc EXCEPT ![<<idx, runs>>] = "wait"] /\ runs > 0
    BY <1>0, <1>11 DEF CreateThread, Goto, Typed, FreshOK
  <2>2. runs = 1
    BY <1>0, <2>1
  <2>3. pc'[<<idx, 1>>] = "wait" /\ pc'[Owner] = "create"
        /\ \A s \in 1..NumThreads : s # idx => pc'[<<s, 1>>] = pc[<<s, 1>>]
    BY <1>0, <2>1, <2>2
  <2>4. \A s \in 1..NumThreads : ~(s >= idx') => s = idx \/ ~(s >= idx)
    BY <1>0, <2>1
  <2> QED
    BY <2>1, <2>3, <2>4 DEF BornOK
<1>12. ASSUME RunDone PROVE BornOK'
  <2>1. /\ pc[Owner] = "create" /\ idx > NumThreads /\ runs' = runs
        /\ \E l \in {"idle", "blocked"} : pc' = [pc EXCEPT ![Owner] = l]
    BY <1>12 DEF RunDone, CondWait, Goto, owner
  <2>2. \A w \in Workers : pc'[w] = pc[w]
    BY <1>0, <2>1
  <2>3. \A s \in 1..NumThreads : ~(s >= idx)
    BY <1>0, <2>1
  <2> QED
    BY <1>0, <2>1, <2>2, <2>3 DEF BornOK
<1>13. CASE UNCHANGED vars
  BY <1>13 DEF vars, owner, BornOK
<1> QED
  BY <1>1, <1>3, <1>4, <1>5, <1>6, <1>7, <1>8, <1>9, <1>10, <1>11, <1>12, <1>13, NextCases DEF Procedure, Terminated

\* A new queue has no threads, and none has to exist.
LEMMA InitBorn == ASSUME ConstantsOK PROVE Init => BornOK
BY DEF Init, BornOK

\* What the service knows of a queue that keeps its jobs is what was added.
LEMMA AcceptedAll ==
  ASSUME ConstantsOK, Typed, JobsOK, ~Closed
  PROVE  /\ Running \subseteq Jobs
         /\ Service!Accepted \subseteq added
         /\ dropped = {} => Service!Accepted = added
<1>1. /\ tasks \in Seq(Items) /\ finished \subseteq Jobs /\ added \subseteq Jobs
      /\ \A w \in Workers : cur[w] \in Jobs \cup {Finish, None}
  BY DEF Typed, TypeOK, QueueType, ThreadType, HistoryType, Items
<1>2. {Waiting[i] : i \in DOMAIN Waiting} = Queued \ {Finish}
  <2>1. Range(Waiting) = Queued \ {Finish}
    BY <1>1, WithoutMembers DEF Waiting, Queued
  <2> QED
    BY <2>1 DEF Range
<1>3. Queued \subseteq Items
  BY <1>1 DEF Queued, Range
<1>4. \A w \in Workers : w \in Working <=> cur[w] \in Jobs \ finished
  BY <1>1 DEF Working, Busy, Items
<1>5. Running \subseteq Held \cap Jobs
  BY <1>4 DEF Running, Held, Working, Busy
<1>6. Held \cap Jobs \subseteq Running \cup finished
  BY <1>4 DEF Running, Held, Busy
<1>7. added = ((Queued \cup Held) \cap Jobs) \cup finished \cup dropped
  BY DEF JobsOK, PlaceOK
<1>8. Service!Accepted = (Queued \ {Finish}) \cup Running \cup finished
  BY <1>2 DEF Service!Accepted
<1>9. Queued \ {Finish} = Queued \cap Jobs
  BY <1>3 DEF Items
<1> QED
  BY <1>5, <1>6, <1>7, <1>8, <1>9

\* The service sees no difference.
LEMMA SamePhase ==
  ASSUME ConstantsOK, ~Closed, ~Closed', closing' = closing, \A w \in Workers : pc'[w] = "none" <=> pc[w] = "none"
  PROVE  Phase' = Phase
<1>1. Workers \subseteq At("none") <=> \A w \in Workers : pc[w] = "none"
  BY DEF At, Procs
<1>2. (Workers \subseteq At("none"))' <=> \A w \in Workers : pc'[w] = "none"
  BY DEF At, Procs
<1> QED
  BY <1>1, <1>2 DEF Phase

\* The jobs that run stay the same when no thread changes its job and none is
\* finished.
LEMMA SameRunning == ASSUME ConstantsOK, cur' = cur, finished' = finished PROVE Running' = Running
BY DEF Running, Working, Busy

\* A step that leaves the list, the jobs in work and those owed alone, and creates or
\* ends no thread, is one the service does not see.
LEMMA Unseen ==
  ASSUME ConstantsOK, UNCHANGED <<tasks, cur, closing, finished, owed>>, ~Closed, ~Closed',
         \A w \in Workers : pc'[w] = "none" <=> pc[w] = "none"
  PROVE  UNCHANGED Service!vars
BY SamePhase, SameRunning DEF Service!vars, Waiting

\* _borTasksAdd: the service accepts a job when it is put into the list; it does
\* not know of finishing tasks.
LEMMA ServesAdd ==
  ASSUME ConstantsOK, Typed, JobsOK, ~Closed, NEW p \in Procs,
         (\E j \in Jobs : AddCall(p, j)) \/ Reserve(p) \/ InterruptReserve(p) \/ Append1(p) \/ Post(p)
  PROVE  Service!Next \/ UNCHANGED Service!vars
<1>0. /\ pc \in [Procs -> Places] /\ Owner \in Procs /\ Workers \subseteq Procs /\ Owner \notin Workers
      /\ tasks \in Seq(Items)
  BY DEF Typed, TypeOK, QueueType, ThreadType, Procs
<1>1. \E l \in Calling \cup {"run", "mark", "idle"} : pc' = [pc EXCEPT ![p] = l]
  BY DEF AddCall, Reserve, InterruptReserve, Append1, Post, Caller, Goto, Calling
<1>2. pc[p] \in Calling \cup {"run", "idle"}
  BY DEF AddCall, MayCall, Reserve, InterruptReserve, Append1, Post, Calling
<1>3. ~Closed'
  BY <1>0, <1>1 DEF Closed, Calling
<1>4. \A w \in Workers : pc'[w] = "none" <=> pc[w] = "none"
  BY <1>0, <1>1, <1>2 DEF Calling
<1>5. UNCHANGED <<cur, closing, finished, owed>>
  BY DEF AddCall, Reserve, InterruptReserve, Append1, Post, owner, history
<1>6. CASE tasks' = tasks
  BY <1>3, <1>4, <1>5, <1>6, Unseen
<1>7. CASE Append1(p)
  <2>1. /\ pc[p] = "append" /\ item[p] \in Items /\ tasks' = Append(tasks, item[p])
    BY <1>7 DEF Append1, Typed, CarryOK, Calling
  <2>2. Phase' = Phase /\ Running' = Running
    BY <1>3, <1>4, <1>5, SamePhase, SameRunning
  <2>3. Waiting' = IF item[p] = Finish THEN Waiting ELSE Append(Waiting, item[p])
    <3>1. Without(Append(tasks, item[p]), Finish)
            = IF item[p] = Finish THEN Without(tasks, Finish) ELSE Append(Without(tasks, Finish), item[p])
      <4>1. ASSUME NEW q \in Seq(Items), NEW e \in Items
            PROVE  Without(Append(q, e), Finish) = IF e = Finish THEN Without(q, Finish) ELSE Append(Without(q, Finish), e)
        BY WithoutAppend
      <4> QED
        BY <1>0, <2>1, <4>1, Zenon
    <3>2. Waiting' = Without(tasks', Finish)
      BY DEF Waiting
    <3>3. Waiting' = Without(Append(tasks, item[p]), Finish)
      BY <2>1, <3>2
    <3> QED
      BY <3>1, <3>3 DEF Waiting
  <2>4. CASE item[p] = Finish
    BY <1>5, <2>2, <2>3, <2>4 DEF Service!vars
  <2>5. CASE item[p] # Finish
    <3>1. item[p] \in Jobs /\ item[p] \notin added
      BY <2>1, <2>5 DEF Items, JobsOK, EntryOK, Entering
    <3>2. item[p] \notin Service!Accepted
      BY <3>1, AcceptedAll
    <3>3. Phase # "closed"
      BY DEF Phase
    <3>4. Service!Accept(item[p])
      BY <1>5, <2>2, <2>3, <2>5, <3>2, <3>3 DEF Service!Accept
    <3> QED
      BY <3>1, <3>4 DEF Service!Next
  <2> QED
    BY <2>4, <2>5
<1> QED
  BY <1>6, <1>7 DEF AddCall, Reserve, InterruptReserve, Post, queue

\* A worker that has no job leaves room for one more to run.
LEMMA RoomToRun ==
  ASSUME ConstantsOK, Typed, MaxRuns = 1, NEW w \in Workers, cur[w] = None
  PROVE  Cardinality(Running) < NumThreads * MaxRuns
<1>1. IsFiniteSet(Workers) /\ Cardinality(Workers) = NumThreads * MaxRuns
  <2>1. NumThreads \in Int /\ MaxRuns \in Int /\ 1 \in Int /\ 1 <= NumThreads /\ 1 <= MaxRuns
        /\ NumThreads - 1 + 1 = NumThreads /\ MaxRuns - 1 + 1 = MaxRuns
    OBVIOUS
  <2>2. IsFiniteSet(1..NumThreads) /\ Cardinality(1..NumThreads) = NumThreads
    <3>1. IsFiniteSet(1..NumThreads) /\ Cardinality(1..NumThreads) = IF 1 > NumThreads THEN 0 ELSE NumThreads - 1 + 1
      BY <2>1, FS_Interval, Zenon
    <3> QED
      BY <2>1, <3>1
  <2>3. IsFiniteSet(1..MaxRuns) /\ Cardinality(1..MaxRuns) = MaxRuns
    <3>1. IsFiniteSet(1..MaxRuns) /\ Cardinality(1..MaxRuns) = IF 1 > MaxRuns THEN 0 ELSE MaxRuns - 1 + 1
      BY <2>1, FS_Interval, Zenon
    <3> QED
      BY <2>1, <3>1
  <2>4. IsFiniteSet((1..NumThreads) \X (1..MaxRuns))
        /\ Cardinality((1..NumThreads) \X (1..MaxRuns)) = Cardinality(1..NumThreads) * Cardinality(1..MaxRuns)
    BY <2>2, <2>3, FS_Product
  <2> QED
    BY <2>2, <2>3, <2>4 DEF Workers
<1>2. Working \subseteq Workers \ {w}
  BY DEF Working, Busy
<1>3. IsFiniteSet(Workers \ {w}) /\ Cardinality(Workers \ {w}) = NumThreads * MaxRuns - 1
  BY <1>1, FS_RemoveElement
<1>4. IsFiniteSet(Working) /\ Cardinality(Working) <= NumThreads * MaxRuns - 1
  BY <1>2, <1>3, FS_Subset
<1>5. Cardinality(Running) <= Cardinality(Working) /\ IsFiniteSet(Running)
  <2> DEFINE f == [v \in Working |-> cur[v]]
  <2>1. f \in Surjection(Working, Running)
    <3>1. f \in [Working -> Running] /\ \A x \in Running : \E v \in Working : f[v] = x
      BY DEF Running
    <3> QED
      BY <3>1 DEF Surjection
  <2> HIDE DEF f
  <2> QED
    BY <1>4, <2>1, FS_Surjection
<1>6. Cardinality(Running) \in Nat /\ Cardinality(Working) \in Nat /\ NumThreads * MaxRuns \in Nat
  BY <1>4, <1>5, FS_CardinalityType
<1> QED
  BY <1>4, <1>5, <1>6

\* threadMain: the service starts a job when a worker takes it from the list, and
\* completes it when its callback returns; finishing tasks and the accounting it
\* does not see.
LEMMA ServesWork ==
  ASSUME ConstantsOK, MaxRuns = 1, Typed, Life, Synchronised, JobsOK, ~Closed, NEW w \in Workers,
         Take(w) \/ Pick(w) \/ Room(w) \/ Return(w) \/ Account(w)
  PROVE  Service!Next \/ UNCHANGED Service!vars
<1>0. /\ pc \in [Procs -> Places] /\ Owner \in Procs /\ w \in Procs /\ Workers \subseteq Procs /\ w # Owner
      /\ cur \in [Workers -> Items \cup {None}] /\ tasks \in Seq(Items) /\ pc[Owner] # "closed"
  BY DEF Typed, TypeOK, QueueType, ThreadType, Procs, Closed
<1>1. CASE Take(w) \/ Room(w)
  <2>1. UNCHANGED <<tasks, cur, closing, finished, owed>>
    BY <1>1 DEF Take, Room, owner, history
  <2>2. /\ pc[w] \in {"wait", "room"}
        /\ \E l \in {"pick", "account", "run"} : pc' = [pc EXCEPT ![w] = l] /\ (l = "account" => cur[w] = Finish)
    BY <1>1 DEF Take, Room, Goto
  <2>3. ~Closed'
    BY <1>0, <2>2 DEF Closed
  <2> QED
    BY <1>0, <2>1, <2>2, <2>3, Unseen
<1>2. CASE Pick(w)
  <2>1. tasks # <<>> /\ pc[w] = "pick" /\ cur[w] = None
    BY <1>2, PickFinds DEF Pick, Typed, CarryOK
  <2>2. /\ cur' = [cur EXCEPT ![w] = Head(tasks)] /\ tasks' = Tail(tasks) /\ pc' = [pc EXCEPT ![w] = "room"]
        /\ UNCHANGED <<closing, finished, owed>>
    BY <1>2, <2>1 DEF Pick, Goto, owner, history
  <2>3. ~Closed'
    BY <1>0, <2>2 DEF Closed
  <2>4. Phase' = Phase
    BY <1>0, <2>1, <2>2, <2>3, SamePhase
  <2>5. Head(tasks) \in Items
    BY <1>0, <2>1
  <2>6. Waiting' = Without(Tail(tasks), Finish)
    BY <2>2 DEF Waiting
  <2>7. CASE Head(tasks) = Finish
    <3>1. Waiting' = Waiting
      BY <1>0, <2>1, <2>6, <2>7, WithoutTail DEF Waiting
    <3>2. Working' = Working /\ \A v \in Working : cur'[v] = cur[v]
      BY <1>0, <2>1, <2>2, <2>7 DEF Working, Busy
    <3>3. Running' = Running
      BY <3>2 DEF Running
    <3> QED
      BY <2>2, <2>4, <3>1, <3>3 DEF Service!vars
  <2>8. CASE Head(tasks) # Finish
    <3>1. /\ Waiting # <<>> /\ Head(Waiting) = Head(tasks) /\ Waiting' = Tail(Waiting)
      BY <1>0, <2>1, <2>6, <2>8, WithoutTail DEF Waiting
    <3>2. Head(tasks) # None /\ Head(tasks) \notin finished
      <4>1. Head(tasks) \in Queued
        BY <1>0, <2>1, TailFacts DEF Queued
      <4> QED
        BY <2>5, <2>8, <4>1 DEF JobsOK, PlaceOK
    <3>3. Working' = Working \cup {w} /\ (\A v \in Working : cur'[v] = cur[v]) /\ cur'[w] = Head(tasks)
      BY <1>0, <2>1, <2>2, <2>8, <3>2 DEF Working, Busy
    <3>4. Running' = Running \cup {Head(Waiting)}
      BY <3>1, <3>3 DEF Running
    <3>5. Phase \in {"open", "closing"}
      BY <1>0, <2>1 DEF Phase, At
    <3>6. Cardinality(Running) < NumThreads * MaxRuns
      BY <2>1, RoomToRun
    <3>7. Service!Cardinality(Running) = Cardinality(Running)
      BY Zenon DEF Service!Cardinality, Cardinality
    <3>8. Service!Start
      BY <2>2, <2>4, <3>1, <3>4, <3>5, <3>6, <3>7 DEF Service!Start
    <3> QED
      BY <3>8 DEF Service!Next
  <2> QED
    BY <2>7, <2>8
<1>3. CASE Return(w)
  <2>1. /\ pc[w] = "run" /\ cur[w] \in Jobs /\ pc' = [pc EXCEPT ![w] = "account"] /\ finished' = finished \cup {cur[w]}
        /\ UNCHANGED <<tasks, cur, closing, owed>>
    BY <1>3 DEF Return, Goto, queue, owner, Typed, CarryOK
  <2>2. ~Closed'
    BY <1>0, <2>1 DEF Closed
  <2>3. Phase' = Phase /\ Waiting' = Waiting
    BY <1>0, <2>1, <2>2, SamePhase DEF Waiting
  <2>4. w \in Working /\ Working' = Working \ {w}
    <3>1. cur[w] \notin finished
      BY <2>1 DEF JobsOK, PlaceOK, Unfinished
    <3>2. \A v \in Workers : cur[v] = cur[w] => v = w
      BY <2>1 DEF JobsOK, PlaceOK
    <3> QED
      BY <1>0, <2>1, <3>1, <3>2 DEF Working, Busy, Items
  <2>5. \A v \in Working : cur[v] = cur[w] => v = w
    BY <2>1 DEF JobsOK, PlaceOK, Working, Busy
  <2>6. Running' = Running \ {cur[w]} /\ cur[w] \in Running
    BY <2>1, <2>4, <2>5 DEF Running
  <2>7. Service!Complete(cur[w])
    BY <2>1, <2>3, <2>6 DEF Service!Complete
  <2> QED
    BY <2>1, <2>7 DEF Service!Next
<1>4. CASE Account(w)
  <2>1. /\ pc[w] = "account" /\ cur' = [cur EXCEPT ![w] = None] /\ UNCHANGED <<tasks, finished, closing, owed>>
        /\ \A p \in Procs : pc'[p] = IF p = w THEN IF cur[w] = Finish THEN "exited" ELSE "wait"
                                     ELSE IF pending' = 0 /\ pc[p] = "blocked" THEN "woken" ELSE pc[p]
    BY <1>4 DEF Account, owner, history
  <2>2. ~Closed'
    BY <1>0, <2>1 DEF Closed
  <2>3. \A v \in Workers : pc'[v] = "none" <=> pc[v] = "none"
    BY <1>0, <2>1
  <2>4. Phase' = Phase /\ Waiting' = Waiting
    BY <2>1, <2>2, <2>3, SamePhase DEF Waiting
  <2>5. Working' = Working /\ \A v \in Working : cur'[v] = cur[v]
    BY <1>0, <2>1 DEF Working, Busy, JobsOK, PlaceOK
  <2>6. Running' = Running
    BY <2>5 DEF Running
  <2> QED
    BY <2>1, <2>4, <2>6 DEF Service!vars
<1> QED
  BY <1>1, <1>2, <1>3, <1>4

\* borTasksBarrier is no business of the service.
LEMMA ServesWait ==
  ASSUME ConstantsOK, Typed, ~Closed, NEW c \in Clients, BarrierCall(c) \/ SpuriousWake(c) \/ Wake(c)
  PROVE  UNCHANGED Service!vars
<1>1. /\ pc[c] # "closed" /\ pc \in [Procs -> Places] /\ Owner \in Procs /\ Workers \subseteq Procs
      /\ c \notin Workers /\ c \in Procs /\ UNCHANGED <<tasks, cur, closing, finished, owed>>
  BY DEF BarrierCall, SpuriousWake, Wake, queue, owner, history, Typed, TypeOK, ThreadType, Procs
<1>2. \E l \in {"idle", "woken", "blocked"} : pc' = [pc EXCEPT ![c] = l]
  BY DEF BarrierCall, SpuriousWake, Wake, CondWait, Goto
<1>3. ~Closed' /\ \A w \in Workers : pc'[w] = pc[w]
  BY <1>1, <1>2 DEF Closed
<1> QED
  BY <1>1, <1>3, Unseen

\* The first thread that borTasksRun creates opens the service, borTasksDel
\* begins to close it and is done when it releases the queue.
LEMMA ServesOwner ==
  ASSUME ConstantsOK, MaxRuns = 1, Typed, Life, BornOK, JobsOK, JobsOK', ~Closed,
         \/ RunCall \/ RunBlockCall \/ DelCall
         \/ CreateThread \/ RunDone \/ Mark \/ Join \/ FreeAll
  PROVE  Service!Next \/ UNCHANGED Service!vars
<1>0. /\ pc \in [Procs -> Places] /\ Owner \in Procs /\ Workers \subseteq Procs /\ Owner \notin Workers
      /\ idx \in 1..(NumThreads + 1) /\ runs \in 0..1 /\ NumThreads \in Nat \ {0}
      /\ \A s \in 1..NumThreads : <<s, 1>> \in Workers
      /\ \A w \in Workers : \E s \in 1..NumThreads : w = <<s, 1>>
  BY DEF Typed, TypeOK, ThreadType, OwnerType, Procs, Workers
<1>1. CASE RunCall \/ RunBlockCall \/ RunDone \/ Mark \/ Join
  <2>1. UNCHANGED <<tasks, cur, closing, finished, owed>>
    BY <1>1 DEF RunCall, RunBlockCall, RunDone, Mark, Join, queue, owner, history
  <2>2. pc' = pc \/ \E l \in {"create", "idle", "blocked", "reserve", "join"} : pc' = [pc EXCEPT ![Owner] = l]
    BY <1>1 DEF RunCall, RunBlockCall, RunDone, CondWait, Mark, Join, Goto
  <2>3. ~Closed' /\ (\A w \in Workers : pc'[w] = pc[w])
    BY <1>0, <2>2 DEF Closed
  <2> QED
    BY <2>1, <2>3, Unseen
<1>2. CASE CreateThread
  <2> DEFINE new == <<idx, runs>>
  <2>1. /\ new \in Workers /\ pc' = [pc EXCEPT ![new] = "wait"] /\ pc[Owner] = "create"
        /\ UNCHANGED <<tasks, cur, closing, finished, owed>>
    BY <1>0, <1>2 DEF CreateThread, Goto, queue, history, Typed, FreshOK
  <2>2. pc[new] = "none"
    <3>1. idx \in 1..NumThreads /\ runs = 1 /\ 1 \in 1..MaxRuns
      BY <1>0, <1>2 DEF CreateThread, Typed, FreshOK
    <3>2. pc[<<idx, 1>>] \in {"none", "stray"}
      BY <2>1, <3>1 DEF Typed, FreshOK
    <3>3. pc[<<idx, 1>>] # "stray"
      BY <1>0, <2>1, <3>1 DEF Typed, StrayOK
    <3> QED
      BY <3>1, <3>2, <3>3
  <2> HIDE DEF new
  <2>3. cur[new] = None /\ ~closing /\ ~Closed'
    BY <1>0, <2>1, <2>2 DEF Typed, CarryOK, Life, Closed, Calling
  <2>4. Running' = Running /\ Waiting' = Waiting
    BY <2>1, SameRunning DEF Waiting
  <2>5. Phase' = "open"
    <3>1. pc'[new] = "wait" /\ new \in Workers
      BY <1>0, <2>1
    <3>2. ~(Workers \subseteq At("none"))'
      BY <3>1 DEF At
    <3> QED
      BY <2>1, <2>3, <3>2 DEF Phase
  <2>6. Phase \in {"new", "open"}
    BY <2>3 DEF Phase
  <2>7. CASE Phase = "open"
    BY <2>1, <2>4, <2>5, <2>7 DEF Service!vars
  <2>8. CASE Phase = "new"
    BY <2>1, <2>4, <2>5, <2>8 DEF Service!Launch, Service!Next
  <2> QED
    BY <2>6, <2>7, <2>8
<1>3. CASE DelCall
  <2>1. /\ pc' = [pc EXCEPT ![Owner] = "mark"] /\ pc[Owner] = "idle" /\ runs > 0 /\ ~closing /\ closing'
        /\ owed' = added /\ UNCHANGED <<tasks, cur, finished>>
    BY <1>3 DEF DelCall, MayDelete, Goto, queue
  <2>2. ~Closed' /\ \A w \in Workers : pc'[w] = pc[w]
    BY <1>0, <2>1 DEF Closed
  <2>3. Running' = Running /\ Waiting' = Waiting
    BY <2>1, SameRunning DEF Waiting
  <2>4. pc[<<1, 1>>] # "none" /\ <<1, 1>> \in Workers
    BY <1>0, <2>1 DEF BornOK
  <2>5. Phase = "open" /\ Phase' = "closing"
    BY <2>1, <2>2, <2>4 DEF Phase, At
  <2>6. owed' = Service!Accepted
    BY <2>1, AcceptedAll DEF JobsOK, DelOK
  <2> QED
    BY <2>1, <2>3, <2>5, <2>6 DEF Service!BeginClose, Service!Next
<1>4. CASE FreeAll
  <2>1. /\ pc[Owner] = "join" /\ idx > NumThreads /\ pc' = [pc EXCEPT ![Owner] = "closed"] /\ tasks' = <<>>
        /\ UNCHANGED <<cur, closing, finished, owed>>
    BY <1>4 DEF FreeAll, Goto, owner, history
  <2>2. Closed' /\ closing
    BY <1>0, <2>1 DEF Closed, Life
  <2>3. \A w \in Workers : pc[w] = "exited"
    <3>1. \A s \in 1..NumThreads : s < idx
      BY <1>0, <2>1
    <3> QED
      BY <1>0, <2>1, <3>1 DEF Life
  <2>4. \A w \in Workers : cur[w] = None
    BY <2>3 DEF Typed, CarryOK
  <2>5. Running = {} /\ Running' = {}
    BY <2>1, <2>4 DEF Running, Working, Busy
  <2>6. Waiting' = <<>>
    BY <2>1, WithoutEmpty DEF Waiting
  <2>7. owed \subseteq finished
    BY <2>1, <2>2 DEF JobsOK, DelOK, DelComplete
  <2>8. Phase = "closing" /\ Phase' = "closed"
    BY <2>2 DEF Phase
  <2> QED
    BY <2>1, <2>5, <2>6, <2>7, <2>8 DEF Service!Close, Service!Next
<1> QED
  BY <1>1, <1>2, <1>3, <1>4

\* A new queue is a new service.
LEMMA InitServes == ASSUME ConstantsOK PROVE Init => Service!Init
<1> SUFFICES ASSUME Init PROVE Service!Init
  OBVIOUS
<1>1. Waiting = <<>>
  BY WithoutEmpty DEF Init, Waiting
<1>2. Running = {}
  BY DEF Init, Running, Working, Busy
<1>3. Phase = "new"
  BY DEF Init, Phase, Closed, At, Procs
<1> QED
  BY <1>1, <1>2, <1>3 DEF Init, Service!Init

\* The environment assumed from here on: the queue is started once, deleted
\* with borTasksDel, and no signal handler interrupts a wait.
Regular == MaxRuns = 1 /\ MaxInterrupts = 0 /\ ~AllowCancel

\* Every step of the queue is a step of the service or none.
LEMMA StepServes ==
  ASSUME ConstantsOK, Regular
  PROVE  Typed /\ Life /\ Synchronised /\ JobsOK /\ BornOK /\ [Next]_vars => [Service!Next]_(Service!vars)
<1> SUFFICES ASSUME Typed, Life, Synchronised, JobsOK, BornOK, [Next]_vars
             PROVE  Service!Next \/ UNCHANGED Service!vars
  OBVIOUS
<1>0. MaxRuns = 1
  BY DEF Regular
<1>1. JobsOK'
  BY <1>0, StepJobs
<1>2. CASE UNCHANGED vars
  <2>1. Waiting' = Waiting /\ Working' = Working /\ Phase' = Phase
    BY <1>2 DEF vars, queue, owner, history, Waiting, Working, Busy, Phase, Closed, At
  <2>2. Running' = Running
    BY <1>2, <2>1 DEF vars, Running
  <2> QED
    BY <1>2, <2>1, <2>2 DEF vars, history, Service!vars
<1>3. CASE Closed
  BY <1>0, <1>2, <1>3, ClosedStill DEF JobsOK
<1>4. CASE ~Closed
  <2>1. (\A w \in Workers : ~Interrupt(w)) /\ ~CancelCall
    BY DEF Interrupt, CancelCall, Regular, Typed, TypeOK, OwnerType
  <2>2. Procedure \/ UNCHANGED vars
    BY NextCases
  <2> QED
    BY <1>0, <1>1, <1>2, <1>4, <2>1, <2>2, ServesAdd, ServesWork, ServesWait, ServesOwner DEF Procedure, Terminated
<1> QED
  BY <1>3, <1>4

\* tasks.c implements the service: jobs are started in the order in which they
\* were put into the list, each once and no more at a time than there are
\* threads, and borTasksDel returns when every job that was in the list when it
\* was called is finished and no job runs.
THEOREM QueueServes == ASSUME ConstantsOK, Regular PROVE Spec => ImplementsService
<1>1. Init => Service!Init /\ Typed /\ Life /\ Synchronised /\ JobsOK /\ BornOK /\ dropped = {}
  BY InitServes, InitTyped, InitLife, InitSync, InitJobs, InitBorn DEF Init
<1>2. Typed /\ Life /\ Synchronised /\ JobsOK /\ BornOK /\ dropped = {} /\ [Next]_vars
        => (Typed /\ Life /\ Synchronised /\ JobsOK /\ BornOK /\ dropped = {})'
  <2> SUFFICES ASSUME Typed, Life, Synchronised, JobsOK, BornOK, dropped = {}, [Next]_vars
               PROVE  (Typed /\ Life /\ Synchronised /\ JobsOK /\ BornOK /\ dropped = {})'
    OBVIOUS
  <2>1. Typed' /\ Life' /\ JobsOK' /\ BornOK'
    BY StepTyped, StepLife, StepJobs, StepBorn DEF Regular
  <2>2. dropped' = {}
    BY StepCalm DEF CancelCall, Regular
  <2>3. interrupts' = 0
    BY <2>1 DEF Regular, Typed, TypeOK, OwnerType
  <2> QED
    BY <2>1, <2>2, <2>3, StepSync DEF Calm, Regular
<1>3. Typed /\ Life /\ Synchronised /\ JobsOK /\ BornOK /\ [Next]_vars => [Service!Next]_(Service!vars)
  BY StepServes
<1> QED
  BY <1>1, <1>2, <1>3, PTL DEF Spec, ImplementsService, Service!Spec

----------------------------------------------------------------------------
(* The composition: what TaskPoolProofs proves of the pool.                *)

\* A behaviour of the composition is one of the queue and one of the pool: the
\* one that the scenario leaves out stutters.
LEMMA Steps == MCSteps => Spec /\ Pool!Spec
<1>1. MCInit => Init /\ Pool!Init
  BY DEF MCInit
<1>2. [MCNext]_MCVars => [Next]_vars
  BY DEF MCNext, MCVars, QueuePart, NarrowPart, PoolPart
<1>3. [MCNext]_MCVars => [Pool!Next]_(Pool!vars)
  <2>1. UNCHANGED poolVars => UNCHANGED Pool!vars
    BY DEF poolVars, Pool!vars, Pool!queues, Pool!faults, Pool!history
  <2> QED
    BY <2>1 DEF MCNext, MCVars, QueuePart, NarrowPart, PoolPart
<1> QED
  BY <1>1, <1>2, <1>3, PTL DEF MCSteps, Spec, Pool!Spec

\* The semaphores and counters of each thread of src/task-pool.c agree with its
\* list (see TaskPoolProofs).
THEOREM PoolCounters == MCSpec => []CountersMatch
<1>1. Pool!Spec => []Pool!CountersMatch
  BY ServiceAssumption, Pool!CountersAgree
<1> QED
  BY <1>1, Steps, PTL DEF MCSpec, CountersMatch

\* borTaskPoolBarrier lets a client go on when the jobs it waits for are
\* finished (see TaskPoolProofs).
THEOREM PoolBarrierWaits == MCSpec => []PoolBarrierSound
<1>1. Pool!Spec => []Pool!PoolBarrierSound
  BY ServiceAssumption, Pool!BarrierWaits
<1> QED
  BY <1>1, Steps, PTL DEF MCSpec, PoolBarrierSound

\* borTaskPoolDel of a started pool returns when the jobs it found in the lists
\* are finished, and no thread is left (see TaskPoolProofs).
THEOREM PoolDeletion == MCSpec => []PoolDelComplete
<1>1. Pool!Spec => []Pool!PoolDelComplete
  BY ServiceAssumption, Pool!DeletionComplete
<1> QED
  BY <1>1, Steps, PTL DEF MCSpec, PoolDelComplete

\* The queue of each thread of src/task-pool.c is a TaskService with one job at
\* a time (see TaskPoolProofs).
THEOREM PoolServes == MCSpec => PoolImplementsService
<1>1. Pool!Spec => Pool!PoolImplementsService
  BY ServiceAssumption, Pool!ThreadServes
<1> QED
  BY <1>1, Steps, PTL DEF MCSpec, PoolImplementsService
============================================================================
