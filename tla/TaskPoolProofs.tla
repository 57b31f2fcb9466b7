--------------------------- MODULE TaskPoolProofs ---------------------------
(***************************************************************************)
(* Proofs about TaskPool: the counters of each thread agree with its list, *)
(* no task is lost, deletion finishes what is queued, and a barrier waits  *)
(* for what it was asked to.  Every result holds for any number of threads *)
(* and clients, for any set of jobs and however often waits are            *)
(* interrupted or return unsignalled.                                      *)
(***************************************************************************)
EXTENDS TaskPool, FiniteSetTheorems, TLAPS

USE DEF ConstantsOK

\* Where a thread stands inside _borTaskPoolAdd, and where a client and a thread
\* of the pool may stand at all.
Calling == {"reserve", "append", "post"}
ClientPlaces == Calling \cup {"idle", "blocked", "woken", "create", "mark", "join", "free", "closed", "stray"}
ThreadPlaces == Calling \cup {"none", "wait", "pick", "room", "run", "account", "exited", "stray"}

\* The type of every variable, those included that TypeOK leaves out.
DataOK ==
  /\ tasks \in [Threads -> Seq(Items)] /\ full \in [Threads -> Nat]
  /\ empty \in [Threads -> 0..QueueSize] /\ pending \in [Threads -> Nat]
  /\ item \in [Procs -> Items \cup {None}] /\ tid \in [Procs -> Threads \cup {None}]
  /\ cur \in [Threads -> Items \cup {None}]
  /\ started \in BOOLEAN /\ closing \in BOOLEAN
  /\ idx \in 1..(NumThreads + 1)
  /\ interrupts \in Nat /\ spurious \in Nat
  /\ used \subseteq Jobs /\ finished \subseteq Jobs /\ owed \subseteq Jobs
  /\ added \in [Threads -> SUBSET Jobs]
  /\ snap \in [Clients -> SUBSET Jobs]

\* Everybody stands in a place of its own kind.
PlacesOK ==
  /\ pc \in [Procs -> ClientPlaces \cup ThreadPlaces]
  /\ \A c \in Clients : pc[c] \in ClientPlaces
  /\ \A i \in Threads : pc[i] \in ThreadPlaces

\* What a thread carries agrees with where it stands.
CarryOK ==
  /\ \A p \in Procs : pc[p] \in Calling => item[p] \in Items /\ tid[p] \in Threads
  /\ \A c \in Clients : pc[c] \in {"blocked", "woken"} => tid[c] \in Threads
  /\ \A i \in Threads : /\ pc[i] \in {"room", "account"} => cur[i] \in Items
                        /\ pc[i] \in Calling \cup {"run"} => cur[i] \in Jobs
                        /\ pc[i] \in {"none", "wait", "pick", "exited"} => cur[i] = None

\* Undefined behaviour strikes the whole program.
StrayOK == \A p, q \in Procs : pc[p] = "stray" => pc[q] = "stray"

\* All that does not depend on what the counters say.
Typed == DataOK /\ PlacesOK /\ CarryOK /\ StrayOK

\* The threads at l that pass a task to thread i, when f says where each stands
\* and g for whom.
Group(f, g, l, i) == {q \in Procs : f[q] = l /\ g[q] = i}
\* The threads at l on behalf of thread i, and whether i itself stands at l.
Passing(l, i) == Group(pc, tid, l, i)
Standing(l, i) == IF pc[i] = l THEN 1 ELSE 0

\* The counters of thread i and its list.  An interrupted wait makes a thread
\* take a task that has not been announced, or add one that there is no room for.
Matched(i) ==
  /\ interrupts = 0 =>
       /\ full[i] + Standing("pick", i) + Cardinality(Passing("post", i)) = Len(tasks[i])
       /\ empty[i] + Len(tasks[i]) + Standing("room", i) + Cardinality(Passing("append", i)) = QueueSize
  /\ pending[i] = Len(tasks[i]) + (IF cur[i] = None THEN 0 ELSE 1)

\* The counters are right as long as the pool exists, and without interrupted
\* waits no thread ever takes the head of an empty list.
Synchronised ==
  /\ interrupts = 0 => Defined
  /\ Closed \/ ~Defined \/ \A i \in Threads : Matched(i)

\* Where the owner stands says whether deletion began, which threads exist
\* and which of them are known to be gone.
Life ==
  pc[Owner] # "stray" =>
    /\ closing <=> \/ pc[Owner] \in {"mark", "join", "free", "closed"}
                   \/ pc[Owner] \in Calling /\ item[Owner] = Finish
    /\ started => pc[Owner] # "create"
    /\ closing /\ pc[Owner] \notin {"free", "closed"} => started
    /\ \A i \in Threads : pc[i] # "none" => started \/ (pc[Owner] = "create" /\ i < idx)
    /\ pc[Owner] = "join" => \A i \in Threads : i < idx => pc[i] = "exited"
    /\ pc[Owner] \in {"free", "closed"} =>
         \A i \in Threads : pc[i] = IF started THEN "exited" ELSE "none"

\* Once deletion began no other client is inside a call.
QuietOK == closing => \A c \in Clients \ {Owner} : pc[c] \in {"idle", "stray"}

\* One disjunct of Next, for some thread.
Procedure ==
  \/ \E p \in Procs : \/ \E j \in Jobs, i \in Threads : AddCall(p, j, i)
                      \/ Reserve(p) \/ InterruptReserve(p) \/ Append1(p) \/ Post(p)
  \/ \E c \in Clients : (\E i \in Threads : BarrierCall(c, i)) \/ SpuriousWake(c) \/ Wake(c)
  \/ \E i \in Threads : Interrupt(i) \/ Take(i) \/ Pick(i) \/ Room(i) \/ Return(i) \/ Account(i)
  \/ RunCall \/ DelCall \/ CreateThread \/ RunDone \/ Mark \/ Join \/ FreeAll
  \/ Terminated

\* The step relation as one list of actions.
LEMMA NextCases == ASSUME ConstantsOK PROVE Next => Procedure
BY DEF Next, Procedure, ClientStep, OwnerStep, ThreadStep, Procs

\* A new pool is well formed.
LEMMA InitTyped == ASSUME ConstantsOK PROVE Init => Typed
<1> SUFFICES ASSUME Init PROVE Typed
  OBVIOUS
<1>1. PlacesOK
  BY DEF Init, PlacesOK, ClientPlaces, ThreadPlaces, Procs
<1>2. DataOK
  <2>1. idx \in 1..(NumThreads + 1)
    BY DEF Init
  <2>2. /\ tasks \in [Threads -> Seq(Items)] /\ full \in [Threads -> Nat]
        /\ empty \in [Threads -> 0..QueueSize] /\ pending \in [Threads -> Nat]
    BY DEF Init
  <2>3. /\ item \in [Procs -> Items \cup {None}] /\ tid \in [Procs -> Threads \cup {None}]
        /\ cur \in [Threads -> Items \cup {None}]
    BY DEF Init
  <2>4. /\ started \in BOOLEAN /\ closing \in BOOLEAN /\ interrupts \in Nat /\ spurious \in Nat
        /\ used \subseteq Jobs /\ finished \subseteq Jobs /\ owed \subseteq Jobs
        /\ added \in [Threads -> SUBSET Jobs] /\ snap \in [Clients -> SUBSET Jobs]
    BY DEF Init
  <2> QED
    BY <2>1, <2>2, <2>3, <2>4 DEF DataOK
<1>3. CarryOK /\ StrayOK
  BY DEF Init, CarryOK, StrayOK, Procs, Calling
<1> QED
  BY <1>1, <1>2, <1>3 DEF Typed

\* The threads of the program and those of the pool.
LEMMA ProcFacts ==
  ASSUME ConstantsOK
  PROVE  /\ Clients \subseteq Procs /\ Threads \subseteq Procs /\ Owner \in Procs /\ Owner \in Clients
         /\ \A p \in Procs : p \in Clients <=> p \notin Threads
BY DEF Procs

\* A thread p goes to l; what it carries there is in order, and nobody else
\* is concerned.
LEMMA GoTyped ==
  ASSUME ConstantsOK, Typed, DataOK', NEW p \in Procs, NEW l, l # "stray", pc[p] # "stray",
         pc' = [pc EXCEPT ![p] = l],
         p \in Clients => l \in ClientPlaces, p \in Threads => l \in ThreadPlaces,
         \A q \in Procs \ {p} : item'[q] = item[q] /\ tid'[q] = tid[q],
         \A i \in Threads \ {p} : cur'[i] = cur[i],
         l \in Calling => item'[p] \in Items /\ tid'[p] \in Threads,
         p \in Clients /\ l \in {"blocked", "woken"} => tid'[p] \in Threads,
         p \in Threads => /\ l \in {"room", "account"} => cur'[p] \in Items
                          /\ l \in Calling \cup {"run"} => cur'[p] \in Jobs
                          /\ l \in {"none", "wait", "pick", "exited"} => cur'[p] = None
  PROVE  Typed'
<1>0. PlacesOK
  BY DEF Typed
<1>1. pc'[p] = l /\ \A q \in Procs \ {p} : pc'[q] = pc[q]
  BY <1>0 DEF PlacesOK
<1>2. PlacesOK'
  BY <1>0, ProcFacts DEF PlacesOK
<1>3. CarryOK'
  <2> USE DEF Typed, CarryOK
  <2>1. ASSUME NEW q \in Procs, pc'[q] \in Calling PROVE item'[q] \in Items /\ tid'[q] \in Threads
    BY <1>1, <2>1
  <2>2. ASSUME NEW c \in Clients, pc'[c] \in {"blocked", "woken"} PROVE tid'[c] \in Threads
    BY ProcFacts, <1>1, <2>2
  <2>3. ASSUME NEW i \in Threads
        PROVE  /\ pc'[i] \in {"room", "account"} => cur'[i] \in Items
               /\ pc'[i] \in Calling \cup {"run"} => cur'[i] \in Jobs
               /\ pc'[i] \in {"none", "wait", "pick", "exited"} => cur'[i] = None
    BY ProcFacts, <1>1, <2>3
  <2> QED
    BY <2>1, <2>2, <2>3
<1>4. StrayOK'
  BY <1>1 DEF Typed, StrayOK
<1> QED
  BY <1>2, <1>3, <1>4 DEF Typed

\* The steps of _borTaskPoolAdd.
LEMMA AddTyped ==
  ASSUME ConstantsOK, Typed, NEW p \in Procs,
         (\E j \in Jobs, i \in Threads : AddCall(p, j, i)) \/ Reserve(p) \/ InterruptReserve(p) \/ Append1(p) \/ Post(p)
  PROVE  Typed'
<1>0. DataOK /\ CarryOK
  BY DEF Typed
<1>1. ASSUME NEW j \in Jobs, NEW i \in Threads, AddCall(p, j, i) PROVE Typed'
  <2>1. DataOK'
    BY <1>0, <1>1 DEF AddCall, DataOK, queues, faults, Items
  <2>2. /\ pc[p] # "stray" /\ pc' = [pc EXCEPT ![p] = "reserve"] /\ cur' = cur
        /\ item' = [item EXCEPT ![p] = j] /\ tid' = [tid EXCEPT ![p] = i]
        /\ p \in Threads => cur[p] \in Jobs
    BY <1>0, <1>1, ProcFacts DEF AddCall, Goto, CarryOK
  <2>3. item'[p] \in Items /\ tid'[p] \in Threads /\ \A q \in Procs \ {p} : item'[q] = item[q] /\ tid'[q] = tid[q]
    BY <1>0, <2>2 DEF DataOK, Items
  <2> QED
    BY <2>1, <2>2, <2>3, GoTyped, ProcFacts DEF Calling, ClientPlaces, ThreadPlaces
<1>2. ASSUME Reserve(p) PROVE Typed'
  <2>1. DataOK'
    BY <1>0, <1>2, SMTT(30) DEF Reserve, DataOK, history, faults, CarryOK, Calling
  <2> QED
    BY <1>0, <1>2, <2>1, GoTyped, ProcFacts
    DEF Reserve, CarryOK, Goto, Calling, ClientPlaces, ThreadPlaces
<1>3. ASSUME Append1(p) PROVE Typed'
  <2>1. item[p] \in Items /\ tid[p] \in Threads
    BY <1>0, <1>3 DEF Append1, CarryOK, Calling
  <2>2. DataOK'
    <3>1. tasks' \in [Threads -> Seq(Items)]
      BY <1>0, <1>3, <2>1 DEF Append1, DataOK
    <3>2. pending' \in [Threads -> Nat]
      BY <1>0, <1>3, <2>1 DEF Append1, DataOK
    <3>3. added' \in [Threads -> SUBSET Jobs]
      BY <1>0, <1>3, <2>1 DEF Append1, DataOK, Items
    <3> QED
      BY <1>0, <1>3, <3>1, <3>2, <3>3 DEF Append1, DataOK, faults
  <2> QED
    BY <1>0, <1>3, <2>1, <2>2, GoTyped, ProcFacts
    DEF Append1, CarryOK, Goto, Calling, ClientPlaces, ThreadPlaces
<1>4. ASSUME Post(p) PROVE Typed'
  <2>1. tid[p] \in Threads
    BY <1>0, <1>4 DEF Post, CarryOK, Calling
  <2>2. DataOK'
    BY <1>0, <1>4, <2>1 DEF Post, Posted, DataOK, faults, history
  <2>3. pc[p] = "post" /\ pc' = [pc EXCEPT ![p] = Caller(p)]
        /\ \A q \in Procs \ {p} : item'[q] = item[q] /\ tid'[q] = tid[q]
    BY <1>0, <1>4 DEF Post, Goto, DataOK
  <2>4. cur' = cur /\ (p \in Threads => cur[p] \in Jobs)
    BY <1>0, <1>4 DEF Post, CarryOK, Calling
  <2>5. Caller(p) \in {"run", "idle", "mark"} /\ (p \in Threads <=> Caller(p) = "run")
    BY DEF Caller
  <2> QED
    BY <2>2, <2>3, <2>4, <2>5, GoTyped, ProcFacts DEF Calling, ClientPlaces, ThreadPlaces
<1>5. ASSUME InterruptReserve(p) PROVE Typed'
  <2>1. DataOK'
    BY <1>0, <1>5, SMTT(30) DEF InterruptReserve, DataOK, queues, history
  <2> QED
    BY <1>0, <1>5, <2>1, GoTyped, ProcFacts
    DEF InterruptReserve, CarryOK, Goto, Calling, ClientPlaces, ThreadPlaces
<1> QED
  BY <1>1, <1>2, <1>3, <1>4, <1>5

\* The steps of borTaskPoolBarrier.
LEMMA WaitTyped ==
  ASSUME ConstantsOK, Typed, NEW c \in Clients,
         (\E i \in Threads : BarrierCall(c, i)) \/ SpuriousWake(c) \/ Wake(c)
  PROVE  Typed'
<1>0. DataOK /\ CarryOK
  BY DEF Typed
<1>1. ASSUME NEW i \in Threads, BarrierCall(c, i) PROVE Typed'
  <2>1. DataOK'
    BY <1>0, <1>1 DEF BarrierCall, DataOK, queues, faults
  <2>2. /\ pc[c] = "idle" /\ pc' = [pc EXCEPT ![c] = "blocked"] /\ cur' = cur /\ item' = item
        /\ tid'[c] = i /\ \A q \in Procs \ {c} : tid'[q] = tid[q]
    BY <1>0, <1>1, ProcFacts DEF BarrierCall, Goto, DataOK
  <2> QED
    BY <2>1, <2>2, GoTyped, ProcFacts DEF Calling, ClientPlaces, ThreadPlaces
<1>2. ASSUME SpuriousWake(c) PROVE Typed'
  <2>1. DataOK'
    BY <1>0, <1>2, SMTT(30) DEF SpuriousWake, DataOK, queues, history
  <2> QED
    BY <1>0, <1>2, <2>1, GoTyped, ProcFacts
    DEF SpuriousWake, CarryOK, Goto, Calling, ClientPlaces, ThreadPlaces
<1>3. ASSUME Wake(c) PROVE Typed'
  <2>1. DataOK'
    BY <1>0, <1>3 DEF Wake, DataOK, queues, faults
  <2>2. \A q \in Procs \ {c} : item'[q] = item[q] /\ tid'[q] = tid[q]
    BY <1>0, <1>3 DEF Wake, DataOK
  <2> QED
    BY <1>0, <1>3, <2>1, <2>2, GoTyped, ProcFacts
    DEF Wake, CarryOK, Goto, Calling, ClientPlaces, ThreadPlaces
<1> QED
  BY <1>1, <1>2, <1>3

\* While a thread works the pool exists.
LEMMA WorkingOpen ==
  ASSUME ConstantsOK, Typed, Life, Synchronised, NEW i \in Threads, pc[i] \notin {"none", "exited", "stray"}
  PROVE  ~Closed /\ Defined /\ Matched(i)
<1>1. pc[Owner] # "stray"
  BY ProcFacts DEF Typed, StrayOK
<1>2. ~Closed
  BY <1>1 DEF Life, Closed
<1>3. Defined
  BY ProcFacts DEF Defined, At, Typed, StrayOK
<1> QED
  BY <1>2, <1>3 DEF Synchronised

\* The threads that pass a task can be counted.
LEMMA PassingFinite ==
  ASSUME ConstantsOK
  PROVE  \A l, i : IsFiniteSet(Passing(l, i)) /\ Cardinality(Passing(l, i)) \in Nat
<1>1. IsFiniteSet(Threads)
  BY FS_Interval DEF Threads
<1>2. IsFiniteSet(Procs)
  BY <1>1, FS_Union DEF Procs
<1> QED
  BY <1>2, FS_Subset, FS_CardinalityType DEF Passing, Group

\* The steps of threadMain of thread i.
LEMMA WorkTyped ==
  ASSUME ConstantsOK, Typed, Life, Synchronised, NEW i \in Threads,
         Interrupt(i) \/ Take(i) \/ Pick(i) \/ Room(i) \/ Return(i) \/ Account(i)
  PROVE  Typed'
<1>0. DataOK /\ CarryOK /\ PlacesOK
  BY DEF Typed
<1>1. ASSUME Interrupt(i) PROVE Typed'
  <2>1. DataOK'
    BY <1>0, <1>1, SMTT(30) DEF Interrupt, DataOK, queues, history
  <2> QED
    BY <1>0, <1>1, <2>1, GoTyped, ProcFacts DEF Interrupt, CarryOK, Goto, Calling, ClientPlaces, ThreadPlaces
<1>2. ASSUME Take(i) PROVE Typed'
  <2>1. DataOK'
    BY <1>0, <1>2 DEF Take, DataOK, faults, history
  <2> QED
    BY <1>0, <1>2, <2>1, GoTyped, ProcFacts DEF Take, CarryOK, Goto, Calling, ClientPlaces, ThreadPlaces
<1>3. ASSUME Pick(i), tasks[i] # <<>> PROVE Typed'
  <2>1. /\ cur' = [cur EXCEPT ![i] = Head(tasks[i])] /\ tasks' = [tasks EXCEPT ![i] = Tail(tasks[i])]
        /\ pc[i] = "pick" /\ pc' = [pc EXCEPT ![i] = "room"]
        /\ UNCHANGED <<full, empty, pending, started, item, tid, idx, closing, faults, history>>
    BY <1>3 DEF Pick, Goto
  <2>2. Head(tasks[i]) \in Items /\ Tail(tasks[i]) \in Seq(Items)
    <3>1. tasks[i] \in Seq(Items) /\ tasks[i] # <<>>
      BY <1>0, <1>3 DEF DataOK
    <3> QED
      BY ONLY <3>1
  <2>3. DataOK'
    BY <1>0, <2>1, <2>2 DEF DataOK, faults, history
  <2>4. cur'[i] \in Items /\ \A k \in Threads \ {i} : cur'[k] = cur[k]
    BY <1>0, <2>1, <2>2 DEF DataOK
  <2> QED
    BY <2>1, <2>3, <2>4, GoTyped, ProcFacts DEF Calling, ClientPlaces, ThreadPlaces
<1>4. ASSUME Pick(i), tasks[i] = <<>> PROVE Typed'
  <2>1. /\ pc' = [p \in Procs |-> "stray"]
        /\ UNCHANGED <<queues, cur, started, item, tid, idx, closing, faults, history>>
    BY <1>4 DEF Pick, queues
  <2>2. DataOK'
    BY <1>0, <2>1 DEF DataOK, queues, faults, history
  <2>3. PlacesOK' /\ CarryOK' /\ StrayOK'
    BY <2>1, ProcFacts DEF PlacesOK, CarryOK, StrayOK, Calling, ClientPlaces, ThreadPlaces
  <2> QED
    BY <2>2, <2>3 DEF Typed
<1>5. ASSUME Room(i) PROVE Typed'
  <2>1. pc[i] = "room"
    BY <1>5 DEF Room
  <2>5. Posted(empty[i]) \in 0..QueueSize
    BY <1>0 DEF Posted, DataOK
  <2>6. DataOK'
    BY <1>0, <1>5, <2>5 DEF Room, DataOK, faults, history
  <2>7. /\ cur' = cur /\ UNCHANGED <<item, tid>>
        /\ pc' = [pc EXCEPT ![i] = IF cur[i] = Finish THEN "account" ELSE "run"] /\ cur[i] \in Items
    BY <1>0, <1>5 DEF Room, Goto, CarryOK
  <2> QED
    BY <2>1, <2>6, <2>7, GoTyped, ProcFacts DEF Calling, ClientPlaces, ThreadPlaces, Items
<1>6. ASSUME Return(i) PROVE Typed'
  <2>1. DataOK'
    BY <1>0, <1>6 DEF Return, DataOK, faults, queues, CarryOK
  <2> QED
    BY <1>0, <1>6, <2>1, GoTyped, ProcFacts
    DEF Return, CarryOK, Goto, Calling, ClientPlaces, ThreadPlaces, Items
<1>7. ASSUME Account(i) PROVE Typed'
  <2>1. pc[i] = "account" /\ cur[i] \in Items /\ pending[i] = Len(tasks[i]) + (IF cur[i] = None THEN 0 ELSE 1)
    BY <1>0, <1>7, WorkingOpen DEF Account, Matched, CarryOK
  <2>2. pending[i] - 1 \in Nat
    <3>1. Len(tasks[i]) \in Nat /\ cur[i] # None
      BY <1>0, <2>1 DEF DataOK
    <3> QED
      BY <2>1, <3>1
  <2>3. DataOK'
    BY <1>0, <1>7, <2>2 DEF Account, DataOK, faults, history
  <2>4. /\ pc'[i] \in {"wait", "exited"}
        /\ \A p \in Procs \ {i} : pc'[p] = pc[p] \/ (pc[p] = "blocked" /\ pc'[p] = "woken")
        /\ UNCHANGED <<item, tid>> /\ cur' = [cur EXCEPT ![i] = None]
    BY <1>7, ProcFacts DEF Account
  <2>5. PlacesOK'
    <3>1. pc' \in [Procs -> ClientPlaces \cup ThreadPlaces]
      BY <1>0, <1>7 DEF Account, PlacesOK, ClientPlaces, ThreadPlaces
    <3> QED
      BY <1>0, <2>4, <3>1, ProcFacts DEF PlacesOK, ClientPlaces, ThreadPlaces, Calling
  <2>6. CarryOK'
    BY <1>0, <2>4, ProcFacts DEF CarryOK, PlacesOK, ClientPlaces, ThreadPlaces, Calling, DataOK
  <2>7. StrayOK'
    BY <2>1, <2>4, ProcFacts DEF Typed, StrayOK
  <2> QED
    BY <2>3, <2>5, <2>6, <2>7 DEF Typed
<1> QED
  BY <1>1, <1>2, <1>3, <1>4, <1>5, <1>6, <1>7

\* The loops over the threads stay in range.
LEMMA CreateIndex ==
  ASSUME ConstantsOK, DataOK, idx <= NumThreads
  PROVE  idx \in Threads /\ idx + 1 \in 1..(NumThreads + 1)
<1>1. idx \in 1..(NumThreads + 1)
  BY DEF DataOK
<1> QED
  BY <1>1 DEF Threads

\* The steps of the owner: borTaskPoolRun and borTaskPoolDel.
LEMMA OwnerTyped ==
  ASSUME ConstantsOK, Typed, Life,
         RunCall \/ DelCall \/ CreateThread \/ RunDone \/ Mark \/ Join \/ FreeAll
  PROVE  Typed'
<1>0. DataOK /\ CarryOK /\ PlacesOK
  BY DEF Typed
<1> USE DEF Calling, ClientPlaces, ThreadPlaces
<1>1. ASSUME RunCall PROVE Typed'
  <2>1. DataOK'
    BY <1>0, <1>1 DEF RunCall, DataOK, queues, faults, history
  <2> QED
    BY <1>1, <2>1, GoTyped, ProcFacts DEF RunCall, Goto
<1>2. ASSUME DelCall PROVE Typed'
  <2>1. DataOK'
    BY <1>0, <1>2, SMTT(30) DEF DelCall, DataOK, queues, faults, Accepted
  <2> QED
    BY <1>2, <2>1, GoTyped, ProcFacts DEF DelCall, Goto
<1>3. ASSUME CreateThread PROVE Typed'
  <2>1. idx \in Threads /\ idx' = idx + 1 /\ idx + 1 \in 1..(NumThreads + 1)
    BY <1>0, <1>3, CreateIndex DEF CreateThread
  <2>2. DataOK'
    BY <1>0, <1>3, <2>1 DEF CreateThread, DataOK, queues, faults, history
  <2>3. pc[idx] = "none"
    <3>1. pc[Owner] = "create" /\ ~(idx < idx)
      BY <1>3, <2>1 DEF CreateThread, Threads
    <3>2. ~started
      BY <3>1 DEF Life
    <3> QED
      BY <2>1, <3>1, <3>2 DEF Life
  <2>4. cur[idx] = None
    BY <1>0, <2>1, <2>3 DEF CarryOK
  <2> QED
    BY <1>3, <2>1, <2>2, <2>3, <2>4, GoTyped, ProcFacts DEF CreateThread, Goto
<1>4. ASSUME RunDone PROVE Typed'
  <2>1. DataOK'
    BY <1>0, <1>4 DEF RunDone, DataOK, queues, faults, history
  <2> QED
    BY <1>4, <2>1, GoTyped, ProcFacts DEF RunDone, Goto
<1>5. ASSUME Mark, idx <= NumThreads PROVE Typed'
  <2>1. idx \in Threads /\ Finish \in Items /\ idx + 1 \in 1..(NumThreads + 1)
    BY <1>0, <1>5 DEF DataOK, Threads, Items
  <2>2. /\ pc[Owner] = "mark" /\ pc' = [pc EXCEPT ![Owner] = "reserve"]
        /\ item' = [item EXCEPT ![Owner] = Finish] /\ tid' = [tid EXCEPT ![Owner] = idx] /\ idx' = idx + 1
        /\ UNCHANGED <<queues, started, cur, closing, faults, history>>
    BY <1>0, <1>5 DEF Mark, Goto, DataOK
  <2>3. DataOK'
    BY <1>0, <2>1, <2>2 DEF DataOK, queues, faults, history
  <2>4. item'[Owner] \in Items /\ tid'[Owner] \in Threads
        /\ \A q \in Procs \ {Owner} : item'[q] = item[q] /\ tid'[q] = tid[q]
    BY <1>0, <2>1, <2>2, ProcFacts DEF DataOK
  <2> QED
    BY <2>2, <2>3, <2>4, GoTyped, ProcFacts
<1>6. ASSUME Mark, idx > NumThreads PROVE Typed'
  <2>1. /\ pc[Owner] = "mark" /\ pc' = [pc EXCEPT ![Owner] = "join"] /\ idx' = 1
        /\ UNCHANGED <<queues, started, item, tid, cur, closing, faults, history>>
    BY <1>0, <1>6 DEF Mark, Goto, DataOK
  <2>2. DataOK'
    BY <1>0, <2>1 DEF DataOK, queues, faults, history
  <2> QED
    BY <2>1, <2>2, GoTyped, ProcFacts
<1>7. ASSUME Join PROVE Typed'
  <2>1. DataOK'
    BY <1>0, <1>7 DEF Join, DataOK, queues, faults, history
  <2>2. UNCHANGED <<item, tid, cur>> /\ pc[Owner] = "join" /\ (pc' = pc \/ pc' = [pc EXCEPT ![Owner] = "free"])
    BY <1>7 DEF Join, Goto
  <2>3. CASE pc' = pc
    BY <1>0, <2>1, <2>2, <2>3 DEF Typed, PlacesOK, CarryOK, StrayOK
  <2> QED
    BY <2>1, <2>2, <2>3, GoTyped, ProcFacts
<1>8. ASSUME FreeAll PROVE Typed'
  <2>1. DataOK'
    BY <1>0, <1>8 DEF FreeAll, DataOK, faults, history
  <2> QED
    BY <1>8, <2>1, GoTyped, ProcFacts DEF FreeAll, Goto
<1>9. idx <= NumThreads \/ idx > NumThreads
  BY <1>0 DEF DataOK
<1> QED
  BY <1>1, <1>2, <1>3, <1>4, <1>5, <1>6, <1>7, <1>8, <1>9

\* Every step keeps everything in its type.
LEMMA StepTyped == ASSUME ConstantsOK PROVE Typed /\ Life /\ Synchronised /\ [Next]_vars => Typed'
<1> SUFFICES ASSUME Typed, Life, Synchronised, [Next]_vars PROVE Typed'
  OBVIOUS
<1>1. ASSUME UNCHANGED vars PROVE Typed'
  BY <1>1 DEF vars, queues, faults, history, Typed, DataOK, PlacesOK, CarryOK, StrayOK
<1> QED
  BY <1>1, NextCases, AddTyped, WaitTyped, WorkTyped, OwnerTyped DEF Procedure, Terminated

----------------------------------------------------------------------------
(* The life of the pool.                                                   *)

\* A new pool is not being deleted.
LEMMA InitLife == ASSUME ConstantsOK PROVE Init => Life /\ QuietOK
BY ProcFacts DEF Init, Life, QuietOK, Calling

\* A thread of the pool, or a client other than the owner, goes on.
LEMMA OtherLife ==
  ASSUME ConstantsOK, Typed, Life, pc'[Owner] = pc[Owner], item'[Owner] = item[Owner], UNCHANGED <<started, closing, idx>>,
         \A i \in Threads : pc[i] \in {"none", "exited"} => pc'[i] = pc[i]
  PROVE  Life'
<1>1. Threads \subseteq Procs /\ \A i \in Threads : pc[i] = "none" \/ pc[i] # "none"
  BY ProcFacts
<1> QED
  BY <1>1 DEF Life

\* Every step keeps it: only the owner starts, joins and frees.
LEMMA StepLife == ASSUME ConstantsOK PROVE Typed /\ Life /\ [Next]_vars => Life'
<1> SUFFICES ASSUME Typed, Life, [Next]_vars PROVE Life'
  OBVIOUS
<1>0. DataOK /\ PlacesOK
  BY DEF Typed
<1>1. ASSUME NEW p \in Procs, NEW j \in Jobs, NEW i \in Threads, AddCall(p, j, i) PROVE Life'
  <2>1. /\ pc[p] \in {"idle", "run"} /\ pc' = [pc EXCEPT ![p] = "reserve"] /\ item' = [item EXCEPT ![p] = j]
        /\ UNCHANGED <<started, closing, idx>>
    BY <1>0, <1>1 DEF AddCall, Goto
  <2>2. CASE p = Owner
    <3>1. /\ pc[Owner] = "idle" /\ pc'[Owner] = "reserve" /\ item'[Owner] # Finish
          /\ \A k \in Threads : pc'[k] = pc[k]
      BY <1>0, <1>1, <2>1, <2>2, ProcFacts DEF PlacesOK, DataOK, AddCall
    <3> QED
      BY <2>1, <3>1 DEF Life, Calling
  <2> QED
    BY <1>0, <2>1, <2>2, OtherLife, ProcFacts DEF PlacesOK, DataOK
<1>2. ASSUME NEW p \in Procs, Reserve(p) \/ InterruptReserve(p) \/ Append1(p) PROVE Life'
  <2>1. /\ pc[p] \in Calling /\ (\E l \in Calling : pc' = [pc EXCEPT ![p] = l])
        /\ UNCHANGED <<item, started, closing, idx>>
    BY <1>2 DEF Reserve, InterruptReserve, Append1, Goto, Calling
  <2>2. \A i \in Threads : pc[i] \in {"none", "exited"} => pc'[i] = pc[i]
    BY <2>1 DEF Calling
  <2>3. CASE p = Owner
    <3>1. pc'[Owner] \in Calling /\ pc[Owner] \in Calling /\ \A k \in Threads : pc'[k] = pc[k]
      BY <1>0, <2>1, <2>3, ProcFacts DEF PlacesOK
    <3> QED
      BY <2>1, <3>1 DEF Life, Calling
  <2> QED
    BY <1>0, <2>1, <2>2, <2>3, OtherLife, ProcFacts DEF PlacesOK
<1>3. ASSUME NEW p \in Procs, Post(p) PROVE Life'
  <2>1. /\ pc[p] = "post" /\ pc' = [pc EXCEPT ![p] = Caller(p)] /\ item' = [item EXCEPT ![p] = None]
        /\ UNCHANGED <<started, closing, idx>>
    BY <1>3 DEF Post, Goto
  <2>2. CASE p = Owner
    <3>1. /\ pc[Owner] = "post" /\ pc'[Owner] = IF item[Owner] = Finish THEN "mark" ELSE "idle"
          /\ \A k \in Threads : pc'[k] = pc[k]
      BY <1>0, <2>1, <2>2, ProcFacts DEF PlacesOK, Caller
    <3> QED
      BY <2>1, <3>1 DEF Life, Calling
  <2> QED
    BY <1>0, <2>1, <2>2, OtherLife, ProcFacts DEF PlacesOK, DataOK
<1>4. ASSUME NEW c \in Clients, (\E i \in Threads : BarrierCall(c, i)) \/ SpuriousWake(c) \/ Wake(c) PROVE Life'
  <2>1. /\ pc[c] \in {"idle", "blocked", "woken"} /\ (\E l \in {"idle", "blocked", "woken"} : pc' = [pc EXCEPT ![c] = l])
        /\ UNCHANGED <<item, started, closing, idx>>
    BY <1>4 DEF BarrierCall, SpuriousWake, Wake, Goto
  <2>2. \A k \in Threads : pc'[k] = pc[k]
    BY <1>0, <2>1, ProcFacts DEF PlacesOK
  <2>3. CASE c = Owner
    <3>1. pc[Owner] \in {"idle", "blocked", "woken"} /\ pc'[Owner] \in {"idle", "blocked", "woken"}
      BY <1>0, <2>1, <2>3, ProcFacts DEF PlacesOK
    <3> QED
      BY <2>1, <2>2, <3>1 DEF Life, Calling
  <2> QED
    BY <1>0, <2>1, <2>2, <2>3, OtherLife, ProcFacts DEF PlacesOK
<1>5. ASSUME NEW i \in Threads, Interrupt(i) \/ Take(i) \/ Room(i) \/ Return(i) \/ (Pick(i) /\ tasks[i] # <<>>)
      PROVE  Life'
  <2>1. /\ pc[i] \notin {"none", "exited"} /\ (\E l : pc' = [pc EXCEPT ![i] = l])
        /\ UNCHANGED <<item, started, closing, idx>>
    BY <1>5 DEF Interrupt, Take, Room, Return, Pick, Goto
  <2> QED
    BY <1>0, <2>1, OtherLife, ProcFacts DEF PlacesOK
<1>6. ASSUME NEW i \in Threads, Pick(i), tasks[i] = <<>> PROVE Life'
  BY <1>6, ProcFacts DEF Pick, Life
<1>7. ASSUME NEW i \in Threads, Account(i) PROVE Life'
  <2>1. /\ pc[i] = "account" /\ UNCHANGED <<item, started, closing, idx>>
        /\ \A p \in Procs \ {i} : pc'[p] = pc[p] \/ (pc[p] = "blocked" /\ pc'[p] = "woken")
    BY <1>7, ProcFacts DEF Account
  <2>2. \A k \in Threads : pc[k] \in {"none", "exited"} => pc'[k] = pc[k]
    BY <2>1, ProcFacts
  <2>3. CASE pc'[Owner] = pc[Owner]
    BY <2>1, <2>2, <2>3, OtherLife
  <2>4. CASE pc'[Owner] # pc[Owner]
    <3>1. pc[Owner] = "blocked" /\ pc'[Owner] = "woken"
      BY <2>1, <2>4, ProcFacts
    <3>2. \A k \in Threads \ {i} : pc'[k] = pc[k]
      BY <1>0, <2>1, ProcFacts DEF PlacesOK, ThreadPlaces, Calling
    <3> QED
      BY <2>1, <3>1, <3>2 DEF Life, Calling
  <2> QED
    BY <2>3, <2>4
<1>8. ASSUME RunCall \/ DelCall \/ RunDone \/ Mark \/ FreeAll PROVE Life'
  <2>1. pc[Owner] \in {"idle", "create", "mark", "free"} /\ \A k \in Threads : pc'[k] = pc[k]
    BY <1>0, <1>8, ProcFacts DEF RunCall, DelCall, RunDone, Mark, FreeAll, Goto, PlacesOK
  <2>2. ASSUME RunCall PROVE Life'
    BY <1>0, <2>1, <2>2, ProcFacts DEF RunCall, Goto, PlacesOK, Life, Calling
  <2>3. ASSUME DelCall PROVE Life'
    BY <1>0, <2>1, <2>3, ProcFacts DEF DelCall, Goto, PlacesOK, Life, Calling
  <2>4. ASSUME RunDone PROVE Life'
    BY <1>0, <2>1, <2>4, ProcFacts DEF RunDone, Goto, PlacesOK, Life, Calling
  <2>5. ASSUME Mark PROVE Life'
    <3>1. started' = started /\ closing' = closing /\ pc[Owner] = "mark"
      BY <2>5 DEF Mark
    <3>2. CASE pc'[Owner] = "reserve" /\ item'[Owner] = Finish
      BY <2>1, <3>1, <3>2 DEF Life, Calling
    <3>3. CASE pc'[Owner] = "join" /\ idx' = 1
      BY <2>1, <3>1, <3>3 DEF Life, Calling, Threads
    <3> QED
      BY <1>0, <2>5, <3>2, <3>3, ProcFacts DEF Mark, Goto, PlacesOK, DataOK
  <2>6. ASSUME FreeAll PROVE Life'
    BY <1>0, <2>1, <2>6, ProcFacts DEF FreeAll, Goto, PlacesOK, Life, Calling
  <2> QED
    BY <1>8, <2>2, <2>3, <2>4, <2>5, <2>6
<1>9. ASSUME CreateThread PROVE Life'
  <2>0. idx \in Threads
    BY <1>0, <1>9, CreateIndex DEF CreateThread
  <2>1. idx' = idx + 1 /\ pc[Owner] = "create" /\ pc'[Owner] = "create"
        /\ (\A k \in Threads \ {idx} : pc'[k] = pc[k]) /\ UNCHANGED <<started, closing, item>>
    BY <1>0, <1>9, <2>0, ProcFacts DEF CreateThread, Goto, PlacesOK
  <2>2. \A k \in Threads : k < idx + 1 <=> k < idx \/ k = idx
    BY <2>0, CreateIndex DEF Threads
  <2> QED
    BY <2>0, <2>1, <2>2 DEF Life, Calling
<1>10. ASSUME Join PROVE Life'
  <2>1. /\ pc[Owner] = "join" /\ UNCHANGED <<started, closing, item>> /\ \A k \in Threads : pc'[k] = pc[k]
    BY <1>0, <1>10, ProcFacts DEF Join, Goto, PlacesOK
  <2>2. CASE idx <= NumThreads /\ pc[idx] = "exited" /\ idx' = idx + 1 /\ pc' = pc
    <3>1. \A k \in Threads : k < idx + 1 => k < idx \/ k = idx
      BY <1>0 DEF DataOK, Threads
    <3> QED
      BY <2>1, <2>2, <3>1 DEF Life, Calling
  <2>3. CASE idx > NumThreads /\ pc' = [pc EXCEPT ![Owner] = "free"] /\ idx' = idx
    <3>1. (\A k \in Threads : k < idx) /\ pc'[Owner] = "free"
      BY <1>0, <2>3, ProcFacts DEF DataOK, Threads, PlacesOK
    <3> QED
      BY <2>1, <3>1 DEF Life, Calling
  <2> QED
    BY <1>10, <2>2, <2>3 DEF Join, Goto
<1>11. ASSUME UNCHANGED vars PROVE Life'
  BY <1>11, OtherLife DEF vars
<1> QED
  BY <1>1, <1>2, <1>3, <1>4, <1>5, <1>6, <1>7, <1>8, <1>9, <1>10, <1>11, NextCases DEF Procedure, Terminated

\* Every step keeps it: deletion begins when every client is idle, and no client
\* begins a call after it.
LEMMA StepQuiet == ASSUME ConstantsOK PROVE Typed /\ Life /\ QuietOK /\ [Next]_vars => QuietOK'
<1> SUFFICES ASSUME Typed, Life, QuietOK, [Next]_vars PROVE QuietOK'
  OBVIOUS
<1>0. PlacesOK
  BY DEF Typed
<1>1. ASSUME NEW p \in Procs, NEW j \in Jobs, NEW i \in Threads, AddCall(p, j, i) PROVE QuietOK'
  BY <1>0, <1>1, ProcFacts DEF AddCall, Goto, PlacesOK, QuietOK
<1>2. ASSUME NEW p \in Procs, Reserve(p) \/ InterruptReserve(p) \/ Append1(p) \/ Post(p) PROVE QuietOK'
  <2>1. pc[p] \in Calling /\ (\E l : pc' = [pc EXCEPT ![p] = l]) /\ closing' = closing
    BY <1>2 DEF Reserve, InterruptReserve, Append1, Post, Goto, Calling
  <2> QED
    BY <1>0, <2>1, ProcFacts DEF QuietOK, Calling, PlacesOK
<1>3. ASSUME NEW c \in Clients, (\E i \in Threads : BarrierCall(c, i)) \/ SpuriousWake(c) \/ Wake(c) PROVE QuietOK'
  BY <1>0, <1>3, ProcFacts DEF BarrierCall, SpuriousWake, Wake, Goto, PlacesOK, QuietOK
<1>4. ASSUME NEW i \in Threads, Interrupt(i) \/ Take(i) \/ Pick(i) \/ Room(i) \/ Return(i) PROVE QuietOK'
  <2>1. closing' = closing /\ ((\E l : pc' = [pc EXCEPT ![i] = l]) \/ pc' = [p \in Procs |-> "stray"])
    BY <1>4 DEF Interrupt, Take, Pick, Room, Return, Goto
  <2> QED
    BY <1>0, <2>1, ProcFacts DEF QuietOK, PlacesOK
<1>5. ASSUME NEW i \in Threads, Account(i) PROVE QuietOK'
  <2>1. closing' = closing /\ \A p \in Procs \ {i} : pc'[p] = pc[p] \/ pc[p] = "blocked"
    BY <1>5 DEF Account
  <2> QED
    BY <2>1, ProcFacts DEF QuietOK
<1>6. ASSUME DelCall PROVE QuietOK'
  BY <1>0, <1>6, ProcFacts DEF DelCall, Goto, PlacesOK, QuietOK
<1>7. ASSUME RunCall \/ RunDone \/ Mark \/ Join \/ FreeAll PROVE QuietOK'
  <2>1. closing' = closing /\ (pc' = pc \/ \E l : pc' = [pc EXCEPT ![Owner] = l])
    BY <1>7 DEF RunCall, RunDone, Mark, Join, FreeAll, Goto
  <2> QED
    BY <1>0, <2>1, ProcFacts DEF QuietOK, PlacesOK
<1>8. ASSUME CreateThread PROVE QuietOK'
  <2>1. idx \in Threads /\ closing' = closing /\ pc' = [pc EXCEPT ![idx] = "wait"]
    BY <1>8, CreateIndex DEF CreateThread, Goto, Typed
  <2> QED
    BY <1>0, <2>1, ProcFacts DEF QuietOK, PlacesOK
<1>9. ASSUME UNCHANGED vars PROVE QuietOK'
  BY <1>9 DEF vars, QuietOK
<1> QED
  BY <1>1, <1>2, <1>3, <1>4, <1>5, <1>6, <1>7, <1>8, <1>9, NextCases DEF Procedure, Terminated

\* After the pool is released nothing happens any more, nor after undefined
\* behaviour.
LEMMA ClosedStill ==
  ASSUME ConstantsOK, Typed, Life, QuietOK, Closed \/ ~Defined, [Next]_vars
  PROVE  UNCHANGED vars
<1>0. CASE ~Defined
  <2>1. \A p \in Procs : pc[p] = "stray"
    BY <1>0 DEF Defined, At, Typed, StrayOK
  <2>2. \A p \in Procs : ~Reserve(p) /\ ~InterruptReserve(p) /\ ~Append1(p) /\ ~Post(p) /\ \A j \in Jobs, i \in Threads : ~AddCall(p, j, i)
    BY <2>1 DEF Reserve, InterruptReserve, Append1, Post, AddCall
  <2>3. \A c \in Clients : ~SpuriousWake(c) /\ ~Wake(c) /\ \A i \in Threads : ~BarrierCall(c, i)
    BY <2>1, ProcFacts DEF BarrierCall, SpuriousWake, Wake
  <2>4. \A i \in Threads : ~Interrupt(i) /\ ~Take(i) /\ ~Pick(i) /\ ~Room(i) /\ ~Return(i) /\ ~Account(i)
    BY <2>1, ProcFacts DEF Interrupt, Take, Pick, Room, Return, Account
  <2>5. ~RunCall /\ ~DelCall /\ ~CreateThread /\ ~RunDone /\ ~Mark /\ ~Join /\ ~FreeAll
    BY <2>1, ProcFacts DEF RunCall, DelCall, CreateThread, RunDone, Mark, Join, FreeAll
  <2> QED
    BY <2>2, <2>3, <2>4, <2>5, NextCases DEF Procedure, Terminated
<1>1. CASE Closed
  <2>1. /\ pc[Owner] = "closed" /\ closing /\ \A i \in Threads : pc[i] \in {"none", "exited"}
        /\ \A c \in Clients \ {Owner} : pc[c] \in {"idle", "stray"}
    BY <1>1 DEF Life, Closed, QuietOK
  <2>2. \A p \in Procs : pc[p] \in {"closed", "none", "exited", "idle", "stray"}
    BY <2>1 DEF Procs
  <2>3. \A p \in Procs : ~Reserve(p) /\ ~InterruptReserve(p) /\ ~Append1(p) /\ ~Post(p) /\ \A j \in Jobs, i \in Threads : ~AddCall(p, j, i)
    BY <2>1, <2>2 DEF Reserve, InterruptReserve, Append1, Post, AddCall
  <2>4. \A c \in Clients : ~SpuriousWake(c) /\ ~Wake(c) /\ \A i \in Threads : ~BarrierCall(c, i)
    BY <2>1, <2>2, ProcFacts DEF BarrierCall, SpuriousWake, Wake
  <2>5. \A i \in Threads : ~Interrupt(i) /\ ~Take(i) /\ ~Pick(i) /\ ~Room(i) /\ ~Return(i) /\ ~Account(i)
    BY <2>1 DEF Interrupt, Take, Pick, Room, Return, Account
  <2>6. ~RunCall /\ ~DelCall /\ ~CreateThread /\ ~RunDone /\ ~Mark /\ ~Join /\ ~FreeAll
    BY <2>1 DEF RunCall, DelCall, CreateThread, RunDone, Mark, Join, FreeAll
  <2> QED
    BY <2>3, <2>4, <2>5, <2>6, NextCases DEF Procedure, Terminated
<1> QED
  BY <1>0, <1>1

----------------------------------------------------------------------------
(* The counters.                                                           *)

\* A group of threads can be counted.
LEMMA GroupFinite == ASSUME ConstantsOK, NEW f, NEW g, NEW l, NEW i
  PROVE IsFiniteSet(Group(f, g, l, i)) /\ Cardinality(Group(f, g, l, i)) \in Nat
<1>1. IsFiniteSet(Threads)
  BY FS_Interval DEF Threads
<1>2. IsFiniteSet(Procs)
  BY <1>1, FS_Union DEF Procs
<1> QED
  BY <1>2, FS_Subset, FS_CardinalityType DEF Group

\* Nobody enters or leaves the place l.
LEMMA GroupSame ==
  ASSUME ConstantsOK, NEW f, NEW g, NEW ff, NEW gg, NEW l, NEW i,
         \A q \in Procs : ff[q] = l <=> f[q] = l,
         \A q \in Procs : f[q] = l => gg[q] = g[q]
  PROVE  Group(ff, gg, l, i) = Group(f, g, l, i)
BY DEF Group

\* Thread p comes to l, for thread t.
LEMMA GroupCome ==
  ASSUME ConstantsOK, NEW f, NEW g, NEW ff, NEW gg, NEW l, NEW i, NEW p \in Procs,
         f[p] # l, ff[p] = l,
         \A q \in Procs \ {p} : ff[q] = f[q] /\ gg[q] = g[q]
  PROVE  /\ gg[p] = i => Cardinality(Group(ff, gg, l, i)) = Cardinality(Group(f, g, l, i)) + 1
         /\ gg[p] # i => Group(ff, gg, l, i) = Group(f, g, l, i)
<1>1. CASE gg[p] = i
  <2>1. Group(ff, gg, l, i) = Group(f, g, l, i) \cup {p} /\ p \notin Group(f, g, l, i)
    BY <1>1 DEF Group
  <2> QED
    <3> DEFINE G == Group(f, g, l, i)
    <3>1. IsFiniteSet(G) /\ Cardinality(G) \in Nat
      BY GroupFinite
    <3> HIDE DEF G
    <3>2. Cardinality(G \cup {p}) = Cardinality(G) + 1
      BY <2>1, <3>1, FS_AddElement DEF G
    <3> QED
      BY <1>1, <2>1, <3>2 DEF G
<1>2. CASE gg[p] # i
  <2>1. Group(ff, gg, l, i) = Group(f, g, l, i)
    BY <1>2 DEF Group
  <2> QED
    BY <1>2, <2>1, GroupFinite
<1> QED
  BY <1>1, <1>2

\* Thread p leaves l, where it was for thread t.
LEMMA GroupGo ==
  ASSUME ConstantsOK, NEW f, NEW g, NEW ff, NEW gg, NEW l, NEW i, NEW p \in Procs,
         f[p] = l, ff[p] # l,
         \A q \in Procs \ {p} : ff[q] = f[q] /\ gg[q] = g[q]
  PROVE  /\ g[p] = i => Cardinality(Group(ff, gg, l, i)) = Cardinality(Group(f, g, l, i)) - 1
         /\ g[p] # i => Group(ff, gg, l, i) = Group(f, g, l, i)
<1>1. CASE g[p] = i
  <2>1. Group(ff, gg, l, i) = Group(f, g, l, i) \ {p} /\ p \in Group(f, g, l, i)
    BY <1>1 DEF Group
  <2> QED
    <3> DEFINE G == Group(f, g, l, i)
    <3>1. IsFiniteSet(G) /\ Cardinality(G) \in Nat
      BY GroupFinite
    <3> HIDE DEF G
    <3>2. Cardinality(G \ {p}) = Cardinality(G) - 1
      BY <2>1, <3>1, FS_RemoveElement DEF G
    <3> QED
      BY <1>1, <2>1, <3>2 DEF G
<1>2. CASE g[p] # i
  <2>1. Group(ff, gg, l, i) = Group(f, g, l, i)
    BY <1>2 DEF Group
  <2> QED
    BY <1>2, <2>1, GroupFinite
<1> QED
  BY <1>1, <1>2

\* How many threads stand in the middle of adding a task to thread i.
NAppend(i) == Cardinality(Passing("append", i))
NPost(i) == Cardinality(Passing("post", i))

\* Steps that nobody who is adding a task takes part in.
LEMMA PassingSame ==
  ASSUME ConstantsOK, \A q \in Procs : pc[q] \in {"append", "post"} \/ pc'[q] \in {"append", "post"} =>
           pc'[q] = pc[q] /\ tid'[q] = tid[q]
  PROVE  \A i : NAppend(i)' = NAppend(i) /\ NPost(i)' = NPost(i)
BY DEF NAppend, NPost, Passing, Group

\* A queue that a step does not touch.
LEMMA MatchedKept ==
  ASSUME ConstantsOK, NEW i \in Threads, Matched(i), interrupts' = 0 => interrupts = 0,
         full'[i] = full[i], empty'[i] = empty[i], pending'[i] = pending[i], tasks'[i] = tasks[i],
         cur'[i] = None <=> cur[i] = None,
         pc'[i] = "pick" <=> pc[i] = "pick", pc'[i] = "room" <=> pc[i] = "room",
         NAppend(i)' = NAppend(i), NPost(i)' = NPost(i)
  PROVE  Matched(i)'
<1>1. Standing("pick", i)' = Standing("pick", i) /\ Standing("room", i)' = Standing("room", i)
  BY DEF Standing
<1> QED
  BY <1>1 DEF Matched, NAppend, NPost

\* The numbers the counters are made of.
LEMMA CountersNat ==
  ASSUME ConstantsOK, Typed, NEW i \in Threads
  PROVE  \E f \in Nat, e \in Nat, n \in Nat, m \in Nat, a \in Nat, b \in Nat :
           /\ f = full[i] /\ e = empty[i] /\ n = pending[i] /\ m = Len(tasks[i])
           /\ a = NAppend(i) /\ b = NPost(i)
<1>1. full[i] \in Nat /\ empty[i] \in Nat /\ pending[i] \in Nat /\ tasks[i] \in Seq(Items)
  BY DEF Typed, DataOK
<1>2. Len(tasks[i]) \in Nat
  BY <1>1
<1>3. NAppend(i) \in Nat /\ NPost(i) \in Nat
  BY PassingFinite DEF NAppend, NPost
<1> QED
  BY <1>1, <1>2, <1>3

\* Thread p reserves room in a queue.
LEMMA ReserveMatched ==
  ASSUME ConstantsOK, Typed, NEW p \in Procs, Reserve(p), NEW i \in Threads, Matched(i)
  PROVE  Matched(i)'
<1>0. PlacesOK /\ DataOK
  BY DEF Typed
<1>1. PICK t \in Threads : t = tid[p]
  BY DEF Reserve, Typed, CarryOK, Calling
<1>2. /\ pc[p] = "reserve" /\ pc' = [pc EXCEPT ![p] = "append"]
      /\ empty' = [empty EXCEPT ![t] = @ - 1] /\ empty[t] > 0
      /\ UNCHANGED <<tasks, full, pending, cur, tid, interrupts>>
  BY <1>1 DEF Reserve, Goto, faults
<1>3. NAppend(i)' = NAppend(i) + (IF i = t THEN 1 ELSE 0)
  <2>1. \A q \in Procs \ {p} : pc'[q] = pc[q] /\ tid'[q] = tid[q]
    BY <1>0, <1>2 DEF PlacesOK, DataOK
  <2>2. pc[p] # "append" /\ pc'[p] = "append" /\ tid'[p] = t
    BY <1>0, <1>1, <1>2 DEF PlacesOK
  <2>3. /\ tid'[p] = i => Cardinality(Group(pc', tid', "append", i)) = Cardinality(Group(pc, tid, "append", i)) + 1
        /\ tid'[p] # i => Group(pc', tid', "append", i) = Group(pc, tid, "append", i)
    BY ONLY ConstantsOK, <2>1, <2>2, GroupCome, p \in Procs
  <2> QED
    BY <1>1, <2>2, <2>3, PassingFinite DEF NAppend, Passing
<1>4. NPost(i)' = NPost(i)
  <2>1. \A q \in Procs : pc'[q] = "post" <=> pc[q] = "post"
    BY <1>0, <1>2 DEF PlacesOK
  <2> QED
    BY <1>2, <2>1 DEF NPost, Passing, Group
<1>5. Standing("pick", i)' = Standing("pick", i) /\ Standing("room", i)' = Standing("room", i)
  BY <1>0, <1>2, ProcFacts DEF Standing, PlacesOK
<1>6. PICK f \in Nat, e \in Nat, n \in Nat, m \in Nat, a \in Nat, b \in Nat :
        /\ f = full[i] /\ e = empty[i] /\ n = pending[i] /\ m = Len(tasks[i])
        /\ a = NAppend(i) /\ b = NPost(i)
  BY CountersNat
<1>7. empty'[i] = e - (IF i = t THEN 1 ELSE 0)
  <2>1. empty' = [empty EXCEPT ![t] = @ - 1] /\ empty \in [Threads -> 0..QueueSize] /\ i \in Threads /\ e = empty[i]
    BY <1>0, <1>2, <1>6 DEF DataOK
  <2> QED
    BY ONLY <2>1, e \in Nat
<1>8. PICK r \in Nat : r = Standing("room", i)
  BY DEF Standing
<1>9. interrupts' = 0 => empty'[i] + m + Standing("room", i) + NAppend(i)' = QueueSize
  <2>1. interrupts = 0 => e + m + r + a = QueueSize
    BY <1>6, <1>8 DEF Matched, NAppend
  <2>2. interrupts = 0 => (e - (IF i = t THEN 1 ELSE 0)) + m + r + (a + (IF i = t THEN 1 ELSE 0)) = QueueSize
    BY <2>1
  <2> QED
    BY <1>2, <1>3, <1>6, <1>7, <1>8, <2>2
<1> QED
  BY <1>2, <1>4, <1>5, <1>6, <1>9 DEF Matched, NAppend, NPost

\* The wait of thread p for room is interrupted: from then on only pending
\* counts.
LEMMA InterruptMatched ==
  ASSUME ConstantsOK, Typed, NEW p \in Procs, InterruptReserve(p), NEW i \in Threads, Matched(i)
  PROVE  Matched(i)'
BY DEF InterruptReserve, queues, Matched, Typed, DataOK

\* Thread p puts its task into a list and counts it.
LEMMA AppendMatched ==
  ASSUME ConstantsOK, Typed, NEW p \in Procs, Append1(p), NEW i \in Threads, Matched(i)
  PROVE  Matched(i)'
<1>0. PlacesOK /\ DataOK
  BY DEF Typed
<1>1. PICK t \in Threads, x \in Items : t = tid[p] /\ x = item[p]
  BY DEF Append1, Typed, CarryOK, Calling
<1>2. /\ pc[p] = "append" /\ pc' = [pc EXCEPT ![p] = "post"]
      /\ tasks' = [tasks EXCEPT ![t] = Append(@, x)] /\ pending' = [pending EXCEPT ![t] = @ + 1]
      /\ UNCHANGED <<full, empty, cur, tid, interrupts>>
  BY <1>1 DEF Append1, Goto, faults
<1>3. NAppend(i)' = NAppend(i) - (IF i = t THEN 1 ELSE 0)
  <2>1. \A q \in Procs \ {p} : pc'[q] = pc[q] /\ tid'[q] = tid[q]
    BY <1>0, <1>2 DEF PlacesOK, DataOK
  <2>2. pc[p] = "append" /\ pc'[p] # "append" /\ tid[p] = t
    BY <1>0, <1>1, <1>2 DEF PlacesOK
  <2>3. /\ tid[p] = i => Cardinality(Group(pc', tid', "append", i)) = Cardinality(Group(pc, tid, "append", i)) - 1
        /\ tid[p] # i => Group(pc', tid', "append", i) = Group(pc, tid, "append", i)
    BY ONLY ConstantsOK, <2>1, <2>2, GroupGo, p \in Procs
  <2> QED
    BY <1>1, <2>2, <2>3, PassingFinite DEF NAppend, Passing
<1>4. NPost(i)' = NPost(i) + (IF i = t THEN 1 ELSE 0)
  <2>1. \A q \in Procs \ {p} : pc'[q] = pc[q] /\ tid'[q] = tid[q]
    BY <1>0, <1>2 DEF PlacesOK, DataOK
  <2>2. pc[p] # "post" /\ pc'[p] = "post" /\ tid'[p] = t
    BY <1>0, <1>1, <1>2 DEF PlacesOK
  <2>3. /\ tid'[p] = i => Cardinality(Group(pc', tid', "post", i)) = Cardinality(Group(pc, tid, "post", i)) + 1
        /\ tid'[p] # i => Group(pc', tid', "post", i) = Group(pc, tid, "post", i)
    BY ONLY ConstantsOK, <2>1, <2>2, GroupCome, p \in Procs, SMTT(60)
  <2> QED
    BY <1>1, <2>2, <2>3, PassingFinite DEF NPost, Passing
<1>5. Standing("pick", i)' = Standing("pick", i) /\ Standing("room", i)' = Standing("room", i)
  BY <1>0, <1>2, ProcFacts DEF Standing, PlacesOK
<1>6. PICK f \in Nat, e \in Nat, n \in Nat, m \in Nat, a \in Nat, b \in Nat :
        /\ f = full[i] /\ e = empty[i] /\ n = pending[i] /\ m = Len(tasks[i])
        /\ a = NAppend(i) /\ b = NPost(i)
  BY CountersNat
<1>7. Len(tasks'[i]) = m + (IF i = t THEN 1 ELSE 0)
  <2>1. tasks[i] \in Seq(Items) /\ tasks'[i] = IF i = t THEN Append(tasks[i], x) ELSE tasks[i]
    BY <1>0, <1>2 DEF DataOK
  <2>2. Len(Append(tasks[i], x)) = Len(tasks[i]) + 1
    BY <2>1
  <2>3. CASE i = t
    BY <1>6, <2>1, <2>2, <2>3
  <2>4. CASE i # t
    BY <1>6, <2>1, <2>4
  <2> QED
    BY <2>3, <2>4
<1>8. pending'[i] = n + (IF i = t THEN 1 ELSE 0)
  <2>1. pending' = [pending EXCEPT ![t] = @ + 1] /\ pending \in [Threads -> Nat] /\ i \in Threads /\ n = pending[i]
    BY <1>0, <1>2, <1>6 DEF DataOK
  <2> QED
    BY ONLY <2>1, n \in Nat
<1>9. PICK r \in Nat, k \in Nat : r = Standing("room", i) /\ k = Standing("pick", i)
  BY DEF Standing
<1>10. interrupts' = 0 => empty'[i] + Len(tasks'[i]) + Standing("room", i)' + NAppend(i)' = QueueSize
  <2>1. interrupts = 0 => e + m + r + a = QueueSize
    BY <1>6, <1>9 DEF Matched, NAppend
  <2>2. interrupts = 0 => e + (m + (IF i = t THEN 1 ELSE 0)) + r + (a - (IF i = t THEN 1 ELSE 0)) = QueueSize
    BY <2>1
  <2> QED
    BY <1>2, <1>3, <1>5, <1>6, <1>7, <1>9, <2>2
<1>11. interrupts' = 0 => full'[i] + Standing("pick", i)' + NPost(i)' = Len(tasks'[i])
  <2>1. interrupts = 0 => f + k + b = m
    BY <1>6, <1>9 DEF Matched, NPost
  <2>2. interrupts = 0 => f + k + (b + (IF i = t THEN 1 ELSE 0)) = m + (IF i = t THEN 1 ELSE 0)
    BY <2>1
  <2> QED
    BY <1>2, <1>4, <1>5, <1>6, <1>7, <1>9, <2>2
<1>12. pending'[i] = Len(tasks'[i]) + (IF cur'[i] = None THEN 0 ELSE 1)
  <2>1. n = m + (IF cur[i] = None THEN 0 ELSE 1)
    BY <1>6 DEF Matched
  <2>2. n + (IF i = t THEN 1 ELSE 0) = m + (IF i = t THEN 1 ELSE 0) + (IF cur[i] = None THEN 0 ELSE 1)
    BY <2>1
  <2> QED
    BY <1>2, <1>7, <1>8, <2>2
<1> QED
  BY <1>10, <1>11, <1>12 DEF Matched, NAppend, NPost

\* Thread p announces a task.
LEMMA PostMatched ==
  ASSUME ConstantsOK, Typed, NEW p \in Procs, Post(p), NEW i \in Threads, Matched(i)
  PROVE  Matched(i)'
<1>0. PlacesOK /\ DataOK
  BY DEF Typed
<1>1. PICK t \in Threads : t = tid[p]
  BY DEF Post, Typed, CarryOK, Calling
<1>2. /\ pc[p] = "post" /\ pc' = [pc EXCEPT ![p] = Caller(p)] /\ Caller(p) \in {"run", "mark", "idle"}
      /\ full' = [full EXCEPT ![t] = Posted(@)] /\ tid' = [tid EXCEPT ![p] = None]
      /\ UNCHANGED <<tasks, empty, pending, cur, interrupts>>
  BY <1>1 DEF Post, Goto, faults, Caller
<1>3. NPost(i)' = NPost(i) - (IF i = t THEN 1 ELSE 0)
  <2>1. \A q \in Procs \ {p} : pc'[q] = pc[q] /\ tid'[q] = tid[q]
    BY <1>0, <1>2 DEF PlacesOK, DataOK
  <2>2. pc[p] = "post" /\ pc'[p] # "post"
    BY <1>0, <1>2 DEF PlacesOK
  <2> QED
    <3>1. /\ tid[p] = i => Cardinality(Group(pc', tid', "post", i)) = Cardinality(Group(pc, tid, "post", i)) - 1
          /\ tid[p] # i => Group(pc', tid', "post", i) = Group(pc, tid, "post", i)
      BY ONLY ConstantsOK, <2>1, <2>2, GroupGo, p \in Procs
    <3> QED
      BY <1>1, <3>1, PassingFinite DEF NPost, Passing
<1>4. NAppend(i)' = NAppend(i)
  <2>1. \A q \in Procs : (pc'[q] = "append" <=> pc[q] = "append") /\ (pc[q] = "append" => tid'[q] = tid[q])
    BY <1>0, <1>2 DEF PlacesOK, DataOK
  <2> QED
    BY <2>1 DEF NAppend, Passing, Group
<1>5. Standing("pick", i)' = Standing("pick", i) /\ Standing("room", i)' = Standing("room", i)
  BY <1>0, <1>2, ProcFacts DEF Standing, PlacesOK
<1>6. PICK f \in Nat, e \in Nat, n \in Nat, m \in Nat, a \in Nat, b \in Nat :
        /\ f = full[i] /\ e = empty[i] /\ n = pending[i] /\ m = Len(tasks[i])
        /\ a = NAppend(i) /\ b = NPost(i)
  BY CountersNat
<1>7. PICK k \in Nat, r \in Nat : k = Standing("pick", i) /\ r = Standing("room", i)
  BY DEF Standing
<1>8. interrupts = 0 => full'[i] = f + (IF i = t THEN 1 ELSE 0)
  <2>1. full'[i] = IF i = t THEN Posted(f) ELSE f
    BY <1>0, <1>2, <1>6 DEF DataOK
  <2>2. ASSUME i = t, interrupts = 0 PROVE f < QueueSize
    <3>1. NPost(i)' = b - 1 /\ NPost(i)' \in Nat
      BY <1>3, <1>6, <2>2, PassingFinite, GroupFinite DEF NPost, Passing
    <3>2. f + k + b = m /\ e + m + r + a = QueueSize
      BY <1>6, <1>7, <2>2 DEF Matched, NPost, NAppend
    <3> QED
      BY ONLY <3>1, <3>2, f \in Nat, k \in Nat, b \in Nat, m \in Nat, e \in Nat, r \in Nat, a \in Nat
  <2> QED
    BY <2>1, <2>2 DEF Posted
<1>9. interrupts' = 0 => full'[i] + Standing("pick", i)' + NPost(i)' = m
  <2>1. interrupts = 0 => f + k + b = m
    BY <1>6, <1>7 DEF Matched, NPost
  <2>2. interrupts = 0 => (f + (IF i = t THEN 1 ELSE 0)) + k + (b - (IF i = t THEN 1 ELSE 0)) = m
    BY <2>1
  <2> QED
    BY <1>2, <1>3, <1>5, <1>6, <1>7, <1>8, <2>2
<1> QED
  BY <1>2, <1>4, <1>5, <1>6, <1>9 DEF Matched, NAppend, NPost

\* Thread i takes an announced task, is interrupted, takes the first task, gives
\* room back, or accounts for its task.
LEMMA WorkMatched ==
  ASSUME ConstantsOK, Typed, NEW k \in Threads, NEW i \in Threads, Matched(i), Matched(k),
         Interrupt(k) \/ Take(k) \/ Pick(k) \/ Room(k) \/ Return(k) \/ Account(k), Defined'
  PROVE  Matched(i)'
<1>0. PlacesOK /\ DataOK /\ CarryOK
  BY DEF Typed
<1>1. NAppend(i)' = NAppend(i) /\ NPost(i)' = NPost(i)
  <2>1. CASE Account(k)
    <3>1. \A q \in Procs : pc[q] \in {"append", "post"} \/ pc'[q] \in {"append", "post"} =>
            pc'[q] = pc[q] /\ tid'[q] = tid[q]
      BY <1>0, <2>1 DEF Account
    <3> QED
      BY <3>1, PassingSame
  <2>2. CASE ~Account(k)
    <3>1. /\ \E l \in {"pick", "room", "run", "account"} : pc' = [pc EXCEPT ![k] = l]
          /\ pc[k] \notin {"append", "post"} /\ tid' = tid
      BY <1>0, <2>2, ProcFacts DEF Interrupt, Take, Pick, Room, Return, Goto, Defined, At
    <3>2. \A q \in Procs : pc[q] \in {"append", "post"} \/ pc'[q] \in {"append", "post"} =>
            pc'[q] = pc[q] /\ tid'[q] = tid[q]
      BY <1>0, <3>1 DEF PlacesOK
    <3> QED
      BY <3>2, PassingSame
  <2> QED
    BY <2>1, <2>2
<1>2. CASE i # k
  <2>1. pc'[i] = "pick" <=> pc[i] = "pick"
    BY <1>0, <1>2, ProcFacts DEF Interrupt, Take, Pick, Room, Return, Account, Goto, Defined, At, PlacesOK, ThreadPlaces, Calling
  <2>2. pc'[i] = "room" <=> pc[i] = "room"
    BY <1>0, <1>2, ProcFacts DEF Interrupt, Take, Pick, Room, Return, Account, Goto, Defined, At, PlacesOK, ThreadPlaces, Calling
  <2>3. /\ full'[i] = full[i] /\ empty'[i] = empty[i] /\ pending'[i] = pending[i] /\ tasks'[i] = tasks[i]
        /\ cur'[i] = cur[i]
    BY <1>0, <1>2 DEF Interrupt, Take, Pick, Room, Return, Account, queues, DataOK
  <2>4. interrupts' = 0 => interrupts = 0
    BY <1>0 DEF Interrupt, Take, Pick, Room, Return, Account, faults, DataOK
  <2> QED
    BY <1>1, <2>1, <2>2, <2>3, <2>4, MatchedKept
<1>3. CASE i = k
  <2>0. PICK f \in Nat, e \in Nat, n \in Nat, m \in Nat, a \in Nat, b \in Nat :
          /\ f = full[i] /\ e = empty[i] /\ n = pending[i] /\ m = Len(tasks[i])
          /\ a = NAppend(i) /\ b = NPost(i)
    BY CountersNat
  <2>1. /\ interrupts = 0 => f + Standing("pick", i) + b = m
        /\ interrupts = 0 => e + m + Standing("room", i) + a = QueueSize
        /\ n = m + (IF cur[i] = None THEN 0 ELSE 1)
    BY <2>0 DEF Matched, NAppend, NPost
  <2>2. ASSUME /\ interrupts' = 0 => full'[i] + Standing("pick", i)' + b = Len(tasks'[i])
               /\ interrupts' = 0 => empty'[i] + Len(tasks'[i]) + Standing("room", i)' + a = QueueSize
               /\ pending'[i] = Len(tasks'[i]) + (IF cur'[i] = None THEN 0 ELSE 1)
        PROVE  Matched(i)'
    BY <1>1, <2>0, <2>2 DEF Matched, NAppend, NPost
  <2>3. CASE Take(k)
    <3>1. /\ pc[i] = "wait" /\ pc'[i] = "pick" /\ full'[i] = f - 1
          /\ UNCHANGED <<tasks, empty, pending, cur, interrupts>>
      BY <1>0, <1>3, <2>0, <2>3, ProcFacts DEF Take, Goto, faults, DataOK, PlacesOK
    <3>2. /\ Standing("pick", i) = 0 /\ Standing("pick", i)' = 1
          /\ Standing("room", i) = 0 /\ Standing("room", i)' = 0
      BY <3>1 DEF Standing
    <3>3. interrupts = 0 => (f - 1) + 1 + b = m
      BY <2>1, <3>2
    <3>4. interrupts' = 0 => full'[i] + Standing("pick", i)' + b = Len(tasks'[i])
      BY <2>0, <3>1, <3>2, <3>3
    <3>5. interrupts' = 0 => empty'[i] + Len(tasks'[i]) + Standing("room", i)' + a = QueueSize
      BY <2>0, <2>1, <3>1, <3>2
    <3>6. pending'[i] = Len(tasks'[i]) + (IF cur'[i] = None THEN 0 ELSE 1)
      BY <2>0, <2>1, <3>1
    <3> QED
      BY <2>2, <3>4, <3>5, <3>6
  <2>4. CASE Interrupt(k)
    <3>1. /\ pc[i] = "wait" /\ pc'[i] = "pick" /\ interrupts' # 0
          /\ UNCHANGED <<tasks, full, empty, pending, cur>>
      BY <1>0, <1>3, <2>0, <2>4, ProcFacts DEF Interrupt, Goto, queues, DataOK, PlacesOK
    <3>2. Standing("room", i) = 0 /\ Standing("room", i)' = 0
      BY <3>1 DEF Standing
    <3> QED
      BY <2>0, <2>1, <2>2, <3>1, <3>2
  <2>5. CASE Pick(k)
    <3>1. /\ pc[i] = "pick" /\ pc'[i] = "room" /\ tasks[i] # <<>> /\ tasks'[i] = Tail(tasks[i])
          /\ cur'[i] = Head(tasks[i])
          /\ UNCHANGED <<full, empty, pending, interrupts>>
      BY <1>0, <1>3, <2>5, ProcFacts DEF Pick, Goto, faults, DataOK, PlacesOK, Defined, At
    <3>2. tasks[i] \in Seq(Items) /\ None \notin Items
      BY <1>0 DEF DataOK
    <3>3. Len(tasks[i]) # 0 /\ Len(Tail(tasks[i])) = Len(tasks[i]) - 1 /\ Head(tasks[i]) \in Items
      BY ONLY <3>1, <3>2
    <3>4. /\ Standing("pick", i) = 1 /\ Standing("pick", i)' = 0
          /\ Standing("room", i) = 0 /\ Standing("room", i)' = 1
      BY <3>1 DEF Standing
    <3>5. cur[i] = None /\ cur'[i] # None /\ Len(tasks'[i]) = m - 1
      BY <1>0, <2>0, <3>1, <3>2, <3>3 DEF CarryOK
    <3>6. interrupts = 0 => e + (m - 1) + 1 + a = QueueSize
      BY <2>1, <3>4
    <3>7. interrupts' = 0 => empty'[i] + Len(tasks'[i]) + Standing("room", i)' + a = QueueSize
      BY <2>0, <3>1, <3>4, <3>5, <3>6
    <3>8. interrupts = 0 => f + 0 + b = m - 1
      BY <2>1, <3>4
    <3>9. interrupts' = 0 => full'[i] + Standing("pick", i)' + b = Len(tasks'[i])
      BY <2>0, <3>1, <3>4, <3>5, <3>8
    <3>10. pending'[i] = Len(tasks'[i]) + (IF cur'[i] = None THEN 0 ELSE 1)
      <4>1. n = m
        BY <2>0, <2>1, <3>5
      <4>2. n = (m - 1) + 1
        BY <4>1
      <4> QED
        BY <2>0, <3>1, <3>5, <4>2
    <3> QED
      BY <2>2, <3>7, <3>9, <3>10
  <2>6. CASE Room(k)
    <3>1. /\ pc[i] = "room" /\ pc'[i] \in {"account", "run"} /\ empty'[i] = Posted(e)
          /\ UNCHANGED <<tasks, full, pending, cur, interrupts>>
      BY <1>0, <1>3, <2>0, <2>6, ProcFacts DEF Room, Goto, faults, DataOK, PlacesOK
    <3>2. /\ Standing("pick", i) = 0 /\ Standing("pick", i)' = 0
          /\ Standing("room", i) = 1 /\ Standing("room", i)' = 0
      BY <3>1 DEF Standing
    <3>3. interrupts = 0 => e + 1 + m + 0 + a = QueueSize /\ Posted(e) = e + 1
      BY <2>1, <3>2 DEF Posted
    <3>4. interrupts' = 0 => empty'[i] + Len(tasks'[i]) + Standing("room", i)' + a = QueueSize
      BY <2>0, <3>1, <3>2, <3>3
    <3>5. interrupts' = 0 => full'[i] + Standing("pick", i)' + b = Len(tasks'[i])
      BY <2>0, <2>1, <3>1, <3>2
    <3>6. pending'[i] = Len(tasks'[i]) + (IF cur'[i] = None THEN 0 ELSE 1)
      BY <2>0, <2>1, <3>1
    <3> QED
      BY <2>2, <3>4, <3>5, <3>6
  <2>7. CASE Return(k)
    <3>1. /\ pc[i] = "run" /\ pc'[i] = "account"
          /\ UNCHANGED <<tasks, full, empty, pending, cur, interrupts>>
      BY <1>0, <1>3, <2>7, ProcFacts DEF Return, Goto, faults, queues, PlacesOK
    <3> QED
      BY <1>1, <3>1, MatchedKept
  <2>8. CASE Account(k)
    <3>1. /\ pc[i] = "account" /\ pc'[i] \in {"wait", "exited"} /\ pending'[i] = n - 1 /\ cur'[i] = None
          /\ UNCHANGED <<tasks, full, empty, interrupts>>
      BY <1>0, <1>3, <2>0, <2>8, ProcFacts DEF Account, faults, DataOK, PlacesOK
    <3>2. /\ Standing("pick", i) = 0 /\ Standing("pick", i)' = 0
          /\ Standing("room", i) = 0 /\ Standing("room", i)' = 0
      BY <3>1 DEF Standing
    <3>3. cur[i] # None
      BY <1>0, <3>1 DEF CarryOK
    <3> QED
      BY <2>0, <2>1, <2>2, <3>1, <3>2, <3>3
  <2> QED
    BY <2>3, <2>4, <2>5, <2>6, <2>7, <2>8
<1> QED
  BY <1>2, <1>3

\* The steps of a client that are not part of _borTaskPoolAdd, and the owner's.
LEMMA ElseMatched ==
  ASSUME ConstantsOK, Typed, Life, NEW i \in Threads, Matched(i),
         \/ \E p \in Procs, j \in Jobs, k \in Threads : AddCall(p, j, k)
         \/ \E c \in Clients : (\E k \in Threads : BarrierCall(c, k)) \/ SpuriousWake(c) \/ Wake(c)
         \/ RunCall \/ DelCall \/ CreateThread \/ RunDone \/ Mark \/ Join
  PROVE  Matched(i)'
<1>0. PlacesOK /\ DataOK
  BY DEF Typed
<1>1. UNCHANGED <<tasks, full, empty, pending, cur, interrupts>>
  BY DEF AddCall, BarrierCall, SpuriousWake, Wake, RunCall, DelCall, CreateThread, RunDone, Mark, Join,
         queues, faults
<1>2. \E p \in Procs :
        /\ pc[p] \notin {"append", "post", "pick", "room"}
        /\ pc' = pc \/ \E l : pc' = [pc EXCEPT ![p] = l] /\ l \notin {"append", "post", "pick", "room"}
        /\ tid' = tid \/ \E t : tid' = [tid EXCEPT ![p] = t]
  <2>1. CASE CreateThread
    <3>1. idx \in Threads
      BY <1>0, <2>1, CreateIndex DEF CreateThread
    <3>2. pc[idx] = "none"
      <4>1. pc[Owner] = "create" /\ ~(idx < idx)
        BY <2>1, <3>1 DEF CreateThread, Threads
      <4>2. ~started
        BY <4>1 DEF Life
      <4> QED
        BY <3>1, <4>1, <4>2 DEF Life
    <3>3. pc' = [pc EXCEPT ![idx] = "wait"] /\ tid' = tid /\ idx \in Procs
      BY <2>1, <3>1, ProcFacts DEF CreateThread, Goto
    <3>4. "wait" \notin {"append", "post", "pick", "room"} /\ pc[idx] \notin {"append", "post", "pick", "room"}
      BY <3>2
    <3> QED
      BY <3>3, <3>4
  <2>2. CASE \E p \in Procs, j \in Jobs, k \in Threads : AddCall(p, j, k)
    <3>1. PICK p \in Procs, j \in Jobs, k \in Threads : AddCall(p, j, k)
      BY <2>2
    <3>2. /\ pc' = [pc EXCEPT ![p] = "reserve"] /\ tid' = [tid EXCEPT ![p] = k]
          /\ pc[p] \notin {"append", "post", "pick", "room"}
      BY <3>1 DEF AddCall, Goto
    <3>3. "reserve" \notin {"append", "post", "pick", "room"}
      OBVIOUS
    <3> QED
      BY <3>2, <3>3
  <2>3. CASE \E c \in Clients : (\E k \in Threads : BarrierCall(c, k)) \/ SpuriousWake(c) \/ Wake(c)
    BY <2>3, ProcFacts DEF BarrierCall, SpuriousWake, Wake, Goto
  <2>4. CASE RunCall \/ RunDone \/ Mark \/ Join
    <3>1. /\ pc' = pc \/ \E l \in {"create", "idle", "reserve", "join", "free"} : pc' = [pc EXCEPT ![Owner] = l]
          /\ tid' = tid \/ \E t : tid' = [tid EXCEPT ![Owner] = t]
          /\ pc[Owner] \notin {"append", "post", "pick", "room"}
      <4>1. CASE RunCall \/ RunDone
        BY <4>1 DEF RunCall, RunDone, Goto
      <4>2. CASE Mark
        BY <4>2 DEF Mark, Goto
      <4>3. CASE Join
        BY <4>3 DEF Join, Goto
      <4> QED
        BY <2>4, <4>1, <4>2, <4>3
    <3>2. \A l \in {"create", "idle", "reserve", "join", "free"} : l \notin {"append", "post", "pick", "room"}
      OBVIOUS
    <3> QED
      BY <3>1, <3>2, ProcFacts
  <2>5. CASE DelCall
    <3>1. pc[Owner] = "idle"
      BY <2>5, ProcFacts DEF DelCall
    <3>2. tid' = tid /\ pc' = [pc EXCEPT ![Owner] = IF started THEN "mark" ELSE "free"]
      BY <2>5 DEF DelCall, Goto
    <3>3. (IF started THEN "mark" ELSE "free") \notin {"append", "post", "pick", "room"}
      OBVIOUS
    <3> QED
      BY <3>1, <3>2, <3>3, ProcFacts
  <2> QED
    BY <2>1, <2>2, <2>3, <2>4, <2>5
<1>3. \A q \in Procs : \A l \in {"append", "post", "pick", "room"} : pc'[q] = l <=> pc[q] = l
  BY <1>0, <1>2 DEF PlacesOK
<1>4. \A q \in Procs : pc[q] \in {"append", "post"} => tid'[q] = tid[q]
  BY <1>0, <1>2 DEF DataOK
<1>5. NAppend(i)' = NAppend(i) /\ NPost(i)' = NPost(i)
  BY <1>3, <1>4, PassingSame
<1> QED
  BY <1>1, <1>3, <1>5, MatchedKept, ProcFacts

\* No thread finds its list empty, but for an interrupted wait.
LEMMA NoStray ==
  ASSUME ConstantsOK, Typed, Life, Synchronised, [Next]_vars, Defined, interrupts = 0
  PROVE  Defined'
<1>0. PlacesOK /\ DataOK /\ \A p \in Procs : pc[p] # "stray"
  BY DEF Typed, Defined, At
<1>1. ASSUME NEW i \in Threads, Pick(i) PROVE Defined'
  <2>1. pc[i] = "pick" /\ Matched(i)
    BY <1>0, <1>1, WorkingOpen, ProcFacts DEF Pick
  <2>2. PICK f \in Nat, e \in Nat, n \in Nat, m \in Nat, a \in Nat, b \in Nat :
          /\ f = full[i] /\ e = empty[i] /\ n = pending[i] /\ m = Len(tasks[i])
          /\ a = NAppend(i) /\ b = NPost(i)
    BY CountersNat
  <2>3. f + 1 + b = m
    BY <2>1, <2>2 DEF Matched, Standing, NPost
  <2>4. Len(tasks[i]) # 0
    BY <2>2, <2>3
  <2>5. tasks[i] # <<>>
    BY <2>4
  <2>6. pc' = [pc EXCEPT ![i] = "room"]
    BY <1>1, <2>5 DEF Pick, Goto
  <2> QED
    BY <1>0, <2>6 DEF Defined, At, PlacesOK
<1>2. ASSUME NEW p \in Procs,
             (\E j \in Jobs, i \in Threads : AddCall(p, j, i)) \/ Reserve(p) \/ InterruptReserve(p) \/ Append1(p) \/ Post(p)
      PROVE  Defined'
  BY <1>0, <1>2 DEF AddCall, Reserve, InterruptReserve, Append1, Post, Goto, Caller, Defined, At, PlacesOK
<1>3. ASSUME NEW c \in Clients, (\E i \in Threads : BarrierCall(c, i)) \/ SpuriousWake(c) \/ Wake(c)
      PROVE  Defined'
  BY <1>0, <1>3 DEF BarrierCall, SpuriousWake, Wake, Goto, Defined, At, PlacesOK
<1>4. ASSUME NEW i \in Threads, Interrupt(i) \/ Take(i) \/ Room(i) \/ Return(i) \/ Account(i) PROVE Defined'
  BY <1>0, <1>4 DEF Interrupt, Take, Room, Return, Account, Goto, Defined, At, PlacesOK
<1>5. ASSUME RunCall \/ DelCall \/ CreateThread \/ RunDone \/ Mark \/ Join \/ FreeAll PROVE Defined'
  BY <1>0, <1>5 DEF RunCall, DelCall, CreateThread, RunDone, Mark, Join, FreeAll, Goto, Defined, At, PlacesOK
<1>6. ASSUME UNCHANGED vars PROVE Defined'
  BY <1>6 DEF vars, Defined, At
<1> QED
  BY <1>1, <1>2, <1>3, <1>4, <1>5, <1>6, NextCases DEF Procedure, Terminated

\* Every step keeps the counters right.
LEMMA StepSync ==
  ASSUME ConstantsOK
  PROVE  Typed /\ Life /\ QuietOK /\ Synchronised /\ [Next]_vars => Synchronised'
<1> SUFFICES ASSUME Typed, Life, QuietOK, Synchronised, [Next]_vars PROVE Synchronised'
  OBVIOUS
<1>1. CASE UNCHANGED vars
  <2>1. Synchronised' <=> Synchronised
    BY <1>1 DEF vars, queues, faults, Synchronised, Closed, Defined, At, Matched, Standing, Passing
  <2> QED
    BY <2>1
<1>2. CASE Closed \/ ~Defined
  BY <1>1, <1>2, ClosedStill
<1>3. CASE ~Closed /\ Defined /\ ~UNCHANGED vars
  <2>1. interrupts' = 0 => interrupts = 0
    <3>1. /\ \A i \in Threads : Interrupt(i) => interrupts' # 0
          /\ \A p \in Procs : InterruptReserve(p) => interrupts' # 0
      BY DEF Interrupt, InterruptReserve, Typed, DataOK
    <3>2. ~(\E i \in Threads : Interrupt(i)) /\ ~(\E p \in Procs : InterruptReserve(p)) => interrupts' = interrupts
      BY <1>3, NextCases DEF Procedure, AddCall, Reserve, Append1, Post, BarrierCall, SpuriousWake, Wake,
           Take, Pick, Room, Return, Account, RunCall, DelCall, CreateThread, RunDone, Mark, Join, FreeAll,
           Terminated, faults, vars
    <3> QED
      BY <3>1, <3>2
  <2>2. interrupts' = 0 => Defined'
    BY <1>3, <2>1, NoStray
  <2>3. ASSUME Defined', ~Closed', NEW i \in Threads PROVE Matched(i)'
    <3>1. \A k \in Threads : Matched(k)
      BY <1>3 DEF Synchronised
    <3>2. ~FreeAll
      BY <2>3, ProcFacts DEF FreeAll, Goto, Closed, Typed, PlacesOK
    <3> QED
      BY <1>3, <3>1, <3>2, <2>3, NextCases, ReserveMatched, InterruptMatched, AppendMatched, PostMatched, WorkMatched, ElseMatched
      DEF Procedure, Terminated
  <2> QED
    BY <2>2, <2>3 DEF Synchronised
<1> QED
  BY <1>1, <1>2, <1>3

\* Nobody passes a task in a new pool, and every list is empty.
LEMMA InitSync == ASSUME ConstantsOK PROVE Init => Synchronised
<1> SUFFICES ASSUME Init PROVE Synchronised
  OBVIOUS
<1>1. \A p \in Procs : pc[p] \in {"idle", "none"}
  BY DEF Init
<1>2. Defined
  BY <1>1 DEF Defined, At
<1>3. ASSUME NEW i \in Threads PROVE Matched(i)
  <2>1. Passing("post", i) = {} /\ Passing("append", i) = {}
    BY <1>1 DEF Passing, Group
  <2>2. Standing("pick", i) = 0 /\ Standing("room", i) = 0
    BY <1>1, ProcFacts DEF Standing
  <2>3. tasks[i] = <<>> /\ full[i] = 0 /\ empty[i] = QueueSize /\ pending[i] = 0 /\ cur[i] = None
    BY DEF Init
  <2>4. Len(tasks[i]) = 0 /\ Cardinality(Passing("post", i)) = 0 /\ Cardinality(Passing("append", i)) = 0
    BY <2>1, <2>3, FS_EmptySet
  <2> QED
    BY <2>2, <2>3, <2>4 DEF Matched
<1> QED
  BY <1>2, <1>3 DEF Synchronised

\* What holds of places and counters in every reachable state.
LEMMA Inductive == ASSUME ConstantsOK PROVE Spec => [](Typed /\ Life /\ QuietOK /\ Synchronised)
<1>1. Init => Typed /\ Life /\ QuietOK /\ Synchronised
  BY InitTyped, InitLife, InitSync
<1>2. Typed /\ Life /\ QuietOK /\ Synchronised /\ [Next]_vars => (Typed /\ Life /\ QuietOK /\ Synchronised)'
  BY StepTyped, StepLife, StepQuiet, StepSync
<1> QED
  BY <1>1, <1>2, PTL DEF Spec

\* Every variable of the pool stays in its type: in particular the semaphore empty
\* of each thread stays within 0..QUEUE_SIZE and its counter pending never goes
\* below zero (_borTaskPoolAdd, threadMain), whatever the interleaving, interrupted
\* and spurious wake-ups included.
THEOREM TypeCorrect == ASSUME ConstantsOK PROVE Spec => []TypeOK
<1>1. Typed => TypeOK
  <2> SUFFICES ASSUME Typed PROVE TypeOK
    OBVIOUS
  <2> QED
    BY DEF Typed, DataOK, PlacesOK, TypeOK, ClientPlaces, ThreadPlaces, Calling
<1> QED
  BY <1>1, Inductive, PTL

\* The semaphores full and empty of each thread count its list, and pending its
\* unfinished tasks, whoever adds to it: so threadMain, which does not look whether
\* the list is empty, always finds a task, unless sem_wait was interrupted.
THEOREM CountersAgree == ASSUME ConstantsOK PROVE Spec => []CountersMatch
<1>1. Typed /\ Synchronised => CountersMatch
  <2> SUFFICES ASSUME Typed, Synchronised, ~Closed, ~(interrupts > 0), NEW i \in Threads
               PROVE  /\ pc[i] # "stray"
                      /\ full[i] + Taken("pick", i) + Adding("post", i) = Len(tasks[i])
                      /\ empty[i] + Len(tasks[i]) + Taken("room", i) + Adding("append", i) = QueueSize
                      /\ pending[i] = Len(tasks[i]) + (IF cur[i] = None THEN 0 ELSE 1)
    BY DEF CountersMatch
  <2>1. interrupts = 0
    BY DEF Typed, DataOK
  <2>2. Defined /\ Matched(i)
    BY <2>1 DEF Synchronised
  <2>3. \A l : {p \in At(l) : tid[p] = i} = Passing(l, i)
    BY DEF At, Passing, Group
  <2>4. pc[i] # "stray"
    BY <2>2, ProcFacts DEF Defined, At
  <2> QED
    BY <2>1, <2>2, <2>3, <2>4 DEF Matched, Standing, Taken, Adding
<1> QED
  BY <1>1, Inductive, PTL

----------------------------------------------------------------------------
(* Jobs on their way into a list.                                          *)

\* Threads inside _borTaskPoolAdd whose task is not in a list yet.
Entering == {p \in Procs : pc[p] \in {"reserve", "append"}}

\* What _borTaskPoolAdd relies on: a job goes in once, by one thread, and only
\* the thread that deletes the pool adds finishing tasks.
EntryOK ==
  /\ Accepted \subseteq used
  /\ \A p \in Entering : item[p] \in Jobs => item[p] \in used \ Accepted
  /\ \A p, q \in Entering : item[p] = item[q] /\ item[p] \in Jobs => p = q
  /\ \A p \in Procs \ {Owner} : item[p] # Finish

\* A new pool: nobody is adding anything.
LEMMA InitEntry == ASSUME ConstantsOK PROVE Init => EntryOK
<1> SUFFICES ASSUME Init PROVE EntryOK
  OBVIOUS
<1>1. Accepted = {}
  BY DEF Init, Accepted
<1>2. Entering = {}
  BY DEF Init, Entering
<1>3. \A p \in Procs : item[p] # Finish
  BY DEF Init, Items
<1> QED
  BY <1>1, <1>2, <1>3 DEF EntryOK

\* Steps outside _borTaskPoolAdd keep what is said of the jobs that enter.
LEMMA EntryStays ==
  ASSUME ConstantsOK, EntryOK, UNCHANGED <<used, added, item>>, Entering' \subseteq Entering
  PROVE  EntryOK'
BY DEF EntryOK, Accepted

\* Every step keeps it: a client starts adding only a job never used before.
LEMMA StepEntry == ASSUME ConstantsOK PROVE Typed /\ EntryOK /\ [Next]_vars => EntryOK'
<1> SUFFICES ASSUME Typed, EntryOK, [Next]_vars PROVE EntryOK'
  OBVIOUS
<1>0. /\ pc \in [Procs -> ClientPlaces \cup ThreadPlaces] /\ item \in [Procs -> Items \cup {None}]
      /\ added \in [Threads -> SUBSET Jobs] /\ CarryOK /\ DataOK
  BY DEF Typed, DataOK, PlacesOK
<1>1. ASSUME NEW p \in Procs, NEW j \in Jobs, NEW i \in Threads, AddCall(p, j, i) PROVE EntryOK'
  <2>1. /\ used' = used \cup {j} /\ j \notin used /\ added' = added
        /\ item' = [item EXCEPT ![p] = j] /\ Entering' \subseteq Entering \cup {p}
    BY <1>0, <1>1 DEF AddCall, Goto, Entering
  <2>2. Accepted' = Accepted /\ j # Finish
    BY <2>1 DEF Accepted
  <2> QED
    BY <1>0, <2>1, <2>2 DEF EntryOK, Entering
<1>2. ASSUME NEW p \in Procs, Reserve(p) \/ InterruptReserve(p) PROVE EntryOK'
  <2>1. Entering' \subseteq Entering
    BY <1>0, <1>2 DEF Reserve, InterruptReserve, Goto, Entering
  <2> QED
    BY <1>2, <2>1, EntryStays DEF Reserve, InterruptReserve, history
<1>3. ASSUME NEW p \in Procs, Append1(p) PROVE EntryOK'
  <2>1. Entering' \subseteq Entering \ {p} /\ p \in Entering
    BY <1>0, <1>3 DEF Append1, Goto, Entering
  <2>2. item[p] \in Items /\ tid[p] \in Threads
    BY <1>0, <2>1 DEF CarryOK, Calling, Entering
  <2>3. UNCHANGED <<used, item>> /\ Accepted' = Accepted \cup ({item[p]} \ {Finish})
    <3>1. UNCHANGED <<used, item>> /\ added' = [added EXCEPT ![tid[p]] = @ \cup ({item[p]} \ {Finish})]
      BY <1>3 DEF Append1
    <3> QED
      BY <1>0, <2>2, <3>1 DEF Accepted
  <2> QED
    BY <2>1, <2>2, <2>3 DEF EntryOK, Items
<1>4. ASSUME NEW p \in Procs, Post(p) PROVE EntryOK'
  <2>1. Caller(p) \notin {"reserve", "append"}
    BY DEF Caller
  <2>2. Entering' \subseteq Entering /\ pc[p] = "post"
    BY <1>0, <1>4, <2>1 DEF Post, Goto, Entering
  <2>3. p \notin Entering /\ UNCHANGED <<used, added>> /\ item' = [item EXCEPT ![p] = None] /\ Accepted' = Accepted
    BY <1>4, <2>2 DEF Post, history, Entering, Accepted
  <2> QED
    BY <1>0, <2>2, <2>3 DEF EntryOK, Entering, Items
<1>5. ASSUME Mark PROVE EntryOK'
  <2>1. UNCHANGED <<used, added>> /\ Accepted' = Accepted
    BY <1>5 DEF Mark, history, Accepted
  <2>2. CASE item' = [item EXCEPT ![Owner] = Finish]
    <3>1. Entering' \subseteq Entering \cup {Owner}
      BY <1>0, <1>5, ProcFacts DEF Mark, Goto, Entering
    <3> QED
      BY <1>0, <2>1, <2>2, <3>1, ProcFacts DEF EntryOK, Entering
  <2>3. CASE item' = item /\ pc' = [pc EXCEPT ![Owner] = "join"]
    <3>1. Entering' \subseteq Entering
      BY <1>0, <2>3, ProcFacts DEF Entering
    <3> QED
      BY <2>1, <2>3, <3>1, EntryStays
  <2> QED
    BY <1>5, <2>2, <2>3 DEF Mark, Goto
<1>6. ASSUME NEW c \in Clients, (\E i \in Threads : BarrierCall(c, i)) \/ SpuriousWake(c) \/ Wake(c) PROVE EntryOK'
  <2>1. Entering' \subseteq Entering
    BY <1>0, <1>6 DEF BarrierCall, SpuriousWake, Wake, Goto, Entering
  <2> QED
    BY <1>6, <2>1, EntryStays DEF BarrierCall, SpuriousWake, Wake, history
<1>7. ASSUME NEW i \in Threads, Interrupt(i) \/ Take(i) \/ Pick(i) \/ Room(i) \/ Return(i) \/ Account(i)
      PROVE  EntryOK'
  <2>1. Entering' \subseteq Entering
    BY <1>0, <1>7 DEF Interrupt, Take, Pick, Room, Return, Account, Goto, Entering
  <2> QED
    BY <1>7, <2>1, EntryStays DEF Interrupt, Take, Pick, Room, Return, Account, history
<1>8. ASSUME RunCall \/ DelCall \/ CreateThread \/ RunDone \/ Join \/ FreeAll PROVE EntryOK'
  <2>1. Entering' \subseteq Entering
    BY <1>0, <1>8 DEF RunCall, DelCall, CreateThread, RunDone, Join, FreeAll, Goto, Entering
  <2> QED
    BY <1>8, <2>1, EntryStays DEF RunCall, DelCall, CreateThread, RunDone, Join, FreeAll, history
<1>9. ASSUME UNCHANGED vars PROVE EntryOK'
  BY <1>9, EntryStays DEF vars, history, Entering
<1> QED
  BY <1>1, <1>2, <1>3, <1>4, <1>5, <1>6, <1>7, <1>8, <1>9, NextCases DEF Procedure, Terminated

----------------------------------------------------------------------------
(* Where the jobs are.                                                     *)

\* No job stands in the list twice.
Distinct(s) == \A i, k \in DOMAIN s : s[i] = s[k] /\ s[i] \in Jobs => i = k

\* What appending a task does to the members of the list.
LEMMA AppendFacts ==
  ASSUME ConstantsOK, NEW s \in Seq(Items), NEW x \in Items
  PROVE  /\ Range(Append(s, x)) = Range(s) \cup {x}
         /\ Distinct(s) /\ (x \in Jobs => x \notin Range(s)) => Distinct(Append(s, x))
<1>1. /\ DOMAIN Append(s, x) = 1..(Len(s) + 1) /\ DOMAIN s = 1..Len(s) /\ Len(s) \in Nat
      /\ \A i \in 1..Len(s) : Append(s, x)[i] = s[i]
      /\ Append(s, x)[Len(s) + 1] = x
  OBVIOUS
<1>2. Range(Append(s, x)) = Range(s) \cup {x}
  BY <1>1 DEF Range
<1>3. ASSUME Distinct(s), x \in Jobs => x \notin Range(s) PROVE Distinct(Append(s, x))
  BY <1>1, <1>3 DEF Distinct, Range
<1> QED
  BY <1>2, <1>3

\* What taking the first task does to the members of the list.
LEMMA TailFacts ==
  ASSUME ConstantsOK, NEW s \in Seq(Items), s # <<>>
  PROVE  /\ Head(s) \in Range(s) /\ Head(s) \in Items
         /\ Range(s) = Range(Tail(s)) \cup {Head(s)}
         /\ Distinct(s) => Distinct(Tail(s)) /\ (Head(s) \in Jobs => Head(s) \notin Range(Tail(s)))
<1>1. /\ DOMAIN Tail(s) = 1..(Len(s) - 1) /\ DOMAIN s = 1..Len(s) /\ Len(s) \in Nat \ {0}
      /\ \A i \in 1..(Len(s) - 1) : Tail(s)[i] = s[i + 1]
      /\ Head(s) = s[1] /\ Head(s) \in Items
  OBVIOUS
<1>2. Range(s) = Range(Tail(s)) \cup {Head(s)}
  <2>1. ASSUME NEW k \in 1..Len(s), k # 1 PROVE k - 1 \in 1..(Len(s) - 1) /\ s[k] = Tail(s)[k - 1]
    <3>1. k - 1 \in 1..(Len(s) - 1) /\ (k - 1) + 1 = k
      BY <1>1, <2>1
    <3> QED
      BY <1>1, <3>1
  <2>2. \A i \in 1..(Len(s) - 1) : i + 1 \in 1..Len(s)
    BY <1>1
  <2>3. 1 \in 1..Len(s)
    BY <1>1
  <2>4. Range(s) = {s[k] : k \in 1..Len(s)} /\ Range(Tail(s)) = {Tail(s)[k] : k \in 1..(Len(s) - 1)}
    BY <1>1, Zenon DEF Range
  <2>5. ASSUME NEW x \in Range(s) PROVE x \in Range(Tail(s)) \cup {Head(s)}
    BY <1>1, <2>1, <2>4, <2>5
  <2>6. ASSUME NEW x \in Range(Tail(s)) PROVE x \in Range(s)
    BY <1>1, <2>2, <2>4, <2>6
  <2>7. Head(s) \in Range(s)
    BY <1>1, <2>3, <2>4
  <2> QED
    BY <2>5, <2>6, <2>7
<1>3. ASSUME Distinct(s) PROVE Distinct(Tail(s)) /\ (Head(s) \in Jobs => Head(s) \notin Range(Tail(s)))
  <2>1. \A i \in 1..(Len(s) - 1) : i + 1 \in 1..Len(s) /\ i + 1 # 1 /\ 1 \in 1..Len(s)
    BY <1>1
  <2>2. \A i, k \in 1..(Len(s) - 1) : i + 1 = k + 1 => i = k
    OBVIOUS
  <2> QED
    BY <1>1, <1>3, <2>1, <2>2 DEF Distinct, Range
<1>4. Head(s) \in Range(s)
  BY <1>2
<1> QED
  BY <1>1, <1>2, <1>3, <1>4
\* What deletion relies on: the tasks that are owed stand in front of every
\* finishing task, so that a worker that got one has left none of them behind.
OwedFirst(s, S) == \A i, k \in DOMAIN s : s[i] = Finish /\ s[k] \in S => k < i
\* The list keeps its order.
LEMMA AppendOwed ==
  ASSUME ConstantsOK, NEW s \in Seq(Items), NEW x, NEW S, OwedFirst(s, S), x \notin S
  PROVE  OwedFirst(Append(s, x), S)
<1>1. /\ DOMAIN Append(s, x) = 1..(Len(s) + 1) /\ DOMAIN s = 1..Len(s) /\ Len(s) \in Nat
      /\ \A i \in 1..Len(s) : Append(s, x)[i] = s[i]
      /\ Append(s, x)[Len(s) + 1] = x
  OBVIOUS
<1> QED
  BY <1>1 DEF OwedFirst

\* Taking the first task keeps the order, and a finishing task comes out only
\* when no owed task is left behind it.
LEMMA TailOwed ==
  ASSUME ConstantsOK, NEW s \in Seq(Items), s # <<>>, NEW S, OwedFirst(s, S)
  PROVE  /\ OwedFirst(Tail(s), S)
         /\ Head(s) = Finish => Range(s) \cap S = {}
<1>1. /\ DOMAIN Tail(s) = 1..(Len(s) - 1) /\ DOMAIN s = 1..Len(s) /\ Len(s) \in Nat \ {0}
      /\ \A i \in 1..(Len(s) - 1) : Tail(s)[i] = s[i + 1]
      /\ Head(s) = s[1]
  OBVIOUS
<1>2. OwedFirst(Tail(s), S)
  <2> SUFFICES ASSUME NEW i \in 1..(Len(s) - 1), NEW k \in 1..(Len(s) - 1),
                      Tail(s)[i] = Finish, Tail(s)[k] \in S
               PROVE  k < i
    BY <1>1 DEF OwedFirst
  <2>1. /\ i + 1 \in DOMAIN s /\ k + 1 \in DOMAIN s
        /\ s[i + 1] = Finish /\ s[k + 1] \in S
    BY <1>1
  <2>2. k + 1 < i + 1
    BY <2>1 DEF OwedFirst
  <2> QED
    BY <2>2
<1>3. ASSUME Head(s) = Finish, NEW k \in DOMAIN s PROVE s[k] \notin S
  <2>1. 1 \in DOMAIN s /\ s[1] = Finish /\ k \in 1..Len(s)
    BY <1>1, <1>3
  <2>2. s[k] \in S => k < 1
    BY <2>1 DEF OwedFirst
  <2> QED
    BY <2>1, <2>2, <1>1
<1> QED
  BY <1>2, <1>3 DEF Range

\* Where a thread still has to finish the job it has taken.
Unfinished == {"room", "run"} \cup Calling

\* Every job that was added for thread i is in exactly one place: in its list,
\* in its hands, or finished; and it has run once in the last place and not in
\* the others.
InPlace(i) ==
  /\ Distinct(tasks[i])
  /\ Range(tasks[i]) \cap ({cur[i]} \cup finished) \subseteq {Finish}
  /\ pc[i] \in Unfinished => cur[i] \notin finished
  /\ pc[i] = "account" => cur[i] \in finished \cup {Finish}
  /\ (Range(tasks[i]) \cup {cur[i]}) \cap Jobs \subseteq added[i]
  /\ ~Closed => added[i] \subseteq Range(tasks[i]) \cup {cur[i]} \cup finished

\* And no job goes to two threads, or is run without having been added.
Apart == \A i, k \in Threads : i # k => added[i] \cap added[k] = {}
\* Every job has one place, for one thread.
PlaceOK ==
  /\ \A i \in Threads : InPlace(i)
  /\ Apart /\ finished \subseteq Accepted

\* What is queued, held and finished stays, and so does what thread k has to do
\* with it.
LEMMA InPlaceStays ==
  ASSUME ConstantsOK, NEW k \in Threads, InPlace(k), ~Closed, finished' = finished,
         tasks'[k] = tasks[k], cur'[k] = cur[k], added'[k] = added[k],
         pc'[k] \in Unfinished => pc[k] \in Unfinished,
         pc'[k] = "account" => pc[k] = "account" \/ cur[k] = Finish
  PROVE  InPlace(k)'
BY DEF InPlace

\* A new pool has no jobs.
LEMMA InitPlace == ASSUME ConstantsOK PROVE Init => PlaceOK
<1> SUFFICES ASSUME Init PROVE PlaceOK
  OBVIOUS
<1>1. finished = {} /\ \A i \in Threads : tasks[i] = <<>> /\ added[i] = {} /\ cur[i] = None /\ pc[i] = "none"
  BY ProcFacts DEF Init
<1>2. \A i \in Threads : Range(tasks[i]) = {} /\ Distinct(tasks[i])
  BY <1>1 DEF Range, Distinct
<1> QED
  BY <1>1, <1>2 DEF PlaceOK, Apart, InPlace, Unfinished, Calling, Items

\* _borTaskPoolAdd puts a new job into a list.
LEMMA PlaceAppend ==
  ASSUME ConstantsOK, Typed, EntryOK, PlaceOK, ~Closed, NEW p \in Procs, Append1(p)
  PROVE  PlaceOK'
<1>0. DataOK /\ PlacesOK /\ CarryOK
  BY DEF Typed
<1>a. item[p] \in Items /\ tid[p] \in Threads /\ pc[p] = "append"
  BY <1>0 DEF CarryOK, Calling, Append1
<1>t. PICK t \in Threads : t = tid[p]
  BY <1>a
<1>x. PICK x \in Items : x = item[p]
  BY <1>a
<1>1. /\ pc[p] = "append" /\ pc' = [pc EXCEPT ![p] = "post"]
      /\ tasks' = [tasks EXCEPT ![t] = Append(@, x)] /\ UNCHANGED <<cur, finished>>
      /\ added' = [added EXCEPT ![t] = @ \cup ({x} \ {Finish})]
  BY <1>t, <1>x DEF Append1, Goto
<1>2. x \in Jobs => x \notin Accepted
  BY <1>1, <1>x DEF EntryOK, Entering
<1>3. /\ tasks[t] \in Seq(Items) /\ tasks'[t] = Append(tasks[t], x) /\ added'[t] = added[t] \cup ({x} \ {Finish})
      /\ \A k \in Threads \ {t} : tasks'[k] = tasks[k] /\ added'[k] = added[k]
  BY <1>0, <1>1, <1>2 DEF DataOK
<1>4. \A k \in Threads : /\ pc'[k] \in Unfinished => pc[k] \in Unfinished
                         /\ pc'[k] = "account" => pc[k] = "account"
  BY <1>0, <1>1, ProcFacts DEF Unfinished, Calling, PlacesOK
<1>5. x \in Jobs => \A k \in Threads : x \notin added[k]
  BY <1>2 DEF Accepted
<1>6. \A k \in Threads \ {t} : InPlace(k)'
  BY <1>1, <1>3, <1>4, InPlaceStays DEF PlaceOK
<1>7. InPlace(t)'
  <2>1. /\ Range(tasks'[t]) = Range(tasks[t]) \cup {x}
        /\ Distinct(tasks[t]) /\ (x \in Jobs => x \notin Range(tasks[t])) => Distinct(tasks'[t])
    BY <1>2, <1>3, AppendFacts
  <2>2. InPlace(t)
    BY <1>2 DEF PlaceOK
  <2>3. x \in Jobs => x \notin Range(tasks[t]) \cup {cur[t]}
    BY <1>2, <1>5, <2>2 DEF InPlace
  <2>4. x \in Jobs => x \notin finished
    BY <1>5 DEF PlaceOK, Accepted
  <2>5. finished \subseteq Jobs /\ cur'[t] = cur[t] /\ finished' = finished
    BY <1>0, <1>1 DEF DataOK
  <2>6. Distinct(tasks'[t]) /\ Range(tasks'[t]) \cap ({cur'[t]} \cup finished') \subseteq {Finish}
    BY <1>2, <2>1, <2>2, <2>3, <2>4, <2>5 DEF InPlace, Items
  <2>7. (Range(tasks'[t]) \cup {cur'[t]}) \cap Jobs \subseteq added'[t]
    BY <1>3, <2>1, <2>2, <2>5 DEF InPlace
  <2>8. added'[t] \subseteq Range(tasks'[t]) \cup {cur'[t]} \cup finished'
    BY <1>3, <2>1, <2>2, <2>5 DEF InPlace
  <2> QED
    BY <1>2, <1>4, <2>2, <2>5, <2>6, <2>7, <2>8 DEF InPlace
<1>8. Apart'
  <2>1. \A k \in Threads \ {t} : added[t] \cap added[k] = {} /\ ({x} \ {Finish}) \cap added[k] = {}
    BY <1>2, <1>5 DEF PlaceOK, Apart, Items
  <2> QED
    BY <1>3, <2>1 DEF PlaceOK, Apart
<1>9. finished' \subseteq Accepted'
  BY <1>1, <1>3 DEF PlaceOK, Accepted
<1> QED
  BY <1>6, <1>7, <1>8, <1>9 DEF PlaceOK

\* Thread i takes the first task of its list.
LEMMA PlacePick ==
  ASSUME ConstantsOK, Typed, PlaceOK, ~Closed, NEW i \in Threads, Pick(i)
  PROVE  PlaceOK'
<1>0. DataOK /\ PlacesOK /\ CarryOK
  BY DEF Typed
<1>1. pc[i] = "pick" /\ cur[i] = None /\ UNCHANGED <<added, finished>> /\ tasks[i] \in Seq(Items) /\ InPlace(i)
  BY <1>0 DEF Pick, history, CarryOK, DataOK, PlaceOK
<1>2. Apart' /\ finished' \subseteq Accepted'
  BY <1>1 DEF PlaceOK, Apart, Accepted
<1>3. CASE tasks[i] = <<>>
  <2>1. pc' = [p \in Procs |-> "stray"] /\ UNCHANGED <<tasks, cur>>
    BY <1>3 DEF Pick
  <2>2. \A k \in Threads : pc'[k] = "stray" /\ InPlace(k)
    BY <2>1, ProcFacts DEF PlaceOK
  <2>3. \A k \in Threads : InPlace(k)'
    BY <1>1, <2>1, <2>2, InPlaceStays DEF Unfinished, Calling
  <2> QED
    BY <1>2, <2>3 DEF PlaceOK
<1>4. CASE tasks[i] # <<>>
  <2> DEFINE h == Head(tasks[i])
  <2>1. /\ pc'[i] = "room" /\ cur'[i] = h /\ tasks'[i] = Tail(tasks[i])
        /\ \A k \in Threads \ {i} : pc'[k] = pc[k] /\ cur'[k] = cur[k] /\ tasks'[k] = tasks[k]
    BY <1>0, <1>4, ProcFacts DEF Pick, Goto, DataOK, PlacesOK
  <2>2. /\ h \in Items /\ Range(tasks[i]) = Range(tasks'[i]) \cup {h}
        /\ Distinct(tasks'[i]) /\ (h \in Jobs => h \notin Range(tasks'[i]))
    BY <1>1, <1>4, <2>1, TailFacts DEF InPlace
  <2> HIDE DEF h
  <2>3. h \notin finished
    BY <1>0, <1>1, <2>2 DEF InPlace, DataOK
  <2>4. \A k \in Threads \ {i} : InPlace(k)'
    BY <1>1, <2>1, InPlaceStays DEF PlaceOK
  <2>5. InPlace(i)'
    <3>1. Range(tasks'[i]) \cap ({cur'[i]} \cup finished') \subseteq {Finish}
      BY <1>1, <2>1, <2>2 DEF InPlace, Items
    <3>2. pc'[i] # "account" /\ cur'[i] \notin finished' /\ added'[i] = added[i]
      BY <1>1, <2>1, <2>3
    <3>3. (Range(tasks'[i]) \cup {cur'[i]}) \cap Jobs \subseteq added'[i]
      BY <2>1, <2>2, <1>1, <3>2 DEF InPlace
    <3>4. added'[i] \subseteq Range(tasks'[i]) \cup {cur'[i]} \cup finished'
      BY <1>0, <1>1, <2>1, <2>2, <3>2 DEF InPlace, DataOK, Items
    <3> QED
      BY <2>2, <3>1, <3>2, <3>3, <3>4 DEF InPlace
  <2> QED
    BY <1>2, <2>4, <2>5 DEF PlaceOK
<1> QED
  BY <1>3, <1>4

\* A callback returns.
LEMMA PlaceReturn ==
  ASSUME ConstantsOK, Typed, PlaceOK, ~Closed, NEW i \in Threads, Return(i)
  PROVE  PlaceOK'
<1>0. DataOK /\ PlacesOK /\ CarryOK
  BY DEF Typed
<1>1. /\ pc[i] = "run" /\ pc' = [pc EXCEPT ![i] = "account"] /\ UNCHANGED <<tasks, cur, added>>
      /\ finished' = finished \cup {cur[i]} /\ cur[i] \in Jobs /\ InPlace(i)
  BY <1>0 DEF Return, Goto, queues, CarryOK, PlaceOK
<1>2. pc'[i] = "account" /\ \A k \in Threads \ {i} : pc'[k] = pc[k]
  BY <1>0, <1>1, ProcFacts DEF PlacesOK
<1>3. cur[i] \in added[i]
  BY <1>1 DEF InPlace
<1>4. ASSUME NEW k \in Threads \ {i} PROVE InPlace(k)'
  <2>1. InPlace(k) /\ cur[i] \notin added[k]
    BY <1>3 DEF PlaceOK, Apart
  <2>2. cur[i] \notin Range(tasks[k]) /\ cur[i] # cur[k]
    BY <1>1, <2>1 DEF InPlace
  <2> QED
    BY <1>1, <1>2, <2>1, <2>2 DEF InPlace
<1>5. InPlace(i)'
  BY <1>1, <1>2 DEF InPlace, Unfinished, Calling
<1>6. Apart' /\ finished' \subseteq Accepted'
  BY <1>1, <1>3 DEF PlaceOK, Apart, Accepted
<1> QED
  BY <1>4, <1>5, <1>6 DEF PlaceOK

\* A thread is done with its task.
LEMMA PlaceAccount ==
  ASSUME ConstantsOK, Typed, PlaceOK, ~Closed, NEW i \in Threads, Account(i)
  PROVE  PlaceOK'
<1>0. DataOK /\ PlacesOK /\ CarryOK
  BY DEF Typed
<1>1. /\ pc[i] = "account" /\ cur'[i] = None /\ UNCHANGED <<tasks, added, finished>> /\ InPlace(i)
      /\ pc'[i] \in {"wait", "exited"} /\ cur[i] \in finished \cup {Finish}
      /\ \A k \in Threads \ {i} : cur'[k] = cur[k]
  BY <1>0, ProcFacts DEF Account, history, DataOK, PlaceOK, InPlace
<1>2. \A k \in Threads \ {i} : pc'[k] \in {pc[k], "woken"}
  BY ProcFacts DEF Account
<1>3. \A k \in Threads \ {i} : InPlace(k)'
  BY <1>1, <1>2, InPlaceStays DEF PlaceOK, Unfinished, Calling
<1>4. InPlace(i)'
  <2>1. Range(tasks'[i]) \cap ({cur'[i]} \cup finished') \subseteq {Finish}
    <3>1. None \notin Range(tasks[i])
      BY <1>0 DEF DataOK, Range
    <3> QED
      BY <1>1, <3>1 DEF InPlace
  <2>2. added'[i] \subseteq Range(tasks'[i]) \cup {cur'[i]} \cup finished'
    BY <1>0, <1>1 DEF InPlace, DataOK
  <2> QED
    BY <1>1, <2>1, <2>2 DEF InPlace, Unfinished, Calling, Items
<1>5. Apart' /\ finished' \subseteq Accepted'
  BY <1>1 DEF PlaceOK, Apart, Accepted
<1> QED
  BY <1>3, <1>4, <1>5 DEF PlaceOK

\* The lists are thrown away.
LEMMA PlaceFree ==
  ASSUME ConstantsOK, Typed, PlaceOK, FreeAll
  PROVE  PlaceOK'
<1>1. /\ tasks' = [i \in Threads |-> <<>>] /\ pc' = [pc EXCEPT ![Owner] = "closed"]
      /\ UNCHANGED <<cur, added, finished>> /\ Closed'
  BY ProcFacts DEF FreeAll, Goto, history, Closed, Typed, PlacesOK
<1>2. \A i \in Threads : pc'[i] = pc[i]
  BY <1>1, ProcFacts DEF Typed, PlacesOK
<1>3. \A i \in Threads : Range(tasks'[i]) = {} /\ Distinct(tasks'[i])
  BY <1>1 DEF Range, Distinct
<1>4. \A i \in Threads : InPlace(i)'
  BY <1>1, <1>2, <1>3 DEF PlaceOK, InPlace
<1>5. Apart' /\ finished' \subseteq Accepted'
  BY <1>1 DEF PlaceOK, Apart, Accepted
<1> QED
  BY <1>4, <1>5 DEF PlaceOK

----------------------------------------------------------------------------
(* What borTaskPoolDel has to finish.                                      *)

\* A thread that got a finishing task has left no owed task in its list, and a
\* thread leaves its loop for nothing else.
DelOK ==
  /\ ~closing => owed = {} /\ \A i \in Threads : pc[i] # "exited" /\ Finish \notin Range(tasks[i]) \cup {cur[i]}
  /\ owed \subseteq Accepted
  /\ \A i \in Threads : /\ OwedFirst(tasks[i], owed)
                        /\ cur[i] = Finish \/ pc[i] = "exited" => Range(tasks[i]) \cap owed = {}
  /\ PoolDelComplete

\* A new pool owes nothing.
LEMMA InitDel == ASSUME ConstantsOK PROVE Init => DelOK
<1> SUFFICES ASSUME Init PROVE DelOK
  OBVIOUS
<1>1. owed = {} /\ pc[Owner] = "idle" /\ \A i \in Threads : tasks[i] = <<>> /\ cur[i] = None /\ pc[i] = "none"
  BY ProcFacts DEF Init
<1>2. \A i \in Threads : Range(tasks[i]) = {} /\ OwedFirst(tasks[i], owed)
  BY <1>1 DEF Range, OwedFirst
<1> QED
  BY <1>1, <1>2 DEF DelOK, PoolDelComplete, Closed, Items

\* Steps that leave lists, hands and histories alone, before the pool is gone.
LEMMA DelStays ==
  ASSUME ConstantsOK, DelOK, UNCHANGED <<tasks, cur, owed>>, Accepted \subseteq Accepted', ~Closed', closing => closing',
         \A i \in Threads : pc'[i] = "exited" => pc[i] = "exited"
  PROVE  DelOK'
BY DEF DelOK, PoolDelComplete

\* _borTaskPoolAdd puts a task behind the others.
LEMMA DelAppend ==
  ASSUME ConstantsOK, Typed, Life, EntryOK, DelOK, ~Closed, NEW p \in Procs, Append1(p)
  PROVE  DelOK'
<1>0. DataOK /\ PlacesOK /\ CarryOK
  BY DEF Typed
<1>a. item[p] \in Items /\ tid[p] \in Threads /\ pc[p] = "append"
  BY <1>0 DEF CarryOK, Calling, Append1
<1>t. PICK t \in Threads : t = tid[p]
  BY <1>a
<1>x. PICK x \in Items : x = item[p]
  BY <1>a
<1>1. /\ pc[p] = "append" /\ pc' = [pc EXCEPT ![p] = "post"]
      /\ tasks' = [tasks EXCEPT ![t] = Append(@, x)] /\ UNCHANGED <<cur, owed, closing>>
      /\ added' = [added EXCEPT ![t] = @ \cup ({x} \ {Finish})]
  BY <1>t, <1>x DEF Append1, Goto
<1>2. x \in Jobs => x \notin Accepted
  BY <1>1, <1>x DEF EntryOK, Entering
<1>3. /\ tasks[t] \in Seq(Items) /\ tasks'[t] = Append(tasks[t], x)
      /\ \A k \in Threads \ {t} : tasks'[k] = tasks[k]
      /\ \A k \in Threads : added[k] \subseteq added'[k]
  BY <1>0, <1>1, <1>2 DEF DataOK
<1>4. x \notin owed
  BY <1>0, <1>2 DEF DelOK, Items, DataOK
<1>5. x = Finish => closing
  <2>1. x = Finish => p = Owner
    BY <1>x DEF EntryOK
  <2> QED
    BY <1>1, <1>x, <2>1 DEF Life, Calling
<1>6. Range(tasks'[t]) = Range(tasks[t]) \cup {x} /\ OwedFirst(tasks'[t], owed')
  BY <1>1, <1>3, <1>4, AppendFacts, AppendOwed DEF DelOK
<1>7. ~Closed' /\ \A k \in Threads : pc'[k] = "exited" => pc[k] = "exited"
  BY <1>0, <1>1, ProcFacts DEF Closed, PlacesOK
<1>8. owed' \subseteq Accepted'
  BY <1>1, <1>3 DEF DelOK, Accepted
<1>9. ~closing' => owed' = {} /\ \A i \in Threads : pc'[i] # "exited" /\ Finish \notin Range(tasks'[i]) \cup {cur'[i]}
  BY <1>1, <1>3, <1>5, <1>6, <1>7 DEF DelOK
<1>10. ASSUME NEW i \in Threads
       PROVE  /\ OwedFirst(tasks'[i], owed')
              /\ cur'[i] = Finish \/ pc'[i] = "exited" => Range(tasks'[i]) \cap owed' = {}
  <2>1. CASE i = t
    BY <1>1, <1>4, <1>6, <1>7, <2>1 DEF DelOK
  <2>2. CASE i # t
    BY <1>1, <1>3, <1>7, <2>2 DEF DelOK
  <2> QED
    BY <2>1, <2>2
<1> QED
  BY <1>7, <1>8, <1>9, <1>10 DEF DelOK, PoolDelComplete

\* Thread i takes the first task of its list.
LEMMA DelPick ==
  ASSUME ConstantsOK, Typed, DelOK, ~Closed, NEW i \in Threads, Pick(i)
  PROVE  DelOK'
<1>0. DataOK /\ PlacesOK /\ CarryOK
  BY DEF Typed
<1>1. /\ pc[i] = "pick" /\ cur[i] = None /\ UNCHANGED <<added, owed, closing>> /\ tasks[i] \in Seq(Items)
      /\ Accepted' = Accepted
  BY <1>0 DEF Pick, history, CarryOK, DataOK, Accepted
<1>2. CASE tasks[i] = <<>>
  <2>1. pc' = [p \in Procs |-> "stray"] /\ UNCHANGED <<tasks, cur>>
    BY <1>2 DEF Pick
  <2>2. ~Closed' /\ \A k \in Threads : pc'[k] = "stray"
    BY <2>1, ProcFacts DEF Closed
  <2> QED
    BY <1>1, <2>1, <2>2, DelStays
<1>3. CASE tasks[i] # <<>>
  <2> DEFINE h == Head(tasks[i])
  <2>1. /\ pc'[i] = "room" /\ cur'[i] = h /\ tasks'[i] = Tail(tasks[i])
        /\ \A k \in Threads \ {i} : pc'[k] = pc[k] /\ cur'[k] = cur[k] /\ tasks'[k] = tasks[k]
        /\ pc'[Owner] = pc[Owner]
    BY <1>0, <1>3, ProcFacts DEF Pick, Goto, DataOK, PlacesOK
  <2>2. /\ Range(tasks[i]) = Range(tasks'[i]) \cup {h}
        /\ OwedFirst(tasks'[i], owed') /\ (h = Finish => Range(tasks[i]) \cap owed = {})
    BY <1>1, <1>3, <2>1, TailFacts, TailOwed DEF DelOK
  <2> HIDE DEF h
  <2>3. ASSUME NEW k \in Threads
        PROVE  /\ OwedFirst(tasks'[k], owed')
               /\ cur'[k] = Finish \/ pc'[k] = "exited" => Range(tasks'[k]) \cap owed' = {}
    BY <1>1, <2>1, <2>2 DEF DelOK
  <2>4. ~closing' => owed' = {} /\ \A k \in Threads : pc'[k] # "exited" /\ Finish \notin Range(tasks'[k]) \cup {cur'[k]}
    BY <1>1, <2>1, <2>2 DEF DelOK
  <2> QED
    BY <1>1, <2>1, <2>3, <2>4 DEF DelOK, PoolDelComplete, Closed
<1> QED
  BY <1>2, <1>3

\* A thread is done with its task.
LEMMA DelAccount ==
  ASSUME ConstantsOK, Typed, DelOK, ~Closed, NEW i \in Threads, Account(i)
  PROVE  DelOK'
<1>0. DataOK /\ PlacesOK /\ CarryOK
  BY DEF Typed
<1>1. /\ pc[i] = "account" /\ cur'[i] = None /\ UNCHANGED <<tasks, added, owed, closing>>
      /\ pc'[i] = (IF cur[i] = Finish THEN "exited" ELSE "wait")
      /\ \A k \in Threads \ {i} : cur'[k] = cur[k]
  BY <1>0, ProcFacts DEF Account, history, DataOK
<1>2. (\A k \in Threads \ {i} : pc'[k] \in {pc[k], "woken"}) /\ pc'[Owner] \in {pc[Owner], "woken"}
  BY ProcFacts DEF Account
<1>3. Accepted' = Accepted /\ ~Closed'
  BY <1>1, <1>2 DEF Accepted, Closed
<1>4. ASSUME NEW k \in Threads
      PROVE  /\ OwedFirst(tasks'[k], owed')
             /\ cur'[k] = Finish \/ pc'[k] = "exited" => Range(tasks'[k]) \cap owed' = {}
  <2>1. /\ OwedFirst(tasks[k], owed)
        /\ cur[k] = Finish \/ pc[k] = "exited" => Range(tasks[k]) \cap owed = {}
    BY DEF DelOK
  <2>2. cur'[k] = Finish \/ pc'[k] = "exited" => cur[k] = Finish \/ pc[k] = "exited"
    BY <1>1, <1>2 DEF Items
  <2> QED
    BY <1>1, <2>1, <2>2
<1>5. ASSUME ~closing'
      PROVE  owed' = {} /\ \A k \in Threads : pc'[k] # "exited" /\ Finish \notin Range(tasks'[k]) \cup {cur'[k]}
  <2>1. owed = {} /\ \A k \in Threads : pc[k] # "exited" /\ Finish \notin Range(tasks[k]) \cup {cur[k]}
    BY <1>1, <1>5 DEF DelOK
  <2>2. \A k \in Threads : pc'[k] # "exited" /\ cur'[k] # Finish
    BY <1>1, <1>2, <2>1 DEF Items
  <2> QED
    BY <1>1, <2>1, <2>2
<1> QED
  BY <1>1, <1>3, <1>4, <1>5 DEF DelOK, PoolDelComplete

\* Deletion begins: no finishing task is there yet.
LEMMA DelBegins ==
  ASSUME ConstantsOK, Typed, DelOK, ~Closed, DelCall
  PROVE  DelOK'
<1>1. /\ ~closing /\ closing' /\ UNCHANGED <<tasks, cur, added>> /\ owed' = Accepted
      /\ pc' = [pc EXCEPT ![Owner] = IF started THEN "mark" ELSE "free"]
  BY DEF DelCall, Goto, queues
<1>2. ~Closed' /\ Accepted' = Accepted /\ \A i \in Threads : pc'[i] = pc[i]
  BY <1>1, ProcFacts DEF Closed, Accepted, Typed, PlacesOK
<1>3. \A i \in Threads : OwedFirst(tasks'[i], owed') /\ cur'[i] # Finish /\ pc'[i] # "exited"
  BY <1>1, <1>2 DEF DelOK, OwedFirst, Range
<1> QED
  BY <1>1, <1>2, <1>3 DEF DelOK, PoolDelComplete

\* The pool is released when every thread that was started has had its finishing
\* task.
LEMMA DelFree ==
  ASSUME ConstantsOK, Typed, Life, PlaceOK, DelOK, FreeAll
  PROVE  DelOK'
<1>0. DataOK /\ PlacesOK /\ CarryOK
  BY DEF Typed
<1>1. /\ pc[Owner] = "free" /\ pc' = [pc EXCEPT ![Owner] = "closed"] /\ ~Closed
      /\ tasks' = [i \in Threads |-> <<>>] /\ UNCHANGED <<cur, added, finished, owed, closing, started>>
  BY DEF FreeAll, Goto, history, Closed
<1>2. closing /\ \A i \in Threads : pc[i] = IF started THEN "exited" ELSE "none"
  BY <1>1 DEF Life
<1>3. Accepted' = Accepted /\ \A i \in Threads : pc'[i] = pc[i] /\ cur[i] = None
  BY <1>0, <1>1, <1>2, ProcFacts DEF Accepted, PlacesOK, CarryOK
<1>4. ASSUME started, NEW j \in owed PROVE j \in finished
  <2>1. PICK i \in Threads : j \in added[i]
    BY DEF DelOK, Accepted
  <2>2. j \notin Range(tasks[i]) /\ j # None
    BY <1>0, <1>2, <1>4 DEF DelOK, DataOK, Items
  <2> QED
    BY <1>1, <1>3, <2>1, <2>2 DEF PlaceOK, InPlace
<1>5. \A i \in Threads : Range(tasks'[i]) = {} /\ OwedFirst(tasks'[i], owed')
  BY <1>1 DEF Range, OwedFirst
<1>6. PoolDelComplete'
  BY <1>1, <1>2, <1>3, <1>4 DEF PoolDelComplete
<1> QED
  BY <1>1, <1>2, <1>3, <1>5, <1>6 DEF DelOK

----------------------------------------------------------------------------
(* What a barrier waits for.                                               *)

\* What a client waits for was added to the list of the thread it waits for,
\* and has been run when that thread wakes the client.
SnapOK == \A c \in Clients : /\ pc[c] = "blocked" => snap[c] \subseteq added[tid[c]]
                             /\ spurious = 0 /\ pc[c] = "woken" => snap[c] \subseteq finished

\* Nobody waits yet.
LEMMA InitSnap == ASSUME ConstantsOK PROVE Init => SnapOK
BY DEF Init, SnapOK, Procs

\* Steps that leave the waiting clients and the finished jobs alone.
LEMMA SnapStays ==
  ASSUME ConstantsOK, SnapOK, UNCHANGED <<snap, spurious>>, finished \subseteq finished',
         \A i \in Threads : added[i] \subseteq added'[i],
         \A c \in Clients : /\ pc'[c] = "blocked" => pc[c] = "blocked" /\ tid'[c] = tid[c] /\ tid[c] \in Threads
                            /\ pc'[c] = "woken" => pc[c] = "woken"
  PROVE  SnapOK'
BY DEF SnapOK

\* A thread that has nothing pending has run all that was added to its list.
LEMMA PendingNone ==
  ASSUME ConstantsOK, Typed, PlaceOK, NEW i \in Threads, Matched(i), ~Closed, pc[i] = "account", pending[i] = 1
  PROVE  added[i] \subseteq finished
<1>0. DataOK /\ CarryOK
  BY DEF Typed
<1>1. InPlace(i) /\ cur[i] \in Items /\ tasks[i] \in Seq(Items) /\ added[i] \subseteq Jobs
  BY <1>0 DEF PlaceOK, CarryOK, DataOK
<1>2. PICK m \in Nat : m = Len(tasks[i])
  BY <1>1
<1>3. pending[i] = m + 1
  BY <1>1, <1>2 DEF Matched
<1>4. Len(tasks[i]) = 0
  BY <1>2, <1>3
<1>5. tasks[i] = <<>>
  BY ONLY <1>4, <1>1
<1>6. Range(tasks[i]) = {}
  BY <1>5 DEF Range
<1> QED
  BY <1>1, <1>6 DEF InPlace

\* The thread that accounts for its last task wakes everybody who waits for it.
LEMMA SnapAccount ==
  ASSUME ConstantsOK, Typed, Life, Synchronised, PlaceOK, SnapOK, ~Closed, NEW i \in Threads, Account(i)
  PROVE  SnapOK'
<1>0. DataOK /\ PlacesOK /\ CarryOK
  BY DEF Typed
<1>1. /\ UNCHANGED <<added, finished, snap, tid, spurious>> /\ pc[i] = "account"
      /\ \A c \in Clients : \/ pc'[c] = pc[c]
                            \/ pc[c] = "blocked" /\ pc'[c] = "woken" /\ tid[c] = i /\ pending'[i] = 0
  BY ProcFacts DEF Account, history, faults
<1>2. pending'[i] = 0 => added[i] \subseteq finished
  <2>1. Matched(i)
    BY <1>1, WorkingOpen
  <2>2. pending[i] \in Nat /\ pending'[i] = pending[i] - 1
    BY <1>0 DEF Account, DataOK
  <2>3. pending'[i] = 0 => pending[i] = 1
    BY <2>2
  <2> QED
    BY <1>1, <2>1, <2>3, PendingNone
<1> QED
  BY <1>1, <1>2 DEF SnapOK

\* A client begins to wait, returns unsignalled, or goes on.
LEMMA SnapWait ==
  ASSUME ConstantsOK, Typed, SnapOK, NEW c \in Clients,
         (\E i \in Threads : BarrierCall(c, i)) \/ SpuriousWake(c) \/ Wake(c)
  PROVE  SnapOK'
<1>0. DataOK /\ PlacesOK /\ CarryOK
  BY DEF Typed
<1>1. ASSUME NEW i \in Threads, BarrierCall(c, i) PROVE SnapOK'
  <2>1. /\ snap' = [snap EXCEPT ![c] = added[i] \ finished] /\ pc' = [pc EXCEPT ![c] = "blocked"]
        /\ tid' = [tid EXCEPT ![c] = i] /\ UNCHANGED <<added, finished, spurious>>
    BY <1>1 DEF BarrierCall, Goto, faults
  <2>2. snap'[c] \subseteq added[i] /\ pc'[c] = "blocked" /\ tid'[c] = i
        /\ \A d \in Clients \ {c} : snap'[d] = snap[d] /\ pc'[d] = pc[d] /\ tid'[d] = tid[d]
    BY <1>0, <2>1, ProcFacts DEF DataOK, PlacesOK
  <2> QED
    BY <2>1, <2>2 DEF SnapOK
<1>2. ASSUME SpuriousWake(c) PROVE SnapOK'
  <2>1. pc' = [pc EXCEPT ![c] = "woken"] /\ spurious' # 0 /\ UNCHANGED <<snap, added, tid>>
    BY <1>0, <1>2 DEF SpuriousWake, Goto, history, DataOK
  <2> QED
    BY <1>0, <2>1, ProcFacts DEF SnapOK, PlacesOK
<1>3. ASSUME Wake(c) PROVE SnapOK'
  <2>1. /\ pc'[c] = "idle" /\ UNCHANGED <<spurious, added, finished>>
        /\ \A d \in Clients \ {c} : snap'[d] = snap[d] /\ pc'[d] = pc[d] /\ tid'[d] = tid[d]
    BY <1>0, <1>3, ProcFacts DEF Wake, Goto, faults, DataOK, PlacesOK
  <2> QED
    BY <2>1 DEF SnapOK
<1> QED
  BY <1>1, <1>2, <1>3

----------------------------------------------------------------------------
(* All of it together, and the theorems.                                   *)

\* The inductive invariant: what holds of places and counters, and what holds
\* of the jobs.
Base == Typed /\ Life /\ QuietOK /\ Synchronised
\* What holds of the jobs.
JobsOK == EntryOK /\ PlaceOK /\ DelOK /\ SnapOK

\* A step that leaves the lists, the threads' tasks and the histories alone.
LEMMA JobsStay ==
  ASSUME ConstantsOK, JobsOK, ~Closed, ~Closed', UNCHANGED <<tasks, cur, added, finished, owed>>, closing => closing',
         \A i \in Threads : /\ pc'[i] \in Unfinished => pc[i] \in Unfinished
                            /\ pc'[i] = "account" => pc[i] = "account" \/ cur[i] = Finish
                            /\ pc'[i] = "exited" => pc[i] = "exited"
  PROVE  PlaceOK' /\ DelOK'
<1>1. Accepted' = Accepted /\ Apart'
  BY DEF Accepted, Apart, JobsOK, PlaceOK
<1>2. \A i \in Threads : InPlace(i)'
  BY InPlaceStays DEF JobsOK, PlaceOK
<1>3. DelOK'
  BY <1>1, DelStays DEF JobsOK
<1> QED
  BY <1>1, <1>2, <1>3 DEF JobsOK, PlaceOK

\* The steps of _borTaskPoolAdd.
LEMMA JobsAdd ==
  ASSUME ConstantsOK, Typed, Life, JobsOK, ~Closed, NEW p \in Procs,
         (\E j \in Jobs, i \in Threads : AddCall(p, j, i)) \/ Reserve(p) \/ InterruptReserve(p) \/ Append1(p) \/ Post(p)
  PROVE  PlaceOK' /\ DelOK' /\ SnapOK'
<1>0. DataOK /\ PlacesOK /\ CarryOK
  BY DEF Typed
<1>1. /\ \A c \in Clients : /\ pc'[c] = "blocked" => pc[c] = "blocked" /\ tid'[c] = tid[c] /\ tid[c] \in Threads
                            /\ pc'[c] = "woken" => pc[c] = "woken"
      /\ UNCHANGED <<snap, spurious, finished>>
  <2>1. UNCHANGED <<snap, spurious, finished>>
    BY DEF AddCall, Reserve, InterruptReserve, Append1, Post, history, faults
  <2>2. /\ \E l \in {"reserve", "append", "post", "run", "idle", "mark"} : pc' = [pc EXCEPT ![p] = l]
        /\ tid' = tid \/ \E t : tid' = [tid EXCEPT ![p] = t]
    BY DEF AddCall, Reserve, InterruptReserve, Append1, Post, Goto, Caller
  <2>3. \A q \in Procs \ {p} : pc'[q] = pc[q] /\ tid'[q] = tid[q]
    BY <1>0, <2>2 DEF PlacesOK, DataOK
  <2>4. pc'[p] \notin {"blocked", "woken"}
    BY <1>0, <2>2 DEF PlacesOK
  <2>5. \A c \in Clients : pc[c] = "blocked" => tid[c] \in Threads
    BY <1>0 DEF CarryOK
  <2> QED
    BY <2>1, <2>3, <2>4, <2>5, ProcFacts
<1>2. CASE Append1(p)
  <2>1. \A i \in Threads : added[i] \subseteq added'[i]
    BY <1>0, <1>2 DEF Append1, DataOK
  <2> QED
    BY <1>1, <1>2, <2>1, PlaceAppend, DelAppend, SnapStays DEF JobsOK
<1>3. CASE (\E j \in Jobs, i \in Threads : AddCall(p, j, i)) \/ Reserve(p) \/ InterruptReserve(p) \/ Post(p)
  <2>1. /\ UNCHANGED <<tasks, cur, added, finished, owed, closing>>
        /\ pc[p] \in {"idle", "run"} \cup Calling /\ (p \in Threads => pc[p] # "idle")
    BY <1>3, <1>0, ProcFacts DEF AddCall, Reserve, InterruptReserve, Post, queues, history, Calling
  <2>2. PICK l \in {"reserve", "append", "run", "idle", "mark"} :
          pc' = [pc EXCEPT ![p] = l] /\ (p \in Threads => l \in Unfinished)
    BY <1>3 DEF AddCall, Reserve, InterruptReserve, Post, Goto, Caller, Unfinished, Calling
  <2>3. ~Closed'
    BY <1>0, <2>1, <2>2, ProcFacts DEF Closed, PlacesOK
  <2>4. \A i \in Threads : /\ pc'[i] \in Unfinished => pc[i] \in Unfinished
                           /\ pc'[i] = "account" => pc[i] = "account"
                           /\ pc'[i] = "exited" => pc[i] = "exited"
    BY <1>0, <2>1, <2>2, ProcFacts DEF Unfinished, PlacesOK
  <2>5. PlaceOK' /\ DelOK'
    BY <2>1, <2>3, <2>4, JobsStay
  <2> QED
    BY <1>1, <2>1, <2>5, SnapStays DEF JobsOK
<1> QED
  BY <1>2, <1>3

\* The steps of a thread of the pool and of the callbacks it runs.
LEMMA JobsWork ==
  ASSUME ConstantsOK, Base, JobsOK, ~Closed, NEW i \in Threads,
         Interrupt(i) \/ Take(i) \/ Pick(i) \/ Room(i) \/ Return(i) \/ Account(i)
  PROVE  PlaceOK' /\ DelOK' /\ SnapOK'
<1>0. DataOK /\ PlacesOK /\ CarryOK /\ Typed /\ Life /\ Synchronised
  BY DEF Typed, Base
<1>1. CASE Account(i)
  BY <1>0, <1>1, PlaceAccount, DelAccount, SnapAccount DEF JobsOK
<1>2. CASE ~Account(i)
  <2>1. UNCHANGED <<added, snap, spurious, tid, owed, closing>> /\ finished \subseteq finished'
    BY <1>2 DEF Interrupt, Take, Pick, Room, Return, history, faults
  <2>2. /\ \A c \in Clients : pc'[c] \in {pc[c], "stray"}
        /\ ~Closed'
    BY <1>0, <1>2, ProcFacts DEF Interrupt, Take, Pick, Room, Return, Goto, PlacesOK, Closed
  <2>3. SnapOK'
    BY <1>0, <2>1, <2>2, SnapStays DEF JobsOK, CarryOK
  <2>4. CASE Pick(i)
    BY <1>0, <2>3, <2>4, PlacePick, DelPick DEF JobsOK
  <2>5. CASE Return(i)
    <3>1. pc' = [pc EXCEPT ![i] = "account"] /\ UNCHANGED <<tasks, cur>>
      BY <2>5 DEF Return, Goto, queues
    <3>2. \A k \in Threads : pc'[k] = "exited" => pc[k] = "exited"
      BY <1>0, <3>1, ProcFacts DEF PlacesOK
    <3>3. Accepted' = Accepted
      BY <2>1 DEF Accepted
    <3>4. DelOK'
      BY <2>1, <2>2, <3>1, <3>2, <3>3, DelStays DEF JobsOK
    <3> QED
      BY <1>0, <2>3, <2>5, <3>4, PlaceReturn DEF JobsOK
  <2>6. CASE Interrupt(i) \/ Take(i) \/ Room(i)
    <3>1. UNCHANGED <<tasks, cur, finished>>
      BY <2>6 DEF Interrupt, Take, Room, queues, history
    <3>2. \E l \in {"pick", "account", "run"} :
            /\ pc' = [pc EXCEPT ![i] = l]
            /\ l = "account" => cur[i] = Finish
            /\ l = "run" => pc[i] = "room"
      BY <2>6 DEF Interrupt, Take, Room, Goto
    <3>3. \A k \in Threads : /\ pc'[k] \in Unfinished => pc[k] \in Unfinished
                             /\ pc'[k] = "account" => pc[k] = "account" \/ cur[k] = Finish
                             /\ pc'[k] = "exited" => pc[k] = "exited"
      BY <1>0, <3>2, ProcFacts DEF Unfinished, Calling, PlacesOK
    <3> QED
      BY <2>1, <2>2, <2>3, <3>1, <3>3, JobsStay
  <2> QED
    BY <1>2, <2>4, <2>5, <2>6
<1> QED
  BY <1>1, <1>2

\* The steps of borTaskPoolBarrier.
LEMMA JobsWait ==
  ASSUME ConstantsOK, Typed, JobsOK, ~Closed, NEW c \in Clients,
         (\E i \in Threads : BarrierCall(c, i)) \/ SpuriousWake(c) \/ Wake(c)
  PROVE  PlaceOK' /\ DelOK' /\ SnapOK'
<1>0. PlacesOK
  BY DEF Typed
<1>1. UNCHANGED <<tasks, cur, added, finished, owed, closing>>
  BY DEF BarrierCall, SpuriousWake, Wake, queues, history
<1>2. \E l \in {"idle", "woken", "blocked"} : pc' = [pc EXCEPT ![c] = l]
  BY DEF BarrierCall, SpuriousWake, Wake, Goto
<1>3. ~Closed' /\ \A i \in Threads : pc'[i] = pc[i]
  BY <1>0, <1>2, ProcFacts DEF Closed, PlacesOK
<1> QED
  BY <1>1, <1>3, JobsStay, SnapWait DEF JobsOK

\* The steps of the owner: borTaskPoolRun and borTaskPoolDel.
LEMMA JobsOwner ==
  ASSUME ConstantsOK, Typed, Life, JobsOK, ~Closed,
         RunCall \/ DelCall \/ CreateThread \/ RunDone \/ Mark \/ Join \/ FreeAll
  PROVE  PlaceOK' /\ DelOK' /\ SnapOK'
<1>0. PlacesOK /\ DataOK /\ CarryOK
  BY DEF Typed
<1>1. UNCHANGED <<cur, added, finished, snap, spurious>> /\ (closing => closing')
  BY DEF RunCall, DelCall, CreateThread, RunDone, Mark, Join, FreeAll, queues, history, faults
<1>2. pc' = pc \/ (\E l : pc' = [pc EXCEPT ![Owner] = l] /\ l \notin {"blocked", "woken"} /\ (l = "closed" => FreeAll))
      \/ (CreateThread /\ idx \in Threads /\ pc' = [pc EXCEPT ![idx] = "wait"])
  <2>1. CASE CreateThread
    BY <1>0, <2>1, CreateIndex DEF CreateThread, Goto
  <2>2. CASE RunCall \/ RunDone \/ FreeAll
    BY <2>2 DEF RunCall, RunDone, FreeAll, Goto
  <2>3. CASE Mark \/ Join
    BY <2>3 DEF Mark, Join, Goto
  <2>4. CASE DelCall
    <3>1. \E l \in {"mark", "free"} : pc' = [pc EXCEPT ![Owner] = l]
      BY <2>4 DEF DelCall, Goto
    <3> QED
      BY <3>1
  <2> QED
    BY <2>1, <2>2, <2>3, <2>4
<1>3. /\ \A c \in Clients : pc'[c] # pc[c] => pc'[c] \notin {"blocked", "woken"}
      /\ \A i \in Threads : pc'[i] \in {pc[i], "wait"}
      /\ ~FreeAll => ~Closed'
  BY <1>0, <1>2, ProcFacts DEF PlacesOK, Closed
<1>4. \A c \in Clients : pc[c] = "blocked" /\ pc'[c] = "blocked" => tid'[c] = tid[c]
  <2>1. CASE Mark
    <3>1. pc[Owner] = "mark" /\ (tid' = tid \/ tid' = [tid EXCEPT ![Owner] = idx])
      BY <2>1 DEF Mark
    <3> QED
      BY <1>0, <3>1, ProcFacts DEF DataOK
  <2>2. CASE ~Mark
    BY <2>2 DEF RunCall, DelCall, CreateThread, RunDone, Join, FreeAll
  <2> QED
    BY <2>1, <2>2
<1>5. SnapOK'
  BY <1>0, <1>1, <1>3, <1>4, SnapStays DEF JobsOK, CarryOK
<1>6. CASE FreeAll
  BY <1>5, <1>6, PlaceFree, DelFree DEF JobsOK
<1>7. CASE ~FreeAll
  <2>1. UNCHANGED tasks
    BY <1>7 DEF RunCall, DelCall, CreateThread, RunDone, Mark, Join, queues
  <2>2. CASE DelCall
    <3>1. DelOK'
      BY <2>2, DelBegins DEF JobsOK
    <3>2. \A i \in Threads : InPlace(i)'
      BY <1>1, <1>3, <2>1, InPlaceStays DEF JobsOK, PlaceOK, Unfinished, Calling
    <3>3. Apart' /\ Accepted' = Accepted
      BY <1>1 DEF JobsOK, PlaceOK, Apart, Accepted
    <3> QED
      BY <1>1, <1>5, <3>1, <3>2, <3>3 DEF JobsOK, PlaceOK
  <2>3. CASE ~DelCall
    <3>1. UNCHANGED owed
      BY <1>7, <2>3 DEF RunCall, CreateThread, RunDone, Mark, Join, history
    <3> QED
      BY <1>1, <1>3, <1>5, <1>7, <2>1, <3>1, JobsStay DEF Unfinished, Calling
  <2> QED
    BY <2>2, <2>3
<1> QED
  BY <1>6, <1>7

\* Every step keeps it.
LEMMA StepJobs == ASSUME ConstantsOK PROVE Base /\ JobsOK /\ [Next]_vars => JobsOK'
<1> SUFFICES ASSUME Base, JobsOK, [Next]_vars PROVE JobsOK'
  OBVIOUS
<1>1. EntryOK'
  BY StepEntry DEF Base, JobsOK
<1>2. CASE UNCHANGED vars
  <2>1. Accepted' = Accepted /\ (Closed' <=> Closed)
    BY <1>2 DEF Accepted, Closed, vars, history
  <2>2. SnapOK' /\ DelOK'
    BY <1>2, <2>1 DEF JobsOK, SnapOK, DelOK, PoolDelComplete, vars, queues, history, faults
  <2>3. PlaceOK'
    BY <1>2, <2>1 DEF JobsOK, PlaceOK, InPlace, Apart, vars, queues, history
  <2> QED
    BY <1>1, <2>2, <2>3 DEF JobsOK
<1>3. CASE Closed
  BY <1>2, <1>3, ClosedStill DEF Base
<1>4. CASE ~Closed
  <2>1. Procedure \/ UNCHANGED vars
    BY NextCases
  <2>2. (PlaceOK' /\ DelOK' /\ SnapOK') \/ UNCHANGED vars
    BY <1>4, <2>1, JobsAdd, JobsWork, JobsWait, JobsOwner DEF Procedure, Terminated, Base
  <2> QED
    BY <1>1, <1>2, <2>2 DEF JobsOK
<1> QED
  BY <1>3, <1>4

\* What holds of the jobs in every reachable state.
LEMMA JobsInductive == ASSUME ConstantsOK PROVE Spec => [](Base /\ JobsOK)
<1>1. Init => JobsOK
  BY InitEntry, InitPlace, InitDel, InitSnap DEF JobsOK
<1>2. Base /\ JobsOK /\ [Next]_vars => JobsOK'
  BY StepJobs
<1>3. Spec => []Base
  BY Inductive, PTL DEF Base
<1> QED
  BY <1>1, <1>2, <1>3, PTL DEF Spec

\* No task is lost and none runs twice: as long as the pool exists every job that
\* borTaskPoolAdd put into a list is in that list, in the hands of the thread whose
\* list it is, or finished, and only one of them; no job goes to two threads
\* (_borTaskPoolAdd, threadMain).
THEOREM JobsOnce == ASSUME ConstantsOK PROVE Spec => []PlaceOK
<1>1. Base /\ JobsOK => PlaceOK
  BY DEF JobsOK
<1> QED
  BY <1>1, JobsInductive, PTL

\* When borTaskPoolDel has returned, every task that was in a list when it was
\* called has been run, if the pool was started: the finishing task of each thread
\* stands behind all of them.  And no thread is left.
THEOREM DeletionComplete == ASSUME ConstantsOK PROVE Spec => []PoolDelComplete
<1>1. Base /\ JobsOK => PoolDelComplete
  BY DEF JobsOK, DelOK
<1> QED
  BY <1>1, JobsInductive, PTL

\* borTaskPoolBarrier(id) returns only when every task that thread id had at the
\* time of the call has been run, as long as pthread_cond_wait does not return
\* unsignalled: it stands in no loop.
THEOREM BarrierWaits == ASSUME ConstantsOK PROVE Spec => []PoolBarrierSound
<1>1. Base /\ JobsOK => PoolBarrierSound
  BY DEF JobsOK, SnapOK, PoolBarrierSound
<1> QED
  BY <1>1, JobsInductive, PTL

----------------------------------------------------------------------------
(* Each thread serves: what borTaskPoolAdd, the thread Probe and the owner *)
(* do is, for the queue of that thread, a step of TaskService or none.     *)

\* The threads exist that borTaskPoolRun has created so far, and all of them
\* once it has returned.
BornOK == Defined => \A i \in Threads : started \/ (pc[Owner] = "create" /\ i < idx) => pc[i] # "none"

\* A thread that exists stays in existence.
LEMMA BornStays ==
  ASSUME ConstantsOK, BornOK, Defined, started' = started, pc'[Owner] = "create" => pc[Owner] = "create" /\ idx' = idx,
         \A i \in Threads : pc'[i] = "none" => pc[i] = "none"
  PROVE  BornOK'
BY DEF BornOK

\* Every step keeps it.
LEMMA StepBorn == ASSUME ConstantsOK PROVE Typed /\ Life /\ QuietOK /\ BornOK /\ [Next]_vars => BornOK'
<1> SUFFICES ASSUME Typed, Life, QuietOK, BornOK, [Next]_vars PROVE BornOK'
  OBVIOUS
<1>0. PlacesOK /\ DataOK /\ StrayOK
  BY DEF Typed
<1>1. CASE UNCHANGED vars
  BY <1>1 DEF vars, BornOK, Defined, At
<1>2. CASE ~Defined
  BY <1>1, <1>2, ClosedStill
<1>3. ASSUME Defined, NEW p \in Procs, NEW l, l \notin {"none", "create"}, pc' = [pc EXCEPT ![p] = l],
             UNCHANGED <<started, idx>>
      PROVE  BornOK'
  <2>1. \A i \in Threads : pc'[i] = "none" => pc[i] = "none"
    BY <1>0, <1>3, ProcFacts DEF PlacesOK
  <2>2. pc'[Owner] = "create" => pc[Owner] = "create"
    BY <1>0, <1>3, ProcFacts DEF PlacesOK
  <2> QED
    BY <1>3, <2>1, <2>2, BornStays
<1>4. ASSUME Defined, NEW p \in Procs,
             (\E j \in Jobs, i \in Threads : AddCall(p, j, i)) \/ Reserve(p) \/ InterruptReserve(p) \/ Append1(p) \/ Post(p)
      PROVE  BornOK'
  <2>1. UNCHANGED <<started, idx>>
    BY <1>4 DEF AddCall, Reserve, InterruptReserve, Append1, Post
  <2>2. \E l : l \notin {"none", "create"} /\ pc' = [pc EXCEPT ![p] = l]
    BY <1>4 DEF AddCall, Reserve, InterruptReserve, Append1, Post, Goto, Caller
  <2> QED
    BY <1>3, <1>4, <2>1, <2>2
<1>5. ASSUME Defined, NEW c \in Clients, (\E i \in Threads : BarrierCall(c, i)) \/ SpuriousWake(c) \/ Wake(c)
      PROVE  BornOK'
  <2>1. UNCHANGED <<started, idx>>
    BY <1>5 DEF BarrierCall, SpuriousWake, Wake
  <2>2. \E l : l \notin {"none", "create"} /\ pc' = [pc EXCEPT ![c] = l]
    BY <1>5 DEF BarrierCall, SpuriousWake, Wake, Goto
  <2> QED
    BY <1>3, <1>5, <2>1, <2>2, ProcFacts
<1>6. ASSUME Defined, NEW i \in Threads, Interrupt(i) \/ Take(i) \/ Pick(i) \/ Room(i) \/ Return(i)
      PROVE  BornOK'
  <2>1. UNCHANGED <<started, idx>>
    BY <1>6 DEF Interrupt, Take, Pick, Room, Return
  <2>2. CASE pc' = [p \in Procs |-> "stray"]
    BY <2>2, ProcFacts DEF BornOK, Defined, At
  <2>3. CASE \E l : l \notin {"none", "create"} /\ pc' = [pc EXCEPT ![i] = l]
    BY <1>3, <1>6, <2>1, <2>3, ProcFacts
  <2> QED
    BY <1>6, <2>2, <2>3 DEF Interrupt, Take, Pick, Room, Return, Goto
<1>7. ASSUME Defined, NEW i \in Threads, Account(i) PROVE BornOK'
  <2>1. /\ UNCHANGED <<started, idx>>
        /\ \A p \in Procs : pc'[p] \in {pc[p], "exited", "wait", "woken"}
    BY <1>7 DEF Account
  <2>2. \A k \in Threads : pc'[k] = "none" => pc[k] = "none"
    BY <2>1, ProcFacts
  <2>3. pc'[Owner] = "create" => pc[Owner] = "create"
    BY <2>1, ProcFacts
  <2> QED
    BY <1>7, <2>1, <2>2, <2>3, BornStays
<1>8. ASSUME Defined, CreateThread PROVE BornOK'
  <2>1. /\ idx \in Threads /\ idx' = idx + 1 /\ started' = started /\ pc' = [pc EXCEPT ![idx] = "wait"]
        /\ pc[Owner] = "create"
    BY <1>0, <1>8, CreateIndex DEF CreateThread, Goto
  <2>2. pc'[idx] = "wait" /\ \A i \in Threads \ {idx} : pc'[i] = pc[i]
    BY <1>0, <2>1, ProcFacts DEF PlacesOK
  <2>3. \A i \in Threads : i < idx' => i = idx \/ i < idx
    BY <2>1, <1>0 DEF DataOK, Threads
  <2> QED
    BY <1>8, <2>1, <2>2, <2>3 DEF BornOK
<1>9. ASSUME Defined, RunDone PROVE BornOK'
  <2>1. pc[Owner] = "create" /\ idx > NumThreads /\ pc' = [pc EXCEPT ![Owner] = "idle"]
    BY <1>9 DEF RunDone, Goto
  <2>2. \A i \in Threads : i < idx
    <3>1. NumThreads \in Nat /\ idx \in Nat
      BY <1>0 DEF DataOK
    <3> QED
      BY <2>1, <3>1 DEF Threads
  <2>3. \A i \in Threads : pc'[i] = pc[i]
    BY <1>0, <2>1, ProcFacts DEF PlacesOK
  <2> QED
    BY <1>9, <2>1, <2>2, <2>3 DEF BornOK
<1>10. ASSUME Defined, RunCall PROVE BornOK'
  <2>1. idx' = 1 /\ started' = started /\ ~started
    BY <1>10 DEF RunCall
  <2>2. \A i \in Threads : ~(i < idx')
    BY <2>1 DEF Threads
  <2> QED
    BY <2>1, <2>2 DEF BornOK
<1>11. ASSUME Defined, DelCall \/ Mark \/ Join \/ FreeAll PROVE BornOK'
  <2>1. /\ started' = started /\ pc[Owner] # "create"
        /\ pc' = pc \/ \E l \in {"mark", "free", "reserve", "join", "closed"} : pc' = [pc EXCEPT ![Owner] = l]
    <3>1. CASE DelCall
      BY <3>1 DEF DelCall, Goto
    <3>2. CASE Mark \/ Join \/ FreeAll
      BY <3>2 DEF Mark, Join, FreeAll, Goto
    <3> QED
      BY <1>11, <3>1, <3>2
  <2>2. (\A i \in Threads : pc'[i] = pc[i]) /\ pc'[Owner] # "create"
    BY <1>0, <2>1, ProcFacts DEF PlacesOK
  <2> QED
    BY <1>11, <2>1, <2>2, BornStays
<1> QED
  BY <1>1, <1>2, <1>4, <1>5, <1>6, <1>7, <1>8, <1>9, <1>10, <1>11, NextCases DEF Procedure, Terminated

\* A new pool is not started.
LEMMA InitBorn == ASSUME ConstantsOK PROVE Init => BornOK
BY DEF Init, BornOK

\* What the service knows of a thread is what was added for it.
LEMMA AcceptedAll ==
  ASSUME ConstantsOK, Typed, JobsOK, ~Closed
  PROVE  Service!Accepted = added[Probe]
<1>1. /\ tasks[Probe] \in Seq(Items) /\ added[Probe] \subseteq Jobs /\ cur[Probe] \in Items \cup {None}
      /\ Probe \in Threads
  BY DEF Typed, DataOK
<1>2. Range(Waiting) = Range(tasks[Probe]) \ {Finish}
  BY <1>1, WithoutMembers DEF Waiting
<1>3. Range(tasks[Probe]) \subseteq Items
  BY <1>1 DEF Range
<1>4. /\ (Range(tasks[Probe]) \cup {cur[Probe]}) \cap Jobs \subseteq added[Probe]
      /\ added[Probe] \subseteq Range(tasks[Probe]) \cup {cur[Probe]} \cup finished
  BY DEF JobsOK, PlaceOK, InPlace
<1>5. Service!Accepted = Range(Waiting) \cup Running \cup Done
  BY DEF Service!Accepted, Range
<1> QED
  BY <1>1, <1>2, <1>3, <1>4, <1>5 DEF Running, Done, Items

\* The service sees no difference.
LEMMA SamePhase ==
  ASSUME ConstantsOK, ~Closed, ~Closed', closing' = closing, \A i \in Threads : pc'[i] = "none" <=> pc[i] = "none"
  PROVE  Phase' = Phase
<1>1. Threads \subseteq At("none") <=> \A i \in Threads : pc[i] = "none"
  BY DEF At, Procs
<1>2. (Threads \subseteq At("none"))' <=> \A i \in Threads : pc'[i] = "none"
  BY DEF At, Procs
<1> QED
  BY <1>1, <1>2 DEF Phase

\* A step that leaves the queue of Probe and what became of its jobs alone.
LEMMA Unseen ==
  ASSUME ConstantsOK, tasks'[Probe] = tasks[Probe], cur'[Probe] = cur[Probe], added'[Probe] = added[Probe],
         UNCHANGED <<finished, owed, started, closing>>, ~Closed, ~Closed',
         \A i \in Threads : pc'[i] = "none" <=> pc[i] = "none"
  PROVE  UNCHANGED Service!vars
BY SamePhase DEF Service!vars, Waiting, Running, Done, Owed

\* _borTaskPoolAdd: the service accepts a job when it is put into the list of the
\* thread.
LEMMA ServesAdd ==
  ASSUME ConstantsOK, Typed, JobsOK, ~Closed, NEW p \in Procs,
         (\E j \in Jobs, i \in Threads : AddCall(p, j, i)) \/ Reserve(p) \/ InterruptReserve(p) \/ Append1(p) \/ Post(p)
  PROVE  Service!Next \/ UNCHANGED Service!vars
<1>0. PlacesOK /\ DataOK /\ CarryOK /\ Probe \in Threads
  BY DEF Typed
<1>1. \E l \in Calling \cup {"run", "mark", "idle"} : pc' = [pc EXCEPT ![p] = l]
  BY DEF AddCall, Reserve, InterruptReserve, Append1, Post, Caller, Goto, Calling
<1>2. pc[p] # "none" /\ (p \in Threads => pc[p] # "idle")
  BY <1>0, ProcFacts DEF AddCall, Reserve, InterruptReserve, Append1, Post
<1>3. ~Closed' /\ \A i \in Threads : pc'[i] = "none" <=> pc[i] = "none"
  BY <1>0, <1>1, <1>2, ProcFacts DEF Closed, Calling, PlacesOK
<1>4. UNCHANGED <<cur, finished, owed, started, closing>>
  BY DEF AddCall, Reserve, InterruptReserve, Append1, Post, history
<1>5. CASE ~Append1(p)
  <2>1. UNCHANGED <<tasks, added>>
    BY <1>5 DEF AddCall, Reserve, InterruptReserve, Post, queues, history
  <2> QED
    BY <1>3, <1>4, <2>1, Unseen
<1>6. CASE Append1(p)
  <2>1. /\ pc[p] = "append" /\ item[p] \in Items /\ tid[p] \in Threads
        /\ tasks' = [tasks EXCEPT ![tid[p]] = Append(@, item[p])]
        /\ added' = [added EXCEPT ![tid[p]] = @ \cup ({item[p]} \ {Finish})]
    BY <1>0, <1>6 DEF Append1, CarryOK, Calling
  <2>2. CASE tid[p] # Probe
    BY <1>0, <1>3, <1>4, <2>1, <2>2, Unseen DEF DataOK
  <2>3. CASE tid[p] = Probe
    <3>1. /\ tasks'[Probe] = Append(tasks[Probe], item[p]) /\ added'[Probe] = added[Probe] \cup ({item[p]} \ {Finish})
          /\ tasks[Probe] \in Seq(Items)
      BY <1>0, <2>1, <2>3 DEF DataOK
    <3>2. Waiting' = Without(Append(tasks[Probe], item[p]), Finish)
      BY <3>1 DEF Waiting
    <3>3. Waiting' = IF item[p] = Finish THEN Waiting ELSE Append(Waiting, item[p])
      <4>1. ASSUME NEW q \in Seq(Items), NEW e \in Items
            PROVE  Without(Append(q, e), Finish) = IF e = Finish THEN Without(q, Finish) ELSE Append(Without(q, Finish), e)
        BY WithoutAppend
      <4>2. Without(Append(tasks[Probe], item[p]), Finish)
              = IF item[p] = Finish THEN Without(tasks[Probe], Finish) ELSE Append(Without(tasks[Probe], Finish), item[p])
        BY <2>1, <3>1, <4>1, Zenon
      <4> QED
        BY <3>2, <4>2 DEF Waiting
    <3>4. item[p] # Finish => /\ item[p] \in Jobs /\ item[p] \notin Accepted /\ item[p] \notin added[Probe]
                              /\ item[p] \notin finished /\ item[p] \notin owed
      BY <1>0, <2>1 DEF Items, JobsOK, EntryOK, Entering, PlaceOK, DelOK, Accepted
    <3>5. Running' = Running /\ Done' = Done /\ Owed' = Owed /\ Phase' = Phase
      BY <1>3, <1>4, <3>1, <3>4, SamePhase DEF Running, Done, Owed
    <3>6. CASE item[p] = Finish
      BY <1>4, <3>3, <3>5, <3>6 DEF Service!vars
    <3>7. CASE item[p] # Finish
      <4>1. item[p] \notin Service!Accepted
        BY <3>4, <3>7, AcceptedAll
      <4>2. Phase # "closed"
        BY DEF Phase
      <4>3. Service!Accept(item[p])
        BY <3>3, <3>5, <3>7, <4>1, <4>2 DEF Service!Accept
      <4> QED
        BY <3>4, <3>7, <4>3 DEF Service!Next
    <3> QED
      BY <3>6, <3>7
  <2> QED
    BY <2>2, <2>3
<1> QED
  BY <1>5, <1>6

\* One job can be running: the one in the hands of the thread.
LEMMA RunsOne ==
  ASSUME ConstantsOK, Typed
  PROVE  Running = IF cur[Probe] \in Jobs \ finished THEN {cur[Probe]} ELSE {}
<1>1. cur[Probe] \in Items \cup {None} /\ Finish \notin Jobs /\ None \notin Items
  BY DEF Typed, DataOK
<1> QED
  BY <1>1 DEF Running, Items

\* threadMain: the service starts a job when the thread takes it from its list,
\* and completes it when the callback returns.
LEMMA ServesWork ==
  ASSUME ConstantsOK, Base, JobsOK, ~Closed, NEW i \in Threads,
         Interrupt(i) \/ Take(i) \/ Pick(i) \/ Room(i) \/ Return(i) \/ Account(i)
  PROVE  Service!Next \/ UNCHANGED Service!vars
<1>0. /\ Typed /\ PlacesOK /\ DataOK /\ CarryOK /\ Probe \in Threads
      /\ tasks \in [Threads -> Seq(Items)] /\ cur \in [Threads -> Items \cup {None}]
  BY DEF Typed, Base, DataOK
<1>1. CASE Interrupt(i) \/ Take(i) \/ Room(i)
  <2>1. UNCHANGED <<tasks, cur, added, finished, owed, started, closing>> /\ pc[i] # "none"
    BY <1>1 DEF Interrupt, Take, Room, queues, history
  <2>2. \E l \in {"pick", "account", "run"} : pc' = [pc EXCEPT ![i] = l]
    BY <1>1 DEF Interrupt, Take, Room, Goto
  <2>3. ~Closed' /\ \A k \in Threads : pc'[k] = "none" <=> pc[k] = "none"
    BY <1>0, <2>1, <2>2, ProcFacts DEF Closed, PlacesOK
  <2> QED
    BY <2>1, <2>3, Unseen
<1>2. CASE Pick(i)
  <2>1. UNCHANGED <<added, finished, owed, started, closing>> /\ pc[i] = "pick" /\ cur[i] = None
    BY <1>0, <1>2 DEF Pick, history, CarryOK
  <2>2. CASE tasks[i] = <<>>
    <3>1. UNCHANGED <<tasks, cur>> /\ pc' = [p \in Procs |-> "stray"]
      BY <1>2, <2>2 DEF Pick
    <3>2. ~Closed' /\ ~(Threads \subseteq At("none")) /\ ~(Threads \subseteq At("none"))'
      BY <2>1, <3>1, ProcFacts DEF Closed, At
    <3>3. Phase' = Phase
      BY <2>1, <3>2 DEF Phase
    <3> QED
      BY <2>1, <3>1, <3>3 DEF Service!vars, Waiting, Running, Done, Owed
  <2>3. CASE tasks[i] # <<>>
    <3>1. /\ cur' = [cur EXCEPT ![i] = Head(tasks[i])] /\ tasks' = [tasks EXCEPT ![i] = Tail(@)]
          /\ pc' = [pc EXCEPT ![i] = "room"]
      BY <1>2, <2>3 DEF Pick, Goto
    <3>2. ~Closed' /\ \A k \in Threads : pc'[k] = "none" <=> pc[k] = "none"
      BY <1>0, <2>1, <3>1, ProcFacts DEF Closed, PlacesOK
    <3>3. CASE i # Probe
      BY <1>0, <2>1, <3>1, <3>2, <3>3, Unseen
    <3>4. CASE i = Probe
      <4>1. /\ tasks[Probe] \in Seq(Items) /\ tasks[Probe] # <<>> /\ Head(tasks[Probe]) \in Items
            /\ tasks'[Probe] = Tail(tasks[Probe]) /\ cur'[Probe] = Head(tasks[Probe]) /\ cur[Probe] = None
        <5>1. tasks[Probe] \in Seq(Items) /\ tasks[Probe] # <<>>
          BY <1>0, <2>3, <3>4
        <5>2. Head(tasks[Probe]) \in Items
          BY <5>1
        <5> QED
          BY <1>0, <2>1, <3>1, <3>4, <5>1, <5>2
      <4>2. IF Head(tasks[Probe]) = Finish THEN Waiting = Without(Tail(tasks[Probe]), Finish)
            ELSE /\ Waiting # <<>>
                 /\ Head(Waiting) = Head(tasks[Probe])
                 /\ Tail(Waiting) = Without(Tail(tasks[Probe]), Finish)
        <5>1. ASSUME NEW q \in Seq(Items), q # <<>>, Head(q) = Finish
              PROVE  Without(q, Finish) = Without(Tail(q), Finish)
          BY <5>1, WithoutTail
        <5>2. ASSUME NEW q \in Seq(Items), q # <<>>, Head(q) # Finish
              PROVE  /\ Without(q, Finish) # <<>> /\ Head(Without(q, Finish)) = Head(q)
                     /\ Tail(Without(q, Finish)) = Without(Tail(q), Finish)
          BY <5>2, WithoutTail
        <5> QED
          BY <4>1, <5>1, <5>2, Zenon DEF Waiting
      <4>3. Waiting' = Without(Tail(tasks[Probe]), Finish)
        BY <4>1 DEF Waiting
      <4>4. Phase' = Phase /\ Done' = Done /\ Owed' = Owed
        BY <2>1, <3>2, SamePhase DEF Done, Owed
      <4>5. Running = {}
        BY <4>1 DEF Running
      <4>6. CASE Head(tasks[Probe]) = Finish
        <5>1. Running' = {}
          BY <4>1, <4>6 DEF Running
        <5> QED
          BY <4>2, <4>3, <4>4, <4>5, <4>6, <5>1 DEF Service!vars
      <4>7. CASE Head(tasks[Probe]) # Finish
        <5>1. Head(tasks[Probe]) \in Range(tasks[Probe])
          BY <4>1, TailFacts
        <5>2. Head(tasks[Probe]) \notin finished
          BY <1>0, <4>7, <5>1 DEF JobsOK, PlaceOK, InPlace
        <5>3. Running' = {Head(tasks[Probe])}
          BY <2>1, <4>1, <4>7, <5>2 DEF Running
        <5>4. Phase \in {"open", "closing"}
          BY <2>1 DEF Phase, At
        <5>5. Cardinality(Running) < 1
          BY <4>5, FS_EmptySet
        <5>6. Service!Cardinality(Running) = Cardinality(Running)
          BY Zenon DEF Service!Cardinality, Cardinality
        <5>7. Service!Start
          BY <4>2, <4>3, <4>4, <4>5, <4>7, <5>3, <5>4, <5>5, <5>6 DEF Service!Start
        <5> QED
          BY <5>7 DEF Service!Next
      <4> QED
        BY <4>6, <4>7
    <3> QED
      BY <3>3, <3>4
  <2> QED
    BY <2>2, <2>3
<1>3. CASE Return(i)
  <2>1. /\ pc[i] = "run" /\ cur[i] \in Jobs /\ pc' = [pc EXCEPT ![i] = "account"] /\ finished' = finished \cup {cur[i]}
        /\ UNCHANGED <<tasks, cur, added, owed, started, closing>>
    BY <1>0, <1>3 DEF Return, Goto, queues, CarryOK
  <2>2. ~Closed' /\ \A k \in Threads : pc'[k] = "none" <=> pc[k] = "none"
    BY <1>0, <2>1, ProcFacts DEF Closed, PlacesOK
  <2>3. Phase' = Phase /\ Waiting' = Waiting /\ Owed' = Owed
    BY <2>1, <2>2, SamePhase DEF Waiting, Owed
  <2>4. cur[i] \in added[i] /\ cur[i] \notin finished
    BY <2>1 DEF JobsOK, PlaceOK, InPlace, Unfinished
  <2>5. CASE i # Probe
    <3>1. cur[i] \notin added[Probe]
      BY <1>0, <2>4, <2>5 DEF JobsOK, PlaceOK, Apart
    <3>2. cur[i] # cur[Probe]
      BY <1>0, <2>1, <3>1 DEF JobsOK, PlaceOK, InPlace
    <3>3. Running' = Running /\ Done' = Done
      BY <2>1, <3>1, <3>2 DEF Running, Done
    <3> QED
      BY <2>3, <3>3 DEF Service!vars
  <2>6. CASE i = Probe
    <3>1. Running = {cur[Probe]}
      BY <1>0, <2>1, <2>4, <2>6, RunsOne
    <3>2. Running' = Running \ {cur[Probe]}
      BY <2>1, <2>6, <3>1 DEF Running
    <3>3. Done' = Done \cup {cur[Probe]}
      BY <2>1, <2>4, <2>6 DEF Done
    <3>4. Service!Complete(cur[Probe])
      BY <2>3, <3>1, <3>2, <3>3 DEF Service!Complete
    <3> QED
      BY <2>1, <2>6, <3>4 DEF Service!Next
  <2> QED
    BY <2>5, <2>6
<1>4. CASE Account(i)
  <2>1. /\ pc[i] = "account" /\ cur' = [cur EXCEPT ![i] = None]
        /\ UNCHANGED <<tasks, added, finished, owed, started, closing>>
        /\ \A p \in Procs : pc'[p] = IF p = i THEN IF cur[i] = Finish THEN "exited" ELSE "wait"
                                     ELSE IF pc[p] = "blocked" /\ tid[p] = i /\ pending'[i] = 0 THEN "woken" ELSE pc[p]
    BY <1>4 DEF Account, history
  <2>2. ~Closed' /\ \A k \in Threads : pc'[k] = "none" <=> pc[k] = "none"
    BY <1>0, <2>1, ProcFacts DEF Closed
  <2>3. CASE i # Probe
    BY <1>0, <2>1, <2>2, <2>3, Unseen
  <2>4. CASE i = Probe
    <3>1. cur[Probe] \in finished \cup {Finish} /\ cur'[Probe] = None
      BY <1>0, <2>1, <2>4 DEF JobsOK, PlaceOK, InPlace
    <3>2. Running' = Running
      BY <2>1, <3>1 DEF Running
    <3>3. Phase' = Phase /\ Waiting' = Waiting /\ Owed' = Owed /\ Done' = Done
      BY <2>1, <2>2, SamePhase DEF Waiting, Owed, Done
    <3> QED
      BY <3>2, <3>3 DEF Service!vars
  <2> QED
    BY <2>3, <2>4
<1> QED
  BY <1>1, <1>2, <1>3, <1>4

\* borTaskPoolBarrier is no business of the service.
LEMMA ServesWait ==
  ASSUME ConstantsOK, Typed, ~Closed, NEW c \in Clients,
         (\E i \in Threads : BarrierCall(c, i)) \/ SpuriousWake(c) \/ Wake(c)
  PROVE  UNCHANGED Service!vars
<1>0. PlacesOK
  BY DEF Typed
<1>1. UNCHANGED <<tasks, cur, added, finished, owed, started, closing>>
  BY DEF BarrierCall, SpuriousWake, Wake, queues, history
<1>2. \E l \in {"idle", "woken", "blocked"} : pc' = [pc EXCEPT ![c] = l]
  BY DEF BarrierCall, SpuriousWake, Wake, Goto
<1>3. ~Closed' /\ \A i \in Threads : pc'[i] = pc[i]
  BY <1>0, <1>2, ProcFacts DEF Closed, PlacesOK
<1> QED
  BY <1>1, <1>3, Unseen

\* borTaskPoolDel of a pool that runs begins to close the service; a pool that was
\* never started is left alone.
LEMMA ServesDel ==
  ASSUME ConstantsOK, Typed, Life, BornOK, JobsOK, ~Closed, DelCall
  PROVE  Service!Next \/ UNCHANGED Service!vars
<1>0. PlacesOK /\ Probe \in Threads /\ pc[Owner] = "idle" /\ ~closing /\ closing'
      /\ UNCHANGED <<tasks, cur, added, finished, started>> /\ owed' = Accepted
  BY ProcFacts DEF Typed, DelCall, queues
<1>1. \E l \in {"mark", "free"} : pc' = [pc EXCEPT ![Owner] = l]
  BY DEF DelCall, Goto
<1>2. ~Closed' /\ \A i \in Threads : pc'[i] = pc[i]
  BY <1>0, <1>1, ProcFacts DEF Closed, PlacesOK
<1>3. Waiting' = Waiting /\ Running' = Running /\ Done' = Done
  BY <1>0 DEF Waiting, Running, Done
<1>4. Threads \subseteq At("none") <=> \A i \in Threads : pc[i] = "none"
  BY DEF At, Procs
<1>5. (Threads \subseteq At("none"))' <=> \A i \in Threads : pc'[i] = "none"
  BY DEF At, Procs
<1>6. CASE started
  <2>1. pc[Probe] # "none"
    <3>1. Defined
      BY <1>0, ProcFacts DEF Typed, StrayOK, Defined, At
    <3> QED
      BY <1>0, <1>6, <3>1 DEF BornOK
  <2>2. Phase = "open" /\ Phase' = "closing"
    BY <1>0, <1>2, <1>4, <1>5, <2>1 DEF Phase
  <2>3. Owed' = added[Probe]
    BY <1>0, <1>6 DEF Owed, Accepted
  <2>4. Service!Accepted = added[Probe]
    BY AcceptedAll
  <2> QED
    BY <1>3, <2>2, <2>3, <2>4 DEF Service!BeginClose, Service!Next
<1>7. CASE ~started
  <2>1. \A i \in Threads : pc[i] = "none"
    BY <1>0, <1>7 DEF Life
  <2>2. Phase = "new" /\ Phase' = "new"
    BY <1>0, <1>2, <1>4, <1>5, <2>1 DEF Phase
  <2>3. Owed' = Owed
    BY <1>0, <1>7 DEF Owed
  <2> QED
    BY <1>3, <2>2, <2>3 DEF Service!vars
<1> QED
  BY <1>6, <1>7

\* The pool is released: the service is closed, or abandoned if nobody started it.
LEMMA ServesFree ==
  ASSUME ConstantsOK, Typed, Life, JobsOK, JobsOK', ~Closed, FreeAll
  PROVE  Service!Next \/ UNCHANGED Service!vars
<1>1. /\ pc[Owner] = "free" /\ pc' = [pc EXCEPT ![Owner] = "closed"] /\ tasks'[Probe] = <<>>
      /\ UNCHANGED <<cur, added, finished, owed, started>> /\ Probe \in Threads
  BY DEF FreeAll, Goto, history
<1>2. Closed' /\ Phase' = "closed"
  BY <1>1, ProcFacts DEF Closed, Phase, Typed, PlacesOK
<1>3. closing /\ \A i \in Threads : pc[i] = IF started THEN "exited" ELSE "none"
  BY <1>1 DEF Life
<1>4. cur[Probe] = None
  BY <1>1, <1>3 DEF Typed, CarryOK
<1>5. Running = {} /\ Running' = {}
  BY <1>1, <1>4 DEF Running
<1>6. Waiting' = <<>> /\ Done' = Done /\ Owed' = Owed
  BY <1>1, WithoutEmpty DEF Waiting, Done, Owed
<1>7. Threads \subseteq At("none") <=> \A i \in Threads : pc[i] = "none"
  BY DEF At, Procs
<1>8. CASE started
  <2>1. Phase = "closing"
    BY <1>1, <1>3, <1>7, <1>8 DEF Phase
  <2>2. owed \subseteq finished
    BY <1>1, <1>2, <1>8 DEF JobsOK, DelOK, PoolDelComplete
  <2>3. Owed \subseteq Done
    BY <1>8, <2>2 DEF Owed, Done
  <2> QED
    BY <1>2, <1>5, <1>6, <2>1, <2>3 DEF Service!Close, Service!Next
<1>9. CASE ~started
  <2>1. Phase = "new"
    BY <1>3, <1>7, <1>9 DEF Phase
  <2> QED
    BY <1>2, <1>5, <1>6, <2>1 DEF Service!Abandon, Service!Next
<1> QED
  BY <1>8, <1>9

\* The first thread that borTaskPoolRun creates opens the service.
LEMMA ServesOwner ==
  ASSUME ConstantsOK, Typed, Life, BornOK, JobsOK, JobsOK', ~Closed,
         RunCall \/ DelCall \/ CreateThread \/ RunDone \/ Mark \/ Join \/ FreeAll
  PROVE  Service!Next \/ UNCHANGED Service!vars
<1>0. PlacesOK /\ Probe \in Threads
  BY DEF Typed
<1>1. CASE RunCall \/ Mark \/ Join
  <2>1. UNCHANGED <<tasks, cur, added, finished, owed, started, closing>>
    BY <1>1 DEF RunCall, Mark, Join, queues, history
  <2>2. pc' = pc \/ \E l \in {"create", "reserve", "join", "free"} : pc' = [pc EXCEPT ![Owner] = l]
    <3>1. CASE RunCall
      BY <3>1 DEF RunCall, Goto
    <3>2. CASE Mark \/ Join
      BY <3>2 DEF Mark, Join, Goto
    <3> QED
      BY <1>1, <3>1, <3>2
  <2>3. ~Closed' /\ \A i \in Threads : pc'[i] = pc[i]
    BY <1>0, <2>2, ProcFacts DEF Closed, PlacesOK
  <2> QED
    BY <2>1, <2>3, Unseen
<1>2. CASE RunDone
  <2>1. /\ UNCHANGED <<tasks, cur, added, finished, owed, closing>> /\ started' /\ pc' = [pc EXCEPT ![Owner] = "idle"]
        /\ pc[Owner] = "create"
    BY <1>2 DEF RunDone, Goto, queues, history
  <2>2. ~Closed' /\ \A i \in Threads : pc'[i] = pc[i]
    BY <1>0, <2>1, ProcFacts DEF Closed, PlacesOK
  <2>3. Phase' = Phase
    BY <2>1, <2>2, SamePhase
  <2>4. owed = {}
    BY <2>1 DEF Life, Calling, JobsOK, DelOK
  <2>5. Owed = {} /\ Owed' = {}
    BY <2>1, <2>4 DEF Owed
  <2> QED
    BY <2>1, <2>3, <2>5 DEF Service!vars, Waiting, Running, Done
<1>3. CASE CreateThread
  <2>1. /\ idx \in Threads /\ pc' = [pc EXCEPT ![idx] = "wait"] /\ pc[Owner] = "create"
        /\ UNCHANGED <<tasks, cur, added, finished, owed, started, closing>>
    BY <1>3, CreateIndex DEF CreateThread, Goto, queues, history, Typed
  <2>2. ~closing /\ ~Closed'
    BY <1>0, <2>1, ProcFacts DEF Life, Calling, Closed, PlacesOK
  <2>3. UNCHANGED <<Waiting, Running, Done, Owed>>
    BY <2>1 DEF Waiting, Running, Done, Owed
  <2>4. Phase' = "open"
    <3>1. pc'[idx] = "wait" /\ idx \in Threads
      BY <1>0, <2>1, ProcFacts DEF PlacesOK
    <3>2. ~(Threads \subseteq At("none"))'
      <4>1. (At("none"))' = {p \in Procs : pc'[p] = "none"}
        BY DEF At
      <4>2. \E i \in Threads : pc'[i] = "wait"
        BY <3>1
      <4> QED
        BY <4>1, <4>2
    <3> QED
      BY <2>1, <2>2, <3>2 DEF Phase
  <2>5. Phase \in {"new", "open"}
    BY <2>2 DEF Phase
  <2>6. CASE Phase = "open"
    BY <2>3, <2>4, <2>6 DEF Service!vars
  <2>7. CASE Phase = "new"
    BY <2>3, <2>4, <2>7 DEF Service!Launch, Service!Next
  <2> QED
    BY <2>5, <2>6, <2>7
<1> QED
  BY <1>1, <1>2, <1>3, ServesDel, ServesFree

\* A new pool is a new service for each of its threads.
LEMMA InitServes == ASSUME ConstantsOK PROVE Init => Service!Init
<1> SUFFICES ASSUME Init PROVE Service!Init
  OBVIOUS
<1>1. tasks[Probe] = <<>> /\ cur[Probe] = None /\ finished = {} /\ owed = {} /\ Probe \in Threads
  BY DEF Init
<1>2. Waiting = <<>>
  BY <1>1, WithoutEmpty DEF Waiting
<1>3. Running = {} /\ Done = {} /\ Owed = {}
  BY <1>1 DEF Running, Done, Owed
<1>4. Phase = "new"
  BY ProcFacts DEF Init, Phase, Closed, At
<1> QED
  BY <1>2, <1>3, <1>4 DEF Service!Init

\* Every step of the pool is a step of the service or none.
LEMMA StepServes ==
  ASSUME ConstantsOK
  PROVE  Base /\ JobsOK /\ BornOK /\ [Next]_vars => [Service!Next]_(Service!vars)
<1> SUFFICES ASSUME Base, JobsOK, BornOK, [Next]_vars
             PROVE  Service!Next \/ UNCHANGED Service!vars
  OBVIOUS
<1>1. JobsOK'
  BY StepJobs
<1>2. CASE UNCHANGED vars
  <2>1. Phase' = Phase
    BY <1>2 DEF vars, Phase, Closed, At
  <2> QED
    BY <1>2, <2>1 DEF vars, queues, history, Service!vars, Waiting, Running, Done, Owed
<1>3. CASE Closed
  BY <1>2, <1>3, ClosedStill DEF Base
<1>4. CASE ~Closed
  <2>1. Procedure \/ UNCHANGED vars
    BY NextCases
  <2> QED
    BY <1>1, <1>2, <1>4, <2>1, ServesAdd, ServesWork, ServesWait, ServesOwner DEF Procedure, Terminated, Base
<1> QED
  BY <1>3, <1>4

\* task-pool.c implements the service for each of its threads: the jobs of a thread
\* are run one after the other in the order of their addition, and borTaskPoolDel
\* of a started pool returns when those that were in the list when it was called are
\* finished; whatever the other threads do, and even when waits are interrupted.  The
\* service may drop what it accepts after that call, and a pool that was not started
\* may be abandoned with all its jobs.
THEOREM ThreadServes == ASSUME ConstantsOK PROVE Spec => PoolImplementsService
<1>1. Init => Service!Init /\ BornOK
  BY InitServes, InitBorn
<1>2. Base /\ BornOK /\ [Next]_vars => BornOK'
  BY StepBorn DEF Base
<1>3. Base /\ JobsOK /\ BornOK /\ [Next]_vars => [Service!Next]_(Service!vars)
  BY StepServes
<1> QED
  BY <1>1, <1>2, <1>3, JobsInductive, PTL DEF Spec, PoolImplementsService, Service!Spec
=============================================================================
