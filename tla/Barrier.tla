------------------------------ MODULE Barrier ------------------------------
(***************************************************************************)
(* The barrier of src/barrier.c.  borBarrier is one critical section up to *)
(* its pthread_cond_wait and one from there to the end.                    *)
(***************************************************************************)
EXTENDS Integers, FiniteSets

CONSTANTS
  Threads,         \* threads that call borBarrier
  Goals,           \* arguments that borBarrierNew is called with
  CurMod,          \* 2^16, scaled down: goal and cur are uint16_t
  MaxCalls,        \* bound on the calls of each thread
  MaxSpurious      \* bound on pthread_cond_waits that return unsignalled

ASSUME ConstantAssumption ==
  /\ IsFiniteSet(Threads)
  /\ CurMod \in Nat \ {0}
  /\ Goals \subseteq 1..(CurMod - 1)
  /\ MaxCalls \in Nat
  /\ MaxSpurious \in Nat

VARIABLES
  goal,     \* b->goal
  cur,      \* b->cur
  place,       \* where each thread stands
  arrived,  \* history: calls of borBarrier that each thread has made
  left,     \* history: calls that have returned to each thread
  releases, \* history: broadcasts so far
  spurious  \* history: waits that ended unsignalled

barrierVars == <<goal, cur, place, arrived, left, releases, spurious>>

Standing(l) == {t \in Threads : place[t] = l}

\* borBarrierNew.
BarrierInit ==
  /\ goal \in Goals
  /\ cur = 0
  /\ place = [t \in Threads |-> "idle"]
  /\ arrived = [t \in Threads |-> 0]
  /\ left = [t \in Threads |-> 0]
  /\ releases = 0
  /\ spurious = 0

\* Mutants: the counter is not reset; the barrier opens one thread too early;
\* only one waiting thread is signalled.
ArriveNoReset(t) ==
  /\ place[t] = "idle" /\ arrived[t] < MaxCalls
  /\ arrived' = [arrived EXCEPT ![t] = @ + 1]
  /\ cur' = (cur + 1) % CurMod
  /\ \/ /\ cur' = goal
        /\ place' = [u \in Threads |-> IF place[u] = "blocked" THEN "woken" ELSE place[u]]
        /\ left' = [left EXCEPT ![t] = @ + 1]
        /\ releases' = releases + 1
     \/ /\ cur' # goal
        /\ place' = [place EXCEPT ![t] = "blocked"]
        /\ UNCHANGED <<left, releases>>
  /\ UNCHANGED <<goal, spurious>>
ArriveEarly(t) ==
  /\ place[t] = "idle" /\ arrived[t] < MaxCalls
  /\ arrived' = [arrived EXCEPT ![t] = @ + 1]
  /\ \/ /\ cur + 2 >= goal
        /\ cur' = 0
        /\ place' = [u \in Threads |-> IF place[u] = "blocked" THEN "woken" ELSE place[u]]
        /\ left' = [left EXCEPT ![t] = @ + 1]
        /\ releases' = releases + 1
     \/ /\ cur + 2 < goal
        /\ cur' = cur + 1
        /\ place' = [place EXCEPT ![t] = "blocked"]
        /\ UNCHANGED <<left, releases>>
  /\ UNCHANGED <<goal, spurious>>
ArriveSignal(t) ==
  /\ place[t] = "idle" /\ arrived[t] < MaxCalls
  /\ arrived' = [arrived EXCEPT ![t] = @ + 1]
  /\ \/ /\ cur + 1 = goal
        /\ cur' = 0
        /\ \E u \in Standing("blocked") \cup {t} :
             place' = IF u = t THEN place ELSE [place EXCEPT ![u] = "woken"]
        /\ left' = [left EXCEPT ![t] = @ + 1]
        /\ releases' = releases + 1
     \/ /\ cur + 1 # goal
        /\ cur' = cur + 1
        /\ place' = [place EXCEPT ![t] = "blocked"]
        /\ UNCHANGED <<left, releases>>
  /\ UNCHANGED <<goal, spurious>>

\* borBarrier: the last of goal threads wakes the others and goes on; the
\* others sleep.
Arrive(t) ==
  /\ place[t] = "idle" /\ arrived[t] < MaxCalls
  /\ arrived' = [arrived EXCEPT ![t] = @ + 1]
  /\ \/ /\ (cur + 1) % CurMod = goal
        /\ cur' = 0
        /\ place' = [u \in Threads |-> IF place[u] = "blocked" THEN "woken" ELSE place[u]]
        /\ left' = [left EXCEPT ![t] = @ + 1]
        /\ releases' = releases + 1
     \/ /\ (cur + 1) % CurMod # goal
        /\ cur' = (cur + 1) % CurMod
        /\ place' = [place EXCEPT ![t] = "blocked"]
        /\ UNCHANGED <<left, releases>>
  /\ UNCHANGED <<goal, spurious>>

\* pthread_cond_wait has the mutex again and borBarrier returns.
Leave(t) ==
  /\ place[t] = "woken"
  /\ place' = [place EXCEPT ![t] = "idle"]
  /\ left' = [left EXCEPT ![t] = @ + 1]
  /\ UNCHANGED <<goal, cur, arrived, releases, spurious>>

SpuriousWake(t) ==
  /\ spurious < MaxSpurious
  /\ place[t] = "blocked"
  /\ place' = [place EXCEPT ![t] = "woken"]
  /\ spurious' = spurious + 1
  /\ UNCHANGED <<goal, cur, arrived, left, releases>>

\* Every thread has made its calls; the last group may be incomplete.
Quiet == (\A t \in Threads : place[t] = "blocked" \/ arrived[t] = MaxCalls) /\ UNCHANGED barrierVars

BarrierNext == (\E t \in Threads : Arrive(t) \/ Leave(t) \/ SpuriousWake(t)) \/ Quiet

BarrierSpec == BarrierInit /\ [][BarrierNext]_barrierVars

\* Threads run, and keep coming to the barrier.
BarrierFairSpec == BarrierSpec /\ \A t \in Threads : WF_barrierVars(Arrive(t)) /\ WF_barrierVars(Leave(t))
----------------------------------------------------------------------------
(* Properties.                                                             *)

BarrierTypeOK ==
  /\ goal \in Goals
  /\ cur \in 0..(goal - 1)
  /\ place \in [Threads -> {"idle", "blocked", "woken"}]
  /\ arrived \in [Threads -> Nat] /\ left \in [Threads -> Nat]
  /\ releases \in Nat
  /\ spurious \in Nat

\* A barrier for all its threads: no thread leaves its k-th call before every
\* thread has made its k-th call, however quickly threads come back (and as
\* long as pthread_cond_wait, which is not in a loop, returns only when
\* signalled).
Together ==
  goal = Cardinality(Threads) /\ spurious = 0 => \A t, u \in Threads : left[t] <= arrived[u]

\* b->cur is the number of threads that sleep on the condition, also when
\* threads of the last round have not yet run again.
CurCountsBlocked == spurious = 0 => cur = Cardinality(Standing("blocked"))

\* Calls of borBarrier that have begun.
Begun == {c \in Threads \X (1..MaxCalls) : c[2] <= arrived[c[1]]}

\* Every goal-th call broadcasts, also when the condition wakes threads that
\* nobody signalled.
EveryGoalthReleases == cur + goal * releases = Cardinality(Begun)

\* If the barrier is for all its threads, every call returns.
EverybodyReturns ==
  \A t \in Threads :
    place[t] = "blocked" /\ goal = Cardinality(Threads) ~> place[t] = "idle" \/ spurious > 0
============================================================================
