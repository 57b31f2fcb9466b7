---------------------------- MODULE TaskService ----------------------------
(***************************************************************************)
(* What a task queue promises, whatever threads, locks and semaphores it   *)
(* is built from: jobs are started in the order they were accepted, each   *)
(* at most once, no more than Width at a time; closing the service first   *)
(* finishes everything that was accepted before closing began, or, where   *)
(* the service can be cancelled, drops what is not started; a service that *)
(* was never launched runs nothing and owes nothing.                       *)
(***************************************************************************)
EXTENDS Integers, Sequences, FiniteSets

CONSTANTS Jobs, Width, Cancellable

VARIABLES waiting, running, done, phase, owed

vars == <<waiting, running, done, phase, owed>>

Accepted == {waiting[i] : i \in DOMAIN waiting} \cup running \cup done

Init ==
  /\ waiting = <<>>
  /\ running = {}
  /\ done = {}
  /\ phase = "new"
  /\ owed = {}

Accept(j) ==
  /\ phase # "closed"
  /\ j \notin Accepted
  /\ waiting' = Append(waiting, j)
  /\ UNCHANGED <<running, done, phase, owed>>

Launch ==
  /\ phase = "new"
  /\ phase' = "open"
  /\ UNCHANGED <<waiting, running, done, owed>>

Start ==
  /\ phase \in {"open", "closing"}
  /\ waiting # <<>>
  /\ Cardinality(running) < Width
  /\ running' = running \cup {Head(waiting)}
  /\ waiting' = Tail(waiting)
  /\ UNCHANGED <<done, phase, owed>>

Complete(j) ==
  /\ j \in running
  /\ running' = running \ {j}
  /\ done' = done \cup {j}
  /\ UNCHANGED <<waiting, phase, owed>>

BeginClose ==
  /\ phase = "open"
  /\ phase' = "closing"
  /\ owed' = Accepted
  /\ UNCHANGED <<waiting, running, done>>

Cancel ==
  /\ Cancellable
  /\ phase = "open"
  /\ phase' = "closing"
  /\ waiting' = <<>>
  /\ owed' = running \cup done
  /\ UNCHANGED <<running, done>>

\* Jobs accepted too late are dropped.
Close ==
  /\ phase = "closing"
  /\ owed \subseteq done
  /\ running = {}
  /\ phase' = "closed"
  /\ waiting' = <<>>
  /\ UNCHANGED <<running, done, owed>>

Abandon ==
  /\ phase = "new"
  /\ phase' = "closed"
  /\ waiting' = <<>>
  /\ UNCHANGED <<running, done, owed>>

Next ==
  \/ \E j \in Jobs : Accept(j) \/ Complete(j)
  \/ Launch \/ Start \/ BeginClose \/ Cancel \/ Close \/ Abandon

Spec == Init /\ [][Next]_vars
============================================================================
