---------------------------- MODULE DurableTraining ----------------------------
(***************************************************************************)
(* What checkpoints promise of a training that may die at any moment: a    *)
(* new life goes on from the last step that was made durable, training     *)
(* never runs more than SaveFreq steps ahead of it, it never moves back,   *)
(* and a job that ends has made its last step durable.  While a step is    *)
(* being made durable there is nothing to resume from.                     *)
(***************************************************************************)
EXTENDS Integers

CONSTANTS MaxSteps, SaveFreq

VARIABLES
  job,     \* "down", "training" or "done"
  at,      \* the step this life has reached, 0 if it is down
  durable  \* the step a new life would go on from, or Nowhere

vars == <<job, at, durable>>

Nowhere == -1

Init == job = "down" /\ at = 0 /\ durable = 0

Resume ==
  /\ job = "down" /\ durable # Nowhere
  /\ job' = "training" /\ at' = durable
  /\ UNCHANGED durable

Train ==
  /\ job = "training" /\ durable # Nowhere
  /\ at < MaxSteps /\ at < durable + SaveFreq
  /\ at' = at + 1
  /\ UNCHANGED <<job, durable>>

BeginCommit ==
  /\ job = "training" /\ durable \in 0 .. at - 1
  /\ durable' = Nowhere
  /\ UNCHANGED <<job, at>>

Commit ==
  /\ job = "training" /\ durable = Nowhere
  /\ durable' = at
  /\ UNCHANGED <<job, at>>

Finish ==
  /\ job = "training" /\ at = MaxSteps /\ durable = MaxSteps
  /\ job' = "done"
  /\ UNCHANGED <<at, durable>>

Crash ==
  /\ job = "training"
  /\ job' = "down" /\ at' = 0
  /\ UNCHANGED durable

Next == Resume \/ Train \/ BeginCommit \/ Commit \/ Finish \/ Crash

Spec == Init /\ [][Next]_vars
=============================================================================
