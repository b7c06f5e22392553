------------------------------- MODULE SampleRun -------------------------------
(***************************************************************************)
(* One sample, as the harness sees the loop run it: rounds pass, at most   *)
(* MaxRounds; then it returns, with an accepted answer of its last round,  *)
(* terminated or without an answer, or it raises.  ReviseLoop implements   *)
(* it; EvalHarness runs samples by its actions and writes the rows.        *)
(***************************************************************************)
EXTENDS Integers

CONSTANTS
  MaxRounds,
  Strict, ForceFinalAnswer,
  Answers           \* what an answer may turn out to be

VARIABLES
  status,   \* "running", then "returned"
  round,    \* rounds that are over
  outcome   \* "none" while it runs

vars == <<status, round, outcome>>

Init == status = "running" /\ round = 0 /\ outcome = "none"

Ends(how) == status = "running" /\ status' = "returned" /\ outcome' = how

(* A round without an accepted answer. *)
Turn ==
  /\ status = "running" /\ round < MaxRounds
  /\ round' = round + 1
  /\ UNCHANGED <<status, outcome>>

Answer(a) == Ends(a) /\ round < MaxRounds /\ round' = round + 1

(* Only strict actions terminate a sample, for what it said in a round; and  *)
(* a strict sample that must answer does not just run out of rounds.         *)
Terminate == Ends("terminated") /\ Strict /\ round > 0 /\ UNCHANGED round
Exhaust ==
  /\ Ends("exhausted") /\ round = MaxRounds /\ ~(Strict /\ ForceFinalAnswer)
  /\ UNCHANGED round
Raise == Ends("raised") /\ UNCHANGED round

Next == Turn \/ Terminate \/ Exhaust \/ Raise \/ \E a \in Answers : Answer(a)

Spec == Init /\ [][Next]_vars
=============================================================================
