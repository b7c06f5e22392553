----------------------------- MODULE ReviseEpisode -----------------------------
(***************************************************************************)
(* What one REVISE sample promises, whatever the model says: a bounded     *)
(* conversation that looks at a timeline a few frames at a time.  It takes *)
(* at most MaxLooks looks, each a glance at no more frames than allowed,   *)
(* asks at most Retries + 1 times per look, never forgets evidence,        *)
(* concludes at most once, and ends.  ReviseLoop implements it; the checks *)
(* on a turn, the retry policy and the fallbacks are below this level.     *)
(***************************************************************************)
EXTENDS Integers

CONSTANTS
  Glances,    \* the sets of frames that a look may show
  MaxLooks,   \* rounds
  Retries,    \* asks of a look beside the first
  Verdicts,   \* the letters that may conclude
  NoVerdict

VARIABLES
  phase,      \* "between", "asking", "concluded", "closed" or "aborted"
  looks,      \* looks taken
  tries,      \* retries spent in this look
  evidence,   \* frames shown so far
  calls,      \* answered calls of the model
  verdict

vars == <<phase, looks, tries, evidence, calls, verdict>>

Init ==
  /\ phase = "between" /\ looks = 0 /\ tries = 0
  /\ evidence = {} /\ calls = 0
  /\ verdict = NoVerdict

Look ==
  /\ phase = "between" /\ looks < MaxLooks
  /\ \E F \in Glances : evidence' = evidence \cup F
  /\ looks' = looks + 1
  /\ tries' = 0
  /\ phase' = "asking"
  /\ UNCHANGED <<calls, verdict>>

Called == phase = "asking" /\ calls' = calls + 1 /\ UNCHANGED <<looks, evidence>>

\* The turn is refused and asked again.
AskAgain ==
  /\ Called
  /\ tries < Retries
  /\ tries' = tries + 1
  /\ UNCHANGED <<phase, verdict>>

\* The turn, or what stands in for it, says where to look next.
MoveOn == Called /\ phase' = "between" /\ UNCHANGED <<tries, verdict>>

\* An answer is accepted, or the sample is given up.
Conclude ==
  /\ Called
  /\ verdict' \in Verdicts \cup {NoVerdict}
  /\ phase' = "concluded"
  /\ UNCHANGED tries

Close ==
  /\ phase = "concluded" \/ (phase = "between" /\ looks = MaxLooks)
  /\ phase' = "closed"
  /\ UNCHANGED <<looks, tries, evidence, calls, verdict>>

Abort ==
  /\ phase = "asking" \/ (phase = "between" /\ looks = 0)
  /\ phase' = "aborted"
  /\ UNCHANGED <<looks, tries, evidence, calls, verdict>>

Next == Look \/ AskAgain \/ MoveOn \/ Conclude \/ Close \/ Abort

Spec == Init /\ [][Next]_vars /\ WF_vars(Next)
=============================================================================
