------------------------------ MODULE Evaluation ------------------------------
(***************************************************************************)
(* What an evaluation that can be resumed promises about its samples,      *)
(* across any number of process lives: a sample recorded as finished is    *)
(* never run again, no life runs a sample twice, and a life closes only    *)
(* when every sample is finished or was tried in it.  EvalHarness          *)
(* implements it for the drivers that resume by sample ID.                 *)
(***************************************************************************)
CONSTANT Samples

VARIABLES
  phase,     \* "idle", "open" or "closed"
  finished,  \* samples recorded as finished: survives the process
  tried      \* samples run in this life

vars == <<phase, finished, tried>>

Init == phase = "idle" /\ finished = {} /\ tried = {}

Open ==
  /\ phase \in {"idle", "closed"}
  /\ phase' = "open" /\ tried' = {}
  /\ UNCHANGED finished

Try(s) ==
  /\ phase = "open"
  /\ s \notin finished \cup tried
  /\ tried' = tried \cup {s}
  /\ UNCHANGED <<phase, finished>>

Record(s) ==
  /\ phase = "open"
  /\ s \in tried
  /\ finished' = finished \cup {s}
  /\ UNCHANGED <<phase, tried>>

Close ==
  /\ phase = "open"
  /\ finished \cup tried = Samples
  /\ phase' = "closed"
  /\ UNCHANGED <<finished, tried>>

Crash ==
  /\ phase = "open"
  /\ phase' = "idle" /\ tried' = {}
  /\ UNCHANGED finished

Next == Open \/ Close \/ Crash \/ \E s \in Samples : Try(s) \/ Record(s)

Spec == Init /\ [][Next]_vars
=============================================================================
