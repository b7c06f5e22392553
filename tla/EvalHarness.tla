------------------------------ MODULE EvalHarness ------------------------------
(***************************************************************************)
(* The evaluation of one shard by revise/pnp/harness.py, over several      *)
(* lives of the process: the outer loops _run_nextqa, _run_egoschema,      *)
(* _run_long_vllm and _run_long_hf, and what each rebuilds from the log of *)
(* earlier lives when it resumes.                                          *)
(*                                                                         *)
(* The log is all that survives a crash.  A crash in the middle of a write *)
(* leaves a line without an end, and the next row is written behind it:    *)
(* no reader can parse that line, and every reader skips it.               *)
(*                                                                         *)
(* A sample run is ReviseLoop seen from outside, which is SampleRun: it    *)
(* ends with an answer, without one, terminated, or by an exception, and   *)
(* appends rows.  The rows of one round are one row here: the readers      *)
(* treat the rows that retries add alike.                                  *)
(***************************************************************************)
EXTENDS Integers, Sequences, FiniteSets, FiniteSetsExt

CONSTANTS
  NumSamples,        \* samples of the shard, numbered in the order they run
  Drivers,           \* the harness modes to consider
  MaxRounds,         \* max_rounds
  Strict,            \* strict_actions
  ForceFinalAnswer,  \* force_final_answer
  MaxLives           \* bound: how often the process is started

ASSUME HarnessAssumption ==
  /\ NumSamples \in Nat \ {0} /\ MaxRounds \in Nat \ {0} /\ MaxLives \in Nat
  /\ Drivers \subseteq {"nextqa", "egoschema", "long_vllm", "long_hf"}
  /\ {Strict, ForceFinalAnswer} \subseteq BOOLEAN

Samples == 1 .. NumSamples
NoSample == 0

VARIABLES
  driver,   \* the mode, the same in every life
  lives,    \* lives begun
  pc,       \* "down", "between", "running", "returned" or "done"
  todo,     \* samples this life has still to run
  tried,    \* samples this life has begun
  current,  \* the sample in hand
  round,    \* rounds it has begun
  outcome,  \* how its run ended
  tally,    \* the totals of the summary
  log,      \* the lines of log_jsonl
  torn      \* the log ends in the middle of a line

lifeVars == <<todo, tried, current, round, outcome, tally>>
vars == <<driver, lives, pc, lifeVars, log, torn>>

Totals == {"processed", "correct", "rounds", "failed", "answered", "terminated"}
NoTotals == [t \in Totals |-> 0]
Plus(added) == [t \in Totals |-> IF t \in DOMAIN added THEN tally[t] + added[t] ELSE tally[t]]

Init ==
  /\ driver \in Drivers
  /\ lives = 0 /\ pc = "down"
  /\ todo = {} /\ tried = {} /\ current = NoSample /\ round = 0 /\ outcome = "none"
  /\ tally = NoTotals
  /\ log = << >> /\ torn = FALSE

-------------------------------------------------------------------------------
(* What a new life reads from the log. *)

ReadableRows(kinds) == {i \in DOMAIN log : log[i].readable /\ log[i].kind \in kinds}
SamplesWith(kinds) == {log[i].sample : i \in ReadableRows(kinds)}

(* load_progress_from_log: the first accepted answer of each sample. *)
FirstAnswers == {i \in ReadableRows({"answer"}) :
                   \A j \in ReadableRows({"answer"}) : log[j].sample = log[i].sample => i <= j}

(* _long_resume_completed: samples with an answer, accepted or only claimed. *)
CountedKinds ==
  IF driver = "long_vllm" \/ ~Strict THEN {"answer", "claim"} ELSE {"answer"}
LongCompleted == Cardinality(SamplesWith(CountedKinds))

SkippedNone == {}   \* seeded fault: totals resumed, samples run again

SkippedByCount ==   \* seeded fault: samples skipped from the front
  {s \in Samples : s <= Cardinality(SamplesWith({"answer", "done"}))}

(* The drivers that resume by sample ID; the others resume by count. *)
ById == driver \in {"nextqa", "egoschema"}

Skipped ==
  IF driver = "nextqa" THEN SamplesWith({"answer"})
  ELSE IF driver = "egoschema" THEN SamplesWith({"done"})
  ELSE {s \in Samples : s <= LongCompleted}

(* The rounds of the first answers, whose number is the sum of theirs. *)
ResumedRounds == {ir \in FirstAnswers \X (1 .. MaxRounds) : ir[2] <= log[ir[1]].round}

ResumedRows == [NoTotals EXCEPT   \* seeded fault: rows counted, not samples
  !["processed"] = IF driver = "nextqa" THEN Cardinality(SamplesWith({"answer"})) ELSE 0,
  !["correct"] = IF driver = "nextqa" THEN Cardinality(ReadableRows({"answer"})) ELSE 0]

Resumed ==
  IF driver = "nextqa" THEN
    [NoTotals EXCEPT
      !["processed"] = Cardinality(FirstAnswers),
      !["correct"] = Cardinality({i \in FirstAnswers : log[i].right}),
      !["rounds"] = Cardinality(ResumedRounds)]
  ELSE IF driver = "long_hf" THEN [NoTotals EXCEPT !["answered"] = LongCompleted]
  ELSE NoTotals

Start ==
  /\ pc \in {"down", "done"} /\ lives < MaxLives
  /\ lives' = lives + 1
  /\ todo' = Samples \ Skipped
  /\ tally' = Resumed
  /\ tried' = {} /\ current' = NoSample /\ round' = 0 /\ outcome' = "none"
  /\ pc' = "between"
  /\ UNCHANGED <<driver, log, torn>>

-------------------------------------------------------------------------------
(* One sample. *)

Take ==
  /\ pc = "between" /\ todo # {}
  /\ current' = Min(todo)
  /\ todo' = todo \ {current'}
  /\ tried' = tried \cup {current'}
  /\ round' = 0 /\ outcome' = "none"
  /\ tally' = IF driver = "long_vllm" THEN tally ELSE Plus([processed |-> 1])
  /\ pc' = "running"
  /\ UNCHANGED <<driver, lives, log, torn>>

(* maybe_log_jsonl appends a row; behind a torn line it cannot be read. *)
Write(kind, right, at) ==
  /\ log' = Append(log, [sample |-> current, kind |-> kind, right |-> right,
                         round |-> at, readable |-> ~torn])
  /\ torn' = FALSE

OneSample == INSTANCE SampleRun WITH status <- pc, Answers <- {"right", "wrong"}

(* A round without an accepted answer.  What the model wrote may hold an   *)
(* <answer> all the same, in a turn the policy rejected.                   *)
Turn(kind) ==
  /\ OneSample!Turn
  /\ Write(kind, FALSE, round')
  /\ UNCHANGED <<driver, lives, todo, tried, current, tally>>

Answer(right) ==
  /\ OneSample!Answer(IF right THEN "right" ELSE "wrong")
  /\ Write("answer", right, round')
  /\ UNCHANGED <<driver, lives, todo, tried, current, tally>>

(* The run ends without an answer: a strict loop terminated it, which the  *)
(* loop itself counts; its rounds ran out; or it raised.                   *)
GiveUp ==
  /\ OneSample!Terminate \/ OneSample!Exhaust \/ OneSample!Raise
  /\ tally' = IF outcome' = "terminated" /\ driver # "long_hf"
                THEN Plus([terminated |-> 1]) ELSE tally
  /\ UNCHANGED <<driver, lives, todo, tried, current, log, torn>>

-------------------------------------------------------------------------------
(* What each driver makes of the outcome. *)

Answered == outcome \in {"right", "wrong"}
One(condition) == IF condition THEN 1 ELSE 0

Back ==
  /\ pc = "returned" /\ pc' = "between"
  /\ UNCHANGED <<driver, lives, todo, tried, current, round, outcome>>

ConcludeNextqa ==
  /\ driver = "nextqa" /\ Back
  /\ tally' = Plus([correct |-> One(outcome = "right"),
                    failed |-> One(outcome = "raised"),
                    rounds |-> IF outcome = "raised" THEN MaxRounds ELSE round])
  /\ UNCHANGED <<log, torn>>

(* The row that marks the sample done is written for a failed one too. *)
ConcludeEgoschema ==
  /\ driver = "egoschema" /\ Back
  /\ tally' = Plus([correct |-> One(outcome = "right"),
                    failed |-> One(outcome \in {"raised", "exhausted"}),
                    rounds |-> IF Answered THEN round ELSE 0])
  /\ Write("done", FALSE, round)

ConcludeLongTwice ==   \* seeded fault: a failed sample goes on to be counted as terminated
  /\ driver \in {"long_vllm", "long_hf"} /\ Back
  /\ tally' = Plus([processed |-> One(driver = "long_vllm"),
                    answered |-> One(outcome # "terminated"),
                    correct |-> One(outcome = "right"),
                    failed |-> One(outcome = "raised"),
                    rounds |-> IF Answered THEN round ELSE 0,
                    terminated |-> 0])
  /\ IF outcome = "raised" THEN Write("error", FALSE, round) ELSE UNCHANGED <<log, torn>>

(* A forced sample without an answer is counted as terminated here too. *)
ConcludeLong ==
  /\ driver \in {"long_vllm", "long_hf"} /\ Back
  /\ tally' = Plus([processed |-> One(driver = "long_vllm"),
                    answered |-> One(Answered),
                    correct |-> One(outcome = "right"),
                    failed |-> One(outcome = "raised"),
                    rounds |-> IF Answered THEN round ELSE 0,
                    terminated |-> One(outcome \in {"terminated", "exhausted"}
                                         /\ ForceFinalAnswer)])
  /\ IF outcome = "raised" THEN Write("error", FALSE, round) ELSE UNCHANGED <<log, torn>>

SummariseProcessed ==   \* seeded fault: waits for samples that were skipped
  /\ pc = "between" /\ todo = {} /\ tried = Samples
  /\ pc' = "done"
  /\ UNCHANGED <<driver, lives, lifeVars, log, torn>>

(* The totals are printed and written as the summary. *)
Summarise ==
  /\ pc = "between" /\ todo = {}
  /\ pc' = "done"
  /\ UNCHANGED <<driver, lives, lifeVars, log, torn>>

(* The process dies; a row it was about to write may be left unfinished. *)
Crash ==
  /\ pc \in {"between", "running", "returned"}
  /\ pc' = "down"
  /\ torn' \in IF pc = "between" THEN {torn} ELSE {torn, TRUE}
  /\ todo' = {} /\ tried' = {} /\ current' = NoSample /\ round' = 0 /\ outcome' = "none"
  /\ tally' = NoTotals
  /\ UNCHANGED <<driver, lives, log>>

Run ==
  \/ Take \/ Summarise
  \/ \E kind \in {"turn", "claim"} : Turn(kind)
  \/ \E right \in BOOLEAN : Answer(right)
  \/ GiveUp
  \/ ConcludeNextqa \/ ConcludeEgoschema \/ ConcludeLong

Next == Start \/ Run \/ Crash

(* A life that has begun goes on until it ends; nobody has to start one. *)
Spec == Init /\ [][Next]_vars /\ WF_vars(Run)

-------------------------------------------------------------------------------
LogRows == [sample : Samples, kind : {"turn", "claim", "answer", "done", "error"},
            right : BOOLEAN, round : 0 .. MaxRounds, readable : BOOLEAN]

(* The types, and no sample is counted twice: resumed and new together, no   *)
(* total of samples exceeds the shard.                                       *)
TypeOK ==
  /\ driver \in Drivers /\ lives \in 0 .. MaxLives
  /\ pc \in {"down", "between", "running", "returned", "done"}
  /\ todo \subseteq Samples /\ tried \subseteq Samples
  /\ current \in Samples \cup {NoSample} /\ round \in 0 .. MaxRounds
  /\ outcome \in {"none", "right", "wrong", "terminated", "exhausted", "raised"}
  /\ tally \in [Totals -> Nat]
  /\ \A t \in {"processed", "correct", "failed", "answered"} : tally[t] <= NumSamples
  /\ log \in Seq(LogRows) /\ torn \in BOOLEAN

(* The samples the log shows as finished to a driver that resumes by ID, and *)
(* as answered to one that resumes by count.                                 *)
Finished == IF driver = "egoschema" THEN SamplesWith({"done"}) ELSE SamplesWith({"answer"})

(* "[resume] detected N completed samples": a sample a life leaves out is    *)
(* one that an earlier life finished.                                        *)
ResumeSkipsCompleted ==
  pc # "down" => Samples \ (todo \cup tried) \subseteq Finished

(* The accuracy of a resumed NExT-QA run is that of one run: every sample is *)
(* processed once, and the right ones are those whose answer in the log,     *)
(* whichever life wrote it, is right (a row lost behind a torn line apart).  *)
ScoreMatchesLog ==
  pc = "done" /\ driver = "nextqa" =>
    /\ tally["processed"] = NumSamples
    /\ (\A i \in DOMAIN log : log[i].readable) =>
         /\ tally["correct"] = Cardinality({i \in DOMAIN log : log[i].right})
         /\ tally["correct"] = Cardinality({log[i].sample : i \in {j \in DOMAIN log : log[j].right}})

(* The summary's totals tell one story: no more right than answered, no      *)
(* sample both failed and answered, rounds within the samples' rounds, and   *)
(* a denominator that covers what the life ran.                              *)
TotalsAddUp ==
  pc = "done" =>
    /\ tally["processed"] = IF driver = "nextqa" THEN NumSamples ELSE Cardinality(tried)
    /\ tally["correct"] + tally["failed"] <= tally["processed"]
    /\ tally["rounds"] <= MaxRounds * tally["processed"]
    /\ driver = "long_vllm" =>
         /\ tally["correct"] <= tally["answered"]
         /\ tally["answered"] + tally["failed"] <= tally["processed"]
         /\ tally["rounds"] >= tally["answered"]

(* A life ends: it summarises or it crashes.                                 *)
LifeEnds == pc = "between" ~> pc \in {"done", "down"}

Phase == IF pc = "down" THEN "idle" ELSE IF pc = "done" THEN "closed" ELSE "open"

(* Resuming by ID implements a resumable evaluation.  The mapping shows a    *)
(* driver that resumes by count as one that never starts: it does not        *)
(* implement it (v_long_resume).                                             *)
Promise == INSTANCE Evaluation WITH
  Samples <- Samples,
  finished <- IF ById THEN Finished ELSE {},
  tried <- IF ById THEN tried ELSE {},
  phase <- IF ById THEN Phase ELSE "idle"

ImplementsEvaluation == Promise!Spec
=============================================================================
