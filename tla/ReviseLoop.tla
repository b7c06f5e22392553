------------------------------ MODULE ReviseLoop ------------------------------
(***************************************************************************)
(* The plug-and-play REVISE loop: run_sample of revise/pnp/engine.py and   *)
(* the action policy it calls, decide_revise_action and                    *)
(* resolve_invalid_revise_action of revise/pnp/policy.py.                  *)
(*                                                                         *)
(* One behaviour is one call of run_sample.  Each round shows some frames  *)
(* of a video and asks a model for one action: an answer, or a summary and *)
(* a request for frames to see next.  A turn the policy rejects is retried *)
(* within a per-round budget and then, by the configuration, ends the      *)
(* sample or is replaced by a frame plan of the program's own.             *)
(*                                                                         *)
(* The model is the environment: any output may come back from any call,   *)
(* and any call may raise.  The Dataset protocol (revise/pnp/protocols.py) *)
(* is the second group of constants; ReviseDatasets holds the values the   *)
(* adapters give them.                                                     *)
(*                                                                         *)
(* Abstractions.  Frame lists are sets: a plan never holds more than       *)
(* MaxFrames distinct frames (PlanFits), so the order that truncation      *)
(* would look at decides nothing; a first plan that repeats frames, on a   *)
(* video shorter than a round, counts each once.  A candidate list is      *)
(* always sorted, so a candidate ID is the rank of a frame in the set.     *)
(* Texts are the verdicts the policy's parsers reach on them.              *)
(***************************************************************************)
EXTENDS Integers, Sequences, FiniteSets, DatasetProtocol

\* LoopConfig: what the command line sets.
CONSTANTS
  MaxRounds,             \* max_rounds
  MaxFrames,             \* max_frames_per_round
  MaxRetries,            \* max_retries_per_round
  MinSelectRounds,       \* min_select_rounds, as given
  Strict,                \* strict_actions
  ForceFinalAnswer,      \* force_final_answer
  AnswerOnlyFinalRound,  \* answer_only_final_round
  UseCandidates,         \* use_candidate_frames
  UseCandidateIds,       \* use_candidate_frame_ids
  RequireCandidates      \* require_candidate_frames

\* The Dataset protocol: what the adapter in use answers.
CONSTANTS
  FrameCount,            \* frame_count: length of the timeline, 0 if unknown
  InitialFrames,         \* initial_frame_indices
  FallbackFrames,        \* fallback_frame_indices with k = 1
  CandidatePools(_),     \* candidate_frame_indices: the possible pools, given seen
  UnseenSamples(_),      \* sample_unseen_frames: the possible samples, given seen
  NotRetryable,          \* reasons should_retry_invalid_output refuses
  CountedExhausted,      \* reasons should_count_exhausted_invalid_as_retry accepts
  ClearsPlan,            \* reasons should_clear_frame_plan_on_exhausted_invalid accepts
  SummaryChecked,        \* is_select_summary_valid looks at the text
  StaleChecked,          \* is_summary_stale looks at the text
  RangeChecked,          \* select_has_range_syntax looks at the text
  CarrySummary           \* should_commit_summary accepts what a valid select says

\* The model's vocabulary.
CONSTANTS
  Letters,               \* the option letters of the question
  NoLetter,              \* no answer
  RequestNumbers         \* the integers the model may write inside <select>

\* Every reason the policy rejects a turn for, in the order of its checks.
Reasons == {"invalid_paper_protocol", "invalid_answer_letter",
            "early_answer_disallowed", "final_select_disallowed",
            "invalid_select_summary", "stale_select_summary",
            "frames_range_syntax", "invalid_frames", "frames_out_of_range",
            "frames_not_in_candidates", "empty_frames", "frames_already_seen",
            "too_many_frames"}

\* Every frame the adapter in use may propose.
Frames == FramesOf(FrameCount, InitialFrames, FallbackFrames)

ASSUME ConfigAssumption ==
  /\ MaxRounds \in Nat \ {0}
  /\ MaxFrames \in Nat \ {0}
  /\ MaxRetries \in Nat
  /\ MinSelectRounds \in Nat
  /\ {Strict, ForceFinalAnswer, AnswerOnlyFinalRound, UseCandidates,
      UseCandidateIds, RequireCandidates} \subseteq BOOLEAN

ASSUME VocabularyAssumption ==
  /\ RequestNumbers \subseteq Nat
  /\ IsFiniteSet(RequestNumbers)
  /\ NoLetter \notin Letters

\* What the loop relies on from an adapter.
ASSUME DatasetAssumption ==
  /\ DatasetContract(FrameCount, MaxFrames, InitialFrames, FallbackFrames,
                     CandidatePools, UnseenSamples)
  /\ {SummaryChecked, StaleChecked, RangeChecked, CarrySummary} \subseteq BOOLEAN

-------------------------------------------------------------------------------
VARIABLES
  pc,            \* "round", "ask", "return", "done" or "raised"
  round,         \* round_idx: rounds begun
  retry,         \* retry_idx: retries spent in this round
  plan,          \* next_frames
  shown,         \* frames_this_round
  seen,          \* seen_frames
  pool,          \* candidate_next_frames
  summary,       \* the round whose <summarize> summary_state holds, 0 the initial text
  effective,     \* effective_rounds
  answer,        \* answer_letter
  answerFrames,  \* answer_frame_count
  reason,        \* terminated_reason, "none" while unset
  terminated,    \* terminated_invalid_action
  stats,         \* what this sample adds to RunStats
  log            \* the rows this sample appends to log_jsonl

planVars    == <<plan, shown, seen, pool>>
outcomeVars == <<summary, effective, answer, answerFrames, terminated>>
vars == <<pc, round, retry, planVars, outcomeVars, reason, stats, log>>

\* total_model_calls, invalid_outputs, total_retries, effective_rounds_total,
\* invalid_action_terminated, fallback_frames_used and total_rounds of RunStats.
Counters == {"calls", "invalid", "retries", "effective", "terminated",
             "fallbacks", "rounds"}

Init ==
  /\ pc = "round" /\ round = 0 /\ retry = 0
  /\ plan = InitialFrames
  /\ shown = {} /\ seen = {} /\ pool = {}
  /\ summary = 0 /\ effective = 0
  /\ answer = NoLetter /\ answerFrames = 0
  /\ reason = "none" /\ terminated = FALSE
  /\ stats = [c \in Counters |-> 0]
  /\ log = << >>

-------------------------------------------------------------------------------
(* What the model may say, as the parsers classify it. *)

Malformed == [form : {"malformed"}]
Answers   == [form : {"answer"}, letter : Letters \cup {NoLetter}]
Bodies    == [syntax : {"list"}, numbers : (SUBSET RequestNumbers) \ {{}}]
               \cup [syntax : {"range", "garbage"}, numbers : {{}}]
Selects   == [form : {"select"}, summary : {"meaningful", "placeholder", "stale"},
              body : Bodies]
Outputs   == Malformed \cup Answers \cup Selects

(* A candidate ID is the place of a frame in the sorted pool. *)
Rank(f, P) == Cardinality({g \in P : g <= f})
ByRank(ids, P) == {f \in P : Rank(f, P) \in ids}
Smallest(k, P) == {f \in P : Rank(f, P) <= k}

UsesIds == UseCandidateIds /\ pool # {}

(* The frames a select asks for. *)
Requested(o) == IF UsesIds THEN ByRank(o.body.numbers, pool) ELSE o.body.numbers

(* engine.py clamps the configured minimum so that the last round may answer. *)
MinSelect == IF MinSelectRounds <= MaxRounds - 1 THEN MinSelectRounds ELSE MaxRounds - 1

MustAnswerLate == ForceFinalAnswer /\ round > MaxRounds   \* seeded fault
MustAnswer == ForceFinalAnswer /\ round >= MaxRounds

-------------------------------------------------------------------------------
(* decide_revise_action: checks in the order of the code, each a pair of   *)
(* the condition under which it rejects and the reason it gives.           *)

AnswerChecks(o) == <<
  <<o.letter \notin Letters, "invalid_answer_letter">>,
  <<effective < MinSelect, "early_answer_disallowed">>,
  <<AnswerOnlyFinalRound /\ round < MaxRounds, "early_answer_disallowed">> >>

UnknownIdFromZero(o) ==   \* seeded fault: IDs count from zero
  UsesIds /\ ~(o.body.numbers \subseteq 0 .. Cardinality(pool))
UnknownId(o) == UsesIds /\ ~(o.body.numbers \subseteq 1 .. Cardinality(pool))

OffCandidates(o) ==
  ~UsesIds /\ RequireCandidates /\ pool # {} /\ ~(o.body.numbers \subseteq pool)

SeenAgainAll(o) == Requested(o) \subseteq seen   \* seeded fault: all, not any
SeenAgain(o) == Requested(o) \cap seen # {}

SelectChecks(o) == <<
  <<MustAnswer, "final_select_disallowed">>,
  <<SummaryChecked /\ o.summary = "placeholder", "invalid_select_summary">>,
  <<StaleChecked /\ o.summary = "stale" /\ seen # {}, "stale_select_summary">>,
  <<~UseCandidateIds /\ RangeChecked /\ o.body.syntax = "range", "frames_range_syntax">>,
  <<o.body.syntax # "list", "invalid_frames">>,
  <<UnknownId(o), "frames_out_of_range">>,
  <<OffCandidates(o), "frames_not_in_candidates">>,
  <<Requested(o) = {}, "empty_frames">>,
  <<SeenAgain(o), "frames_already_seen">>,
  <<Cardinality(Requested(o)) > MaxFrames, "too_many_frames">>,
  <<~(Requested(o) \subseteq 0 .. FrameCount - 1), "frames_out_of_range">> >>

Checks(o) ==
  IF o.form = "answer" THEN AnswerChecks(o)
  ELSE IF o.form = "select" THEN SelectChecks(o)
  ELSE << <<TRUE, "invalid_paper_protocol">> >>

Rejecting(o) == LET checks == Checks(o) IN {i \in DOMAIN checks : checks[i][1]}
Accepted(o)  == Rejecting(o) = {}

(* The reason given is the first that applies. *)
ReasonFor(o) ==
  LET rejecting == Rejecting(o)
  IN Checks(o)[CHOOSE i \in rejecting : \A j \in rejecting : i <= j][2]

(* should_retry_revise_invalid_output *)
MayRetryOnceMore(why) == why \notin NotRetryable /\ retry <= MaxRetries   \* seeded fault
MayRetry(why) == why \notin NotRetryable /\ retry < MaxRetries

(* resolve_invalid_revise_action *)
Resolution(why) ==
  IF MayRetry(why) THEN "retry"
  ELSE IF Strict THEN "terminate"
  ELSE IF why \in ClearsPlan THEN "clear_frame_plan"
  ELSE "fallback"

-------------------------------------------------------------------------------
(* One round: what is shown, and what is offered to be shown next. *)

(* The plan's frames not seen before, or the fallback, cut to the budget. *)
FramesToShow ==
  LET fresh == plan \ seen
      base  == IF fresh = {} THEN FallbackFrames ELSE fresh
  IN {F \in SUBSET base : /\ Cardinality(F) <= MaxFrames
                          /\ F = base \/ Cardinality(F) = MaxFrames}

Offers(s) == IF UseCandidates THEN CandidatePools(s) ELSE {{}}

SeenOnly(F) == F   \* seeded fault: the round's frames replace what was seen
SeenWith(F) == seen \cup F

BeginRound ==
  /\ pc = "round" /\ round < MaxRounds
  /\ \E F \in FramesToShow :
       /\ shown' = F
       /\ seen' = SeenWith(F)
       /\ \E P \in Offers(SeenWith(F)) : pool' = P
  /\ round' = round + 1
  /\ retry' = 0
  /\ pc' = "ask"
  /\ UNCHANGED <<plan, outcomeVars, reason, stats, log>>

(* The video cannot be probed, no frame can be read, or the request fails:  *)
(* the exception leaves run_sample, and what the sample counted stays.      *)
Raise ==
  /\ pc = "ask" \/ (pc = "round" /\ round = 0)
  /\ pc' = "raised"
  /\ UNCHANGED <<round, retry, planVars, outcomeVars, reason, stats, log>>

-------------------------------------------------------------------------------
(* One turn: backend.chat answers, the turn is counted and logged, and the  *)
(* decision is carried out.                                                 *)

Bump(counters) == [c \in Counters |-> IF c \in counters THEN stats[c] + 1 ELSE stats[c]]

Row(kind, request) == [round |-> round, retry |-> retry, kind |-> kind,
                       request |-> request, shown |-> shown]

Turn(kind, request, counters) ==
  /\ pc = "ask"
  /\ stats' = Bump({"calls"} \cup counters)
  /\ log' = Append(log, Row(kind, request))
  /\ UNCHANGED <<round, shown, seen, pool>>

AnswerTurnGoesOn(o) ==   \* seeded fault: the round loop does not break
  /\ o \in Answers /\ Accepted(o)
  /\ Turn("answer", {}, {})
  /\ answer' = o.letter
  /\ answerFrames' = Cardinality(shown)
  /\ pc' = "round"
  /\ UNCHANGED <<retry, plan, summary, effective, terminated, reason>>

AnswerTurn(o) ==
  /\ o \in Answers /\ Accepted(o)
  /\ Turn("answer", {}, {})
  /\ answer' = o.letter
  /\ answerFrames' = Cardinality(shown)
  /\ pc' = "return"
  /\ UNCHANGED <<retry, plan, summary, effective, terminated, reason>>

SelectTurnUncounted(o) ==   \* seeded fault: the round is not counted as effective
  /\ o \in Selects /\ Accepted(o)
  /\ Turn("select", Requested(o), {"effective"})
  /\ summary' = IF CarrySummary THEN round ELSE summary
  /\ plan' = Requested(o)
  /\ pc' = "round"
  /\ UNCHANGED <<effective, retry, answer, answerFrames, terminated, reason>>

SelectTurn(o) ==
  /\ o \in Selects /\ Accepted(o)
  /\ Turn("select", Requested(o), {"effective"})
  /\ summary' = IF CarrySummary THEN round ELSE summary
  /\ plan' = Requested(o)
  /\ effective' = effective + 1
  /\ pc' = "round"
  /\ UNCHANGED <<retry, answer, answerFrames, terminated, reason>>

(* A rejected turn matters by its reason alone.  It is counted, and its      *)
(* reason kept.                                                              *)
Rejections == {ReasonFor(o) : o \in {x \in Outputs : ~Accepted(x)}}

InvalidTurnLate(why, counters) ==   \* seeded fault: counted only when not retried
  /\ Turn("invalid", {}, IF "retries" \in counters THEN counters ELSE {"invalid"} \cup counters)
  /\ reason' = why
  /\ UNCHANGED <<summary, effective, answerFrames>>

InvalidTurnCommits(why, counters) ==   \* seeded fault: keeps the rejected summary
  /\ Turn("invalid", {}, {"invalid"} \cup counters)
  /\ reason' = why /\ summary' = round
  /\ UNCHANGED <<effective, answerFrames>>

InvalidTurn(why, counters) ==
  /\ Turn("invalid", {}, {"invalid"} \cup counters)
  /\ reason' = why
  /\ UNCHANGED <<summary, effective, answerFrames>>

RetryTurn(why) ==
  /\ Resolution(why) = "retry"
  /\ InvalidTurn(why, {"retries"})
  /\ retry' = retry + 1
  /\ UNCHANGED <<pc, plan, answer, terminated>>

(* What a rejected turn that is not retried counts beside itself. *)
AsRetry(why) == IF why \in CountedExhausted THEN {"retries"} ELSE {}

TerminateTurn(why) ==
  /\ Resolution(why) = "terminate"
  /\ InvalidTurn(why, {"terminated"} \cup AsRetry(why))
  /\ terminated' = TRUE
  /\ answer' = NoLetter
  /\ pc' = "return"
  /\ UNCHANGED <<retry, plan>>

ClearPlanTurn(why) ==
  /\ Resolution(why) = "clear_frame_plan"
  /\ InvalidTurn(why, AsRetry(why))
  /\ plan' = {}
  /\ pc' = "round"
  /\ UNCHANGED <<retry, answer, terminated>>

(* The program's own choice: the first candidates, or unseen frames. *)
OwnPlansUncut ==   \* seeded fault: every candidate
  LET requests == IF pool # {} THEN {pool} ELSE UnseenSamples(seen)
  IN {IF R # {} THEN R ELSE FallbackFrames : R \in requests}

OwnPlans ==
  LET requests == IF pool # {} THEN {Smallest(MaxFrames, pool)} ELSE UnseenSamples(seen)
  IN {IF R # {} THEN R ELSE FallbackFrames : R \in requests}

FallbackTurn(why) ==
  /\ Resolution(why) = "fallback"
  /\ InvalidTurn(why, {"fallbacks"} \cup AsRetry(why))
  /\ plan' \in OwnPlans
  /\ pc' = "round"
  /\ UNCHANGED <<retry, answer, terminated>>

(* An answer, a termination or the end of the last round. *)
FinishOnReturn ==   \* seeded fault: running out of rounds is no exit
  /\ pc = "return"
  /\ stats' = [stats EXCEPT !["rounds"] = @ + round]
  /\ pc' = "done"
  /\ UNCHANGED <<round, retry, planVars, outcomeVars, reason, log>>

Finish ==
  /\ pc = "return" \/ (pc = "round" /\ round = MaxRounds)
  /\ stats' = [stats EXCEPT !["rounds"] = @ + round]
  /\ pc' = "done"
  /\ UNCHANGED <<round, retry, planVars, outcomeVars, reason, log>>

Ask ==
  /\ pc = "ask"
  /\ \/ \E o \in Outputs : AnswerTurn(o) \/ SelectTurn(o)
     \/ \E why \in Rejections : \/ RetryTurn(why) \/ TerminateTurn(why)
                                \/ ClearPlanTurn(why) \/ FallbackTurn(why)

Next == BeginRound \/ Raise \/ Ask \/ Finish

(* One thread runs the sample, and a request ends or raises by its timeout. *)
Spec == Init /\ [][Next]_vars /\ WF_vars(Next)

-------------------------------------------------------------------------------
Rows == [round : 1 .. MaxRounds, retry : 0 .. MaxRetries,
         kind : {"invalid", "answer", "select"},
         request : SUBSET Frames, shown : SUBSET Frames]

(* The types, and the ranges of the loop's counters: rounds and retries stay *)
(* within the configuration, and no frame is shown or planned that the       *)
(* timeline, the initial plan or the fallback does not have.                 *)
TypeOK ==
  /\ pc \in {"round", "ask", "return", "done", "raised"}
  /\ round \in 0 .. MaxRounds /\ retry \in 0 .. MaxRetries
  /\ plan \subseteq Frames /\ shown \subseteq Frames /\ seen \subseteq Frames
  /\ pool \subseteq Frames
  /\ summary \in 0 .. MaxRounds /\ effective \in 0 .. MaxRounds
  /\ answer \in Letters \cup {NoLetter} /\ answerFrames \in 0 .. MaxFrames
  /\ reason \in Reasons \cup {"none"} /\ terminated \in BOOLEAN
  /\ stats \in [Counters -> Nat]
  /\ log \in Seq(Rows)

RowsOf(kind) == {i \in DOMAIN log : log[i].kind = kind}
Retried == {i \in RowsOf("invalid") : i < Len(log) /\ log[i + 1].round = log[i].round}

(* The summary counters and the log agree: one row per model call, one       *)
(* invalid row per rejected turn, one select row per effective round; a turn *)
(* asked again is a retry, and no turn is counted as a retry twice.          *)
StatsMatchLog ==
  /\ stats["calls"] = Len(log)
  /\ stats["invalid"] = Cardinality(RowsOf("invalid"))
  /\ stats["effective"] = Cardinality(RowsOf("select"))
  /\ stats["effective"] = effective
  /\ Cardinality(Retried) <= stats["retries"] /\ stats["retries"] <= stats["invalid"]
  /\ stats["terminated"] + stats["fallbacks"] <= stats["invalid"] - Cardinality(Retried)

(* The log of a sample reads as a sequence of rounds: it starts with the     *)
(* first, a row follows an invalid row of its round with the next retry      *)
(* number, or opens the next round, and nothing follows an answer.           *)
AttemptsInOrder ==
  /\ Len(log) > 0 => log[1].round = 1 /\ log[1].retry = 0
  /\ \A i \in 2 .. Len(log) :
       \/ /\ log[i].round = log[i - 1].round
          /\ log[i].retry = log[i - 1].retry + 1
          /\ log[i].shown = log[i - 1].shown
          /\ log[i - 1].kind = "invalid"
       \/ /\ log[i].round = log[i - 1].round + 1
          /\ log[i].retry = 0
          /\ log[i - 1].kind # "answer"

(* An accepted select is carried out as asked: the next call shows exactly   *)
(* the requested frames, none of them dropped, truncated or replaced.        *)
SelectHonoured ==
  \A i \in 1 .. Len(log) - 1 :
    log[i].kind = "select" => log[i + 1].shown = log[i].request

(* Rounds show new evidence: no frame of an earlier round comes back, except *)
(* as the fallback of a loop that plans for the model, which a strict loop   *)
(* never does.                                                               *)
FreshEvidence ==
  \A i, j \in DOMAIN log : log[i].round < log[j].round =>
    \/ log[i].shown \cap log[j].shown = {}
    \/ ~Strict /\ log[j].shown = FallbackFrames

(* The plan fits the round it is for, so cutting it to the budget drops      *)
(* nothing, whoever made it: the model, the candidates or the dataset.       *)
PlanFits == Cardinality(plan) <= MaxFrames

(* The last round can be won: in the round where the model may be told that  *)
(* it must answer now (final_answer_instruction), every letter of the        *)
(* question is accepted.                                                     *)
FinalRoundAnswerable ==
  pc = "ask" /\ round = MaxRounds =>
    \A l \in Letters : Accepted([form |-> "answer", letter |-> l])

(* Some turn is acceptable whenever the model is asked for one: what the     *)
(* retry feedback asks for is possible.                                      *)
SomeTurnAccepted == pc = "ask" => \E o \in Outputs : Accepted(o)

(* The outcome returned is the one the log tells: a letter only from an      *)
(* accepted last row, termination only from a strict rejection, and frame    *)
(* and round counts of that row.                                             *)
LogTellsOutcome ==
  pc = "done" =>
    LET last == log[Len(log)]
    IN /\ (answer # NoLetter) = (last.kind = "answer")
       /\ terminated = (Strict /\ last.kind = "invalid")
       /\ answerFrames = IF last.kind = "answer" THEN Cardinality(last.shown) ELSE 0
       /\ last.round = round /\ stats["rounds"] = round

(* The memory the model is given is the one it last wrote in an accepted     *)
(* select, whatever it said in turns rejected since.                         *)
MemoryFollowsSelects ==
  pc = "ask" /\ CarrySummary =>
    /\ \A i \in RowsOf("select") : log[i].round <= summary
    /\ summary # 0 => \E i \in RowsOf("select") : log[i].round = summary

(* With candidates on offer, an accepted select names one candidate per      *)
(* number it gives: no number is ignored and no other frame gets in.         *)
CandidatesOnly ==
  [][\A o \in Selects :
       SelectTurn(o) /\ pool # {} /\ (UseCandidateIds \/ RequireCandidates) =>
         /\ plan' \subseteq pool
         /\ Cardinality(plan') = Cardinality(o.body.numbers)]_vars

(* Every sample ends: it returns or raises, within its rounds and retries.   *)
EpisodeEnds == <>(pc \in {"done", "raised"})

(* The loop implements the bounded conversation of ReviseEpisode.            *)
Phase == [round |-> "between", ask |-> "asking", return |-> "concluded",
          done |-> "closed", raised |-> "aborted"][pc]

Episode == INSTANCE ReviseEpisode WITH
  Glances <- {F \in SUBSET Frames : Cardinality(F) <= MaxFrames},
  MaxLooks <- MaxRounds, Retries <- MaxRetries,
  Verdicts <- Letters, NoVerdict <- NoLetter,
  phase <- Phase, looks <- round, tries <- retry, evidence <- seen,
  calls <- stats["calls"], verdict <- answer

ImplementsEpisode == Episode!Spec

(* Seen from outside, a round is over once its last turn is; a sample that   *)
(* was terminated or has used its rounds is over when run_sample returns.    *)
RoundsOver == IF pc = "ask" \/ (pc = "raised" /\ round > 0) THEN round - 1 ELSE round
Returned == pc \in {"done", "raised"} \/ (pc = "return" /\ answer # NoLetter)
Result == IF ~Returned THEN "none"
          ELSE IF pc = "raised" THEN "raised"
          ELSE IF answer # NoLetter THEN answer
          ELSE IF terminated THEN "terminated" ELSE "exhausted"

FromOutside == INSTANCE SampleRun WITH
  Answers <- Letters,
  status <- IF Returned THEN "returned" ELSE "running",
  round <- RoundsOver, outcome <- Result

(* The loop is what the harness takes it for, for which a sample ends in one *)
(* way only: answered in its last round, terminated by strict actions, out   *)
(* of rounds or raised; a strict sample that must answer is never just out   *)
(* of rounds.                                                                *)
ImplementsSampleRun == FromOutside!Spec

(* The cost of a sample at any moment: calls answered and frames shown are   *)
(* within what the rounds begun allow.                                       *)
WithinBudget ==
  /\ stats["calls"] <= round * (MaxRetries + 1)
  /\ Cardinality(seen) <= round * MaxFrames

=============================================================================
