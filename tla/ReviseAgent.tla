------------------------------ MODULE ReviseAgent ------------------------------
(***************************************************************************)
(* The REVISE loop as a rollout for training: ReviseAgentLoop.run of       *)
(* verl/experimental/agent_loop/revise_agent_loop.py, and the conversion   *)
(* of its record by revise/pnp/trajectory.py.                              *)
(*                                                                         *)
(* One behaviour is one call of run.  What the policy makes of a reply is  *)
(* ReviseLoop's subject; here it is one of answer, select of some frames   *)
(* or invalid.  This loop adds what training needs: a token budget for the *)
(* whole conversation, images that may not fit, three lists that grow      *)
(* together (tokens, mask, log-probabilities), and a confidence margin per *)
(* round which the reward (verl/utils/reward_score/                        *)
(* eager_videoqa_paper.py) pairs with the actions.                         *)
(*                                                                         *)
(* Abstractions.  Frames are counted.  A token of a reply, of an           *)
(* observation (text and images of a new round) or of a feedback is named  *)
(* by its kind.  The lengths of texts are constants.  A reply may have any *)
(* length up to MaxReply, none included: run passes no max_new_tokens to   *)
(* the server, and what a server goes by instead differs (vLLM caps by the *)
(* configured max_new_tokens, SGLang and TRT-LLM by response_length).      *)
(***************************************************************************)
EXTENDS Integers, Sequences

CONSTANTS
  MaxRounds,             \* max_rounds
  MaxFrames,             \* max_frames_per_round
  MaxVision,             \* max_vision_inputs
  MaxRetries,            \* max_retries_per_round
  MinSelectRounds,       \* min_select_rounds, as clamped
  Strict,                \* terminate_on_invalid_action
  ForceFinalAnswer,      \* force_final_answer
  AnswerOnlyFinalRound,  \* answer_only_final_round
  ComputeMargins,        \* compute_margins, and the correct letter is known
  MaxNewTokens,          \* max_new_tokens: response_length where it is not set
  MaxReply,              \* the longest reply the server gives
  MaxModelLen,           \* max_model_len
  ResponseLength,        \* response_length
  PromptRoom,            \* the 32 tokens kept free in a prompt
  ResponseRoom,          \* the 16 tokens kept free in the response

  FrameCount,            \* frames of the video
  TextTokens,            \* tokens of the text of a prompt or an observation
  ImageTokens,           \* tokens of an image
  FeedbackTokens         \* tokens of a feedback message

ASSUME AgentAssumption ==
  /\ {MaxRounds, MaxFrames, MaxNewTokens, ResponseLength, TextTokens, ImageTokens,
      FeedbackTokens} \subseteq Nat \ {0}
  /\ {MaxVision, MaxRetries, MinSelectRounds, MaxReply, MaxModelLen, PromptRoom,
      ResponseRoom, FrameCount} \subseteq Nat
  /\ MinSelectRounds < MaxRounds
  /\ {Strict, ForceFinalAnswer, AnswerOnlyFinalRound, ComputeMargins} \subseteq BOOLEAN

VARIABLES
  pc,           \* "round", "ask", "finish", "done", "mismatch" or "raised"
  round,        \* num_rounds
  retriesLeft,  \* retries_left
  effective,    \* effective_rounds
  seen,         \* len(seen_frames)
  prompt,       \* what generation_prompt_ids holds: images and feedback
  record,       \* trajectory_prompt_ids, response_mask and response_logprobs
  scored,       \* every reply so far that has tokens came with log-probabilities
  dropped,      \* a select was accepted and not carried out
  margins,      \* the round each margin was computed in
  actions,      \* the round and kind of each action
  illegal,      \* terminated_invalid_action
  output        \* the lists of the AgentLoopOutput

countVars == <<round, retriesLeft, effective, seen>>
vars == <<pc, countVars, prompt, record, scored, dropped, margins, actions, illegal, output>>

Least(m, n) == IF m <= n THEN m ELSE n

PromptTokens(p) ==
  TextTokens + p.images * ImageTokens + (IF p.feedback THEN FeedbackTokens ELSE 0)

(* max_prompt_len *)
MaxPromptLen ==
  LET left == MaxModelLen - (MaxNewTokens + PromptRoom) IN IF left > 0 THEN left ELSE 0

(* Images are dropped from the end until the first prompt leaves room.  *)
FirstImages ==
  LET offered == Least(Least(MaxFrames, FrameCount), MaxVision)
      fitting == {k \in 0 .. offered : PromptTokens([images |-> k, feedback |-> FALSE]) <= MaxPromptLen}
  IN IF fitting = {} THEN 0 ELSE CHOOSE k \in fitting : \A j \in fitting : j <= k

NoRecord == [ids |-> << >>, mask |-> << >>, logprobs |-> << >>]

Init ==
  /\ pc = "round" /\ round = 0 /\ retriesLeft = 0 /\ effective = 0
  /\ seen = FirstImages
  /\ prompt = [images |-> FirstImages, feedback |-> FALSE]
  /\ record = NoRecord /\ scored = TRUE /\ dropped = FALSE
  /\ margins = << >> /\ actions = << >>
  /\ illegal = FALSE
  /\ output = NoRecord

-------------------------------------------------------------------------------
(* The record.  A log-probability is named by the place of its token.      *)

Times(n, x) == [i \in 1 .. n |-> x]

(* A generated reply; the server may leave its log-probabilities out.      *)
WithReply(r, n, given) ==
  [ids |-> r.ids \o Times(n, "reply"),
   mask |-> r.mask \o Times(n, 1),
   logprobs |-> IF given THEN r.logprobs \o [i \in 1 .. n |-> Len(r.ids) + i]
                ELSE r.logprobs]

(* What the program adds is not trained on, and padded only in a list that *)
(* has been begun.                                                         *)
WithObservation(r, kind, n) ==
  [ids |-> r.ids \o Times(n, kind),
   mask |-> r.mask \o Times(n, 0),
   logprobs |-> IF r.logprobs = << >> THEN << >> ELSE r.logprobs \o Times(n, 0)]

WithFeedbackUnpadded(r) ==   \* seeded fault: the log-probabilities are not padded
  [WithObservation(r, "feedback", FeedbackTokens) EXCEPT !.logprobs = r.logprobs]
WithFeedback(r) == WithObservation(r, "feedback", FeedbackTokens)

-------------------------------------------------------------------------------
BeginRound ==
  /\ pc = "round" /\ round < MaxRounds
  /\ round' = round + 1
  /\ IF PromptTokens(prompt) >= MaxModelLen
       THEN pc' = "finish" /\ UNCHANGED <<margins, retriesLeft>>
       ELSE /\ pc' = "ask"
            /\ margins' = IF ComputeMargins THEN Append(margins, round') ELSE margins
            /\ retriesLeft' = MaxRetries
  /\ UNCHANGED <<effective, seen, prompt, record, scored, dropped, actions, illegal, output>>

(* server_manager.generate raises: the rollout ends with what it has.      *)
GenerateFails ==
  /\ pc = "ask"
  /\ pc' = "finish"
  /\ UNCHANGED <<countVars, prompt, record, scored, dropped, margins, actions, illegal, output>>

LastRound == round >= MaxRounds
MayAnswer == effective >= MinSelectRounds /\ (AnswerOnlyFinalRound => LastRound)
MaySelect == ~(ForceFinalAnswer /\ LastRound)

Replied(n, given) ==
  /\ pc = "ask"
  /\ scored' = (scored /\ (given \/ n = 0))
  /\ UNCHANGED <<round, output>>

AnswerTurn(n, given) ==
  /\ MayAnswer
  /\ Replied(n, given)
  /\ record' = WithReply(record, n, given)
  /\ actions' = Append(actions, [kind |-> "answer", round |-> round])
  /\ pc' = "finish"
  /\ UNCHANGED <<retriesLeft, effective, seen, prompt, dropped, margins, illegal>>

(* A rejected reply is retried with feedback while the round's budget       *)
(* lasts; then the rollout ends, as an illegal action if actions are strict. *)
RetryTurnScored(n, given) ==   \* seeded fault: a margin per attempt
  /\ retriesLeft > 0
  /\ Replied(n, given)
  /\ record' = WithFeedback(WithReply(record, n, given))
  /\ retriesLeft' = retriesLeft - 1
  /\ prompt' = [prompt EXCEPT !.feedback = TRUE]
  /\ margins' = IF ComputeMargins THEN Append(margins, round) ELSE margins
  /\ UNCHANGED <<pc, effective, seen, dropped, actions, illegal>>

RetryTurn(n, given) ==
  /\ retriesLeft > 0
  /\ Replied(n, given)
  /\ record' = WithFeedback(WithReply(record, n, given))
  /\ retriesLeft' = retriesLeft - 1
  /\ prompt' = [prompt EXCEPT !.feedback = TRUE]
  /\ UNCHANGED <<pc, effective, seen, dropped, margins, actions, illegal>>

RejectTurn(n, given) ==
  /\ retriesLeft = 0
  /\ Replied(n, given)
  /\ record' = WithReply(record, n, given)
  /\ illegal' = Strict
  /\ pc' = "finish"
  /\ UNCHANGED <<retriesLeft, effective, seen, prompt, dropped, margins, actions>>

(* The next round with k images fits: its prompt leaves room to answer, and  *)
(* the response so far with its observation and one more reply stays within  *)
(* response_length.                                                          *)
FitsPrompt(used, k) ==   \* seeded fault: the response budget is not looked at
  PromptTokens([images |-> k, feedback |-> FALSE]) <= MaxPromptLen

Fits(used, k) ==
  /\ PromptTokens([images |-> k, feedback |-> FALSE]) <= MaxPromptLen
  /\ used + TextTokens + k * ImageTokens + MaxNewTokens + ResponseRoom <= ResponseLength

(* How many of the requested frames fit in.                                  *)
Fitting(used, frames) == {k \in 1 .. Least(frames, MaxVision) : Fits(used, k)}

SelectTurn(frames, n, given) ==
  /\ MaySelect /\ frames <= FrameCount - seen
  /\ Replied(n, given)
  /\ LET replied == WithReply(record, n, given)
         fitting == Fitting(Len(replied.mask), frames)
     IN /\ fitting # {}
        /\ \E k \in fitting :
             /\ \A j \in fitting : j <= k
             /\ seen' = seen + k
             /\ prompt' = [images |-> k, feedback |-> FALSE]
             /\ record' = WithObservation(replied, "observation", TextTokens + k * ImageTokens)
  /\ effective' = effective + 1
  /\ actions' = Append(actions, [kind |-> "select", round |-> round])
  /\ pc' = "round"
  /\ UNCHANGED <<retriesLeft, dropped, margins, illegal>>

(* The frames of an accepted select cannot be read from the video: the error *)
(* leaves run, and the rollout has no record.                                *)
ExtractFails(frames, n, given) ==
  /\ MaySelect /\ frames <= FrameCount - seen /\ MaxVision > 0
  /\ Replied(n, given)
  /\ record' = WithReply(record, n, given)
  /\ pc' = "raised"
  /\ UNCHANGED <<retriesLeft, effective, seen, prompt, dropped, margins, actions, illegal>>

(* No image is allowed or none fits: the model is asked to answer, with the  *)
(* old frames, in the next round.  The feedback enters the record only if a  *)
(* retry is left.                                                            *)
DropTurn(frames, n, given) ==
  /\ MaySelect /\ frames <= FrameCount - seen
  /\ Replied(n, given)
  /\ LET replied == WithReply(record, n, given)
     IN /\ Fitting(Len(replied.mask), frames) = {}
        /\ record' = IF retriesLeft > 0 THEN WithFeedback(replied) ELSE replied
  /\ retriesLeft' = IF retriesLeft > 0 THEN retriesLeft - 1 ELSE 0
  /\ prompt' = [prompt EXCEPT !.feedback = TRUE]
  /\ dropped' = TRUE
  /\ pc' = "round"
  /\ UNCHANGED <<effective, seen, margins, actions, illegal>>

RoundsRunOutLate ==   \* seeded fault: waits for one round more than there are
  /\ pc = "round" /\ round > MaxRounds
  /\ pc' = "finish"
  /\ UNCHANGED <<countVars, prompt, record, scored, dropped, margins, actions, illegal, output>>

RoundsRunOut ==
  /\ pc = "round" /\ round = MaxRounds
  /\ pc' = "finish"
  /\ UNCHANGED <<countVars, prompt, record, scored, dropped, margins, actions, illegal, output>>

(* build_revise_training_trajectory: lists of different length raise, log-   *)
(* probabilities that do not match the mask are left out, and what exceeds   *)
(* the response is cut.                                                      *)
Cut(s) == SubSeq(s, 1, Least(Len(s), ResponseLength))

Finish ==
  /\ pc = "finish"
  /\ IF Len(record.ids) # Len(record.mask)
       THEN pc' = "mismatch" /\ UNCHANGED output
       ELSE /\ pc' = "done"
            /\ output' =
                 [ids |-> Cut(record.ids), mask |-> Cut(record.mask),
                  logprobs |-> IF Len(record.logprobs) = Len(record.mask)
                                 THEN Cut(record.logprobs) ELSE << >>]
  /\ UNCHANGED <<countVars, prompt, record, scored, dropped, margins, actions, illegal>>

(* An empty reply is no answer and no select.                              *)
Turn(n, given) ==
  \/ RetryTurn(n, given) \/ RejectTurn(n, given)
  \/ n > 0 /\ AnswerTurn(n, given)
  \/ n > 0 /\ \E frames \in 1 .. MaxFrames :
       SelectTurn(frames, n, given) \/ DropTurn(frames, n, given) \/ ExtractFails(frames, n, given)

Next ==
  \/ BeginRound \/ GenerateFails \/ RoundsRunOut \/ Finish
  \/ \E n \in 0 .. MaxReply, given \in BOOLEAN : Turn(n, given)

(* The loop is one coroutine, and a generation returns or raises.            *)
Spec == Init /\ [][Next]_vars /\ WF_vars(Next)

-------------------------------------------------------------------------------
(* The reward pays a select in place t for margins[t + 1] - margins[t]: both *)
(* must belong to that select, as the state before it and the state after    *)
(* it.  They do as long as no select was dropped; after that a margin is     *)
(* left over in front of every later action, although the reward is told     *)
(* "actions ... aligned with margins" (eager_videoqa_paper.py:15-16).        *)
RewardAligned ==
  ComputeMargins /\ ~dropped =>
    /\ Len(actions) <= Len(margins) /\ Len(margins) <= Len(actions) + 1
    /\ \A t \in DOMAIN actions : margins[t] = actions[t].round
    /\ \A t \in DOMAIN actions :
         actions[t].kind = "select" /\ t < Len(margins) => margins[t + 1] = actions[t].round + 1

(* The record converts without an error, and the log-probabilities reach the *)
(* trainer exactly when every reply with tokens came with them and nothing   *)
(* went before the first of those (the feedback to an empty first reply      *)
(* would cost a rollout all of them); then each trained token has its own.   *)
LogprobsAligned ==
  /\ pc # "mismatch"
  /\ pc = "done" =>
       /\ (output.logprobs # << >>) = (scored /\ record.ids # << >> /\ record.ids[1] = "reply")
       /\ output.logprobs # << >> =>
            /\ Len(output.logprobs) = Len(output.ids)
            /\ \A i \in DOMAIN output.ids :
                 output.logprobs[i] = IF output.ids[i] = "reply" THEN i ELSE 0

(* The record ends in a reply of more than max_new_tokens tokens, or more    *)
(* than the whole response has.                                              *)
EndsInOverrun(ids) ==
  LET most == Least(MaxNewTokens, ResponseLength)
  IN Len(ids) > most /\ \A i \in Len(ids) - most .. Len(ids) : ids[i] = "reply"

(* Whatever the server's replies, response_length cuts no observation, so    *)
(* that images and their tokens stay together.  Anything else it cuts only   *)
(* after a feedback or a dropped select, or from a last reply that the       *)
(* server let run over max_new_tokens: the room kept behind each observation *)
(* is of that size.                                                          *)
CutsSpareObservations ==
  pc = "done" =>
    /\ \A i \in DOMAIN record.ids : record.ids[i] = "observation" => i \in DOMAIN output.ids
    /\ record.ids # output.ids =>
         \/ dropped \/ \E i \in DOMAIN record.ids : record.ids[i] = "feedback"
         \/ EndsInOverrun(record.ids)

(* "response_length is a padding/trajectory budget; generation is capped     *)
(* separately": a rollout whose first reply is a select has room for it.     *)
FirstSelectCarriedOut == [][record.ids = << >> /\ dropped' => dropped]_vars

(* Every rollout ends: with a record for the trainer, or with the error of   *)
(* a video that could not be read, and never by running out of turns to take. *)
RolloutEnds == <>(pc \in {"done", "raised"})
=============================================================================
