# Formal models of REVISE

TLA+ models of the REVISE program (SparseVideoUnderstanding): a multi-round video question
answerer that shows a language model a few frames at a time. Each round the model either answers
or writes a summary and asks for more frames; every reply goes through a strict action policy with
retries, termination and fallbacks. The repository runs that protocol twice, as a plug-and-play
evaluation loop (`revise/pnp`) and as an asynchronous agent for reinforcement learning
(`verl/experimental/agent_loop/revise_agent_loop.py`), inside a vendored copy of the verl framework.

Paths below are relative to `src/`.

## The system

| Part | Code | State | Operations | Talks to |
| --- | --- | --- | --- | --- |
| Plug-and-play loop | `revise/pnp/engine.py` | frame plan, frames seen, candidates, summary, effective rounds, outcome flags | `run_sample` | policy, dataset, backend, log, `RunStats` |
| Action policy | `revise/pnp/policy.py` | none | `decide_revise_action`, `resolve_invalid_revise_action`, feedback texts | parsers of `revise/pnp/utils.py` |
| Frame selection | `revise/pnp/utils.py` | none (an `rng` is passed in) | uniform and window samples, candidate proposal, intervals | adapters, prompts |
| Dataset adapters | `revise/datasets/*.py`, `revise/benchmarks/*.py` | loaded samples, `think_present` | the `Dataset` protocol of `revise/pnp/protocols.py` | files, decord |
| Evaluation harness | `revise/pnp/harness.py` | totals, `RunStats`, JSONL log, resume sets | shard, resume, run every sample, summarise | loop, adapters, log of an earlier run |
| Backends | `revise/backends/*.py` | a server process | `chat` with restart and one resend | vLLM, in-process model |
| RL agent loop | `verl/experimental/agent_loop/revise_agent_loop.py` | trajectory tokens and mask, margins, actions, retries left | one asynchronous episode | rollout servers, policy |
| Reward | `verl/utils/reward_score/eager_videoqa_paper.py` | none | scores a finished trajectory | agent loop's metadata |
| Load balancer | `verl/workers/rollout/llm_server.py` | in-flight counts, sticky cache, handles | acquire, release, add, remove | all agent loops, replicas |
| Rollout buffer | `verl/trainer/main_ppo_sync.py:190-484` | metadata of the transfer queue's rows, by partition | poll, add, sample, remove | trainer thread, poll thread, agent loop workers |
| Checkpoints | `verl/trainer/main_ppo_sync.py:730-845`, `verl/utils/checkpoint/*.py` | checkpoint folders, tracker file, paths saved so far | save, rotate, find the latest, load | every rank of actor and critic, the disk |
| Reward rate limiter | `verl/experimental/reward_loop/reward_manager/limited.py` | tokens, last update, semaphore | `acquire`, `run_single` | external judge |
| The rest | `scripts/`, `verl/` | | launching, reporting, training | |

### What is hard here, and what correctness means

* **The loop and its policy.** The model is adversarial in effect: any text can come back from any
  call. Ten configuration switches and six adapter hooks steer eleven ordered checks, four ways a
  rejection can end and two nested bounds. A request is checked in one round and carried out in
  the next. Correct means: the sample ends within its budgets; an accepted request is carried out
  exactly; new rounds show new frames; memory changes only by accepted turns; counters, log and
  outcome tell the same story; there is always something the model can do that is accepted,
  and in the last round an answer can.
* **Frame selection.** Off-by-ones at both ends of three kinds of range (exclusive, inclusive,
  window), halves rounded to even, and a proposal that must stay new near the end of a timeline.
* **The harness.** A crash between two rows of the log, and a resume that must neither lose nor
  count twice; the resume reconstructs from the log what the loop knew.
* **The agent loop.** Token, image and turn budgets that can run out between appending a prompt and
  its answer; lists that must stay aligned for the reward and the trainer.
* **The load balancer and the limiter.** Many clients, asynchronous releases, servers removed and
  added back while requests are out; sleepers that compute waits from a state that has moved on.
* **The rollout buffer.** Status and rows of a prompt take different ways to the trainer, a poll may
  bring back what was cleared, sessions fail while their siblings go on. Correct means: a sampled
  batch is whole and unmixed, its rows stay while they are used, and nothing piles up.
* **Checkpoints.** Several ranks write one checkpoint, several files make it resumable, old ones are
  removed on the way, and the job may die between any two of these steps and find what it left.

`PROJECT.json` lists each hazard at its line with the properties that watch it.

## Modules

| Module | What it is |
| --- | --- |
| `ReviseEpisode` | Abstract specification: a bounded conversation that looks, asks, and concludes at most once. |
| `SampleRun` | The interface between loop and harness: rounds that pass, and the one way in which a sample ends. |
| `DatasetProtocol` | The contract a dataset adapter owes the loop. |
| `ReviseLoop` | `run_sample` with its policy; properties; the refinement mappings to `ReviseEpisode` and `SampleRun`. |
| `ReviseFrames` | The pure frame-selection helpers as operators on sets. |
| `ReviseDatasets` | What the short- and long-video adapters answer to the loop, built from `ReviseFrames`. |
| `ReviseLoopMC` | Instances: `ReviseLoop` with the constants of an adapter taken from `ReviseDatasets`. |
| `ReviseFramesMC` | Enumerates timelines, seen sets and sizes, and states the reference definitions. |
| `ReviseLoopProofs` | Theorems about `ReviseLoop`, for all values of the constants: ranges, budgets, the last round, candidates, both refinements, and the log (order, requests, evidence, memory, outcome, counters). |
| `ReviseFramesProofs` | Theorems about samples, windows, candidates and intervals, for timelines of any length, and that the adapters meet `DatasetProtocol`. |
| `Evaluation` | Abstract specification: what a resumable evaluation promises about its samples. |
| `EvalHarness` | The four loops over samples across lives of the process, with crashes; properties; the mapping to `Evaluation`. |
| `EvalHarnessProofs` | Theorems about `EvalHarness`: the drivers that resume by sample ID, the NExT-QA score, the totals of all drivers. |
| `ReviseAgent` | One rollout of the training agent under its budgets: record, margins, actions, and the conversion for the trainer. |
| `ReviseAgentProofs` | Theorems about `ReviseAgent`. |
| `LoadBalancer` | The actor that gives turns their servers, its clients, and a pool that changes. |
| `LoadBalancerProofs` | Theorems about `LoadBalancer`. |
| `RolloutBuffer` | Trainer, workers, transfer queue, replay buffer and poll thread. |
| `RolloutBufferProofs` | Theorems about `RolloutBuffer`. |
| `DurableTraining` | Abstract specification: what checkpoints promise of a training that may die. |
| `Checkpoint` | Saving, rotating and resuming, over several lives of the job; the mapping to `DurableTraining`. |
| `CheckpointProofs` | Theorems about `Checkpoint`, the refinement included. |
| `NumberFacts` | One lemma both `ReviseLoopProofs` and `EvalHarnessProofs` use. |

The modules meet at narrow places. `EvalHarness` runs its samples by the actions of `SampleRun`, which `ReviseLoop` is shown to
implement; `ReviseLoop` assumes of its adapter the contract of `DatasetProtocol`, which the adapters of `ReviseDatasets` are shown to
meet. `ReviseAgent` takes from `ReviseLoop` what a turn can come to, `RolloutBuffer` takes from `ReviseAgent` that a rollout ends, with a record or an exception, and `LoadBalancer`
serves the `server_manager.generate` that `ReviseAgent` sees return or raise. `LoadBalancer`,
`RolloutBuffer`, `Checkpoint` and `EvalHarness` are checked directly, the loop and the helpers through
their MC modules.

### ReviseLoop and the code

One behaviour is one call of `run_sample`. Its constants are `LoopConfig` (the command line's
settings), the `Dataset` protocol (what the adapter in use answers) and the model's vocabulary.
The variables carry the names of the code's locals or say which local they are. `pc` is
where the thread is: at the top of the round loop, waiting in `backend.chat`, past the loop, returned,
or left by an exception.

| Action | Code |
| --- | --- |
| `BeginRound` | `engine.py:200-271`: filter the plan by what was seen, fall back if nothing is left, cut, mark as seen, propose candidates, reset the retries |
| `Ask` | one iteration of `engine.py:272-432`: the call, the decision, the log row, and exactly one of the next six |
| `AnswerTurn`, `SelectTurn` | an accepted turn (`engine.py:421-432`) |
| `RetryTurn`, `TerminateTurn`, `ClearPlanTurn`, `FallbackTurn` | the four resolutions of a rejected turn (`engine.py:371-419`) |
| `Raise` | probing, decoding or the request fails; the exception leaves `run_sample` |
| `Finish` | the two tests after the inner loop and the return (`engine.py:434-449`) |

`AnswerChecks` and `SelectChecks` are the policy's checks in the order of the code, as pairs of a
rejecting condition and its reason, and `ReasonFor` is the first that applies: the order matters
because retryability, counting and clearing depend on the reason. The
checks `frames_all_seen` and `missing_frames_tag` have no entry: the parser's two forms and the
`frames_already_seen` check before them leave no state in which they apply.

What is abstracted: texts are the verdicts the parsers reach on them (a summary is meaningful, a
placeholder or stale; a select body is a list of numbers, a range or garbage). Frame lists are
sets: truncation could only matter if a plan were longer than a round, which `PlanFits` rules out;
where a list is cut by its order (the candidate list, which is sorted) the cut is modelled. Random
draws are any of their outcomes. Captions and prompt wording are left out.

Operators marked `seeded fault` are not used by the specification. Each is the variant of the
definition after it that a plausible bug would give, kept so that every property can be
seen to fail when the code is wrong in the way the property is about.

### ReviseFrames and the code

Each operator is one helper, with the helper's early returns. `round` is `RoundHalfEven`. The uniform
sample divides two whole numbers once, which the exact fraction stands for: the quotient is a half exactly when the fraction is.
The window sample adds multiples of a floating-point step to its start (`linspace`), so what is a half exactly may come
out just above or below it: frames 0 to 29 in 15 places have 14.500000000000002, and frame 15, where exact arithmetic
and `round` give 14. `SampleWindows` is therefore the set of the samples in which each half goes either way;
everywhere else the error is far smaller than the distance to a half. `propose_candidate_frames` searches around the middle of a gap for
a free frame; `CandidatesAreNew` shows that the middle is always free, so `Middle` stands for the search.

### EvalHarness and the code

One behaviour is the evaluation of one shard, over as many starts of the process as `MaxLives`
allows. The log (`log_jsonl`) is the only variable a crash leaves alone. Seen from here a sample is
a number of rows and one of five outcomes: `OneSample` is an instance of `SampleRun`, whose actions are conjuncts of `Turn`, `Answer` and
`GiveUp`. `ReviseLoop` is the detail behind it (`ImplementsSampleRun`), with the letters of the question where the harness
tells right from wrong.

| Action | Code (`harness.py` unless named) |
| --- | --- |
| `Start` | the head of each driver: read the log (`Skipped`: what is left out; `Resumed`: the totals begun with) |
| `Take` | the top of the loop over samples |
| `Turn`, `Answer`, `GiveUp` | what `run_sample` does to the log, the outcome and the shared `RunStats` |
| `ConcludeNextqa` | `_run_nextqa` after a sample, its exception handler included (143-168) |
| `ConcludeEgoschema` | `_run_egoschema`: totals and the `done` row, written for failed samples too (348-421) |
| `ConcludeLong` | `_run_long_vllm` (571-605) and `_run_long_hf` (753-812), which differ in what they count when |
| `Summarise` | the summary after the loop |
| `Crash` | the process ends anywhere in a life; a row may be left half written (`torn`), and `Write` puts the next row behind it |

The three ways to resume are `Skipped`: by the samples with an accepted answer (NExT-QA), by those
with a `done` row (EgoSchema), by the *number* of samples with an answer (long video). Rows are
reduced to what the three readers look at: sample, kind, correctness, round, and whether the line parses.
The kind `claim` is a rejected turn whose text holds an answer all the same.

Two differences between the drivers are kept because the totals depend on them: `_run_long_hf` counts a sample
before it runs and starts `answered` at the number resumed, and it keeps a terminated-count of its own
beside the one in `RunStats`.

### ReviseAgent and the code

One behaviour is one call of `ReviseAgentLoop.run`. It shares the protocol with the plug-and-play loop but not
its bookkeeping: here a conversation has a token budget and an image budget, and what the trainer learns
from is a record of three lists (tokens, mask, log-probabilities). What the policy makes of a reply is `ReviseLoop`'s
subject, so a reply is an answer, a select of some frames, or invalid. Frames and tokens are counted, and a token is
named by its kind. A reply has any number of tokens up to `MaxReply`, none included: `run` passes the server no
`max_new_tokens`, and what a server goes by differs. vLLM caps by the configured `max_new_tokens` and can answer with nothing
(`vllm_async_server.py:512-515`); SGLang and TRT-LLM cap by `response_length` and the context
(`async_sglang_server.py:551-559`, `trtllm_async_server.py:325-330`), so a reply may run over `max_new_tokens`.

| Action | Code (`revise_agent_loop.py`) |
| --- | --- |
| `BeginRound` | 622-657: the length test of the prompt, the round's margin, the retries |
| `GenerateFails` | 668-671 |
| `AnswerTurn` | 732-737 |
| `RetryTurn`, `RejectTurn` | `_handle_invalid` (485-526) and what its callers do with it |
| `SelectTurn` | 739-896: as many of the frames as fit are shown, and the observation enters the record |
| `DropTurn` | the two places where no frame fits (742-881) |
| `ExtractFails` | `_extract_frames` raises (769, 174): the error leaves `run`, and there is no record. The first extraction (321) may raise too; that rollout is over before the first round, where a behaviour begins |
| `RoundsRunOut`, `Finish` | the end of the loop; `build_revise_training_trajectory` (`trajectory.py`) |

### LoadBalancer and the code

`GlobalRequestLoadBalancer` is a Ray actor, so each of its methods is one step: `Acquire` or `Refuse`
(`acquire_server`), `Release`, `AddServers`, `RemoveServers`. Its clients are `LLMServerClient.generate`: `Ask`
sends the call, `Done` is the `finally` clause, which sends the release without waiting for it (`owed`). Calls
of one client arrive in order, those of different clients in any. `since` is the order of the LRU cache: the conversations
served after this one.

### RolloutBuffer and the code

Three parties share the transfer queue. The trainer goes through `Dispatch` (`AgentLoopManagerTQ.generate_sequences`),
`Sample` (`ReplayBuffer.sample`), `UseTrain` or `UseVal`, `Clear` (`tq.kv_clear`) and `Remove`; the validation of a step
runs between the use of its train batch and the clearing of that batch. Workers end sessions (`Output`, `Empty`, `Raise`)
and report prompts (`ReportFinished`, `ReportFailure`, the two ends of `asyncio.gather`). The poll thread reads the metadata without the lock
(`PollRead`) and adds it later, one partition at a time (`PollAdd`), so that it may bring back what was cleared in between.

### Checkpoint and the code

One behaviour is a job over several lives. `Start` is `_load_checkpoint` with `resume_mode` auto; `TrainStep`
and `Finish` are the loop of `fit`. `Save` is `_save_checkpoint` in its order: for actor and then critic
`EnsureCapacity`, the shards (`OpenShard`, `WriteShard`, by each rank at its own pace) and `Register`, then
`data.pt`, then the tracker file, each opened (which empties it) and then written. `Crash` may come anywhere and leaves
the disk. Files carry the life that wrote them: a resumed job trains the same step again, to other weights.

## Runs

| Run | Instance | Shows |
| --- | --- | --- |
| `loop_strict` | NExT-QA adapter, strict actions, 3 rounds of 2 frames, 1 retry, `--min-select-rounds 1`, forced final answer, 6 frames | order, accounting, evidence, memory and outcome of a sample, that it implements `ReviseEpisode`, its ending included, and that it is a `SampleRun` |
| `loop_long` | LVBench adapter in a time window, candidate IDs, answers in the final round only, no strict actions | accounting, new evidence, candidates and termination when rejected turns clear the plan or are replaced by a plan of the program's own |
| `frames` | timelines of 0 to 7 frames, every set seen on them, sizes 0 to 8 | the helpers against reference definitions |
| `harness` | all four drivers, 2 samples of at most 2 rounds, strict actions, 2 lives | its score against the log, its totals, that it ends, and that the drivers which resume by ID implement `Evaluation` |
| `load_balancer` | 3 conversations, a cache for 2, 2 servers, 2 pool changes | counts, stickiness, balance, and that nobody waits for ever |
| `rollout_buffer` | 2 steps, each with a validation of 2 batches, one session that fails or ends empty | batches whole, and unmixed but within one validation, own rows kept while used, nothing left behind but failures, every batch arrives |
| `checkpoint` | 2 ranks, actor and critic, 5 steps, a save every 2, 2 actor checkpoints kept, 3 lives | the tracker names a whole checkpoint, the disk stays bounded, training ends, and the whole implements `DurableTraining` |
| `revise_agent` | 3 rounds of up to 3 frames, 2 images, 1 retry, a response that two observations nearly fill, replies of 0 to 3 tokens with `max_new_tokens` 1 | lists aligned, log-probabilities delivered, what is cut, every rollout ends |
| `v_final_round` | `--no-strict-actions --min-select-rounds 1` | a last round in which nothing is accepted (finding) |
| `v_long_resume` | LVBench with `--resume-from-log`, 3 samples | a life that leaves out an unfinished sample (finding) |
| `v_keep_one` | `checkpoint` with one actor checkpoint kept | a crash after which nothing can be resumed (finding) |
| `v_no_room` | `revise_agent` with `max_new_tokens` unset | a first select that is dropped (finding) |

**Bounds.**

* *Loop.* Three rounds are the least with a first, a middle and a last round: each of the policy's tests on the round, and a
  request carried through a round that was not the first, occurs. Two frames per round distinguish one too many from
  none, one retry distinguishes a first from a last attempt. `RequestNumbers` holds frames on and one past the
  timeline (or IDs 0, valid, and one past the pool), and requests are all its nonempty subsets, so empty, repeated,
  oversized, unknown and mixed requests all occur. The pool (3) is larger than a round, so cutting it matters. Six frames and three
  rounds of two let the timeline be used up.
* *Harness.* Two samples are the least for which the order of the shard and the order in which samples finish can
  differ; two rounds let an accepted answer follow a rejected one; two lives are the least with a resume, and the second
  begins after a crash at any point or after a summary.
* *Load balancer.* Three conversations and a cache for two: one is forgotten. Two changes (`MaxPoolChanges`): a server
  leaves and comes back while turns on it are out, or the pool is emptied and filled.
* *Rollout buffer.* Two prompts, one of a single session; two steps and two validation batches, so that a step, a batch of the same
  step, and the other partition can each be confused. `MaxBarren` is 1: one session raises or returns nothing, at any moment.
* *Checkpoint.* Five steps with saves at 2, 4 and 5: two saves on schedule and a last one that is not, with a limit of two that forces a rotation.
  Three lives: one that leaves a partial checkpoint, one that resumes and dies over it, one that finds the result.
  The actor has a limit, the critic has none.
* *Agent.* The token constants are small enough that each budget binds in some behaviour and not in others: of three requested frames two
  are allowed and one may fit; two observations fill the response, a retry's feedback leaves room for one. After a dropped
  select a prompt with one image may go on and one with two may not. Replies may be empty, of the configured length, or two
  tokens over it, which is enough to be cut.

The constants of each module stay fixed in its run; the theorems cover the rest for what they state.

**Deadlock** is checked for `load_balancer` and `rollout_buffer`, where clients and the poll thread always go on.
It is off for the others because they really end: a sample or rollout returns, a shard or a job has no life left to start,
and the enumeration of `frames` ends when all frames are shown.

**Fairness.** The loop, the rollout and the life of a shard or a job are one thread each, which waits for nothing but calls that
return or raise (`request_timeout_s` for the backend, the server's answer for the agent), so `ReviseLoop` and `ReviseAgent` ask weak fairness
of `Next` as a whole and `EvalHarness` and `Checkpoint` of `Run`; nobody has to start a life, and no
crash has to come. Nothing is assumed of what the model says, and no alternative of a turn is fair by itself.
`LoadBalancer` asks it of each client's pending call at the actor and of each server's answer, since Ray serves the calls
an actor has got; nobody has to ask, and the pool need not change. `RolloutBuffer` asks it of the trainer, of the workers taken together (each
session and each report happens once, so none can be put off for ever), and of the poll thread's read and its
adds. The cleared queue may be read at any time, so no fairness hides the race between poll and removal.

## What the runs found

* **The last round may be unwinnable** (`v_final_round`). `engine.py:270` clamps the minimum
  number of select rounds so that the last round can answer, and the prompt of that round says "You
  MUST answer now" (`policy.py:64`). Without strict actions a round lost to a fallback is not an
  effective round, so the minimum can still be unmet: every answer is then `early_answer_disallowed` and every
  select `final_select_disallowed`. With strict actions the last round accepts every letter, which is
  theorem `StrictLastRoundAnswerable`. (The same property fails in an earlier round if a select is required
  and the first round has shown the whole of a short video; the retry feedback asks for a select all the same.)
* **Long-video resume skips unfinished samples** (`v_long_resume`). `harness.py:544` announces "N
  completed samples" and drops N from the front of the shard. N counts samples with any row that
  contains `<answer>`, rejected turns included, and says nothing about which they are. The drivers that resume by ID leave out what
  the log shows as finished, by definition; what that comes to over several lives is theorem `ByIDImplementsEvaluation`.
* **Keeping one checkpoint is not crash safe** (`v_keep_one`). The old actor folder goes when the new actor's shards are written, which
  is before the critic, the data position and the tracker are. A crash in between leaves a tracker that names a removed folder. Comments and the
  deprecation warning promise otherwise. With any other limit the tracker names a whole checkpoint at
  every moment: theorem `TrackerWhole`.
* **With `max_new_tokens` unset no select fits** (`v_no_room`). The default is `response_length`, and the budget test
  (`revise_agent_loop.py:842`) reserves `max_new_tokens` of it. Every select is dropped and the rollout
  answers from its first frames.

Three more disagreements between the code and its comments are in the models as the code has them. No run is given to
them; each shows when the formula named is checked on its module.

* **A later validation batch may be sampled with rows that are gone.** `main_ppo_sync.py:953` says "cleanup transfer queue
  and replay buffer" of `kv_clear` and `remove` (954-955). A poll that listed the queue before the first and adds after the
  second (214-217) puts the rows back into the buffer, for good. The next batch of the same validation has the same step, by
  which alone `sample` tells rows apart (273), so it is sampled with them and asks the queue for their data (902).
  `RolloutBuffer`: `[][Sample => batch'[current.part] \subseteq RowsIn(queue)]_vars` fails with one prompt, one step and two
  validation batches. `SampleIsBatch` shows that no other batch is reached, `DataAtHand` that a batch's own rows are always there.
* **The tracker is not written atomically.** `main_ppo_sync.py:836` says "write latest checkpointed iteration tracker for
  atomic resume". The file is emptied when it is opened (844): a job killed before it is written leaves no step to resume
  from, and `find_latest_ckpt_path` fails on the empty file (`checkpoint_manager.py:220`) although every checkpoint is whole.
  `Checkpoint`: `pc = "down" => ResumePoint # Nowhere` fails with one rank and one save. `DurableTraining` has that moment,
  and no other, as `durable = Nowhere`.
* **A dropped select shifts the margins.** `eager_videoqa_paper.py:15-16` describes margins "at each decision state" and
  actions "aligned with margins". The margin of a round whose select is dropped (`revise_agent_loop.py:764`, `881`) stays
  without an action, so the reward pairs every later action with the margin of an earlier round. `ReviseAgent`:
  `\A t \in DOMAIN actions : margins[t] = actions[t].round` fails with the constants of `revise_agent`; `RewardAligned` shows
  that it holds as long as no select was dropped.

Observed while modelling, in the models as the code has them, without a property because nothing in the repository says what should
hold instead:

* An empty first reply that is retried costs a rollout all its log-probabilities: the feedback is not padded in a list not yet begun
  (`revise_agent_loop.py:1020-1021`), so the list stays shorter than the mask and is left out. `LogprobsAligned` says when that happens.
* The frames of an accepted select are read in the middle of a rollout; where that fails the error leaves `run` and the turns
  before it are lost. To the trainer it is a session that raised.
* A forced sample terminated by the loop is counted as terminated twice (`harness.py:602` on top of
  `engine.py:400`), and a resumed `_run_long_hf` divides the correct answers of this life by the answered
  samples of all lives (`harness.py:751`).
* Only sampled rows are removed: the status keys of prompts stay in queue and buffer, and rows of a failed prompt's
  siblings too. `OnlyFailuresStay` is about the rows.
* The ReMax baseline looks up one baseline rollout per prompt (`main_ppo_sync.py:1230`), so a prompt whose baseline failed while its samples
  did not raises a `KeyError`. The baseline is not modelled.
* A job that resumes at its last step trains one step more if `total_training_steps` is overridden below what
  the epochs give; the model takes it as not overridden.
* A client of the load balancer acquires before its `try` (`llm_server.py:201`): one cancelled in between leaves a count
  that nobody releases. Cancellation is not modelled.

## What is proved

Every theorem holds for all values of the constants that meet the named assumptions.

| Module | Theorems |
| --- | --- |
| `ReviseLoopProofs` | `TypeCorrect`, `BudgetKept`, `StrictLastRoundAnswerable`, `CandidatesTakenAtWord`, `LoopRefinesEpisode`, `LoopIsSampleRun` |
| `ReviseLoopProofs`, the log | `AttemptsAreInOrder`, `SelectsHonoured`, `EvidenceIsFresh`, `PlansFit`, `MemoryIsOfSelects`, `OutcomeIsLogged`, `CountersMatchLog` |
| `ReviseFramesProofs` | `SamplesAreEven`, `WindowsAreCovered`, `CandidatesNew`, `NoBlindStretch`, `IntervalsAreRight` |
| `ReviseFramesProofs`, the adapters | `ShortAdapterMeetsContract`, `LongAdapterMeetsContract` |
| `EvalHarnessProofs` | `ByIDImplementsEvaluation`, `ScoreIsOfLog`, `HarnessTypes`, `SummaryAddsUp` |
| `LoadBalancerProofs` | `CountsAreTrue`, `NewLeastLoaded`, `ConversationsStay` |
| `RolloutBufferProofs` | `BatchIsWhole`, `DataStays`, `NothingPilesUp` |
| `CheckpointProofs` | `TrackerWhole`, `RotationBounds`, `TrainingIsDurable` |
| `ReviseAgentProofs` | `MarginsPaired`, `LogprobsArrive`, `CutsSpared` |

**Assumptions.** `ConfigAssumption` gives the settings of the loop their types (at least one round and one
frame: `--max-rounds 0` would leave `round_idx` unbound, and is not meant to run).
`VocabularyAssumption` makes a request finite. `DatasetAssumption` is what the loop relies on from an
adapter: initial, fallback and sampled frames fit a round, pools and samples are of unseen frames (`DatasetContract`). It is an assumption
of the loop only: `ShortAdapterMeetsContract` and `LongAdapterMeetsContract` prove the contract of the adapters in the repository, for every length of video,
size of round, number of candidates and, for the long ones, every time range of the question.
`HarnessAssumption`, `BalancerAssumption`, `BufferAssumption`, `CheckpointAssumption` and `AgentAssumption` give
the constants of their modules their types; `AgentAssumption` also says that the minimum of select rounds is clamped,
as the code sees to, and nothing of how long a reply may be. `BoundsAssumption` types the
bounds of `ReviseFramesMC`. TLC evaluates each on every instance. `TrackerWhole` and `TrainingIsDurable` have one premise more, `NoLimitOfOne`,
and `v_keep_one` shows why.

**Arguments.**

*Loop.* `IInv` is `TypeOK` with three more parts. `Progressing` relates `pc` to the counters: a round is
asked only after it has begun, and a sample that has returned has a letter, was terminated, or has used all its rounds. `Spending` says that in the current round exactly `retry` calls
have been answered, which makes the product bound on calls inductive. `StrictRounds` is the
heart of the strict theorem: with strict actions a round that has passed without an
end was a select, so `effective` is the number of rounds passed; with the clamp, that reaches
the minimum when the last round begins.

*Log.* No property of the log is inductive alone, since each depends on what the locals still hold of
the last row. `LogInv` says so for each place of the loop: `BetweenRounds` (the plan is the last select's request, and none of it has been
seen), `Asking` (a first attempt follows a row of the round before, a retry a rejected row of its own round with the same frames),
`Outcome` (letter and flags are those of the last row), `Evidence` (`seen` holds the frames of all rows),
`Memory`. One lemma says what appending a row does to each. `PlanFits` needs
`SmallestAreFew` (cutting a pool by rank leaves no more than the budget), `SelectHonoured` needs that filtering and cutting
an accepted request change nothing. `Counted` strengthens the accounting with the
turn at hand: a retry is counted before the row that makes it one is written. `CandidatesTakenAtWord` rests on `OnePlaceEach`: the place of
a frame in the sorted pool is an injection into as many numbers, and so a bijection.

From outside (`LoopIsSampleRun`) a round is over when its last turn is, so retries and the start of a round are stutters, and an answer returns the
sample at once. The step that needs an invariant is the end of the last round: it must find no letter and no termination set (`Outcome`), and for a strict
sample that must answer it cannot happen at all (`StrictRounds`, since the last round accepts no select). `Decided`: a round loop that is
left early has a letter or was terminated.

*Frames.* A uniform sample is one rounded quotient per place (`Place`), and rounding is off by a half at most (`Rounded`). So (`Places`) the first and the last
place are exact and no place lies before an earlier one; on a stretch with room for all they are distinct, and steps differ by what two roundings can add; on a
shorter one no frame is left out (`CrowdedPlaces`). None of this asks which way a half goes, so it holds of every window
sample as well (`WindowIsSpread`), and a place rounded one way is at most a frame from the same place rounded the other (`WindowNearUniform`).
The gaps are totally ordered (`OneBefore`), and the number of gaps before one is an injection into as many numbers; hence `LongestCount`: the
longest `k` are `k`, or all. Two gaps that share a frame are the same (`GapShape`), so each has a middle of its own. For the intervals,
`IntervalsCover` takes the least and the greatest frame reached from one without leaving the set.

*Harness.* `IInv` says that a sample of an open life is waiting, was tried in it, or is finished in the log, and that what waits
is neither tried nor finished (`Accounted`); a sample in hand has been tried (`InHand`), so that the row that finishes it cannot
finish one that waits. `WriteAdds` says what one more row does to what the readers see, behind a torn line or not.

For the score, `ScoreInv`: without lines lost, a sample has at most one accepted row (`OneAnswerEach`, since one that has an answer is not
run), what was processed and what waits are all samples, and what was counted right is the right rows but for the answer on its way back.
Resuming keeps this because first answers and answered samples are in bijection. For the totals, `Tallied`, for all four drivers: the samples that are
through, in hand and waiting are all there are (`Covered`), and the outcomes share out those that are through (`Shared`). The sum of the resumed rounds
is defined as the number of rounds they stand for, since a sum over a set is recursive and nothing can be proved of it.

*Load balancer.* `Serving`: a conversation holds a server at most once, being served or owing a release. `Remembered`: a cached
conversation is cached with its latest server, and one that was forgotten has been followed by as many others as the
cache holds. `LoadIsTrue` is inductive with these: each step changes a count and the set of holders by the same conversation.

*Rollout buffer.* What can be sampled is bounded by what the poll may still bring back. `RowsAreSessions`, `NothingEarly` (nothing of a batch
not dispatched is anywhere), `InUse`, `TrainQueued` and `ValQueued` (what buffer or poll knows of the train batch, or of a validation
batch's own rows, is in the queue), with `ValInOrder` (no batch of a validation is anywhere before its turn), give `DataStays`. For whole batches, `ReportsOnce`, `Apart`, `Settled` (a finished prompt's sessions have ended) and `Marked` (a waiting batch's
prompts are in the buffer, so an unreported one holds the sample back). For what stays, every row left belongs to a
prompt dispatched (`Prompted`), was sampled or failed (`Covered`, `Explained`), and so is gone or a failure's once its batch
is over (`Left`).

*Checkpoint.* `Ahead`: the step being trained or saved lies ahead of the tracker's. `Behind`: what this life saved is no newer than the
tracker's step, but for the step being saved in the roles it is through with. `Progress`: the files of that step written so far are this life's.
`InMemory` says what a crash forgets. With a limit other than one rotation never reaches the tracker's step, since at least the newest
saved step is kept, and that is the tracker's or a later one that goes into the tracker next. `RotationBounds` needs no such premise: `Kept` says that rank 0's
books hold every step this life has on disk, and never more than the limit; `NewestAreFew`, that cutting to the newest does cut.

For `TrainingIsDurable` the durable step is the tracker's (`ResumePoint`). A training step must stay within `SaveFreq` of it: `Committed` says that no step that was due
lies between the tracker's and the one reached, and of `SaveFreq` steps in a row one is due (`SaveComes`). That the tracker moves to the step reached, and
only forwards, is `Ahead`; while it is empty there is nothing to resume from, in the abstract specification too.

*Agent.* `Aligned`: tokens and mask have one length, and the log-probabilities have it just when every reply with tokens came with them and no feedback
went before the first, each then at its token; each way to extend the record keeps that. `Paired` numbers margins and actions by rounds, by `pc`, until a select is dropped. `Roomy`: every observation lies within the response, whatever came before it, since it
enters only if it fits; and until there was feedback or a drop, what precedes a reply leaves room for `MaxNewTokens`, so that a cut can only come from a last
reply longer than that.

**Only model-checked.** Liveness, which is beyond the proof system: `EpisodeEnds`, `LifeEnds`, `AskingEnds`, `BatchArrives`, `TrainingEnds`,
`RolloutEnds` and the fairness part of `ImplementsEpisode`. Every other property of a passing run is a theorem,
`FinalRoundAnswerable` for strict actions and those of `Checkpoint` that need it under `NoLimitOfOne`, since the code breaks them otherwise. `ImplementsEvaluation`
is proved for the drivers that resume by ID, for which `Evaluation` states no fairness; the mapping shows the drivers that resume by number as if
nothing waited, so the run says nothing of those. No passing run exercises
candidates given as frame numbers (`OffCandidates`) or a minimum of select rounds above the clamp; the theorems cover both.

## Not modelled

The regular expressions of the parsers, captions, prompts and frame decoding; `run_sample_oneshot`
(one call without state); command line, reports and scripts; reward scores, which are floating-point functions of a finished rollout.
In the harness: the one-shot driver, the split into shards (each has a log of its own), progress output, and a server that
several shards share and restart. In the agent loop: the candidate list, logging metrics, and what the policy makes of a reply. In the
trainer: advantages, losses and updates, the ReMax baseline, asynchronous saving, and the older in-memory trainer
(`ray_trainer.py`), which saves its checkpoints in the same way. The reward rate limiter is a token bucket over real time with
fractional refill; it sleeps without its lock, and nothing in the repository states the rate it keeps in a window, so there is no
property to hold it to. The rest of `verl` (engines, servers, kernels, models, tensor protocol), by far most of the repository's lines, is
numerical and distributed-runtime code of a general framework, without protocols of its own that a model of this size
could be faithful to. `PROJECT.json` gives the reason for each component.

## Plan

Done, in this order: `ReviseLoop` with its frames, datasets and abstract specification; `Evaluation` and `EvalHarness`; `ReviseAgent`; `LoadBalancer`;
`RolloutBuffer`; `Checkpoint`; the theorems above.

Left:

1. *Rate limiter*: a token bucket in discrete time, once a bound to hold it to is stated.
2. *Backends*: one server that several shards restart while the others' calls are under way.

## Checking

    tlc -workers 2 -config loop_strict.cfg ReviseLoopMC        # also loop_long, v_final_round
    tlc -workers 2 -config frames.cfg ReviseFramesMC
    tlc -workers 2 -config harness.cfg EvalHarness             # also v_long_resume
    tlc -workers 2 -config load_balancer.cfg LoadBalancer
    tlc -workers 2 -config rollout_buffer.cfg RolloutBuffer
    tlc -workers 2 -config checkpoint.cfg Checkpoint           # also v_keep_one
    tlc -workers 2 -config revise_agent.cfg ReviseAgent        # also v_no_room
    for m in ReviseLoop ReviseFrames EvalHarness LoadBalancer RolloutBuffer Checkpoint ReviseAgent; do
      tlapm ${m}Proofs.tla
    done
