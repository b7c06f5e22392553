----------------------------- MODULE RolloutBuffer -----------------------------
(***************************************************************************)
(* How rollouts reach the synchronous trainer of                           *)
(* verl/trainer/main_ppo_sync.py.  The trainer dispatches the prompts of a *)
(* batch to agent loop workers without waiting (AgentLoopManagerTQ); each  *)
(* prompt runs several sessions, whose outputs go into the transfer queue, *)
(* and reports its own end there (AgentLoopWorkerTQ).  A thread of the     *)
(* replay buffer polls the queue's metadata; the trainer samples the       *)
(* buffer until no prompt of its step is running, uses the rows, and       *)
(* clears them from the queue and the buffer.                              *)
(*                                                                         *)
(* Train and validation rows live in two partitions.  Rows are told apart  *)
(* by partition and step alone, so all batches of one validation look the  *)
(* same to the buffer.  A poll that read the queue before a batch was      *)
(* cleared may bring its rows back into the buffer afterwards.             *)
(***************************************************************************)
EXTENDS Integers, FiniteSets

CONSTANTS
  Prompts,         \* prompts of a train batch
  ValPrompts,      \* prompts of a validation batch, no more than those
  Sessions,        \* rollout.n, one output each
  Single,          \* the prompts that run one session instead (__rollout_n__)
  MaxSteps,        \* total_training_steps
  ValBatches,      \* batches of the validation set
  TestFreq,        \* test_freq, 0 for no validation
  MaxBarren        \* bound: how many sessions end without an output

NoPrompt == 0      \* the prompt of the rows that pad a batch
NoSession == 0     \* the session of a prompt's own key

ASSUME BufferAssumption ==
  /\ Prompts \in Nat \ {0} /\ ValPrompts \in 1 .. Prompts /\ Sessions \in Nat \ {0} /\ MaxSteps \in Nat \ {0}
  /\ ValBatches \in Nat \ {0} /\ TestFreq \in Nat /\ MaxBarren \in Nat
  /\ Single \subseteq 1 .. Prompts

Parts   == {"train", "val"}
Batches == [part : Parts, step : 1 .. MaxSteps, no : 1 .. ValBatches]
Keys    == [batch : Batches, prompt : 0 .. Prompts, session : 0 .. Sessions]

(* What queue and buffer hold of a key: its status tag.  The step tag is that *)
(* of the batch.                                                              *)
Items == [key : Keys, status : {"running", "success", "finished", "failure"}]

VARIABLES
  stage,     \* what the trainer does with the current batch
  current,   \* the current batch
  batch,     \* KVBatchMeta.keys of the train and of the validation batch in use
  pending,   \* sessions that run
  broken,    \* sessions that raised
  empty,     \* history: sessions that returned no output
  queue,     \* the transfer queue
  buffer,    \* ReplayBuffer.partitions
  polled,    \* what the poll thread read, and has not added
  adding     \* the partitions it has still to add

sessionVars == <<pending, broken, empty>>
pollVars == <<polled, adding>>
trainerVars == <<stage, current, batch>>
vars == <<trainerVars, sessionVars, queue, buffer, pollVars>>

In(part, items) == {i \in items : i.key.batch.part = part}
Put(store, items) ==   \* dict.update, key by key
  {i \in store : \A j \in items : j.key # i.key} \cup items
Tagged(keys, status) == {[key |-> k, status |-> status] : k \in keys}

PromptsOf(b)  == [batch : {b}, session : {NoSession},
                  prompt : 1 .. IF b.part = "train" THEN Prompts ELSE ValPrompts]
SessionsOf(k) == {[k EXCEPT !.session = i] :
                    i \in 1 .. IF k.prompt \in Single THEN 1 ELSE Sessions}
Train(step) == [part |-> "train", step |-> step, no |-> 1]

Init ==
  /\ stage = "ready" /\ current = Train(1)
  /\ batch = [p \in Parts |-> {}]
  /\ pending = {} /\ broken = {} /\ empty = {}
  /\ queue = {} /\ buffer = {}
  /\ polled = {} /\ adding = {}

-------------------------------------------------------------------------------
(* The trainer. *)

(* AgentLoopManagerTQ.generate_sequences: the prompts are marked before the  *)
(* workers get them.                                                         *)
Dispatch ==
  /\ stage = "ready"
  /\ buffer' = Put(buffer, Tagged(PromptsOf(current), "running"))
  /\ pending' = pending \cup UNION {SessionsOf(k) : k \in PromptsOf(current)}
  /\ stage' = "waiting"
  /\ UNCHANGED <<current, batch, broken, empty, queue, pollVars>>

(* ReplayBuffer.sample, one pass under the lock: the rows of the step, once   *)
(* none of its prompts is running.                                            *)
OfStepAnyStep == In(current.part, buffer)   \* seeded fault: the step is not compared
OfStep == {i \in In(current.part, buffer) : i.key.batch.step = current.step}

Sample ==
  /\ stage = "waiting"
  /\ \A i \in OfStep : i.status # "running"
  /\ batch' = [batch EXCEPT ![current.part] =
                 {i.key : i \in {j \in OfStep : j.status = "success"}}]
  /\ stage' = "sampled"
  /\ UNCHANGED <<current, sessionVars, queue, buffer, pollVars>>

Pad == [batch |-> current, prompt |-> NoPrompt, session |-> 1]
Tests == TestFreq > 0 /\ (current.step = MaxSteps \/ current.step % TestFreq = 0)

UseTrainUnpadded ==   \* seeded fault: the batch is not told of the padding
  /\ stage = "sampled" /\ current.part = "train"
  /\ \E rows \in {{}, {Pad}} : queue' = Put(queue, Tagged(rows, "success"))
  /\ IF Tests THEN current' = [current EXCEPT !.part = "val"] /\ stage' = "ready"
              ELSE stage' = "used" /\ UNCHANGED current
  /\ UNCHANGED <<batch, sessionVars, buffer, pollVars>>

(* The update of actor and critic; rows that fill the batch up may be added   *)
(* (_balance_batch), as rows of the batch.  Then the validation of the step,  *)
(* where there is one, comes before the train batch is cleared.               *)
UseTrain ==
  /\ stage = "sampled" /\ current.part = "train"
  /\ \E rows \in {{}, {Pad}} :
       /\ batch[current.part] = {} => rows = {}
       /\ queue' = Put(queue, Tagged(rows, "success"))
       /\ batch' = [batch EXCEPT ![current.part] = @ \cup rows]
  /\ IF Tests THEN current' = [current EXCEPT !.part = "val"] /\ stage' = "ready"
              ELSE stage' = "used" /\ UNCHANGED current
  /\ UNCHANGED <<sessionVars, buffer, pollVars>>

UseVal ==
  /\ stage = "sampled" /\ current.part = "val"
  /\ stage' = "used"
  /\ UNCHANGED <<current, batch, sessionVars, queue, buffer, pollVars>>

ClearBoth ==   \* seeded fault: what the step is using goes with the validation batch
  /\ stage = "used"
  /\ queue' = {i \in queue : i.key \notin batch["train"] \cup batch["val"]}
  /\ stage' = "cleared"
  /\ UNCHANGED <<current, batch, sessionVars, buffer, pollVars>>

(* tq.kv_clear *)
Clear ==
  /\ stage = "used"
  /\ queue' = {i \in queue : i.key \notin batch[current.part]}
  /\ stage' = "cleared"
  /\ UNCHANGED <<current, batch, sessionVars, buffer, pollVars>>

(* ReplayBuffer.remove, and on to the next batch: of the validation, then     *)
(* back to clear the train batch, then the next step.                         *)
Remove ==
  /\ stage = "cleared"
  /\ buffer' = {i \in buffer : i.key \notin batch[current.part]}
  /\ batch' = [batch EXCEPT ![current.part] = {}]
  /\ \/ /\ current.part = "val" /\ current.no < ValBatches
        /\ current' = [current EXCEPT !.no = @ + 1] /\ stage' = "ready"
     \/ /\ current.part = "val" /\ current.no = ValBatches
        /\ current' = Train(current.step) /\ stage' = "used"
     \/ /\ current.part = "train" /\ current.step < MaxSteps
        /\ current' = Train(current.step + 1) /\ stage' = "ready"
     \/ /\ current.part = "train" /\ current.step = MaxSteps
        /\ stage' = "done" /\ UNCHANGED current
  /\ UNCHANGED <<sessionVars, queue, pollVars>>

Trainer == Dispatch \/ Sample \/ UseTrain \/ UseVal \/ Clear \/ Remove

-------------------------------------------------------------------------------
(* The workers. *)

(* A session ends: with an output that is put into the queue, with an empty   *)
(* one, of which nothing is put, or with an exception.                        *)
Empty(s) ==
  /\ s \in pending /\ Cardinality(broken \cup empty) < MaxBarren
  /\ pending' = pending \ {s}
  /\ empty' = empty \cup {s}
  /\ UNCHANGED <<trainerVars, broken, queue, buffer, pollVars>>

Output(s) ==
  /\ s \in pending
  /\ pending' = pending \ {s}
  /\ queue' = Put(queue, Tagged({s}, "success"))
  /\ UNCHANGED <<trainerVars, broken, empty, buffer, pollVars>>

Raise(s) ==
  /\ s \in pending /\ Cardinality(broken \cup empty) < MaxBarren
  /\ pending' = pending \ {s}
  /\ broken' = broken \cup {s}
  /\ UNCHANGED <<trainerVars, empty, queue, buffer, pollVars>>

End(s) == Output(s) \/ Empty(s) \/ Raise(s)

Reported(k) == \E i \in queue : i.key = k

ReportFinishedEarly(k) ==   \* seeded fault: the first session decides, not gather
  /\ ~Reported(k) /\ SessionsOf(k) \ pending # {} /\ SessionsOf(k) \cap broken = {}
  /\ queue' = Put(queue, Tagged({k}, "finished"))
  /\ UNCHANGED <<trainerVars, sessionVars, buffer, pollVars>>

(* _run_prompt, after gather: all sessions of the prompt ended. *)
ReportFinished(k) ==
  /\ ~Reported(k) /\ SessionsOf(k) \cap (pending \cup broken) = {}
  /\ queue' = Put(queue, Tagged({k}, "finished"))
  /\ UNCHANGED <<trainerVars, sessionVars, buffer, pollVars>>

ReportFailureNever(k) ==   \* seeded fault: one session that lives is enough
  /\ ~Reported(k) /\ SessionsOf(k) \cap broken = SessionsOf(k)
  /\ queue' = Put(queue, Tagged({k}, "failure"))
  /\ UNCHANGED <<trainerVars, sessionVars, buffer, pollVars>>

(* gather raises at the first exception; the other sessions go on. *)
ReportFailure(k) ==
  /\ ~Reported(k) /\ SessionsOf(k) \cap broken # {}
  /\ queue' = Put(queue, Tagged({k}, "failure"))
  /\ UNCHANGED <<trainerVars, sessionVars, buffer, pollVars>>

(* The prompts a worker runs: those dispatched. *)
Dispatched == {i.key : i \in {j \in buffer : j.key.session = NoSession}}
Report(k) == ReportFinished(k) \/ ReportFailure(k)

-------------------------------------------------------------------------------
(* The poll thread: tq.kv_list, then add for each partition. *)

PollRead ==
  /\ adding = {}
  /\ polled' = queue
  /\ adding' = {p \in Parts : In(p, queue) # {}}
  /\ UNCHANGED <<trainerVars, sessionVars, queue, buffer>>

PollAdd(p) ==
  /\ p \in adding
  /\ buffer' = Put(buffer, In(p, polled))
  /\ polled' = polled \ In(p, polled)
  /\ adding' = adding \ {p}
  /\ UNCHANGED <<trainerVars, sessionVars, queue>>

Poll == PollRead \/ \E p \in Parts : PollAdd(p)

Worker == \/ \E s \in pending : End(s)
          \/ \E k \in Dispatched : Report(k)

Next == Trainer \/ Worker \/ Poll

(* Trainer and poll thread go on.  An agent loop ends, by its bounded rounds  *)
(* and the server's answers, and prompts are reported; no worker does either  *)
(* for ever, so fairness to the workers together reaches each of them.        *)
Spec == /\ Init /\ [][Next]_vars
        /\ WF_vars(Trainer) /\ WF_vars(Worker)
        /\ WF_vars(PollRead) /\ \A p \in Parts : WF_vars(PollAdd(p))

-------------------------------------------------------------------------------
(* The types; and a running prompt is known only to the buffer. *)
TypeOK ==
  /\ stage \in {"ready", "waiting", "sampled", "used", "cleared", "done"}
  /\ current \in Batches
  /\ batch \in [Parts -> SUBSET Keys]
  /\ pending \cup broken \cup empty \subseteq Keys
  /\ buffer \subseteq Items /\ adding \subseteq Parts
  /\ queue \cup polled \subseteq {i \in Items : i.status # "running"}

RowsIn(store) == {i.key : i \in {j \in store : j.status = "success"}}
PromptOf(row) == [row EXCEPT !.session = NoSession]
Finished(k) == \E i \in queue : i.key = k /\ i.status = "finished"

(* "wait until all prompts of this global steps have finished": a sampled     *)
(* batch has every output of every prompt that finished, and no row of        *)
(* another step or partition.  A train batch and the first batch of a         *)
(* validation have rows of their own only.  A later one may get rows of those *)
(* before it, of failed prompts or brought back by a poll: the code tells     *)
(* them apart by the step alone, and the property does not say otherwise.     *)
SampleIsBatch ==
  [][Sample =>
       LET rows == batch'[current.part]
       IN /\ \A k \in PromptsOf(current) : Finished(k) =>
               SessionsOf(k) \cap RowsIn(queue) \subseteq rows
          /\ current.no = 1 => \A r \in rows : r.batch = current
          /\ \A r \in rows : r.batch.part = current.part /\ r.batch.step = current.step]_vars

(* What a batch put into the queue is there for as long as the trainer may    *)
(* fetch it: the rows of the train batch, padding included, through the       *)
(* validation of the step as well, and a validation batch's own rows.  It is  *)
(* false of rows that a validation batch is sampled with but that belong to   *)
(* an earlier one: a poll that read the queue before these were cleared, and  *)
(* adds after they were removed, offers them to the next batch when they are  *)
(* gone.                                                                      *)
DataAtHand ==
  /\ ~(stage = "cleared" /\ current.part = "train") =>
       batch["train"] \subseteq RowsIn(queue)
  /\ stage # "cleared" =>
       {r \in batch["val"] : r.batch = current} \subseteq RowsIn(queue)

Open == {current, Train(current.step)}

(* The queue does not fill up: of the batches that are over, it holds only    *)
(* rows of prompts that failed, whose other sessions went on.                 *)
OnlyFailuresStay ==
  \A r \in RowsIn(queue) :
    r.batch \in Open \/ SessionsOf(PromptOf(r)) \cap broken # {}

(* A dispatched batch is sampled, however its sessions end.                   *)
BatchArrives == stage = "waiting" ~> stage = "sampled"
=============================================================================
