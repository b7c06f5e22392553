------------------------------ MODULE Checkpoint ------------------------------
(***************************************************************************)
(* Saving and resuming a training: _save_checkpoint and _load_checkpoint   *)
(* of verl/trainer/main_ppo_sync.py (those of ppo/ray_trainer.py do the    *)
(* same), the FSDP checkpoint manager every rank of actor and critic saves *)
(* its shard with, its rotation of old checkpoints, and the tracker file   *)
(* that tells a new process where to resume.                               *)
(*                                                                         *)
(* The job may die at any moment.  A file is not written at once: opening  *)
(* it for writing empties it, and it is whole only when the write is done. *)
(* A checkpoint directory that lost one shard cannot be loaded, so         *)
(* removing one is a single step.  A file is known by the life of the job  *)
(* that wrote it: two lives train a step to different weights.             *)
(***************************************************************************)
EXTENDS Integers, FiniteSets

CONSTANTS
  Ranks,      \* the ranks of a worker group
  Rank0,      \* the one that keeps the books
  MaxSteps,   \* total_training_steps, as the epochs give it (not overridden)
  SaveFreq,   \* save_freq
  UseCritic,  \* use_critic
  KeepActor,  \* max_actor_ckpt_to_keep, 0 for None
  KeepCritic, \* max_critic_ckpt_to_keep, 0 for None
  MaxLives    \* bound: how often the job is started

ASSUME CheckpointAssumption ==
  /\ Rank0 \in Ranks /\ IsFiniteSet(Ranks)
  /\ MaxSteps \in Nat /\ SaveFreq \in Nat \ {0} /\ MaxLives \in Nat
  /\ UseCritic \in BOOLEAN /\ KeepActor \in Nat /\ KeepCritic \in Nat

Roles == IF UseCritic THEN {"actor", "critic"} ELSE {"actor"}
Keep(role) == IF role = "actor" THEN KeepActor ELSE KeepCritic
Steps == 1 .. MaxSteps
Lives == 1 .. MaxLives
NoTracker == 0      \* the tracker file does not exist
EmptyTracker == -1  \* it was opened for writing
Nowhere == -1       \* no step to resume from

VARIABLES
  shards,   \* on disk: the whole shards of all checkpoint directories
  data,     \* on disk: the whole data.pt files
  tracker,  \* on disk: latest_checkpointed_iteration.txt
  life,     \* lives of the job begun
  pc,       \* what it does; "down" or "failed" if it does not run
  step,     \* global_steps
  role,     \* whose checkpoint is being saved
  writing,  \* ranks that write their shard
  written,  \* ranks that wrote it
  saved     \* previous_saved_paths of each role's rank 0: steps, which only go up

diskVars == <<shards, data, tracker>>
saveVars == <<role, writing, written, saved>>
vars == <<diskVars, life, pc, step, saveVars>>

NothingSaved == [r \in {"actor", "critic"} |-> {}]

Init ==
  /\ shards = {} /\ data = {} /\ tracker = NoTracker
  /\ life = 0 /\ pc = "down" /\ step = 0
  /\ role = "actor" /\ writing = {} /\ written = {} /\ saved = NothingSaved

-------------------------------------------------------------------------------
(* A new life. *)

Loadable(s) == \A r \in Roles, k \in Ranks :
                 \E f \in shards : f.role = r /\ f.step = s /\ f.rank = k

(* Without a tracker a job trains from scratch; an empty tracker is no        *)
(* number, and a missing shard no file.                                       *)
ResumePoint == IF tracker = NoTracker THEN 0
               ELSE IF tracker # EmptyTracker /\ Loadable(tracker) THEN tracker
               ELSE Nowhere

(* _load_checkpoint with resume_mode auto.  What the loader takes from        *)
(* data.pt, if it is there, is where the data stands.                         *)
Start ==
  /\ pc \in {"down", "failed"} /\ life < MaxLives
  /\ life' = life + 1
  /\ IF ResumePoint = Nowhere THEN pc' = "failed" /\ step' = 0
                              ELSE pc' = "train" /\ step' = ResumePoint
  /\ UNCHANGED <<diskVars, saveVars>>

(* The job dies, and with it all that is not on disk. *)
Crash ==
  /\ pc \notin {"down", "failed", "done"}
  /\ pc' = "down" /\ step' = 0
  /\ role' = "actor" /\ writing' = {} /\ written' = {} /\ saved' = NothingSaved
  /\ UNCHANGED <<diskVars, life>>

-------------------------------------------------------------------------------
(* Training, and the checkpoint of a step. *)

SaveDueOnSchedule(s) == s % SaveFreq = 0   \* seeded fault: the last step is not saved
SaveDue(s) == s = MaxSteps \/ s % SaveFreq = 0

TrainStep ==
  /\ pc = "train" /\ step < MaxSteps
  /\ step' = step + 1
  /\ pc' = IF SaveDue(step + 1) THEN "save" ELSE "train"
  /\ UNCHANGED <<diskVars, life, saveVars>>

FinishInLoop ==   \* seeded fault: noticed only behind a step of this life
  /\ pc = "train" /\ step = MaxSteps /\ saved # NothingSaved
  /\ pc' = "done"
  /\ UNCHANGED <<diskVars, life, step, saveVars>>

Finish ==
  /\ pc = "train" /\ step = MaxSteps
  /\ pc' = "done"
  /\ UNCHANGED <<diskVars, life, step, saveVars>>

Newest(n, S) == {s \in S : Cardinality({t \in S : t > s}) < n}
RotateTo(S, kept) ==   \* remove_previous_save_local_path, previous_saved_paths
  /\ shards' = {f \in shards : f.role = role => f.step \notin S \ kept}
  /\ saved' = [saved EXCEPT ![role] = kept]

NoCapacity ==   \* seeded fault: room is made by register_checkpoint alone
  /\ pc = "save"
  /\ pc' = "shards"
  /\ UNCHANGED <<shards, data, tracker, life, step, role, writing, written, saved>>

(* ensure_checkpoint_capacity on rank 0, up to the first barrier. *)
EnsureCapacity ==
  /\ pc = "save"
  /\ IF Keep(role) > 1 /\ Cardinality(saved[role]) >= Keep(role)
       THEN RotateTo(saved[role], Newest(Keep(role) - 1, saved[role]))
       ELSE UNCHANGED <<shards, saved>>
  /\ pc' = "shards"
  /\ UNCHANGED <<data, tracker, life, step, role, writing, written>>

(* Every rank writes its own files, the others' progress aside. *)
OpenShard(k) ==
  /\ pc = "shards" /\ k \notin writing \cup written
  /\ shards' = {f \in shards : ~(f.role = role /\ f.step = step /\ f.rank = k)}
  /\ writing' = writing \cup {k}
  /\ UNCHANGED <<data, tracker, life, pc, step, role, written, saved>>

WriteShard(k) ==
  /\ pc = "shards" /\ k \in writing
  /\ shards' = shards \cup {[role |-> role, step |-> step, rank |-> k, life |-> life]}
  /\ writing' = writing \ {k} /\ written' = written \cup {k}
  /\ UNCHANGED <<data, tracker, life, pc, step, role, saved>>

RegisterEarly ==   \* seeded fault: rank 0 goes on without the others
  /\ pc = "shards" /\ Rank0 \in written
  /\ LET S == saved[role] \cup {step}
     IN RotateTo(S, IF Keep(role) > 0 THEN Newest(Keep(role), S) ELSE S)
  /\ written' = {} /\ writing' = {}
  /\ IF role = "actor" /\ UseCritic THEN role' = "critic" /\ pc' = "save"
                                    ELSE role' = "actor" /\ pc' = "data"
  /\ UNCHANGED <<data, tracker, life, step>>

(* register_checkpoint on rank 0, behind the last barrier; the trainer goes   *)
(* on with the critic, then with the data loader.                             *)
Register ==
  /\ pc = "shards" /\ written = Ranks
  /\ LET S == saved[role] \cup {step}
     IN RotateTo(S, IF Keep(role) > 0 THEN Newest(Keep(role), S) ELSE S)
  /\ written' = {} /\ UNCHANGED writing
  /\ IF role = "actor" /\ UseCritic THEN role' = "critic" /\ pc' = "save"
                                    ELSE role' = "actor" /\ pc' = "data"
  /\ UNCHANGED <<data, tracker, life, step>>

OpenData ==
  /\ pc = "data"
  /\ data' = {f \in data : f.step # step}
  /\ pc' = "datawrite"
  /\ UNCHANGED <<shards, tracker, life, step, saveVars>>

WriteData ==
  /\ pc = "datawrite"
  /\ data' = data \cup {[step |-> step, life |-> life]}
  /\ pc' = "tracker"
  /\ UNCHANGED <<shards, tracker, life, step, saveVars>>

OpenTracker ==
  /\ pc = "tracker"
  /\ tracker' = EmptyTracker
  /\ pc' = "trackerwrite"
  /\ UNCHANGED <<shards, data, life, step, saveVars>>

WriteTracker ==
  /\ pc = "trackerwrite"
  /\ tracker' = step
  /\ pc' = "train"
  /\ UNCHANGED <<shards, data, life, step, saveVars>>

Save == \/ EnsureCapacity \/ Register \/ OpenData \/ WriteData \/ OpenTracker \/ WriteTracker
        \/ \E k \in Ranks : OpenShard(k) \/ WriteShard(k)

Run == TrainStep \/ Finish \/ Save

Next == Start \/ Crash \/ Run

(* A running job goes on; nobody has to start one. *)
Spec == Init /\ [][Next]_vars /\ WF_vars(Run)

-------------------------------------------------------------------------------
Shards == [role : Roles, step : Steps, rank : Ranks, life : Lives]

(* The types; a rank writes one shard at a time.                             *)
TypeOK ==
  /\ shards \subseteq Shards /\ data \subseteq [step : Steps, life : Lives]
  /\ tracker \in Steps \cup {NoTracker, EmptyTracker}
  /\ life \in 0 .. MaxLives
  /\ pc \in {"down", "failed", "done", "train", "save", "shards", "data", "datawrite",
             "tracker", "trackerwrite"}
  /\ step \in 0 .. MaxSteps
  /\ role \in Roles /\ saved \in [{"actor", "critic"} -> SUBSET Steps]
  /\ writing \subseteq Ranks /\ written \subseteq Ranks \ writing

(* The checkpoint of a step as one life saved it: every rank's shard for     *)
(* every role, and the position of the data.                                 *)
WholeBy(s, l) ==
  /\ {f \in shards : f.step = s} = [role : Roles, step : {s}, rank : Ranks, life : {l}]
  /\ {f \in data : f.step = s} = {[step |-> s, life |-> l]}

(* "atomic resume": the step the tracker names can be resumed at any moment: *)
(* all its files are there, and one life wrote them all, whatever an earlier *)
(* life left behind and whatever rotation removed.                           *)
TrackerNamesWhole ==
  tracker \in Steps => \E l \in Lives : WholeBy(tracker, l)

(* "keeping at most max_ckpt_to_keep": the checkpoints that a life leaves on *)
(* disk, the one it writes included; a limit of one keeps the old beside the *)
(* new until that is written.                                                *)
OnDisk(r) == {f.step : f \in {g \in shards : g.role = r /\ g.life = life}}
DiskBounded ==
  \A r \in Roles : Keep(r) > 0 =>
    Cardinality(OnDisk(r)) <= IF Keep(r) = 1 THEN 2 ELSE Keep(r)

Job == IF pc \in {"down", "failed"} THEN "down" ELSE IF pc = "done" THEN "done" ELSE "training"

(* Training is durable: a crash costs at most SaveFreq steps, what was saved *)
(* last is what a new life goes on from, and a job that ends has saved its   *)
(* last step.                                                                *)
Durable == INSTANCE DurableTraining WITH job <- Job, at <- step, durable <- ResumePoint

ImplementsDurableTraining == Durable!Spec

(* A job that starts to train ends its training, or dies.                    *)
TrainingEnds == pc = "train" ~> pc \in {"done", "down"}
=============================================================================
