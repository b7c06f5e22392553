--------------------------- MODULE CheckpointProofs ---------------------------
(***************************************************************************)
(* Theorems about Checkpoint, for any ranks, steps, lives and crashes: as  *)
(* long as no limit is one checkpoint, what the tracker names can always   *)
(* be resumed and was written by one life; and, whatever the limits,       *)
(* rotation bounds the checkpoints a life leaves on disk.                  *)
(***************************************************************************)
EXTENDS Checkpoint, FiniteSetTheorems, TLAPS, NumberFacts

Resting == {"down", "failed"}
Saving  == {"save", "shards", "data", "datawrite", "tracker", "trackerwrite"}

(* A job that does not run has nothing in memory; one that runs has a life,  *)
(* and keeps the sets of ranks and the role only while it needs them.        *)
InMemory ==
  /\ pc \in Resting => saved = NothingSaved
  /\ pc \notin Resting => life \in Lives
  /\ pc # "shards" => writing = {} /\ written = {}
  /\ pc \notin {"save", "shards"} => role = "actor"

(* The step that is trained or saved lies ahead of the one the tracker names. *)
Ahead ==
  /\ pc = "train" => tracker <= step
  /\ pc \in Saving => tracker < step /\ step \in Steps

(* What this life saved is not newer than what the tracker names, but for the *)
(* step it is saving, in the roles it is through with.                        *)
Behind ==
  \A r \in {"actor", "critic"} : \A s \in saved[r] :
    /\ pc = "train" => s <= tracker
    /\ pc \in {"save", "shards"} => s <= tracker \/ (s = step /\ role = "critic" /\ r = "actor")
    /\ pc \in {"data", "datawrite", "tracker"} => s <= tracker \/ s = step
    /\ pc = "trackerwrite" => s <= step

(* The shard of rank k in the checkpoint being saved, as far as it is whole. *)
Own(r, k) == {f \in shards : f.role = r /\ f.step = step /\ f.rank = k}
New(r, k) == {[role |-> r, step |-> step, rank |-> k, life |-> life]}
OwnData   == {f \in data : f.step = step}

(* What the checkpoint being saved holds so far was written by this life.    *)
Progress ==
  /\ pc = "shards" => /\ \A k \in written : Own(role, k) = New(role, k)
                      /\ \A k \in writing : Own(role, k) = {}
  /\ pc \in {"save", "shards"} /\ role = "critic" =>
       \A k \in Ranks : Own("actor", k) = New("actor", k)
  /\ pc \in {"data", "datawrite", "tracker", "trackerwrite"} =>
       \A r \in Roles, k \in Ranks : Own(r, k) = New(r, k)
  /\ pc = "datawrite" => OwnData = {}
  /\ pc \in {"tracker", "trackerwrite"} => OwnData = {[step |-> step, life |-> life]}

IInv == TypeOK /\ InMemory /\ Ahead /\ Behind /\ Progress /\ TrackerNamesWhole

NoLimitOfOne == KeepActor # 1 /\ KeepCritic # 1

-------------------------------------------------------------------------------
LEMMA InitIInv == Init => IInv
  BY CheckpointAssumption
     DEF Init, IInv, TypeOK, InMemory, Ahead, Behind, Progress, TrackerNamesWhole, NothingSaved,
         NoTracker, EmptyTracker, Steps, Lives, Resting, Saving, Roles

(* Only the files of the step the tracker names decide whether it is whole. *)
LEMMA StaysWhole ==
  ASSUME TrackerNamesWhole, UNCHANGED tracker,
         tracker \in Steps =>
           /\ {f \in shards' : f.step = tracker} = {f \in shards : f.step = tracker}
           /\ {f \in data' : f.step = tracker} = {f \in data : f.step = tracker}
  PROVE  TrackerNamesWhole'
  BY DEF TrackerNamesWhole, WholeBy

-------------------------------------------------------------------------------
(* Starting, dying and training. *)

LEMMA StartStep == ASSUME IInv, Start PROVE IInv'
  <1> USE DEF IInv, Start, diskVars, saveVars
  <1>1. TypeOK'
    <2>1. life' \in 0 .. MaxLives /\ pc' \in {"train", "failed"}
      BY CheckpointAssumption DEF TypeOK
    <2>2. step' \in 0 .. MaxSteps
      BY CheckpointAssumption DEF TypeOK, ResumePoint, Steps, NoTracker, EmptyTracker
    <2> QED
      BY <2>1, <2>2 DEF TypeOK
  <1>2. InMemory'
    <2>1. life' \in Lives
      BY CheckpointAssumption DEF TypeOK, Lives
    <2> QED
      BY <2>1 DEF InMemory, Resting
  <1>3. Ahead'
    <2>1. pc' = "train" => step' = tracker
      BY DEF ResumePoint, NoTracker
    <2>2. tracker \in Int
      BY CheckpointAssumption DEF TypeOK, Steps, NoTracker, EmptyTracker
    <2> QED
      BY <2>1, <2>2 DEF Ahead, Saving
  <1>4. Behind'
    BY DEF Behind, InMemory, Resting, NothingSaved
  <1>5. Progress'
    BY DEF Progress
  <1>6. TrackerNamesWhole'
    BY StaysWhole
  <1> QED
    BY <1>1, <1>2, <1>3, <1>4, <1>5, <1>6

LEMMA CrashStep == ASSUME IInv, Crash PROVE IInv'
  <1> USE DEF IInv, Crash, diskVars
  <1>1. TypeOK'
    BY CheckpointAssumption DEF TypeOK, NothingSaved, Roles
  <1>2. InMemory' /\ Ahead' /\ Behind' /\ Progress'
    BY DEF InMemory, Ahead, Behind, Progress, Resting, Saving, NothingSaved
  <1>3. TrackerNamesWhole'
    BY StaysWhole
  <1> QED
    BY <1>1, <1>2, <1>3

LEMMA TrainStepStep == ASSUME IInv, TrainStep PROVE IInv'
  <1> USE DEF IInv, TrainStep, diskVars, saveVars
  <1>1. TypeOK'
    BY CheckpointAssumption DEF TypeOK
  <1>2. InMemory'
    BY DEF InMemory, Resting, Lives
  <1>3. Ahead'
    BY CheckpointAssumption DEF Ahead, Saving, Steps, TypeOK, NoTracker, EmptyTracker
  <1>4. Behind'
    BY DEF Behind
  <1>5. Progress'
    BY DEF Progress, InMemory
  <1>6. TrackerNamesWhole'
    BY StaysWhole
  <1> QED
    BY <1>1, <1>2, <1>3, <1>4, <1>5, <1>6

LEMMA FinishStep == ASSUME IInv, Finish PROVE IInv'
  <1> USE DEF IInv, Finish, diskVars, saveVars
  <1>1. TypeOK'
    BY DEF TypeOK
  <1>2. InMemory' /\ Ahead' /\ Behind' /\ Progress'
    BY DEF InMemory, Ahead, Behind, Progress, Resting, Saving, Lives
  <1>3. TrackerNamesWhole'
    BY StaysWhole
  <1> QED
    BY <1>1, <1>2, <1>3

-------------------------------------------------------------------------------
(* Rotation. *)

LEMMA NewestKeeps ==
  ASSUME NEW S \in SUBSET Steps, NEW n \in Nat, n >= 1, NEW t \in S, \A s \in S : s <= t
  PROVE  t \in Newest(n, S)
  <1>1. \A s \in S : ~(s > t)
    BY CheckpointAssumption DEF Steps
  <1>2. {s \in S : s > t} = {}
    BY <1>1
  <1> QED
    BY <1>2, FS_EmptySet DEF Newest

(* With two to keep, the second newest stays as well. *)
LEMMA NewestKeepsTwo ==
  ASSUME NEW S \in SUBSET Steps, NEW n \in Nat, n >= 2, NEW t \in S, NEW u \in S,
         \A s \in S : s <= t \/ s = u
  PROVE  t \in Newest(n, S)
  <1>0. \A s \in S : s > t => s = u
    BY CheckpointAssumption DEF Steps
  <1>1. {s \in S : s > t} \in SUBSET {u}
    BY <1>0
  <1>2. IsFiniteSet({u}) /\ Cardinality({u}) = 1
    BY FS_Singleton
  <1>3. Cardinality({s \in S : s > t}) <= 1 /\ Cardinality({s \in S : s > t}) \in Nat
    BY <1>1, <1>2, FS_Subset, FS_CardinalityType
  <1> QED
    BY <1>3 DEF Newest

(* Rotating the steps of S away but for kept leaves alone every step that is  *)
(* kept, and every one that is not in S.                                      *)
LEMMA RotateLeaves ==
  ASSUME NEW S, NEW kept, RotateTo(S, kept), NEW t, t \in S => t \in kept
  PROVE  {f \in shards' : f.step = t} = {f \in shards : f.step = t}
  BY DEF RotateTo

LEMMA KeepIs ==
  ASSUME NoLimitOfOne
  PROVE  Keep(role) \in Nat /\ Keep(role) # 1
  BY CheckpointAssumption DEF NoLimitOfOne, Keep

LEMMA EnsureCapacityStep == ASSUME NoLimitOfOne, IInv, EnsureCapacity PROVE IInv'
  <1> USE DEF IInv
  <1> DEFINE S == saved[role]
             kept == Newest(Keep(role) - 1, S)
  <1>0. /\ pc = "save" /\ pc' = "shards"
        /\ UNCHANGED <<data, tracker, life, step, role, writing, written>>
    BY DEF EnsureCapacity
  <1>r. role \in {"actor", "critic"} /\ S \in SUBSET Steps /\ step \in Steps
    BY <1>0 DEF TypeOK, Roles, Ahead, Saving
  <1>1. CASE Keep(role) > 1 /\ RotateTo(S, kept)
    <2>0. kept \subseteq S
      BY DEF Newest
    <2>1. saved' = [saved EXCEPT ![role] = kept] /\ shards' \subseteq shards
      BY <1>1 DEF RotateTo
    <2>2. saved' \in [{"actor", "critic"} -> SUBSET Steps]
         /\ \A r \in {"actor", "critic"} : saved'[r] \subseteq saved[r]
      BY <2>0, <2>1, <1>r DEF TypeOK
    <2>3. TypeOK'
      BY <1>0, <2>1, <2>2 DEF TypeOK
    <2>4. InMemory' /\ Ahead'
      BY <1>0 DEF InMemory, Ahead, Resting, Saving
    <2>5. Behind'
      BY <1>0, <2>2 DEF Behind
    <2>6. Progress'
      <3>1. role = "critic" => \A k \in Ranks : Own("actor", k)' = Own("actor", k)
        BY <1>0, <1>1 DEF RotateTo, Own
      <3>2. \A k \in Ranks : New("actor", k)' = New("actor", k)
        BY <1>0 DEF New
      <3> QED
        BY <1>0, <3>1, <3>2 DEF Progress, InMemory
    <2>7. TrackerNamesWhole'
      <3>1. tracker \in Steps /\ tracker \in S => tracker \in kept
        <4>1. \A s \in S : s <= tracker
          BY <1>0, <1>r, CheckpointAssumption DEF Behind, Ahead, Saving
        <4>2. Keep(role) - 1 \in Nat /\ Keep(role) - 1 >= 1
          BY <1>1, KeepIs
        <4> QED
          BY <4>1, <4>2, <1>r, NewestKeeps
      <3> QED
        BY <1>0, <1>1, <3>1, RotateLeaves, StaysWhole
    <2> QED
      BY <2>3, <2>4, <2>5, <2>6, <2>7
  <1>2. CASE UNCHANGED <<shards, saved>>
    <2>1. TypeOK' /\ InMemory' /\ Ahead' /\ Behind'
      BY <1>0, <1>2 DEF TypeOK, InMemory, Ahead, Behind, Resting, Saving
    <2>2. Progress'
      BY <1>0, <1>2 DEF Progress, InMemory, Own, New
    <2>3. TrackerNamesWhole'
      BY <1>0, <1>2, StaysWhole
    <2> QED
      BY <2>1, <2>2, <2>3
  <1> QED
    BY <1>1, <1>2 DEF EnsureCapacity

-------------------------------------------------------------------------------
(* Writing the shards. *)

LEMMA OpenShardStep == ASSUME IInv, NEW k \in Ranks, OpenShard(k) PROVE IInv'
  <1> USE DEF IInv
  <1>0. /\ pc = "shards" /\ k \notin writing \cup written
        /\ shards' = {f \in shards : ~(f.role = role /\ f.step = step /\ f.rank = k)}
        /\ writing' = writing \cup {k}
        /\ UNCHANGED <<data, tracker, life, pc, step, role, written, saved>>
    BY DEF OpenShard
  <1>1. TypeOK'
    BY <1>0 DEF TypeOK
  <1>2. InMemory' /\ Ahead' /\ Behind'
    BY <1>0 DEF InMemory, Ahead, Behind, Resting, Saving
  <1>3. Progress'
    <2>1. ASSUME NEW j \in Ranks \ {k} PROVE Own(role, j)' = Own(role, j)
      BY <1>0 DEF Own
    <2>2. Own(role, k)' = {}
      BY <1>0 DEF Own
    <2>3. role = "critic" => \A j \in Ranks : Own("actor", j)' = Own("actor", j)
      BY <1>0 DEF Own
    <2>4. \A r \in Roles, j \in Ranks : New(r, j)' = New(r, j)
      BY <1>0 DEF New
    <2>5. written \subseteq Ranks \ {k} /\ writing \subseteq Ranks \ {k} /\ role \in Roles
      BY <1>0 DEF TypeOK
    <2>6. "actor" \in Roles
      BY DEF Roles
    <2> QED
      BY <1>0, <2>1, <2>2, <2>3, <2>4, <2>5, <2>6 DEF Progress
  <1>4. TrackerNamesWhole'
    <2>1. tracker \in Steps => tracker # step
      BY <1>0, CheckpointAssumption DEF Ahead, Saving, Steps
    <2> QED
      BY <1>0, <2>1, StaysWhole
  <1> QED
    BY <1>1, <1>2, <1>3, <1>4

LEMMA WriteShardStep == ASSUME IInv, NEW k \in Ranks, WriteShard(k) PROVE IInv'
  <1> USE DEF IInv
  <1> DEFINE new == [role |-> role, step |-> step, rank |-> k, life |-> life]
  <1>0. /\ pc = "shards" /\ k \in writing
        /\ shards' = shards \cup {new}
        /\ writing' = writing \ {k} /\ written' = written \cup {k}
        /\ UNCHANGED <<data, tracker, life, pc, step, role, saved>>
    BY DEF WriteShard
  <1>1. TypeOK'
    <2>1. new \in Shards
      BY <1>0 DEF Shards, TypeOK, InMemory, Resting, Ahead, Saving
    <2> QED
      BY <1>0, <2>1 DEF TypeOK
  <1>2. InMemory' /\ Ahead' /\ Behind'
    BY <1>0 DEF InMemory, Ahead, Behind, Resting, Saving
  <1>3. Progress'
    <2>1. ASSUME NEW j \in Ranks \ {k} PROVE Own(role, j)' = Own(role, j)
      BY <1>0 DEF Own
    <2>2. Own(role, k)' = New(role, k)
      <3>1. Own(role, k) = {}
        BY <1>0 DEF Progress
      <3> QED
        BY <1>0, <3>1 DEF Own, New
    <2>3. role = "critic" => \A j \in Ranks : Own("actor", j)' = Own("actor", j)
      BY <1>0 DEF Own
    <2>4. \A r \in Roles, j \in Ranks : New(r, j)' = New(r, j)
      BY <1>0 DEF New
    <2>5. written \subseteq Ranks /\ writing \subseteq Ranks /\ k \notin written /\ role \in Roles
      BY <1>0 DEF TypeOK
    <2>6. "actor" \in Roles
      BY DEF Roles
    <2> QED
      BY <1>0, <2>1, <2>2, <2>3, <2>4, <2>5, <2>6 DEF Progress
  <1>4. TrackerNamesWhole'
    <2>1. tracker \in Steps => tracker # step
      BY <1>0, CheckpointAssumption DEF Ahead, Saving, Steps
    <2> QED
      BY <1>0, <2>1, StaysWhole
  <1> QED
    BY <1>1, <1>2, <1>3, <1>4

LEMMA RegisterStep == ASSUME NoLimitOfOne, IInv, Register PROVE IInv'
  <1> USE DEF IInv
  <1> DEFINE S == saved[role] \cup {step}
             kept == IF Keep(role) > 0 THEN Newest(Keep(role), S) ELSE S
  <1>0. /\ pc = "shards" /\ written = Ranks /\ RotateTo(S, kept)
        /\ written' = {} /\ UNCHANGED <<writing, data, tracker, life, step>>
        /\ \/ role = "actor" /\ UseCritic /\ role' = "critic" /\ pc' = "save"
           \/ ~(role = "actor" /\ UseCritic) /\ role' = "actor" /\ pc' = "data"
    BY DEF Register
  <1>r. role \in Roles /\ role \in {"actor", "critic"} /\ S \in SUBSET Steps /\ step \in Steps
    BY <1>0 DEF TypeOK, Roles, Ahead, Saving
  <1>k. kept \subseteq S
    BY DEF Newest
  <1>s. saved' = [saved EXCEPT ![role] = kept] /\ shards' \subseteq shards
    BY <1>0 DEF RotateTo
  <1>old. \A s \in saved[role] : s <= tracker
    BY <1>0, <1>r DEF Behind
  <1>lt. tracker < step
    BY <1>0 DEF Ahead, Saving
  <1>w. writing = {}
    BY <1>0 DEF TypeOK
  <1>step. step \in kept
    <2>1. CASE Keep(role) > 0
      <3>1. \A s \in S : s <= step
        BY <1>old, <1>lt, <1>r, CheckpointAssumption DEF TypeOK, Steps, NoTracker, EmptyTracker
      <3>2. Keep(role) \in Nat /\ Keep(role) >= 1
        BY <2>1, KeepIs
      <3>3. step \in Newest(Keep(role), S)
        BY <3>1, <3>2, <1>r, NewestKeeps
      <3> QED
        BY <2>1, <3>3
    <2>2. CASE ~(Keep(role) > 0)
      BY <2>2
    <2> QED
      BY <2>1, <2>2
  <1>track. tracker \in S => tracker \in kept
    <2>1. CASE Keep(role) > 0 /\ tracker \in S
      <3>1. \A s \in S : s <= tracker \/ s = step
        BY <1>old
      <3>2. Keep(role) \in Nat /\ Keep(role) >= 2
        BY <2>1, KeepIs
      <3>3. tracker \in Newest(Keep(role), S)
        BY <2>1, <3>1, <3>2, <1>r, NewestKeepsTwo
      <3> QED
        BY <2>1, <3>3
    <2>2. CASE ~(Keep(role) > 0)
      BY <2>2
    <2> QED
      BY <2>1, <2>2
  <1>1. TypeOK'
    <2>1. saved' \in [{"actor", "critic"} -> SUBSET Steps]
      BY <1>s, <1>k, <1>r DEF TypeOK
    <2>2. role' \in Roles
      BY <1>0 DEF Roles
    <2> QED
      BY <1>0, <1>s, <1>w, <2>1, <2>2 DEF TypeOK
  <1>2. InMemory' /\ Ahead'
    BY <1>0, <1>w DEF InMemory, Ahead, Resting, Saving
  <1>3. Behind'
    <2> SUFFICES ASSUME NEW r \in {"actor", "critic"}, NEW s \in saved'[r]
                 PROVE  /\ pc' = "save" => s <= tracker \/ (s = step /\ role' = "critic" /\ r = "actor")
                        /\ pc' = "data" => s <= tracker \/ s = step
      BY <1>0 DEF Behind
    <2>1. CASE r = role
      BY <2>1, <1>0, <1>s, <1>k, <1>old, <1>r DEF TypeOK
    <2>2. CASE r # role
      BY <2>2, <1>0, <1>s, <1>r DEF TypeOK, Behind
    <2> QED
      BY <2>1, <2>2
  <1>4. Progress'
    <2>1. \A r \in Roles, k \in Ranks : Own(r, k)' = Own(r, k) /\ New(r, k)' = New(r, k)
      <3>1. {f \in shards' : f.step = step} = {f \in shards : f.step = step}
        BY <1>0, <1>step, RotateLeaves
      <3> QED
        BY <1>0, <3>1 DEF Own, New
    <2>2. \A k \in Ranks : Own(role, k) = New(role, k)
      BY <1>0 DEF Progress
    <2>3. role = "critic" => \A k \in Ranks : Own("actor", k) = New("actor", k)
      BY <1>0 DEF Progress
    <2>4. CASE role = "actor" /\ UseCritic
      BY <1>0, <2>1, <2>2, <2>4 DEF Progress, Roles
    <2>5. CASE ~(role = "actor" /\ UseCritic)
      <3>1. \A r \in Roles, k \in Ranks : Own(r, k) = New(r, k)
        BY <2>2, <2>3, <2>5, <1>r DEF Roles
      <3> QED
        BY <1>0, <2>1, <2>5, <3>1 DEF Progress
    <2> QED
      BY <2>4, <2>5
  <1>5. TrackerNamesWhole'
    BY <1>0, <1>track, RotateLeaves, StaysWhole
  <1> QED
    BY <1>1, <1>2, <1>3, <1>4, <1>5

-------------------------------------------------------------------------------
(* Writing the position of the data and the tracker. *)

LEMMA OpenDataStep == ASSUME IInv, OpenData PROVE IInv'
  <1> USE DEF IInv, OpenData, saveVars
  <1>1. TypeOK' /\ InMemory' /\ Ahead' /\ Behind'
    BY DEF TypeOK, InMemory, Ahead, Behind, Resting, Saving
  <1>2. Progress'
    <2>1. \A r \in Roles, k \in Ranks : Own(r, k)' = Own(r, k) /\ New(r, k)' = New(r, k)
      BY DEF Own, New
    <2>2. OwnData' = {}
      BY DEF OwnData
    <2> QED
      BY <2>1, <2>2 DEF Progress
  <1>3. TrackerNamesWhole'
    <2>1. tracker \in Steps => tracker # step
      BY CheckpointAssumption DEF Ahead, Saving, Steps
    <2> QED
      BY <2>1, StaysWhole
  <1> QED
    BY <1>1, <1>2, <1>3

LEMMA WriteDataStep == ASSUME IInv, WriteData PROVE IInv'
  <1> USE DEF IInv, WriteData, saveVars
  <1>1. TypeOK'
    <2>1. [step |-> step, life |-> life] \in [step : Steps, life : Lives]
      BY DEF Ahead, Saving, InMemory, Resting
    <2> QED
      BY <2>1 DEF TypeOK
  <1>2. InMemory' /\ Ahead' /\ Behind'
    BY DEF InMemory, Ahead, Behind, Resting, Saving
  <1>3. Progress'
    <2>1. \A r \in Roles, k \in Ranks : Own(r, k)' = Own(r, k) /\ New(r, k)' = New(r, k)
      BY DEF Own, New
    <2>2. OwnData' = {[step |-> step, life |-> life]}
      BY DEF OwnData, Progress
    <2> QED
      BY <2>1, <2>2 DEF Progress
  <1>4. TrackerNamesWhole'
    <2>1. tracker \in Steps => tracker # step
      BY CheckpointAssumption DEF Ahead, Saving, Steps
    <2> QED
      BY <2>1, StaysWhole
  <1> QED
    BY <1>1, <1>2, <1>3, <1>4

(* While the tracker is empty it names no step. *)
LEMMA OpenTrackerStep == ASSUME IInv, OpenTracker PROVE IInv'
  <1> USE DEF IInv, OpenTracker, saveVars
  <1>1. TypeOK' /\ InMemory'
    BY DEF TypeOK, InMemory, Resting
  <1>2. Ahead'
    BY CheckpointAssumption DEF Ahead, Saving, Steps, EmptyTracker
  <1>3. Behind'
    <2> SUFFICES ASSUME NEW r \in {"actor", "critic"}, NEW s \in saved[r]
                 PROVE  s <= step
      BY DEF Behind
    <2>1. s <= tracker \/ s = step
      BY DEF Behind
    <2>2. s \in Int /\ tracker \in Int /\ step \in Int /\ tracker < step
      BY CheckpointAssumption DEF TypeOK, Ahead, Saving, Steps, NoTracker, EmptyTracker
    <2> QED
      BY <2>1, <2>2
  <1>4. Progress'
    BY DEF Progress, InMemory, Own, New, OwnData
  <1>5. TrackerNamesWhole'
    BY CheckpointAssumption DEF TrackerNamesWhole, Steps, EmptyTracker
  <1> QED
    BY <1>1, <1>2, <1>3, <1>4, <1>5

(* The step it names then is the one just saved, by every rank of every role. *)
LEMMA WriteTrackerStep == ASSUME IInv, WriteTracker PROVE IInv'
  <1> USE DEF IInv, WriteTracker, saveVars
  <1>0. step \in Steps /\ life \in Lives
    BY DEF Ahead, Saving, InMemory, Resting
  <1>1. TypeOK' /\ InMemory'
    BY <1>0 DEF TypeOK, InMemory, Resting
  <1>2. Ahead' /\ Behind'
    BY <1>0, CheckpointAssumption DEF Ahead, Behind, Saving, Steps
  <1>3. Progress'
    BY DEF Progress, InMemory
  <1>4. WholeBy(step, life)
    <2>1. \A f \in shards : f.step = step =>
            f \in [role : Roles, step : {step}, rank : Ranks, life : {life}]
      <3> SUFFICES ASSUME NEW f \in shards, f.step = step
                   PROVE  f \in [role : Roles, step : {step}, rank : Ranks, life : {life}]
        OBVIOUS
      <3>1. f \in Shards
        BY DEF TypeOK
      <3>2. f.role \in Roles /\ f.rank \in Ranks
        BY <3>1 DEF Shards
      <3>3. f \in Own(f.role, f.rank)
        BY DEF Own
      <3>4. f = [role |-> f.role, step |-> step, rank |-> f.rank, life |-> life]
        BY <3>2, <3>3 DEF Progress, New
      <3> QED
        BY <3>2, <3>4
    <2>2. \A r \in Roles, k \in Ranks :
            [role |-> r, step |-> step, rank |-> k, life |-> life] \in shards
      BY DEF Progress, New, Own
    <2>3. \A f \in [role : Roles, step : {step}, rank : Ranks, life : {life}] :
            f \in shards /\ f.step = step
      <3> SUFFICES ASSUME NEW f \in [role : Roles, step : {step}, rank : Ranks, life : {life}]
                   PROVE  f \in shards /\ f.step = step
        OBVIOUS
      <3>1. f = [role |-> f.role, step |-> step, rank |-> f.rank, life |-> life]
            /\ f.role \in Roles /\ f.rank \in Ranks
        OBVIOUS
      <3> QED
        BY <3>1, <2>2
    <2>4. {f \in data : f.step = step} = {[step |-> step, life |-> life]}
      BY DEF Progress, OwnData
    <2> QED
      BY <2>1, <2>3, <2>4 DEF WholeBy
  <1>5. TrackerNamesWhole'
    <2>1. WholeBy(step, life)'
      BY <1>4 DEF WholeBy
    <2> QED
      BY <1>0, <2>1 DEF TrackerNamesWhole, WholeBy
  <1> QED
    BY <1>1, <1>2, <1>3, <1>4, <1>5

-------------------------------------------------------------------------------
LEMMA StutterStep == ASSUME IInv, UNCHANGED vars PROVE IInv'
  <1> USE DEF IInv, vars, diskVars, saveVars
  <1>1. TypeOK' /\ InMemory' /\ Ahead' /\ Behind'
    BY DEF TypeOK, InMemory, Ahead, Behind
  <1>2. Progress'
    BY DEF Progress, Own, New, OwnData
  <1>3. TrackerNamesWhole'
    BY StaysWhole
  <1> QED
    BY <1>1, <1>2, <1>3

LEMMA NextStep == ASSUME NoLimitOfOne, IInv, [Next]_vars PROVE IInv'
  <1>1. CASE Start
    BY <1>1, StartStep
  <1>2. CASE Crash
    BY <1>2, CrashStep
  <1>3. CASE TrainStep \/ Finish
    BY <1>3, TrainStepStep, FinishStep
  <1>4. CASE EnsureCapacity \/ Register
    BY <1>4, EnsureCapacityStep, RegisterStep
  <1>5. ASSUME NEW k \in Ranks, OpenShard(k) \/ WriteShard(k) PROVE IInv'
    BY <1>5, OpenShardStep, WriteShardStep
  <1>6. CASE OpenData \/ WriteData \/ OpenTracker \/ WriteTracker
    BY <1>6, OpenDataStep, WriteDataStep, OpenTrackerStep, WriteTrackerStep
  <1>7. CASE UNCHANGED vars
    BY <1>7, StutterStep
  <1> QED
    BY <1>1, <1>2, <1>3, <1>4, <1>5, <1>6, <1>7 DEF Next, Run, Save

(* The invariant the next two rest on: how far the checkpoint being saved is  *)
(* and how the step it is of lies to the one the tracker names.               *)
THEOREM CheckpointInvariance == ASSUME NoLimitOfOne PROVE Spec => []IInv
  <1>1. Init => IInv
    BY InitIInv
  <1>2. IInv /\ [Next]_vars => IInv'
    BY NextStep
  <1> QED
    BY <1>1, <1>2, PTL DEF Spec

(* The types of the files on disk and of the state of a life.                *)
THEOREM CheckpointTypes == ASSUME NoLimitOfOne PROVE Spec => []TypeOK
  <1>1. IInv => TypeOK
    BY DEF IInv
  <1> QED
    BY <1>1, CheckpointInvariance, PTL

(* Unless only one checkpoint is kept, the step that                          *)
(* latest_checkpointed_iteration.txt names can be resumed after a crash at    *)
(* any moment, from files of one life.                                        *)
THEOREM TrackerWhole == ASSUME NoLimitOfOne PROVE Spec => []TrackerNamesWhole
  <1>1. IInv => TrackerNamesWhole
    BY DEF IInv
  <1> QED
    BY <1>1, CheckpointInvariance, PTL
-------------------------------------------------------------------------------
(* What stays on disk. *)

Running == pc \notin Resting
Limit(r) == IF Keep(r) = 1 THEN 2 ELSE Keep(r)

(* The steps whose checkpoint this life may have written for a role.          *)
Known(r) == saved[r] \cup (IF pc = "shards" /\ r = role THEN {step} ELSE {})

(* Rank 0 keeps the books: what this life wrote is among the paths saved or   *)
(* being saved, of which there are never more than the limit.                 *)
Kept ==
  /\ tracker \in Steps \cup {NoTracker, EmptyTracker}
  /\ step \in 0 .. MaxSteps /\ (pc \in Saving => step \in Steps)
  /\ life \in Nat /\ \A f \in shards : f.life \in Nat /\ f.life <= life
  /\ role \in {"actor", "critic"}
  /\ saved \in [{"actor", "critic"} -> SUBSET Steps]
  /\ ~Running => saved = NothingSaved
  /\ Running => \A f \in shards : f.life = life /\ f.role \in {"actor", "critic"} => f.step \in Known(f.role)
  /\ \A r \in {"actor", "critic"} : Keep(r) > 0 => Cardinality(saved[r]) <= Keep(r)
  /\ pc = "shards" /\ Keep(role) > 0 => Cardinality(saved[role]) < Limit(role)

LEMMA StepsFinite ==
  ASSUME NEW S \in SUBSET Steps
  PROVE  IsFiniteSet(S) /\ Cardinality(S) \in Nat
  <1>1. IsFiniteSet(Steps)
    BY CheckpointAssumption, FS_Interval DEF Steps
  <1> QED
    BY <1>1, FS_Subset, FS_CardinalityType

(* The n newest are no more than n: all but the least of them are newer than it. *)
LEMMA NewestAreFew ==
  ASSUME NEW S \in SUBSET Steps, NEW n \in Nat
  PROVE  Newest(n, S) \in SUBSET S /\ Cardinality(Newest(n, S)) <= n
  <1> DEFINE Q == Newest(n, S)
  <1>1. Q \in SUBSET S /\ Q \in SUBSET Steps
    BY DEF Newest
  <1>2. CASE Q = {}
    BY <1>1, <1>2, FS_EmptySet
  <1>3. CASE Q # {}
    <2>1. Steps \subseteq Nat
      BY CheckpointAssumption DEF Steps
    <2>2. PICK m \in Q : \A q \in Q : m <= q
      BY <1>1, <1>3, <2>1, LeastNumber
    <2> DEFINE newer == {t \in S : t > m}
    <2>3. Cardinality(newer) < n
      BY <2>2 DEF Newest
    <2>4. Q \ {m} \in SUBSET newer /\ newer \in SUBSET Steps /\ Q \ {m} \in SUBSET Steps
      <3> HIDE DEF Q
      <3>1. ASSUME NEW q \in Q \ {m} PROVE q \in newer
        <4>1. q \in S /\ q \in Nat /\ m \in Nat
          BY <1>1, <2>1, <2>2
        <4>2. m <= q /\ q # m
          BY <2>2
        <4>3. q > m
          BY <4>1, <4>2
        <4> QED
          BY <4>1, <4>3
      <3> QED
        BY <1>1, <3>1
    <2> HIDE DEF newer
    <2>5. Cardinality(Q \ {m}) <= Cardinality(newer)
      BY <2>4, StepsFinite, FS_Subset
    <2> HIDE DEF Q
    <2>6. Cardinality(Q \ {m}) = Cardinality(Q) - 1
      BY <1>1, <2>2, StepsFinite, FS_RemoveElement
    <2>7. {Cardinality(Q), Cardinality(Q \ {m}), Cardinality(newer)} \subseteq Nat
      BY <1>1, <2>4, StepsFinite
    <2>8. Cardinality(Q) <= n
      BY <2>3, <2>5, <2>6, <2>7
    <2> QED
      BY <1>1, <2>8 DEF Q
  <1> QED
    BY <1>2, <1>3

LEMMA KeepIsNat == \A r : Keep(r) \in Nat
  BY CheckpointAssumption DEF Keep

LEMMA OneMore ==
  ASSUME NEW S, NEW x, IsFiniteSet(S), Cardinality(S) \in Nat
  PROVE  Cardinality(S \cup {x}) <= Cardinality(S) + 1
  <1>1. CASE x \in S
    <2>1. S \cup {x} = S
      BY <1>1
    <2>2. Cardinality(S) <= Cardinality(S) + 1
      OBVIOUS
    <2> QED
      BY <2>1, <2>2, Zenon
  <1>2. CASE x \notin S
    <2>1. Cardinality(S \cup {x}) = Cardinality(S) + 1
      BY <1>2, FS_AddElement
    <2> QED
      BY <2>1
  <1> QED
    BY <1>1, <1>2

(* While the job runs, the books bound what is on disk. *)
LEMMA KeptBounds == Kept /\ Running => DiskBounded
  <1> SUFFICES ASSUME Kept, Running, NEW r \in Roles, Keep(r) > 0
               PROVE  Cardinality(OnDisk(r)) <= Limit(r)
    BY DEF DiskBounded, Limit
  <1>1. r \in {"actor", "critic"}
    BY DEF Roles
  <1>2. OnDisk(r) \subseteq Known(r)
    BY <1>1 DEF Kept, OnDisk
  <1>3. saved[r] \in SUBSET Steps /\ (pc = "shards" => step \in Steps)
    BY <1>1 DEF Kept, Saving
  <1>4. Known(r) \in SUBSET Steps /\ OnDisk(r) \in SUBSET Steps
    BY <1>2, <1>3 DEF Known
  <1>5. Cardinality(OnDisk(r)) <= Cardinality(Known(r))
    BY <1>2, <1>4, StepsFinite, FS_Subset
  <1>6. Cardinality(Known(r)) <= Limit(r)
    <2>1. Keep(r) \in Nat /\ Limit(r) \in Nat /\ Keep(r) <= Limit(r)
      BY KeepIsNat DEF Limit
    <2>2. CASE pc = "shards" /\ r = role
      <3>1. Cardinality(saved[r]) < Limit(r)
        BY <2>2 DEF Kept
      <3>2. IsFiniteSet(saved[r]) /\ Cardinality(saved[r]) \in Nat
        BY <1>3, StepsFinite
      <3>3. Cardinality(saved[r] \cup {step}) <= Cardinality(saved[r]) + 1
        BY <3>2, OneMore
      <3>4. Known(r) = saved[r] \cup {step}
        BY <2>2 DEF Known
      <3>5. Cardinality(Known(r)) \in Nat
        BY <1>4, StepsFinite
      <3> QED
        BY <2>1, <3>1, <3>2, <3>3, <3>4, <3>5
    <2>3. CASE ~(pc = "shards" /\ r = role)
      <3>1. Known(r) = saved[r] /\ Cardinality(saved[r]) <= Keep(r)
        BY <1>1, <2>3 DEF Known, Kept
      <3>2. Cardinality(saved[r]) \in Nat
        BY <1>3, StepsFinite
      <3> QED
        BY <2>1, <3>1, <3>2
    <2> QED
      BY <2>2, <2>3
  <1>7. {Cardinality(OnDisk(r)), Cardinality(Known(r)), Limit(r)} \subseteq Nat
    BY <1>4, StepsFinite, KeepIsNat DEF Limit
  <1> QED
    BY <1>5, <1>6, <1>7

(* Rotation leaves of the files known only those of the steps kept.           *)
LEMMA RotateKeeps ==
  ASSUME Kept, Running, NEW S, NEW kept, kept \subseteq S, S \subseteq Steps,
         Known(role) \subseteq S, RotateTo(S, kept)
  PROVE  /\ saved' \in [{"actor", "critic"} -> SUBSET Steps]
         /\ saved'[role] = kept /\ \A r \in {"actor", "critic"} \ {role} : saved'[r] = saved[r]
         /\ shards' \subseteq shards
         /\ \A f \in shards' : f.life = life /\ f.role = role => f.step \in kept
         /\ \A f \in shards' : f.life = life /\ f.role \in {"actor", "critic"} /\ f.role # role => f.step \in saved[f.role]
  <1>1. role \in {"actor", "critic"} /\ saved \in [{"actor", "critic"} -> SUBSET Steps]
    BY DEF Kept
  <1>2. saved' = [saved EXCEPT ![role] = kept]
    BY DEF RotateTo
  <1>3. \A f \in shards' : f \in shards /\ (f.role = role => f.step \notin S \ kept)
    BY DEF RotateTo
  <1>4. \A f \in shards : f.life = life /\ f.role \in {"actor", "critic"} => f.step \in Known(f.role)
    BY DEF Kept
  <1>5. \A f \in shards' : f.life = life /\ f.role = role => f.step \in kept
    BY <1>1, <1>3, <1>4
  <1>6. \A r \in {"actor", "critic"} \ {role} : Known(r) = saved[r]
    BY DEF Known
  <1>7. \A f \in shards' : f.life = life /\ f.role \in {"actor", "critic"} /\ f.role # role => f.step \in saved[f.role]
    BY <1>3, <1>4, <1>6
  <1> QED
    BY <1>1, <1>2, <1>3, <1>5, <1>7

LEMMA EnsureCapacityKeeps == ASSUME Kept, EnsureCapacity PROVE Kept'
  <1> DEFINE S == saved[role]
             kept == Newest(Keep(role) - 1, S)
  <1>0. /\ pc = "save" /\ pc' = "shards" /\ UNCHANGED <<tracker, life, step, role>>
        /\ Running /\ Running' /\ step \in Steps
    BY DEF EnsureCapacity, Running, Resting, Saving, Kept
  <1>1. role \in {"actor", "critic"} /\ S \in SUBSET Steps /\ Cardinality(S) \in Nat
        /\ Known(role) = S /\ Keep(role) \in Nat
    BY <1>0, StepsFinite, KeepIsNat DEF Kept, Known
  <1>2. CASE Keep(role) > 1 /\ Cardinality(S) >= Keep(role) /\ RotateTo(S, kept)
    <2>1. kept \in SUBSET S /\ Cardinality(kept) <= Keep(role) - 1 /\ Cardinality(kept) \in Nat
      <3>1. Keep(role) - 1 \in Nat
        BY <1>1, <1>2
      <3>2. kept \in SUBSET S /\ Cardinality(kept) <= Keep(role) - 1
        BY <1>1, <3>1, NewestAreFew
      <3> QED
        BY <1>1, <3>2, StepsFinite
    <2> HIDE DEF kept
    <2>2. /\ saved' \in [{"actor", "critic"} -> SUBSET Steps]
          /\ saved'[role] = kept /\ \A r \in {"actor", "critic"} \ {role} : saved'[r] = saved[r]
          /\ shards' \subseteq shards
          /\ \A f \in shards' : f.life = life /\ f.role = role => f.step \in kept
          /\ \A f \in shards' : f.life = life /\ f.role \in {"actor", "critic"} /\ f.role # role => f.step \in saved[f.role]
      BY <1>0, <1>1, <1>2, <2>1, RotateKeeps
    <2>3. \A f \in shards' : f.life = life' /\ f.role \in {"actor", "critic"} => f.step \in Known(f.role)'
      BY <1>0, <2>2 DEF Known
    <2>4. \A r \in {"actor", "critic"} : Keep(r) > 0 => Cardinality(saved'[r]) <= Keep(r)
      BY <1>1, <2>1, <2>2 DEF Kept
    <2>5. Cardinality(saved'[role]) < Limit(role)
      BY <1>1, <1>2, <2>1, <2>2 DEF Limit
    <2> QED
      BY <1>0, <2>2, <2>3, <2>4, <2>5 DEF Kept
  <1>3. CASE ~(Keep(role) > 1 /\ Cardinality(S) >= Keep(role)) /\ UNCHANGED <<shards, saved>>
    <2>1. Keep(role) > 0 => Cardinality(S) < Limit(role)
      BY <1>1, <1>3 DEF Kept, Limit
    <2>2. \A f \in shards' : f.life = life' /\ f.role \in {"actor", "critic"} => f.step \in Known(f.role)'
      BY <1>0, <1>3 DEF Known, Kept
    <2> QED
      BY <1>0, <1>3, <2>1, <2>2 DEF Kept
  <1> QED
    BY <1>2, <1>3 DEF EnsureCapacity

LEMMA RegisterKeeps == ASSUME Kept, Register PROVE Kept'
  <1> DEFINE S == saved[role] \cup {step}
             kept == IF Keep(role) > 0 THEN Newest(Keep(role), S) ELSE S
  <1>0. /\ pc = "shards" /\ pc' \in {"save", "data"} /\ UNCHANGED <<tracker, life, step>>
        /\ role' \in {"actor", "critic"} /\ Running /\ Running' /\ step \in Steps
        /\ RotateTo(S, kept)
    BY DEF Register, Running, Resting, Saving, Kept
  <1>1. role \in {"actor", "critic"} /\ S \in SUBSET Steps /\ Known(role) = S /\ Keep(role) \in Nat
    BY <1>0, KeepIsNat DEF Kept, Known
  <1>2. kept \in SUBSET S /\ (Keep(role) > 0 => Cardinality(kept) <= Keep(role))
    BY <1>1, NewestAreFew
  <1> HIDE DEF kept, S
  <1>3. /\ saved' \in [{"actor", "critic"} -> SUBSET Steps]
        /\ saved'[role] = kept /\ \A r \in {"actor", "critic"} \ {role} : saved'[r] = saved[r]
        /\ shards' \subseteq shards
        /\ \A f \in shards' : f.life = life /\ f.role = role => f.step \in kept
        /\ \A f \in shards' : f.life = life /\ f.role \in {"actor", "critic"} /\ f.role # role => f.step \in saved[f.role]
    BY <1>0, <1>1, <1>2, RotateKeeps
  <1>4. \A f \in shards' : f.life = life' /\ f.role \in {"actor", "critic"} => f.step \in Known(f.role)'
    BY <1>0, <1>3 DEF Known
  <1>5. \A r \in {"actor", "critic"} : Keep(r) > 0 => Cardinality(saved'[r]) <= Keep(r)
    BY <1>1, <1>2, <1>3 DEF Kept
  <1>6. pc' \in Saving /\ pc' # "shards"
    BY <1>0 DEF Saving
  <1> QED
    BY <1>0, <1>3, <1>4, <1>5, <1>6 DEF Kept

LEMMA StartKeeps == ASSUME Kept, Start PROVE Kept' /\ DiskBounded'
  <1>1. /\ ~Running /\ saved = NothingSaved /\ life' = life + 1 /\ life \in Nat
        /\ UNCHANGED <<shards, tracker, role, saved>> /\ pc' \in {"train", "failed"}
    BY DEF Start, Kept, Running, Resting, diskVars, saveVars
  <1>2. \A f \in shards : f.life \in Nat /\ f.life <= life
    BY DEF Kept
  <1>3. \A f \in shards' : f.life \in Nat /\ f.life <= life' /\ f.life # life'
    BY <1>1, <1>2
  <1>4. step' \in 0 .. MaxSteps
    BY CheckpointAssumption DEF Start, ResumePoint, Kept, Steps, NoTracker, EmptyTracker
  <1>5. pc' \notin Saving /\ pc' # "shards"
    BY <1>1 DEF Saving
  <1>6. \A r : OnDisk(r)' = {}
    BY <1>3 DEF OnDisk
  <1>7. DiskBounded'
    BY <1>6, FS_EmptySet, KeepIsNat DEF DiskBounded
  <1> QED
    BY <1>1, <1>3, <1>4, <1>5, <1>7 DEF Kept

LEMMA CrashKeeps == ASSUME Kept, DiskBounded, Crash PROVE Kept' /\ DiskBounded'
  <1>1. /\ pc' = "down" /\ step' = 0 /\ role' = "actor" /\ saved' = NothingSaved
        /\ UNCHANGED <<shards, tracker, life>> /\ ~Running'
    BY DEF Crash, diskVars, Running, Resting
  <1>2. /\ \A r \in {"actor", "critic"} : saved'[r] = {}
        /\ saved' \in [{"actor", "critic"} -> SUBSET Steps]
    BY <1>1 DEF NothingSaved
  <1>3. \A r \in {"actor", "critic"} : Keep(r) > 0 => Cardinality(saved'[r]) <= Keep(r)
    BY <1>2, FS_EmptySet, KeepIsNat
  <1>4. 0 \in 0 .. MaxSteps /\ pc' \notin Saving /\ pc' # "shards"
    BY <1>1, CheckpointAssumption DEF Saving
  <1>5. Kept'
    BY <1>1, <1>2, <1>3, <1>4 DEF Kept
  <1> QED
    BY <1>1, <1>5 DEF DiskBounded, OnDisk

LEMMA OtherKeeps ==
  ASSUME Kept, TrainStep \/ Finish \/ OpenData \/ WriteData \/ OpenTracker \/ WriteTracker
  PROVE  Kept' /\ Running'
  <1>1. /\ UNCHANGED <<shards, life, role, saved>> /\ Running /\ Running'
        /\ pc # "shards" /\ pc' # "shards"
    BY DEF TrainStep, Finish, OpenData, WriteData, OpenTracker, WriteTracker, diskVars, saveVars,
           Running, Resting
  <1>2. step' \in 0 .. MaxSteps /\ (pc' \in Saving => step' \in Steps)
    BY CheckpointAssumption DEF TrainStep, Finish, OpenData, WriteData, OpenTracker, WriteTracker,
           Kept, Saving, Steps
  <1>3. tracker' \in Steps \cup {NoTracker, EmptyTracker}
    BY DEF TrainStep, Finish, OpenData, WriteData, OpenTracker, WriteTracker, diskVars, Kept, Saving
  <1>4. \A r : Known(r)' = Known(r)
    BY <1>1 DEF Known
  <1> QED
    BY <1>1, <1>2, <1>3, <1>4 DEF Kept

LEMMA ShardKeeps ==
  ASSUME Kept, NEW k \in Ranks, OpenShard(k) \/ WriteShard(k)
  PROVE  Kept' /\ Running'
  <1>1. /\ pc = "shards" /\ UNCHANGED <<tracker, life, pc, step, role, saved>>
        /\ \A f \in shards' : f \in shards \/ f = [role |-> role, step |-> step, rank |-> k, life |-> life]
        /\ Running /\ Running'
    BY DEF OpenShard, WriteShard, Running, Resting
  <1>2. \A r : Known(r)' = Known(r)
    BY <1>1 DEF Known
  <1>3. step \in Known(role)
    BY <1>1 DEF Known
  <1>4. \A f \in shards' : f.life \in Nat /\ f.life <= life
    BY <1>1 DEF Kept
  <1>5. \A f \in shards' : f.life = life' /\ f.role \in {"actor", "critic"} => f.step \in Known(f.role)'
    BY <1>1, <1>2, <1>3 DEF Kept
  <1> QED
    BY <1>1, <1>4, <1>5 DEF Kept

LEMMA NextKeeps ==
  ASSUME Kept, DiskBounded, [Next]_vars
  PROVE  Kept' /\ (Running' \/ DiskBounded')
  <1>1. CASE Start
    BY <1>1, StartKeeps
  <1>2. CASE Crash
    BY <1>2, CrashKeeps
  <1>3. CASE TrainStep \/ Finish \/ OpenData \/ WriteData \/ OpenTracker \/ WriteTracker
    BY <1>3, OtherKeeps
  <1>4. CASE EnsureCapacity
    <2>1. Running'
      BY <1>4 DEF EnsureCapacity, Running, Resting
    <2> QED
      BY <1>4, <2>1, EnsureCapacityKeeps
  <1>5. CASE Register
    <2>1. Running'
      BY <1>5 DEF Register, Running, Resting
    <2> QED
      BY <1>5, <2>1, RegisterKeeps
  <1>6. ASSUME NEW k \in Ranks, OpenShard(k) \/ WriteShard(k) PROVE Kept' /\ Running'
    BY <1>6, ShardKeeps
  <1>7. CASE UNCHANGED vars
    BY <1>7 DEF vars, diskVars, saveVars, Kept, Running, Known, DiskBounded, OnDisk
  <1> QED
    BY <1>1, <1>2, <1>3, <1>4, <1>5, <1>6, <1>7 DEF Next, Run, Save

(* Rotation bounds what a life leaves on disk, for every limit, one included, *)
(* and wherever the life ends.                                                *)
THEOREM RotationBounds == Spec => []DiskBounded
  <1>1. Init => Kept /\ DiskBounded
    <2> SUFFICES ASSUME Init PROVE Kept /\ DiskBounded
      OBVIOUS
    <2>1. shards = {} /\ pc = "down" /\ saved = NothingSaved
      BY DEF Init
    <2>2. /\ \A r \in {"actor", "critic"} : saved[r] = {}
          /\ saved \in [{"actor", "critic"} -> SUBSET Steps]
      BY <2>1 DEF NothingSaved
    <2>3. \A r : OnDisk(r) = {}
      BY <2>1 DEF OnDisk
    <2>4. Cardinality({}) = 0
      BY FS_EmptySet
    <2>5. DiskBounded
      BY <2>3, <2>4, KeepIsNat DEF DiskBounded
    <2>6. \A r \in {"actor", "critic"} : Keep(r) > 0 => Cardinality(saved[r]) <= Keep(r)
      BY <2>2, <2>4, KeepIsNat
    <2>7. ~Running /\ pc \notin Saving /\ pc # "shards" /\ 0 \in 0 .. MaxSteps
      BY <2>1, CheckpointAssumption DEF Running, Resting, Saving
    <2> QED
      BY <2>1, <2>2, <2>5, <2>6, <2>7 DEF Init, Kept
  <1>2. Kept /\ DiskBounded /\ [Next]_vars => Kept' /\ (Running' \/ DiskBounded')
    BY NextKeeps
  <1>3. Kept /\ Running => DiskBounded
    BY KeptBounds
  <1> QED
    BY <1>1, <1>2, <1>3, PTL DEF Spec

-------------------------------------------------------------------------------
(* Training is durable. *)

(* The tracker is empty just while it is written; a job that does not run is *)
(* at no step; and no step was passed that should have been saved.           *)
Committed ==
  /\ pc \in Resting => step = 0
  /\ pc = "trackerwrite" => tracker = EmptyTracker
  /\ pc \notin Resting \cup {"trackerwrite"} => tracker # EmptyTracker
  /\ pc = "train" => \A s \in Steps : tracker < s /\ s <= step => ~SaveDue(s)
  /\ pc \in Saving /\ pc # "trackerwrite" => \A s \in Steps : tracker < s /\ s < step => ~SaveDue(s)

(* What the tracker names can be loaded, so it is where a new life goes on. *)
AtTracker == ResumePoint = IF tracker = EmptyTracker THEN Nowhere ELSE tracker

LEMMA ResumesAtTracker == TypeOK /\ TrackerNamesWhole => AtTracker
  <1> SUFFICES ASSUME TypeOK, TrackerNamesWhole PROVE AtTracker
    OBVIOUS
  <1>1. ASSUME tracker \in Steps PROVE Loadable(tracker)
    <2>1. PICK l \in Lives : WholeBy(tracker, l)
      BY <1>1 DEF TrackerNamesWhole
    <2>2. ASSUME NEW r \in Roles, NEW k \in Ranks
          PROVE  \E f \in shards : f.role = r /\ f.step = tracker /\ f.rank = k
      <3> DEFINE f == [role |-> r, step |-> tracker, rank |-> k, life |-> l]
      <3>1. f \in [role : Roles, step : {tracker}, rank : Ranks, life : {l}]
        OBVIOUS
      <3>2. f \in {g \in shards : g.step = tracker}
        BY <2>1, <3>1 DEF WholeBy
      <3>3. f \in shards
        BY <3>2
      <3>4. f.role = r /\ f.step = tracker /\ f.rank = k
        OBVIOUS
      <3> HIDE DEF f
      <3> QED
        BY <3>3, <3>4
    <2> QED
      BY <2>2 DEF Loadable
  <1>2. 0 # EmptyTracker /\ NoTracker = 0
    BY DEF EmptyTracker, NoTracker
  <1> QED
    BY <1>1, <1>2 DEF TypeOK, ResumePoint, AtTracker

(* Among as many steps as lie between two saves on schedule, one is saved. *)
LEMMA SaveComes ==
  ASSUME NEW a \in Nat
  PROVE  \E s \in a + 1 .. a + SaveFreq : s % SaveFreq = 0
  <1> DEFINE q == a \div SaveFreq
             s == SaveFreq * q + SaveFreq
  <1>1. SaveFreq \in Nat \ {0}
    BY CheckpointAssumption
  <1>2. q \in Nat /\ (a % SaveFreq) \in 0 .. SaveFreq - 1 /\ a = SaveFreq * q + (a % SaveFreq)
    BY <1>1
  <1> HIDE DEF q
  <1>3. SaveFreq * q \in Nat /\ s = SaveFreq * (q + 1)
    BY <1>1, <1>2
  <1>4. s \in a + 1 .. a + SaveFreq
    BY <1>1, <1>2, <1>3
  <1>5. s % SaveFreq = 0
    <2>1. s \in Nat /\ s \div SaveFreq \in Nat /\ (s % SaveFreq) \in 0 .. SaveFreq - 1
          /\ s = SaveFreq * (s \div SaveFreq) + (s % SaveFreq)
      BY <1>1, <1>3
    <2> QED
      BY <1>1, <1>2, <1>3, <2>1
  <1> QED
    BY <1>4, <1>5

LEMMA CommittedStep == ASSUME IInv, Committed, [Next]_vars PROVE Committed'
  <1>0. /\ step \in 0 .. MaxSteps /\ tracker \in Int /\ MaxSteps \in Nat
        /\ \A s \in Steps : s \in Int
    BY CheckpointAssumption DEF IInv, TypeOK, Steps, NoTracker, EmptyTracker
  <1>1. CASE Start
    <2>1. UNCHANGED tracker /\ pc' \in {"train", "failed"} /\ (pc' = "failed" => step' = 0)
      BY <1>1 DEF Start, diskVars
    <2>2. pc' = "train" => step' = tracker /\ tracker # EmptyTracker
      BY <1>1 DEF Start, ResumePoint, NoTracker, EmptyTracker
    <2>3. \A s \in Steps : ~(tracker < s /\ s <= tracker)
      BY <1>0
    <2> QED
      BY <2>1, <2>2, <2>3 DEF Committed, Resting, Saving
  <1>2. CASE Crash
    BY <1>2 DEF Crash, Committed, Resting, Saving
  <1>3. CASE TrainStep
    <2>1. pc = "train" /\ step' = step + 1 /\ UNCHANGED tracker /\ tracker # EmptyTracker
          /\ pc' = IF SaveDue(step + 1) THEN "save" ELSE "train"
      BY <1>3 DEF TrainStep, diskVars, Committed, Resting
    <2>2. ASSUME NEW s \in Steps, tracker < s, s < step + 1 PROVE ~SaveDue(s)
      BY <1>0, <2>1, <2>2 DEF Committed
    <2>3. ASSUME NEW s \in Steps, ~SaveDue(step + 1), tracker < s, s <= step + 1 PROVE ~SaveDue(s)
      <3>1. s < step + 1 \/ s = step + 1
        BY <1>0, <2>3
      <3> QED
        BY <2>2, <2>3, <3>1
    <2> QED
      BY <2>1, <2>2, <2>3 DEF Committed, Resting, Saving
  <1>4. CASE Finish
    BY <1>4 DEF Finish, diskVars, Committed, Resting, Saving
  <1>5. CASE WriteTracker
    <2>1. pc = "trackerwrite" /\ pc' = "train" /\ tracker' = step /\ UNCHANGED step
      BY <1>5 DEF WriteTracker
    <2>2. \A s \in Steps : ~(step < s /\ s <= step)
      BY <1>0
    <2>3. step # EmptyTracker
      BY <1>0 DEF EmptyTracker
    <2> QED
      BY <2>1, <2>2, <2>3 DEF Committed, Resting, Saving
  <1>6. CASE OpenTracker
    BY <1>6 DEF OpenTracker, Committed, Resting, Saving
  <1>7. CASE EnsureCapacity \/ Register \/ OpenData \/ WriteData \/ \E k \in Ranks : OpenShard(k) \/ WriteShard(k)
    <2>1. UNCHANGED <<tracker, step>> /\ {pc, pc'} \subseteq Saving \ {"trackerwrite"}
      BY <1>7 DEF EnsureCapacity, Register, OpenData, WriteData, OpenShard, WriteShard, Saving
    <2> QED
      BY <2>1 DEF Committed, Resting, Saving
  <1>8. CASE UNCHANGED vars
    BY <1>8 DEF vars, diskVars, Committed
  <1> QED
    BY <1>1, <1>2, <1>3, <1>4, <1>5, <1>6, <1>7, <1>8 DEF Next, Run, Save

(* A job that trains is no further ahead of the tracker than a save is due,  *)
(* and at the last step not at all.                                          *)
LEMMA NeverFarAhead ==
  ASSUME IInv, Committed, pc = "train"
  PROVE  /\ tracker \in 0 .. step /\ step < tracker + SaveFreq
         /\ step = MaxSteps => tracker = MaxSteps
  <1>1. /\ tracker \in 0 .. step /\ step \in 0 .. MaxSteps /\ MaxSteps \in Nat /\ SaveFreq \in Nat \ {0}
        /\ \A s \in Steps : tracker < s /\ s <= step => ~SaveDue(s)
    BY CheckpointAssumption
       DEF IInv, TypeOK, Ahead, Committed, Resting, Steps, NoTracker, EmptyTracker
  <1>2. step < tracker + SaveFreq
    <2> SUFFICES ASSUME step >= tracker + SaveFreq PROVE FALSE
      BY <1>1
    <2>0. tracker \in Nat
      BY <1>1
    <2>1. PICK s \in tracker + 1 .. tracker + SaveFreq : s % SaveFreq = 0
      BY <2>0, SaveComes, Zenon
    <2>2. s \in Steps /\ tracker < s /\ s <= step
      BY <1>1 DEF Steps
    <2>3. SaveDue(s)
      BY <2>1 DEF SaveDue
    <2> QED
      BY <1>1, <2>2, <2>3
  <1>3. ASSUME step = MaxSteps, tracker # MaxSteps PROVE FALSE
    <2>1. MaxSteps \in Steps /\ tracker < MaxSteps
      BY <1>1, <1>3 DEF Steps
    <2> QED
      BY <1>1, <1>3, <2>1 DEF SaveDue
  <1> QED
    BY <1>1, <1>2, <1>3

(* Every step of the job is one of a durable training, or hidden by it. *)
LEMMA DurableStep ==
  ASSUME IInv, Committed, AtTracker, AtTracker', [Next]_vars
  PROVE  [Durable!Next]_(Durable!vars)
  <1> USE DEF Durable!Nowhere, Nowhere
  <1>0. /\ step \in 0 .. MaxSteps /\ tracker \in Nat \cup {EmptyTracker} /\ MaxSteps \in Nat
        /\ EmptyTracker = -1 /\ SaveFreq \in Nat \ {0}
    BY CheckpointAssumption DEF IInv, TypeOK, Steps, NoTracker, EmptyTracker
  <1>1. ASSUME UNCHANGED tracker PROVE UNCHANGED ResumePoint
    BY <1>1 DEF AtTracker
  <1>2. ASSUME UNCHANGED <<Job, step>>, UNCHANGED tracker PROVE UNCHANGED Durable!vars
    BY <1>1, <1>2 DEF Durable!vars
  <1>3. CASE Start
    <2>1. UNCHANGED tracker /\ pc \in Resting /\ step = 0
      BY <1>3 DEF Start, diskVars, Committed, Resting
    <2>2. CASE ResumePoint = Nowhere
      <3>1. Job = "down" /\ Job' = "down" /\ step' = 0
        BY <1>3, <2>1, <2>2 DEF Start, Job, Resting
      <3> QED
        BY <1>2, <2>1, <3>1
    <2>3. CASE ResumePoint # Nowhere
      <3>1. Job = "down" /\ Job' = "training" /\ step' = ResumePoint
        BY <1>3, <2>1, <2>3 DEF Start, Job, Resting
      <3>2. Durable!Resume
        BY <1>1, <2>1, <2>3, <3>1 DEF Durable!Resume
      <3> QED
        BY <3>2 DEF Durable!Next
    <2> QED
      BY <2>2, <2>3
  <1>4. CASE Crash
    <2>1. UNCHANGED tracker /\ Job = "training" /\ Job' = "down" /\ step' = 0
      BY <1>4 DEF Crash, diskVars, Job
    <2>2. Durable!Crash
      BY <1>1, <2>1 DEF Durable!Crash
    <2> QED
      BY <2>2 DEF Durable!Next
  <1>5. CASE TrainStep
    <2>1. /\ UNCHANGED tracker /\ Job = "training" /\ Job' = "training"
          /\ pc = "train" /\ step < MaxSteps /\ step' = step + 1
      BY <1>5 DEF TrainStep, diskVars, Job
    <2>2. ResumePoint = tracker /\ tracker \in Nat /\ step < tracker + SaveFreq
      BY <1>0, <2>1, NeverFarAhead DEF AtTracker
    <2>3. Durable!Train
      BY <1>1, <2>1, <2>2 DEF Durable!Train
    <2> QED
      BY <2>3 DEF Durable!Next
  <1>6. CASE Finish
    <2>1. /\ UNCHANGED <<tracker, step>> /\ Job = "training" /\ Job' = "done"
          /\ pc = "train" /\ step = MaxSteps
      BY <1>6 DEF Finish, diskVars, Job
    <2>2. ResumePoint = MaxSteps
      BY <1>0, <2>1, NeverFarAhead DEF AtTracker
    <2>3. Durable!Finish
      BY <1>1, <2>1, <2>2 DEF Durable!Finish
    <2> QED
      BY <2>3 DEF Durable!Next
  <1>7. CASE OpenTracker
    <2>1. /\ tracker' = EmptyTracker /\ UNCHANGED step /\ Job = "training" /\ Job' = "training"
          /\ pc = "tracker"
      BY <1>7 DEF OpenTracker, Job
    <2>2. tracker # EmptyTracker /\ tracker < step
      BY <2>1 DEF Committed, Resting, IInv, Ahead, Saving
    <2>3. ResumePoint \in 0 .. step - 1 /\ ResumePoint' = Nowhere
      BY <1>0, <2>1, <2>2 DEF AtTracker
    <2>4. Durable!BeginCommit
      BY <2>1, <2>3 DEF Durable!BeginCommit
    <2> QED
      BY <2>4 DEF Durable!Next
  <1>8. CASE WriteTracker
    <2>1. /\ tracker' = step /\ UNCHANGED step /\ Job = "training" /\ Job' = "training"
          /\ pc = "trackerwrite"
      BY <1>8 DEF WriteTracker, Job
    <2>2. ResumePoint = Nowhere /\ ResumePoint' = step
      BY <1>0, <2>1 DEF AtTracker, Committed
    <2>3. Durable!Commit
      BY <2>1, <2>2 DEF Durable!Commit
    <2> QED
      BY <2>3 DEF Durable!Next
  <1>9. CASE EnsureCapacity \/ Register \/ OpenData \/ WriteData \/ \E k \in Ranks : OpenShard(k) \/ WriteShard(k)
    <2>1. UNCHANGED <<tracker, step>> /\ {pc, pc'} \subseteq Saving
      BY <1>9 DEF EnsureCapacity, Register, OpenData, WriteData, OpenShard, WriteShard, Saving
    <2>2. Job = "training" /\ Job' = "training"
      BY <2>1 DEF Job, Saving
    <2> QED
      BY <1>2, <2>1, <2>2
  <1>10. CASE UNCHANGED vars
    <2>1. UNCHANGED <<tracker, step, Job>>
      BY <1>10 DEF vars, diskVars, Job
    <2> QED
      BY <1>2, <2>1
  <1> QED
    BY <1>3, <1>4, <1>5, <1>6, <1>7, <1>8, <1>9, <1>10 DEF Next, Run, Save

(* Unless only one checkpoint is kept, a job killed at any moment loses at    *)
(* most SaveFreq steps, goes on from what it saved last, and ends with all    *)
(* saved; while the tracker is being written there is nothing to go on from.  *)
THEOREM TrainingIsDurable == ASSUME NoLimitOfOne PROVE Spec => ImplementsDurableTraining
  <1>1. Init => Durable!Init
    <2> SUFFICES ASSUME Init PROVE Durable!Init
      OBVIOUS
    <2>1. Job = "down" /\ step = 0 /\ ResumePoint = 0
      BY DEF Init, Job, ResumePoint
    <2> QED
      BY <2>1 DEF Durable!Init
  <1>2. Init => Committed
    BY DEF Init, Committed, Resting, Saving, NoTracker, EmptyTracker
  <1>3. IInv /\ Committed /\ [Next]_vars => Committed'
    BY CommittedStep
  <1>4. IInv => AtTracker
    BY ResumesAtTracker DEF IInv
  <1>5. IInv /\ Committed /\ AtTracker /\ AtTracker' /\ [Next]_vars => [Durable!Next]_(Durable!vars)
    BY DurableStep
  <1>6. Spec => []IInv
    BY CheckpointInvariance
  <1> QED
    BY <1>1, <1>2, <1>3, <1>4, <1>5, <1>6, PTL DEF Spec, ImplementsDurableTraining, Durable!Spec
=============================================================================
