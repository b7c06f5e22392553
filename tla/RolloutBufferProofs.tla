-------------------------- MODULE RolloutBufferProofs --------------------------
(***************************************************************************)
(* Theorems about RolloutBuffer, for any batches, sessions and failures,   *)
(* and any order of the polls: what a batch put into the transfer queue    *)
(* stays there while it is used, a sampled batch is whole, and what is     *)
(* left in the queue when a batch is over belongs to prompts that failed.  *)
(***************************************************************************)
EXTENDS RolloutBuffer, TLAPS

IsRow(i) == i.status = "success"
Known    == buffer \cup polled
InPlay   == pending \cup {i.key : i \in queue \cup Known}

(* A session's key carries a row, a prompt's key its progress.               *)
RowsAreSessions ==
  /\ \A k \in pending : k.session # NoSession
  /\ \A i \in queue \cup Known : IsRow(i) <=> i.key.session # NoSession

(* Nothing is of a step to come, and of a validation only once it is due.    *)
ValBegun == current.part = "val" \/ stage \in {"used", "cleared", "done"}
NothingEarly ==
  \A k \in InPlay :
    \/ k.batch.step < current.step
    \/ k.batch.step = current.step /\ (k.batch.part = "train" \/ ValBegun)

(* A batch in use is of the current step; before it is sampled it is empty.  *)
InUse ==
  /\ \A p \in Parts : \A k \in batch[p] :
       k.batch.part = p /\ k.batch.step = current.step /\ k.session # NoSession
  /\ stage \in {"ready", "waiting"} => batch[current.part] = {}
  /\ current.part = "train" => batch["val"] = {}
  /\ stage = "done" => current.part = "train" /\ batch["train"] = {}

(* What buffer and poll thread know of the step's train batch is in the queue *)
(* until it is cleared; so it is with the own rows of a validation batch,     *)
(* since no batch of a validation is anywhere before its turn.                *)
Current(i, part) == IsRow(i) /\ i.key.batch.part = part /\ i.key.batch.step = current.step
TrainQueued ==
  ~(current.part = "train" /\ stage \in {"cleared", "done"}) =>
    \A i \in Known : Current(i, "train") => i \in queue
ValQueued ==
  current.part = "val" /\ stage # "cleared" =>
    \A i \in Known : IsRow(i) /\ i.key.batch = current => i \in queue
ValInOrder ==
  current.part = "val" =>
    \A k \in InPlay : k.batch.part = "val" /\ k.batch.step = current.step =>
      k.batch.no <= current.no

IInv == /\ TypeOK /\ RowsAreSessions /\ NothingEarly /\ InUse
        /\ TrainQueued /\ ValQueued /\ ValInOrder /\ DataAtHand

-------------------------------------------------------------------------------
LEMMA PutIs ==
  ASSUME NEW store, NEW items
  PROVE  /\ Put(store, items) \subseteq store \cup items
         /\ items \subseteq Put(store, items)
         /\ \A i \in store : (\A j \in items : j.key # i.key) => i \in Put(store, items)
  BY DEF Put

LEMMA TaggedIs ==
  ASSUME NEW keys, NEW status, NEW i \in Tagged(keys, status)
  PROVE  i.key \in keys /\ i.status = status /\ i = [key |-> i.key, status |-> status]
  BY DEF Tagged

LEMMA ItemIs ==
  ASSUME NEW i \in Items
  PROVE  i.key \in Keys /\ i = [key |-> i.key, status |-> i.status]
  BY DEF Items

LEMMA TaggedType ==
  ASSUME NEW keys \in SUBSET Keys, NEW status \in {"running", "success", "finished", "failure"}
  PROVE  Tagged(keys, status) \in SUBSET Items
  BY DEF Tagged, Items

LEMMA PromptKeys ==
  ASSUME NEW b \in Batches, NEW k \in PromptsOf(b)
  PROVE  k \in Keys /\ k.batch = b /\ k.session = NoSession
  BY BufferAssumption DEF PromptsOf, Keys, NoSession

LEMMA SessionKeys ==
  ASSUME NEW k \in Keys, NEW s \in SessionsOf(k)
  PROVE  s \in Keys /\ s.batch = k.batch /\ s.prompt = k.prompt /\ s.session # NoSession
  <1>1. PICK i \in 1 .. Sessions : s = [k EXCEPT !.session = i]
    BY BufferAssumption DEF SessionsOf
  <1> QED
    BY <1>1, BufferAssumption DEF Keys, NoSession

LEMMA BatchIs ==
  ASSUME NEW b \in Batches
  PROVE  b.part \in Parts /\ b.step \in 1 .. MaxSteps /\ b.no \in 1 .. ValBatches
  BY DEF Batches

LEMMA StepIs ==
  ASSUME TypeOK
  PROVE  \A k \in InPlay : k.batch.step \in 1 .. MaxSteps
  BY ItemIs DEF TypeOK, InPlay, Known, Keys, Batches

LEMMA TrainIs ==
  ASSUME NEW s \in 1 .. MaxSteps
  PROVE  Train(s) \in Batches /\ Train(s).part = "train" /\ Train(s).step = s /\ Train(s).no = 1
  BY BufferAssumption DEF Train, Batches, Parts

(* A success row that is put again, and a prompt's report, push no row out.  *)
LEMMA PutKeepsRows ==
  ASSUME TypeOK, NEW keys, NEW status, NEW i \in queue, IsRow(i),
         status = "success" \/ i.key \notin keys
  PROVE  i \in Put(queue, Tagged(keys, status))
  <1>1. i = [key |-> i.key, status |-> "success"]
    BY ItemIs DEF TypeOK, IsRow
  <1>2. CASE i.key \in keys
    <2>1. i \in Tagged(keys, status)
      BY <1>1, <1>2 DEF Tagged
    <2> QED
      BY <2>1, PutIs
  <1>3. CASE i.key \notin keys
    BY <1>3, PutIs, TaggedIs
  <1> QED
    BY <1>2, <1>3

-------------------------------------------------------------------------------
LEMMA InitIInv == Init => IInv
  <1> SUFFICES ASSUME Init PROVE IInv
    OBVIOUS
  <1>1. current \in Batches /\ current = Train(1) /\ current.part = "train"
    BY BufferAssumption, TrainIs DEF Init
  <1>2. TypeOK
    BY <1>1 DEF Init, TypeOK
  <1>3. RowsAreSessions /\ NothingEarly /\ TrainQueued /\ ValQueued /\ ValInOrder
    BY DEF Init, RowsAreSessions, NothingEarly, InPlay, TrainQueued, ValQueued, ValInOrder, Known
  <1>4. InUse /\ DataAtHand
    BY <1>1 DEF Init, InUse, DataAtHand, Parts
  <1> QED
    BY <1>2, <1>3, <1>4 DEF IInv

-------------------------------------------------------------------------------
(* The trainer. *)

LEMMA DispatchStep == ASSUME IInv, Dispatch PROVE IInv'
  <1> USE DEF IInv
  <1> DEFINE new == Tagged(PromptsOf(current), "running")
  <1>0. /\ stage = "ready" /\ stage' = "waiting"
        /\ buffer' = Put(buffer, new)
        /\ pending' = pending \cup UNION {SessionsOf(k) : k \in PromptsOf(current)}
        /\ UNCHANGED <<current, batch, broken, empty, queue, polled, adding>>
    BY DEF Dispatch, pollVars
  <1>1. \A k \in PromptsOf(current) : k \in Keys /\ k.batch = current /\ k.session = NoSession
    BY PromptKeys DEF TypeOK
  <1>2. \A s \in pending' \ pending : s \in Keys /\ s.batch = current /\ s.session # NoSession
    BY <1>0, <1>1, SessionKeys
  <1>3. \A i \in buffer' \ buffer : i \in Items /\ i.key.batch = current
                                     /\ i.key.session = NoSession /\ ~IsRow(i)
    <2>1. new \in SUBSET Items
      BY <1>1, TaggedType
    <2>2. \A i \in new : i.key \in PromptsOf(current) /\ i.status = "running"
      BY TaggedIs
    <2> QED
      BY <1>0, <1>1, <2>1, <2>2, PutIs DEF IsRow
  <1>4. TypeOK'
    BY <1>0, <1>2, <1>3 DEF TypeOK
  <1>5. RowsAreSessions'
    BY <1>0, <1>2, <1>3 DEF RowsAreSessions, Known, IsRow
  <1>6. NothingEarly'
    <2>1. current.part = "train" \/ current.part = "val"
      BY BatchIs DEF TypeOK, Parts
    <2> QED
      BY <1>0, <1>2, <1>3, <2>1 DEF NothingEarly, InPlay, ValBegun, Known
  <1>7. InUse'
    BY <1>0 DEF InUse
  <1>8. TrainQueued' /\ ValQueued'
    BY <1>0, <1>3 DEF TrainQueued, ValQueued, Current, Known, IsRow
  <1>9. DataAtHand'
    BY <1>0 DEF DataAtHand
  <1>10. ValInOrder'
    <2>1. current.no \in Nat
      BY BatchIs, BufferAssumption DEF TypeOK
    <2>2. \A k \in InPlay' : k \in InPlay \/ k.batch = current
      BY <1>0, <1>2, <1>3 DEF InPlay, Known
    <2> QED
      BY <1>0, <2>1, <2>2 DEF ValInOrder
  <1> QED
    BY <1>4, <1>5, <1>6, <1>7, <1>8, <1>9, <1>10

LEMMA SampleStep == ASSUME IInv, Sample PROVE IInv'
  <1> USE DEF IInv
  <1> DEFINE rows == {i.key : i \in {j \in OfStep : j.status = "success"}}
  <1>0. /\ stage = "waiting" /\ stage' = "sampled"
        /\ batch' = [batch EXCEPT ![current.part] = rows]
        /\ UNCHANGED <<current, pending, broken, empty, queue, buffer, polled, adding>>
    BY DEF Sample, sessionVars, pollVars
  <1>1. current.part \in Parts
    BY BatchIs DEF TypeOK
  <1>2. \A k \in rows : \E i \in buffer : Current(i, current.part) /\ i.key = k
    BY DEF OfStep, In, Current, IsRow
  <1>3. \A k \in rows : /\ k \in Keys /\ k.session # NoSession
                         /\ k.batch.part = current.part /\ k.batch.step = current.step
    BY <1>2, ItemIs DEF TypeOK, RowsAreSessions, Known, Current
  <1>4. batch' \in [Parts -> SUBSET Keys]
        /\ batch'[current.part] = rows
        /\ \A p \in Parts : p # current.part => batch'[p] = batch[p]
    BY <1>0, <1>1, <1>3 DEF TypeOK
  <1>5. TypeOK'
    BY <1>0, <1>4 DEF TypeOK
  <1>6. RowsAreSessions' /\ NothingEarly' /\ TrainQueued' /\ ValQueued' /\ ValInOrder'
    BY <1>0 DEF RowsAreSessions, NothingEarly, InPlay, TrainQueued, ValQueued, ValInOrder, ValBegun, Known, Current
  <1>7. InUse'
    <2>1. \A p \in Parts : \A k \in batch'[p] :
            k.batch.part = p /\ k.batch.step = current.step /\ k.session # NoSession
      BY <1>3, <1>4 DEF InUse
    <2>2. current.part = "train" => batch'["val"] = {}
      BY <1>4 DEF InUse, Parts
    <2> QED
      BY <1>0, <2>1, <2>2 DEF InUse
  <1>8. DataAtHand'
    <2>1. current.part = "train" => rows \subseteq RowsIn(queue)
      <3> SUFFICES ASSUME current.part = "train", NEW k \in rows
                   PROVE  k \in RowsIn(queue)
        OBVIOUS
      <3>1. PICK i \in buffer : Current(i, "train") /\ i.key = k
        BY <1>2
      <3>2. i \in queue /\ IsRow(i)
        BY <1>0, <3>1 DEF TrainQueued, Known, Current
      <3> QED
        BY <3>1, <3>2 DEF RowsIn, IsRow
    <2>2. current.part = "val" => {r \in rows : r.batch = current} \subseteq RowsIn(queue)
      <3> SUFFICES ASSUME current.part = "val", NEW k \in rows, k.batch = current
                   PROVE  k \in RowsIn(queue)
        OBVIOUS
      <3>1. PICK i \in buffer : Current(i, "val") /\ i.key = k
        BY <1>2
      <3>2. i \in queue /\ IsRow(i)
        BY <1>0, <3>1 DEF ValQueued, Known, Current
      <3> QED
        BY <3>1, <3>2 DEF RowsIn, IsRow
    <2> QED
      BY <1>0, <1>1, <1>4, <2>1, <2>2 DEF DataAtHand, RowsIn, Parts, InUse
  <1> QED
    BY <1>5, <1>6, <1>7, <1>8

(* The rows that fill the train batch up are put before they are used. *)
LEMMA UseTrainStep == ASSUME IInv, UseTrain PROVE IInv'
  <1> USE DEF IInv
  <1>0. PICK rows \in {{}, {Pad}} :
          /\ queue' = Put(queue, Tagged(rows, "success"))
          /\ batch' = [batch EXCEPT !["train"] = @ \cup rows]
    BY DEF UseTrain
  <1>1. /\ stage = "sampled" /\ current.part = "train" /\ current \in Batches
        /\ UNCHANGED <<pending, broken, empty, buffer, polled, adding>>
        /\ \/ current' = [current EXCEPT !.part = "val"] /\ stage' = "ready"
           \/ current' = current /\ stage' = "used"
    BY DEF UseTrain, sessionVars, pollVars, TypeOK
  <1>2. /\ current' \in Batches /\ current'.step = current.step /\ current'.no = current.no
        /\ current'.part \in Parts
        /\ stage' = "ready" => current'.part = "val"
        /\ stage' = "used" => current'.part = "train"
    BY <1>1 DEF Batches, Parts
  <1>3. \A k \in rows : /\ k \in Keys /\ k.batch = current
                         /\ k.session # NoSession
    <2>1. Pad \in Keys /\ Pad.batch = current /\ Pad.session # NoSession
      BY <1>1, BufferAssumption DEF Pad, Keys, NoPrompt, NoSession
    <2> QED
      BY <1>0, <2>1
  <1>4. \A i \in queue' \ queue : i \in Items /\ IsRow(i) /\ i.key \in rows
    <2>1. Tagged(rows, "success") \in SUBSET Items
      BY <1>3, TaggedType
    <2> QED
      BY <1>0, <2>1, PutIs, TaggedIs DEF IsRow
  <1>5. \A i \in queue : IsRow(i) => i \in queue'
    BY <1>0, PutKeepsRows
  <1>6. /\ batch' \in [Parts -> SUBSET Keys]
        /\ batch'["train"] = batch["train"] \cup rows /\ batch'["val"] = batch["val"]
    BY <1>0, <1>3 DEF TypeOK, Parts
  <1>7. TypeOK'
    BY <1>1, <1>2, <1>4, <1>6 DEF TypeOK, IsRow
  <1>8. RowsAreSessions'
    BY <1>1, <1>3, <1>4 DEF RowsAreSessions, Known, IsRow
  <1>9. NothingEarly'
    BY <1>1, <1>2, <1>3, <1>4 DEF NothingEarly, InPlay, ValBegun, Known
  <1>10. InUse'
    BY <1>1, <1>2, <1>3, <1>6 DEF InUse, Parts
  <1>11. TrainQueued'
    BY <1>1, <1>2, <1>5 DEF TrainQueued, Known, Current
  <1>12. ValQueued' /\ ValInOrder'
    <2>1. \A k \in InPlay : ~(k.batch.part = "val" /\ k.batch.step = current.step)
      <3>1. current.step \in Int
        BY <1>1, BatchIs, BufferAssumption
      <3> QED
        BY <1>1, <3>1 DEF NothingEarly, ValBegun
    <2>2. ValQueued'
      BY <1>1, <1>2, <2>1 DEF ValQueued, InPlay, Known
    <2>3. \A k \in InPlay' : k \in InPlay \/ k.batch = current
      BY <1>1, <1>3, <1>4 DEF InPlay, Known
    <2> QED
      BY <1>1, <1>2, <2>1, <2>2, <2>3 DEF ValInOrder
  <1>13. DataAtHand'
    <2>1. rows \subseteq RowsIn(queue')
      <3>1. Tagged(rows, "success") \subseteq queue'
        BY <1>0, PutIs
      <3>2. ASSUME NEW k \in rows
            PROVE  \E i \in queue' : i.status = "success" /\ i.key = k
        <4>1. [key |-> k, status |-> "success"] \in queue'
          BY <3>1 DEF Tagged
        <4> QED
          BY <4>1
      <3> QED
        BY <3>2 DEF RowsIn
    <2>2. RowsIn(queue) \subseteq RowsIn(queue')
      BY <1>5 DEF RowsIn, IsRow
    <2> QED
      BY <1>1, <1>2, <1>6, <2>1, <2>2 DEF DataAtHand, InUse, RowsIn
  <1> QED
    BY <1>7, <1>8, <1>9, <1>10, <1>11, <1>12, <1>13

LEMMA UseValStep == ASSUME IInv, UseVal PROVE IInv'
  <1> USE DEF IInv, UseVal, sessionVars, pollVars
  <1>1. TypeOK' /\ RowsAreSessions' /\ NothingEarly' /\ InUse'
    BY DEF TypeOK, RowsAreSessions, NothingEarly, InPlay, ValBegun, InUse, Known
  <1>2. TrainQueued' /\ ValQueued' /\ ValInOrder' /\ DataAtHand'
    BY DEF TrainQueued, ValQueued, ValInOrder, DataAtHand, InPlay, Known, Current, RowsIn
  <1> QED
    BY <1>1, <1>2

(* Clearing a validation batch takes no row of the train batch along. *)
LEMMA ClearStep == ASSUME IInv, Clear PROVE IInv'
  <1> USE DEF IInv
  <1>0. /\ stage = "used" /\ stage' = "cleared"
        /\ queue' = {i \in queue : i.key \notin batch[current.part]}
        /\ UNCHANGED <<current, batch, pending, broken, empty, buffer, polled, adding>>
    BY DEF Clear, sessionVars, pollVars
  <1>1. current.part \in {"train", "val"}
    BY BatchIs DEF TypeOK, Parts
  <1>2. TypeOK' /\ RowsAreSessions' /\ NothingEarly'
    BY <1>0 DEF TypeOK, RowsAreSessions, NothingEarly, InPlay, ValBegun, Known
  <1>3. InUse'
    BY <1>0 DEF InUse
  <1>4. current.part = "val" =>
          \A i \in queue : i.key.batch.part = "train" => i \in queue'
    BY <1>0, <1>1 DEF InUse, Parts
  <1>5. TrainQueued' /\ ValQueued' /\ ValInOrder'
    BY <1>0, <1>1, <1>4 DEF TrainQueued, ValQueued, ValInOrder, InPlay, Known, Current
  <1>6. DataAtHand'
    <2>1. current.part = "val" => batch["train"] \subseteq RowsIn(queue')
      BY <1>0, <1>4 DEF DataAtHand, RowsIn, InUse, Parts
    <2> QED
      BY <1>0, <1>1, <2>1 DEF DataAtHand, RowsIn, InUse
  <1> QED
    BY <1>2, <1>3, <1>5, <1>6

(* What buffer and poll thread still know of a batch that is over is of an    *)
(* older step, or of a validation that is under way.                          *)
LEMMA RemoveStep == ASSUME IInv, Remove PROVE IInv'
  <1> USE DEF IInv
  <1>0. /\ stage = "cleared" /\ current \in Batches
        /\ buffer' \subseteq buffer
        /\ batch' = [batch EXCEPT ![current.part] = {}]
        /\ UNCHANGED <<pending, broken, empty, queue, polled, adding>>
    BY DEF Remove, sessionVars, pollVars, TypeOK
  <1>1. /\ current.part \in Parts /\ current.step \in 1 .. MaxSteps
        /\ current.no \in 1 .. ValBatches
    BY <1>0, BatchIs
  <1>2. /\ batch' \in [Parts -> SUBSET Keys] /\ batch'[current.part] = {}
        /\ \A p \in Parts : p # current.part => batch'[p] = batch[p]
    BY <1>0, <1>1 DEF TypeOK
  <1>3. CASE /\ current.part = "val" /\ current.no < ValBatches
             /\ current' = [current EXCEPT !.no = @ + 1] /\ stage' = "ready"
    <2>1. /\ current' \in Batches /\ current'.part = "val" /\ current'.step = current.step
          /\ current'.no # 1
      BY <1>0, <1>1, <1>3, BufferAssumption DEF Batches
    <2>2. TypeOK' /\ RowsAreSessions'
      BY <1>0, <1>2, <1>3, <2>1 DEF TypeOK, RowsAreSessions, Known
    <2>3. NothingEarly' /\ TrainQueued'
      BY <1>0, <1>3, <2>1 DEF NothingEarly, InPlay, TrainQueued, ValBegun, Known, Current
    <2>4. InUse' /\ DataAtHand'
      BY <1>0, <1>2, <1>3, <2>1 DEF InUse, DataAtHand, RowsIn, Parts
    <2>5. /\ InPlay' \subseteq InPlay /\ Known' \subseteq Known
          /\ \A i \in Known' : i.key \in InPlay
      BY <1>0 DEF InPlay, Known
    <2>6. current'.no = current.no + 1 /\ current.no \in Int
      BY <1>0, <1>1, <1>3, BufferAssumption DEF Batches
    <2>7. /\ \A k \in InPlay : k.batch \in Batches
          /\ \A k \in InPlay : k.batch.no \in Int
      BY ItemIs, BufferAssumption DEF TypeOK, InPlay, Known, Keys, Batches
    <2>8. \A k \in InPlay : k.batch.part = "val" /\ k.batch.step = current.step =>
            k.batch.no <= current.no
      BY <1>3 DEF ValInOrder
    <2>9. ValInOrder'
      BY <2>1, <2>5, <2>6, <2>7, <2>8 DEF ValInOrder
    <2>10. ValQueued'
      BY <2>1, <2>5, <2>6, <2>8 DEF ValQueued
    <2> QED
      BY <2>2, <2>3, <2>4, <2>9, <2>10
  <1>4. CASE /\ current.part = "val" /\ current' = Train(current.step) /\ stage' = "used"
    <2>1. /\ current' \in Batches /\ current'.part = "train" /\ current'.step = current.step
          /\ current'.no = 1
      BY <1>1, <1>4, TrainIs
    <2>2. TypeOK' /\ RowsAreSessions'
      BY <1>0, <1>2, <1>4, <2>1 DEF TypeOK, RowsAreSessions, Known
    <2>3. NothingEarly' /\ TrainQueued' /\ ValQueued' /\ ValInOrder'
      BY <1>0, <1>4, <2>1 DEF NothingEarly, InPlay, TrainQueued, ValQueued, ValInOrder, ValBegun, Known, Current
    <2>4. InUse' /\ DataAtHand'
      BY <1>0, <1>2, <1>4, <2>1 DEF InUse, DataAtHand, RowsIn, Parts
    <2> QED
      BY <2>2, <2>3, <2>4
  <1>5. CASE /\ current.part = "train" /\ current.step < MaxSteps
             /\ current' = Train(current.step + 1) /\ stage' = "ready"
    <2>1. /\ current' \in Batches /\ current'.part = "train" /\ current'.step = current.step + 1
          /\ current'.no = 1
      <3>1. current.step + 1 \in 1 .. MaxSteps
        BY <1>1, <1>5, BufferAssumption
      <3> QED
        BY <1>5, <3>1, TrainIs
    <2>2. TypeOK' /\ RowsAreSessions'
      BY <1>0, <1>2, <1>5, <2>1 DEF TypeOK, RowsAreSessions, Known
    <2>3. NothingEarly'
      <3>1. \A n \in {k.batch.step : k \in InPlay} :
              n < current.step + 1
        BY <1>1, StepIs, BufferAssumption DEF NothingEarly
      <3> QED
        BY <1>0, <2>1, <3>1 DEF NothingEarly, InPlay, Known
    <2>4. \A i \in Known : i.key.batch.step # current.step + 1
      BY <1>1, BufferAssumption DEF NothingEarly, InPlay
    <2>5. TrainQueued' /\ ValQueued' /\ ValInOrder'
      BY <1>0, <2>1, <2>4 DEF TrainQueued, ValQueued, ValInOrder, Known, Current
    <2>6. InUse' /\ DataAtHand'
      BY <1>0, <1>2, <1>5, <2>1 DEF InUse, DataAtHand, RowsIn, Parts
    <2> QED
      BY <2>2, <2>3, <2>5, <2>6
  <1>6. CASE current.part = "train" /\ stage' = "done" /\ current' = current
    <2>1. TypeOK' /\ RowsAreSessions' /\ NothingEarly'
      BY <1>0, <1>2, <1>6 DEF TypeOK, RowsAreSessions, NothingEarly, InPlay, ValBegun, Known
    <2>2. TrainQueued' /\ ValQueued' /\ ValInOrder' /\ InUse' /\ DataAtHand'
      BY <1>0, <1>2, <1>6 DEF TrainQueued, ValQueued, ValInOrder, InUse, DataAtHand, RowsIn, Parts
    <2> QED
      BY <2>1, <2>2
  <1> QED
    BY <1>3, <1>4, <1>5, <1>6 DEF Remove

-------------------------------------------------------------------------------
(* The workers and the poll thread. *)

(* They touch nothing of the trainer's, and take no row away: what they need  *)
(* is that what they add is of a session that runs or of a dispatched prompt, *)
(* and that the poll thread learns only what the queue holds.                 *)
LEMMA OthersStep ==
  ASSUME IInv, UNCHANGED trainerVars, TypeOK', RowsAreSessions',
         InPlay' \subseteq InPlay,
         \A i \in queue : IsRow(i) => i \in queue',
         Known' \subseteq Known \cup queue'
  PROVE  IInv'
  <1> USE DEF IInv, trainerVars
  <1>1. NothingEarly'
    BY DEF NothingEarly, ValBegun
  <1>2. InUse'
    BY DEF InUse
  <1>3. TrainQueued' /\ ValQueued' /\ ValInOrder'
    BY DEF TrainQueued, ValQueued, ValInOrder, Current
  <1>4. RowsIn(queue) \subseteq RowsIn(queue')
    BY DEF RowsIn, IsRow
  <1>5. DataAtHand'
    BY <1>4 DEF DataAtHand, RowsIn
  <1> QED
    BY <1>1, <1>2, <1>3, <1>5

LEMMA EndStep == ASSUME IInv, NEW s \in pending, End(s) PROVE IInv'
  <1> USE DEF IInv
  <1>s. s \in Keys /\ s.session # NoSession
    BY DEF TypeOK, RowsAreSessions
  <1>0. /\ UNCHANGED <<trainerVars, buffer, polled, adding>>
        /\ pending' = pending \ {s}
        /\ broken' \cup empty' \subseteq broken \cup empty \cup {s}
        /\ queue' = queue \/ queue' = Put(queue, Tagged({s}, "success"))
    BY DEF End, Output, Empty, Raise, pollVars
  <1>1. \A i \in queue' \ queue : i \in Items /\ IsRow(i) /\ i.key = s
    <2>1. Tagged({s}, "success") \in SUBSET Items
      BY <1>s, TaggedType
    <2> QED
      BY <1>0, <2>1, PutIs, TaggedIs DEF IsRow
  <1>2. \A i \in queue : IsRow(i) => i \in queue'
    BY <1>0, PutKeepsRows
  <1>3. TypeOK'
    BY <1>0, <1>1, <1>s DEF TypeOK, IsRow, trainerVars
  <1>4. RowsAreSessions'
    BY <1>0, <1>1, <1>s DEF RowsAreSessions, Known, IsRow
  <1>5. InPlay' \subseteq InPlay
    BY <1>0, <1>1 DEF InPlay, Known
  <1>6. Known' = Known
    BY <1>0 DEF Known
  <1> QED
    BY <1>0, <1>2, <1>3, <1>4, <1>5, <1>6, OthersStep

LEMMA ReportStep == ASSUME IInv, NEW k \in Dispatched, Report(k) PROVE IInv'
  <1> USE DEF IInv
  <1>0. PICK status \in {"finished", "failure"} :
          /\ queue' = Put(queue, Tagged({k}, status))
          /\ UNCHANGED <<trainerVars, pending, broken, empty, buffer, polled, adding>>
    BY DEF Report, ReportFinished, ReportFailure, sessionVars, pollVars
  <1>k. /\ k \in Keys /\ k.session = NoSession
        /\ k \in {i.key : i \in queue \cup Known}
    BY ItemIs DEF Dispatched, TypeOK, Known
  <1>1. \A i \in queue' \ queue : i \in Items /\ i.status = status /\ i.key = k
    <2>1. Tagged({k}, status) \in SUBSET Items
      BY <1>k, TaggedType
    <2>2. queue' \subseteq queue \cup Tagged({k}, status)
      BY <1>0, PutIs
    <2>3. \A i \in Tagged({k}, status) : i.key \in {k} /\ i.status = status
      BY TaggedIs
    <2> QED
      BY <2>1, <2>2, <2>3
  <1>2. \A i \in queue : IsRow(i) => i \in queue'
    <2>1. \A i \in queue : IsRow(i) => i.key \notin {k}
      BY <1>k DEF RowsAreSessions, IsRow
    <2> QED
      BY <1>0, <2>1, PutKeepsRows
  <1>3. TypeOK'
    BY <1>0, <1>1 DEF TypeOK, trainerVars
  <1>4. RowsAreSessions'
    BY <1>0, <1>1, <1>k DEF RowsAreSessions, Known, IsRow
  <1>5. InPlay' \subseteq InPlay
    BY <1>0, <1>1, <1>k DEF InPlay, Known
  <1>6. Known' = Known
    BY <1>0 DEF Known
  <1> QED
    BY <1>0, <1>2, <1>3, <1>4, <1>5, <1>6, OthersStep

LEMMA PollReadStep == ASSUME IInv, PollRead PROVE IInv'
  <1> USE DEF IInv
  <1>0. /\ UNCHANGED <<trainerVars, pending, broken, empty, queue, buffer>>
        /\ polled' = queue /\ adding' \subseteq Parts
    BY DEF PollRead, sessionVars
  <1>1. TypeOK' /\ RowsAreSessions'
    BY <1>0 DEF TypeOK, RowsAreSessions, Known, trainerVars
  <1>2. InPlay' \subseteq InPlay
    BY <1>0 DEF InPlay, Known
  <1>3. Known' \subseteq Known \cup queue'
    BY <1>0 DEF Known
  <1> QED
    BY <1>0, <1>1, <1>2, <1>3, OthersStep

LEMMA PollAddStep == ASSUME IInv, NEW p \in Parts, PollAdd(p) PROVE IInv'
  <1> USE DEF IInv
  <1>0. /\ UNCHANGED <<trainerVars, pending, broken, empty, queue>>
        /\ polled' \subseteq polled /\ adding' \subseteq adding
        /\ buffer' \subseteq buffer \cup polled
    BY PutIs DEF PollAdd, sessionVars, In
  <1>1. Known' \subseteq Known
    BY <1>0 DEF Known
  <1>2. TypeOK'
    BY <1>0 DEF TypeOK, trainerVars
  <1>3. RowsAreSessions'
    BY <1>0, <1>1 DEF RowsAreSessions
  <1>4. InPlay' \subseteq InPlay
    BY <1>0, <1>1 DEF InPlay
  <1> QED
    BY <1>0, <1>1, <1>2, <1>3, <1>4, OthersStep

-------------------------------------------------------------------------------
LEMMA NextStep == ASSUME IInv, [Next]_vars PROVE IInv'
  <1>1. CASE Trainer
    BY <1>1, DispatchStep, SampleStep, UseTrainStep, UseValStep, ClearStep, RemoveStep DEF Trainer
  <1>2. CASE Worker
    BY <1>2, EndStep, ReportStep DEF Worker
  <1>3. CASE Poll
    BY <1>3, PollReadStep, PollAddStep DEF Poll
  <1>4. CASE UNCHANGED vars
    BY <1>4 DEF vars, trainerVars, sessionVars, pollVars, IInv, TypeOK, RowsAreSessions,
         NothingEarly, InPlay, ValBegun, InUse, TrainQueued, ValQueued, ValInOrder, DataAtHand, Known, Current, RowsIn
  <1> QED
    BY <1>1, <1>2, <1>3, <1>4 DEF Next

(* The types of queue, buffer and batches, and what the next theorem rests    *)
(* on: what the buffer knows of a batch that is due is still in the queue.    *)
THEOREM BufferInvariance == Spec => []IInv
  <1>1. Init => IInv
    BY InitIInv
  <1>2. IInv /\ [Next]_vars => IInv'
    BY NextStep
  <1> QED
    BY <1>1, <1>2, PTL DEF Spec

(* The types, as TypeOK states them.                                         *)
THEOREM BufferTypes == Spec => []TypeOK
  <1>1. IInv => TypeOK
    BY DEF IInv
  <1> QED
    BY <1>1, BufferInvariance, PTL

(* The rows of a train batch can be fetched from the transfer queue for as    *)
(* long as they are used, through the validation of the step as well, and so  *)
(* can a validation batch's own, whatever polls are under way.                *)
THEOREM DataStays == Spec => []DataAtHand
  <1>1. IInv => DataAtHand
    BY DEF IInv
  <1> QED
    BY <1>1, BufferInvariance, PTL

-------------------------------------------------------------------------------
(* A sampled batch is whole. *)

(* A batch is dispatched once, and the batches of a validation in order.     *)
Numbered ==
  /\ current.part = "train" => current.no = 1
  /\ \A k \in InPlay :
       /\ k.batch.part = "train" => k.batch.no = 1
       /\ k.batch.part = current.part /\ k.batch.step = current.step =>
            k.batch.no < current.no \/ (k.batch.no = current.no /\ stage # "ready")

(* A prompt reports once, and its report stays in the queue.                 *)
Reports == {"finished", "failure"}
ReportsOnce ==
  /\ \A i, j \in queue : i.key = j.key => i = j
  /\ \A i \in Known : i.status \in Reports => i \in queue

(* A session that runs has put nothing; what is cleared has left the queue.  *)
Apart ==
  /\ \A k \in pending : k.prompt # NoPrompt
  /\ \A i \in queue \cup Known : i.key \notin pending /\ (IsRow(i) \/ i.key.prompt # NoPrompt)
  /\ \A p \in Parts : batch[p] \cap pending = {}
  /\ stage = "cleared" => batch[current.part] \cap RowsIn(queue) = {}

(* A prompt that finished has no session left, and whoever knows that it     *)
(* finished knows all of its rows that are still in the queue.               *)
Settled == \A i \in queue \cup Known : i.status = "finished" => SessionsOf(i.key) \cap pending = {}
Whole(store) ==
  \A i \in store : i.status = "finished" =>
    SessionsOf(i.key) \cap RowsIn(queue) \subseteq RowsIn(store)

(* Every prompt of the batch awaited is marked in the buffer.                *)
Marked == stage = "waiting" => \A k \in PromptsOf(current) : \E i \in buffer : i.key = k

SInv == /\ Numbered /\ ReportsOnce /\ Apart /\ Settled /\ Marked
        /\ Whole(polled) /\ Whole(buffer)

LEMMA RowsAre ==
  ASSUME NEW store
  PROVE  \A k : k \in RowsIn(store) <=> \E i \in store : IsRow(i) /\ i.key = k
  BY DEF RowsIn, IsRow

(* Rows that nobody waits for leave what is known of a prompt whole.         *)
LEMMA WholeStays ==
  ASSUME NEW store, Whole(store), NEW S,
         \A i \in store : i.status = "finished" => SessionsOf(i.key) \cap S = {},
         RowsIn(queue') \subseteq RowsIn(queue) \cup S
  PROVE  \A i \in store : i.status = "finished" =>
           SessionsOf(i.key) \cap RowsIn(queue') \subseteq RowsIn(store)
  BY DEF Whole

(* Putting an item takes away only what has its key.                         *)
LEMMA PutRows ==
  ASSUME NEW store, NEW items,
         \A i \in store, j \in items : IsRow(i) /\ i.key = j.key => i = j
  PROVE  \A i \in store : IsRow(i) => i \in Put(store, items)
  BY DEF Put

LEMMA InitSInv == Init => SInv
  <1> SUFFICES ASSUME Init PROVE SInv
    OBVIOUS
  <1>1. current.part = "train" /\ current.no = 1
    BY BufferAssumption, TrainIs DEF Init
  <1> QED
    BY <1>1 DEF Init, SInv, Numbered, ReportsOnce, Apart, Settled, Marked, Whole, InPlay, Known, Parts

LEMMA DispatchSInv == ASSUME IInv, SInv, Dispatch PROVE SInv'
  <1> USE DEF IInv, SInv
  <1> DEFINE new == Tagged(PromptsOf(current), "running")
  <1>0. /\ stage = "ready" /\ stage' = "waiting"
        /\ buffer' = Put(buffer, new)
        /\ pending' = pending \cup UNION {SessionsOf(k) : k \in PromptsOf(current)}
        /\ UNCHANGED <<current, batch, broken, empty, queue, polled, adding>>
    BY DEF Dispatch, pollVars
  <1>c. current \in Batches /\ current.part \in Parts /\ current.no \in Nat
    BY BatchIs, BufferAssumption DEF TypeOK
  <1>1. \A k \in PromptsOf(current) : /\ k \in Keys /\ k.batch = current
                                      /\ k.session = NoSession /\ k.prompt # NoPrompt
    BY <1>c, PromptKeys, BufferAssumption DEF PromptsOf, NoPrompt
  <1>2. \A s \in pending' \ pending : /\ s.batch = current /\ s.session # NoSession
                                      /\ s.prompt # NoPrompt
    BY <1>0, <1>1, SessionKeys
  <1>3. /\ \A i \in new : i.key \in PromptsOf(current) /\ i.status = "running"
        /\ \A k \in PromptsOf(current) : \E i \in new : i.key = k
    <2>1. \A k \in PromptsOf(current) : [key |-> k, status |-> "running"] \in new
      BY DEF Tagged
    <2> QED
      BY <2>1, TaggedIs
  <1>4. buffer' \subseteq buffer \cup new /\ new \subseteq buffer'
    BY <1>0, PutIs
  <1>5. \A i \in queue \cup Known : i.key.batch # current
    BY <1>0, <1>c DEF Numbered, InPlay
  <1>6. \A i \in queue \cup Known : i.key \notin pending' \ pending
    BY <1>2, <1>5
  <1>7. Numbered'
    BY <1>0, <1>1, <1>2, <1>3, <1>4 DEF Numbered, InPlay, Known
  <1>8. ReportsOnce'
    BY <1>0, <1>3, <1>4 DEF ReportsOnce, Reports, Known
  <1>9. Apart'
    <2>1. \A p \in Parts : batch[p] \cap pending' = {}
      <3>1. \A p \in Parts : \A k \in batch[p] : k.batch # current
        BY <1>0, <1>c DEF InUse
      <3> QED
        BY <1>2, <3>1 DEF Apart
    <2>2. \A i \in new : i.key \notin pending' /\ i.key.prompt # NoPrompt
      BY <1>1, <1>2, <1>3 DEF RowsAreSessions
    <2>3. \A i \in queue \cup Known' : i.key \notin pending' /\ (IsRow(i) \/ i.key.prompt # NoPrompt)
      BY <1>0, <1>4, <1>6, <2>2 DEF Apart, Known
    <2>4. \A k \in pending' : k.prompt # NoPrompt
      BY <1>2 DEF Apart
    <2> QED
      BY <1>0, <2>1, <2>3, <2>4 DEF Apart
  <1>10. Settled'
    <2>1. \A i \in queue \cup Known : i \in Items
      BY DEF TypeOK, Known
    <2>2. ASSUME NEW i \in queue \cup Known, NEW s \in SessionsOf(i.key)
          PROVE  s \notin pending' \ pending
      <3>1. i.key \in Keys
        BY <2>1, ItemIs
      <3> QED
        BY <3>1, <1>2, <1>5, SessionKeys
    <2>3. \A i \in queue \cup Known' : i.status = "finished" => i \in queue \cup Known
      BY <1>0, <1>3, <1>4 DEF Known
    <2> QED
      BY <1>0, <2>2, <2>3 DEF Settled
  <1>11. Marked'
    BY <1>0, <1>3, <1>4 DEF Marked
  <1>12. Whole(polled)'
    BY <1>0 DEF Whole
  <1>13. Whole(buffer)'
    <2>1. \A i \in buffer : IsRow(i) => i \in buffer'
      <3>1. \A i \in buffer, j \in new : IsRow(i) => i.key # j.key
        BY <1>1, <1>3 DEF RowsAreSessions, Known
      <3> QED
        BY <1>0, <3>1, PutRows
    <2>2. RowsIn(buffer) \subseteq RowsIn(buffer')
      BY <2>1, RowsAre
    <2>3. \A i \in buffer' : i.status = "finished" => i \in buffer
      BY <1>3, <1>4
    <2> QED
      BY <1>0, <2>2, <2>3 DEF Whole
  <1> QED
    BY <1>7, <1>8, <1>9, <1>10, <1>11, <1>12, <1>13

(* What a prompt that finished left in the buffer is what is in the queue.   *)
LEMMA FinishedKnown ==
  ASSUME IInv, SInv, stage = "waiting", \A i \in OfStep : i.status # "running",
         NEW k \in PromptsOf(current), Finished(k)
  PROVE  SessionsOf(k) \cap RowsIn(queue) \subseteq RowsIn(OfStep)
  <1> USE DEF IInv, SInv
  <1>1. current \in Batches
    BY DEF TypeOK
  <1>2. k \in Keys /\ k.batch = current /\ k.session = NoSession
    BY <1>1, PromptKeys
  <1>3. PICK i \in buffer : i.key = k
    BY DEF Marked
  <1>4. i \in Items /\ i \in OfStep /\ ~IsRow(i)
    BY <1>2, <1>3 DEF TypeOK, OfStep, In, RowsAreSessions, Known
  <1>5. i.status \in Reports
    BY <1>4 DEF Items, Reports, IsRow
  <1>6. PICK j \in queue : j.key = k /\ j.status = "finished"
    BY DEF Finished
  <1>7. i = j
    BY <1>3, <1>5, <1>6 DEF ReportsOnce, Known
  <1>8. SessionsOf(k) \cap RowsIn(queue) \subseteq RowsIn(buffer)
    BY <1>3, <1>6, <1>7 DEF Whole
  <1>9. ASSUME NEW s \in SessionsOf(k), s \in RowsIn(buffer)
        PROVE  s \in RowsIn(OfStep)
    <2>1. PICK r \in buffer : IsRow(r) /\ r.key = s
      BY <1>9, RowsAre
    <2>2. r \in OfStep
      BY <1>2, <1>9, <2>1, SessionKeys DEF OfStep, In
    <2> QED
      BY <2>1, <2>2, RowsAre
  <1> QED
    BY <1>8, <1>9

LEMMA SampleIsWhole ==
  ASSUME IInv, SInv, Sample
  PROVE  LET rows == batch'[current.part]
         IN /\ \A k \in PromptsOf(current) : Finished(k) =>
                 SessionsOf(k) \cap RowsIn(queue) \subseteq rows
            /\ current.no = 1 => \A r \in rows : r.batch = current
            /\ \A r \in rows : r.batch.part = current.part /\ r.batch.step = current.step
  <1> USE DEF IInv, SInv
  <1> DEFINE rows == batch'[current.part]
  <1>0. current \in Batches /\ current.part \in Parts
    BY BatchIs DEF TypeOK
  <1>1. rows = RowsIn(OfStep)
    BY <1>0 DEF Sample, RowsIn, TypeOK
  <1>2. \A k \in PromptsOf(current) : Finished(k) =>
          SessionsOf(k) \cap RowsIn(queue) \subseteq rows
    BY <1>1, FinishedKnown DEF Sample
  <1>3. ASSUME NEW r \in rows
        PROVE  r.batch.part = current.part /\ r.batch.step = current.step /\ r \in Keys /\ r \in InPlay
    <2>1. PICK i \in OfStep : IsRow(i) /\ i.key = r
      BY <1>1, RowsAre
    <2>2. i \in buffer /\ r.batch.part = current.part /\ r.batch.step = current.step
      BY <2>1 DEF OfStep, In
    <2> QED
      BY <2>1, <2>2, ItemIs DEF TypeOK, InPlay, Known
  <1>4. ASSUME current.no = 1, NEW r \in rows
        PROVE  r.batch = current
    <2>1. r.batch \in Batches
      BY <1>3 DEF Keys
    <2>2. r.batch.no = 1
      <3>1. r.batch.no \in 1 .. ValBatches
        BY <2>1, BatchIs
      <3> QED
        BY <1>3, <1>4, <3>1, BufferAssumption DEF Numbered
    <2> QED
      BY <1>0, <1>3, <1>4, <2>1, <2>2 DEF Batches
  <1> QED
    BY <1>2, <1>3, <1>4

-------------------------------------------------------------------------------
(* The trainer's other steps. *)

LEMMA SampleSInv == ASSUME IInv, SInv, Sample PROVE SInv'
  <1> USE DEF IInv, SInv
  <1>0. /\ stage = "waiting" /\ stage' = "sampled"
        /\ batch' = [batch EXCEPT ![current.part] = RowsIn(OfStep)]
        /\ UNCHANGED <<current, pending, broken, empty, queue, buffer, polled, adding>>
    BY DEF Sample, sessionVars, pollVars, RowsIn
  <1>1. Numbered' /\ ReportsOnce' /\ Settled' /\ Marked' /\ Whole(polled)' /\ Whole(buffer)'
    BY <1>0 DEF Numbered, InPlay, ReportsOnce, Settled, Marked, Whole, Known
  <1>2. Apart'
    <2>1. \A k \in RowsIn(OfStep) : k \notin pending
      BY RowsAre DEF Apart, Known, OfStep, In
    <2>2. \A p \in Parts : batch'[p] \in {batch[p], RowsIn(OfStep)}
      BY <1>0 DEF TypeOK
    <2>3. \A p \in Parts : batch'[p] \cap pending = {}
      BY <2>1, <2>2 DEF Apart
    <2> QED
      BY <1>0, <2>3 DEF Apart, Known
  <1> QED
    BY <1>1, <1>2

LEMMA UseTrainSInv == ASSUME IInv, SInv, UseTrain PROVE SInv'
  <1> USE DEF IInv, SInv
  <1>0. PICK rows \in {{}, {Pad}} :
          /\ queue' = Put(queue, Tagged(rows, "success"))
          /\ batch' = [batch EXCEPT !["train"] = @ \cup rows]
    BY DEF UseTrain
  <1>1. /\ stage = "sampled" /\ current.part = "train" /\ current \in Batches
        /\ UNCHANGED <<pending, broken, empty, buffer, polled, adding>>
        /\ \/ current' = [current EXCEPT !.part = "val"] /\ stage' = "ready"
           \/ current' = current /\ stage' = "used"
    BY DEF UseTrain, sessionVars, pollVars, TypeOK
  <1>2. /\ current'.step = current.step /\ current'.no = current.no
        /\ stage' = "ready" => current'.part = "val"
        /\ stage' = "used" => current'.part = "train"
    BY <1>1 DEF Batches
  <1>3. \A k \in rows : /\ k.batch = current /\ k.prompt = NoPrompt /\ k.session # NoSession
    BY <1>0 DEF Pad, NoSession
  <1>4. \A i \in queue' \ queue : IsRow(i) /\ i.key \in rows
    BY <1>0, PutIs, TaggedIs DEF IsRow
  <1>5. RowsIn(queue') \subseteq RowsIn(queue) \cup rows
    BY <1>4, RowsAre
  <1>6. Numbered'
    <2>1. \A k \in InPlay : k.batch.part = "val" => k.batch.step # current.step
      BY <1>1, BatchIs, BufferAssumption DEF NothingEarly, ValBegun
    <2>2. \A k \in InPlay' : k \in InPlay \/ k.batch = current
      BY <1>1, <1>3, <1>4 DEF InPlay, Known
    <2> QED
      BY <1>1, <1>2, <2>1, <2>2 DEF Numbered
  <1>7. ReportsOnce'
    <2>1. ASSUME NEW i \in queue', NEW j \in queue', i.key = j.key
          PROVE  i = j
      <3>1. i \in queue /\ j \in queue => i = j
        BY <2>1 DEF ReportsOnce
      <3>2. \A h \in Tagged(rows, "success") : h = [key |-> h.key, status |-> "success"]
        BY TaggedIs
      <3>3. \A h \in queue' : h \in Tagged(rows, "success") \/
              (h \in queue /\ \A g \in Tagged(rows, "success") : g.key # h.key)
        BY <1>0 DEF Put
      <3> QED
        BY <2>1, <3>1, <3>2, <3>3
    <2>2. \A i \in Known' : i.status \in Reports => i \in queue'
      <3>1. ASSUME NEW i \in queue, i.status \in Reports
            PROVE  i \in queue'
        <4>1. i.key \notin rows
          BY <1>3, <3>1 DEF RowsAreSessions, Reports, IsRow
        <4> QED
          BY <1>0, <4>1, PutIs, TaggedIs
      <3> QED
        BY <1>1, <3>1 DEF ReportsOnce, Known
    <2> QED
      BY <2>1, <2>2 DEF ReportsOnce
  <1>8. Apart'
    <2>1. \A k \in rows : k \notin pending
      BY <1>3 DEF Apart
    <2>2. \A i \in queue' \cup Known' : i.key \notin pending /\ (IsRow(i) \/ i.key.prompt # NoPrompt)
      BY <1>1, <1>4, <2>1 DEF Apart, Known
    <2>3. batch'["train"] = batch["train"] \cup rows /\ batch'["val"] = batch["val"]
      BY <1>0 DEF TypeOK, Parts
    <2>4. \A p \in Parts : batch'[p] \cap pending = {}
      BY <2>1, <2>3 DEF Apart, Parts
    <2> QED
      BY <1>1, <2>2, <2>4 DEF Apart
  <1>9. Settled'
    BY <1>1, <1>4 DEF Settled, Known, IsRow
  <1>10. \A i \in Known : i.status = "finished" => SessionsOf(i.key) \cap rows = {}
    <2>1. ASSUME NEW i \in Known, i.status = "finished", NEW s \in SessionsOf(i.key)
          PROVE  s \notin rows
      <3>1. i.key \in Keys /\ i.key.prompt # NoPrompt
        BY <2>1, ItemIs DEF TypeOK, Known, Apart, IsRow
      <3> QED
        BY <1>3, <3>1, SessionKeys
    <2> QED
      BY <2>1
  <1>11. Whole(polled)' /\ Whole(buffer)'
    BY <1>1, <1>5, <1>10, WholeStays DEF Whole, Known
  <1>12. Marked'
    BY <1>1 DEF Marked
  <1> QED
    BY <1>6, <1>7, <1>8, <1>9, <1>11, <1>12

LEMMA UseValSInv == ASSUME IInv, SInv, UseVal PROVE SInv'
  BY DEF IInv, SInv, UseVal, sessionVars, pollVars, Numbered, InPlay, ReportsOnce, Apart, Settled,
     Marked, Whole, Known, RowsIn

LEMMA ClearSInv == ASSUME IInv, SInv, Clear PROVE SInv'
  <1> USE DEF IInv, SInv
  <1>0. /\ stage = "used" /\ stage' = "cleared"
        /\ queue' = {i \in queue : i.key \notin batch[current.part]}
        /\ UNCHANGED <<current, batch, pending, broken, empty, buffer, polled, adding>>
    BY DEF Clear, sessionVars, pollVars
  <1>1. current.part \in Parts
    BY BatchIs DEF TypeOK
  <1>2. Numbered' /\ Settled' /\ Marked'
    BY <1>0 DEF Numbered, InPlay, Settled, Marked, Known
  <1>3. ReportsOnce'
    <2>1. \A i \in queue : i.status \in Reports => i \in queue'
      BY <1>0, <1>1 DEF InUse, RowsAreSessions, Reports, IsRow
    <2> QED
      BY <1>0, <2>1 DEF ReportsOnce, Known
  <1>4. RowsIn(queue') \subseteq RowsIn(queue) /\ batch[current.part] \cap RowsIn(queue') = {}
    BY <1>0 DEF RowsIn
  <1>5. Apart'
    BY <1>0, <1>4 DEF Apart, Known, RowsIn
  <1>6. Whole(polled)' /\ Whole(buffer)'
    BY <1>0, <1>4 DEF Whole, RowsIn
  <1> QED
    BY <1>2, <1>3, <1>5, <1>6

(* What leaves the buffer has left the queue before.                         *)
LEMMA RemoveSInv == ASSUME IInv, SInv, Remove PROVE SInv'
  <1> USE DEF IInv, SInv
  <1>0. /\ stage = "cleared" /\ current \in Batches
        /\ buffer' = {i \in buffer : i.key \notin batch[current.part]}
        /\ batch' = [batch EXCEPT ![current.part] = {}]
        /\ UNCHANGED <<pending, broken, empty, queue, polled, adding>>
        /\ stage' \in {"ready", "used", "done"}
    BY DEF Remove, sessionVars, pollVars, TypeOK
  <1>1. /\ current.part \in Parts /\ current.step \in 1 .. MaxSteps
        /\ current.no \in 1 .. ValBatches
    BY <1>0, BatchIs
  <1>2. InPlay' \subseteq InPlay /\ Known' \subseteq Known
    BY <1>0 DEF InPlay, Known
  <1>3. Numbered'
    <2>1. \A k \in InPlay : k.batch \in Batches
      BY ItemIs DEF TypeOK, InPlay, Known, Keys
    <2>2. \A k \in InPlay : k.batch.no \in 1 .. ValBatches /\ k.batch.step \in 1 .. MaxSteps
      BY <2>1, BatchIs
    <2>3. CASE /\ current.part = "val" /\ current.no < ValBatches
               /\ current' = [current EXCEPT !.no = @ + 1] /\ stage' = "ready"
      <3>1. current'.part = "val" /\ current'.step = current.step /\ current'.no = current.no + 1
        BY <1>0, <2>3 DEF Batches
      <3>2. \A k \in InPlay : k.batch.part = "val" /\ k.batch.step = current.step =>
              k.batch.no < current.no + 1
        BY <1>1, <2>2, <2>3, BufferAssumption DEF Numbered
      <3> QED
        BY <1>2, <3>1, <3>2 DEF Numbered
    <2>4. CASE /\ current.part = "val" /\ current' = Train(current.step) /\ stage' = "used"
      <3>1. current'.part = "train" /\ current'.step = current.step /\ current'.no = 1
        BY <1>1, <2>4, TrainIs
      <3> QED
        BY <1>2, <2>4, <3>1 DEF Numbered
    <2>5. CASE /\ current.part = "train" /\ current.step < MaxSteps
               /\ current' = Train(current.step + 1) /\ stage' = "ready"
      <3>0. current.step + 1 \in 1 .. MaxSteps
        BY <1>1, <2>5, BufferAssumption
      <3>1. current'.part = "train" /\ current'.step = current.step + 1 /\ current'.no = 1
        BY <2>5, <3>0, TrainIs
      <3>2. \A k \in InPlay : k.batch.step # current.step + 1
        BY <1>1, <2>2, BufferAssumption DEF NothingEarly
      <3> QED
        BY <1>2, <3>1, <3>2 DEF Numbered
    <2>6. CASE current.part = "train" /\ stage' = "done" /\ current' = current
      BY <1>0, <1>2, <2>6 DEF Numbered
    <2> QED
      BY <2>3, <2>4, <2>5, <2>6 DEF Remove
  <1>4. ReportsOnce' /\ Settled'
    BY <1>0, <1>2 DEF ReportsOnce, Settled
  <1>5. Apart'
    <2>1. \A p \in Parts : batch'[p] \subseteq batch[p]
      BY <1>0, <1>1 DEF TypeOK
    <2> QED
      BY <1>0, <1>2, <2>1 DEF Apart
  <1>6. Whole(polled)'
    BY <1>0 DEF Whole
  <1>7. Whole(buffer)'
    <2>1. \A k \in RowsIn(buffer) : k \notin batch[current.part] => k \in RowsIn(buffer')
      BY <1>0 DEF RowsIn
    <2> QED
      BY <1>0, <2>1 DEF Whole, Apart
  <1>8. Marked'
    BY <1>0 DEF Marked
  <1> QED
    BY <1>3, <1>4, <1>5, <1>6, <1>7, <1>8

-------------------------------------------------------------------------------
(* The others' steps. *)

LEMMA EndSInv == ASSUME IInv, SInv, NEW s \in pending, End(s) PROVE SInv'
  <1> USE DEF IInv, SInv
  <1>s. s \in Keys /\ s.session # NoSession /\ s.prompt # NoPrompt
    BY DEF TypeOK, RowsAreSessions, Apart
  <1>0. /\ UNCHANGED <<stage, current, batch, buffer, polled, adding>>
        /\ pending' = pending \ {s}
        /\ queue' = queue \/ queue' = Put(queue, Tagged({s}, "success"))
    BY DEF End, Output, Empty, Raise, pollVars, trainerVars
  <1>1. queue \subseteq queue'
    <2>1. \A i \in queue, j \in Tagged({s}, "success") : j.key # i.key
      BY TaggedIs DEF Apart
    <2> QED
      BY <1>0, <2>1, PutIs
  <1>2. \A i \in queue' \ queue : IsRow(i) /\ i.key = s /\ i = [key |-> s, status |-> "success"]
    BY <1>0, PutIs, TaggedIs DEF IsRow
  <1>3. RowsIn(queue') \subseteq RowsIn(queue) \cup {s}
    BY <1>2, RowsAre
  <1>4. InPlay' \subseteq InPlay
    BY <1>0, <1>2 DEF InPlay, Known
  <1>5. Numbered' /\ Marked'
    BY <1>0, <1>4 DEF Numbered, Marked
  <1>6. ReportsOnce'
    <2>1. \A i \in queue : i.key # s
      BY DEF Apart
    <2> QED
      BY <1>0, <1>1, <1>2, <2>1 DEF ReportsOnce, Known
  <1>7. Apart'
    <2>1. \A i \in queue' \cup Known : i.key \notin pending' /\ (IsRow(i) \/ i.key.prompt # NoPrompt)
      BY <1>0, <1>2, <1>s DEF Apart
    <2>2. stage = "cleared" => batch[current.part] \cap RowsIn(queue') = {}
      <3>1. current.part \in Parts
        BY BatchIs DEF TypeOK
      <3> QED
        BY <1>3, <3>1 DEF Apart
    <2> QED
      BY <1>0, <2>1, <2>2 DEF Apart, Known, RowsIn
  <1>8. Settled'
    BY <1>0, <1>2 DEF Settled, Known, IsRow
  <1>9. \A i \in Known : i.status = "finished" => SessionsOf(i.key) \cap {s} = {}
    BY DEF Settled
  <1>10. Whole(polled)' /\ Whole(buffer)'
    BY <1>0, <1>3, <1>9, WholeStays DEF Whole, Known
  <1> QED
    BY <1>5, <1>6, <1>7, <1>8, <1>10

LEMMA ReportSInv == ASSUME IInv, SInv, NEW k \in Dispatched, Report(k) PROVE SInv'
  <1> USE DEF IInv, SInv
  <1>0. PICK status \in Reports :
          /\ queue' = Put(queue, Tagged({k}, status))
          /\ ~Reported(k)
          /\ status = "finished" => SessionsOf(k) \cap pending = {}
          /\ UNCHANGED <<stage, current, batch, pending, broken, empty, buffer, polled, adding>>
    BY DEF Report, ReportFinished, ReportFailure, sessionVars, pollVars, trainerVars, Reports
  <1>k. /\ k.session = NoSession /\ k.prompt # NoPrompt /\ k \in InPlay /\ k \notin pending
    BY DEF Dispatched, Apart, RowsAreSessions, Known, InPlay
  <1>1. queue \subseteq queue'
    <2>1. \A i \in queue, j \in Tagged({k}, status) : j.key # i.key
      BY <1>0, TaggedIs DEF Reported
    <2> QED
      BY <1>0, <2>1, PutIs
  <1>2. \A i \in queue' \ queue : i.key = k /\ i = [key |-> k, status |-> status] /\ ~IsRow(i)
    <2>1. \A i \in Tagged({k}, status) : i.key = k /\ i = [key |-> k, status |-> status] /\ i.status = status
      BY TaggedIs
    <2>2. queue' \subseteq queue \cup Tagged({k}, status)
      BY <1>0, PutIs
    <2> QED
      BY <2>1, <2>2 DEF IsRow, Reports
  <1>3. RowsIn(queue') \subseteq RowsIn(queue)
    BY <1>2, RowsAre
  <1>4. InPlay' \subseteq InPlay
    BY <1>0, <1>2, <1>k DEF InPlay, Known
  <1>5. Numbered' /\ Marked'
    BY <1>0, <1>4 DEF Numbered, Marked
  <1>6. ReportsOnce'
    <2>1. \A i \in queue : i.key # k
      BY <1>0 DEF Reported
    <2>2. \A i, j \in queue' : i.key = j.key => i = j
      <3> SUFFICES ASSUME NEW i \in queue', NEW j \in queue', i.key = j.key
                   PROVE  i = j
        OBVIOUS
      <3>1. CASE i \in queue /\ j \in queue
        BY <3>1 DEF ReportsOnce
      <3>2. CASE i \notin queue \/ j \notin queue
        BY <1>2, <2>1, <3>2
      <3> QED
        BY <3>1, <3>2
    <2>3. \A i \in Known' : i.status \in Reports => i \in queue'
      BY <1>0, <1>1 DEF ReportsOnce, Known
    <2> QED
      BY <2>2, <2>3 DEF ReportsOnce
  <1>7. Apart'
    <2>1. \A i \in queue' \cup Known : i.key \notin pending /\ (IsRow(i) \/ i.key.prompt # NoPrompt)
      BY <1>2, <1>k DEF Apart
    <2> QED
      BY <1>0, <1>3, <2>1 DEF Apart, Known, RowsIn
  <1>8. Settled'
    <2>1. \A i \in queue' \ queue : i.status = "finished" => SessionsOf(i.key) \cap pending = {}
      BY <1>0, <1>2
    <2> QED
      BY <1>0, <2>1 DEF Settled, Known
  <1>9. Whole(polled)' /\ Whole(buffer)'
    BY <1>0, <1>3 DEF Whole, RowsIn
  <1> QED
    BY <1>5, <1>6, <1>7, <1>8, <1>9

LEMMA PollReadSInv == ASSUME IInv, SInv, PollRead PROVE SInv'
  <1> USE DEF IInv, SInv
  <1>0. /\ UNCHANGED <<stage, current, batch, pending, broken, empty, queue, buffer>>
        /\ polled' = queue
    BY DEF PollRead, sessionVars, trainerVars
  <1>1. Numbered' /\ ReportsOnce' /\ Settled' /\ Marked'
    BY <1>0 DEF Numbered, InPlay, ReportsOnce, Settled, Marked, Known
  <1>2. Apart'
    BY <1>0 DEF Apart, Known, RowsIn
  <1>3. Whole(polled)' /\ Whole(buffer)'
    BY <1>0 DEF Whole, RowsIn
  <1> QED
    BY <1>1, <1>2, <1>3

(* A partition is added as it was read: the rows of a prompt with its report. *)
LEMMA PollAddSInv == ASSUME IInv, SInv, NEW p \in Parts, PollAdd(p) PROVE SInv'
  <1> USE DEF IInv, SInv
  <1>0. /\ UNCHANGED <<stage, current, batch, pending, broken, empty, queue>>
        /\ buffer' = Put(buffer, In(p, polled))
        /\ polled' = polled \ In(p, polled)
    BY DEF PollAdd, sessionVars, trainerVars
  <1>1. buffer' \subseteq buffer \cup polled /\ In(p, polled) \subseteq buffer'
    BY <1>0, PutIs DEF In
  <1>2. Known' \subseteq Known /\ InPlay' \subseteq InPlay
    BY <1>0, <1>1 DEF Known, InPlay
  <1>3. Numbered' /\ ReportsOnce' /\ Settled'
    BY <1>0, <1>2 DEF Numbered, ReportsOnce, Settled
  <1>4. Apart'
    BY <1>0, <1>2 DEF Apart, RowsIn
  <1>5. Marked'
    <2>1. \A i \in buffer : \E j \in buffer' : j.key = i.key
      <3>1. \A i \in buffer : i \in buffer' \/ \E j \in In(p, polled) : j.key = i.key
        BY <1>0, PutIs
      <3> QED
        BY <1>1, <3>1
    <2> QED
      BY <1>0, <2>1 DEF Marked
  <1>6. \A i \in buffer : IsRow(i) => i \in buffer'
    <2>1. ASSUME NEW i \in buffer, NEW j \in In(p, polled), IsRow(i), i.key = j.key
          PROVE  i = j
      <3>1. i \in Items /\ j \in Items /\ IsRow(j)
        BY <2>1 DEF TypeOK, RowsAreSessions, Known, In
      <3> QED
        BY <2>1, <3>1, ItemIs DEF IsRow
    <2> QED
      BY <1>0, <2>1, PutRows
  <1>7. ASSUME NEW i \in polled, NEW r \in polled, r.key \in SessionsOf(i.key)
        PROVE  i \in In(p, polled) <=> r \in In(p, polled)
    <2>1. i.key \in Keys
      BY ItemIs DEF TypeOK
    <2>2. r.key.batch = i.key.batch
      BY <1>7, <2>1, SessionKeys
    <2> QED
      BY <2>2 DEF In
  <1>8. Whole(polled)'
    <2> SUFFICES ASSUME NEW i \in polled', i.status = "finished",
                        NEW k \in SessionsOf(i.key), k \in RowsIn(queue)
                 PROVE  k \in RowsIn(polled')
      BY <1>0 DEF Whole, RowsIn
    <2>1. i \in polled /\ i \notin In(p, polled)
      BY <1>0
    <2>2. PICK r \in polled : IsRow(r) /\ r.key = k
      BY <2>1, RowsAre DEF Whole
    <2>3. r \in polled'
      BY <1>0, <1>7, <2>1, <2>2
    <2> QED
      BY <2>2, <2>3, RowsAre
  <1>9. Whole(buffer)'
    <2> SUFFICES ASSUME NEW i \in buffer', i.status = "finished",
                        NEW k \in SessionsOf(i.key), k \in RowsIn(queue)
                 PROVE  k \in RowsIn(buffer')
      BY <1>0 DEF Whole, RowsIn
    <2>1. CASE i \in buffer
      BY <1>6, <2>1, RowsAre DEF Whole
    <2>2. CASE i \in In(p, polled)
      <3>1. i \in polled
        BY <2>2 DEF In
      <3>2. PICK r \in polled : IsRow(r) /\ r.key = k
        BY <3>1, RowsAre DEF Whole
      <3>3. r \in buffer'
        BY <1>1, <1>7, <2>2, <3>1, <3>2
      <3> QED
        BY <3>2, <3>3, RowsAre
    <2> QED
      BY <1>0, <2>1, <2>2, PutIs
  <1> QED
    BY <1>3, <1>4, <1>5, <1>8, <1>9

LEMMA NextSInv == ASSUME IInv, SInv, [Next]_vars PROVE SInv'
  <1>1. CASE Trainer
    BY <1>1, DispatchSInv, SampleSInv, UseTrainSInv, UseValSInv, ClearSInv, RemoveSInv DEF Trainer
  <1>2. CASE Worker
    BY <1>2, EndSInv, ReportSInv DEF Worker
  <1>3. CASE Poll
    BY <1>3, PollReadSInv, PollAddSInv DEF Poll
  <1>4. CASE UNCHANGED vars
    BY <1>4 DEF vars, trainerVars, sessionVars, pollVars, SInv, Numbered, InPlay, ReportsOnce, Apart,
         Settled, Marked, Whole, Known, RowsIn
  <1> QED
    BY <1>1, <1>2, <1>3, <1>4 DEF Next

(* The trainer samples a batch with every output of every prompt that         *)
(* finished and with rows of no other batch, however far the poll thread lags *)
(* behind; a later batch of one validation may get rows of an earlier one.    *)
THEOREM BatchIsWhole == Spec => SampleIsBatch
  <1>1. Init => SInv
    BY InitSInv
  <1>2. IInv /\ SInv /\ [Next]_vars => SInv'
    BY NextSInv
  <1>3. IInv /\ SInv /\ [Next]_vars =>
          [Sample =>
             LET rows == batch'[current.part]
             IN /\ \A k \in PromptsOf(current) : Finished(k) =>
                     SessionsOf(k) \cap RowsIn(queue) \subseteq rows
                /\ current.no = 1 => \A r \in rows : r.batch = current
                /\ \A r \in rows : r.batch.part = current.part /\ r.batch.step = current.step]_vars
    BY SampleIsWhole
  <1> QED
    BY <1>1, <1>2, <1>3, BufferInvariance, PTL DEF Spec, SampleIsBatch

-------------------------------------------------------------------------------
(* What stays in the queue. *)

Rows == RowsIn(queue) \cup pending
Failed(r) == SessionsOf(PromptOf(r)) \cap broken # {}

(* A row is of a session of one of its batch's prompts, or fills the batch up *)
(* once that was sampled.                                                     *)
Prompted ==
  \A r \in Rows :
    \/ r.prompt # NoPrompt /\ PromptOf(r) \in PromptsOf(r.batch) /\ r \in SessionsOf(PromptOf(r))
    \/ /\ r.prompt = NoPrompt /\ r.batch.part = "train"
       /\ r.batch = current => stage \in {"used", "cleared", "done"}

(* A prompt fails by a session that raised.                                   *)
Explained == \A i \in queue \cup Known : i.status = "failure" => SessionsOf(i.key) \cap broken # {}

(* Once a batch is sampled, it has the rows of its prompts that have not      *)
(* failed, and none of their sessions runs; so it is until it is over.        *)
Sampled(b) == \/ b = current /\ stage \in {"sampled", "used", "cleared"}
              \/ current.part = "val" /\ b = Train(current.step)
Covered == \A r \in Rows : Sampled(r.batch) => r \in batch[r.batch.part] \/ Failed(r)
Left == \A r \in Rows : r.batch \in Open \/ Failed(r)

LInv == Prompted /\ Explained /\ Covered /\ Left

LEMMA SessionOfPrompt ==
  ASSUME NEW k \in Keys, k.session = NoSession, NEW s \in SessionsOf(k)
  PROVE  PromptOf(s) = k
  <1>1. PICK i \in 1 .. Sessions : s = [k EXCEPT !.session = i]
    BY BufferAssumption DEF SessionsOf
  <1> QED
    BY <1>1 DEF Keys, PromptOf

LEMMA RowsKnown ==
  ASSUME IInv
  PROVE  \A r \in Rows : r \in Keys /\ r \in InPlay /\ r.batch \in Batches
  <1>1. \A r \in Rows : r \in Keys /\ r \in InPlay
    BY RowsAre, ItemIs DEF Rows, IInv, TypeOK, InPlay
  <1> QED
    BY <1>1 DEF Keys

LEMMA FailedStays ==
  ASSUME broken \subseteq broken', NEW r, Failed(r)
  PROVE  Failed(r)'
  BY DEF Failed

LEMMA InitLInv == Init => LInv
  BY DEF Init, LInv, Prompted, Explained, Covered, Left, Rows, RowsIn, Known

LEMMA DispatchLInv == ASSUME IInv, SInv, LInv, Dispatch PROVE LInv'
  <1> USE DEF IInv, LInv
  <1>0. /\ stage = "ready" /\ stage' = "waiting" /\ current \in Batches
        /\ buffer' = Put(buffer, Tagged(PromptsOf(current), "running"))
        /\ pending' = pending \cup UNION {SessionsOf(k) : k \in PromptsOf(current)}
        /\ UNCHANGED <<current, batch, broken, empty, queue, polled, adding>>
    BY DEF Dispatch, pollVars, TypeOK
  <1>1. \A k \in PromptsOf(current) : k \in Keys /\ k.batch = current /\ k.session = NoSession
                                      /\ k.prompt # NoPrompt
    BY <1>0, PromptKeys DEF PromptsOf, NoPrompt
  <1>2. ASSUME NEW r \in Rows', r \notin Rows
        PROVE  /\ r.prompt # NoPrompt /\ r.batch = current
               /\ PromptOf(r) \in PromptsOf(r.batch) /\ r \in SessionsOf(PromptOf(r))
    <2>1. PICK k \in PromptsOf(current) : r \in SessionsOf(k)
      BY <1>0, <1>2 DEF Rows, RowsIn
    <2>2. PromptOf(r) = k
      BY <1>1, <2>1, SessionOfPrompt
    <2>3. r.batch = k.batch /\ r.prompt = k.prompt
      BY <1>1, <2>1, SessionKeys
    <2> QED
      BY <1>1, <2>1, <2>2, <2>3
  <1>3. Prompted'
    <2>1. \A r \in Rows : r.prompt = NoPrompt => r.batch # current
      BY <1>0 DEF Prompted
    <2> QED
      BY <1>0, <1>2, <2>1 DEF Prompted, PromptsOf
  <1>4. Explained'
    <2>1. \A i \in buffer' \ buffer : i.status = "running"
      BY <1>0, PutIs, TaggedIs
    <2> QED
      BY <1>0, <2>1 DEF Explained, Known
  <1>5. Covered'
    <2>1. \A r \in Rows' \ Rows : ~Sampled(r.batch)'
      <3>1. current.step \in 1 .. MaxSteps
        BY <1>0, BatchIs
      <3>2. current.part = "val" => current # Train(current.step)
        BY <3>1, TrainIs
      <3> QED
        BY <1>0, <1>2, <3>2 DEF Sampled
    <2>2. \A r \in Rows : Sampled(r.batch)' => Sampled(r.batch)
      BY <1>0 DEF Sampled
    <2> QED
      BY <1>0, <2>1, <2>2 DEF Covered, Failed
  <1>6. Left'
    BY <1>0, <1>2 DEF Left, Open, Failed
  <1> QED
    BY <1>3, <1>4, <1>5, <1>6

(* When none of its prompts is running, a row of the batch is sampled or its  *)
(* prompt has failed.                                                         *)
LEMMA SampleLInv == ASSUME IInv, SInv, LInv, Sample PROVE LInv'
  <1> USE DEF IInv, SInv, LInv
  <1>0. /\ stage = "waiting" /\ stage' = "sampled"
        /\ \A i \in OfStep : i.status # "running"
        /\ batch' = [batch EXCEPT ![current.part] = RowsIn(OfStep)]
        /\ UNCHANGED <<current, pending, broken, empty, queue, buffer, polled, adding>>
    BY DEF Sample, sessionVars, pollVars, RowsIn
  <1>1. current \in Batches /\ current.part \in Parts /\ current.step \in 1 .. MaxSteps
    BY BatchIs DEF TypeOK
  <1>2. Prompted' /\ Explained' /\ Left'
    BY <1>0 DEF Prompted, Explained, Left, Open, Failed, Rows, RowsIn, Known, PromptsOf
  <1>3. ASSUME NEW r \in Rows, r.batch = current
        PROVE  r \in RowsIn(OfStep) \/ Failed(r)
    <2> DEFINE k == PromptOf(r)
    <2>1. k \in PromptsOf(current) /\ r \in SessionsOf(k)
      BY <1>0, <1>3 DEF Prompted
    <2>2. k \in Keys /\ k.batch = current /\ k.session = NoSession
      BY <1>1, <2>1, PromptKeys
    <2>3. PICK i \in buffer : i.key = k
      BY <1>0, <2>1 DEF Marked
    <2>4. i \in Items /\ i \in OfStep /\ ~IsRow(i)
      BY <2>2, <2>3 DEF TypeOK, OfStep, In, RowsAreSessions, Known
    <2>5. i.status \in Reports
      BY <1>0, <2>4 DEF Items, Reports, IsRow
    <2>6. i \in queue
      BY <2>5 DEF ReportsOnce, Known
    <2>7. CASE i.status = "failure"
      BY <2>3, <2>6, <2>7 DEF Explained, Failed
    <2>8. CASE i.status = "finished"
      <3>1. Finished(k)
        BY <2>3, <2>6, <2>8 DEF Finished
      <3>2. r \in RowsIn(queue)
        BY <2>1, <2>3, <2>6, <2>8 DEF Settled, Rows
      <3> QED
        BY <1>0, <2>1, <3>1, <3>2, FinishedKnown
    <2> QED
      BY <2>5, <2>7, <2>8 DEF Reports
  <1>4. Covered'
    <2> SUFFICES ASSUME NEW r \in Rows, Sampled(r.batch)'
                 PROVE  r \in batch'[r.batch.part] \/ Failed(r)
      BY <1>0 DEF Covered, Rows, RowsIn, Failed
    <2>1. CASE r.batch = current
      BY <1>0, <1>1, <1>3, <2>1 DEF TypeOK
    <2>2. CASE r.batch # current
      <3>1. current.part = "val" /\ r.batch = Train(current.step)
        BY <1>0, <2>2 DEF Sampled
      <3>2. r.batch.part = "train"
        BY <1>1, <3>1, TrainIs
      <3>3. batch'["train"] = batch["train"]
        BY <1>0, <3>1 DEF TypeOK, Parts
      <3> QED
        BY <3>1, <3>2, <3>3 DEF Covered, Sampled
    <2> QED
      BY <2>1, <2>2
  <1> QED
    BY <1>2, <1>4

LEMMA UseTrainLInv == ASSUME IInv, SInv, LInv, UseTrain PROVE LInv'
  <1> USE DEF IInv, LInv
  <1>0. PICK rows \in {{}, {Pad}} :
          /\ queue' = Put(queue, Tagged(rows, "success"))
          /\ batch' = [batch EXCEPT !["train"] = @ \cup rows]
    BY DEF UseTrain
  <1>1. /\ stage = "sampled" /\ current.part = "train" /\ current \in Batches
        /\ UNCHANGED <<pending, broken, empty, buffer, polled, adding>>
        /\ \/ current' = [current EXCEPT !.part = "val"] /\ stage' = "ready"
           \/ current' = current /\ stage' = "used"
    BY DEF UseTrain, sessionVars, pollVars, TypeOK
  <1>2. current = Train(current.step)
    <2>1. current.no = 1
      BY <1>1 DEF SInv, Numbered
    <2> QED
      BY <1>1, <2>1 DEF Batches, Train
  <1>3. \A r \in rows : r.batch = current /\ r.prompt = NoPrompt
    BY <1>0 DEF Pad
  <1>4. Rows' \subseteq Rows \cup rows
    <2>1. \A i \in queue' : i \in queue \/ i.key \in rows
      BY <1>0, PutIs, TaggedIs
    <2> QED
      BY <1>1, <2>1, RowsAre DEF Rows
  <1>5. batch'["train"] = batch["train"] \cup rows
    BY <1>0 DEF TypeOK, Parts
  <1>6. /\ stage' = "ready" => current'.part = "val" /\ current'.step = current.step
        /\ current \in Open'
    <2>1. CASE current' = [current EXCEPT !.part = "val"] /\ stage' = "ready"
      <3>1. current'.part = "val" /\ current'.step = current.step
        BY <1>1, <2>1 DEF Batches
      <3> QED
        BY <1>2, <2>1, <3>1 DEF Open
    <2>2. CASE current' = current /\ stage' = "used"
      BY <2>2 DEF Open
    <2> QED
      BY <1>1, <2>1, <2>2
  <1>7. \A r \in Rows : r.batch # current => ~Sampled(r.batch)'
    BY <1>1, <1>2, <1>6 DEF Sampled
  <1>8. Prompted'
    <2>1. \A r \in Rows : r.prompt = NoPrompt => r.batch.part = "train" /\ r.batch # current
      BY <1>1 DEF Prompted
    <2>2. \A r \in Rows' : r.prompt = NoPrompt =>
            r.batch.part = "train" /\ (r.batch = current' => stage' = "used")
      BY <1>1, <1>3, <1>4, <1>6, <2>1
    <2> QED
      BY <1>3, <1>4, <2>2 DEF Prompted, PromptsOf
  <1>9. Explained'
    <2>1. \A i \in queue' : i \in queue \/ i.status = "success"
      BY <1>0, PutIs, TaggedIs
    <2> QED
      BY <1>1, <2>1 DEF Explained, Known
  <1>10. Covered'
    <2> SUFFICES ASSUME NEW r \in Rows', Sampled(r.batch)'
                 PROVE  r \in batch'[r.batch.part] \/ Failed(r)
      BY <1>1 DEF Covered, Failed
    <2>1. CASE r \in rows
      BY <1>1, <1>3, <1>5, <2>1
    <2>2. CASE r \in Rows
      <3>1. r.batch = current
        BY <1>7, <2>2
      <3>2. r \in batch["train"] \/ Failed(r)
        BY <1>1, <2>2, <3>1 DEF Covered, Sampled
      <3> QED
        BY <1>1, <1>5, <3>1, <3>2
    <2> QED
      BY <1>4, <2>1, <2>2
  <1>11. Left'
    <2>1. \A r \in Rows : r.batch = current \/ Failed(r)
      BY <1>2 DEF Left, Open
    <2> QED
      BY <1>1, <1>3, <1>4, <1>6, <2>1 DEF Left, Failed
  <1> QED
    BY <1>8, <1>9, <1>10, <1>11

LEMMA UseValLInv == ASSUME IInv, SInv, LInv, UseVal PROVE LInv'
  <1>0. /\ stage = "sampled" /\ stage' = "used" /\ current.part = "val"
        /\ UNCHANGED <<current, batch, pending, broken, empty, queue, buffer, polled, adding>>
    BY DEF UseVal, sessionVars, pollVars
  <1>1. Prompted' /\ Explained' /\ Left'
    BY <1>0 DEF LInv, Prompted, Explained, Left, Open, Failed, Rows, RowsIn, Known, PromptsOf
  <1>2. Covered'
    BY <1>0 DEF LInv, Covered, Sampled, Failed, Rows, RowsIn
  <1> QED
    BY <1>1, <1>2 DEF LInv

LEMMA ClearLInv == ASSUME IInv, SInv, LInv, Clear PROVE LInv'
  <1>0. /\ stage = "used" /\ stage' = "cleared" /\ queue' \subseteq queue
        /\ UNCHANGED <<current, batch, pending, broken, empty, buffer, polled, adding>>
    BY DEF Clear, sessionVars, pollVars
  <1>1. Rows' \subseteq Rows
    BY <1>0, RowsAre DEF Rows
  <1>2. Prompted' /\ Explained' /\ Left'
    BY <1>0, <1>1 DEF LInv, Prompted, Explained, Left, Open, Failed, Known, PromptsOf
  <1>3. Covered'
    BY <1>0, <1>1 DEF LInv, Covered, Sampled, Failed
  <1> QED
    BY <1>2, <1>3 DEF LInv

(* What is left of a batch that is over was cleared, or its prompt failed.    *)
LEMMA RemoveLInv == ASSUME IInv, SInv, LInv, Remove PROVE LInv'
  <1> USE DEF IInv, LInv
  <1>0. /\ stage = "cleared" /\ current \in Batches
        /\ batch' = [batch EXCEPT ![current.part] = {}]
        /\ buffer' \subseteq buffer
        /\ UNCHANGED <<pending, broken, empty, queue, polled, adding>>
    BY DEF Remove, sessionVars, pollVars, TypeOK
  <1>1. current.part \in Parts /\ current.step \in 1 .. MaxSteps /\ current.no \in 1 .. ValBatches
    BY <1>0, BatchIs
  <1>2. Rows' = Rows
    BY <1>0 DEF Rows, RowsIn
  <1>3. \A r \in Rows : r.batch = current => Failed(r)
    <2>1. \A r \in Rows : r \notin batch[current.part]
      BY <1>0, <1>1 DEF SInv, Apart, Rows
    <2> QED
      BY <1>0, <2>1 DEF Covered, Sampled
  <1>4. Explained'
    BY <1>0 DEF Explained, Known
  <1>5. CASE current.part = "val"
    <2>0. /\ \/ current' = [current EXCEPT !.no = @ + 1] /\ stage' = "ready"
             \/ current' = Train(current.step) /\ stage' = "used"
      BY <1>5 DEF Remove
    <2>1. Train(current.step) \in Open' /\ Train(current.step).part = "train"
      BY <1>0, <1>1, <2>0, TrainIs DEF Open, Batches
    <2>2. \A r \in Rows : r.batch = Train(current.step) \/ Failed(r)
      BY <1>3 DEF Left, Open
    <2>3. Left'
      BY <1>0, <1>2, <2>1, <2>2 DEF Left, Failed
    <2>4. \A r \in Rows : Sampled(r.batch)' => r.batch = Train(current.step)
      BY <1>0, <1>1, <2>0, TrainIs DEF Sampled, Batches
    <2>5. batch'["train"] = batch["train"]
      BY <1>0, <1>5 DEF TypeOK, Parts
    <2>6. Covered'
      BY <1>0, <1>2, <1>5, <2>1, <2>4, <2>5 DEF Covered, Sampled, Failed
    <2>7. Prompted'
      <3>1. stage' = "ready" => current'.part = "val"
        BY <1>0, <1>1, <1>5, <2>0, TrainIs DEF Batches
      <3>2. \A r \in Rows : r.prompt = NoPrompt => r.batch.part = "train"
        BY DEF Prompted
      <3> QED
        BY <1>2, <2>0, <3>1, <3>2 DEF Prompted, PromptsOf
    <2> QED
      BY <1>4, <2>3, <2>6, <2>7
  <1>6. CASE current.part = "train"
    <2>0. current = Train(current.step)
      BY <1>0, <1>6 DEF SInv, Numbered, Batches, Train
    <2>1. \A r \in Rows : Failed(r)
      BY <1>3, <2>0 DEF Left, Open
    <2>2. Left' /\ Covered'
      BY <1>0, <1>2, <2>1 DEF Left, Covered, Failed
    <2>3. CASE stage' = "done" /\ current' = current
      <3>1. Prompted'
        BY <1>0, <1>2, <2>3 DEF Prompted
      <3> QED
        BY <1>4, <2>2, <3>1
    <2>4. CASE current.step < MaxSteps /\ current' = Train(current.step + 1)
      <3>1. current'.step = current.step + 1
        BY <1>1, <2>4, BufferAssumption, TrainIs
      <3>2. \A r \in Rows : r.batch # current'
        BY <1>1, <3>1, RowsKnown DEF NothingEarly
      <3> QED
        BY <1>2, <3>2, <1>4, <2>2 DEF Prompted
    <2> QED
      BY <1>4, <1>6, <2>2, <2>3, <2>4 DEF Remove
  <1> QED
    BY <1>1, <1>5, <1>6 DEF Parts

LEMMA EndLInv == ASSUME IInv, SInv, LInv, NEW s \in pending, End(s) PROVE LInv'
  <1> USE DEF LInv
  <1>0. /\ UNCHANGED <<stage, current, batch, buffer, polled, adding>>
        /\ pending' = pending \ {s} /\ broken \subseteq broken'
        /\ queue' = queue \/ queue' = Put(queue, Tagged({s}, "success"))
    BY DEF End, Output, Empty, Raise, pollVars, trainerVars
  <1>1. \A i \in queue' : i \in queue \/ (i.key = s /\ i.status = "success")
    BY <1>0, PutIs, TaggedIs
  <1>2. Rows' \subseteq Rows
    BY <1>0, <1>1, RowsAre DEF Rows
  <1>3. \A r \in Rows : Failed(r) => Failed(r)'
    BY <1>0, FailedStays
  <1>4. Prompted'
    BY <1>0, <1>2 DEF Prompted, PromptsOf
  <1>5. Explained'
    BY <1>0, <1>1 DEF Explained, Known
  <1>6. Covered' /\ Left'
    BY <1>0, <1>2, <1>3 DEF Covered, Left, Sampled, Open
  <1> QED
    BY <1>4, <1>5, <1>6

LEMMA ReportLInv == ASSUME IInv, SInv, LInv, NEW k \in Dispatched, Report(k) PROVE LInv'
  <1> USE DEF LInv
  <1>0. PICK status \in Reports :
          /\ queue' = Put(queue, Tagged({k}, status))
          /\ status = "failure" => SessionsOf(k) \cap broken # {}
          /\ UNCHANGED <<stage, current, batch, pending, broken, empty, buffer, polled, adding>>
    BY DEF Report, ReportFinished, ReportFailure, sessionVars, pollVars, trainerVars, Reports
  <1>1. \A i \in queue' : i \in queue \/ (i.key = k /\ i.status = status)
    BY <1>0, PutIs, TaggedIs
  <1>2. Rows' \subseteq Rows
    BY <1>0, <1>1, RowsAre DEF Rows, IsRow, Reports
  <1>3. Prompted' /\ Covered' /\ Left'
    BY <1>0, <1>2 DEF Prompted, PromptsOf, Covered, Left, Sampled, Open, Failed
  <1>4. Explained'
    BY <1>0, <1>1 DEF Explained, Known
  <1> QED
    BY <1>3, <1>4

LEMMA PollLInv == ASSUME IInv, SInv, LInv, Poll PROVE LInv'
  <1> USE DEF LInv
  <1>0. /\ UNCHANGED <<stage, current, batch, pending, broken, empty, queue>>
        /\ buffer' \cup polled' \subseteq queue \cup buffer \cup polled
    <2>1. CASE PollRead
      BY <2>1 DEF PollRead, sessionVars, trainerVars
    <2>2. ASSUME NEW p \in Parts, PollAdd(p)
          PROVE  /\ UNCHANGED <<stage, current, batch, pending, broken, empty, queue>>
                 /\ buffer' \cup polled' \subseteq queue \cup buffer \cup polled
      <3>1. buffer' = Put(buffer, In(p, polled)) /\ polled' \subseteq polled
        BY <2>2 DEF PollAdd
      <3>2. In(p, polled) \subseteq polled
        BY DEF In
      <3> QED
        BY <2>2, <3>1, <3>2, PutIs DEF PollAdd, sessionVars, trainerVars
    <2> QED
      BY <2>1, <2>2 DEF Poll
  <1>1. Explained'
    BY <1>0 DEF Explained, Known
  <1>2. Prompted' /\ Covered' /\ Left'
    BY <1>0 DEF Prompted, PromptsOf, Covered, Left, Sampled, Open, Failed, Rows, RowsIn
  <1> QED
    BY <1>1, <1>2

LEMMA NextLInv == ASSUME IInv, SInv, LInv, [Next]_vars PROVE LInv'
  <1>1. CASE Trainer
    BY <1>1, DispatchLInv, SampleLInv, UseTrainLInv, UseValLInv, ClearLInv, RemoveLInv DEF Trainer
  <1>2. CASE Worker
    BY <1>2, EndLInv, ReportLInv DEF Worker
  <1>3. CASE Poll
    BY <1>3, PollLInv
  <1>4. CASE UNCHANGED vars
    BY <1>4 DEF vars, trainerVars, sessionVars, pollVars, LInv, Prompted, PromptsOf, Explained, Covered,
         Left, Sampled, Open, Failed, Rows, Known, RowsIn
  <1> QED
    BY <1>1, <1>2, <1>3, <1>4 DEF Next

(* Of the batches that are over, the transfer queue keeps rows of prompts     *)
(* that failed and no others, whatever the poll thread brings back into the   *)
(* buffer and however late the sessions end.                                  *)
THEOREM NothingPilesUp == Spec => []OnlyFailuresStay
  <1>1. Init => SInv /\ LInv
    BY InitSInv, InitLInv
  <1>2. IInv /\ SInv /\ LInv /\ [Next]_vars => SInv' /\ LInv'
    BY NextSInv, NextLInv
  <1>3. LInv => OnlyFailuresStay
    BY DEF LInv, Left, Rows, Failed, OnlyFailuresStay
  <1> QED
    BY <1>1, <1>2, <1>3, BufferInvariance, PTL DEF Spec
=============================================================================
