--------------------------- MODULE ReviseAgentProofs ---------------------------
(***************************************************************************)
(* Theorems about ReviseAgent, for any budgets and for texts and replies   *)
(* of any length: margins and actions stay paired until a select is        *)
(* dropped, tokens, mask and log-probabilities of the record never drift   *)
(* apart, and the trainer loses no observation.                            *)
(***************************************************************************)
EXTENDS ReviseAgent, SequenceTheorems, TLAPS

Kinds   == {"reply", "observation", "feedback"}
Records == [ids : Seq(Kinds), mask : Seq({0, 1}), logprobs : Seq(Nat)]

(* Every token has a log-probability when every reply with tokens came with   *)
(* them and a reply came first.                                               *)
InStep(ids, complete) == complete /\ (ids # << >> => ids[1] = "reply")

(* Tokens and mask are of one length, and the log-probabilities of the same   *)
(* just when all tokens have one; then each stands at its token.              *)
Aligned(r, all) ==
  /\ r \in Records
  /\ Len(r.ids) = Len(r.mask)
  /\ Len(r.logprobs) <= Len(r.ids)
  /\ all <=> Len(r.logprobs) = Len(r.ids)
  /\ all => \A i \in 1 .. Len(r.ids) : r.logprobs[i] = IF r.ids[i] = "reply" THEN i ELSE 0

RecordAligned == scored \in BOOLEAN /\ Aligned(record, InStep(record.ids, scored))

(* Rounds, margins and actions are numbered alike until a select is dropped. *)
Paired ==
  /\ pc \in {"round", "ask", "finish", "done", "mismatch", "raised"}
  /\ round \in Nat /\ dropped \in BOOLEAN
  /\ margins \in Seq(Nat)
  /\ actions \in Seq([kind : {"answer", "select"}, round : Nat])
  /\ ComputeMargins /\ ~dropped =>
       /\ \A t \in 1 .. Len(margins) : margins[t] = t
       /\ \A t \in 1 .. Len(actions) : actions[t].round = t
       /\ pc = "round" => Len(margins) = round /\ Len(actions) = round
       /\ pc = "ask" => Len(margins) = round /\ Len(actions) = round - 1
       /\ Len(actions) <= Len(margins) /\ Len(margins) <= Len(actions) + 1

-------------------------------------------------------------------------------
(* The record. *)

LEMMA ReplyAligned ==
  ASSUME NEW r, NEW all \in BOOLEAN, Aligned(r, all),
         NEW n \in Nat, NEW given \in BOOLEAN
  PROVE  Aligned(WithReply(r, n, given), all /\ (given \/ n = 0))
  <1> DEFINE a == WithReply(r, n, given)
  <1>1. r.ids \in Seq(Kinds) /\ r.mask \in Seq({0, 1}) /\ r.logprobs \in Seq(Nat)
    BY DEF Aligned, Records
  <1>2. /\ Times(n, "reply") \in Seq(Kinds) /\ Len(Times(n, "reply")) = n
        /\ Times(n, 1) \in Seq({0, 1}) /\ Len(Times(n, 1)) = n
    BY DEF Times, Kinds
  <1>3. a.ids = r.ids \o Times(n, "reply") /\ a.mask = r.mask \o Times(n, 1)
    BY DEF WithReply
  <1>4. /\ a.ids \in Seq(Kinds) /\ a.mask \in Seq({0, 1})
        /\ Len(a.ids) = Len(r.ids) + n /\ Len(a.mask) = Len(r.mask) + n
        /\ \A i \in 1 .. Len(r.ids) : a.ids[i] = r.ids[i]
        /\ \A i \in Len(r.ids) + 1 .. Len(r.ids) + n : a.ids[i] = "reply"
    BY <1>1, <1>2, <1>3 DEF Times
  <1>5. CASE given
    <2> DEFINE p == [i \in 1 .. n |-> Len(r.ids) + i]
    <2>1. a.logprobs = r.logprobs \o p
      BY <1>5 DEF WithReply
    <2>2. p \in Seq(Nat) /\ Len(p) = n
      BY <1>1
    <2>3. /\ a.logprobs \in Seq(Nat) /\ Len(a.logprobs) = Len(r.logprobs) + n
          /\ \A i \in 1 .. Len(r.logprobs) : a.logprobs[i] = r.logprobs[i]
          /\ \A i \in 1 .. n : a.logprobs[Len(r.logprobs) + i] = Len(r.ids) + i
      BY <1>1, <2>1, <2>2
    <2>4. a \in Records
      BY <1>4, <2>3 DEF WithReply, Records
    <2>5. ASSUME all, NEW i \in 1 .. Len(a.ids)
          PROVE  a.logprobs[i] = IF a.ids[i] = "reply" THEN i ELSE 0
      <3>0. Len(r.logprobs) = Len(r.ids) /\ Len(r.ids) \in Nat
        BY <1>1, <2>5 DEF Aligned
      <3>1. CASE i \in 1 .. Len(r.ids)
        BY <3>0, <3>1, <1>4, <2>3, <2>5 DEF Aligned
      <3>2. CASE i \notin 1 .. Len(r.ids)
        <4>1. i \in Len(r.ids) + 1 .. Len(r.ids) + n /\ i - Len(r.ids) \in 1 .. n
          BY <3>0, <3>2, <1>4
        <4>2. a.logprobs[Len(r.ids) + (i - Len(r.ids))] = Len(r.ids) + (i - Len(r.ids))
          BY <3>0, <4>1, <2>3
        <4>3. Len(r.ids) + (i - Len(r.ids)) = i
          BY <3>0, <4>1
        <4> QED
          BY <4>1, <4>2, <4>3, <1>4
      <3> QED
        BY <3>1, <3>2
    <2>6. /\ Len(a.logprobs) <= Len(a.ids) /\ Len(a.ids) = Len(a.mask)
          /\ all <=> Len(a.logprobs) = Len(a.ids)
      <3>1. /\ Len(r.ids) \in Nat /\ Len(r.logprobs) \in Nat /\ Len(r.ids) = Len(r.mask)
            /\ Len(r.logprobs) <= Len(r.ids) /\ (all <=> Len(r.logprobs) = Len(r.ids))
        BY <1>1 DEF Aligned
      <3> HIDE DEF a
      <3> QED
        BY <1>4, <2>3, <3>1
    <2> QED
      BY <1>5, <2>4, <2>5, <2>6 DEF Aligned
  <1>6. CASE ~given
    <2>1. a.logprobs = r.logprobs
      BY <1>6 DEF WithReply
    <2>2. a \in Records
      BY <1>1, <1>4, <2>1 DEF WithReply, Records
    <2>3. /\ Len(a.logprobs) <= Len(a.ids) /\ Len(a.ids) = Len(a.mask)
          /\ (all /\ n = 0) <=> Len(a.logprobs) = Len(a.ids)
      <3>1. /\ Len(r.ids) \in Nat /\ Len(r.logprobs) \in Nat /\ Len(r.ids) = Len(r.mask)
            /\ Len(r.logprobs) <= Len(r.ids) /\ (all <=> Len(r.logprobs) = Len(r.ids))
        BY <1>1 DEF Aligned
      <3> HIDE DEF a
      <3> QED
        BY <1>4, <2>1, <3>1
    <2>4. ASSUME all, n = 0, NEW i \in 1 .. Len(a.ids)
          PROVE  a.logprobs[i] = IF a.ids[i] = "reply" THEN i ELSE 0
      <3>1. Len(a.ids) = Len(r.ids) /\ i \in 1 .. Len(r.ids)
        BY <1>1, <1>4, <2>4
      <3> QED
        BY <1>4, <2>1, <2>4, <3>1 DEF Aligned
    <2> QED
      BY <1>6, <2>2, <2>3, <2>4 DEF Aligned
  <1> QED
    BY <1>5, <1>6

LEMMA ObservationAligned ==
  ASSUME NEW r, NEW all \in BOOLEAN, Aligned(r, all),
         NEW kind \in Kinds \ {"reply"}, NEW n \in Nat \ {0}
  PROVE  Aligned(WithObservation(r, kind, n), all /\ r.ids # << >>)
  <1> DEFINE a == WithObservation(r, kind, n)
  <1>1. r.ids \in Seq(Kinds) /\ r.mask \in Seq({0, 1}) /\ r.logprobs \in Seq(Nat)
    BY DEF Aligned, Records
  <1>2. /\ Times(n, kind) \in Seq(Kinds) /\ Len(Times(n, kind)) = n
        /\ Times(n, 0) \in Seq({0, 1}) /\ Times(n, 0) \in Seq(Nat) /\ Len(Times(n, 0)) = n
    BY DEF Times
  <1>3. a.ids = r.ids \o Times(n, kind) /\ a.mask = r.mask \o Times(n, 0)
    BY DEF WithObservation
  <1>4. /\ a.ids \in Seq(Kinds) /\ a.mask \in Seq({0, 1})
        /\ Len(a.ids) = Len(r.ids) + n /\ Len(a.mask) = Len(r.mask) + n
        /\ \A i \in 1 .. Len(r.ids) : a.ids[i] = r.ids[i]
        /\ \A i \in Len(r.ids) + 1 .. Len(r.ids) + n : a.ids[i] = kind
    BY <1>1, <1>2, <1>3 DEF Times
  <1>5. CASE r.logprobs = << >>
    <2>1. a.logprobs = << >> /\ Len(r.logprobs) = 0
      BY <1>5 DEF WithObservation
    <2>2. a \in Records
      BY <1>4, <2>1 DEF WithObservation, Records
    <2>3. ~(all /\ r.ids # << >>)
      BY <1>1, <2>1, EmptySeq DEF Aligned
    <2>4. Len(a.logprobs) = 0 /\ Len(a.ids) = Len(a.mask) /\ Len(a.ids) > 0
      BY <1>1, <1>4, <2>1 DEF Aligned
    <2> QED
      BY <2>2, <2>3, <2>4 DEF Aligned
  <1>6. CASE r.logprobs # << >>
    <2>1. a.logprobs = r.logprobs \o Times(n, 0)
      BY <1>6 DEF WithObservation
    <2>2. /\ a.logprobs \in Seq(Nat) /\ Len(a.logprobs) = Len(r.logprobs) + n
          /\ \A i \in 1 .. Len(r.logprobs) : a.logprobs[i] = r.logprobs[i]
          /\ \A i \in Len(r.logprobs) + 1 .. Len(r.logprobs) + n : a.logprobs[i] = 0
      BY <1>1, <1>2, <2>1 DEF Times
    <2>3. a \in Records
      BY <1>4, <2>2 DEF WithObservation, Records
    <2>4. ASSUME all, NEW i \in 1 .. Len(a.ids)
          PROVE  a.logprobs[i] = IF a.ids[i] = "reply" THEN i ELSE 0
      <3>0. Len(r.logprobs) = Len(r.ids) /\ Len(r.ids) \in Nat
        BY <1>1, <2>4 DEF Aligned
      <3>1. CASE i \in 1 .. Len(r.ids)
        BY <3>0, <3>1, <1>4, <2>2, <2>4 DEF Aligned
      <3>2. CASE i \notin 1 .. Len(r.ids)
        <4>1. Len(a.ids) = Len(r.ids) + n
          BY <1>4
        <4>2. i \in Len(r.ids) + 1 .. Len(r.ids) + n
          BY <3>0, <3>2, <4>1
        <4>3. a.ids[i] = kind
          BY <1>4, <4>2
        <4>4. a.logprobs[i] = 0
          BY <2>2, <3>0, <4>2
        <4>5. kind # "reply"
          BY DEF Kinds
        <4> QED
          BY <4>3, <4>4, <4>5
      <3> QED
        BY <3>1, <3>2
    <2>5. /\ Len(a.logprobs) <= Len(a.ids) /\ Len(a.ids) = Len(a.mask)
          /\ all <=> Len(a.logprobs) = Len(a.ids)
      <3>1. /\ Len(r.logprobs) <= Len(r.ids) /\ Len(r.ids) = Len(r.mask)
            /\ all <=> Len(r.logprobs) = Len(r.ids)
        BY DEF Aligned
      <3>2. Len(r.logprobs) \in Nat /\ Len(r.ids) \in Nat
        BY <1>1
      <3> QED
        BY <1>4, <2>2, <3>1, <3>2
    <2>6. r.ids # << >>
      BY <1>1, <1>6, EmptySeq DEF Aligned
    <2> QED
      BY <2>3, <2>4, <2>5, <2>6 DEF Aligned
  <1> QED
    BY <1>5, <1>6

-------------------------------------------------------------------------------
(* Every step keeps the record aligned. *)

LEMMA RecordInit == Init => RecordAligned
  <1> SUFFICES ASSUME Init PROVE RecordAligned
    OBVIOUS
  <1>1. record \in Records /\ Len(record.ids) = 0 /\ Len(record.mask) = 0 /\ Len(record.logprobs) = 0
    BY DEF Init, NoRecord, Records
  <1> QED
    BY <1>1, EmptySeq DEF Init, NoRecord, RecordAligned, Aligned, InStep

(* Adding tokens of one kind tells by the first token whether all have their  *)
(* log-probability.                                                           *)
LEMMA InStepAfter ==
  ASSUME NEW ids \in Seq(Kinds), NEW n \in Nat, NEW kind \in Kinds, NEW complete \in BOOLEAN
  PROVE  /\ kind = "reply" => InStep(ids \o Times(n, kind), complete) = InStep(ids, complete)
         /\ kind # "reply" /\ n > 0 =>
              InStep(ids \o Times(n, kind), complete) = (InStep(ids, complete) /\ ids # << >>)
  <1> DEFINE t == ids \o Times(n, kind)
  <1>1. Times(n, kind) \in Seq(Kinds) /\ Len(Times(n, kind)) = n
    BY DEF Times
  <1>2. /\ t \in Seq(Kinds) /\ Len(t) = Len(ids) + n
        /\ \A i \in 1 .. Len(ids) : t[i] = ids[i]
        /\ \A i \in Len(ids) + 1 .. Len(ids) + n : t[i] = kind
    BY <1>1 DEF Times
  <1> HIDE DEF t
  <1>3. /\ Len(ids) \in Nat /\ (ids = << >> <=> Len(ids) = 0) /\ (t = << >> <=> Len(t) = 0)
    BY <1>2, EmptySeq
  <1>4. ids # << >> => t # << >> /\ t[1] = ids[1]
    BY <1>2, <1>3
  <1>5. ids = << >> /\ n > 0 => t # << >> /\ t[1] = kind
    BY <1>2, <1>3
  <1>6. ids = << >> /\ n = 0 => t = << >>
    BY <1>2, <1>3
  <1>7. /\ kind = "reply" => InStep(t, complete) = InStep(ids, complete)
        /\ kind # "reply" /\ n > 0 => InStep(t, complete) = (InStep(ids, complete) /\ ids # << >>)
    BY <1>4, <1>5, <1>6 DEF InStep
  <1> QED
    BY <1>7 DEF t

LEMMA TurnAligned ==
  ASSUME RecordAligned, NEW n \in 0 .. MaxReply, NEW given \in BOOLEAN, Turn(n, given)
  PROVE  RecordAligned'
  <1> DEFINE replied == WithReply(record, n, given)
             all     == scored /\ (given \/ n = 0)
  <1>0. n \in Nat /\ scored \in BOOLEAN /\ record.ids \in Seq(Kinds) /\ "reply" \in Kinds
    BY AgentAssumption DEF RecordAligned, Aligned, Records, Kinds
  <1>1. Aligned(replied, InStep(replied.ids, all))
    <2>1. Aligned(replied, InStep(record.ids, scored) /\ (given \/ n = 0))
      BY <1>0, ReplyAligned DEF RecordAligned, InStep
    <2>2. replied.ids = record.ids \o Times(n, "reply")
      BY DEF WithReply
    <2>3. InStep(replied.ids, all) = InStep(record.ids, all)
      BY <1>0, <2>2, InStepAfter
    <2>4. InStep(record.ids, all) = (InStep(record.ids, scored) /\ (given \/ n = 0))
      BY <1>0 DEF InStep
    <2> QED
      BY <2>1, <2>3, <2>4
  <1>2. scored' = all /\ scored' \in BOOLEAN
    BY DEF Turn, AnswerTurn, RetryTurn, RejectTurn, SelectTurn, DropTurn, ExtractFails, Replied,
           RecordAligned
  <1>3. \/ record' = replied
        \/ \E kind \in Kinds \ {"reply"}, m \in Nat \ {0} : record' = WithObservation(replied, kind, m)
    <2>1. CASE AnswerTurn(n, given) \/ RejectTurn(n, given)
      BY <2>1 DEF AnswerTurn, RejectTurn
    <2>2. CASE RetryTurn(n, given)
      BY <2>2, AgentAssumption DEF RetryTurn, WithFeedback, Kinds
    <2>3. ASSUME NEW frames \in 1 .. MaxFrames, SelectTurn(frames, n, given) PROVE <1>3
      <3>1. PICK k \in 1 .. Least(frames, MaxVision) :
              record' = WithObservation(replied, "observation", TextTokens + k * ImageTokens)
        BY <2>3 DEF SelectTurn, Fitting
      <3>2. TextTokens + k * ImageTokens \in Nat \ {0}
        <4>1. k \in Nat /\ TextTokens \in Nat \ {0} /\ ImageTokens \in Nat
          BY <3>1, AgentAssumption
        <4>2. k * ImageTokens \in Nat
          BY <4>1
        <4> QED
          BY <4>1, <4>2
      <3> QED
        BY <3>1, <3>2 DEF Kinds
    <2>4. ASSUME NEW frames \in 1 .. MaxFrames, DropTurn(frames, n, given) PROVE <1>3
      BY <2>4, AgentAssumption DEF DropTurn, WithFeedback, Kinds
    <2>5. ASSUME NEW frames \in 1 .. MaxFrames, ExtractFails(frames, n, given) PROVE <1>3
      BY <2>5 DEF ExtractFails
    <2> QED
      BY <2>1, <2>2, <2>3, <2>4, <2>5 DEF Turn
  <1>4. ASSUME NEW kind \in Kinds \ {"reply"}, NEW m \in Nat \ {0},
               record' = WithObservation(replied, kind, m)
        PROVE  Aligned(record', InStep(record'.ids, all))
    <2>1. replied.ids \in Seq(Kinds) /\ m \in Nat /\ m > 0 /\ all \in BOOLEAN
      BY <1>0, <1>1 DEF Aligned, Records
    <2>2. record'.ids = replied.ids \o Times(m, kind)
      BY <1>4 DEF WithObservation
    <2>3. InStep(record'.ids, all) = (InStep(replied.ids, all) /\ replied.ids # << >>)
      <3>1. kind \in Kinds /\ kind # "reply"
        BY DEF Kinds
      <3> HIDE DEF all, replied
      <3>2. InStep(replied.ids \o Times(m, kind), all) = (InStep(replied.ids, all) /\ replied.ids # << >>)
        BY <2>1, <3>1, InStepAfter
      <3> QED
        BY <2>2, <3>2
    <2>4. InStep(replied.ids, all) \in BOOLEAN
      BY DEF InStep
    <2>5. Aligned(record', InStep(replied.ids, all) /\ replied.ids # << >>)
      BY <1>1, <1>4, <2>4, ObservationAligned
    <2> QED
      BY <2>3, <2>5
  <1>5. Aligned(record', InStep(record'.ids, all))
    BY <1>1, <1>3, <1>4
  <1> QED
    BY <1>2, <1>5 DEF RecordAligned

LEMMA RecordStep == ASSUME RecordAligned, [Next]_vars PROVE RecordAligned'
  <1>1. CASE \E n \in 0 .. MaxReply, given \in BOOLEAN : Turn(n, given)
    BY <1>1, TurnAligned
  <1>2. CASE BeginRound \/ GenerateFails \/ RoundsRunOut \/ Finish \/ UNCHANGED vars
    BY <1>2 DEF BeginRound, GenerateFails, RoundsRunOut, Finish, vars, RecordAligned
  <1> QED
    BY <1>1, <1>2 DEF Next

-------------------------------------------------------------------------------
(* Every step keeps margins and actions paired. *)

LEMMA PairedInit == Init => Paired
  <1> SUFFICES ASSUME Init PROVE Paired
    OBVIOUS
  <1>1. /\ margins \in Seq(Nat) /\ Len(margins) = 0
        /\ actions \in Seq([kind : {"answer", "select"}, round : Nat]) /\ Len(actions) = 0
    BY DEF Init
  <1>2. pc = "round" /\ round = 0 /\ dropped \in BOOLEAN
    BY DEF Init
  <1> QED
    BY <1>1, <1>2 DEF Paired

LEMMA PairedStep == ASSUME Paired, [Next]_vars PROVE Paired'
  <1> USE DEF Paired
  <1>1. CASE BeginRound
    <2>1. CASE margins' = margins /\ pc' = "finish"
      BY <1>1, <2>1 DEF BeginRound
    <2>2. CASE margins' = Append(margins, round') /\ pc' = "ask"
      BY <1>1, <2>2 DEF BeginRound
    <2>3. CASE margins' = margins /\ pc' = "ask" /\ ~ComputeMargins
      BY <1>1, <2>3 DEF BeginRound
    <2> QED
      BY <1>1, <2>1, <2>2, <2>3 DEF BeginRound
  <1>2. CASE GenerateFails \/ RoundsRunOut \/ Finish
    BY <1>2 DEF GenerateFails, RoundsRunOut, Finish, countVars
  <1>3. ASSUME NEW n \in 0 .. MaxReply, NEW given \in BOOLEAN, Turn(n, given)
        PROVE  Paired'
    <2>1. CASE AnswerTurn(n, given)
      BY <2>1 DEF AnswerTurn, Replied
    <2>2. CASE RetryTurn(n, given) \/ RejectTurn(n, given)
      BY <2>2 DEF RetryTurn, RejectTurn, Replied
    <2>3. ASSUME NEW frames \in 1 .. MaxFrames, SelectTurn(frames, n, given) PROVE Paired'
      BY <2>3 DEF SelectTurn, Replied
    <2>4. ASSUME NEW frames \in 1 .. MaxFrames, DropTurn(frames, n, given) PROVE Paired'
      BY <2>4 DEF DropTurn, Replied
    <2>5. ASSUME NEW frames \in 1 .. MaxFrames, ExtractFails(frames, n, given) PROVE Paired'
      BY <2>5 DEF ExtractFails, Replied
    <2> QED
      BY <1>3, <2>1, <2>2, <2>3, <2>4, <2>5 DEF Turn
  <1>4. CASE UNCHANGED vars
    BY <1>4 DEF vars, countVars
  <1> QED
    BY <1>1, <1>2, <1>3, <1>4 DEF Next

(* Until a select is dropped, the reward finds the margin of each action at   *)
(* its own place, and behind a select the margin of the round it led to.      *)
THEOREM MarginsPaired == Spec => []RewardAligned
  <1>1. Paired => RewardAligned
    <2> SUFFICES ASSUME Paired, ComputeMargins, ~dropped
                 PROVE  /\ Len(actions) <= Len(margins) /\ Len(margins) <= Len(actions) + 1
                        /\ \A t \in DOMAIN actions : margins[t] = actions[t].round
                        /\ \A t \in DOMAIN actions :
                             actions[t].kind = "select" /\ t < Len(margins) =>
                               margins[t + 1] = actions[t].round + 1
      BY DEF RewardAligned
    <2>1. /\ DOMAIN actions = 1 .. Len(actions)
          /\ Len(actions) \in Nat /\ Len(margins) \in Nat
          /\ \A t \in 1 .. Len(margins) : margins[t] = t
          /\ \A t \in 1 .. Len(actions) : actions[t].round = t
          /\ Len(actions) <= Len(margins) /\ Len(margins) <= Len(actions) + 1
      BY DEF Paired
    <2> QED
      BY <2>1
  <1>2. Init => Paired
    BY PairedInit
  <1>3. Paired /\ [Next]_vars => Paired'
    BY PairedStep
  <1> QED
    BY <1>1, <1>2, <1>3, PTL DEF Spec

-------------------------------------------------------------------------------
(* What reaches the trainer. *)

LEMMA CutIs ==
  ASSUME NEW S, NEW s \in Seq(S)
  PROVE  /\ Cut(s) \in Seq(S)
         /\ Len(Cut(s)) = Least(Len(s), ResponseLength)
         /\ \A i \in 1 .. Len(Cut(s)) : Cut(s)[i] = s[i]
         /\ Cut(s) = << >> <=> s = << >>
  <1> DEFINE m == Least(Len(s), ResponseLength)
  <1>1. ResponseLength \in Nat \ {0} /\ Len(s) \in Nat
    BY AgentAssumption
  <1>2. m \in 0 .. Len(s) /\ (m = 0 <=> Len(s) = 0)
    BY <1>1 DEF Least
  <1>3. /\ SubSeq(s, 1, m) \in Seq(S) /\ Len(SubSeq(s, 1, m)) = m
        /\ \A i \in 1 .. m : SubSeq(s, 1, m)[i] = s[i]
    BY <1>1, <1>2
  <1>4. \A q \in Seq(S) : q = << >> <=> Len(q) = 0
    BY EmptySeq
  <1>5. SubSeq(s, 1, m) = << >> <=> m = 0
    BY <1>3, <1>4
  <1> QED
    BY <1>2, <1>3, <1>4, <1>5 DEF Cut

Delivered == RecordAligned /\ LogprobsAligned

LEMMA FinishDelivers == ASSUME Delivered, Finish PROVE LogprobsAligned'
  <1>1. /\ record.ids \in Seq(Kinds) /\ record.mask \in Seq({0, 1}) /\ record.logprobs \in Seq(Nat)
        /\ Len(record.ids) = Len(record.mask)
        /\ InStep(record.ids, scored) <=> Len(record.logprobs) = Len(record.ids)
    BY DEF Delivered, RecordAligned, Aligned, Records
  <1>2. /\ pc' = "done" /\ record' = record /\ scored' = scored
        /\ output' = [ids |-> Cut(record.ids), mask |-> Cut(record.mask),
                      logprobs |-> IF InStep(record.ids, scored)
                                     THEN Cut(record.logprobs) ELSE << >>]
    BY <1>1 DEF Finish
  <1>3. output'.ids = Cut(record.ids)
        /\ output'.logprobs = IF InStep(record.ids, scored) THEN Cut(record.logprobs) ELSE << >>
    BY <1>2
  <1>4. scored \in BOOLEAN
    BY DEF Delivered, RecordAligned
  <1>5. CASE ~InStep(record.ids, scored)
    BY <1>2, <1>3, <1>4, <1>5 DEF LogprobsAligned, InStep
  <1>6. CASE InStep(record.ids, scored)
    <2>1. Len(record.logprobs) = Len(record.ids) /\ output'.logprobs = Cut(record.logprobs)
      BY <1>1, <1>3, <1>6
    <2>2. record.logprobs = << >> <=> record.ids = << >>
      BY <1>1, <2>1
    <2>3. output'.logprobs = << >> <=> record.ids = << >>
      BY <1>1, <2>1, <2>2, CutIs
    <2>4. Len(output'.logprobs) = Len(output'.ids)
      BY <1>1, <1>3, <2>1, CutIs
    <2>5. DOMAIN output'.ids = 1 .. Len(output'.ids) /\ Len(output'.ids) \in 0 .. Len(record.ids)
      <3>1. output'.ids \in Seq(Kinds) /\ Len(output'.ids) = Least(Len(record.ids), ResponseLength)
        BY <1>1, <1>3, CutIs
      <3>2. Len(record.ids) \in Nat /\ ResponseLength \in Nat
        BY <1>1, AgentAssumption
      <3> QED
        BY <3>1, <3>2 DEF Least
    <2>6. ASSUME NEW i \in DOMAIN output'.ids
          PROVE  output'.logprobs[i] = IF output'.ids[i] = "reply" THEN i ELSE 0
      <3>1. i \in 1 .. Len(output'.ids) /\ i \in 1 .. Len(output'.logprobs) /\ i \in 1 .. Len(record.ids)
        BY <2>4, <2>5, <1>1
      <3>2. output'.ids[i] = record.ids[i] /\ output'.logprobs[i] = record.logprobs[i]
        BY <1>1, <1>3, <2>1, <3>1, CutIs
      <3>3. record.logprobs[i] = IF record.ids[i] = "reply" THEN i ELSE 0
        BY <1>6, <3>1 DEF Delivered, RecordAligned, Aligned
      <3> QED
        BY <3>2, <3>3
    <2> QED
      BY <1>2, <1>6, <2>3, <2>4, <2>6 DEF LogprobsAligned, InStep
  <1> QED
    BY <1>5, <1>6

LEMMA DeliveredStep == ASSUME Delivered, [Next]_vars PROVE Delivered'
  <1>1. RecordAligned'
    BY RecordStep DEF Delivered
  <1>2. LogprobsAligned'
    <2>1. CASE Finish
      BY <2>1, FinishDelivers
    <2>2. CASE UNCHANGED vars
      BY <2>2 DEF vars, Delivered, LogprobsAligned
    <2>3. CASE BeginRound \/ GenerateFails \/ RoundsRunOut
      BY <2>3 DEF BeginRound, GenerateFails, RoundsRunOut, LogprobsAligned
    <2>4. ASSUME NEW n \in 0 .. MaxReply, NEW given \in BOOLEAN, Turn(n, given)
          PROVE  pc' \in {"ask", "round", "finish", "raised"}
      BY <2>4 DEF Turn, AnswerTurn, RetryTurn, RejectTurn, SelectTurn, DropTurn, ExtractFails, Replied
    <2> QED
      BY <2>1, <2>2, <2>3, <2>4 DEF Next, LogprobsAligned
  <1> QED
    BY <1>1, <1>2 DEF Delivered

(* The conversion never raises, and the log-probabilities that reach the      *)
(* trainer stand at the tokens they belong to, retries and cuts or not.       *)
THEOREM LogprobsArrive == Spec => []LogprobsAligned
  <1>1. Init => Delivered
    BY RecordInit DEF Init, Delivered, LogprobsAligned
  <1>2. Delivered /\ [Next]_vars => Delivered'
    BY DeliveredStep
  <1>3. Delivered => LogprobsAligned
    BY DEF Delivered
  <1> QED
    BY <1>1, <1>2, <1>3, PTL DEF Spec
-------------------------------------------------------------------------------
(* What the trainer's cut may hit. *)

HasFeedback(ids) == \E i \in DOMAIN ids : ids[i] = "feedback"

(* Every observation was added within the response.  As long as nothing was   *)
(* dropped or rejected, a rollout that has not ended is at its first reply or *)
(* has the room of max_new_tokens left, so that only an overrun can fill it.  *)
Roomy ==
  /\ \A i \in DOMAIN record.ids : record.ids[i] = "observation" => i <= ResponseLength
  /\ \/ dropped \/ HasFeedback(record.ids)
     \/ /\ pc \in {"round", "ask"}
        /\ Len(record.ids) = 0 \/ Len(record.ids) + MaxNewTokens <= ResponseLength
     \/ /\ pc \notin {"round", "ask"}
        /\ EndsInOverrun(record.ids) \/ Len(record.ids) <= ResponseLength
  /\ pc = "done" => output.ids = Cut(record.ids)

(* Sequence t is ids with n more elements, all of one kind.                   *)
Extends(t, ids, n, kind) ==
  /\ t \in Seq(Kinds) /\ Len(t) = Len(ids) + n
  /\ DOMAIN t = 1 .. Len(ids) + n /\ DOMAIN ids = 1 .. Len(ids) /\ Len(ids) \in Nat
  /\ \A i \in 1 .. Len(ids) : t[i] = ids[i]
  /\ \A i \in Len(ids) + 1 .. Len(ids) + n : t[i] = kind
  /\ HasFeedback(ids) => HasFeedback(t)

LEMMA Extended ==
  ASSUME NEW ids \in Seq(Kinds), NEW n \in Nat, NEW kind \in Kinds
  PROVE  Extends(ids \o Times(n, kind), ids, n, kind)
  <1> DEFINE t == ids \o Times(n, kind)
  <1>1. Times(n, kind) \in Seq(Kinds) /\ Len(Times(n, kind)) = n
    BY DEF Times
  <1>2. /\ t \in Seq(Kinds) /\ Len(t) = Len(ids) + n
        /\ \A i \in 1 .. Len(ids) : t[i] = ids[i]
        /\ \A i \in Len(ids) + 1 .. Len(ids) + n : t[i] = kind
    BY <1>1 DEF Times
  <1> HIDE DEF t
  <1>3. DOMAIN t = 1 .. Len(ids) + n /\ DOMAIN ids = 1 .. Len(ids) /\ Len(ids) \in Nat
    BY <1>2
  <1>4. HasFeedback(ids) => HasFeedback(t)
    <2> SUFFICES ASSUME NEW i \in DOMAIN ids, ids[i] = "feedback" PROVE HasFeedback(t)
      BY DEF HasFeedback
    <2>1. i \in DOMAIN t /\ t[i] = "feedback"
      BY <1>2, <1>3
    <2> QED
      BY <2>1 DEF HasFeedback
  <1>5. Extends(t, ids, n, kind)
    BY <1>2, <1>3, <1>4 DEF Extends
  <1> QED
    BY <1>5 DEF t

(* A reply brings no observation, and fits or is an overrun.                   *)
LEMMA ReplyIs ==
  ASSUME RecordAligned, Roomy, NEW n \in 0 .. MaxReply, NEW given \in BOOLEAN, pc = "ask"
  PROVE  LET ids == WithReply(record, n, given).ids
         IN /\ ids \in Seq(Kinds)
            /\ \A i \in DOMAIN ids : ids[i] = "observation" => i <= ResponseLength
            /\ dropped \/ HasFeedback(ids) \/ EndsInOverrun(ids) \/ Len(ids) <= ResponseLength
            /\ Len(WithReply(record, n, given).mask) = Len(ids)
  <1> DEFINE ids == WithReply(record, n, given).ids
  <1>0. n \in Nat /\ MaxNewTokens \in Nat /\ ResponseLength \in Nat
    BY AgentAssumption
  <1>1. record.ids \in Seq(Kinds) /\ "reply" \in Kinds /\ ids = record.ids \o Times(n, "reply")
    BY DEF RecordAligned, Aligned, Records, WithReply, Kinds
  <1>2. /\ ids \in Seq(Kinds) /\ Len(ids) = Len(record.ids) + n
        /\ DOMAIN ids = 1 .. Len(record.ids) + n /\ DOMAIN record.ids = 1 .. Len(record.ids)
        /\ Len(record.ids) \in Nat
        /\ \A i \in 1 .. Len(record.ids) : ids[i] = record.ids[i]
        /\ \A i \in Len(record.ids) + 1 .. Len(record.ids) + n : ids[i] = "reply"
        /\ HasFeedback(record.ids) => HasFeedback(ids)
    <2>1. n \in Nat
      BY <1>0
    <2>2. Extends(ids, record.ids, n, "reply")
      BY <1>1, <2>1, Extended
    <2> QED
      BY <2>2 DEF Extends
  <1>3. ASSUME NEW i \in DOMAIN ids, ids[i] = "observation" PROVE i <= ResponseLength
    <2>1. i \in 1 .. Len(record.ids)
      <3> SUFFICES ASSUME i \notin 1 .. Len(record.ids) PROVE FALSE
        OBVIOUS
      <3>1. i \in Len(record.ids) + 1 .. Len(record.ids) + n
        BY <1>0, <1>2
      <3> QED
        BY <1>2, <1>3, <3>1
    <2> QED
      BY <1>2, <1>3, <2>1 DEF Roomy
  <1>4. dropped \/ HasFeedback(ids) \/ EndsInOverrun(ids) \/ Len(ids) <= ResponseLength
    <2> SUFFICES ASSUME ~dropped, ~HasFeedback(ids), Len(ids) > ResponseLength
                 PROVE  EndsInOverrun(ids)
      BY <1>0, <1>2
    <2> DEFINE most == Least(MaxNewTokens, ResponseLength)
    <2>1. Len(record.ids) = 0 \/ Len(record.ids) + MaxNewTokens <= ResponseLength
      BY <1>2 DEF Roomy
    <2>2. most \in Nat /\ most <= MaxNewTokens /\ most <= ResponseLength
      BY <1>0 DEF Least
    <2>3. n > most
      BY <1>0, <1>2, <2>1, <2>2
    <2> HIDE DEF ids, most
    <2>4. Len(ids) > most /\ \A i \in Len(ids) - most .. Len(ids) : i \in Len(record.ids) + 1 .. Len(record.ids) + n
      BY <1>0, <1>2, <2>2, <2>3
    <2>5. \A i \in Len(ids) - most .. Len(ids) : ids[i] = "reply"
      BY <1>2, <2>4
    <2> QED
      BY <2>4, <2>5 DEF EndsInOverrun, most
  <1>5. Len(WithReply(record, n, given).mask) = Len(ids)
    <2>1. InStep(record.ids, scored) \in BOOLEAN
      BY DEF InStep, RecordAligned
    <2> QED
      BY <1>0, <2>1, ReplyAligned DEF RecordAligned, Aligned
  <1> QED
    BY <1>2, <1>3, <1>4, <1>5

LEMMA TurnRoomy ==
  ASSUME RecordAligned, Roomy, NEW n \in 0 .. MaxReply, NEW given \in BOOLEAN, Turn(n, given)
  PROVE  Roomy'
  <1> DEFINE replied == WithReply(record, n, given)
  <1>0. pc = "ask" /\ pc' \in {"ask", "round", "finish", "raised"}
    BY DEF Turn, AnswerTurn, RetryTurn, RejectTurn, SelectTurn, DropTurn, ExtractFails, Replied
  <1>1. /\ replied.ids \in Seq(Kinds)
        /\ \A i \in DOMAIN replied.ids : replied.ids[i] = "observation" => i <= ResponseLength
        /\ \/ dropped \/ HasFeedback(replied.ids) \/ EndsInOverrun(replied.ids)
           \/ Len(replied.ids) <= ResponseLength
        /\ Len(replied.mask) = Len(replied.ids)
    BY <1>0, ReplyIs
  <1>2. CASE AnswerTurn(n, given) \/ RejectTurn(n, given)
             \/ \E frames \in 1 .. MaxFrames : ExtractFails(frames, n, given)
    <2>1. record' = replied /\ pc' \in {"finish", "raised"} /\ dropped' = dropped
      BY <1>2 DEF AnswerTurn, RejectTurn, ExtractFails
    <2> QED
      BY <1>1, <2>1 DEF Roomy
  <1>3. ASSUME record' = WithFeedback(replied) PROVE Roomy'
    <2>1. FeedbackTokens \in Nat \ {0} /\ "feedback" \in Kinds
          /\ record'.ids = replied.ids \o Times(FeedbackTokens, "feedback")
      BY <1>3, AgentAssumption DEF WithFeedback, WithObservation, Kinds
    <2> DEFINE m == Len(replied.ids)
    <2>2. /\ DOMAIN record'.ids = 1 .. m + FeedbackTokens /\ DOMAIN replied.ids = 1 .. m /\ m \in Nat
          /\ \A i \in 1 .. m : record'.ids[i] = replied.ids[i]
          /\ \A i \in m + 1 .. m + FeedbackTokens : record'.ids[i] = "feedback"
      <3>1. FeedbackTokens \in Nat
        BY <2>1
      <3>2. Extends(record'.ids, replied.ids, FeedbackTokens, "feedback")
        BY <1>1, <2>1, <3>1, Extended
      <3> QED
        BY <3>2 DEF Extends
    <2>3. HasFeedback(record'.ids)
      <3>1. m + 1 \in m + 1 .. m + FeedbackTokens /\ m + 1 \in 1 .. m + FeedbackTokens
        BY <2>1, <2>2
      <3> QED
        BY <2>2, <3>1 DEF HasFeedback
    <2>4. ASSUME NEW i \in DOMAIN record'.ids, record'.ids[i] = "observation"
          PROVE  i <= ResponseLength
      <3>1. i \in 1 .. m \/ i \in m + 1 .. m + FeedbackTokens
        BY <2>1, <2>2
      <3> QED
        BY <1>1, <2>2, <2>4, <3>1
    <2> QED
      BY <1>0, <2>3, <2>4 DEF Roomy, HasFeedback
  <1>4. CASE RetryTurn(n, given)
    BY <1>3, <1>4 DEF RetryTurn
  <1>5. ASSUME NEW frames \in 1 .. MaxFrames, SelectTurn(frames, n, given) PROVE Roomy'
    <2>1. PICK k \in Fitting(Len(replied.mask), frames) :
            record' = WithObservation(replied, "observation", TextTokens + k * ImageTokens)
      BY <1>5 DEF SelectTurn
    <2> DEFINE m == Len(replied.ids)
               w == TextTokens + k * ImageTokens
    <2>2. w \in Nat /\ k * ImageTokens \in Nat /\ Fits(m, k)
      <3>1. k \in 1 .. Least(frames, MaxVision) /\ Fits(m, k)
        BY <1>1, <2>1 DEF Fitting
      <3>2. TextTokens \in Nat /\ ImageTokens \in Nat /\ k \in Nat
        <4>1. k \in Nat
          BY <3>1
        <4>2. TextTokens \in Nat /\ ImageTokens \in Nat
          BY AgentAssumption
        <4> QED
          BY <4>1, <4>2
      <3>3. k * ImageTokens \in Nat
        BY <3>2
      <3> QED
        BY <3>1, <3>2, <3>3
    <2>3. record'.ids = replied.ids \o Times(w, "observation") /\ "observation" \in Kinds
      BY <2>1 DEF WithObservation, Kinds
    <2>4. /\ Len(record'.ids) = m + w /\ DOMAIN record'.ids = 1 .. m + w /\ m \in Nat
      <3>1. Extends(record'.ids, replied.ids, w, "observation")
        BY <1>1, <2>2, <2>3, Extended
      <3> QED
        BY <3>1 DEF Extends
    <2>5. m + w + MaxNewTokens <= ResponseLength
      <3>1. m + TextTokens + k * ImageTokens + MaxNewTokens + ResponseRoom <= ResponseLength
        BY <2>2 DEF Fits
      <3>2. {TextTokens, k * ImageTokens, MaxNewTokens, ResponseRoom, ResponseLength} \subseteq Nat
        BY <2>2, AgentAssumption
      <3> HIDE DEF m
      <3>3. \A a, b, c, d, e \in Nat : a + b + c + d + e <= ResponseLength => a + (b + c) + d <= ResponseLength
        BY <3>2
      <3> QED
        BY <2>4, <3>1, <3>2, <3>3
    <2>6. \A i \in 1 .. m + w : i <= ResponseLength
      <3>1. {MaxNewTokens, ResponseLength} \subseteq Nat
        BY AgentAssumption
      <3> HIDE DEF m, w
      <3> QED
        BY <2>2, <2>4, <2>5, <3>1
    <2>7. Len(record'.ids) + MaxNewTokens <= ResponseLength
      BY <2>4, <2>5
    <2>8. pc' = "round"
      BY <1>5 DEF SelectTurn
    <2>9. \A i \in DOMAIN record'.ids : i <= ResponseLength
      BY <2>4, <2>6
    <2> QED
      BY <2>7, <2>8, <2>9 DEF Roomy
  <1>6. ASSUME NEW frames \in 1 .. MaxFrames, DropTurn(frames, n, given) PROVE Roomy'
    <2>1. record' = WithFeedback(replied) \/ (record' = replied /\ dropped')
      BY <1>6 DEF DropTurn
    <2> QED
      BY <1>0, <1>1, <1>3, <2>1 DEF Roomy
  <1> QED
    BY <1>2, <1>4, <1>5, <1>6 DEF Turn

LEMMA RoomyStep == ASSUME RecordAligned, Roomy, [Next]_vars PROVE Roomy'
  <1>1. CASE \E n \in 0 .. MaxReply, given \in BOOLEAN : Turn(n, given)
    BY <1>1, TurnRoomy
  <1>2. CASE BeginRound \/ GenerateFails \/ RoundsRunOut \/ Finish
    <2>1. record' = record /\ dropped' = dropped
      BY <1>2 DEF BeginRound, GenerateFails, RoundsRunOut, Finish
    <2>2. /\ pc' \in {"round", "ask"} => pc \in {"round", "ask"}
          /\ pc' = "done" => output'.ids = Cut(record'.ids)
      BY <1>2, <2>1 DEF BeginRound, GenerateFails, RoundsRunOut, Finish
    <2>3. MaxNewTokens \in Nat /\ Len(record.ids) \in Nat /\ ResponseLength \in Nat
      BY AgentAssumption DEF RecordAligned, Aligned, Records
    <2>4. Len(record.ids) = 0 \/ Len(record.ids) + MaxNewTokens <= ResponseLength =>
            Len(record.ids) <= ResponseLength
      BY <2>3
    <2> QED
      BY <2>1, <2>2, <2>4 DEF Roomy, HasFeedback, EndsInOverrun
  <1>3. CASE UNCHANGED vars
    BY <1>3 DEF vars, Roomy, HasFeedback, EndsInOverrun
  <1> QED
    BY <1>1, <1>2, <1>3 DEF Next

(* What a rollout loses to response_length is no observation, whatever the    *)
(* server replies, and nothing at all unless a reply was rejected, a select   *)
(* dropped or a last reply longer than max_new_tokens.                        *)
THEOREM CutsSpared == Spec => []CutsSpareObservations
  <1>1. Init => RecordAligned /\ Roomy
    <2> SUFFICES ASSUME Init PROVE Roomy
      BY RecordInit
    <2>1. record.ids = << >> /\ Len(record.ids) = 0 /\ DOMAIN record.ids = {} /\ pc = "round"
      BY DEF Init, NoRecord
    <2> QED
      BY <2>1 DEF Roomy
  <1>2. RecordAligned /\ Roomy /\ [Next]_vars => (RecordAligned /\ Roomy)'
    BY RecordStep, RoomyStep
  <1>3. RecordAligned /\ Roomy => CutsSpareObservations
    <2> SUFFICES ASSUME RecordAligned, Roomy, pc = "done"
                 PROVE  /\ \A i \in DOMAIN record.ids :
                             record.ids[i] = "observation" => i \in DOMAIN output.ids
                        /\ record.ids # output.ids =>
                             dropped \/ HasFeedback(record.ids) \/ EndsInOverrun(record.ids)
      BY DEF CutsSpareObservations, HasFeedback
    <2>1. record.ids \in Seq(Kinds) /\ ResponseLength \in Nat /\ Len(record.ids) \in Nat
      BY AgentAssumption DEF RecordAligned, Aligned, Records
    <2>2. ASSUME Len(record.ids) <= ResponseLength PROVE output.ids = record.ids
      <3>1. Least(Len(record.ids), ResponseLength) = Len(record.ids)
        BY <2>2 DEF Least
      <3>2. Cut(record.ids) = record.ids
        BY <2>1, <3>1 DEF Cut
      <3> QED
        BY <3>2 DEF Roomy
    <2>3. record.ids # output.ids =>
            dropped \/ HasFeedback(record.ids) \/ EndsInOverrun(record.ids)
      BY <2>2 DEF Roomy
    <2>4. DOMAIN output.ids = 1 .. Least(Len(record.ids), ResponseLength)
      <3>1. output.ids = Cut(record.ids)
        BY DEF Roomy
      <3>2. output.ids \in Seq(Kinds) /\ Len(output.ids) = Least(Len(record.ids), ResponseLength)
        BY <2>1, <3>1, CutIs
      <3> QED
        BY <3>2
    <2>5. ASSUME NEW i \in DOMAIN record.ids, record.ids[i] = "observation"
          PROVE  i \in DOMAIN output.ids
      <3>1. i \in 1 .. Len(record.ids) /\ i <= ResponseLength
        BY <2>1, <2>5 DEF Roomy
      <3> QED
        BY <2>1, <2>4, <3>1 DEF Least
    <2> QED
      BY <2>3, <2>5
  <1> QED
    BY <1>1, <1>2, <1>3, PTL DEF Spec
=============================================================================
