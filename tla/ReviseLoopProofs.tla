---------------------------- MODULE ReviseLoopProofs ----------------------------
(***************************************************************************)
(* Theorems about ReviseLoop, for every configuration, every dataset that  *)
(* meets DatasetAssumption and every sequence of model outputs.            *)
(*                                                                         *)
(* First what the checks of the policy establish about an accepted turn,   *)
(* then the inductive invariant IInv, one lemma per action, the safety     *)
(* properties it implies and the refinement of ReviseEpisode; last the log. *)
(***************************************************************************)
EXTENDS ReviseLoop, TLAPS, FiniteSetTheorems, FunctionTheorems, NumberFacts

LEMMA AnswerForm ==
  ASSUME NEW o \in Answers
  PROVE  /\ Checks(o) = AnswerChecks(o)
         /\ o.letter \in Letters \cup {NoLetter}
  BY DEF Answers, Checks

LEMMA SelectForm ==
  ASSUME NEW o \in Selects
  PROVE  /\ Checks(o) = SelectChecks(o)
         /\ o.body \in Bodies
  BY DEF Selects, Checks

(* An accepted answer has passed every check on answers. *)
LEMMA AcceptedAnswer ==
  ASSUME NEW o \in Answers
  PROVE  Accepted(o) <=> /\ o.letter \in Letters
                         /\ ~(effective < MinSelect)
                         /\ ~(AnswerOnlyFinalRound /\ round < MaxRounds)
  <1>1. DOMAIN Checks(o) = 1 .. 3
    BY AnswerForm DEF AnswerChecks
  <1>2. /\ Checks(o)[1][1] = (o.letter \notin Letters)
        /\ Checks(o)[2][1] = (effective < MinSelect)
        /\ Checks(o)[3][1] = (AnswerOnlyFinalRound /\ round < MaxRounds)
    BY AnswerForm DEF AnswerChecks
  <1>3. Rejecting(o) = {i \in 1 .. 3 : Checks(o)[i][1]}
    BY <1>1 DEF Rejecting
  <1>4. Accepted(o) <=> ~Checks(o)[1][1] /\ ~Checks(o)[2][1] /\ ~Checks(o)[3][1]
    BY <1>3 DEF Accepted
  <1> QED
    BY <1>2, <1>4, Zenon

(* What the frames of an accepted select satisfy. *)
LEMMA AcceptedSelect ==
  ASSUME NEW o \in Selects, Accepted(o)
  PROVE  /\ Requested(o) # {}
         /\ Requested(o) \cap seen = {}
         /\ ~(Cardinality(Requested(o)) > MaxFrames)
         /\ Requested(o) \subseteq 0 .. FrameCount - 1
         /\ ~MustAnswer
  <1>1. DOMAIN Checks(o) = 1 .. 11
    BY SelectForm DEF SelectChecks
  <1>2. /\ Checks(o)[1][1] = MustAnswer
        /\ Checks(o)[8][1] = (Requested(o) = {})
        /\ Checks(o)[9][1] = SeenAgain(o)
        /\ Checks(o)[10][1] = (Cardinality(Requested(o)) > MaxFrames)
        /\ Checks(o)[11][1] = (~(Requested(o) \subseteq 0 .. FrameCount - 1))
    BY SelectForm DEF SelectChecks
  <1>3. \A i \in 1 .. 11 : ~Checks(o)[i][1]
    BY <1>1 DEF Accepted, Rejecting
  <1>4. ~Checks(o)[1][1] /\ ~Checks(o)[8][1] /\ ~Checks(o)[9][1]
        /\ ~Checks(o)[10][1] /\ ~Checks(o)[11][1]
    BY <1>3
  <1> QED
    BY <1>2, <1>4, Zenon DEF SeenAgain

(* A rejected turn has a reason, and one of the policy's. *)
LEMMA ReasonIsKnown ==
  ASSUME NEW o \in Outputs, ~Accepted(o)
  PROVE  ReasonFor(o) \in Reasons
  <1> DEFINE least == CHOOSE i \in Rejecting(o) : \A j \in Rejecting(o) : i <= j
  <1>1. \A i \in DOMAIN Checks(o) : i \in Nat /\ Checks(o)[i][2] \in Reasons
    <2>1. CASE o \in Malformed
      <3>1. Checks(o) = << <<TRUE, "invalid_paper_protocol">> >>
        BY <2>1 DEF Malformed, Checks
      <3> QED
        BY <3>1 DEF Reasons
    <2>2. CASE o \in Answers
      BY <2>2, AnswerForm DEF AnswerChecks, Reasons
    <2>3. CASE o \in Selects
      <3>1. DOMAIN SelectChecks(o) = 1 .. 11
        BY DEF SelectChecks
      <3>2. \A i \in 1 .. 11 : SelectChecks(o)[i][2] \in Reasons
        BY DEF SelectChecks, Reasons
      <3> QED
        BY <2>3, <3>1, <3>2, SelectForm
    <2> QED
      BY <2>1, <2>2, <2>3 DEF Outputs
  <1>2. Rejecting(o) # {} /\ Rejecting(o) \subseteq DOMAIN Checks(o)
    BY DEF Accepted, Rejecting
  <1>3. \E i \in Rejecting(o) : \A j \in Rejecting(o) : i <= j
    BY <1>1, <1>2, LeastNumber
  <1>4. least \in Rejecting(o)
    BY <1>3
  <1>5. ReasonFor(o) = Checks(o)[least][2]
    BY DEF ReasonFor
  <1> QED
    BY <1>1, <1>2, <1>4, <1>5

-------------------------------------------------------------------------------
(* The inductive invariant: the types and three facts about how the parts    *)
(* of the state move together.                                               *)

(* Effective rounds and the summary's round never run ahead of the rounds;   *)
(* while the model is asked, the round at hand is not yet effective.         *)
Progressing ==
  /\ effective <= round /\ summary <= round
  /\ pc \in {"ask", "return"} => round >= 1
  /\ pc = "ask" => effective < round

(* What may have been spent before this round, and in it. *)
Spending ==
  /\ Cardinality(shown) <= MaxFrames
  /\ Cardinality(seen) <= round * MaxFrames
  /\ stats["calls"] <= round * (MaxRetries + 1)
  /\ pc = "ask" => stats["calls"] <= (round - 1) * (MaxRetries + 1) + retry

(* A strict loop goes from round to round by accepted selects only, and a    *)
(* forced last round leaves it no select to accept.                          *)
StrictRounds ==
  Strict =>
    /\ pc = "round" => effective = round
    /\ pc = "ask" => effective = round - 1
    /\ pc = "round" /\ ForceFinalAnswer => round < MaxRounds
    /\ pc = "return" => answer # NoLetter \/ terminated
    /\ pc = "done" /\ ForceFinalAnswer => answer # NoLetter \/ terminated

IInv == TypeOK /\ Progressing /\ Spending /\ StrictRounds

-------------------------------------------------------------------------------
(* What the loop gets from an adapter that meets its contract. *)
LEMMA AdapterFacts ==
  /\ FrameCount \in Nat
  /\ InitialFrames \subseteq Nat /\ IsFiniteSet(InitialFrames)
  /\ Cardinality(InitialFrames) <= MaxFrames
  /\ FallbackFrames \subseteq Nat /\ IsFiniteSet(FallbackFrames)
  /\ Cardinality(FallbackFrames) <= MaxFrames
  /\ \A S \in SUBSET Frames :
       /\ CandidatePools(S) # {} /\ UnseenSamples(S) # {}
       /\ \A P \in CandidatePools(S) : P \subseteq Frames \ S
       /\ \A U \in UnseenSamples(S) : U \subseteq Frames \ S /\ Cardinality(U) <= MaxFrames
  /\ {SummaryChecked, StaleChecked, RangeChecked, CarrySummary} \subseteq BOOLEAN
  <1> DEFINE contract == DatasetContract(FrameCount, MaxFrames, InitialFrames, FallbackFrames,
                                         CandidatePools, UnseenSamples)
  <1>1. contract
    BY DatasetAssumption
  <1>2. /\ FrameCount \in Nat
        /\ OneRound(InitialFrames, MaxFrames) /\ OneRound(FallbackFrames, MaxFrames)
    BY <1>1 DEF DatasetContract
  <1>3. \A S \in SUBSET Frames :
          /\ CandidatePools(S) # {} /\ UnseenSamples(S) # {}
          /\ \A P \in CandidatePools(S) : P \subseteq Frames \ S
          /\ \A U \in UnseenSamples(S) : U \subseteq Frames \ S /\ Cardinality(U) <= MaxFrames
    BY <1>1 DEF DatasetContract, Frames
  <1> QED
    BY <1>2, <1>3, DatasetAssumption DEF OneRound

LEMMA FramesFinite ==
  /\ IsFiniteSet(Frames)
  /\ \A F \in SUBSET Frames : IsFiniteSet(F) /\ Cardinality(F) \in Nat
  <1>1. IsFiniteSet(0 .. FrameCount - 1)
    BY AdapterFacts, FS_Interval
  <1>2. IsFiniteSet(Frames)
    BY <1>1, AdapterFacts, FS_Union DEF Frames, FramesOf
  <1> QED
    BY <1>2, FS_Subset, FS_CardinalityType

LEMMA InitTypes == Init => TypeOK
  <1> SUFFICES ASSUME Init PROVE TypeOK
    OBVIOUS
  <1>1. InitialFrames \subseteq Frames
    BY DEF Frames, FramesOf
  <1>2. [c \in Counters |-> 0] \in [Counters -> Nat]
    OBVIOUS
  <1>3. << >> \in Seq(Rows)
    OBVIOUS
  <1>4. stats \in [Counters -> Nat] /\ log \in Seq(Rows)
    BY <1>2, <1>3 DEF Init
  <1>5. 0 \in 0 .. MaxRounds /\ 0 \in 0 .. MaxRetries /\ 0 \in 0 .. MaxFrames
    BY ConfigAssumption
  <1> QED
    BY <1>1, <1>4, <1>5 DEF Init, TypeOK

(* Whatever its outcome, a turn adds one call and one row. *)
LEMMA TurnTypes ==
  ASSUME TypeOK, Progressing,
         NEW kind \in {"invalid", "answer", "select"},
         NEW request \in SUBSET Frames, NEW counters,
         Turn(kind, request, counters)
  PROVE  /\ stats' \in [Counters -> Nat]
         /\ log' \in Seq(Rows)
         /\ stats'["calls"] = stats["calls"] + 1
  <1>1. Row(kind, request) \in Rows
    <2>1. round \in 1 .. MaxRounds
      BY ConfigAssumption DEF TypeOK, Progressing, Turn
    <2> QED
      BY <2>1 DEF TypeOK, Row, Rows
  <1>2. Append(log, Row(kind, request)) \in Seq(Rows)
    BY <1>1 DEF TypeOK
  <1>3. Bump({"calls"} \cup counters) \in [Counters -> Nat]
    BY DEF TypeOK, Bump
  <1>4. Bump({"calls"} \cup counters)["calls"] = stats["calls"] + 1
    BY DEF Bump, Counters
  <1> QED
    BY <1>2, <1>3, <1>4 DEF Turn

(* A rejected turn changes the same types whatever is done about it. *)
LEMMA InvalidTypes ==
  ASSUME TypeOK, Progressing, NEW why \in Rejections, NEW counters,
         InvalidTurn(why, counters)
  PROVE  /\ reason' \in Reasons
         /\ stats' \in [Counters -> Nat]
         /\ log' \in Seq(Rows)
         /\ stats'["calls"] = stats["calls"] + 1
         /\ pc = "ask"
         /\ UNCHANGED <<round, shown, seen, pool, summary, effective, answerFrames>>
  <1>1. why \in Reasons
    BY ReasonIsKnown DEF Rejections
  <1>2. Turn("invalid", {}, {"invalid"} \cup counters)
    BY DEF InvalidTurn
  <1>3. pc = "ask" /\ UNCHANGED <<round, shown, seen, pool>>
    BY <1>2 DEF Turn
  <1>4. /\ stats' \in [Counters -> Nat]
        /\ log' \in Seq(Rows)
        /\ stats'["calls"] = stats["calls"] + 1
    BY <1>2, TurnTypes
  <1> QED
    BY <1>1, <1>3, <1>4 DEF InvalidTurn

LEMMA Distribute ==
  ASSUME NEW n \in Nat, NEW m \in Nat
  PROVE  (n + 1) * m = n * m + m /\ (n - 1) * m + m = n * m /\ n * m \in Nat
  OBVIOUS

(* The frames of a round, and of the rounds so far. *)
LEMMA ShownFits ==
  ASSUME TypeOK, NEW F \in FramesToShow
  PROVE  /\ F \subseteq Frames
         /\ Cardinality(F) <= MaxFrames
         /\ Cardinality(seen \cup F) <= Cardinality(seen) + Cardinality(F)
  <1>1. F \subseteq Frames /\ Cardinality(F) <= MaxFrames
    BY DEF FramesToShow, TypeOK, Frames, FramesOf
  <1>2. IsFiniteSet(F) /\ IsFiniteSet(seen) /\ seen \cap F \subseteq Frames
    BY <1>1, FramesFinite DEF TypeOK
  <1>3. Cardinality(seen \cup F) =
          Cardinality(seen) + Cardinality(F) - Cardinality(seen \cap F)
    BY <1>2, FS_Union
  <1>4. Cardinality(F) \in Nat /\ Cardinality(seen) \in Nat /\ Cardinality(seen \cap F) \in Nat
    BY <1>1, <1>2, FramesFinite DEF TypeOK
  <1> QED
    BY <1>1, <1>3, <1>4

LEMMA OffersKnown ==
  ASSUME TypeOK, NEW F \in SUBSET Frames, NEW P \in Offers(SeenWith(F))
  PROVE  P \subseteq Frames
  BY AdapterFacts DEF TypeOK, Offers, SeenWith

LEMMA BeginRoundStep ==
  ASSUME IInv, BeginRound
  PROVE  IInv'
  <1>1. PICK F \in FramesToShow : /\ shown' = F
                                  /\ seen' = seen \cup F
                                  /\ pool' \in Offers(SeenWith(F))
    BY DEF BeginRound, SeenWith
  <1>2. TypeOK /\ pc = "round" /\ round < MaxRounds
    BY DEF IInv, BeginRound
  <1>3. F \subseteq Frames /\ Cardinality(F) <= MaxFrames /\ pool' \subseteq Frames
    BY <1>1, <1>2, ShownFits, OffersKnown
  <1>4. round' = round + 1 /\ round' \in 0 .. MaxRounds /\ round \in Nat /\ retry' = 0 /\ pc' = "ask"
    BY <1>2, ConfigAssumption DEF BeginRound, TypeOK
  <1>5. TypeOK'
    <2>1. seen' \subseteq Frames
      BY <1>1, <1>2, <1>3 DEF TypeOK
    <2> QED
      BY <1>1, <1>2, <1>3, <1>4, <2>1, ConfigAssumption
      DEF TypeOK, BeginRound, outcomeVars
  <1>6. Progressing'
    BY <1>2, <1>4 DEF IInv, Progressing, BeginRound, outcomeVars, TypeOK
  <1>7. Spending'
    <2>1. Cardinality(seen) \in Nat /\ Cardinality(F) \in Nat /\ Cardinality(seen') \in Nat
      BY <1>1, <1>3, <1>5, <1>2, FramesFinite DEF TypeOK
    <2>2. Cardinality(seen') <= Cardinality(seen) + Cardinality(F)
      BY <1>1, <1>2, ShownFits
    <2>3. round' * MaxFrames = round * MaxFrames + MaxFrames /\ round * MaxFrames \in Nat
      BY <1>4, Distribute, ConfigAssumption
    <2>4. /\ round' * (MaxRetries + 1) = round * (MaxRetries + 1) + (MaxRetries + 1)
          /\ round * (MaxRetries + 1) \in Nat
      BY <1>4, Distribute, ConfigAssumption
    <2>5. stats' = stats /\ stats["calls"] \in Nat
      BY <1>2 DEF BeginRound, TypeOK, Counters
    <2>6. round' - 1 = round
      BY <1>4
    <2> QED
      BY <1>1, <1>3, <1>4, <2>1, <2>2, <2>3, <2>4, <2>5, <2>6, ConfigAssumption
      DEF IInv, Spending
  <1>8. StrictRounds'
    BY <1>2, <1>4 DEF IInv, StrictRounds, BeginRound, outcomeVars, TypeOK
  <1> QED
    BY <1>5, <1>6, <1>7, <1>8 DEF IInv

LEMMA RaiseStep ==
  ASSUME IInv, Raise
  PROVE  IInv'
  <1>1. TypeOK'
    BY DEF IInv, TypeOK, Raise, planVars, outcomeVars
  <1>2. Progressing' /\ Spending' /\ StrictRounds'
    BY DEF IInv, Progressing, Spending, StrictRounds, Raise, planVars, outcomeVars
  <1> QED
    BY <1>1, <1>2 DEF IInv

(* The spending of a turn: the call is covered by the retries of its round. *)
LEMMA TurnSpends ==
  ASSUME IInv, pc = "ask",
         stats'["calls"] = stats["calls"] + 1,
         UNCHANGED <<round, shown, seen>>
  PROVE  /\ stats'["calls"] <= (round - 1) * (MaxRetries + 1) + retry + 1
         /\ stats'["calls"] <= round * (MaxRetries + 1)
         /\ Cardinality(shown') <= MaxFrames
         /\ Cardinality(seen') <= round * MaxFrames
  <1>1. round \in Nat /\ retry \in Nat /\ retry <= MaxRetries /\ stats["calls"] \in Nat
        /\ MaxRetries \in Nat /\ round >= 1
    BY ConfigAssumption DEF IInv, TypeOK, Progressing, Counters
  <1>2. (round - 1) * (MaxRetries + 1) + (MaxRetries + 1) = round * (MaxRetries + 1)
        /\ (round - 1) * (MaxRetries + 1) \in Nat
    BY <1>1, Distribute
  <1>3. stats["calls"] <= (round - 1) * (MaxRetries + 1) + retry
    BY DEF IInv, Spending
  <1>4. stats'["calls"] <= (round - 1) * (MaxRetries + 1) + retry + 1
        /\ stats'["calls"] <= round * (MaxRetries + 1)
    BY <1>1, <1>2, <1>3
  <1> QED
    BY <1>4 DEF IInv, Spending

LEMMA AnswerStep ==
  ASSUME IInv, NEW o \in Outputs, AnswerTurn(o)
  PROVE  IInv'
  <1>1. /\ TypeOK /\ Progressing /\ pc = "ask" /\ pc' = "return"
        /\ Turn("answer", {}, {})
        /\ UNCHANGED <<round, shown, seen, pool, retry, plan, summary, effective,
                       terminated, reason>>
    BY DEF IInv, AnswerTurn, Turn
  <1>2. stats' \in [Counters -> Nat] /\ log' \in Seq(Rows) /\ stats'["calls"] = stats["calls"] + 1
    BY <1>1, TurnTypes
  <1>3. answer' \in Letters
    BY AcceptedAnswer DEF AnswerTurn
  <1>4. answerFrames' \in 0 .. MaxFrames
    <2>1. answerFrames' = Cardinality(shown) /\ Cardinality(shown) \in Nat
      BY <1>1, FramesFinite DEF AnswerTurn, TypeOK
    <2> QED
      BY <2>1, ConfigAssumption DEF IInv, Spending
  <1>5. TypeOK'
    BY <1>1, <1>2, <1>3, <1>4 DEF TypeOK
  <1>6. Spending'
    BY <1>1, <1>2, TurnSpends DEF Spending
  <1>7. Progressing'
    BY <1>1 DEF Progressing
  <1>8. StrictRounds'
    BY <1>1, <1>3, VocabularyAssumption DEF StrictRounds
  <1> QED
    BY <1>5, <1>6, <1>7, <1>8 DEF IInv

LEMMA SelectStep ==
  ASSUME IInv, NEW o \in Outputs, SelectTurn(o)
  PROVE  IInv'
  <1>1. /\ TypeOK /\ Progressing /\ pc = "ask" /\ pc' = "round"
        /\ o \in Selects /\ Accepted(o)
        /\ Turn("select", Requested(o), {"effective"})
        /\ plan' = Requested(o) /\ effective' = effective + 1
        /\ UNCHANGED <<round, shown, seen, pool, retry, answer, answerFrames,
                       terminated, reason>>
    BY DEF IInv, SelectTurn, Turn
  <1>2. Requested(o) \subseteq Frames /\ ~MustAnswer
    BY <1>1, AcceptedSelect DEF Frames, FramesOf
  <1>3. stats' \in [Counters -> Nat] /\ log' \in Seq(Rows) /\ stats'["calls"] = stats["calls"] + 1
    BY <1>1, <1>2, TurnTypes
  <1>4. /\ round \in Nat /\ effective \in Nat /\ effective < round /\ round <= MaxRounds
        /\ summary \in 0 .. MaxRounds /\ summary <= round
    BY <1>1 DEF TypeOK, Progressing
  <1>5. summary' \in 0 .. MaxRounds /\ summary' <= round
    BY <1>4, ConfigAssumption DEF SelectTurn
  <1>6. effective' \in 0 .. MaxRounds /\ effective' <= round
    BY <1>1, <1>4, ConfigAssumption
  <1>7. TypeOK'
    BY <1>1, <1>2, <1>3, <1>5, <1>6 DEF TypeOK
  <1>8. Progressing'
    BY <1>1, <1>5, <1>6 DEF Progressing
  <1>9. Spending'
    BY <1>1, <1>3, TurnSpends DEF Spending
  <1>10. StrictRounds'
    BY <1>1, <1>2, <1>4, ConfigAssumption DEF IInv, StrictRounds, MustAnswer
  <1> QED
    BY <1>7, <1>8, <1>9, <1>10 DEF IInv

LEMMA RetryStep ==
  ASSUME IInv, NEW why \in Rejections, RetryTurn(why)
  PROVE  IInv'
  <1>1. /\ TypeOK /\ Progressing /\ InvalidTurn(why, {"retries"})
        /\ retry' = retry + 1 /\ retry < MaxRetries
        /\ UNCHANGED <<pc, plan, answer, terminated>>
    BY DEF IInv, RetryTurn, Resolution, MayRetry
  <1>2. /\ reason' \in Reasons
        /\ stats' \in [Counters -> Nat]
        /\ log' \in Seq(Rows)
        /\ stats'["calls"] = stats["calls"] + 1
        /\ pc = "ask"
        /\ UNCHANGED <<round, shown, seen, pool, summary, effective, answerFrames>>
    BY <1>1, InvalidTypes
  <1>3. retry' \in 0 .. MaxRetries
    BY <1>1, ConfigAssumption DEF TypeOK
  <1>4. TypeOK'
    BY <1>1, <1>2, <1>3 DEF TypeOK
  <1>5. Spending'
    <2>1. /\ stats'["calls"] <= (round - 1) * (MaxRetries + 1) + retry + 1
          /\ stats'["calls"] <= round * (MaxRetries + 1)
          /\ Cardinality(shown') <= MaxFrames
          /\ Cardinality(seen') <= round * MaxFrames
      BY <1>2, TurnSpends
    <2>2. (round - 1) * (MaxRetries + 1) + retry + 1 = (round - 1) * (MaxRetries + 1) + retry'
      <3>1. round \in Nat /\ retry \in Nat /\ MaxRetries \in Nat /\ round >= 1
        BY <1>1, <1>2, ConfigAssumption DEF TypeOK, Progressing
      <3>2. (round - 1) * (MaxRetries + 1) \in Nat
        BY <3>1, Distribute
      <3> QED
        BY <1>1, <3>1, <3>2
    <2> QED
      BY <1>2, <2>1, <2>2 DEF Spending
  <1>6. Progressing' /\ StrictRounds'
    BY <1>1, <1>2 DEF IInv, Progressing, StrictRounds
  <1> QED
    BY <1>4, <1>5, <1>6 DEF IInv

LEMMA TerminateStep ==
  ASSUME IInv, NEW why \in Rejections, TerminateTurn(why)
  PROVE  IInv'
  <1>1. /\ TypeOK /\ Progressing /\ InvalidTurn(why, {"terminated"} \cup AsRetry(why))
        /\ terminated' = TRUE /\ answer' = NoLetter /\ pc' = "return"
        /\ UNCHANGED <<retry, plan>>
    BY DEF IInv, TerminateTurn
  <1>2. /\ reason' \in Reasons
        /\ stats' \in [Counters -> Nat]
        /\ log' \in Seq(Rows)
        /\ stats'["calls"] = stats["calls"] + 1
        /\ pc = "ask"
        /\ UNCHANGED <<round, shown, seen, pool, summary, effective, answerFrames>>
    BY <1>1, InvalidTypes
  <1>3. TypeOK'
    BY <1>1, <1>2 DEF TypeOK
  <1>4. Spending'
    BY <1>1, <1>2, TurnSpends DEF Spending
  <1>5. Progressing' /\ StrictRounds'
    BY <1>1, <1>2 DEF Progressing, StrictRounds
  <1> QED
    BY <1>3, <1>4, <1>5 DEF IInv

(* Both ways on without the model need a plan of known frames and a loop     *)
(* that is not strict.                                                       *)
LEMMA GoOnStep ==
  ASSUME IInv, ~Strict, NEW why \in Rejections, NEW counters,
         InvalidTurn(why, counters),
         plan' \subseteq Frames, pc' = "round",
         UNCHANGED <<retry, answer, terminated>>
  PROVE  IInv'
  <1>1. /\ reason' \in Reasons
        /\ stats' \in [Counters -> Nat]
        /\ log' \in Seq(Rows)
        /\ stats'["calls"] = stats["calls"] + 1
        /\ pc = "ask"
        /\ UNCHANGED <<round, shown, seen, pool, summary, effective, answerFrames>>
    BY InvalidTypes DEF IInv
  <1>2. TypeOK'
    BY <1>1 DEF IInv, TypeOK
  <1>3. Spending'
    BY <1>1, TurnSpends DEF Spending
  <1>4. Progressing' /\ StrictRounds'
    BY <1>1 DEF IInv, Progressing, StrictRounds
  <1> QED
    BY <1>2, <1>3, <1>4 DEF IInv

LEMMA OwnPlansKnown ==
  ASSUME TypeOK, NEW R \in OwnPlans
  PROVE  R \subseteq Frames
  <1>1. FallbackFrames \subseteq Frames /\ Smallest(MaxFrames, pool) \subseteq Frames
    BY DEF Frames, FramesOf, Smallest, TypeOK
  <1>2. \A U \in UnseenSamples(seen) : U \subseteq Frames
    BY AdapterFacts DEF TypeOK
  <1> QED
    BY <1>1, <1>2 DEF OwnPlans

LEMMA FinishStep ==
  ASSUME IInv, Finish
  PROVE  IInv'
  <1>1. /\ TypeOK /\ pc' = "done" /\ stats' = [stats EXCEPT !["rounds"] = @ + round]
        /\ UNCHANGED <<round, retry, plan, shown, seen, pool, summary, effective,
                       answer, answerFrames, terminated, reason, log>>
    BY DEF IInv, Finish, planVars, outcomeVars
  <1>2. stats' \in [Counters -> Nat] /\ stats'["calls"] = stats["calls"]
    BY <1>1 DEF TypeOK, Counters
  <1>3. TypeOK'
    BY <1>1, <1>2 DEF TypeOK
  <1>4. Progressing' /\ Spending'
    BY <1>1, <1>2 DEF IInv, Progressing, Spending
  <1>5. StrictRounds'
    BY <1>1, ConfigAssumption DEF IInv, StrictRounds, Finish, TypeOK
  <1> QED
    BY <1>3, <1>4, <1>5 DEF IInv

-------------------------------------------------------------------------------
LEMMA InitIInv == Init => IInv
  <1> SUFFICES ASSUME Init PROVE IInv
    OBVIOUS
  <1>1. TypeOK
    BY InitTypes
  <1>2. Progressing /\ StrictRounds
    BY ConfigAssumption DEF Init, Progressing, StrictRounds
  <1>3. Spending
    <2>1. Cardinality({}) = 0 /\ stats["calls"] = 0
      BY FS_EmptySet DEF Init, Counters
    <2>2. 0 <= MaxFrames /\ 0 * MaxFrames = 0 /\ 0 * (MaxRetries + 1) = 0
      BY ConfigAssumption
    <2> QED
      BY <2>1, <2>2 DEF Init, Spending
  <1> QED
    BY <1>1, <1>2, <1>3 DEF IInv

LEMMA AskStep ==
  ASSUME IInv, Ask
  PROVE  IInv'
  <1>1. CASE \E o \in Outputs : AnswerTurn(o) \/ SelectTurn(o)
    BY <1>1, AnswerStep, SelectStep
  <1>2. ASSUME NEW why \in Rejections,
               \/ RetryTurn(why) \/ TerminateTurn(why)
               \/ ClearPlanTurn(why) \/ FallbackTurn(why)
        PROVE  IInv'
    <2>1. CASE RetryTurn(why)
      BY <2>1, RetryStep
    <2>2. CASE TerminateTurn(why)
      BY <2>2, TerminateStep
    <2>3. CASE ClearPlanTurn(why)
      <3>1. /\ ~Strict /\ InvalidTurn(why, AsRetry(why)) /\ plan' \subseteq Frames
            /\ pc' = "round" /\ UNCHANGED <<retry, answer, terminated>>
        BY <2>3 DEF ClearPlanTurn, Resolution
      <3> QED
        BY <3>1, GoOnStep
    <2>4. CASE FallbackTurn(why)
      <3>1. /\ ~Strict /\ InvalidTurn(why, {"fallbacks"} \cup AsRetry(why))
            /\ pc' = "round" /\ UNCHANGED <<retry, answer, terminated>>
        BY <2>4 DEF FallbackTurn, Resolution
      <3>2. plan' \subseteq Frames
        BY <2>4, OwnPlansKnown DEF FallbackTurn, IInv
      <3> QED
        BY <3>1, <3>2, GoOnStep
    <2> QED
      BY <1>2, <2>1, <2>2, <2>3, <2>4
  <1> QED
    BY <1>1, <1>2 DEF Ask

LEMMA NextIInv == IInv /\ [Next]_vars => IInv'
  <1> SUFFICES ASSUME IInv, [Next]_vars PROVE IInv'
    OBVIOUS
  <1>1. CASE UNCHANGED vars
    <2>1. TypeOK'
      BY <1>1 DEF IInv, TypeOK, vars, planVars, outcomeVars
    <2>2. Progressing' /\ Spending' /\ StrictRounds'
      BY <1>1 DEF IInv, Progressing, Spending, StrictRounds, vars, planVars, outcomeVars
    <2> QED
      BY <2>1, <2>2 DEF IInv
  <1> QED
    BY <1>1, BeginRoundStep, RaiseStep, AskStep, FinishStep DEF Next

(* The inductive invariant holds of every sample of every configuration. *)
THEOREM Invariance == Spec => []IInv
  BY InitIInv, NextIInv, PTL DEF Spec

(* The counters of the loop stay in range and it shows no frame the timeline, *)
(* the initial plan or the fallback lacks, whatever the model answers.        *)
THEOREM TypeCorrect == Spec => []TypeOK
  BY Invariance, PTL DEF IInv

(* The price of a sample: no more calls and frames than its rounds allow.     *)
THEOREM BudgetKept == Spec => []WithinBudget
  <1>1. IInv => WithinBudget
    BY DEF IInv, Spending, WithinBudget
  <1> QED
    BY <1>1, Invariance, PTL

(* A strict loop accepts every letter in its last round, although it may      *)
(* reject all of them before: the clamp of min_select_rounds is enough.       *)
THEOREM StrictLastRoundAnswerable == Strict => (Spec => []FinalRoundAnswerable)
  <1> SUFFICES ASSUME Strict PROVE Spec => []FinalRoundAnswerable
    OBVIOUS
  <1>1. ASSUME IInv PROVE FinalRoundAnswerable
    <2> SUFFICES ASSUME pc = "ask", round = MaxRounds, NEW l \in Letters
                 PROVE  Accepted([form |-> "answer", letter |-> l])
      BY DEF FinalRoundAnswerable
    <2> DEFINE o == [form |-> "answer", letter |-> l]
    <2>1. o \in Answers /\ o.letter = l
      BY DEF Answers
    <2>2. effective = MaxRounds - 1
      BY <1>1 DEF IInv, StrictRounds
    <2>3. MinSelect <= MaxRounds - 1 /\ MinSelect \in Int
      BY ConfigAssumption DEF MinSelect
    <2>4. ~(effective < MinSelect) /\ ~(round < MaxRounds)
      BY <2>2, <2>3, ConfigAssumption
    <2> QED
      BY <2>1, <2>4, AcceptedAnswer
  <1> QED
    BY <1>1, Invariance, PTL

-------------------------------------------------------------------------------
(* Every step of the loop is a step of the bounded conversation.             *)

LEMMA PhaseOfPc ==
  /\ pc = "round" => Phase = "between"
  /\ pc = "ask" => Phase = "asking"
  /\ pc = "return" => Phase = "concluded"
  /\ pc = "done" => Phase = "closed"
  /\ pc = "raised" => Phase = "aborted"
  BY DEF Phase

LEMMA PhaseOfPcNext ==
  /\ pc' = "round" => Phase' = "between"
  /\ pc' = "ask" => Phase' = "asking"
  /\ pc' = "return" => Phase' = "concluded"
  /\ pc' = "done" => Phase' = "closed"
  /\ pc' = "raised" => Phase' = "aborted"
  BY DEF Phase

LEMMA LookStep ==
  ASSUME IInv, BeginRound
  PROVE  Episode!Look
  <1>1. PICK F \in FramesToShow : seen' = seen \cup F
    BY DEF BeginRound, SeenWith
  <1>2. F \in SUBSET Frames /\ Cardinality(F) <= MaxFrames
    BY <1>1, ShownFits DEF IInv
  <1>3. /\ pc = "round" /\ pc' = "ask" /\ round < MaxRounds
        /\ round' = round + 1 /\ retry' = 0 /\ UNCHANGED <<stats, answer>>
    BY DEF BeginRound, outcomeVars
  <1>4. Phase = "between" /\ Phase' = "asking"
    BY <1>3, PhaseOfPc, PhaseOfPcNext
  <1> QED
    BY <1>1, <1>2, <1>3, <1>4 DEF Episode!Look

LEMMA CalledStep ==
  ASSUME IInv, pc = "ask",
         stats'["calls"] = stats["calls"] + 1, UNCHANGED <<round, seen>>
  PROVE  Episode!Called
  BY PhaseOfPc DEF Episode!Called

LEMMA AcceptedEpisodeStep ==
  ASSUME IInv, NEW o \in Outputs
  PROVE  /\ AnswerTurn(o) => Episode!Conclude
         /\ SelectTurn(o) => Episode!MoveOn
  <1>1. ASSUME AnswerTurn(o) PROVE Episode!Conclude
    <2>1. /\ TypeOK /\ Progressing /\ Turn("answer", {}, {}) /\ pc = "ask" /\ pc' = "return"
          /\ answer' \in Letters /\ UNCHANGED <<round, seen, retry>>
      BY <1>1, AcceptedAnswer DEF IInv, AnswerTurn, Turn
    <2>2. Episode!Called
      BY <2>1, TurnTypes, CalledStep
    <2> QED
      BY <2>1, <2>2, PhaseOfPcNext DEF Episode!Conclude
  <1>2. ASSUME SelectTurn(o) PROVE Episode!MoveOn
    <2>1. /\ TypeOK /\ Progressing /\ Turn("select", Requested(o), {"effective"})
          /\ o \in Selects /\ Accepted(o) /\ pc = "ask" /\ pc' = "round"
          /\ UNCHANGED <<round, seen, retry, answer>>
      BY <1>2 DEF IInv, SelectTurn, Turn
    <2>2. Requested(o) \in SUBSET Frames
      BY <2>1, AcceptedSelect DEF Frames, FramesOf
    <2>3. Episode!Called
      BY <2>1, <2>2, TurnTypes, CalledStep
    <2> QED
      BY <2>1, <2>3, PhaseOfPcNext DEF Episode!MoveOn
  <1> QED
    BY <1>1, <1>2

LEMMA RejectedEpisodeStep ==
  ASSUME IInv, NEW why \in Rejections
  PROVE  /\ RetryTurn(why) => Episode!AskAgain
         /\ TerminateTurn(why) => Episode!Conclude
         /\ ClearPlanTurn(why) => Episode!MoveOn
         /\ FallbackTurn(why) => Episode!MoveOn
  <1>1. ASSUME NEW counters, InvalidTurn(why, counters)
        PROVE  Episode!Called /\ pc = "ask"
    <2>1. /\ stats'["calls"] = stats["calls"] + 1 /\ pc = "ask" /\ UNCHANGED <<round, seen>>
      BY <1>1, InvalidTypes DEF IInv
    <2> QED
      BY <2>1, CalledStep
  <1>2. ASSUME RetryTurn(why) PROVE Episode!AskAgain
    <2>1. /\ Episode!Called /\ retry < MaxRetries /\ retry' = retry + 1
          /\ UNCHANGED <<pc, answer>>
      BY <1>1, <1>2 DEF RetryTurn, Resolution, MayRetry
    <2>2. UNCHANGED Phase
      BY <2>1 DEF Phase
    <2> QED
      BY <2>1, <2>2 DEF Episode!AskAgain
  <1>3. ASSUME TerminateTurn(why) PROVE Episode!Conclude
    <2>1. Episode!Called /\ answer' = NoLetter /\ pc' = "return" /\ UNCHANGED retry
      BY <1>1, <1>3 DEF TerminateTurn
    <2> QED
      BY <2>1, PhaseOfPcNext DEF Episode!Conclude
  <1>4. ASSUME ClearPlanTurn(why) PROVE Episode!MoveOn
    <2>1. Episode!Called /\ pc' = "round" /\ UNCHANGED <<retry, answer>>
      BY <1>1, <1>4 DEF ClearPlanTurn
    <2> QED
      BY <2>1, PhaseOfPcNext DEF Episode!MoveOn
  <1>5. ASSUME FallbackTurn(why) PROVE Episode!MoveOn
    <2>1. Episode!Called /\ pc' = "round" /\ UNCHANGED <<retry, answer>>
      BY <1>1, <1>5 DEF FallbackTurn
    <2> QED
      BY <2>1, PhaseOfPcNext DEF Episode!MoveOn
  <1> QED
    BY <1>2, <1>3, <1>4, <1>5

LEMMA ExitStep ==
  ASSUME IInv
  PROVE  (Finish => Episode!Close) /\ (Raise => Episode!Abort)
  <1>1. ASSUME Finish PROVE Episode!Close
    <2>1. /\ pc = "return" \/ (pc = "round" /\ round = MaxRounds)
          /\ pc' = "done" /\ stats' = [stats EXCEPT !["rounds"] = @ + round]
          /\ UNCHANGED <<round, retry, seen, answer>>
      BY <1>1 DEF Finish, planVars, outcomeVars
    <2>2. stats'["calls"] = stats["calls"]
      BY <2>1 DEF IInv, TypeOK, Counters
    <2> QED
      BY <2>1, <2>2, PhaseOfPc, PhaseOfPcNext DEF Episode!Close
  <1>2. ASSUME Raise PROVE Episode!Abort
    <2>1. /\ pc = "ask" \/ (pc = "round" /\ round = 0)
          /\ pc' = "raised" /\ UNCHANGED <<round, retry, seen, stats, answer>>
      BY <1>2 DEF Raise, planVars, outcomeVars
    <2> QED
      BY <2>1, PhaseOfPc, PhaseOfPcNext DEF Episode!Abort
  <1> QED
    BY <1>1, <1>2

(* The loop implements the bounded conversation, but for its liveness: a     *)
(* sample starts as one, and each of its steps is one of its steps or none.  *)
THEOREM LoopRefinesEpisode == Spec => Episode!Init /\ [][Episode!Next]_(Episode!vars)
  <1>1. Init => Episode!Init
    BY PhaseOfPc DEF Init, Episode!Init, Counters
  <1>2. IInv /\ [Next]_vars => [Episode!Next]_(Episode!vars)
    <2> SUFFICES ASSUME IInv, [Next]_vars PROVE [Episode!Next]_(Episode!vars)
      OBVIOUS
    <2>1. CASE UNCHANGED vars
      BY <2>1 DEF vars, planVars, outcomeVars, Episode!vars, Phase
    <2>2. CASE Ask
      BY <2>2, AcceptedEpisodeStep, RejectedEpisodeStep DEF Ask, Episode!Next
    <2> QED
      BY <2>1, <2>2, LookStep, ExitStep DEF Next, Episode!Next
  <1> QED
    BY <1>1, <1>2, Invariance, PTL DEF Spec
-------------------------------------------------------------------------------
(***************************************************************************)
(* The log and the outcome: the rows are in order, accepted requests are   *)
(* carried out, rounds show new frames, and memory, counters and outcome   *)
(* agree with the rows.                                                    *)
(***************************************************************************)
Last == log[Len(log)]

(* Where the sample stands, by the last row it logged.                       *)
BetweenRounds ==
  pc = "round" =>
    /\ round = 0 => Len(log) = 0
    /\ round > 0 => /\ Len(log) > 0 /\ Last.round = round /\ Last.kind # "answer"
                    /\ Strict => Last.kind = "select"
                    /\ Last.kind = "select" =>
                         plan = Last.request /\ plan # {} /\ plan \cap seen = {}
Asking ==
  pc = "ask" =>
    /\ retry = 0 =>
         \/ Len(log) = 0 /\ round = 1
         \/ /\ Len(log) > 0 /\ Last.round = round - 1 /\ Last.kind # "answer"
            /\ Last.kind = "select" => shown = Last.request
    /\ retry > 0 => /\ Len(log) > 0 /\ Last.round = round /\ Last.kind = "invalid"
                    /\ Last.retry = retry - 1 /\ Last.shown = shown

(* An outcome is set by the row that ends the sample, and by no other.       *)
Undecided == answer = NoLetter /\ ~terminated /\ answerFrames = 0
Told ==
  /\ Len(log) > 0 /\ Last.round = round
  /\ Last.kind = "answer" <=> answer # NoLetter
  /\ terminated <=> Strict /\ Last.kind = "invalid"
  /\ answerFrames = IF Last.kind = "answer" THEN Cardinality(Last.shown) ELSE 0
Outcome ==
  /\ pc \in {"round", "ask"} => Undecided
  /\ pc \in {"return", "done"} => Told
  /\ pc \in {"round", "ask", "return"} => stats["rounds"] = 0
  /\ pc = "done" => stats["rounds"] = round

(* What the rows show was seen; what is shown now is new.                    *)
NewOrFallback(F) ==
  \A i \in DOMAIN log : log[i].round < round =>
    log[i].shown \cap F = {} \/ (~Strict /\ F = FallbackFrames)
Evidence ==
  /\ \A i \in DOMAIN log : log[i].shown \subseteq seen /\ log[i].round <= round
  /\ pc = "ask" => shown \subseteq seen /\ NewOrFallback(shown)

Memory ==
  CarrySummary =>
    /\ \A i \in RowsOf("select") : log[i].round <= summary
    /\ summary # 0 => \E i \in RowsOf("select") : log[i].round = summary

Ordered == AttemptsInOrder /\ SelectHonoured /\ FreshEvidence

LogInv == /\ BetweenRounds /\ Asking /\ Outcome /\ Evidence /\ Memory
          /\ Ordered /\ PlanFits

(* The turn at hand is asked again.                                          *)
Again == IF pc = "ask" /\ retry > 0 THEN 1 ELSE 0
Counted ==
  /\ stats["calls"] = Len(log)
  /\ stats["invalid"] = Cardinality(RowsOf("invalid"))
  /\ stats["effective"] = Cardinality(RowsOf("select")) /\ stats["effective"] = effective
  /\ Cardinality(Retried) + Again <= stats["retries"] /\ stats["retries"] <= stats["invalid"]
  /\ stats["terminated"] + stats["fallbacks"] + Cardinality(Retried) + Again <= stats["invalid"]

-------------------------------------------------------------------------------
(* One more row. *)

LEMMA LogIs ==
  ASSUME TypeOK
  PROVE  /\ log \in Seq(Rows) /\ Len(log) \in Nat /\ DOMAIN log = 1 .. Len(log)
         /\ \A i \in 1 .. Len(log) : log[i] \in Rows
  BY DEF TypeOK

LEMMA RowIs ==
  ASSUME NEW kind, NEW request
  PROVE  LET row == Row(kind, request)
         IN /\ row.round = round /\ row.retry = retry /\ row.kind = kind
            /\ row.request = request /\ row.shown = shown
  BY DEF Row

LEMMA TurnAppends ==
  ASSUME TypeOK, NEW kind, NEW request, NEW counters, Turn(kind, request, counters)
  PROVE  /\ Len(log') = Len(log) + 1 /\ DOMAIN log' = 1 .. Len(log) + 1
         /\ \A i \in 1 .. Len(log) : log'[i] = log[i]
         /\ Last' = log'[Len(log) + 1]
         /\ Last'.round = round /\ Last'.retry = retry /\ Last'.kind = kind
         /\ Last'.request = request /\ Last'.shown = shown
  <1>1. log' = Append(log, Row(kind, request)) /\ Len(log) \in Nat
    BY LogIs DEF Turn
  <1>2. /\ Len(log') = Len(log) + 1 /\ DOMAIN log' = 1 .. Len(log) + 1
        /\ \A i \in 1 .. Len(log) : log'[i] = log[i]
        /\ log'[Len(log) + 1] = Row(kind, request)
    BY <1>1, LogIs
  <1>3. Last' = Row(kind, request)
    BY <1>2 DEF Last
  <1> QED
    BY <1>2, <1>3, RowIs

(* Whatever a turn comes to, its row is in order, it shows what was asked    *)
(* for, and what it shows is new.                                            *)
LEMMA TurnKeepsOrder ==
  ASSUME IInv, LogInv, NEW kind, NEW request, NEW counters, Turn(kind, request, counters)
  PROVE  /\ Ordered'
         /\ \A i \in DOMAIN log' : log'[i].shown \subseteq seen' /\ log'[i].round <= round'
  <1> DEFINE n == Len(log)
  <1>1. /\ n \in Nat /\ DOMAIN log = 1 .. n
        /\ Len(log') = n + 1 /\ DOMAIN log' = 1 .. n + 1
        /\ \A i \in 1 .. n : log'[i] = log[i]
        /\ log'[n + 1].round = round /\ log'[n + 1].retry = retry /\ log'[n + 1].shown = shown
    BY LogIs, TurnAppends DEF IInv
  <1>2. pc = "ask" /\ UNCHANGED <<round, shown, seen, pool>>
    BY DEF Turn
  <1>3. round \in Nat /\ retry \in Nat /\ round <= MaxRounds
    BY DEF IInv, TypeOK
  <1>4. CASE n = 0
    <2>1. round = 1 /\ retry = 0
      BY <1>2, <1>3, <1>4 DEF LogInv, Asking
    <2>2. AttemptsInOrder'
      BY <1>1, <1>4, <2>1 DEF AttemptsInOrder
    <2>3. SelectHonoured' /\ FreshEvidence'
      BY <1>1, <1>4, <2>1 DEF SelectHonoured, FreshEvidence
    <2> QED
      BY <1>1, <1>2, <1>3, <1>4, <2>2, <2>3 DEF Ordered, LogInv, Evidence
  <1>5. CASE n > 0
    <2>1. /\ Last = log[n] /\ log'[n] = log[n] /\ n \in 1 .. n
          /\ \/ retry = 0 /\ Last.round = round - 1 /\ Last.kind # "answer"
                /\ (Last.kind = "select" => shown = Last.request)
             \/ retry > 0 /\ Last.round = round /\ Last.kind = "invalid"
                /\ Last.retry = retry - 1 /\ Last.shown = shown
      BY <1>1, <1>2, <1>3, <1>5 DEF LogInv, Asking, Last
    <2>2. AttemptsInOrder'
      <3>1. log'[1].round = 1 /\ log'[1].retry = 0
        BY <1>1, <1>5 DEF LogInv, Ordered, AttemptsInOrder
      <3>2. ASSUME NEW i \in 2 .. Len(log')
            PROVE  \/ /\ log'[i].round = log'[i - 1].round
                      /\ log'[i].retry = log'[i - 1].retry + 1
                      /\ log'[i].shown = log'[i - 1].shown
                      /\ log'[i - 1].kind = "invalid"
                   \/ /\ log'[i].round = log'[i - 1].round + 1
                      /\ log'[i].retry = 0
                      /\ log'[i - 1].kind # "answer"
        <4>1. CASE i = n + 1
          BY <1>1, <1>3, <1>5, <2>1, <4>1
        <4>2. CASE i # n + 1
          <5>1. i \in 2 .. n /\ i - 1 \in 1 .. n /\ i \in 1 .. n
            BY <1>1, <4>2
          <5> QED
            BY <1>1, <5>1 DEF LogInv, Ordered, AttemptsInOrder
        <4> QED
          BY <4>1, <4>2
      <3> QED
        BY <3>1, <3>2 DEF AttemptsInOrder
    <2>3. SelectHonoured'
      <3> SUFFICES ASSUME NEW i \in 1 .. Len(log') - 1, log'[i].kind = "select"
                   PROVE  log'[i + 1].shown = log'[i].request
        BY DEF SelectHonoured
      <3>1. CASE i = n
        BY <1>1, <2>1, <3>1
      <3>2. CASE i # n
        <4>0. Len(log') - 1 = n /\ n \in Nat
          BY <1>1
        <4>1. i \in 1 .. n - 1 /\ i \in 1 .. n /\ i + 1 \in 1 .. n
          BY <3>2, <4>0
        <4> QED
          BY <1>1, <4>1 DEF LogInv, Ordered, SelectHonoured
      <3> QED
        BY <3>1, <3>2
    <2>4. FreshEvidence'
      <3> SUFFICES ASSUME NEW i \in DOMAIN log', NEW j \in DOMAIN log',
                          log'[i].round < log'[j].round
                   PROVE  \/ log'[i].shown \cap log'[j].shown = {}
                          \/ ~Strict /\ log'[j].shown = FallbackFrames
        BY DEF FreshEvidence
      <3>0. \A k \in 1 .. n : log[k] \in Rows /\ log[k].round \in Nat /\ log[k].round <= round
        <4>1. \A k \in 1 .. n : log[k] \in Rows /\ log[k].round <= round
          BY <1>1, LogIs DEF IInv, LogInv, Evidence
        <4> QED
          BY <4>1, ConfigAssumption DEF Rows
      <3>1. CASE i \in 1 .. n /\ j \in 1 .. n
        BY <1>1, <3>1 DEF LogInv, Ordered, FreshEvidence
      <3>2. CASE i \in 1 .. n /\ j = n + 1
        <4>1. log[i].round < round
          BY <1>1, <3>2
        <4> QED
          BY <1>1, <1>2, <3>2, <4>1 DEF LogInv, Evidence, NewOrFallback
      <3>3. CASE i = n + 1
        BY <1>1, <1>3, <3>0, <3>3
      <3> QED
        BY <1>1, <3>1, <3>2, <3>3
    <2>5. \A i \in DOMAIN log' : log'[i].shown \subseteq seen' /\ log'[i].round <= round'
      BY <1>1, <1>2, <1>3 DEF LogInv, Evidence
    <2> QED
      BY <2>2, <2>3, <2>4, <2>5 DEF Ordered
  <1> QED
    BY <1>1, <1>4, <1>5

(* The memory behind one more row.                                           *)
LEMMA SelectRows ==
  ASSUME TypeOK, NEW kind, NEW request, NEW counters, Turn(kind, request, counters)
  PROVE  RowsOf("select")' = RowsOf("select") \cup (IF kind = "select" THEN {Len(log) + 1} ELSE {})
  BY LogIs, TurnAppends DEF RowsOf

LEMMA MemoryStays ==
  ASSUME IInv, LogInv, NEW kind \in {"invalid", "answer"}, NEW request, NEW counters,
         Turn(kind, request, counters), UNCHANGED summary
  PROVE  Memory'
  <1>1. RowsOf("select")' = RowsOf("select")
    BY SelectRows DEF IInv
  <1>2. \A i \in RowsOf("select") : log'[i] = log[i]
    BY LogIs, TurnAppends DEF IInv, RowsOf
  <1> QED
    BY <1>1, <1>2 DEF LogInv, Memory

LEMMA MemoryWritten ==
  ASSUME IInv, LogInv, NEW request, NEW counters,
         Turn("select", request, counters), summary' = IF CarrySummary THEN round ELSE summary
  PROVE  Memory'
  <1> SUFFICES ASSUME CarrySummary PROVE Memory'
    BY DEF Memory
  <1>1. RowsOf("select")' = RowsOf("select") \cup {Len(log) + 1} /\ summary' = round
    BY SelectRows DEF IInv
  <1>2. /\ \A i \in RowsOf("select") : log'[i] = log[i] /\ log[i].round <= round
        /\ log'[Len(log) + 1].round = round /\ round <= round
    BY LogIs, TurnAppends DEF IInv, RowsOf, LogInv, Evidence, TypeOK
  <1> QED
    BY <1>1, <1>2 DEF Memory

-------------------------------------------------------------------------------
(* A plan fits its round. *)

(* The first k of a set are at most k.                                       *)
LEMMA SmallestAreFew ==
  ASSUME NEW k \in Nat, NEW P \in SUBSET Frames
  PROVE  Cardinality(Smallest(k, P)) <= k
  <1> DEFINE Q == Smallest(k, P)
  <1>0. Frames \subseteq Nat
    BY AdapterFacts DEF Frames, FramesOf
  <1>1. IsFiniteSet(P) /\ Q \subseteq P /\ \A f \in P : Rank(f, P) \in Nat
    <2>1. \A f \in P : {g \in P : g <= f} \in SUBSET Frames
      OBVIOUS
    <2> QED
      BY <2>1, FramesFinite DEF Smallest, Rank
  <1>2. CASE Q = {}
    BY <1>2, FS_EmptySet
  <1>3. CASE Q # {}
    <2> DEFINE gaps == {k - Rank(f, P) : f \in Q}
    <2>1. gaps \in SUBSET Nat /\ gaps # {}
      BY <1>1, <1>3 DEF Smallest
    <2>2. PICK d \in gaps : \A e \in gaps : d <= e
      BY <2>1, LeastNumber
    <2>3. PICK m \in Q : d = k - Rank(m, P)
      BY <2>2
    <2>4. m \in P /\ Rank(m, P) \in Nat /\ Rank(m, P) <= k
      BY <1>1, <2>3 DEF Smallest
    <2>5. \A f \in Q : Rank(f, P) <= Rank(m, P)
      <3> SUFFICES ASSUME NEW f \in Q PROVE Rank(f, P) <= Rank(m, P)
        OBVIOUS
      <3>1. d <= k - Rank(f, P) /\ Rank(f, P) \in Nat
        BY <1>1, <2>2
      <3> QED
        BY <2>3, <2>4, <3>1
    <2>6. ASSUME NEW f \in Q PROVE f <= m
      <3> DEFINE A == {g \in P : g <= m}
                 B == {g \in P : g <= f}
      <3> SUFFICES ASSUME ~(f <= m) PROVE FALSE
        OBVIOUS
      <3>1. f \in P /\ f \in Nat /\ m \in Nat /\ P \subseteq Nat
        BY <1>0, <1>1, <2>4
      <3>2. A \subseteq B /\ f \in B /\ f \notin A
        <4>1. ASSUME NEW g \in P, g <= m PROVE g <= f
          <5>1. g \in Nat
            BY <3>1
          <5> QED
            BY <3>1, <4>1, <5>1
        <4>2. f <= f
          BY <3>1
        <4>3. A \subseteq B
          BY <4>1
        <4> QED
          BY <3>1, <4>2, <4>3
      <3>3. IsFiniteSet(B)
        BY <1>1, FS_Subset
      <3>4. Cardinality(A) < Cardinality(B) /\ Cardinality(A) \in Nat /\ Cardinality(B) \in Nat
        <4>1. Cardinality(A) <= Cardinality(B) /\ (Cardinality(A) = Cardinality(B) => A = B)
          BY <3>2, <3>3, FS_Subset
        <4>2. Cardinality(A) \in Nat /\ Cardinality(B) \in Nat
          BY <3>2, <3>3, FS_Subset, FS_CardinalityType
        <4> QED
          BY <3>2, <4>1, <4>2
      <3> QED
        BY <2>5, <3>4 DEF Rank
    <2>7. Q \subseteq {g \in P : g <= m}
      BY <1>1, <2>6
    <2>8. Cardinality(Q) <= Rank(m, P) /\ Cardinality(Q) \in Nat
      BY <1>1, <2>7, FS_Subset, FS_CardinalityType DEF Rank
    <2> QED
      BY <2>4, <2>8
  <1> QED
    BY <1>2, <1>3

LEMMA OwnPlansFit ==
  ASSUME TypeOK, NEW R \in OwnPlans
  PROVE  Cardinality(R) <= MaxFrames
  <1>1. Cardinality(FallbackFrames) <= MaxFrames /\ Cardinality(Smallest(MaxFrames, pool)) <= MaxFrames
    BY SmallestAreFew, AdapterFacts, ConfigAssumption DEF TypeOK
  <1>2. \A U \in UnseenSamples(seen) : Cardinality(U) <= MaxFrames
    BY AdapterFacts DEF TypeOK
  <1> QED
    BY <1>1, <1>2 DEF OwnPlans

-------------------------------------------------------------------------------
(* The steps that log nothing. *)

LEMMA CutKeeps ==
  ASSUME NEW B \in SUBSET Frames, Cardinality(B) <= MaxFrames,
         NEW F \in SUBSET B, F = B \/ Cardinality(F) = MaxFrames
  PROVE  F = B
  <1>1. IsFiniteSet(B) /\ Cardinality(B) \in Nat /\ Cardinality(F) \in Nat
    BY FramesFinite
  <1>2. Cardinality(F) <= Cardinality(B) /\ (Cardinality(B) = Cardinality(F) => B = F)
    BY <1>1, FS_Subset
  <1> QED
    BY <1>1, <1>2, ConfigAssumption

(* A round shows new frames or the fallback, and an accepted request whole.  *)
LEMMA RoundShows ==
  ASSUME TypeOK, PlanFits, NEW F \in FramesToShow
  PROVE  /\ F \cap seen = {} \/ F = FallbackFrames
         /\ plan # {} /\ plan \cap seen = {} => F = plan
  <1> DEFINE fresh == plan \ seen
             base == IF fresh = {} THEN FallbackFrames ELSE fresh
  <1>1. F \in SUBSET base /\ (F = base \/ Cardinality(F) = MaxFrames)
    BY DEF FramesToShow
  <1>2. CASE fresh = {}
    <2>1. F = FallbackFrames
      BY <1>1, <1>2, CutKeeps, AdapterFacts DEF Frames, FramesOf
    <2> QED
      BY <1>2, <2>1
  <1>3. CASE fresh # {}
    <2>1. ASSUME plan \cap seen = {} PROVE F = plan
      <3>1. base = plan
        BY <1>3, <2>1
      <3> QED
        BY <1>1, <3>1, CutKeeps DEF PlanFits, TypeOK
    <2> QED
      BY <1>1, <1>3, <2>1
  <1> QED
    BY <1>2, <1>3

LEMMA BeginRoundLog == ASSUME IInv, LogInv, BeginRound PROVE LogInv'
  <1> USE DEF IInv, LogInv
  <1>1. PICK F \in FramesToShow : shown' = F /\ seen' = seen \cup F
    BY DEF BeginRound, SeenWith
  <1>2. /\ pc = "round" /\ pc' = "ask" /\ retry' = 0 /\ round' = round + 1 /\ round \in Nat
        /\ UNCHANGED <<plan, summary, effective, answer, answerFrames, terminated, stats, log>>
    BY DEF BeginRound, outcomeVars, TypeOK
  <1>3. /\ F \cap seen = {} \/ F = FallbackFrames
        /\ plan # {} /\ plan \cap seen = {} => F = plan
    BY RoundShows
  <1>4. Last' = Last /\ RowsOf("select")' = RowsOf("select")
    BY <1>2 DEF Last, RowsOf
  <1>5. BetweenRounds' /\ PlanFits' /\ Memory' /\ Ordered'
    BY <1>2, <1>4 DEF BetweenRounds, PlanFits, Memory, Ordered, AttemptsInOrder, SelectHonoured,
                      FreshEvidence
  <1>6. Asking'
    <2>1. CASE round = 0
      BY <1>2, <2>1 DEF Asking, BetweenRounds
    <2>2. CASE round > 0
      <3>1. /\ Len(log) > 0 /\ Last.round = round /\ Last.kind # "answer"
            /\ Last.kind = "select" => F = Last.request
        BY <1>2, <1>3, <2>2 DEF BetweenRounds
      <3>2. round' - 1 = round
        BY <1>2
      <3> QED
        BY <1>1, <1>2, <1>4, <3>1, <3>2 DEF Asking
    <2> QED
      BY <1>2, <2>1, <2>2
  <1>7. Outcome'
    BY <1>2 DEF Outcome, Undecided
  <1>8. Evidence'
    <2>1. \A i \in DOMAIN log : log[i].round <= round /\ log[i].round \in Nat
      BY LogIs, ConfigAssumption DEF Evidence, Rows
    <2>2. \A i \in DOMAIN log : log[i].shown \subseteq seen' /\ log[i].round <= round'
      BY <1>1, <1>2, <2>1 DEF Evidence
    <2>3. ASSUME NEW i \in DOMAIN log
          PROVE  log[i].shown \cap F = {} \/ (~Strict /\ F = FallbackFrames)
      <3>1. round > 0
        <4>1. Len(log) > 0
          BY LogIs
        <4> QED
          BY <1>2, <4>1 DEF BetweenRounds
      <3>2. Strict => F \cap seen = {}
        BY <1>2, <1>3, <3>1 DEF BetweenRounds
      <3>3. log[i].shown \subseteq seen
        BY DEF Evidence
      <3> QED
        BY <1>3, <3>2, <3>3
    <2> QED
      BY <1>1, <1>2, <2>2, <2>3 DEF Evidence, NewOrFallback
  <1> QED
    BY <1>5, <1>6, <1>7, <1>8

LEMMA RaiseLog == ASSUME IInv, LogInv, Raise PROVE LogInv'
  <1> USE DEF IInv, LogInv
  <1>1. /\ pc' = "raised"
        /\ UNCHANGED <<round, retry, plan, shown, seen, pool, summary, effective, answer,
                       answerFrames, terminated, stats, log>>
    BY DEF Raise, planVars, outcomeVars
  <1>2. BetweenRounds' /\ Asking' /\ Outcome'
    BY <1>1 DEF BetweenRounds, Asking, Outcome
  <1>3. Evidence' /\ Memory' /\ PlanFits' /\ Ordered'
    BY <1>1 DEF Evidence, Memory, RowsOf, PlanFits, Ordered, AttemptsInOrder, SelectHonoured,
                FreshEvidence
  <1> QED
    BY <1>2, <1>3

LEMMA FinishLog == ASSUME IInv, LogInv, Finish PROVE LogInv'
  <1> USE DEF IInv, LogInv
  <1>1. /\ pc = "return" \/ (pc = "round" /\ round = MaxRounds)
        /\ pc' = "done" /\ stats' = [stats EXCEPT !["rounds"] = @ + round]
        /\ UNCHANGED <<round, retry, plan, shown, seen, pool, summary, effective, answer,
                       answerFrames, terminated, log>>
    BY DEF Finish, planVars, outcomeVars
  <1>2. BetweenRounds' /\ Asking'
    BY <1>1 DEF BetweenRounds, Asking
  <1>3. Evidence' /\ Memory' /\ PlanFits' /\ Ordered'
    BY <1>1 DEF Evidence, Memory, RowsOf, PlanFits, Ordered, AttemptsInOrder, SelectHonoured,
                FreshEvidence
  <1>4. Outcome'
    <2>1. stats'["rounds"] = round
      BY <1>1 DEF Outcome, TypeOK, Counters
    <2>2. Told
      <3>1. CASE pc = "return"
        BY <3>1 DEF Outcome
      <3>2. CASE pc = "round" /\ round = MaxRounds
        <4>1. round > 0
          BY <3>2, ConfigAssumption
        <4>2. /\ Len(log) > 0 /\ Last.round = round /\ Last.kind # "answer"
              /\ Strict => Last.kind = "select"
          BY <3>2, <4>1 DEF BetweenRounds
        <4>3. Undecided
          BY <3>2 DEF Outcome
        <4> QED
          BY <4>2, <4>3 DEF Told, Undecided
      <3> QED
        BY <1>1, <3>1, <3>2
    <2>3. Told'
      BY <1>1, <2>2 DEF Told, Last
    <2> QED
      BY <1>1, <2>1, <2>3 DEF Outcome
  <1> QED
    BY <1>2, <1>3, <1>4

-------------------------------------------------------------------------------
(* The turns. *)

LEMMA AnswerLog == ASSUME IInv, LogInv, NEW o \in Outputs, AnswerTurn(o) PROVE LogInv'
  <1> USE DEF IInv, LogInv
  <1>1. /\ Turn("answer", {}, {}) /\ pc = "ask" /\ pc' = "return"
        /\ answer' = o.letter /\ answerFrames' = Cardinality(shown)
        /\ UNCHANGED <<round, shown, seen, pool, retry, plan, summary, effective, terminated>>
    BY DEF AnswerTurn, Turn
  <1>2. /\ Len(log') = Len(log) + 1 /\ Last'.round = round /\ Last'.kind = "answer"
        /\ Last'.shown = shown /\ Len(log) \in Nat
    BY <1>1, TurnAppends, LogIs
  <1>3. Ordered' /\ Evidence'
    BY <1>1, TurnKeepsOrder DEF Evidence
  <1>4. Memory'
    BY <1>1, MemoryStays
  <1>5. BetweenRounds' /\ Asking' /\ PlanFits'
    BY <1>1 DEF BetweenRounds, Asking, PlanFits
  <1>6. Outcome'
    <2>1. answer' # NoLetter
      BY AcceptedAnswer, VocabularyAssumption DEF AnswerTurn
    <2>2. Undecided /\ stats'["rounds"] = 0
      BY <1>1 DEF Outcome, Turn, Bump, Counters
    <2>3. Told'
      BY <1>1, <1>2, <2>1, <2>2 DEF Told, Undecided
    <2> QED
      BY <1>1, <2>2, <2>3 DEF Outcome
  <1> QED
    BY <1>3, <1>4, <1>5, <1>6

LEMMA SelectLog == ASSUME IInv, LogInv, NEW o \in Outputs, SelectTurn(o) PROVE LogInv'
  <1> USE DEF IInv, LogInv
  <1>1. /\ Turn("select", Requested(o), {"effective"}) /\ pc = "ask" /\ pc' = "round"
        /\ plan' = Requested(o) /\ o \in Selects /\ Accepted(o)
        /\ summary' = IF CarrySummary THEN round ELSE summary
        /\ UNCHANGED <<round, shown, seen, pool, retry, answer, answerFrames, terminated>>
    BY DEF SelectTurn, Turn
  <1>2. /\ Len(log') = Len(log) + 1 /\ Last'.round = round /\ Last'.kind = "select"
        /\ Last'.request = Requested(o) /\ Len(log) \in Nat
    BY <1>1, TurnAppends, LogIs
  <1>3. /\ Requested(o) # {} /\ Requested(o) \cap seen = {}
        /\ ~(Cardinality(Requested(o)) > MaxFrames) /\ Requested(o) \subseteq Frames
    BY <1>1, AcceptedSelect DEF Frames, FramesOf
  <1>4. Ordered' /\ Evidence'
    BY <1>1, TurnKeepsOrder DEF Evidence
  <1>5. Memory'
    BY <1>1, MemoryWritten
  <1>6. BetweenRounds'
    <2>1. round >= 1 /\ round \in Nat
      BY <1>1 DEF Progressing, TypeOK
    <2> QED
      BY <1>1, <1>2, <1>3, <2>1 DEF BetweenRounds
  <1>7. Asking' /\ PlanFits'
    <2>1. Cardinality(plan') \in Nat
      BY <1>1, <1>3, FramesFinite
    <2> QED
      BY <1>1, <1>3, <2>1, ConfigAssumption DEF Asking, PlanFits
  <1>8. Outcome'
    BY <1>1 DEF Outcome, Undecided, Turn, Bump, Counters
  <1> QED
    BY <1>4, <1>5, <1>6, <1>7, <1>8

(* What a rejected turn leaves, whatever is done about it.                   *)
LEMMA InvalidLog ==
  ASSUME IInv, LogInv, NEW why \in Rejections, NEW counters, InvalidTurn(why, counters),
         "rounds" \notin counters
  PROVE  /\ Ordered' /\ Memory' /\ (pc' # "ask" => Evidence')
         /\ \A i \in DOMAIN log' : log'[i].shown \subseteq seen' /\ log'[i].round <= round'
         /\ pc = "ask" /\ Undecided /\ stats'["rounds"] = 0 /\ round > 0
         /\ Len(log') > 0 /\ Last'.round = round /\ Last'.kind = "invalid"
         /\ Last'.retry = retry /\ Last'.shown = shown
         /\ UNCHANGED <<round, shown, seen, pool, summary, answerFrames>>
  <1> USE DEF IInv, LogInv
  <1>1. /\ Turn("invalid", {}, {"invalid"} \cup counters) /\ pc = "ask"
        /\ UNCHANGED <<round, shown, seen, pool, summary, answerFrames>>
    BY DEF InvalidTurn, Turn
  <1>2. /\ Len(log') > 0 /\ Last'.round = round /\ Last'.kind = "invalid"
        /\ Last'.retry = retry /\ Last'.shown = shown
    BY <1>1, TurnAppends, LogIs
  <1>3. /\ Ordered' /\ (pc' # "ask" => Evidence')
        /\ \A i \in DOMAIN log' : log'[i].shown \subseteq seen' /\ log'[i].round <= round'
    BY <1>1, TurnKeepsOrder DEF Evidence
  <1>4. Memory'
    BY <1>1, MemoryStays
  <1>5. Undecided /\ round > 0
    BY <1>1 DEF Outcome, Progressing, TypeOK
  <1>6. stats'["rounds"] = 0
    BY <1>1 DEF Outcome, Turn, Bump, Counters
  <1> QED
    BY <1>1, <1>2, <1>3, <1>4, <1>5, <1>6

LEMMA RetryLog == ASSUME IInv, LogInv, NEW why \in Rejections, RetryTurn(why) PROVE LogInv'
  <1> USE DEF IInv, LogInv
  <1>1. /\ InvalidTurn(why, {"retries"}) /\ retry' = retry + 1 /\ UNCHANGED <<pc, plan, answer, terminated>>
    BY DEF RetryTurn
  <1>2. /\ Ordered' /\ Memory'
        /\ \A i \in DOMAIN log' : log'[i].shown \subseteq seen' /\ log'[i].round <= round'
        /\ pc = "ask" /\ Undecided /\ stats'["rounds"] = 0
        /\ Len(log') > 0 /\ Last'.round = round /\ Last'.kind = "invalid"
        /\ Last'.retry = retry /\ Last'.shown = shown
        /\ UNCHANGED <<round, shown, seen, answerFrames>>
    BY <1>1, InvalidLog
  <1>3. BetweenRounds' /\ PlanFits' /\ Outcome'
    BY <1>1, <1>2 DEF BetweenRounds, PlanFits, Outcome, Undecided
  <1>4. Asking'
    <2>1. retry' > 0 /\ retry' - 1 = retry
      BY <1>1 DEF TypeOK
    <2> QED
      BY <1>1, <1>2, <2>1 DEF Asking
  <1>5. Evidence'
    <2>1. ASSUME NEW i \in DOMAIN log', log'[i].round < round
          PROVE  log'[i].shown \cap shown = {} \/ (~Strict /\ shown = FallbackFrames)
      <3>1. i \in 1 .. Len(log) + 1 /\ Len(log) \in Nat
            /\ Last' = log'[Len(log) + 1] /\ \A j \in 1 .. Len(log) : log'[j] = log[j]
        BY <1>1, TurnAppends, LogIs DEF InvalidTurn
      <3>2. i # Len(log) + 1
        BY <1>2, <2>1, <3>1 DEF TypeOK
      <3>3. i \in DOMAIN log /\ log'[i] = log[i]
        BY <3>1, <3>2, LogIs
      <3> QED
        BY <1>2, <2>1, <3>3 DEF Evidence, NewOrFallback
    <2> QED
      BY <1>2, <2>1 DEF Evidence, NewOrFallback
  <1> QED
    BY <1>2, <1>3, <1>4, <1>5

LEMMA TerminateLog == ASSUME IInv, LogInv, NEW why \in Rejections, TerminateTurn(why) PROVE LogInv'
  <1> USE DEF IInv, LogInv
  <1>1. /\ InvalidTurn(why, {"terminated"} \cup AsRetry(why)) /\ Strict
        /\ terminated' = TRUE /\ answer' = NoLetter /\ pc' = "return" /\ UNCHANGED <<retry, plan>>
    BY DEF TerminateTurn, Resolution
  <1>2. /\ Ordered' /\ Memory' /\ Evidence' /\ Undecided /\ stats'["rounds"] = 0
        /\ Len(log') > 0 /\ Last'.round = round /\ Last'.kind = "invalid"
        /\ UNCHANGED <<round, answerFrames>>
    BY <1>1, InvalidLog DEF AsRetry
  <1>3. BetweenRounds' /\ Asking' /\ PlanFits'
    BY <1>1 DEF BetweenRounds, Asking, PlanFits
  <1>4. Told'
    BY <1>1, <1>2 DEF Told, Undecided
  <1>5. Outcome'
    BY <1>1, <1>2, <1>4 DEF Outcome
  <1> QED
    BY <1>2, <1>3, <1>5

LEMMA GoOnLog ==
  ASSUME IInv, LogInv, ~Strict, NEW why \in Rejections, NEW counters,
         InvalidTurn(why, counters), "rounds" \notin counters,
         Cardinality(plan') <= MaxFrames, pc' = "round", UNCHANGED <<retry, answer, terminated>>
  PROVE  LogInv'
  <1> USE DEF IInv, LogInv
  <1>1. /\ Ordered' /\ Memory' /\ Evidence' /\ Undecided /\ stats'["rounds"] = 0 /\ round > 0
        /\ Len(log') > 0 /\ Last'.round = round /\ Last'.kind = "invalid"
        /\ UNCHANGED <<round, answerFrames>>
    BY InvalidLog
  <1>2. BetweenRounds' /\ Asking' /\ PlanFits'
    BY <1>1 DEF BetweenRounds, Asking, PlanFits, TypeOK
  <1>3. Outcome'
    BY <1>1 DEF Outcome, Undecided
  <1> QED
    BY <1>1, <1>2, <1>3

LEMMA AskLog == ASSUME IInv, LogInv, Ask PROVE LogInv'
  <1>1. CASE \E o \in Outputs : AnswerTurn(o) \/ SelectTurn(o)
    BY <1>1, AnswerLog, SelectLog
  <1>2. ASSUME NEW why \in Rejections, ClearPlanTurn(why) PROVE LogInv'
    <2>1. /\ ~Strict /\ InvalidTurn(why, AsRetry(why)) /\ "rounds" \notin AsRetry(why) /\ plan' = {}
          /\ pc' = "round" /\ UNCHANGED <<retry, answer, terminated>>
      BY <1>2 DEF ClearPlanTurn, Resolution, AsRetry
    <2>2. Cardinality(plan') <= MaxFrames
      BY <2>1, FS_EmptySet, ConfigAssumption
    <2> QED
      BY <2>1, <2>2, GoOnLog
  <1>3. ASSUME NEW why \in Rejections, FallbackTurn(why) PROVE LogInv'
    <2> DEFINE counters == {"fallbacks"} \cup AsRetry(why)
    <2>1. /\ ~Strict /\ InvalidTurn(why, counters) /\ "rounds" \notin counters /\ plan' \in OwnPlans
          /\ pc' = "round" /\ UNCHANGED <<retry, answer, terminated>>
      BY <1>3 DEF FallbackTurn, Resolution, AsRetry
    <2>2. Cardinality(plan') <= MaxFrames
      BY <2>1, OwnPlansFit DEF IInv
    <2> QED
      BY <2>1, <2>2, GoOnLog
  <1> QED
    BY <1>1, <1>2, <1>3, RetryLog, TerminateLog DEF Ask

LEMMA InitLog == Init => LogInv
  <1> SUFFICES ASSUME Init PROVE LogInv
    OBVIOUS
  <1>1. log = << >> /\ Len(log) = 0 /\ DOMAIN log = {} /\ RowsOf("select") = {}
    BY DEF Init, RowsOf
  <1>2. BetweenRounds /\ Asking /\ Evidence /\ Memory
    BY <1>1 DEF Init, BetweenRounds, Asking, Evidence, Memory
  <1>3. Outcome
    BY DEF Init, Outcome, Undecided, Counters
  <1>4. Ordered
    BY <1>1 DEF Ordered, AttemptsInOrder, SelectHonoured, FreshEvidence
  <1>5. PlanFits
    BY AdapterFacts DEF Init, PlanFits
  <1> QED
    BY <1>2, <1>3, <1>4, <1>5 DEF LogInv

LEMMA NextLog == IInv /\ LogInv /\ [Next]_vars => LogInv'
  <1> SUFFICES ASSUME IInv, LogInv, [Next]_vars PROVE LogInv'
    OBVIOUS
  <1>1. CASE UNCHANGED vars
    <2>1. BetweenRounds' /\ Asking' /\ Outcome' /\ Evidence'
      BY <1>1 DEF vars, planVars, outcomeVars, LogInv, BetweenRounds, Asking, Outcome, Undecided, Told,
           Last, Evidence, NewOrFallback
    <2>2. Memory' /\ Ordered' /\ PlanFits'
      BY <1>1 DEF vars, planVars, outcomeVars, LogInv, Memory, RowsOf, Ordered, AttemptsInOrder,
           SelectHonoured, FreshEvidence, PlanFits
    <2> QED
      BY <2>1, <2>2 DEF LogInv
  <1> QED
    BY <1>1, BeginRoundLog, RaiseLog, FinishLog, AskLog DEF Next

(* What the log says of a sample is in order and true, in every state.       *)
THEOREM LogInvariance == Spec => [](IInv /\ LogInv)
  <1>1. Init => LogInv
    BY InitLog
  <1>2. IInv /\ LogInv /\ [Next]_vars => LogInv'
    BY NextLog
  <1> QED
    BY <1>1, <1>2, Invariance, PTL DEF Spec

(* The rows of a sample are its attempts, round by round, retry by retry.    *)
THEOREM AttemptsAreInOrder == Spec => []AttemptsInOrder
  <1>1. LogInv => AttemptsInOrder
    BY DEF LogInv, Ordered
  <1> QED
    BY <1>1, LogInvariance, PTL

(* A request that was accepted is shown in the next round as it was made,    *)
(* for every dataset and every configuration: filtering what was seen and    *)
(* cutting to the budget change nothing of it.                               *)
THEOREM SelectsHonoured == Spec => []SelectHonoured
  <1>1. LogInv => SelectHonoured
    BY DEF LogInv, Ordered
  <1> QED
    BY <1>1, LogInvariance, PTL

(* No frame is shown again in a later round but in the fallback of a loop    *)
(* that is not strict.                                                       *)
THEOREM EvidenceIsFresh == Spec => []FreshEvidence
  <1>1. LogInv => FreshEvidence
    BY DEF LogInv, Ordered
  <1> QED
    BY <1>1, LogInvariance, PTL

(* Every plan fits a round: the first, the model's, the program's own.       *)
THEOREM PlansFit == Spec => []PlanFits
  <1>1. LogInv => PlanFits
    BY DEF LogInv
  <1> QED
    BY <1>1, LogInvariance, PTL

(* Rejected turns leave no trace in the memory.                              *)
THEOREM MemoryIsOfSelects == Spec => []MemoryFollowsSelects
  <1>1. LogInv => MemoryFollowsSelects
    BY DEF LogInv, Memory, MemoryFollowsSelects
  <1> QED
    BY <1>1, LogInvariance, PTL

(* The outcome of a sample can be read off its last row.                     *)
THEOREM OutcomeIsLogged == Spec => []LogTellsOutcome
  <1>1. ASSUME IInv, LogInv PROVE LogTellsOutcome
    <2> SUFFICES ASSUME pc = "done" PROVE
          /\ (answer # NoLetter) = (Last.kind = "answer")
          /\ terminated = (Strict /\ Last.kind = "invalid")
          /\ answerFrames = IF Last.kind = "answer" THEN Cardinality(Last.shown) ELSE 0
          /\ Last.round = round /\ stats["rounds"] = round
      BY DEF LogTellsOutcome, Last
    <2>1. Told /\ stats["rounds"] = round
      BY <1>1 DEF LogInv, Outcome
    <2>2. terminated \in BOOLEAN
      BY <1>1 DEF IInv, TypeOK
    <2>3. (answer # NoLetter) = (Last.kind = "answer")
      BY <2>1, Zenon DEF Told
    <2>4. terminated = (Strict /\ Last.kind = "invalid")
      BY <2>1, <2>2, Zenon DEF Told
    <2> QED
      BY <2>1, <2>3, <2>4 DEF Told
  <1> QED
    BY <1>1, LogInvariance, PTL

-------------------------------------------------------------------------------
(* The counters. *)

LEMMA RowsFinite ==
  ASSUME TypeOK
  PROVE  /\ \A kind : RowsOf(kind) \subseteq 1 .. Len(log) /\ IsFiniteSet(RowsOf(kind))
                      /\ Cardinality(RowsOf(kind)) \in Nat
         /\ Retried \subseteq 1 .. Len(log) /\ Len(log) \notin Retried
         /\ IsFiniteSet(Retried) /\ Cardinality(Retried) \in Nat
  <1>1. IsFiniteSet(1 .. Len(log)) /\ Len(log) \in Nat
    BY LogIs, FS_Interval
  <1>2. \A kind : RowsOf(kind) \subseteq 1 .. Len(log)
    BY LogIs DEF RowsOf
  <1>3. Retried \subseteq 1 .. Len(log) /\ Len(log) \notin Retried
    BY <1>1, <1>2 DEF Retried
  <1> QED
    BY <1>1, <1>2, <1>3, FS_Subset, FS_CardinalityType

LEMMA TurnCounts ==
  ASSUME IInv, LogInv, NEW kind, NEW request, NEW counters, Turn(kind, request, counters)
  PROVE  /\ \A k : Cardinality(RowsOf(k)') =
                     Cardinality(RowsOf(k)) + (IF k = kind THEN 1 ELSE 0)
         /\ Cardinality(Retried') = Cardinality(Retried) + Again
  <1> DEFINE n == Len(log)
  <1>1. /\ n \in Nat /\ DOMAIN log = 1 .. n /\ n + 1 \notin 1 .. n
        /\ DOMAIN log' = 1 .. n + 1 /\ Len(log') = n + 1
        /\ \A i \in 1 .. n : log'[i] = log[i]
        /\ log'[n + 1].kind = kind /\ log'[n + 1].round = round
    BY LogIs, TurnAppends DEF IInv
  <1>2. ASSUME NEW k
        PROVE  Cardinality(RowsOf(k)') = Cardinality(RowsOf(k)) + (IF k = kind THEN 1 ELSE 0)
    <2>1. RowsOf(k)' = IF k = kind THEN RowsOf(k) \cup {n + 1} ELSE RowsOf(k)
      BY <1>1 DEF RowsOf
    <2>2. n + 1 \notin RowsOf(k) /\ IsFiniteSet(RowsOf(k)) /\ Cardinality(RowsOf(k)) \in Nat
      BY <1>1, RowsFinite DEF IInv
    <2> QED
      BY <2>1, <2>2, FS_AddElement
  <1>3. pc = "ask" /\ retry \in Nat /\ round \in Nat
    BY DEF Turn, IInv, TypeOK
  <1>4. \A i \in 1 .. n - 1 : i \in Retried' <=> i \in Retried
    <2>1. ASSUME NEW i \in 1 .. n - 1
          PROVE  i \in 1 .. n /\ i + 1 \in 1 .. n /\ i < n /\ i < n + 1 /\ i \in 1 .. n + 1
      BY <1>1
    <2> QED
      BY <1>1, <2>1 DEF Retried, RowsOf
  <1>5. Retried' \subseteq 1 .. n /\ Retried \subseteq 1 .. n - 1 /\ n \notin Retried
    BY <1>1 DEF Retried, RowsOf
  <1>6. n \in Retried' <=> Again = 1
    <2>1. CASE n = 0
      BY <1>1, <1>3, <1>5, <2>1 DEF LogInv, Asking, Again
    <2>2. CASE n > 0 /\ retry = 0
      <3>1. log[n].round = round - 1 /\ n \in 1 .. n
        BY <1>1, <1>3, <2>2 DEF LogInv, Asking, Last
      <3>2. log'[n].round # log'[n + 1].round
        BY <1>1, <1>3, <3>1
      <3>3. Again # 1
        BY <2>2 DEF Again
      <3>4. n \notin Retried'
        <4> SUFFICES ASSUME n \in Retried' PROVE FALSE
          OBVIOUS
        <4>1. Retried' = {i \in RowsOf("invalid")' :
                            i < Len(log') /\ log'[i + 1].round = log'[i].round}
          BY DEF Retried
        <4>2. log'[n + 1].round = log'[n].round
          BY <4>1
        <4> QED
          BY <3>2, <4>2
      <3> QED
        BY <3>3, <3>4
    <2>3. CASE n > 0 /\ retry > 0
      <3>1. log[n].round = round /\ log[n].kind = "invalid" /\ n \in 1 .. n
        BY <1>1, <1>3, <2>3 DEF LogInv, Asking, Last
      <3>2. n < Len(log') /\ n \in DOMAIN log'
        BY <1>1, <2>3
      <3>3. Again = 1
        BY <1>3, <2>3 DEF Again
      <3>4. n \in RowsOf("invalid")' /\ log'[n + 1].round = log'[n].round
        BY <1>1, <3>1, <3>2 DEF RowsOf
      <3>5. n \in Retried'
        BY <3>2, <3>4 DEF Retried
      <3> QED
        BY <3>3, <3>5
    <2> QED
      BY <1>1, <1>3, <2>1, <2>2, <2>3
  <1>7. Cardinality(Retried') = Cardinality(Retried) + Again
    <2>1. Again \in {0, 1}
      BY DEF Again
    <2>2. Retried' = IF Again = 1 THEN Retried \cup {n} ELSE Retried
      <3>1. \A i \in 1 .. n : i = n \/ i \in 1 .. n - 1
        <4>1. \A m \in Nat : \A i \in 1 .. m : i = m \/ i \in 1 .. m - 1
          OBVIOUS
        <4> QED
          BY <1>1, <4>1
      <3>2. ASSUME NEW i PROVE i \in Retried' <=> i \in Retried \/ (i = n /\ Again = 1)
        BY <1>4, <1>5, <1>6, <3>1
      <3> QED
        BY <3>2
    <2>3. IsFiniteSet(Retried) /\ Cardinality(Retried) \in Nat
      BY RowsFinite DEF IInv
    <2>4. CASE Again = 1
      <3>1. Cardinality(Retried \cup {n}) = Cardinality(Retried) + 1
        BY <1>5, <2>3, FS_AddElement
      <3> QED
        BY <2>2, <2>4, <3>1
    <2>5. CASE Again = 0
      BY <2>2, <2>3, <2>5
    <2> QED
      BY <2>1, <2>4, <2>5
  <1> QED
    BY <1>2, <1>7

(* One turn, counted: what it is besides a call.                             *)
LEMMA TurnCounted ==
  ASSUME IInv, LogInv, Counted, NEW kind \in {"invalid", "answer", "select"}, NEW request,
         NEW counters, Turn(kind, request, counters),
         "calls" \notin counters,
         "invalid" \in counters <=> kind = "invalid",
         "effective" \in counters <=> kind = "select",
         effective' = IF kind = "select" THEN effective + 1 ELSE effective,
         Again' = 1 => "retries" \in counters /\ "terminated" \notin counters
                       /\ "fallbacks" \notin counters,
         "retries" \in counters => "invalid" \in counters,
         "terminated" \in counters \/ "fallbacks" \in counters => "invalid" \in counters,
         ~("terminated" \in counters /\ "fallbacks" \in counters)
  PROVE  Counted'
  <1> DEFINE one(b) == IF b THEN 1 ELSE 0
  <1>1. \A c \in Counters : /\ stats[c] \in Nat
                            /\ stats'[c] = stats[c] + one(c = "calls" \/ c \in counters)
    BY DEF IInv, TypeOK, Turn, Bump
  <1>2. /\ stats'["calls"] = stats["calls"] + 1
        /\ stats'["invalid"] = stats["invalid"] + one("invalid" \in counters)
        /\ stats'["effective"] = stats["effective"] + one("effective" \in counters)
        /\ stats'["retries"] = stats["retries"] + one("retries" \in counters)
        /\ stats'["terminated"] = stats["terminated"] + one("terminated" \in counters)
        /\ stats'["fallbacks"] = stats["fallbacks"] + one("fallbacks" \in counters)
        /\ {stats["calls"], stats["invalid"], stats["effective"], stats["retries"],
            stats["terminated"], stats["fallbacks"]} \subseteq Nat
    BY <1>1 DEF Counters
  <1>3. /\ Len(log') = Len(log) + 1
        /\ Cardinality(RowsOf("invalid")') = Cardinality(RowsOf("invalid")) + one("invalid" = kind)
        /\ Cardinality(RowsOf("select")') = Cardinality(RowsOf("select")) + one("select" = kind)
        /\ Cardinality(Retried') = Cardinality(Retried) + Again
    BY TurnAppends, TurnCounts DEF IInv
  <1>4. Again \in {0, 1} /\ Again' \in {0, 1} /\ Cardinality(Retried) \in Nat /\ effective \in Nat
    BY RowsFinite DEF Again, IInv, TypeOK
  <1>5. /\ stats'["calls"] = Len(log')
        /\ stats'["invalid"] = Cardinality(RowsOf("invalid")')
        /\ stats'["effective"] = Cardinality(RowsOf("select")') /\ stats'["effective"] = effective'
    BY <1>2, <1>3, <1>4 DEF Counted
  <1>6. /\ Cardinality(Retried') + Again' <= stats'["retries"]
        /\ stats'["retries"] <= stats'["invalid"]
    <2>1. /\ Cardinality(Retried) + Again <= stats["retries"] /\ stats["retries"] <= stats["invalid"]
          /\ stats["retries"] \in Nat /\ stats["invalid"] \in Nat
          /\ Cardinality(Retried) \in Nat
      BY <1>2, <1>4 DEF Counted
    <2>2. /\ Again' <= one("retries" \in counters)
          /\ one("retries" \in counters) <= one("invalid" \in counters)
      BY <1>4
    <2>3. one("retries" \in counters) \in {0, 1} /\ one("invalid" \in counters) \in {0, 1}
      OBVIOUS
    <2>4. /\ stats'["invalid"] = stats["invalid"] + one("invalid" \in counters)
          /\ stats'["retries"] = stats["retries"] + one("retries" \in counters)
          /\ Cardinality(Retried') = Cardinality(Retried) + Again
      BY <1>2, <1>3
    <2> HIDE DEF one
    <2> QED
      BY <1>4, <2>1, <2>2, <2>3, <2>4
  <1>7. stats'["terminated"] + stats'["fallbacks"] + Cardinality(Retried') + Again'
          <= stats'["invalid"]
    <2>1. Again' + one("terminated" \in counters) + one("fallbacks" \in counters)
            <= one("invalid" \in counters)
      <3>1. CASE Again' = 1
        BY <3>1
      <3>2. CASE Again' = 0
        BY <3>2
      <3> QED
        BY <1>4, <3>1, <3>2
    <2>2. /\ {one("terminated" \in counters), one("fallbacks" \in counters),
              one("invalid" \in counters)} \subseteq Nat
          /\ one("invalid" \in counters) = one("invalid" = kind)
      OBVIOUS
    <2>3. \A t, f, q, i, x, y, v \in Nat : \A a, b \in {0, 1} :
             b + x + y <= v /\ t + f + q + a <= i
             => (t + x) + (f + y) + (q + a) + b <= i + v
      OBVIOUS
    <2>4. /\ {Cardinality(Retried), stats["invalid"], stats["terminated"], stats["fallbacks"]}
               \subseteq Nat
          /\ stats["terminated"] + stats["fallbacks"] + Cardinality(Retried) + Again
               <= stats["invalid"]
      BY <1>2, <1>4 DEF Counted
    <2>5. (stats["terminated"] + one("terminated" \in counters))
            + (stats["fallbacks"] + one("fallbacks" \in counters))
            + (Cardinality(Retried) + Again) + Again'
            <= stats["invalid"] + one("invalid" \in counters)
      <3> HIDE DEF one
      <3> QED
        BY <1>4, <2>1, <2>2, <2>4, <2>3
    <2> QED
      <3> HIDE DEF one
      <3> QED
        BY <1>2, <1>3, <2>5
  <1> QED
    BY <1>5, <1>6, <1>7 DEF Counted

LEMMA AskCounted == ASSUME IInv, LogInv, Counted, Ask PROVE Counted'
  <1>0. Again' \in {0, 1} /\ (Again' = 1 => pc' = "ask")
    BY DEF Again
  <1>1. ASSUME NEW o \in Outputs, AnswerTurn(o) PROVE Counted'
    <2>1. Turn("answer", {}, {}) /\ pc' = "return" /\ UNCHANGED effective
      BY <1>1 DEF AnswerTurn
    <2> QED
      BY <1>0, <2>1, TurnCounted
  <1>2. ASSUME NEW o \in Outputs, SelectTurn(o) PROVE Counted'
    <2>1. Turn("select", Requested(o), {"effective"}) /\ pc' = "round" /\ effective' = effective + 1
      BY <1>2 DEF SelectTurn
    <2> QED
      BY <1>0, <2>1, TurnCounted
  <1>3. ASSUME NEW why \in Rejections, RetryTurn(why) PROVE Counted'
    <2>1. Turn("invalid", {}, {"invalid"} \cup {"retries"}) /\ UNCHANGED effective
      BY <1>3 DEF RetryTurn, InvalidTurn
    <2> QED
      BY <1>0, <2>1, TurnCounted
  <1>4. ASSUME NEW why \in Rejections, TerminateTurn(why) PROVE Counted'
    <2>1. /\ Turn("invalid", {}, {"invalid"} \cup ({"terminated"} \cup AsRetry(why)))
          /\ UNCHANGED effective /\ pc' = "return"
      BY <1>4 DEF TerminateTurn, InvalidTurn
    <2> QED
      BY <1>0, <2>1, TurnCounted DEF AsRetry
  <1>5. ASSUME NEW why \in Rejections, ClearPlanTurn(why) PROVE Counted'
    <2>1. /\ Turn("invalid", {}, {"invalid"} \cup AsRetry(why))
          /\ UNCHANGED effective /\ pc' = "round"
      BY <1>5 DEF ClearPlanTurn, InvalidTurn
    <2> QED
      BY <1>0, <2>1, TurnCounted DEF AsRetry
  <1>6. ASSUME NEW why \in Rejections, FallbackTurn(why) PROVE Counted'
    <2>1. /\ Turn("invalid", {}, {"invalid"} \cup ({"fallbacks"} \cup AsRetry(why)))
          /\ UNCHANGED effective /\ pc' = "round"
      BY <1>6 DEF FallbackTurn, InvalidTurn
    <2> QED
      BY <1>0, <2>1, TurnCounted DEF AsRetry
  <1> QED
    BY <1>1, <1>2, <1>3, <1>4, <1>5, <1>6 DEF Ask

LEMMA NextCounted == IInv /\ LogInv /\ Counted /\ [Next]_vars => Counted'
  <1> SUFFICES ASSUME IInv, LogInv, Counted, [Next]_vars PROVE Counted'
    OBVIOUS
  <1>1. CASE Ask
    BY <1>1, AskCounted
  <1>2. CASE BeginRound \/ Raise \/ Finish \/ UNCHANGED vars
    <2>1. UNCHANGED <<log, effective>> /\ (\A c \in Counters \ {"rounds"} : stats'[c] = stats[c])
      BY <1>2 DEF BeginRound, Raise, Finish, vars, planVars, outcomeVars, IInv, TypeOK
    <2>2. RowsOf("invalid")' = RowsOf("invalid") /\ RowsOf("select")' = RowsOf("select") /\ Retried' = Retried
      BY <2>1 DEF RowsOf, Retried
    <2>3. Again' \in {0, Again} /\ Again \in {0, 1}
      <3>1. UNCHANGED vars => Again' = Again
        BY DEF vars, Again
      <3>2. BeginRound \/ Raise \/ Finish => Again' = 0
        BY DEF BeginRound, Raise, Finish, Again
      <3> QED
        BY <1>2, <3>1, <3>2 DEF Again
    <2>4. /\ UNCHANGED <<stats["calls"], stats["invalid"], stats["effective"], stats["retries"],
                         stats["terminated"], stats["fallbacks"]>>
          /\ {stats["retries"], stats["invalid"], stats["terminated"], stats["fallbacks"],
              Cardinality(Retried)} \subseteq Nat
      BY <2>1, RowsFinite DEF Counters, IInv, TypeOK
    <2> QED
      BY <2>1, <2>2, <2>3, <2>4 DEF Counted
  <1> QED
    BY <1>1, <1>2 DEF Next

(* The counters a sample adds to the summary are those of its log.           *)
THEOREM CountersMatchLog == Spec => []StatsMatchLog
  <1>1. Init => Counted
    <2> SUFFICES ASSUME Init PROVE Counted
      OBVIOUS
    <2>1. log = << >> /\ Len(log) = 0 /\ Again = 0
      BY DEF Init, Again
    <2>2. RowsOf("invalid") = {} /\ RowsOf("select") = {} /\ Retried = {}
      BY <2>1 DEF RowsOf, Retried
    <2>3. /\ \A c \in Counters : stats[c] = 0
          /\ effective = 0
      BY DEF Init
    <2>4. Cardinality({}) = 0
      BY FS_EmptySet
    <2>5. /\ Cardinality(RowsOf("invalid")) = 0 /\ Cardinality(RowsOf("select")) = 0
          /\ Cardinality(Retried) = 0
      BY <2>2, <2>4
    <2>6. /\ stats["calls"] = 0 /\ stats["invalid"] = 0 /\ stats["effective"] = 0
          /\ stats["retries"] = 0 /\ stats["terminated"] = 0 /\ stats["fallbacks"] = 0
      BY <2>3 DEF Counters
    <2> QED
      BY <2>1, <2>3, <2>5, <2>6 DEF Counted
  <1>2. IInv /\ LogInv /\ Counted /\ [Next]_vars => Counted'
    BY NextCounted
  <1>3. IInv /\ Counted => StatsMatchLog
    <2> SUFFICES ASSUME IInv, Counted PROVE StatsMatchLog
      OBVIOUS
    <2>1. /\ {stats["retries"], stats["invalid"], stats["terminated"], stats["fallbacks"],
              Cardinality(Retried)} \subseteq Nat
          /\ Again \in {0, 1}
      BY RowsFinite DEF Counters, IInv, TypeOK, Again
    <2> QED
      BY <2>1 DEF Counted, StatsMatchLog
  <1> QED
    BY <1>1, <1>2, <1>3, LogInvariance, PTL DEF Spec

-------------------------------------------------------------------------------
(* Every step of the loop is, from outside, a step of a sample's run.        *)

(* A sample that returns before its last round is over returns a decision.   *)
Decided == pc = "return" => answer # NoLetter \/ (Strict /\ terminated)

LEMMA StepDecides == Decided /\ [Next]_vars => Decided'
  <1> SUFFICES ASSUME Decided, [Next]_vars, pc' = "return"
               PROVE  answer' # NoLetter \/ (Strict /\ terminated')
    BY DEF Decided
  <1>1. CASE UNCHANGED vars
    BY <1>1 DEF vars, outcomeVars, Decided
  <1>2. CASE BeginRound \/ Raise \/ Finish
    BY <1>2 DEF BeginRound, Raise, Finish
  <1>3. CASE Ask
    <2>1. ASSUME NEW o \in Outputs, AnswerTurn(o) PROVE answer' # NoLetter
      BY <2>1, AcceptedAnswer, VocabularyAssumption DEF AnswerTurn
    <2>2. ASSUME NEW why \in Rejections, TerminateTurn(why) PROVE Strict /\ terminated'
      BY <2>2 DEF TerminateTurn, Resolution
    <2>3. ASSUME NEW o \in Outputs, SelectTurn(o) PROVE FALSE
      BY <2>3 DEF SelectTurn
    <2>4. ASSUME NEW why \in Rejections, ClearPlanTurn(why) \/ FallbackTurn(why) PROVE FALSE
      BY <2>4 DEF ClearPlanTurn, FallbackTurn
    <2>5. ASSUME NEW why \in Rejections, RetryTurn(why) PROVE FALSE
      BY <1>3, <2>5 DEF Ask, RetryTurn
    <2> QED
      BY <1>3, <2>1, <2>2, <2>3, <2>4, <2>5 DEF Ask
  <1> QED
    BY <1>1, <1>2, <1>3 DEF Next

(* While the model is asked, the sample runs, its round not over; between    *)
(* rounds it runs, and its rounds are those begun.                           *)
LEMMA Running ==
  /\ pc = "ask" => ~Returned /\ RoundsOver = round - 1 /\ Result = "none"
  /\ pc = "round" => ~Returned /\ RoundsOver = round /\ Result = "none"
  BY DEF Returned, RoundsOver, Result

LEMMA RunningNext ==
  /\ pc' = "ask" => ~Returned' /\ RoundsOver' = round' - 1 /\ Result' = "none"
  /\ pc' = "round" => ~Returned' /\ RoundsOver' = round' /\ Result' = "none"
  BY DEF Returned, RoundsOver, Result

(* A turn that ends its round with no answer.                                *)
LEMMA RoundEndsOutside ==
  ASSUME IInv, pc = "ask", UNCHANGED round,
         pc' = "round" \/ (pc' = "return" /\ answer' = NoLetter)
  PROVE  FromOutside!Turn
  <1>1. round \in 1 .. MaxRounds
    BY ConfigAssumption DEF IInv, TypeOK, Progressing
  <1>2. ~Returned /\ RoundsOver = round - 1 /\ Result = "none"
    BY Running
  <1>3. ~Returned' /\ RoundsOver' = round /\ Result' = "none"
    BY RunningNext DEF Returned, RoundsOver, Result
  <1> QED
    BY <1>1, <1>2, <1>3, ConfigAssumption DEF FromOutside!Turn

LEMMA AskOutside ==
  ASSUME IInv, Ask
  PROVE  [FromOutside!Next]_(FromOutside!vars)
  <1>1. pc = "ask" /\ round \in 1 .. MaxRounds /\ UNCHANGED round
    <2>1. UNCHANGED round
      BY DEF Ask, AnswerTurn, SelectTurn, RetryTurn, TerminateTurn, ClearPlanTurn,
             FallbackTurn, InvalidTurn, Turn
    <2> QED
      BY <2>1, ConfigAssumption DEF Ask, IInv, TypeOK, Progressing
  <1>2. ASSUME NEW o \in Outputs, AnswerTurn(o) PROVE \E l \in Letters : FromOutside!Answer(l)
    <2>1. pc' = "return" /\ answer' = o.letter /\ o.letter \in Letters
      BY <1>2, AcceptedAnswer DEF AnswerTurn
    <2>2. Returned' /\ RoundsOver' = round /\ Result' = o.letter
      BY <1>1, <2>1, VocabularyAssumption DEF Returned, RoundsOver, Result
    <2>3. ~Returned /\ RoundsOver = round - 1
      BY <1>1, Running
    <2>4. RoundsOver < MaxRounds /\ RoundsOver' = RoundsOver + 1
      BY <1>1, <2>2, <2>3, ConfigAssumption
    <2> QED
      BY <2>1, <2>2, <2>3, <2>4 DEF FromOutside!Answer, FromOutside!Ends
  <1>3. ASSUME NEW o \in Outputs, SelectTurn(o) PROVE FromOutside!Turn
    BY <1>1, <1>3, RoundEndsOutside DEF SelectTurn
  <1>4. ASSUME NEW why \in Rejections,
               TerminateTurn(why) \/ ClearPlanTurn(why) \/ FallbackTurn(why)
        PROVE  FromOutside!Turn
    BY <1>1, <1>4, RoundEndsOutside DEF TerminateTurn, ClearPlanTurn, FallbackTurn
  <1>5. ASSUME NEW why \in Rejections, RetryTurn(why) PROVE UNCHANGED FromOutside!vars
    <2>1. pc' = "ask"
      BY <1>1, <1>5 DEF RetryTurn
    <2> QED
      BY <1>1, <2>1, Running, RunningNext DEF FromOutside!vars
  <1> QED
    BY <1>2, <1>3, <1>4, <1>5 DEF Ask, FromOutside!Next

LEMMA FinishOutside ==
  ASSUME IInv, Outcome, Decided, Finish
  PROVE  [FromOutside!Next]_(FromOutside!vars)
  <1>1. pc' = "done" /\ UNCHANGED <<round, answer, terminated>> /\ round \in 0 .. MaxRounds
    BY DEF Finish, outcomeVars, IInv, TypeOK
  <1>2. Returned' /\ RoundsOver' = round
        /\ Result' = IF answer # NoLetter THEN answer
                     ELSE IF terminated THEN "terminated" ELSE "exhausted"
    BY <1>1 DEF Returned, RoundsOver, Result
  <1>3. CASE pc = "return" /\ answer # NoLetter
    <2>1. Returned /\ RoundsOver = round /\ Result = answer
      BY <1>3 DEF Returned, RoundsOver, Result
    <2> QED
      BY <1>2, <1>3, <2>1 DEF FromOutside!vars
  <1>4. CASE pc = "return" /\ answer = NoLetter
    <2>1. Strict /\ terminated /\ round > 0
      BY <1>1, <1>4 DEF Decided, IInv, Progressing
    <2>2. ~Returned /\ RoundsOver = round
      BY <1>4 DEF Returned, RoundsOver
    <2> QED
      BY <1>2, <1>4, <2>1, <2>2
      DEF FromOutside!Next, FromOutside!Terminate, FromOutside!Ends
  <1>5. CASE pc = "round" /\ round = MaxRounds
    <2>1. answer = NoLetter /\ ~terminated
      BY <1>5 DEF Outcome, Undecided
    <2>2. ~(Strict /\ ForceFinalAnswer)
      BY <1>5, ConfigAssumption DEF IInv, StrictRounds
    <2>3. ~Returned /\ RoundsOver = round
      BY <1>5, Running
    <2> QED
      BY <1>2, <1>5, <2>1, <2>2, <2>3
      DEF FromOutside!Next, FromOutside!Exhaust, FromOutside!Ends
  <1> QED
    BY <1>3, <1>4, <1>5 DEF Finish

(* The loop is what the evaluation harness takes a sample for: whatever the  *)
(* model says, it answers in its last round, is terminated by strict actions,*)
(* runs out of rounds or raises, and a strict sample that must answer never  *)
(* just runs out of rounds.                                                  *)
THEOREM LoopIsSampleRun == Spec => ImplementsSampleRun
  <1>1. Init => FromOutside!Init /\ Decided
    BY DEF Init, FromOutside!Init, RoundsOver, Returned, Result, Decided
  <1>2. IInv /\ LogInv /\ Decided /\ [Next]_vars => [FromOutside!Next]_(FromOutside!vars)
    <2> SUFFICES ASSUME IInv, LogInv, Decided, [Next]_vars
                 PROVE  [FromOutside!Next]_(FromOutside!vars)
      OBVIOUS
    <2>1. CASE UNCHANGED vars
      BY <2>1 DEF vars, outcomeVars, FromOutside!vars, RoundsOver, Returned, Result
    <2>2. CASE BeginRound
      <3>1. pc = "round" /\ pc' = "ask" /\ round' = round + 1 /\ round \in Nat
        BY <2>2 DEF BeginRound, IInv, TypeOK
      <3>2. RoundsOver' = round
        BY <3>1, RunningNext
      <3> QED
        BY <3>1, <3>2, Running, RunningNext DEF FromOutside!vars
    <2>3. CASE Raise
      <3>1. /\ pc = "ask" \/ (pc = "round" /\ round = 0)
            /\ pc' = "raised" /\ UNCHANGED round
        BY <2>3 DEF Raise
      <3>2. pc = "ask" => round > 0
        BY DEF IInv, TypeOK, Progressing
      <3>3. Returned' /\ Result' = "raised" /\ RoundsOver' = RoundsOver /\ ~Returned
        BY <3>1, <3>2 DEF Returned, Result, RoundsOver
      <3> QED
        BY <3>3 DEF FromOutside!Next, FromOutside!Raise, FromOutside!Ends
    <2>4. CASE Finish
      BY <2>4, FinishOutside DEF LogInv
    <2> QED
      BY <2>1, <2>2, <2>3, <2>4, AskOutside DEF Next
  <1> QED
    BY <1>1, <1>2, StepDecides, LogInvariance, PTL DEF Spec, ImplementsSampleRun, FromOutside!Spec
-------------------------------------------------------------------------------
(* Candidate numbers. *)

(* Each member of a set has a place of its own in it: the candidate numbers  *)
(* that are in range name as many candidates.                                *)
LEMMA OnePlaceEach ==
  ASSUME NEW P \in SUBSET Frames, NEW ids, ids \subseteq 1 .. Cardinality(P)
  PROVE  Cardinality(ByRank(ids, P)) = Cardinality(ids)
  <1> DEFINE N == 1 .. Cardinality(P)
             place == [f \in P |-> Rank(f, P)]
             Upto(f) == {g \in P : g <= f}
  <1>1. P \subseteq Nat /\ IsFiniteSet(P) /\ Cardinality(P) \in Nat
    <2>1. Frames \subseteq Nat
      BY AdapterFacts DEF Frames, FramesOf
    <2> QED
      BY <2>1, FramesFinite
  <1>2. \A f \in P : Upto(f) \in SUBSET P /\ f \in Upto(f)
    BY <1>1
  <1>3. \A f \in P : Cardinality(Upto(f)) \in Nat /\ IsFiniteSet(Upto(f))
    BY FramesFinite, <1>2
  <1>4. ASSUME NEW f \in P PROVE place[f] \in N
    <2>1. Cardinality(Upto(f)) <= Cardinality(P)
      BY <1>1, <1>2, FS_Subset
    <2>2. Cardinality(Upto(f)) # 0
      BY <1>2, <1>3, FS_EmptySet
    <2>3. place[f] = Cardinality(Upto(f))
      BY DEF Rank
    <2> HIDE DEF Upto, place
    <2> QED
      BY <1>1, <1>3, <2>1, <2>2, <2>3
  <1>5. ASSUME NEW f \in P, NEW g \in P, f < g PROVE place[f] # place[g]
    <2>1. Upto(f) \in SUBSET Upto(g)
      <3>1. ASSUME NEW h \in P, h <= f PROVE h <= g
        BY <1>1, <1>5, <3>1
      <3> QED
        BY <3>1
    <2>2. g \in Upto(g) /\ g \notin Upto(f)
      BY <1>1, <1>5
    <2>3. place[f] = Cardinality(Upto(f)) /\ place[g] = Cardinality(Upto(g))
      BY DEF Rank
    <2> HIDE DEF Upto, place
    <2>4. Cardinality(Upto(f)) = Cardinality(Upto(g)) => Upto(f) = Upto(g)
      BY <1>3, <2>1, FS_Subset
    <2> QED
      BY <2>2, <2>3, <2>4
  <1>6. ASSUME NEW f \in P, NEW g \in P, place[f] = place[g] PROVE f = g
    <2>1. f \in Nat /\ g \in Nat
      BY <1>1
    <2>2. ~(f < g) /\ ~(g < f)
      BY <1>5, <1>6
    <2> HIDE DEF place
    <2> QED
      BY <2>1, <2>2
  <1>7. place \in Injection(P, N)
    BY <1>4, <1>6, Fun_IsInj
  <1>8. IsFiniteSet(N) /\ Cardinality(N) = Cardinality(P)
    <2>1. IsFiniteSet(N) /\ Cardinality(N) = IF 1 > Cardinality(P) THEN 0 ELSE Cardinality(P) - 1 + 1
      BY <1>1, FS_Interval
    <2> QED
      BY <1>1, <2>1
  <1>9. place \in Surjection(P, N)
    <2> HIDE DEF N, place
    <2> QED
      BY <1>7, <1>8, FS_Injection
  <1> DEFINE Q == ByRank(ids, P)
             named == [f \in Q |-> place[f]]
  <1>10. Q \subseteq P /\ \A f \in P : f \in Q <=> place[f] \in ids
    BY DEF ByRank
  <1>11. \A i \in ids : \E f \in P : place[f] = i
    <2> HIDE DEF place, N
    <2>1. \A i \in N : \E f \in P : place[f] = i
      BY <1>9 DEF Surjection
    <2> QED
      BY <2>1 DEF N
  <1> HIDE DEF place, Q, N
  <1>12. named \in Bijection(Q, ids)
    <2>1. \A f \in Q : named[f] \in ids
      BY <1>10
    <2>2. \A f, g \in Q : named[f] = named[g] => f = g
      BY <1>6, <1>10
    <2>3. \A i \in ids : \E f \in Q : named[f] = i
      BY <1>10, <1>11
    <2> QED
      BY <2>1, <2>2, <2>3, Fun_IsBij
  <1>13. IsFiniteSet(Q)
    BY <1>1, <1>10, FS_Subset
  <1>14. ExistsBijection(Q, ids)
    BY <1>12 DEF ExistsBijection
  <1> QED
    BY <1>13, <1>14, FS_Bijection DEF Q

(* However the candidates are offered, by number or as frames, an accepted   *)
(* select is taken at its word: each number it gives adds one candidate to   *)
(* the plan, and nothing else is added.                                      *)
THEOREM CandidatesTakenAtWord == Spec => CandidatesOnly
  <1> DEFINE A == \A o \in Selects :
                    SelectTurn(o) /\ pool # {} /\ (UseCandidateIds \/ RequireCandidates) =>
                      /\ plan' \subseteq pool
                      /\ Cardinality(plan') = Cardinality(o.body.numbers)
  <1>1. ASSUME IInv PROVE A
    <2> SUFFICES ASSUME NEW o \in Selects, SelectTurn(o), pool # {},
                        UseCandidateIds \/ RequireCandidates
                 PROVE  /\ plan' \subseteq pool
                        /\ Cardinality(plan') = Cardinality(o.body.numbers)
      OBVIOUS
    <2>1. plan' = Requested(o) /\ Accepted(o)
      BY DEF SelectTurn
    <2>2. ~UnknownId(o) /\ ~OffCandidates(o)
      <3>1. o.form = "select"
        BY DEF Selects
      <3>2. /\ DOMAIN Checks(o) = 1 .. 11
            /\ Checks(o)[6][1] = UnknownId(o) /\ Checks(o)[7][1] = OffCandidates(o)
        BY <3>1 DEF Checks, SelectChecks
      <3> QED
        BY <2>1, <3>2 DEF Accepted, Rejecting
    <2>3. pool \in SUBSET Frames
      BY <1>1 DEF IInv, TypeOK
    <2>4. CASE UseCandidateIds
      <3>1. plan' = ByRank(o.body.numbers, pool) /\ o.body.numbers \subseteq 1 .. Cardinality(pool)
        BY <2>1, <2>2, <2>4 DEF Requested, UsesIds, UnknownId
      <3> QED
        BY <2>3, <3>1, OnePlaceEach DEF ByRank
    <2>5. CASE ~UseCandidateIds
      BY <2>1, <2>2, <2>5 DEF Requested, UsesIds, OffCandidates
    <2> QED
      BY <2>4, <2>5
  <1>2. IInv => [A]_vars
    BY <1>1
  <1> QED
    BY <1>2, Invariance, PTL DEF CandidatesOnly
=============================================================================
