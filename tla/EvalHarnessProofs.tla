--------------------------- MODULE EvalHarnessProofs ---------------------------
(***************************************************************************)
(* Theorems about EvalHarness for the drivers that resume by sample ID,    *)
(* for any number of samples, rounds and lives, and any crashes: they      *)
(* implement Evaluation.                                                   *)
(***************************************************************************)
EXTENDS EvalHarness, TLAPS, FiniteSetTheorems, FunctionTheorems, NumberFacts

Live == {"between", "running", "returned"}

Typed ==
  /\ ById
  /\ pc \in Live \cup {"down", "done"}
  /\ todo \subseteq Samples /\ tried \subseteq Samples
  /\ current \in Samples \cup {NoSample} /\ round \in 0 .. MaxRounds
  /\ log \in Seq(LogRows) /\ torn \in BOOLEAN

(* Every sample is waiting, was tried in this life, or is finished, and    *)
(* what waits is neither of the others.                                    *)
Accounted ==
  /\ pc # "down" => Samples \ (todo \cup tried) \subseteq Finished
  /\ pc # "down" => todo \cap (tried \cup Finished) = {}
  /\ pc = "done" => todo = {}

InHand == pc \in {"running", "returned"} => current \in tried

IInv == Typed /\ Accounted /\ InHand

-------------------------------------------------------------------------------
(* A row adds its sample to those with a row of its kind, unless the line  *)
(* before it was torn.                                                     *)
LEMMA WriteAdds ==
  ASSUME Typed, NEW kind \in {"turn", "claim", "answer", "done", "error"},
         NEW right \in BOOLEAN, NEW at \in 0 .. MaxRounds,
         current \in Samples, Write(kind, right, at), NEW kinds
  PROVE  /\ log' \in Seq(LogRows) /\ torn' \in BOOLEAN
         /\ SamplesWith(kinds)' =
              IF kind \in kinds /\ ~torn THEN SamplesWith(kinds) \cup {current}
              ELSE SamplesWith(kinds)
  <1> DEFINE row == [sample |-> current, kind |-> kind, right |-> right,
                     round |-> at, readable |-> ~torn]
  <1>1. row \in LogRows
    BY DEF Typed, LogRows
  <1>2. log' = Append(log, row) /\ torn' = FALSE
    BY DEF Write
  <1> HIDE DEF row
  <1>3. /\ log' \in Seq(LogRows)
        /\ DOMAIN log' = DOMAIN log \cup {Len(log) + 1}
        /\ \A i \in DOMAIN log : log'[i] = log[i]
        /\ log'[Len(log) + 1] = row
    BY <1>1, <1>2 DEF Typed
  <1>4. row.sample = current /\ row.kind = kind /\ row.readable = ~torn
    BY DEF row
  <1>5. ReadableRows(kinds)' =
          IF kind \in kinds /\ ~torn THEN ReadableRows(kinds) \cup {Len(log) + 1}
          ELSE ReadableRows(kinds)
    <2>1. Len(log) + 1 \notin DOMAIN log
      BY DEF Typed
    <2> QED
      BY <1>3, <1>4, <2>1 DEF ReadableRows
  <1>6. ReadableRows(kinds) \subseteq DOMAIN log
    BY DEF ReadableRows
  <1>7. {log'[i].sample : i \in ReadableRows(kinds)} = SamplesWith(kinds)
    BY <1>3, <1>6 DEF SamplesWith
  <1>8. SamplesWith(kinds)' = {log'[i].sample : i \in ReadableRows(kinds)'}
    BY DEF SamplesWith
  <1>9. CASE kind \in kinds /\ ~torn
    <2>1. {log'[i].sample : i \in ReadableRows(kinds) \cup {Len(log) + 1}}
            = {log'[i].sample : i \in ReadableRows(kinds)} \cup {log'[Len(log) + 1].sample}
      OBVIOUS
    <2> QED
      BY <1>2, <1>3, <1>4, <1>5, <1>7, <1>8, <1>9, <2>1
  <1>10. CASE ~(kind \in kinds /\ ~torn)
    BY <1>2, <1>3, <1>5, <1>7, <1>8, <1>10
  <1> QED
    BY <1>9, <1>10

LEMMA LoggedAreSamples ==
  ASSUME log \in Seq(LogRows), NEW kinds
  PROVE  SamplesWith(kinds) \subseteq Samples
  <1>1. \A i \in DOMAIN log : log[i].sample \in Samples
    <2>1. \A i \in DOMAIN log : log[i] \in LogRows
      OBVIOUS
    <2> QED
      BY <2>1 DEF LogRows
  <1> QED
    BY <1>1 DEF SamplesWith, ReadableRows

LEMMA NextSample ==
  ASSUME Typed, todo # {}
  PROVE  Min(todo) \in todo
  <1>1. \E i \in todo : \A j \in todo : i <= j
    BY LeastNumber DEF Typed, Samples
  <1> QED
    BY <1>1 DEF Min

LEMMA FinishedUnchanged ==
  ASSUME UNCHANGED <<driver, log>>
  PROVE  UNCHANGED Finished
  BY DEF Finished, SamplesWith, ReadableRows

(* What a row does to the finished samples: the row that finishes one is   *)
(* the accepted answer in NExT-QA, the done row in EgoSchema.              *)
LEMMA WriteFinishes ==
  ASSUME Typed, NEW kind \in {"turn", "claim", "answer", "done", "error"},
         NEW right \in BOOLEAN, NEW at \in 0 .. MaxRounds,
         current \in Samples, Write(kind, right, at), UNCHANGED driver
  PROVE  /\ log' \in Seq(LogRows) /\ torn' \in BOOLEAN
         /\ Finished' \in {Finished, Finished \cup {current}}
         /\ kind \in {"turn", "claim"} => Finished' = Finished
  <1>1. /\ log' \in Seq(LogRows) /\ torn' \in BOOLEAN
        /\ SamplesWith({"answer"})' \in {SamplesWith({"answer"}), SamplesWith({"answer"}) \cup {current}}
        /\ SamplesWith({"done"})' \in {SamplesWith({"done"}), SamplesWith({"done"}) \cup {current}}
        /\ kind \in {"turn", "claim"} => UNCHANGED <<SamplesWith({"answer"}), SamplesWith({"done"})>>
    BY WriteAdds
  <1> QED
    BY <1>1 DEF Finished

LEMMA SameMode ==
  ASSUME IInv, UNCHANGED driver
  PROVE  ById /\ ById'
  BY DEF IInv, Typed, ById

-------------------------------------------------------------------------------
LEMMA InitIInv == Init /\ ById => IInv
  <1> SUFFICES ASSUME Init, ById PROVE IInv
    OBVIOUS
  <1>1. log \in Seq(LogRows)
    BY DEF Init
  <1>2. round \in 0 .. MaxRounds
    BY HarnessAssumption DEF Init
  <1>3. Typed
    BY <1>1, <1>2 DEF Init, Typed, Live
  <1> QED
    BY <1>3 DEF Init, IInv, Accounted, InHand

LEMMA StartStep ==
  ASSUME IInv, Start
  PROVE  IInv' /\ Promise!Open
  <1>1. /\ pc \in {"down", "done"} /\ pc' = "between"
        /\ todo' = Samples \ Finished /\ tried' = {} /\ current' = NoSample
        /\ round' = 0 /\ UNCHANGED <<driver, log, torn>>
    BY DEF Start, Skipped, Finished, IInv, Typed, ById
  <1>mode. ById /\ ById'
    BY <1>1, SameMode
  <1>2. UNCHANGED Finished
    BY <1>1, FinishedUnchanged
  <1>3. IInv'
    <2>1. Typed'
      BY <1>mode, <1>1, HarnessAssumption DEF IInv, Typed, Live
    <2>2. Accounted' /\ InHand'
      BY <1>1, <1>2 DEF Accounted, InHand
    <2> QED
      BY <2>1, <2>2 DEF IInv
  <1> QED
    BY <1>mode, <1>1, <1>2, <1>3 DEF Promise!Open, Phase

LEMMA TakeStep ==
  ASSUME IInv, Take
  PROVE  IInv' /\ \E s \in Samples : Promise!Try(s)
  <1>1. /\ pc = "between" /\ pc' = "running" /\ current' \in todo
        /\ todo' = todo \ {current'} /\ tried' = tried \cup {current'}
        /\ round' = 0 /\ UNCHANGED <<driver, log, torn>>
    BY NextSample DEF Take, IInv
  <1>mode. ById /\ ById'
    BY <1>1, SameMode
  <1>2. UNCHANGED Finished
    BY <1>1, FinishedUnchanged
  <1>3. current' \in Samples /\ current' \notin tried \cup Finished
    BY <1>mode, <1>1 DEF IInv, Typed, Accounted
  <1>4. Typed' /\ InHand'
    BY <1>mode, <1>1, <1>3, HarnessAssumption DEF IInv, Typed, Live, InHand
  <1>5. Accounted'
    BY <1>1, <1>2, <1>3 DEF IInv, Accounted
  <1>6. Promise!Try(current')
    BY <1>mode, <1>1, <1>2, <1>3 DEF Promise!Try, Phase
  <1> QED
    BY <1>3, <1>4, <1>5, <1>6 DEF IInv

(* A step that writes a row about the sample in hand, and goes on from an  *)
(* open life to an open life.                                              *)
LEMMA RowStep ==
  ASSUME IInv, NEW kind \in {"turn", "claim", "answer", "done", "error"},
         NEW right \in BOOLEAN, NEW at \in 0 .. MaxRounds,
         pc \in {"running", "returned"}, Write(kind, right, at),
         pc' \in Live, round' \in 0 .. MaxRounds,
         UNCHANGED <<driver, todo, tried, current>>
  PROVE  /\ IInv'
         /\ UNCHANGED Promise!vars \/ \E s \in Samples : Promise!Record(s)
  <1>mode. ById /\ ById'
    BY SameMode
  <1>0. Phase = "open" /\ Phase' = "open"
    BY DEF Phase, Live
  <1>1. current \in tried /\ current \in Samples
    BY DEF IInv, InHand, Typed
  <1>2. /\ log' \in Seq(LogRows) /\ torn' \in BOOLEAN
        /\ Finished' \in {Finished, Finished \cup {current}}
    BY <1>1, WriteFinishes DEF IInv
  <1>3. Typed' /\ InHand'
    BY <1>mode, <1>1, <1>2 DEF IInv, Typed, InHand
  <1>4. Accounted'
    BY <1>1, <1>2 DEF IInv, Accounted, Live
  <1>5. ASSUME Finished' = Finished PROVE UNCHANGED Promise!vars
    BY <1>mode, <1>5, <1>0 DEF Promise!vars
  <1>6. ASSUME Finished' = Finished \cup {current} PROVE Promise!Record(current)
    BY <1>mode, <1>1, <1>6, <1>0 DEF Promise!Record
  <1> QED
    BY <1>1, <1>2, <1>3, <1>4, <1>5, <1>6 DEF IInv

(* A step inside an open life that writes nothing is a stutter of          *)
(* Evaluation.                                                             *)
LEMMA SilentStep ==
  ASSUME IInv, pc \in {"running", "returned"}, pc' \in Live,
         UNCHANGED <<driver, todo, tried, current, round, log, torn>>
  PROVE  IInv' /\ UNCHANGED Promise!vars
  <1>mode. ById /\ ById'
    BY SameMode
  <1>1. UNCHANGED Finished
    BY FinishedUnchanged
  <1>2. Typed' /\ InHand'
    BY <1>mode DEF IInv, Typed, InHand, Live
  <1>3. Accounted'
    BY <1>1 DEF IInv, Accounted, Live
  <1> QED
    BY <1>mode, <1>1, <1>2, <1>3 DEF IInv, Promise!vars, Phase, Live

LEMMA TurnStep ==
  ASSUME IInv, NEW kind \in {"turn", "claim"}, Turn(kind)
  PROVE  /\ IInv'
         /\ UNCHANGED Promise!vars \/ \E s \in Samples : Promise!Record(s)
  <1>1. kind \in {"turn", "claim", "answer", "done", "error"} /\ FALSE \in BOOLEAN
    OBVIOUS
  <1>2. /\ pc \in {"running", "returned"} /\ pc' \in Live
        /\ Write(kind, FALSE, round')
        /\ UNCHANGED <<driver, todo, tried, current>>
    BY DEF Turn, OneSample!Turn, Live
  <1>3. round' \in 0 .. MaxRounds
    BY HarnessAssumption DEF Turn, OneSample!Turn, IInv, Typed
  <1> QED
    BY <1>1, <1>2, <1>3, RowStep, Zenon

LEMMA AnswerStep ==
  ASSUME IInv, NEW right \in BOOLEAN, Answer(right)
  PROVE  /\ IInv'
         /\ UNCHANGED Promise!vars \/ \E s \in Samples : Promise!Record(s)
  <1>1. /\ pc = "running" /\ pc' = "returned"
        /\ round' \in 0 .. MaxRounds
        /\ Write("answer", right, round')
        /\ UNCHANGED <<driver, todo, tried, current>>
    BY HarnessAssumption DEF Answer, OneSample!Answer, OneSample!Ends, IInv, Typed
  <1> QED
    BY <1>1, RowStep DEF Live

LEMMA GiveUpStep ==
  ASSUME IInv, GiveUp
  PROVE  IInv' /\ UNCHANGED Promise!vars
  BY SilentStep DEF GiveUp, OneSample!Terminate, OneSample!Exhaust, OneSample!Raise,
                         OneSample!Ends, Live

LEMMA ConcludeStep ==
  ASSUME IInv, ConcludeNextqa \/ ConcludeEgoschema \/ ConcludeLong
  PROVE  /\ IInv'
         /\ UNCHANGED Promise!vars \/ \E s \in Samples : Promise!Record(s)
  <1>1. CASE ConcludeNextqa
    BY <1>1, SilentStep DEF ConcludeNextqa, Back, Live
  <1>2. CASE ConcludeEgoschema
    <2>1. /\ pc = "returned" /\ pc' = "between"
          /\ round \in 0 .. MaxRounds /\ UNCHANGED round
          /\ Write("done", FALSE, round)
          /\ UNCHANGED <<driver, todo, tried, current>>
      BY <1>2 DEF ConcludeEgoschema, Back, IInv, Typed
    <2> QED
      BY <2>1, RowStep DEF Live
  <1>3. CASE ConcludeLong
    BY <1>3 DEF ConcludeLong, IInv, Typed, ById
  <1> QED
    BY <1>1, <1>2, <1>3

LEMMA SummariseStep ==
  ASSUME IInv, Summarise
  PROVE  IInv' /\ Promise!Close
  <1>1. /\ pc = "between" /\ todo = {} /\ pc' = "done"
        /\ UNCHANGED <<driver, todo, tried, current, round, log, torn>>
    BY DEF Summarise, lifeVars
  <1>mode. ById /\ ById'
    BY <1>1, SameMode
  <1>2. UNCHANGED Finished
    BY <1>1, FinishedUnchanged
  <1>3. Finished \cup tried = Samples
    <2>1. Finished \subseteq Samples
      BY LoggedAreSamples DEF IInv, Typed, Finished
    <2> QED
      BY <1>mode, <1>1, <2>1 DEF IInv, Typed, Accounted
  <1>4. IInv'
    BY <1>mode, <1>1, <1>2 DEF IInv, Typed, Accounted, InHand, Live
  <1> QED
    BY <1>mode, <1>1, <1>2, <1>3, <1>4 DEF Promise!Close, Phase

LEMMA CrashStep ==
  ASSUME IInv, Crash
  PROVE  IInv' /\ Promise!Crash
  <1>1. /\ pc \in Live /\ pc' = "down"
        /\ todo' = {} /\ tried' = {} /\ current' = NoSample /\ round' = 0
        /\ torn' \in BOOLEAN /\ UNCHANGED <<driver, log>>
    BY DEF Crash, Live, IInv, Typed
  <1>mode. ById /\ ById'
    BY <1>1, SameMode
  <1>2. UNCHANGED Finished
    BY <1>1, FinishedUnchanged
  <1>3. IInv'
    BY <1>mode, <1>1, HarnessAssumption DEF IInv, Typed, Accounted, InHand
  <1> QED
    BY <1>mode, <1>1, <1>2, <1>3 DEF Promise!Crash, Phase, Live

LEMMA NextStep ==
  ASSUME IInv, [Next]_vars
  PROVE  IInv' /\ [Promise!Next]_(Promise!vars)
  <1>1. CASE Start
    BY <1>1, StartStep DEF Promise!Next
  <1>2. CASE Crash
    BY <1>2, CrashStep DEF Promise!Next
  <1>3. CASE Run
    <2>1. CASE Take
      BY <2>1, TakeStep DEF Promise!Next
    <2>2. CASE Summarise
      BY <2>2, SummariseStep DEF Promise!Next
    <2>3. CASE \E kind \in {"turn", "claim"} : Turn(kind)
      BY <2>3, TurnStep DEF Promise!Next
    <2>4. CASE \E right \in BOOLEAN : Answer(right)
      BY <2>4, AnswerStep DEF Promise!Next
    <2>5. CASE GiveUp
      BY <2>5, GiveUpStep
    <2>6. CASE ConcludeNextqa \/ ConcludeEgoschema \/ ConcludeLong
      BY <2>6, ConcludeStep DEF Promise!Next
    <2> QED
      BY <1>3, <2>1, <2>2, <2>3, <2>4, <2>5, <2>6 DEF Run
  <1>4. CASE UNCHANGED vars
    <2>1. UNCHANGED <<driver, pc, todo, tried, current, round, log, torn>>
      BY <1>4 DEF vars, lifeVars
    <2>2. UNCHANGED Finished
      BY <2>1, FinishedUnchanged
    <2>3. ById /\ ById'
      BY <2>1, SameMode
    <2> QED
      BY <2>1, <2>2, <2>3 DEF IInv, Typed, Accounted, InHand, Promise!vars, Phase
  <1> QED
    BY <1>1, <1>2, <1>3, <1>4 DEF Next

-------------------------------------------------------------------------------
(* The invariant holds throughout for a driver that resumes by ID, and the *)
(* driver is the same in every life.                                       *)
THEOREM HarnessInvariance == Spec => [](ById => IInv) /\ ([]ById \/ []~ById)
  <1>1. IInv /\ [Next]_vars => IInv'
    BY NextStep
  <1>2. [Next]_vars => UNCHANGED driver
    BY DEF Next, vars, Start, Run, Crash, Take, Summarise, Turn, Answer, GiveUp,
           OneSample!Turn, OneSample!Answer, OneSample!Ends, OneSample!Terminate,
           OneSample!Exhaust, OneSample!Raise,
           ConcludeNextqa, ConcludeEgoschema, ConcludeLong, Back
  <1>3. UNCHANGED driver => (ById' <=> ById)
    BY DEF ById
  <1>4. IInv => ById
    BY DEF IInv, Typed
  <1>5. Init => (ById => IInv)
    BY InitIInv
  <1> QED
    BY <1>1, <1>2, <1>3, <1>4, <1>5, PTL DEF Spec

(* NExT-QA and EgoSchema implement the resumable evaluation: a finished    *)
(* sample is not run again, no life runs one twice, and a life that        *)
(* summarises has left no sample out.  Under the mapping the other drivers *)
(* do nothing.                                                             *)
THEOREM ByIDImplementsEvaluation == Spec => ImplementsEvaluation
  <1>1. Init => Promise!Init
    <2> SUFFICES ASSUME Init PROVE Promise!Init
      OBVIOUS
    <2>1. ReadableRows({"answer"}) = {} /\ ReadableRows({"done"}) = {}
      BY DEF Init, ReadableRows
    <2>2. Finished = {}
      BY <2>1 DEF Finished, SamplesWith
    <2> QED
      BY <2>2 DEF Init, Promise!Init, Phase
  <1>2. IInv /\ [Next]_vars => [Promise!Next]_(Promise!vars)
    BY NextStep
  <1>3. ~ById /\ ~ById' => UNCHANGED Promise!vars
    BY DEF Promise!vars
  <1> QED
    BY <1>1, <1>2, <1>3, HarnessInvariance, PTL DEF Spec, ImplementsEvaluation, Promise!Spec
-------------------------------------------------------------------------------
(* The score of a NExT-QA run. *)

AnswerRows == ReadableRows({"answer"})
RightRows  == {i \in DOMAIN log : log[i].right}
Whole      == \A i \in DOMAIN log : log[i].readable

(* As long as no row was lost behind a torn line, a sample with an accepted  *)
(* answer is not run again, and so has one such row.                         *)
OneAnswerEach ==
  Whole => \A i, j \in AnswerRows : log[i].sample = log[j].sample => i = j
RightAreAnswers == \A i \in DOMAIN log : log[i].right => log[i].kind = "answer"
NotYetAnswered == pc = "running" => current \notin SamplesWith({"answer"})

(* What waits and what was processed are the samples; what was counted right *)
(* is what the log says, but for the answer that is on its way back.         *)
Scored ==
  pc # "down" =>
    /\ tally["processed"] \in Nat
    /\ tally["processed"] + Cardinality(todo) = NumSamples
    /\ Whole => tally["correct"] + One(pc = "returned" /\ outcome = "right")
                  = Cardinality(RightRows)
    /\ tally["correct"] \in Nat

Nextqa == driver = "nextqa"
ScoreInv == Nextqa /\ IInv /\ OneAnswerEach /\ RightAreAnswers /\ NotYetAnswered /\ Scored

LEMMA FiniteParts ==
  ASSUME Typed
  PROVE  /\ IsFiniteSet(Samples) /\ Cardinality(Samples) = NumSamples
         /\ \A S \in SUBSET Samples : IsFiniteSet(S) /\ Cardinality(S) \in Nat
         /\ \A S \in SUBSET DOMAIN log : IsFiniteSet(S) /\ Cardinality(S) \in Nat
  <1>1. IsFiniteSet(Samples) /\ Cardinality(Samples) = NumSamples
    BY HarnessAssumption, FS_Interval DEF Samples
  <1>2. IsFiniteSet(DOMAIN log)
    <2>1. DOMAIN log = 1 .. Len(log) /\ Len(log) \in Nat
      BY DEF Typed
    <2> QED
      BY <2>1, FS_Interval
  <1> QED
    BY <1>1, <1>2, FS_Subset, FS_CardinalityType

(* As many first answers as samples with an answer: each has one.            *)
LEMMA FirstAnswersCount ==
  ASSUME Typed
  PROVE  Cardinality(FirstAnswers) = Cardinality(SamplesWith({"answer"}))
  <1> DEFINE F == FirstAnswers
             A == SamplesWith({"answer"})
             f == [i \in F |-> log[i].sample]
  <1>1. F \subseteq AnswerRows /\ AnswerRows \subseteq DOMAIN log /\ AnswerRows \subseteq Nat
    BY DEF FirstAnswers, AnswerRows, ReadableRows, Typed
  <1>2. \A i \in F : f[i] \in A
    BY <1>1 DEF SamplesWith, AnswerRows
  <1>3. \A i, j \in F : f[i] = f[j] => i = j
    <2> SUFFICES ASSUME NEW i \in F, NEW j \in F, log[i].sample = log[j].sample PROVE i = j
      OBVIOUS
    <2>1. i <= j /\ j <= i
      BY <1>1 DEF FirstAnswers, AnswerRows
    <2> QED
      BY <1>1, <2>1
  <1>4. ASSUME NEW a \in A PROVE \E i \in F : f[i] = a
    <2> DEFINE R == {i \in AnswerRows : log[i].sample = a}
    <2>1. R # {} /\ R \in SUBSET Nat
      BY <1>1 DEF SamplesWith, AnswerRows
    <2>2. PICK i \in R : \A j \in R : i <= j
      BY <2>1, LeastNumber
    <2>3. i \in F
      BY <2>2 DEF FirstAnswers, AnswerRows
    <2> QED
      BY <2>2, <2>3
  <1>5. f \in Bijection(F, A)
    BY <1>2, <1>3, <1>4, Fun_IsBij
  <1>6. IsFiniteSet(F)
    BY <1>1, FiniteParts
  <1> HIDE DEF F, A, f
  <1>7. ExistsBijection(F, A)
    BY <1>5 DEF ExistsBijection
  <1> QED
    BY <1>6, <1>7, FS_Bijection DEF F, A

(* What a row changes. *)
LEMMA RowAdded ==
  ASSUME Typed, NEW kind \in {"turn", "claim", "answer", "done", "error"},
         NEW right \in BOOLEAN, NEW at \in 0 .. MaxRounds, Write(kind, right, at)
  PROVE  LET n == Len(log) + 1
         IN  /\ n \notin DOMAIN log
             /\ DOMAIN log' = DOMAIN log \cup {n}
             /\ \A i \in DOMAIN log : log'[i] = log[i]
             /\ log'[n].sample = current /\ log'[n].kind = kind
             /\ log'[n].right = right /\ log'[n].readable = ~torn
             /\ AnswerRows' = IF kind = "answer" /\ ~torn THEN AnswerRows \cup {n} ELSE AnswerRows
             /\ RightRows' = IF right THEN RightRows \cup {n} ELSE RightRows
             /\ Whole' <=> Whole /\ ~torn
  <1> DEFINE n == Len(log) + 1
             row == [sample |-> current, kind |-> kind, right |-> right,
                     round |-> at, readable |-> ~torn]
  <1>1. log' = Append(log, row)
    BY DEF Write
  <1>2. row.sample = current /\ row.kind = kind /\ row.right = right /\ row.readable = ~torn
    OBVIOUS
  <1> HIDE DEF row
  <1>3. /\ n \notin DOMAIN log /\ DOMAIN log' = DOMAIN log \cup {n}
        /\ \A i \in DOMAIN log : log'[i] = log[i]
        /\ log'[n] = row
    BY <1>1 DEF Typed
  <1> HIDE DEF n
  <1>4. AnswerRows' = IF kind = "answer" /\ ~torn THEN AnswerRows \cup {n} ELSE AnswerRows
    BY <1>2, <1>3 DEF AnswerRows, ReadableRows
  <1>5. RightRows' = IF right THEN RightRows \cup {n} ELSE RightRows
    BY <1>2, <1>3 DEF RightRows
  <1>6. Whole' <=> Whole /\ ~torn
    BY <1>2, <1>3 DEF Whole
  <1> QED
    BY <1>2, <1>3, <1>4, <1>5, <1>6 DEF n

LEMMA SameLog ==
  ASSUME UNCHANGED log
  PROVE  /\ UNCHANGED <<AnswerRows, RightRows, SamplesWith({"answer"})>>
         /\ Whole' <=> Whole
  BY DEF AnswerRows, RightRows, SamplesWith, ReadableRows, Whole

LEMMA SameRows ==
  ASSUME UNCHANGED log, OneAnswerEach, RightAreAnswers
  PROVE  OneAnswerEach' /\ RightAreAnswers'
  <1>1. AnswerRows' = AnswerRows /\ (Whole' <=> Whole)
    BY SameLog
  <1> QED
    BY <1>1 DEF OneAnswerEach, RightAreAnswers

LEMMA StartScores == ASSUME ScoreInv, Start, IInv' PROVE ScoreInv'
  <1>1. /\ pc' = "between" /\ todo' = Samples \ SamplesWith({"answer"})
        /\ UNCHANGED <<driver, log, torn>> /\ Typed /\ Nextqa /\ Nextqa'
        /\ tally' = Resumed
    BY DEF Start, ScoreInv, Nextqa, Skipped, IInv
  <1>2. tally'["processed"] = Cardinality(FirstAnswers)
        /\ tally'["correct"] = Cardinality({i \in FirstAnswers : log[i].right})
    BY <1>1 DEF Resumed, Nextqa, NoTotals, Totals
  <1>3. SamplesWith({"answer"}) \subseteq Samples
    BY <1>1, LoggedAreSamples DEF Typed
  <1>4. Cardinality(todo') = NumSamples - Cardinality(SamplesWith({"answer"}))
    <2>1. Samples \cap SamplesWith({"answer"}) = SamplesWith({"answer"})
      BY <1>3
    <2>2. IsFiniteSet(Samples) /\ Cardinality(Samples) = NumSamples
      BY <1>1, FiniteParts
    <2>3. Cardinality(Samples \ SamplesWith({"answer"}))
            = Cardinality(Samples) - Cardinality(Samples \cap SamplesWith({"answer"}))
      BY <2>2, FS_Difference
    <2> QED
      BY <1>1, <2>1, <2>2, <2>3
  <1>5. tally'["processed"] \in Nat /\ tally'["processed"] + Cardinality(todo') = NumSamples
    <2>1. Cardinality(SamplesWith({"answer"})) \in Nat
      BY <1>1, <1>3, FiniteParts
    <2> QED
      BY <1>1, <1>2, <1>4, <2>1, FirstAnswersCount, HarnessAssumption
  <1>6. Whole => {i \in FirstAnswers : log[i].right} = RightRows
    <2> SUFFICES ASSUME Whole PROVE {i \in FirstAnswers : log[i].right} = RightRows
      OBVIOUS
    <2>1. FirstAnswers \subseteq DOMAIN log /\ AnswerRows \subseteq DOMAIN log
      BY DEF FirstAnswers, AnswerRows, ReadableRows
    <2>2. \A i \in RightRows : i \in AnswerRows
      BY DEF RightRows, AnswerRows, ReadableRows, Whole, ScoreInv, RightAreAnswers
    <2>3. \A i \in AnswerRows : i \in FirstAnswers
      <3> SUFFICES ASSUME NEW i \in AnswerRows, NEW j \in AnswerRows, log[j].sample = log[i].sample
                   PROVE  i <= j
        BY DEF FirstAnswers, AnswerRows
      <3>1. i = j /\ i \in Nat
        BY <1>1, <2>1 DEF ScoreInv, OneAnswerEach, Typed
      <3> QED
        BY <3>1
    <2> QED
      BY <2>1, <2>2, <2>3 DEF RightRows
  <1>7. tally'["correct"] \in Nat
    <2>1. {i \in FirstAnswers : log[i].right} \subseteq DOMAIN log
      BY DEF FirstAnswers, ReadableRows
    <2> QED
      BY <1>1, <1>2, <2>1, FiniteParts
  <1>8. Scored'
    <2>1. RightRows' = RightRows /\ (Whole' <=> Whole)
      BY <1>1, SameLog
    <2>2. Whole' => tally'["correct"] = Cardinality(RightRows')
      BY <1>2, <1>6, <2>1
    <2>3. One(pc' = "returned" /\ outcome' = "right") = 0
      BY <1>1 DEF One
    <2> QED
      BY <1>5, <1>7, <2>2, <2>3 DEF Scored
  <1>9. OneAnswerEach' /\ RightAreAnswers'
    BY <1>1, SameRows DEF ScoreInv
  <1> QED
    BY <1>1, <1>8, <1>9 DEF ScoreInv, NotYetAnswered

LEMMA TakeScores == ASSUME ScoreInv, Take, IInv' PROVE ScoreInv'
  <1>1. /\ pc = "between" /\ pc' = "running" /\ current' \in todo
        /\ todo' = todo \ {current'} /\ UNCHANGED <<driver, log, torn>>
        /\ Typed /\ Nextqa /\ Nextqa'
    BY NextSample DEF Take, ScoreInv, IInv, Nextqa
  <1>2. tally'["processed"] = tally["processed"] + 1 /\ tally'["correct"] = tally["correct"]
    BY <1>1 DEF Take, Nextqa, Plus, Totals
  <1>3. current' \notin SamplesWith({"answer"})
    BY <1>1 DEF ScoreInv, IInv, Accounted, Finished, Nextqa
  <1>4. Cardinality(todo') = Cardinality(todo) - 1 /\ Cardinality(todo) \in Nat
    BY <1>1, FiniteParts, FS_RemoveElement DEF Typed
  <1>5. Scored'
    BY <1>1, <1>2, <1>4, SameLog, HarnessAssumption DEF ScoreInv, Scored, One
  <1>6. OneAnswerEach' /\ RightAreAnswers'
    BY <1>1, SameRows DEF ScoreInv
  <1> QED
    BY <1>1, <1>3, <1>5, <1>6, SameLog DEF ScoreInv, NotYetAnswered

LEMMA TurnScores ==
  ASSUME ScoreInv, NEW kind \in {"turn", "claim"}, Turn(kind), IInv' PROVE ScoreInv'
  <1>1. /\ pc = "running" /\ pc' = "running" /\ round' \in 0 .. MaxRounds
        /\ Write(kind, FALSE, round') /\ UNCHANGED <<driver, todo, current, outcome, tally>>
        /\ Typed /\ Nextqa /\ Nextqa' /\ current \in Samples
        /\ kind \in {"turn", "claim", "answer", "done", "error"} /\ FALSE \in BOOLEAN
    BY DEF Turn, OneSample!Turn, ScoreInv, IInv, Nextqa, Typed, InHand
  <1> DEFINE n == Len(log) + 1
  <1>2. /\ n \notin DOMAIN log /\ DOMAIN log' = DOMAIN log \cup {n}
        /\ \A i \in DOMAIN log : log'[i] = log[i]
        /\ ~log'[n].right
        /\ AnswerRows' = AnswerRows /\ RightRows' = RightRows
        /\ Whole' => Whole
    BY <1>1, RowAdded
  <1> HIDE DEF n
  <1>3. AnswerRows \subseteq DOMAIN log
    BY DEF AnswerRows, ReadableRows
  <1>4. SamplesWith({"answer"})' = SamplesWith({"answer"})
    BY <1>1, WriteAdds
  <1>5. OneAnswerEach' /\ RightAreAnswers'
    BY <1>2, <1>3 DEF ScoreInv, OneAnswerEach, RightAreAnswers
  <1>6. Scored'
    BY <1>1, <1>2 DEF ScoreInv, Scored, One
  <1> QED
    BY <1>1, <1>4, <1>5, <1>6 DEF ScoreInv, NotYetAnswered

LEMMA AnswerScores ==
  ASSUME ScoreInv, NEW right \in BOOLEAN, Answer(right), IInv' PROVE ScoreInv'
  <1>1. /\ pc = "running" /\ pc' = "returned" /\ round' \in 0 .. MaxRounds
        /\ Write("answer", right, round') /\ UNCHANGED <<driver, todo, current, tally>>
        /\ outcome' = IF right THEN "right" ELSE "wrong"
        /\ Typed /\ Nextqa /\ Nextqa'
        /\ "answer" \in {"turn", "claim", "answer", "done", "error"}
    BY DEF Answer, OneSample!Answer, OneSample!Ends, ScoreInv, IInv, Nextqa, Typed
  <1> DEFINE n == Len(log) + 1
  <1>2. /\ n \notin DOMAIN log /\ DOMAIN log' = DOMAIN log \cup {n}
        /\ \A i \in DOMAIN log : log'[i] = log[i]
        /\ log'[n].sample = current /\ log'[n].kind = "answer"
        /\ AnswerRows' \subseteq AnswerRows \cup {n}
        /\ RightRows' = IF right THEN RightRows \cup {n} ELSE RightRows
        /\ Whole' => Whole
    BY <1>1, RowAdded
  <1> HIDE DEF n
  <1>3. AnswerRows \subseteq DOMAIN log /\ RightRows \subseteq DOMAIN log
    BY DEF AnswerRows, ReadableRows, RightRows
  <1>4. \A i \in AnswerRows : log[i].sample # current
    BY <1>1 DEF ScoreInv, NotYetAnswered, SamplesWith, AnswerRows
  <1>5. OneAnswerEach'
    BY <1>2, <1>3, <1>4 DEF ScoreInv, OneAnswerEach
  <1>6. RightAreAnswers'
    BY <1>2 DEF ScoreInv, RightAreAnswers
  <1>7. Cardinality(RightRows') = Cardinality(RightRows) + One(right)
    <2>1. IsFiniteSet(RightRows) /\ Cardinality(RightRows) \in Nat /\ n \notin RightRows
      BY <1>1, <1>2, <1>3, FiniteParts
    <2> QED
      BY <1>2, <2>1, FS_AddElement DEF One
  <1>8. (pc' = "returned" /\ outcome' = "right") <=> right
    BY <1>1
  <1>9. Scored'
    <2>1. Cardinality(RightRows) \in Nat
      BY <1>1, <1>3, FiniteParts
    <2> QED
      BY <1>1, <1>2, <1>7, <1>8, <2>1 DEF ScoreInv, Scored, One
  <1> QED
    BY <1>1, <1>5, <1>6, <1>9 DEF ScoreInv, NotYetAnswered

(* Steps of a life that write nothing and take no sample. *)
LEMMA QuietScores ==
  ASSUME ScoreInv, IInv', UNCHANGED <<driver, todo, log>>, pc # "down", pc' \notin {"down", "running"},
         tally'["processed"] = tally["processed"],
         tally'["correct"] + One(pc' = "returned" /\ outcome' = "right")
           = tally["correct"] + One(pc = "returned" /\ outcome = "right"),
         tally'["correct"] \in Nat
  PROVE  ScoreInv'
  <1>1. OneAnswerEach' /\ RightAreAnswers'
    BY SameRows DEF ScoreInv
  <1>2. Scored'
    BY SameLog DEF ScoreInv, Scored
  <1> QED
    BY <1>1, <1>2 DEF ScoreInv, NotYetAnswered, Nextqa

LEMMA GiveUpScores ==
  ASSUME ScoreInv, GiveUp, IInv' PROVE ScoreInv'
  <1>1. /\ UNCHANGED <<driver, todo, log>> /\ pc = "running" /\ pc' = "returned" /\ outcome' \in {"terminated", "exhausted", "raised"}
        /\ tally["correct"] \in Nat
    BY DEF GiveUp, OneSample!Terminate, OneSample!Exhaust, OneSample!Raise,
           OneSample!Ends, ScoreInv, Scored
  <1>2. tally'["processed"] = tally["processed"] /\ tally'["correct"] = tally["correct"]
    BY DEF GiveUp, OneSample!Terminate, OneSample!Exhaust, OneSample!Raise,
           OneSample!Ends, Plus, Totals
  <1> QED
    BY <1>1, <1>2, QuietScores DEF One

LEMMA ConcludeScores ==
  ASSUME ScoreInv, ConcludeNextqa, IInv' PROVE ScoreInv'
  <1>1. /\ UNCHANGED <<driver, todo, log, outcome>> /\ pc = "returned" /\ pc' = "between"
        /\ tally["correct"] \in Nat
    BY DEF ConcludeNextqa, Back, ScoreInv, Scored
  <1>2. tally'["processed"] = tally["processed"]
        /\ tally'["correct"] = tally["correct"] + One(outcome = "right")
    BY DEF ConcludeNextqa, Plus, Totals
  <1> QED
    BY <1>1, <1>2, QuietScores DEF One

LEMMA NextScores ==
  ASSUME ScoreInv, [Next]_vars
  PROVE  ScoreInv'
  <1>0. IInv' /\ IInv
    BY NextStep DEF ScoreInv
  <1>1. CASE Start
    BY <1>0, <1>1, StartScores
  <1>2. CASE Crash
    <2>1. pc' = "down" /\ UNCHANGED <<driver, log>>
      BY <1>2 DEF Crash
    <2>2. OneAnswerEach' /\ RightAreAnswers'
      BY <2>1, SameRows DEF ScoreInv
    <2> QED
      BY <1>0, <2>1, <2>2 DEF ScoreInv, NotYetAnswered, Scored, Nextqa
  <1>3. CASE Take
    BY <1>0, <1>3, TakeScores
  <1>4. CASE Summarise \/ UNCHANGED vars
    <2>1. /\ UNCHANGED <<driver, todo, current, outcome, tally, log>>
          /\ pc' = pc \/ (pc = "between" /\ pc' = "done")
      BY <1>4 DEF Summarise, lifeVars, vars
    <2>2. OneAnswerEach' /\ RightAreAnswers'
      BY <2>1, SameRows DEF ScoreInv
    <2>3. Scored' /\ NotYetAnswered'
      BY <2>1, SameLog DEF ScoreInv, Scored, NotYetAnswered, One
    <2> QED
      BY <1>0, <2>1, <2>2, <2>3 DEF ScoreInv, Nextqa
  <1>5. ASSUME NEW kind \in {"turn", "claim"}, Turn(kind) PROVE ScoreInv'
    BY <1>0, <1>5, TurnScores
  <1>6. ASSUME NEW right \in BOOLEAN, Answer(right) PROVE ScoreInv'
    BY <1>0, <1>6, AnswerScores
  <1>7. ASSUME GiveUp PROVE ScoreInv'
    BY <1>0, <1>7, GiveUpScores
  <1>8. CASE ConcludeNextqa \/ ConcludeEgoschema \/ ConcludeLong
    <2>1. ConcludeNextqa
      BY <1>8 DEF ConcludeEgoschema, ConcludeLong, ScoreInv, Nextqa
    <2> QED
      BY <1>0, <2>1, ConcludeScores
  <1> QED
    BY <1>1, <1>2, <1>3, <1>4, <1>5, <1>6, <1>7, <1>8 DEF Next, Run

(* Where every row is whole, the right rows are of different samples. *)
LEMMA ScoreImplied == ScoreInv => ScoreMatchesLog
  <1> SUFFICES ASSUME ScoreInv, pc = "done" PROVE ScoreMatchesLog
    BY DEF ScoreMatchesLog
  <1>1. tally["processed"] = NumSamples
    <2>1. todo = {} /\ Cardinality({}) = 0
      BY FS_EmptySet DEF ScoreInv, IInv, Accounted
    <2> QED
      BY <2>1 DEF ScoreInv, Scored
  <1>2. ASSUME Whole
        PROVE  /\ tally["correct"] = Cardinality(RightRows)
               /\ Cardinality(RightRows) = Cardinality({log[i].sample : i \in RightRows})
    <2> DEFINE S == {log[i].sample : i \in RightRows}
               f == [i \in RightRows |-> log[i].sample]
    <2>1. tally["correct"] = Cardinality(RightRows)
      BY <1>2 DEF ScoreInv, Scored, One
    <2>2. RightRows \subseteq AnswerRows /\ RightRows \subseteq DOMAIN log
      BY <1>2 DEF RightRows, AnswerRows, ReadableRows, Whole, ScoreInv, RightAreAnswers
    <2>3. \A i, j \in RightRows : f[i] = f[j] => i = j
      BY <1>2, <2>2 DEF ScoreInv, OneAnswerEach
    <2>4. f \in Bijection(RightRows, S)
      BY <2>3, Fun_IsBij
    <2>5. IsFiniteSet(RightRows)
      BY <2>2, FiniteParts DEF ScoreInv, IInv
    <2> HIDE DEF S, f
    <2>6. ExistsBijection(RightRows, S)
      BY <2>4 DEF ExistsBijection
    <2> QED
      BY <2>1, <2>5, <2>6, FS_Bijection DEF S
  <1> QED
    BY <1>1, <1>2 DEF ScoreMatchesLog, RightRows, Whole

(* However often a NExT-QA run was interrupted, its last summary is that of  *)
(* one run: every sample counted once, and, unless rows were lost behind     *)
(* torn lines, as many right as the log has right answers, all of different  *)
(* samples.                                                                  *)
THEOREM ScoreIsOfLog == Spec => []ScoreMatchesLog
  <1>1. Init => (Nextqa => ScoreInv)
    <2> SUFFICES ASSUME Init, Nextqa PROVE ScoreInv
      OBVIOUS
    <2>1. log = << >> /\ pc = "down" /\ IInv
      BY InitIInv DEF Init, Nextqa, ById
    <2>2. AnswerRows = {}
      BY <2>1 DEF AnswerRows, ReadableRows
    <2>3. OneAnswerEach
      BY <2>2 DEF OneAnswerEach
    <2>4. RightAreAnswers
      BY <2>1 DEF RightAreAnswers
    <2> QED
      BY <2>1, <2>3, <2>4 DEF ScoreInv, Scored, NotYetAnswered
  <1>2. ScoreInv /\ [Next]_vars => ScoreInv'
    BY NextScores
  <1>3. [Next]_vars => (Nextqa' <=> Nextqa)
    BY DEF Next, vars, Start, Run, Crash, Take, Summarise, Turn, Answer, GiveUp,
           OneSample!Turn, OneSample!Answer, OneSample!Ends, OneSample!Terminate,
           OneSample!Exhaust, OneSample!Raise,
           ConcludeNextqa, ConcludeEgoschema, ConcludeLong, Back, Nextqa
  <1>4. ScoreInv => Nextqa
    BY DEF ScoreInv
  <1>5. (Nextqa => ScoreInv) => ScoreMatchesLog
    BY ScoreImplied DEF ScoreMatchesLog, Nextqa
  <1> QED
    BY <1>1, <1>2, <1>3, <1>4, <1>5, PTL DEF Spec
-------------------------------------------------------------------------------
(* The totals of every driver. *)

Busy == pc \in {"running", "returned"}

(* The samples that are through: long_vllm counts a sample when it is through, *)
(* the others when it begins.                                                *)
Through ==
  IF driver # "long_vllm" /\ Busy THEN tally["processed"] - 1 ELSE tally["processed"]

Shapes ==
  /\ driver \in Drivers /\ lives \in 0 .. MaxLives
  /\ pc \in Live \cup {"down", "done"}
  /\ todo \subseteq Samples /\ tried \subseteq Samples /\ todo \cap tried = {}
  /\ current \in Samples \cup {NoSample} /\ round \in 0 .. MaxRounds
  /\ outcome \in {"none", "right", "wrong", "terminated", "exhausted", "raised"}
  /\ tally \in [Totals -> Nat]
  /\ log \in Seq(LogRows) /\ torn \in BOOLEAN
  /\ pc = "done" => todo = {}
  /\ pc = "down" => tally = NoTotals
  /\ Busy => current \in Samples
  /\ pc = "returned" /\ Answered => round >= 1

(* Which samples the totals cover ... *)
Covered ==
  /\ driver = "nextqa" => tally["processed"] + Cardinality(todo) = NumSamples
  /\ driver # "nextqa" => Through + One(Busy) = Cardinality(tried)
  /\ driver = "long_hf" => tally["answered"] + Cardinality(todo) + One(Busy) <= NumSamples
  /\ driver \in {"nextqa", "egoschema"} => tally["answered"] = 0

(* ... and how they share them out. *)
Shared ==
  /\ tally["correct"] + tally["failed"] <= Through
  /\ tally["rounds"] <= MaxRounds * Through
  /\ driver = "long_vllm" =>
       /\ tally["correct"] <= tally["answered"]
       /\ tally["answered"] + tally["failed"] <= Through
       /\ tally["answered"] <= tally["rounds"]

Tallied == Shapes /\ (pc # "down" => Covered /\ Shared)

LEMMA PlusAdds ==
  ASSUME tally \in [Totals -> Nat], NEW added, \A t \in DOMAIN added : added[t] \in Nat
  PROVE  /\ Plus(added) \in [Totals -> Nat]
         /\ \A t \in Totals : Plus(added)[t] = IF t \in DOMAIN added THEN tally[t] + added[t] ELSE tally[t]
  BY DEF Plus

LEMMA RowTyped ==
  ASSUME Shapes, current \in Samples, NEW kind \in {"turn", "claim", "answer", "done", "error"},
         NEW right \in BOOLEAN, NEW at \in 0 .. MaxRounds, Write(kind, right, at)
  PROVE  log' \in Seq(LogRows) /\ torn' \in BOOLEAN
  <1> DEFINE row == [sample |-> current, kind |-> kind, right |-> right,
                     round |-> at, readable |-> ~torn]
  <1>1. row \in LogRows
    BY DEF Shapes, LogRows
  <1>2. log' = Append(log, row) /\ torn' = FALSE
    BY DEF Write
  <1> HIDE DEF row
  <1>3. log \in Seq(LogRows)
    BY DEF Shapes
  <1>4. log' \in Seq(LogRows)
    BY <1>1, <1>2, <1>3
  <1> QED
    BY <1>2, <1>4

LEMMA FiniteSamples ==
  /\ IsFiniteSet(Samples) /\ Cardinality(Samples) = NumSamples
  /\ \A S \in SUBSET Samples : IsFiniteSet(S) /\ Cardinality(S) \in Nat /\ Cardinality(S) <= NumSamples
  <1>1. IsFiniteSet(Samples) /\ Cardinality(Samples) = NumSamples
    BY HarnessAssumption, FS_Interval DEF Samples
  <1> QED
    BY <1>1, FS_Subset, FS_CardinalityType

(* A resumed NExT-QA run has no more rounds than its samples allow. *)
LEMMA ResumedRoundsFit ==
  ASSUME Shapes, driver = "nextqa"
  PROVE  /\ Cardinality(FirstAnswers) \in Nat
         /\ Cardinality(ResumedRounds) \in Nat
         /\ Cardinality(ResumedRounds) <= MaxRounds * Cardinality(FirstAnswers)
  <1>1. Typed
    BY DEF Shapes, Typed, ById
  <1>2. IsFiniteSet(FirstAnswers) /\ Cardinality(FirstAnswers) \in Nat
    <2>1. FirstAnswers \in SUBSET DOMAIN log
      BY DEF FirstAnswers, ReadableRows
    <2> QED
      BY <1>1, <2>1, FiniteParts
  <1>3. IsFiniteSet(1 .. MaxRounds) /\ Cardinality(1 .. MaxRounds) = MaxRounds
    BY HarnessAssumption, FS_Interval
  <1>4. /\ IsFiniteSet(FirstAnswers \X (1 .. MaxRounds))
        /\ Cardinality(FirstAnswers \X (1 .. MaxRounds)) = Cardinality(FirstAnswers) * MaxRounds
    BY <1>2, <1>3, FS_Product
  <1>5. ResumedRounds \in SUBSET (FirstAnswers \X (1 .. MaxRounds))
    BY DEF ResumedRounds
  <1>6. /\ Cardinality(ResumedRounds) \in Nat
        /\ Cardinality(ResumedRounds) <= Cardinality(FirstAnswers) * MaxRounds
    BY <1>4, <1>5, FS_Subset, FS_CardinalityType
  <1>7. Cardinality(FirstAnswers) * MaxRounds = MaxRounds * Cardinality(FirstAnswers)
    BY <1>2, HarnessAssumption
  <1> QED
    BY <1>2, <1>6, <1>7

LEMMA StartTallied == ASSUME Tallied, Start PROVE Tallied'
  <1>1. /\ pc' = "between" /\ lives' \in 0 .. MaxLives /\ tried' = {} /\ current' = NoSample
        /\ round' = 0 /\ outcome' = "none" /\ todo' = Samples \ Skipped /\ tally' = Resumed
        /\ UNCHANGED <<driver, log, torn>> /\ Shapes
    BY HarnessAssumption DEF Start, Tallied, Shapes
  <1>2. Cardinality(tried') = 0 /\ One(Busy') = 0 /\ Through' = tally'["processed"]
    BY <1>1, FS_EmptySet DEF Busy, One, Through
  <1>3. driver \in {"nextqa", "egoschema", "long_vllm", "long_hf"}
    BY <1>1, HarnessAssumption DEF Shapes
  <1>4. CASE driver = "nextqa"
    <2>1. /\ tally' \in [Totals -> Nat]
          /\ tally'["processed"] = Cardinality(FirstAnswers)
          /\ tally'["correct"] = Cardinality({i \in FirstAnswers : log[i].right})
          /\ tally'["rounds"] = Cardinality(ResumedRounds)
          /\ tally'["failed"] = 0 /\ tally'["answered"] = 0
          /\ tally'["correct"] <= tally'["processed"]
      <3>1. Typed
        BY <1>1, <1>4 DEF Shapes, Typed, ById
      <3>2. FirstAnswers \in SUBSET DOMAIN log /\ {i \in FirstAnswers : log[i].right} \in SUBSET FirstAnswers
        BY DEF FirstAnswers, ReadableRows
      <3>3. /\ Cardinality({i \in FirstAnswers : log[i].right}) \in Nat
            /\ Cardinality({i \in FirstAnswers : log[i].right}) <= Cardinality(FirstAnswers)
        BY <3>1, <3>2, FiniteParts, FS_Subset
      <3>4. Cardinality(FirstAnswers) \in Nat /\ Cardinality(ResumedRounds) \in Nat
        BY <1>1, <1>4, ResumedRoundsFit
      <3>5. Resumed = [NoTotals EXCEPT
                         !["processed"] = Cardinality(FirstAnswers),
                         !["correct"] = Cardinality({i \in FirstAnswers : log[i].right}),
                         !["rounds"] = Cardinality(ResumedRounds)]
        BY <1>4 DEF Resumed
      <3> QED
        BY <1>1, <3>3, <3>4, <3>5 DEF NoTotals, Totals
    <2>2. tally'["processed"] + Cardinality(todo') = NumSamples
      <3>1. Typed
        BY <1>1, <1>4 DEF Shapes, Typed, ById
      <3>2. SamplesWith({"answer"}) \in SUBSET Samples
        BY <1>1, LoggedAreSamples DEF Shapes
      <3>3. /\ Samples \cap SamplesWith({"answer"}) = SamplesWith({"answer"})
            /\ todo' = Samples \ SamplesWith({"answer"})
        BY <1>1, <1>4, <3>2 DEF Skipped
      <3>4. Cardinality(todo') = Cardinality(Samples) - Cardinality(SamplesWith({"answer"}))
        <4>1. IsFiniteSet(Samples)
          BY FiniteSamples
        <4>2. Cardinality(Samples \ SamplesWith({"answer"}))
                = Cardinality(Samples) - Cardinality(Samples \cap SamplesWith({"answer"}))
          BY <4>1, FS_Difference
        <4> QED
          BY <3>3, <4>2
      <3>5. tally'["processed"] = Cardinality(SamplesWith({"answer"}))
        BY <2>1, <3>1, FirstAnswersCount
      <3>6. Cardinality(SamplesWith({"answer"})) \in Nat
        BY <3>2, FiniteSamples
      <3> QED
        BY <3>4, <3>5, <3>6, FiniteSamples, HarnessAssumption
    <2>3. Covered'
      BY <1>1, <1>4, <2>1, <2>2 DEF Covered
    <2>4. tally'["rounds"] <= MaxRounds * Through'
      BY <1>1, <1>2, <1>4, <2>1, ResumedRoundsFit
    <2>5. Shared'
      BY <1>1, <1>2, <1>4, <2>1, <2>4 DEF Shared, Totals
    <2>6. Shapes'
      BY <1>1, <2>1, HarnessAssumption DEF Shapes, Live, Busy
    <2> QED
      BY <2>3, <2>5, <2>6 DEF Tallied
  <1>5. CASE driver # "nextqa"
    <2>1. /\ LongCompleted \in Nat /\ LongCompleted <= NumSamples
      <3>1. SamplesWith(CountedKinds) \in SUBSET Samples
        BY <1>1, LoggedAreSamples DEF Shapes
      <3> QED
        BY <3>1, FiniteSamples DEF LongCompleted
    <2>2. /\ tally' \in [Totals -> Nat]
          /\ tally'["processed"] = 0 /\ tally'["correct"] = 0 /\ tally'["failed"] = 0
          /\ tally'["rounds"] = 0
          /\ tally'["answered"] = IF driver = "long_hf" THEN LongCompleted ELSE 0
      <3>1. Resumed = IF driver = "long_hf" THEN [NoTotals EXCEPT !["answered"] = LongCompleted] ELSE NoTotals
        BY <1>5 DEF Resumed
      <3> QED
        BY <1>1, <2>1, <3>1 DEF NoTotals, Totals
    <2>3. driver = "long_hf" => tally'["answered"] + Cardinality(todo') <= NumSamples
      <3> SUFFICES ASSUME driver = "long_hf" PROVE tally'["answered"] + Cardinality(todo') <= NumSamples
        OBVIOUS
      <3>1. todo' = (LongCompleted + 1) .. NumSamples
        BY <1>1, <2>1, HarnessAssumption DEF Skipped, Samples
      <3>2. Cardinality(todo') = IF LongCompleted + 1 > NumSamples THEN 0 ELSE NumSamples - (LongCompleted + 1) + 1
        BY <2>1, <3>1, FS_Interval, HarnessAssumption
      <3> QED
        BY <2>1, <2>2, <3>2, HarnessAssumption
    <2>4. Covered'
      <3>1. driver = "long_hf" => tally'["answered"] + Cardinality(todo') + 0 <= NumSamples
        <4>1. Cardinality(todo') \in Nat /\ tally'["answered"] \in Nat
          BY <1>1, <2>2, FiniteSamples DEF Totals
        <4> QED
          BY <2>3, <4>1
      <3> QED
        BY <1>1, <1>2, <1>5, <2>2, <3>1 DEF Covered
    <2>5. MaxRounds * 0 = 0
      BY HarnessAssumption
    <2>6. Shared'
      BY <1>1, <1>2, <2>2, <2>5 DEF Shared
    <2>7. Shapes'
      BY <1>1, <2>2, HarnessAssumption DEF Shapes, Live, Busy
    <2> QED
      BY <2>4, <2>6, <2>7 DEF Tallied
  <1> QED
    BY <1>4, <1>5

LEMMA TakeTallied == ASSUME Tallied, Take PROVE Tallied'
  <1>0. todo # {} /\ todo \in SUBSET Nat
    BY DEF Take, Tallied, Shapes, Samples
  <1>1. Min(todo) \in todo
    BY <1>0, LeastNumber DEF Min
  <1>2. /\ pc = "between" /\ pc' = "running" /\ current' \in todo
        /\ todo' = todo \ {current'} /\ tried' = tried \cup {current'}
        /\ round' = 0 /\ outcome' = "none" /\ UNCHANGED <<driver, lives, log, torn>>
        /\ Shapes /\ Covered /\ Shared
    BY <1>1 DEF Take, Tallied
  <1>3. /\ tally' \in [Totals -> Nat]
        /\ tally'["processed"] = IF driver = "long_vllm" THEN tally["processed"] ELSE tally["processed"] + 1
        /\ \A t \in {"correct", "failed", "answered", "rounds"} : tally'[t] = tally[t]
    <2>1. tally \in [Totals -> Nat]
      BY <1>2 DEF Shapes
    <2> QED
      BY <2>1, PlusAdds DEF Take, Totals
  <1>4. Through' = Through /\ One(Busy) = 0 /\ One(Busy') = 1 /\ tally["processed"] \in Nat
    BY <1>2, <1>3 DEF Through, Busy, One, Shapes, Totals
  <1>5. /\ Cardinality(todo') = Cardinality(todo) - 1 /\ Cardinality(todo) \in Nat
        /\ Cardinality(tried') = Cardinality(tried) + 1 /\ Cardinality(tried) \in Nat
    <2>1. current' \notin tried
      BY <1>2 DEF Shapes
    <2>2. IsFiniteSet(todo) /\ IsFiniteSet(tried) /\ Cardinality(todo) \in Nat /\ Cardinality(tried) \in Nat
      BY <1>2, FiniteSamples DEF Shapes
    <2> QED
      BY <1>2, <2>1, <2>2, FS_AddElement, FS_RemoveElement
  <1>6. Covered'
    <2>1. tally["answered"] \in Nat /\ Through \in Int
      BY <1>2 DEF Shapes, Totals, Through
    <2> QED
      BY <1>2, <1>3, <1>4, <1>5, <2>1, HarnessAssumption DEF Covered
  <1>7. Shared'
    BY <1>2, <1>3, <1>4 DEF Shared
  <1>8. Shapes'
    BY <1>2, <1>3, HarnessAssumption DEF Shapes, Live, Busy, Answered
  <1> QED
    BY <1>6, <1>7, <1>8 DEF Tallied

(* Steps between the first round of a sample and its return.                 *)
LEMMA SampleTallied ==
  ASSUME Tallied, Shapes', pc = "running", pc' \in {"running", "returned"},
         UNCHANGED <<driver, todo, tried>>,
         \A t \in {"processed", "correct", "failed", "answered", "rounds"} : tally'[t] = tally[t]
  PROVE  Tallied'
  <1>1. Through' = Through /\ One(Busy') = One(Busy) /\ Covered /\ Shared
    BY DEF Through, Busy, One, Tallied
  <1>2. Covered' /\ Shared'
    BY <1>1 DEF Covered, Shared
  <1> QED
    BY <1>2 DEF Tallied

LEMMA TurnTallied == ASSUME Tallied, NEW kind \in {"turn", "claim"}, Turn(kind) PROVE Tallied'
  <1>a. /\ pc = "running" /\ pc' = pc /\ round < MaxRounds /\ round' = round + 1
        /\ Write(kind, FALSE, round')
        /\ UNCHANGED <<driver, lives, todo, tried, current, outcome, tally>>
    BY DEF Turn, OneSample!Turn
  <1>b. Shapes /\ current \in Samples /\ round \in 0 .. MaxRounds
    BY <1>a DEF Tallied, Shapes, Busy
  <1>c. round' \in 0 .. MaxRounds
    BY <1>a, <1>b, HarnessAssumption
  <1>1. /\ pc = "running" /\ pc' = pc /\ round' \in 0 .. MaxRounds
        /\ UNCHANGED <<driver, lives, todo, tried, current, outcome, tally>>
        /\ Shapes /\ current \in Samples
    BY <1>a, <1>b, <1>c
  <1>2. log' \in Seq(LogRows) /\ torn' \in BOOLEAN
    <2>1. kind \in {"turn", "claim", "answer", "done", "error"} /\ FALSE \in BOOLEAN
      OBVIOUS
    <2> QED
      BY <1>a, <1>b, <1>c, <2>1, RowTyped, Zenon
  <1>3. Shapes'
    BY <1>1, <1>2 DEF Shapes, Busy
  <1> QED
    BY <1>1, <1>3, SampleTallied

LEMMA AnswerTallied == ASSUME Tallied, NEW right \in BOOLEAN, Answer(right) PROVE Tallied'
  <1>1. /\ pc = "running" /\ pc' = "returned" /\ round' \in 0 .. MaxRounds /\ round' >= 1
        /\ Write("answer", right, round')
        /\ UNCHANGED <<driver, lives, todo, tried, current, tally>>
        /\ outcome' \in {"right", "wrong"}
        /\ Shapes /\ current \in Samples
    BY HarnessAssumption DEF Answer, OneSample!Answer, OneSample!Ends, Tallied, Shapes, Busy
  <1>2. log' \in Seq(LogRows) /\ torn' \in BOOLEAN
    BY <1>1, RowTyped
  <1>3. Shapes'
    BY <1>1, <1>2 DEF Shapes, Busy, Live
  <1> QED
    BY <1>1, <1>3, SampleTallied

LEMMA GiveUpTallied ==
  ASSUME Tallied, GiveUp PROVE Tallied'
  <1>1. /\ pc = "running" /\ pc' = "returned" /\ outcome' \in {"terminated", "exhausted", "raised"}
        /\ UNCHANGED <<driver, lives, todo, tried, current, round, log, torn>> /\ Shapes
    BY DEF GiveUp, OneSample!Terminate, OneSample!Exhaust, OneSample!Raise,
           OneSample!Ends, Tallied
  <1>2. /\ tally' \in [Totals -> Nat]
        /\ \A t \in {"processed", "correct", "failed", "answered", "rounds"} : tally'[t] = tally[t]
    <2>1. tally \in [Totals -> Nat]
      BY <1>1 DEF Shapes
    <2> QED
      BY <2>1, PlusAdds DEF GiveUp, OneSample!Terminate, OneSample!Exhaust, OneSample!Raise,
                               OneSample!Ends, Totals
  <1>3. Shapes'
    BY <1>1, <1>2 DEF Shapes, Busy, Live, Answered
  <1> QED
    BY <1>1, <1>2, <1>3, SampleTallied

(* What a conclusion adds keeps the totals within the samples.               *)
LEMMA ConcludeTallied ==
  ASSUME Tallied, Back, Shapes',
         tally'["processed"] = tally["processed"] + One(driver = "long_vllm"),
         tally'["correct"] = tally["correct"] + One(outcome = "right"),
         tally'["failed"] \in {tally["failed"], tally["failed"] + One(~Answered)},
         NEW more \in 0 .. MaxRounds, tally'["rounds"] = tally["rounds"] + more,
         tally'["answered"] = tally["answered"]
                                + One(Answered /\ driver \in {"long_vllm", "long_hf"}),
         driver = "long_vllm" /\ Answered => more >= 1
  PROVE  Tallied'
  <1>1. /\ pc = "returned" /\ pc' = "between" /\ UNCHANGED <<driver, todo, tried, outcome>>
        /\ Shapes /\ Covered /\ Shared
    BY DEF Back, Tallied
  <1>2. /\ tally["processed"] \in Nat /\ tally["correct"] \in Nat /\ tally["failed"] \in Nat
        /\ tally["rounds"] \in Nat /\ tally["answered"] \in Nat
    BY <1>1 DEF Shapes, Totals
  <1>3. /\ Through' = Through + 1 /\ Through \in Int
        /\ One(Busy) = 1 /\ One(Busy') = 0
    BY <1>1, <1>2 DEF Through, Busy, One
  <1>4. Through \in Nat
    BY <1>1, <1>2, <1>3 DEF Shared
  <1>5. /\ Cardinality(todo) \in Nat /\ Cardinality(tried) \in Nat
    BY <1>1, FiniteSamples DEF Shapes
  <1>6. MaxRounds * (Through + 1) = MaxRounds * Through + MaxRounds /\ MaxRounds * Through \in Nat
    BY <1>4, HarnessAssumption
  <1>7. Covered'
    BY <1>1, <1>2, <1>3, <1>5, HarnessAssumption DEF Covered, One
  <1>8. Shared'
    <2>1. tally'["correct"] + tally'["failed"] <= Through'
      BY <1>1, <1>2, <1>3 DEF Shared, One, Answered
    <2>2. tally'["rounds"] <= MaxRounds * Through'
      <3>1. tally["rounds"] <= MaxRounds * Through
        BY <1>1 DEF Shared
      <3> DEFINE product == MaxRounds * Through
      <3> HIDE DEF product
      <3>2. MaxRounds * Through' = product + MaxRounds /\ product \in Nat
        BY <1>3, <1>6 DEF product
      <3>3. tally["rounds"] <= product
        BY <3>1 DEF product
      <3> QED
        BY <1>2, <3>2, <3>3, HarnessAssumption
    <2>3. ASSUME driver = "long_vllm"
          PROVE  /\ tally'["correct"] <= tally'["answered"]
                 /\ tally'["answered"] + tally'["failed"] <= Through'
                 /\ tally'["answered"] <= tally'["rounds"]
      BY <1>1, <1>2, <1>3, <2>3 DEF Shared, One, Answered
    <2> QED
      BY <1>1, <2>1, <2>2, <2>3 DEF Shared
  <1> QED
    BY <1>7, <1>8 DEF Tallied

(* What the drivers add. *)
LEMMA ConcludeShapes ==
  ASSUME Tallied, Back, tally' \in [Totals -> Nat], log' \in Seq(LogRows), torn' \in BOOLEAN
  PROVE  Shapes'
  BY DEF Back, Tallied, Shapes, Busy, Live

LEMMA ConcludesTallied ==
  ASSUME Tallied, ConcludeNextqa \/ ConcludeEgoschema \/ ConcludeLong PROVE Tallied'
  <1>a. Back /\ pc = "returned"
    BY DEF ConcludeNextqa, ConcludeEgoschema, ConcludeLong, Back
  <1>b. /\ Shapes /\ tally \in [Totals -> Nat] /\ current \in Samples
        /\ round \in 0 .. MaxRounds /\ (Answered => round >= 1)
    BY <1>a DEF Tallied, Shapes, Busy
  <1>c. MaxRounds \in Nat /\ MaxRounds \in 0 .. MaxRounds /\ 0 \in 0 .. MaxRounds
    BY HarnessAssumption
  <1>0. /\ Back /\ pc = "returned" /\ Shapes /\ tally \in [Totals -> Nat] /\ current \in Samples
        /\ round \in 0 .. MaxRounds /\ MaxRounds \in 0 .. MaxRounds /\ 0 \in 0 .. MaxRounds
        /\ (Answered => round >= 1) /\ round \in Nat /\ MaxRounds \in Nat
        /\ FALSE \in BOOLEAN
    BY <1>a, <1>b, <1>c
  <1>2. CASE ConcludeNextqa
    <2> DEFINE added == [correct |-> One(outcome = "right"), failed |-> One(outcome = "raised"),
                         rounds |-> IF outcome = "raised" THEN MaxRounds ELSE round]
    <2>1. /\ DOMAIN added = {"correct", "failed", "rounds"} /\ \A t \in DOMAIN added : added[t] \in Nat
          /\ added["correct"] = One(outcome = "right") /\ added["failed"] = One(outcome = "raised")
          /\ added["rounds"] \in 0 .. MaxRounds
      BY <1>0 DEF One
    <2>2. tally' = Plus(added) /\ UNCHANGED <<log, torn>> /\ driver = "nextqa"
      BY <1>2 DEF ConcludeNextqa
    <2> HIDE DEF added
    <2>3. /\ tally' \in [Totals -> Nat]
          /\ tally'["processed"] = tally["processed"] /\ tally'["answered"] = tally["answered"]
          /\ tally'["correct"] = tally["correct"] + added["correct"]
          /\ tally'["failed"] = tally["failed"] + added["failed"]
          /\ tally'["rounds"] = tally["rounds"] + added["rounds"]
      BY <1>0, <2>1, <2>2, PlusAdds DEF Totals
    <2>4. Shapes'
      BY <1>0, <2>2, <2>3, ConcludeShapes DEF Shapes
    <2>5. tally'["failed"] \in {tally["failed"], tally["failed"] + One(~Answered)}
      BY <1>0, <2>1, <2>3 DEF One, Answered, Totals
    <2>6. /\ tally'["processed"] = tally["processed"] + One(driver = "long_vllm")
          /\ tally'["answered"] = tally["answered"] + One(Answered /\ driver \in {"long_vllm", "long_hf"})
      BY <1>0, <2>2, <2>3 DEF One, Totals
    <2> QED
      BY <1>0, <2>1, <2>2, <2>3, <2>4, <2>5, <2>6, ConcludeTallied
  <1>3. CASE ConcludeEgoschema
    <2> DEFINE added == [correct |-> One(outcome = "right"), failed |-> One(outcome \in {"raised", "exhausted"}),
                         rounds |-> IF Answered THEN round ELSE 0]
    <2>1. /\ DOMAIN added = {"correct", "failed", "rounds"} /\ \A t \in DOMAIN added : added[t] \in Nat
          /\ added["correct"] = One(outcome = "right")
          /\ added["failed"] = One(outcome \in {"raised", "exhausted"})
          /\ added["rounds"] \in 0 .. MaxRounds
      BY <1>0 DEF One
    <2>2. tally' = Plus(added) /\ Write("done", FALSE, round) /\ driver = "egoschema"
      BY <1>3 DEF ConcludeEgoschema
    <2>a. log' \in Seq(LogRows) /\ torn' \in BOOLEAN
      BY <1>0, <2>2, RowTyped
    <2> HIDE DEF added
    <2>3. /\ tally' \in [Totals -> Nat]
          /\ tally'["processed"] = tally["processed"] /\ tally'["answered"] = tally["answered"]
          /\ tally'["correct"] = tally["correct"] + added["correct"]
          /\ tally'["failed"] = tally["failed"] + added["failed"]
          /\ tally'["rounds"] = tally["rounds"] + added["rounds"]
      BY <1>0, <2>1, <2>2, PlusAdds DEF Totals
    <2>4. Shapes'
      BY <1>0, <2>a, <2>3, ConcludeShapes
    <2>5. tally'["failed"] \in {tally["failed"], tally["failed"] + One(~Answered)}
      BY <1>0, <2>1, <2>3 DEF One, Answered, Totals
    <2>6. /\ tally'["processed"] = tally["processed"] + One(driver = "long_vllm")
          /\ tally'["answered"] = tally["answered"] + One(Answered /\ driver \in {"long_vllm", "long_hf"})
      BY <1>0, <2>2, <2>3 DEF One, Totals
    <2> QED
      BY <1>0, <2>1, <2>2, <2>3, <2>4, <2>5, <2>6, ConcludeTallied
  <1>4. CASE ConcludeLong
    <2> DEFINE added == [processed |-> One(driver = "long_vllm"), answered |-> One(Answered),
                         correct |-> One(outcome = "right"), failed |-> One(outcome = "raised"),
                         rounds |-> IF Answered THEN round ELSE 0,
                         terminated |-> One(outcome \in {"terminated", "exhausted"} /\ ForceFinalAnswer)]
    <2>1. /\ DOMAIN added = {"processed", "answered", "correct", "failed", "rounds", "terminated"}
          /\ \A t \in DOMAIN added : added[t] \in Nat
          /\ added["processed"] = One(driver = "long_vllm") /\ added["answered"] = One(Answered)
          /\ added["correct"] = One(outcome = "right") /\ added["failed"] = One(outcome = "raised")
          /\ added["rounds"] \in 0 .. MaxRounds /\ (Answered => added["rounds"] >= 1)
      BY <1>0 DEF One
    <2>2. tally' = Plus(added) /\ driver \in {"long_vllm", "long_hf"}
      BY <1>4 DEF ConcludeLong
    <2>a. log' \in Seq(LogRows) /\ torn' \in BOOLEAN
      BY <1>0, <1>4, RowTyped DEF ConcludeLong, Shapes
    <2> HIDE DEF added
    <2>3. /\ tally' \in [Totals -> Nat]
          /\ tally'["processed"] = tally["processed"] + added["processed"]
          /\ tally'["answered"] = tally["answered"] + added["answered"]
          /\ tally'["correct"] = tally["correct"] + added["correct"]
          /\ tally'["failed"] = tally["failed"] + added["failed"]
          /\ tally'["rounds"] = tally["rounds"] + added["rounds"]
      BY <1>0, <2>1, <2>2, PlusAdds DEF Totals
    <2>4. Shapes'
      BY <1>0, <2>a, <2>3, ConcludeShapes
    <2>5. tally'["failed"] \in {tally["failed"], tally["failed"] + One(~Answered)}
      BY <1>0, <2>1, <2>3 DEF One, Answered, Totals
    <2>6. /\ tally'["processed"] = tally["processed"] + One(driver = "long_vllm")
          /\ tally'["answered"] = tally["answered"] + One(Answered /\ driver \in {"long_vllm", "long_hf"})
      BY <2>1, <2>2, <2>3 DEF One
    <2> QED
      BY <1>0, <2>1, <2>2, <2>3, <2>4, <2>5, <2>6, ConcludeTallied
  <1> QED
    BY <1>2, <1>3, <1>4

LEMMA NextTallied == ASSUME Tallied, [Next]_vars PROVE Tallied'
  <1>1. CASE Start
    BY <1>1, StartTallied
  <1>2. CASE Crash
    <2>1. /\ pc' = "down" /\ todo' = {} /\ tried' = {} /\ current' = NoSample /\ round' = 0
          /\ outcome' = "none" /\ tally' = NoTotals /\ torn' \in BOOLEAN
          /\ UNCHANGED <<driver, lives, log>> /\ Shapes
      BY <1>2 DEF Crash, Tallied, Shapes
    <2>2. Shapes'
      BY <2>1, HarnessAssumption DEF Shapes, NoTotals, Busy
    <2> QED
      BY <2>1, <2>2 DEF Tallied
  <1>3. CASE Take
    BY <1>3, TakeTallied
  <1>4. CASE Summarise
    <2>1. /\ pc = "between" /\ pc' = "done" /\ todo = {} /\ Shapes /\ Covered /\ Shared
          /\ UNCHANGED <<driver, lives, todo, tried, current, round, outcome, tally, log, torn>>
      BY <1>4 DEF Summarise, lifeVars, Tallied
    <2>2. Shapes'
      BY <2>1 DEF Shapes, Busy, Live
    <2>3. Through' = Through /\ One(Busy') = One(Busy)
      BY <2>1 DEF Through, Busy, One
    <2>4. Covered' /\ Shared'
      BY <2>1, <2>3 DEF Covered, Shared
    <2> QED
      BY <2>2, <2>4 DEF Tallied
  <1>5. ASSUME NEW kind \in {"turn", "claim"}, Turn(kind) PROVE Tallied'
    BY <1>5, TurnTallied
  <1>6. ASSUME NEW right \in BOOLEAN, Answer(right) PROVE Tallied'
    BY <1>6, AnswerTallied
  <1>7. ASSUME GiveUp PROVE Tallied'
    BY <1>7, GiveUpTallied
  <1>8. CASE ConcludeNextqa \/ ConcludeEgoschema \/ ConcludeLong
    BY <1>8, ConcludesTallied
  <1>9. CASE UNCHANGED vars
    BY <1>9 DEF vars, lifeVars, Tallied, Shapes, Covered, Shared, Through, Busy, One, Answered
  <1> QED
    BY <1>1, <1>2, <1>3, <1>4, <1>5, <1>6, <1>7, <1>8, <1>9 DEF Next, Run

(* The totals of every driver, resumed or not, add up at every moment: what  *)
(* is through, in hand and waiting are the samples, and outcomes share out   *)
(* what is through.                                                          *)
THEOREM TotalsInvariance == Spec => []Tallied
  <1>1. Init => Tallied
    <2> SUFFICES ASSUME Init PROVE Tallied
      OBVIOUS
    <2>1. Shapes
      <3>1. log \in Seq(LogRows)
        BY DEF Init
      <3>2. round \in 0 .. MaxRounds /\ lives \in 0 .. MaxLives
        BY HarnessAssumption DEF Init
      <3>3. tally \in [Totals -> Nat]
        BY DEF Init, NoTotals
      <3> QED
        BY <3>1, <3>2, <3>3 DEF Init, Shapes, Busy
    <2> QED
      BY <2>1 DEF Init, Tallied
  <1>2. Tallied /\ [Next]_vars => Tallied'
    BY NextTallied
  <1> QED
    BY <1>1, <1>2, PTL DEF Spec

LEMMA ThroughFits ==
  ASSUME Tallied, pc # "down"
  PROVE  /\ Through \in Nat /\ Through <= NumSamples
         /\ tally["processed"] <= NumSamples /\ tally["answered"] <= NumSamples
         /\ \A t \in Totals : tally[t] \in Nat
  <1>1. /\ Shapes /\ Covered /\ Shared /\ \A t \in Totals : tally[t] \in Nat
    BY DEF Tallied, Shapes
  <1>2. /\ Cardinality(todo) \in Nat /\ Cardinality(tried) \in Nat /\ Cardinality(tried) <= NumSamples
    BY <1>1, FiniteSamples DEF Shapes
  <1>3. driver \in {"nextqa", "egoschema", "long_vllm", "long_hf"}
    BY <1>1, HarnessAssumption DEF Shapes
  <1>4. Through \in Int /\ Through \in {tally["processed"], tally["processed"] - 1}
        /\ (driver # "long_vllm" => tally["processed"] = Through + One(Busy))
        /\ (driver = "long_vllm" => tally["processed"] = Through)
        /\ One(Busy) \in {0, 1}
    BY <1>1 DEF Through, One, Totals
  <1>5. Through \in Nat
    BY <1>1, <1>4 DEF Shared, Totals
  <1>6. Through <= NumSamples /\ tally["processed"] <= NumSamples
    BY <1>1, <1>2, <1>4, <1>5, HarnessAssumption DEF Covered, Totals
  <1>7. tally["answered"] <= NumSamples
    BY <1>1, <1>2, <1>3, <1>4, <1>5, <1>6, HarnessAssumption DEF Covered, Shared, Totals
  <1> QED
    BY <1>1, <1>5, <1>6, <1>7

(* Types, and no total of samples exceeds the shard, with what was resumed.  *)
THEOREM HarnessTypes == Spec => []TypeOK
  <1>1. ASSUME Tallied PROVE TypeOK
    <2>1. \A t \in {"processed", "correct", "failed", "answered"} : tally[t] <= NumSamples
      <3>1. CASE pc = "down"
        BY <1>1, <3>1, HarnessAssumption DEF Tallied, Shapes, NoTotals, Totals
      <3>2. CASE pc # "down"
        <4>1. tally["correct"] + tally["failed"] <= Through
          BY <1>1, <3>2 DEF Tallied, Shared
        <4>2. tally["correct"] \in Nat /\ tally["failed"] \in Nat
          BY <1>1, <3>2, ThroughFits DEF Totals
        <4> QED
          BY <1>1, <3>2, <4>1, <4>2, ThroughFits, HarnessAssumption
      <3> QED
        BY <3>1, <3>2
    <2> QED
      BY <1>1, <2>1 DEF TypeOK, Tallied, Shapes, Live
  <1> QED
    BY <1>1, TotalsInvariance, PTL

(* The totals of a summary tell one story, whichever driver wrote it.        *)
THEOREM SummaryAddsUp == Spec => []TotalsAddUp
  <1>1. ASSUME Tallied PROVE TotalsAddUp
    <2> SUFFICES ASSUME pc = "done" PROVE TotalsAddUp
      BY DEF TotalsAddUp
    <2>1. /\ Shapes /\ Covered /\ Shared /\ todo = {} /\ tally["processed"] \in Nat
      BY <1>1 DEF Tallied, Shapes, Totals
    <2>2. Through = tally["processed"] /\ One(Busy) = 0 /\ Cardinality(todo) = 0
      BY <2>1, FS_EmptySet DEF Through, Busy, One
    <2>3. tally["processed"] = IF driver = "nextqa" THEN NumSamples ELSE Cardinality(tried)
      BY <2>1, <2>2 DEF Covered
    <2> QED
      BY <2>1, <2>2, <2>3 DEF TotalsAddUp, Shared
  <1> QED
    BY <1>1, TotalsInvariance, PTL
=============================================================================
