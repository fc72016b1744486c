------------------------- MODULE OutboxRelayProofs -------------------------
(***************************************************************************)
(* Theorems about OutboxRelay, for every number of rows and of instances,  *)
(* every batch size and every limit, and without bounds on crashes and     *)
(* errors other than that there are finitely many.                         *)
(***************************************************************************)
EXTENDS OutboxRelay, FiniteSetTheorems, WellFoundedInduction, TLAPS

-----------------------------------------------------------------------------
(* The oldest row of a batch *)

LEMMA NatSetHasMin ==
    ASSUME NEW T, T \subseteq Nat, T # {}
    PROVE  \E x \in T : \A y \in T : x <= y
<1> DEFINE R == OpToRel(<, Nat)
<1>1. IsWellFoundedOn(R, Nat)
  BY NatLessThanWellFounded
<1>2. \A x, y \in Nat : x < y => <<x, y>> \in R
  BY DEF OpToRel
<1> HIDE DEF R
<1>3. PICK x \in T : \A y \in T : ~ (<<y, x>> \in R)
  BY <1>1, WFMin
<1>4. ASSUME NEW y \in T PROVE x <= y
  <2>1. ~ (<<y, x>> \in R) /\ x \in Nat /\ y \in Nat
    BY <1>3
  <2>2. ~ (y < x)
    BY <1>2, <2>1
  <2> QED BY <2>1, <2>2
<1> QED BY <1>4

LEMMA OldestExists ==
    ASSUME NEW claimed \in SUBSET Claimed, claimed # {}
    PROVE  Oldest(claimed) \in claimed
<1> DEFINE ids == {b.id : b \in claimed}
<1>1. ids \subseteq Nat /\ ids # {}
  BY RelayAssumption DEF Claimed
<1>2. PICK x \in ids : \A y \in ids : x <= y
  BY ONLY <1>1, NatSetHasMin
<1>3. \E b \in claimed : \A other \in claimed : b.id <= other.id
  BY <1>2
<1> QED BY <1>3 DEF Oldest

-----------------------------------------------------------------------------
(* The invariant *)

\* An instance holds rows that are stored and were read below the limit.
BatchEligible ==
    \A i \in Relays : \A b \in batch[i] :
        b.attempts < MaxAttempts /\ row[b.id].stored

\* The row that is about to be marked is that of a known event just published.
MarksPublished ==
    \A i \in Relays : step[i] = "mark" => Head(i).id \in Known /\ published[Head(i).id] > 0

RelayInv ==
    /\ TypeOK /\ BatchEligible /\ MarksPublished
    /\ AttemptsBounded /\ ProcessedWasPublished

LEMMA HeadTyped ==
    ASSUME RelayInv, NEW i \in Relays, batch[i] # {}
    PROVE  /\ Head(i) \in batch[i]
           /\ Head(i).id \in Rows /\ Head(i).attempts \in Nat
           /\ Head(i).attempts < MaxAttempts /\ row[Head(i).id].stored
<1>1. Head(i) \in batch[i]
  BY OldestExists DEF RelayInv, TypeOK, Head
<1> QED BY <1>1 DEF RelayInv, TypeOK, BatchEligible, Claimed

\* Head(i) is a function of the batch of i alone.
LEMMA HeadKept ==
    ASSUME NEW k, batch'[k] = batch[k]
    PROVE  Head(k)' = Head(k)
BY DEF Head

-----------------------------------------------------------------------------
(* Every step keeps it *)

\* What a step that leaves the table and the counts of publications alone must do.
LEMMA ProcessSteps ==
    ASSUME RelayInv, TypeOK', row' = row, published' = published, NEW i \in Relays,
           \A k \in Relays \ {i} : batch'[k] = batch[k] /\ step'[k] = step[k],
           \A b \in batch'[i] : b.attempts < MaxAttempts /\ row[b.id].stored,
           step'[i] = "mark" => step[i] = "mark" /\ batch'[i] = batch[i]
    PROVE  RelayInv'
<1>1. BatchEligible'
  BY DEF RelayInv, BatchEligible
<1>2. MarksPublished'
  BY HeadKept DEF RelayInv, MarksPublished
<1>3. AttemptsBounded' /\ ProcessedWasPublished'
  BY DEF RelayInv, AttemptsBounded, ProcessedWasPublished
<1> QED BY <1>1, <1>2, <1>3 DEF RelayInv

LEMMA NextRowTyped ==
    ASSUME RelayInv, NEW i \in Relays, batch[i] # {}, NextRow(i), step[i] # "claimed",
           locked' = locked
    PROVE  /\ batch' \in [Relays -> SUBSET Claimed] /\ step' \in [Relays -> Step]
           /\ batch'[i] \subseteq batch[i] /\ step'[i] \in {"idle", "dispatch"}
           /\ \A k \in Relays \ {i} : batch'[k] = batch[k] /\ step'[k] = step[k]
           /\ \A k \in Relays :
                /\ step'[k] = "idle" <=> batch'[k] = {}
                /\ locked'[k] = IF step'[k] = "claimed" THEN {b.id : b \in batch'[k]} ELSE {}
<1> USE DEF RelayInv, TypeOK
<1>1. Head(i) \in batch[i]
  BY HeadTyped
<1>2. /\ batch' = [batch EXCEPT ![i] = batch[i] \ {Head(i)}]
      /\ step' = [step EXCEPT ![i] = IF batch[i] = {Head(i)} THEN "idle" ELSE "dispatch"]
  BY DEF NextRow
<1>3. batch' \in [Relays -> SUBSET Claimed] /\ step' \in [Relays -> Step]
  BY <1>2 DEF Step
<1>4. batch'[i] = batch[i] \ {Head(i)} /\ step'[i] \in {"idle", "dispatch"}
  BY <1>2
<1>5. step'[i] = "idle" <=> batch'[i] = {}
  BY <1>1, <1>2
<1>6. \A k \in Relays \ {i} : batch'[k] = batch[k] /\ step'[k] = step[k]
  BY <1>2
<1>7. locked[i] = {}
  OBVIOUS
<1> QED BY <1>3, <1>4, <1>5, <1>6, <1>7

\* A step that counts the attempt of the row at the head, and may mark it.
LEMMA CountSteps ==
    ASSUME RelayInv, NEW i \in Relays, batch[i] # {}, step[i] \notin {"idle", "claimed"},
           NextRow(i),
           \/ row' = row
           \/ row' = Counted(Head(i))
           \/ step[i] = "mark" /\ row' = [Counted(Head(i)) EXCEPT ![Head(i).id].processed = TRUE],
           UNCHANGED <<locked, phase, running, published, handled, stops>>, errors' \in Nat
    PROVE  RelayInv'
<1> DEFINE b == Head(i)
<1>1. /\ b \in batch[i] /\ b.id \in Rows /\ b.attempts \in Nat
      /\ b.attempts < MaxAttempts /\ row[b.id].stored
  BY HeadTyped
<1>2. row \in [Rows -> [stored : BOOLEAN, processed : BOOLEAN, attempts : Nat]]
  BY DEF RelayInv, TypeOK
<1>3. step[i] = "mark" => b.id \in Known /\ published[b.id] > 0
  BY DEF RelayInv, MarksPublished
<1> HIDE DEF b
<1>4. /\ row' \in [Rows -> [stored : BOOLEAN, processed : BOOLEAN, attempts : Nat]]
      /\ \A e \in Rows : row'[e].stored = row[e].stored
      /\ \A e \in Rows : row'[e].attempts = row[e].attempts \/ row'[e].attempts <= MaxAttempts
      /\ \A e \in Rows : row'[e].processed =>
            row[e].processed \/ (row[e].stored /\ e \in Known /\ published[e] > 0)
  <2>1. CASE row' = row
    BY <1>2, <2>1
  <2>2. CASE row' = Counted(b)
    <3>1. row' = [row EXCEPT ![b.id].attempts = b.attempts + 1]
      BY <2>2 DEF Counted
    <3> QED BY <1>1, <1>2, <3>1, RelayAssumption
  <2>3. CASE step[i] = "mark" /\ row' = [Counted(b) EXCEPT ![b.id].processed = TRUE]
    <3> DEFINE counted == Counted(b)
    <3>1. /\ counted \in [Rows -> [stored : BOOLEAN, processed : BOOLEAN, attempts : Nat]]
          /\ \A e \in Rows : /\ counted[e].stored = row[e].stored
                             /\ counted[e].processed = row[e].processed
                             /\ \/ counted[e].attempts = row[e].attempts
                                \/ counted[e].attempts <= MaxAttempts
      BY <1>1, <1>2, RelayAssumption DEF Counted
    <3>2. row' = [counted EXCEPT ![b.id].processed = TRUE]
      BY <2>3
    <3> HIDE DEF counted
    <3>3. /\ row' \in [Rows -> [stored : BOOLEAN, processed : BOOLEAN, attempts : Nat]]
          /\ \A e \in Rows : /\ row'[e].stored = counted[e].stored
                             /\ row'[e].attempts = counted[e].attempts
                             /\ row'[e].processed => counted[e].processed \/ e = b.id
      BY <1>1, <3>1, <3>2
    <3> QED BY <1>1, <1>3, <2>3, <3>1, <3>3
  <2> QED BY <2>1, <2>2, <2>3 DEF b
<1>5. /\ batch' \in [Relays -> SUBSET Claimed] /\ step' \in [Relays -> Step]
      /\ batch'[i] \subseteq batch[i] /\ step'[i] \in {"idle", "dispatch"}
      /\ \A k \in Relays \ {i} : batch'[k] = batch[k] /\ step'[k] = step[k]
      /\ \A k \in Relays :
           /\ step'[k] = "idle" <=> batch'[k] = {}
           /\ locked'[k] = IF step'[k] = "claimed" THEN {c.id : c \in batch'[k]} ELSE {}
  BY NextRowTyped
<1>6. TypeOK'
  BY <1>4, <1>5 DEF RelayInv, TypeOK
<1>7. BatchEligible'
  <2>1. \A k \in Relays : batch'[k] \subseteq batch[k] /\ batch[k] \subseteq Claimed
    BY <1>5 DEF RelayInv, TypeOK
  <2> QED BY <1>4, <2>1 DEF RelayInv, BatchEligible, Claimed
<1>8. MarksPublished'
  BY <1>5, HeadKept DEF RelayInv, MarksPublished
<1>9. AttemptsBounded'
  BY <1>4 DEF RelayInv, AttemptsBounded
<1>10. ProcessedWasPublished'
  BY <1>4 DEF RelayInv, ProcessedWasPublished
<1> QED BY <1>6, <1>7, <1>8, <1>9, <1>10 DEF RelayInv

LEMMA TickKeepsInv ==
    ASSUME RelayInv, NEW i \in Relays, Tick(i)
    PROVE  RelayInv'
<1> USE DEF RelayInv, TypeOK
<1>1. CASE Claim(i)
  <2>1. PICK S \in SUBSET Eligible(i) :
          /\ S # {}
          /\ batch' = [batch EXCEPT ![i] = {[id |-> e, attempts |-> row[e].attempts] : e \in S}]
          /\ locked' = [locked EXCEPT ![i] = S]
    BY <1>1 DEF Claim
  <2>2. S \subseteq Rows /\ \A e \in S : row[e].attempts < MaxAttempts /\ row[e].stored
    BY <2>1 DEF Eligible
  <2> DEFINE claimed == {[id |-> e, attempts |-> row[e].attempts] : e \in S}
             ids == {b.id : b \in claimed}
  <2>3. claimed \in SUBSET Claimed /\ claimed # {}
    <3>1. ASSUME NEW e \in S PROVE [id |-> e, attempts |-> row[e].attempts] \in Claimed
      <4>1. e \in Rows /\ row[e].attempts \in Nat
        BY <2>2
      <4> QED BY <4>1 DEF Claimed
    <3>2. PICK e \in S : TRUE
      BY <2>1
    <3>3. [id |-> e, attempts |-> row[e].attempts] \in claimed
      OBVIOUS
    <3> QED BY <3>1, <3>3
  <2>4. ids = S
    <3>1. ASSUME NEW e \in S PROVE e \in ids
      <4>1. [id |-> e, attempts |-> row[e].attempts] \in claimed
        OBVIOUS
      <4> QED BY <4>1
    <3>2. ASSUME NEW x \in ids PROVE x \in S
      OBVIOUS
    <3> QED BY <3>1, <3>2
  <2>5. \A b \in claimed : b.attempts < MaxAttempts /\ row[b.id].stored
    BY <2>2
  <2>6. batch' = [batch EXCEPT ![i] = claimed]
    BY <2>1
  <2> HIDE DEF claimed
  <2>7. /\ step' = [step EXCEPT ![i] = "claimed"]
        /\ UNCHANGED <<row, phase, running, published, handled, stops, errors>>
    BY <1>1 DEF Claim
  <2>8. /\ batch' \in [Relays -> SUBSET Claimed] /\ step' \in [Relays -> Step]
        /\ locked' \in [Relays -> SUBSET Rows]
    BY <2>1, <2>2, <2>3, <2>6, <2>7 DEF Step
  <2>9. \A k \in Relays :
          /\ step'[k] = "idle" <=> batch'[k] = {}
          /\ locked'[k] = IF step'[k] = "claimed" THEN {b.id : b \in batch'[k]} ELSE {}
    <3>1. ASSUME NEW k \in Relays \ {i}
          PROVE  batch'[k] = batch[k] /\ step'[k] = step[k] /\ locked'[k] = locked[k]
      BY <2>1, <2>6, <2>7
    <3>2. batch'[i] = claimed /\ step'[i] = "claimed" /\ locked'[i] = ids
      BY <2>1, <2>4, <2>6, <2>7
    <3> QED BY <2>3, <3>1, <3>2
  <2>10. TypeOK'
    BY <2>7, <2>8, <2>9
  <2>11. /\ \A k \in Relays \ {i} : batch'[k] = batch[k] /\ step'[k] = step[k]
         /\ batch'[i] = claimed /\ step'[i] = "claimed"
    BY <2>6, <2>7
  <2> HIDE DEF RelayInv, TypeOK
  <2> QED BY <2>5, <2>7, <2>10, <2>11, ProcessSteps
<1>2. CASE EndClaim(i)
  <2>1. /\ step[i] = "claimed" /\ locked' = [locked EXCEPT ![i] = {}]
        /\ step' = [step EXCEPT ![i] = "dispatch"]
        /\ UNCHANGED <<row, phase, batch, running, published, handled, stops, errors>>
    BY <1>2 DEF EndClaim
  <2>2. TypeOK'
    BY <2>1 DEF Step
  <2>3. \A b \in batch'[i] : b.attempts < MaxAttempts /\ row[b.id].stored
    BY <2>1 DEF BatchEligible
  <2>4. step'[i] = "dispatch" /\ \A k \in Relays \ {i} : batch'[k] = batch[k] /\ step'[k] = step[k]
    BY <2>1
  <2> HIDE DEF RelayInv, TypeOK
  <2> QED BY <2>1, <2>2, <2>3, <2>4, ProcessSteps
<1>3. CASE SkipUnknown(i)
  <2>1. step[i] = "dispatch" /\ batch[i] # {}
    BY <1>3 DEF SkipUnknown, AtHead
  <2> QED BY <1>3, <2>1, CountSteps DEF SkipUnknown, Knows
<1>4. CASE Publish(i)
  <2>1. /\ step[i] = "dispatch" /\ batch[i] # {} /\ Head(i).id \in Rows
        /\ Head(i).id \in Known /\ batch' = batch /\ row' = row
        /\ published' = [published EXCEPT ![Head(i).id] = @ + 1]
        /\ step' = [step EXCEPT ![i] = "mark"]
    BY <1>4, HeadTyped DEF Publish, AtHead, Knows
  <2>2. running' \in [Relays -> [Rows -> Nat]]
    <3>1. running' = [running EXCEPT ![i][Head(i).id] = @ + 1] \/ running' = running
      BY <1>4 DEF Publish
    <3>2. running[i][Head(i).id] + 1 \in Nat
      BY <2>1
    <3> QED BY <2>1, <3>1, <3>2
  <2>3. TypeOK'
    BY <1>4, <2>1, <2>2 DEF Publish, Step
  <2>4. MarksPublished'
    BY <2>1, HeadKept DEF MarksPublished
  <2>5. BatchEligible' /\ AttemptsBounded'
    BY <2>1 DEF BatchEligible, AttemptsBounded
  <2>6. ProcessedWasPublished'
    BY <2>1 DEF ProcessedWasPublished
  <2> QED BY <2>3, <2>4, <2>5, <2>6
<1>5. CASE Mark(i)
  <2>1. step[i] = "mark" /\ batch[i] # {}
    BY <1>5 DEF Mark, AtHead
  <2> QED BY <1>5, <2>1, CountSteps DEF Mark
<1>6. CASE RecordFailure(i)
  <2>1. step[i] = "catch" /\ batch[i] # {} /\ errors' \in Nat
    BY <1>6 DEF RecordFailure, AtHead
  <2> QED BY <1>6, <2>1, CountSteps DEF RecordFailure
<1> QED BY <1>1, <1>2, <1>3, <1>4, <1>5, <1>6 DEF Tick

\* The steps of an instance outside of its ticks.
LEMMA LifeKeepsInv ==
    ASSUME RelayInv, NEW i \in Relays,
           Boot(i) \/ DrainOver(i) \/ Close(i) \/ Exit(i) \/ Crash(i) \/ Throw(i)
    PROVE  RelayInv'
<1> USE DEF RelayInv, TypeOK
<1>1. CASE Boot(i) \/ DrainOver(i) \/ Close(i)
  <2>1. UNCHANGED <<row, locked, step, batch, running, published, handled>>
    BY <1>1 DEF Boot, DrainOver, Close
  <2>2. phase' \in [Relays -> Phase]
    <3>1. CASE Boot(i)
      BY <3>1 DEF Boot, Phase
    <3>2. CASE DrainOver(i)
      BY <3>2 DEF DrainOver, Phase
    <3>3. CASE Close(i)
      BY <3>3 DEF Close, Phase
    <3> QED BY <1>1, <3>1, <3>2, <3>3
  <2>3. stops' \in Nat /\ errors' \in Nat
    BY <1>1 DEF Boot, DrainOver, Close
  <2>4. TypeOK'
    BY <2>1, <2>2, <2>3
  <2> QED BY <2>1, <2>4, ProcessSteps DEF BatchEligible
<1>2. CASE Exit(i) \/ Crash(i)
  <2>1. Gone(i) /\ stops' \in Nat
    BY <1>2 DEF Exit, Crash
  <2>2. running' \in [Relays -> [Rows -> Nat]]
    BY <2>1 DEF Gone
  <2>3. TypeOK'
    BY <2>1, <2>2 DEF Gone, Phase, Step
  <2>4. /\ row' = row /\ published' = published /\ batch'[i] = {} /\ step'[i] = "idle"
        /\ \A k \in Relays \ {i} : batch'[k] = batch[k] /\ step'[k] = step[k]
    BY <2>1 DEF Gone
  <2> HIDE DEF RelayInv, TypeOK
  <2> QED BY <2>3, <2>4, ProcessSteps
<1>3. CASE Throw(i)
  <2>1. /\ step[i] \in {"dispatch", "mark"} /\ errors' \in Nat
        /\ step' = [step EXCEPT ![i] = "catch"]
        /\ UNCHANGED <<row, locked, phase, batch, running, published, handled, stops>>
    BY <1>3 DEF Throw, AtHead
  <2>2. TypeOK'
    BY <2>1 DEF Step
  <2> QED BY <2>1, <2>2, ProcessSteps DEF BatchEligible
<1> QED BY <1>1, <1>2, <1>3

LEMMA HandlerKeepsInv ==
    ASSUME RelayInv, NEW i \in Relays, NEW e \in Rows, HandlerEnds(i, e)
    PROVE  RelayInv'
<1> USE DEF RelayInv, TypeOK
<1>1. running' \in [Relays -> [Rows -> Nat]] /\ handled' \subseteq Rows
  <2>1. running[i][e] - 1 \in Nat /\ running' = [running EXCEPT ![i][e] = @ - 1]
    BY DEF HandlerEnds
  <2>2. handled' \subseteq Rows
    BY DEF HandlerEnds
  <2> QED BY <2>1, <2>2
<1>2. UNCHANGED <<row, locked, phase, step, batch, published, stops, errors>>
  BY DEF HandlerEnds
<1>3. TypeOK'
  BY <1>1, <1>2
<1> QED BY <1>2, <1>3, ProcessSteps DEF BatchEligible

LEMMA AppendKeepsInv ==
    ASSUME RelayInv, NEW e \in Rows, Append(e)
    PROVE  RelayInv'
<1> USE DEF RelayInv, TypeOK
<1>1. /\ row' = [row EXCEPT ![e].stored = TRUE]
      /\ UNCHANGED <<locked, phase, step, batch, running, published, handled, stops, errors>>
  BY DEF Append
<1>2. /\ row' \in [Rows -> [stored : BOOLEAN, processed : BOOLEAN, attempts : Nat]]
      /\ \A f \in Rows : /\ row[f].stored => row'[f].stored
                         /\ row'[f].processed = row[f].processed
                         /\ row'[f].attempts = row[f].attempts
  BY <1>1
<1>3. TypeOK'
  BY <1>1, <1>2
<1>4. BatchEligible'
  <2>1. \A k \in Relays : batch'[k] = batch[k] /\ batch[k] \subseteq Claimed
    BY <1>1
  <2> QED BY <1>2, <2>1 DEF BatchEligible, Claimed
<1>5. MarksPublished'
  BY <1>1, HeadKept DEF MarksPublished
<1>6. AttemptsBounded' /\ ProcessedWasPublished'
  BY <1>1, <1>2 DEF AttemptsBounded, ProcessedWasPublished
<1> QED BY <1>3, <1>4, <1>5, <1>6

LEMMA InitInv == Init => RelayInv
<1> SUFFICES ASSUME Init PROVE RelayInv
  OBVIOUS
<1>1. TypeOK
  BY DEF Init, TypeOK, Phase, Step
<1>2. BatchEligible /\ MarksPublished
  BY DEF Init, BatchEligible, MarksPublished
<1>3. AttemptsBounded /\ ProcessedWasPublished
  BY RelayAssumption DEF Init, AttemptsBounded, ProcessedWasPublished
<1> QED BY <1>1, <1>2, <1>3 DEF RelayInv

LEMMA NextInv == RelayInv /\ [Next]_vars => RelayInv'
<1> SUFFICES ASSUME RelayInv, [Next]_vars PROVE RelayInv'
  OBVIOUS
<1>1. CASE UNCHANGED vars
  <2>1. TypeOK' /\ BatchEligible' /\ AttemptsBounded' /\ ProcessedWasPublished'
    BY <1>1 DEF vars, RelayInv, TypeOK, BatchEligible, AttemptsBounded, ProcessedWasPublished
  <2>2. MarksPublished'
    BY <1>1, HeadKept DEF vars, RelayInv, MarksPublished
  <2> QED BY <2>1, <2>2 DEF RelayInv
<1>2. ASSUME NEW e \in Rows, Append(e) PROVE RelayInv'
  BY <1>2, AppendKeepsInv
<1>3. ASSUME NEW i \in Relays,
             Boot(i) \/ DrainOver(i) \/ Close(i) \/ Exit(i) \/ Crash(i) \/ Throw(i)
      PROVE  RelayInv'
  BY <1>3, LifeKeepsInv
<1>4. ASSUME NEW i \in Relays, Tick(i) PROVE RelayInv'
  BY <1>4, TickKeepsInv
<1>5. ASSUME NEW i \in Relays, NEW e \in Rows, HandlerEnds(i, e) PROVE RelayInv'
  BY <1>5, HandlerKeepsInv
<1> QED BY <1>1, <1>2, <1>3, <1>4, <1>5 DEF Next

LEMMA RelayInvHolds == Spec => []RelayInv
<1> QED BY InitInv, NextInv, PTL DEF Spec

\* However many instances share the table, and however stale the counts they write,
\* no row is counted as tried more often than OUTBOX_MAX_ATTEMPTS.
THEOREM AttemptsWithinLimit == Spec => []AttemptsBounded
<1>1. RelayInv => AttemptsBounded
  BY DEF RelayInv
<1> QED BY <1>1, RelayInvHolds, PTL

\* No crash, failing statement or other instance makes a row processed whose event
\* was never handed to the bus.
THEOREM ProcessedOnlyAfterPublish == Spec => []ProcessedWasPublished
<1>1. RelayInv => ProcessedWasPublished
  BY DEF RelayInv
<1> QED BY <1>1, RelayInvHolds, PTL

\* Every variable of the relay keeps its type, and an instance is between ticks
\* exactly when it holds no row.
THEOREM RelayTypeCorrect == Spec => []TypeOK
<1>1. RelayInv => TypeOK
  BY DEF RelayInv
<1> QED BY <1>1, RelayInvHolds, PTL

-----------------------------------------------------------------------------
(* The outbox implements EventDelivery *)

\* A handler runs only for an event that was published.
RunsPublished ==
    \A i \in Relays, e \in Rows : running[i][e] > 0 => published[e] > 0

\* Handlers only start where a publication is counted.
LEMMA RunsPublishedNext == RelayInv /\ RunsPublished /\ [Next]_vars => RunsPublished'
<1> SUFFICES ASSUME RelayInv, RunsPublished, [Next]_vars PROVE RunsPublished'
  OBVIOUS
<1> USE DEF RelayInv, TypeOK, RunsPublished
<1>1. CASE running' = running /\ published' = published
  BY <1>1
<1>2. ASSUME NEW i \in Relays, Publish(i) PROVE RunsPublished'
  <2>1. batch[i] # {} /\ Head(i).id \in Rows
    BY <1>2, HeadTyped DEF Publish, AtHead
  <2>2. /\ published' = [published EXCEPT ![Head(i).id] = @ + 1]
        /\ running' = [running EXCEPT ![i][Head(i).id] = @ + 1] \/ running' = running
    BY <1>2 DEF Publish
  <2>3. ASSUME NEW k \in Relays, NEW e \in Rows, running'[k][e] > 0 PROVE published'[e] > 0
    <3>1. CASE e = Head(i).id
      BY <2>1, <2>2, <3>1
    <3>2. CASE e # Head(i).id
      <4>1. published'[e] = published[e]
        BY <2>2, <3>2
      <4>2. CASE running' = running
        BY <2>3, <4>1, <4>2
      <4>3. CASE running' = [running EXCEPT ![i][Head(i).id] = @ + 1]
        <5>1. running'[k][e] = running[k][e]
          BY <3>2, <4>3
        <5> QED BY <2>3, <4>1, <5>1
      <4> QED BY <2>2, <4>2, <4>3
    <3> QED BY <3>1, <3>2
  <2> QED BY <2>3
<1>3. ASSUME NEW i \in Relays, Gone(i) PROVE RunsPublished'
  BY <1>3 DEF Gone
<1>4. ASSUME NEW i \in Relays, NEW f \in Rows, HandlerEnds(i, f) PROVE RunsPublished'
  <2>1. /\ running[i][f] > 0 /\ published' = published
        /\ running' = [running EXCEPT ![i][f] = @ - 1]
    BY <1>4 DEF HandlerEnds
  <2>2. ASSUME NEW k \in Relays, NEW e \in Rows, running'[k][e] > 0 PROVE running[k][e] > 0
    BY <2>1, <2>2
  <2> QED BY <2>1, <2>2
<1>5. ASSUME NEW i \in Relays,
             \/ Boot(i) \/ DrainOver(i) \/ Close(i) \/ Throw(i) \/ Claim(i) \/ EndClaim(i)
             \/ SkipUnknown(i) \/ Mark(i) \/ RecordFailure(i)
      PROVE  running' = running /\ published' = published
  BY <1>5 DEF Boot, DrainOver, Close, Throw, Claim, EndClaim, SkipUnknown, Mark, RecordFailure
<1>6. ASSUME NEW e \in Rows, Append(e) PROVE running' = running /\ published' = published
  BY <1>6 DEF Append
<1>7. CASE UNCHANGED vars
  BY <1>1, <1>7 DEF vars
<1> HIDE DEF RelayInv, TypeOK, RunsPublished
<1> QED BY <1>1, <1>2, <1>3, <1>4, <1>5, <1>6, <1>7 DEF Next, Tick, Exit, Crash

\* The step that counts an attempt retires at most the row it has published.
LEMMA CountMaps ==
    ASSUME RelayInv, NEW i \in Relays, batch[i] # {}, published' = published, handled' = handled,
           \/ row' = row
           \/ row' = Counted(Head(i))
           \/ step[i] = "mark" /\ row' = [Counted(Head(i)) EXCEPT ![Head(i).id].processed = TRUE]
    PROVE  [Delivery!Next]_(Delivery!vars)
<1> DEFINE h == Head(i).id
<1>1. h \in Rows /\ row[h].stored
  BY HeadTyped
<1>2. row \in [Rows -> [stored : BOOLEAN, processed : BOOLEAN, attempts : Nat]]
  BY DEF RelayInv, TypeOK
<1>3. step[i] = "mark" => published[h] > 0
  BY DEF RelayInv, MarksPublished
<1>4. \A e \in Rows : Counted(Head(i))[e].stored = row[e].stored
                     /\ Counted(Head(i))[e].processed = row[e].processed
  BY <1>1, <1>2 DEF Counted
<1>5. Counted(Head(i)) \in [Rows -> [stored : BOOLEAN, processed : BOOLEAN, attempts : Nat]]
  BY <1>1, <1>2, HeadTyped DEF Counted
<1>6. {e \in Rows : row'[e].stored} = {e \in Rows : row[e].stored}
  BY <1>1, <1>4, <1>5
<1>7. {e \in Rows : published'[e] > 0} = {e \in Rows : published[e] > 0}
  OBVIOUS
<1>8. CASE row' = row \/ row' = Counted(Head(i))
  <2>1. {e \in Rows : row'[e].processed} = {e \in Rows : row[e].processed}
    BY <1>4, <1>8
  <2> QED BY <1>6, <1>7, <2>1 DEF Delivery!vars
<1>9. CASE step[i] = "mark" /\ row' = [Counted(Head(i)) EXCEPT ![h].processed = TRUE]
  <2>1. {e \in Rows : row'[e].processed} = {e \in Rows : row[e].processed} \cup {h}
    BY <1>1, <1>4, <1>5, <1>9
  <2>2. h \in {e \in Rows : published[e] > 0}
    BY <1>1, <1>3, <1>9
  <2>3. PICK e \in Rows : e = h
    BY <1>1
  <2>4. Delivery!Retire(e)
    BY <1>6, <1>7, <2>1, <2>2, <2>3 DEF Delivery!Retire
  <2>5. Delivery!Next
    BY <2>4 DEF Delivery!Next
  <2> QED BY <2>5
<1> QED BY <1>8, <1>9

LEMMA DeliveryStep ==
    ASSUME RelayInv, RunsPublished, [Next]_vars
    PROVE  [Delivery!Next]_(Delivery!vars)
<1> USE DEF RelayInv, TypeOK
<1>1. CASE row' = row /\ published' = published /\ handled' = handled
  BY <1>1 DEF Delivery!vars
<1>2. ASSUME NEW e \in Rows, Append(e) PROVE Delivery!Store(e)
  <2>1. /\ row' = [row EXCEPT ![e].stored = TRUE]
        /\ published' = published /\ handled' = handled
    BY <1>2 DEF Append
  <2>2. {f \in Rows : row'[f].stored} = {f \in Rows : row[f].stored} \cup {e}
    BY <2>1
  <2>3. {f \in Rows : row'[f].processed} = {f \in Rows : row[f].processed}
    BY <2>1
  <2> QED BY <2>1, <2>2, <2>3 DEF Delivery!Store
<1>3. ASSUME NEW i \in Relays, Publish(i) PROVE Delivery!Next
  <2>1. batch[i] # {} /\ Head(i).id \in Rows /\ row[Head(i).id].stored
    BY <1>3, HeadTyped DEF Publish, AtHead
  <2>2. /\ published' = [published EXCEPT ![Head(i).id] = @ + 1]
        /\ row' = row /\ handled' = handled /\ Head(i).id \in Known
    BY <1>3 DEF Publish, Knows
  <2>3. PICK e \in Rows : e = Head(i).id
    BY <2>1
  <2>4. {f \in Rows : published'[f] > 0} = {f \in Rows : published[f] > 0} \cup {e}
    BY <2>2, <2>3
  <2>5. Delivery!Send(e)
    BY <2>1, <2>2, <2>3, <2>4 DEF Delivery!Send
  <2> QED BY <2>5 DEF Delivery!Next
<1>4. ASSUME NEW i \in Relays, NEW e \in Rows, HandlerEnds(i, e)
      PROVE  [Delivery!Next]_(Delivery!vars)
  <2>1. /\ published[e] > 0 /\ row' = row /\ published' = published
        /\ handled' = handled \cup {e} \/ handled' = handled
    BY <1>4 DEF HandlerEnds, RunsPublished
  <2>2. CASE handled' = handled \cup {e}
    <3>1. Delivery!Handle(e)
      BY <2>1, <2>2 DEF Delivery!Handle
    <3> QED BY <3>1 DEF Delivery!Next
  <2> QED BY <1>1, <2>1, <2>2
<1>5. ASSUME NEW i \in Relays, SkipUnknown(i) \/ Mark(i) \/ RecordFailure(i)
      PROVE  [Delivery!Next]_(Delivery!vars)
  <2>1. batch[i] # {} /\ published' = published /\ handled' = handled
    BY <1>5 DEF SkipUnknown, Mark, RecordFailure, AtHead
  <2>2. \/ row' = row
        \/ row' = Counted(Head(i))
        \/ step[i] = "mark" /\ row' = [Counted(Head(i)) EXCEPT ![Head(i).id].processed = TRUE]
    BY <1>5 DEF SkipUnknown, Mark, RecordFailure, AtHead
  <2> HIDE DEF RelayInv, TypeOK
  <2> QED BY <2>1, <2>2, CountMaps
<1>6. ASSUME NEW i \in Relays,
             \/ Boot(i) \/ DrainOver(i) \/ Close(i) \/ Throw(i) \/ Claim(i) \/ EndClaim(i)
             \/ Gone(i)
      PROVE  row' = row /\ published' = published /\ handled' = handled
  BY <1>6 DEF Boot, DrainOver, Close, Throw, Claim, EndClaim, Gone
<1>7. CASE UNCHANGED vars
  BY <1>1, <1>7 DEF vars
<1> HIDE DEF RelayInv, TypeOK
<1>8. ASSUME NEW e \in Rows, Append(e) PROVE [Delivery!Next]_(Delivery!vars)
  BY <1>2, <1>8 DEF Delivery!Next
<1>9. ASSUME NEW i \in Relays, Publish(i) PROVE [Delivery!Next]_(Delivery!vars)
  BY <1>3, <1>9
<1>10. ASSUME NEW i \in Relays,
              Boot(i) \/ DrainOver(i) \/ Close(i) \/ Exit(i) \/ Crash(i) \/ Throw(i)
       PROVE  [Delivery!Next]_(Delivery!vars)
  <2>1. row' = row /\ published' = published /\ handled' = handled
    BY <1>6, <1>10 DEF Exit, Crash
  <2> QED BY <1>1, <2>1
<1>11. ASSUME NEW i \in Relays, Tick(i) PROVE [Delivery!Next]_(Delivery!vars)
  <2>1. CASE Claim(i) \/ EndClaim(i)
    <3>1. row' = row /\ published' = published /\ handled' = handled
      BY <1>6, <2>1
    <3> QED BY <1>1, <3>1
  <2> QED BY <1>5, <1>9, <1>11, <2>1 DEF Tick
<1> QED BY <1>4, <1>7, <1>8, <1>10, <1>11 DEF Next

LEMMA DeliveryInit == Init => Delivery!Init /\ RunsPublished
BY DEF Init, Delivery!Init, RunsPublished

\* However many instances share the table, whatever stops, fails or is published
\* again: the outbox is an EventDelivery.  Only stored events of a known name are
\* published, only published ones are marked or handled, and a mark is final.
THEOREM OutboxDelivers == Spec => ImplementsDelivery
<1>1. RelayInv /\ RunsPublished /\ [Next]_vars => [Delivery!Next]_(Delivery!vars)
  BY DeliveryStep
<1> QED BY <1>1, DeliveryInit, RunsPublishedNext, RelayInvHolds, PTL
       DEF Spec, ImplementsDelivery, Delivery!Spec

-----------------------------------------------------------------------------
(* While no process stops, what was published is handled *)

\* Either a handler of the event returned or one is running.
Served(e) == e \in handled \/ \E i \in Relays : running[i][e] > 0

\* What HandledUnlessStopped says of the processed events holds of all that were
\* published, and no process is on its way out: its handlers would go with it.
ServedInv ==
    BusFirst /\ stops = 0 =>
        /\ \A i \in Relays : phase[i] \notin {"closing", "closed"}
        /\ \A e \in Rows \ MayThrow : published[e] > 0 => Served(e)

\* What was served stays so as long as handlers are only started.
LEMMA ServedKept ==
    ASSUME NEW e \in Rows, Served(e), handled \subseteq handled',
           \A i \in Relays : running[i][e] > 0 => running'[i][e] > 0
    PROVE  Served(e)'
BY DEF Served

LEMMA ServedFrame ==
    ASSUME ServedInv, published' = published, handled' = handled, running' = running,
           stops' = stops, \A i \in Relays : phase'[i] \in {phase[i], "bootstrap", "polling"}
    PROVE  ServedInv'
<1>1. \A e \in Rows : Served(e) => Served(e)'
  BY ServedKept
<1> QED BY <1>1 DEF ServedInv

LEMMA ServedNext == RelayInv /\ ServedInv /\ [Next]_vars => ServedInv'
<1> SUFFICES ASSUME RelayInv, ServedInv, [Next]_vars PROVE ServedInv'
  OBVIOUS
<1>1. CASE UNCHANGED vars
  BY <1>1, ServedFrame DEF vars
<1>2. ASSUME NEW e \in Rows, Append(e) PROVE ServedInv'
  BY <1>2, ServedFrame DEF Append
<1>3. ASSUME NEW i \in Relays, Boot(i) \/ DrainOver(i) PROVE ServedInv'
  <2>1. CASE BusFirst /\ stops = 0
    <3>1. phase[i] # "closing" /\ phase \in [Relays -> Phase]
      BY <2>1 DEF ServedInv, RelayInv, TypeOK
    <3>2. /\ \A k \in Relays : phase'[k] \in {phase[k], "bootstrap", "polling"}
          /\ UNCHANGED <<running, published, handled, stops>>
      BY <1>3, <3>1 DEF Boot, DrainOver
    <3> QED BY <3>2, ServedFrame
  <2>2. CASE ~ (BusFirst /\ stops = 0)
    BY <1>3, <2>2 DEF Boot, DrainOver, ServedInv
  <2> QED BY <2>1, <2>2
<1>4. ASSUME NEW i \in Relays, Close(i) \/ Crash(i) PROVE ServedInv'
  <2>1. stops \in Nat /\ stops' = stops + 1
    BY <1>4 DEF Close, Crash, RelayInv, TypeOK
  <2> QED BY <2>1 DEF ServedInv
<1>5. ASSUME NEW i \in Relays, Exit(i) PROVE ServedInv'
  BY <1>5 DEF Exit, ServedInv
<1>6. ASSUME NEW i \in Relays,
             \/ Throw(i) \/ Claim(i) \/ EndClaim(i) \/ SkipUnknown(i) \/ Mark(i)
             \/ RecordFailure(i)
      PROVE  ServedInv'
  <2>1. UNCHANGED <<phase, running, published, handled, stops>>
    BY <1>6 DEF Throw, Claim, EndClaim, SkipUnknown, Mark, RecordFailure
  <2> QED BY <2>1, ServedFrame
<1>7. ASSUME NEW i \in Relays, Publish(i) PROVE ServedInv'
  <2> DEFINE h == Head(i).id
  <2>1. h \in Rows
    BY <1>7, HeadTyped DEF Publish, AtHead
  <2>2. /\ published' = [published EXCEPT ![h] = @ + 1]
        /\ UNCHANGED <<phase, handled, stops>>
        /\ BusFirst => running' = [running EXCEPT ![i][h] = @ + 1]
    BY <1>7 DEF Publish, Listening
  <2> HIDE DEF h
  <2>3. /\ running \in [Relays -> [Rows -> Nat]] /\ published \in [Rows -> Nat]
    BY DEF RelayInv, TypeOK
  <2>4. ASSUME BusFirst, NEW e \in Rows, e = h \/ Served(e) PROVE Served(e)'
    <3>1. /\ running'[i][h] > 0
          /\ \A k \in Relays : running[k][e] > 0 => running'[k][e] > 0
      BY <2>1, <2>2, <2>3, <2>4
    <3> QED BY <2>2, <2>4, <3>1 DEF Served
  <2>5. \A e \in Rows : published'[e] > 0 => e = h \/ published[e] > 0
    BY <2>2, <2>3
  <2> QED BY <2>2, <2>4, <2>5 DEF ServedInv
<1>8. ASSUME NEW i \in Relays, NEW f \in Rows, HandlerEnds(i, f) PROVE ServedInv'
  <2>1. /\ UNCHANGED <<phase, published, stops>>
        /\ running' = [running EXCEPT ![i][f] = @ - 1]
        /\ handled' = handled \cup {f} \/ (f \in MayThrow /\ handled' = handled)
    BY <1>8 DEF HandlerEnds
  <2>2. running \in [Relays -> [Rows -> Nat]]
    BY DEF RelayInv, TypeOK
  <2>3. ASSUME NEW e \in Rows \ MayThrow, Served(e) PROVE Served(e)'
    <3>1. CASE e = f
      BY <2>1, <2>3, <3>1 DEF Served
    <3>2. CASE e # f
      <4>1. \A k \in Relays : running'[k][e] = running[k][e]
        BY <2>1, <2>2, <3>2
      <4> QED BY <2>1, <2>3, <4>1, ServedKept
    <3> QED BY <3>1, <3>2
  <2> QED BY <2>1, <2>3 DEF ServedInv
<1> QED BY <1>1, <1>2, <1>3, <1>4, <1>5, <1>6, <1>7, <1>8 DEF Next, Tick

\* While no process stops, every event whose handler does not throw is handled once
\* its row is marked, or its handler is running: with any number of instances and
\* whatever statement fails, if the handlers are on the bus before the first drain.
THEOREM MarkedIsHandled == Spec => []HandledUnlessStopped
<1>1. Init => ServedInv
  BY DEF Init, ServedInv
<1>2. RelayInv /\ ServedInv => HandledUnlessStopped
  BY DEF RelayInv, ServedInv, Served, ProcessedWasPublished, HandledUnlessStopped
<1> QED BY <1>1, <1>2, ServedNext, RelayInvHolds, PTL DEF Spec

-----------------------------------------------------------------------------
(* A single instance: publications beyond the counted attempts *)

OneInstance == \E i : Relays = {i}

\* Is instance i marking, or failing, event e; has it begun to close.
Holds(i, e) == step[i] \in {"mark", "catch"} /\ Head(i).id = e
HoldsOne(i, e) == IF Holds(i, e) THEN 1 ELSE 0
LeavingOne(i) == IF phase[i] \in {"closing", "closed"} THEN 1 ELSE 0

\* Nobody else counts attempts: the rows are as the instance read them.
BatchCurrent == \A i \in Relays : \A b \in batch[i] : b.attempts = row[b.id].attempts

\* An instance that closes has used up one of the stops, which is what allows it to
\* exit in the middle of a row.
AloneExplained ==
    \A i \in Relays, e \in Rows :
        published[e] + LeavingOne(i) <= row[e].attempts + HoldsOne(i, e) + stops + errors

AloneInv == BatchCurrent /\ AloneExplained

\* The steps that leave the table and the publications alone: what the instance lets
\* go of is paid for by a stop or an error.
LEMMA AloneFrame ==
    ASSUME RelayInv, RelayInv', AloneInv, row' = row, published' = published,
           \A i \in Relays : \A b \in batch'[i] : b.attempts = row[b.id].attempts,
           \A i \in Relays, e \in Rows :
             LeavingOne(i)' + HoldsOne(i, e) + stops + errors
               <= LeavingOne(i) + HoldsOne(i, e)' + stops' + errors'
    PROVE  AloneInv'
<1>1. BatchCurrent'
  BY DEF BatchCurrent
<1>2. ASSUME NEW i \in Relays, NEW e \in Rows
      PROVE  published'[e] + LeavingOne(i)'
               <= row'[e].attempts + HoldsOne(i, e)' + stops' + errors'
  <2>1. /\ published[e] \in Nat /\ row[e].attempts \in Nat
        /\ stops \in Nat /\ errors \in Nat /\ stops' \in Nat /\ errors' \in Nat
    BY DEF RelayInv, TypeOK
  <2>2. /\ LeavingOne(i) \in {0, 1} /\ LeavingOne(i)' \in {0, 1}
        /\ HoldsOne(i, e) \in {0, 1} /\ HoldsOne(i, e)' \in {0, 1}
    BY DEF LeavingOne, HoldsOne
  <2>3. published[e] + LeavingOne(i) <= row[e].attempts + HoldsOne(i, e) + stops + errors
    BY DEF AloneInv, AloneExplained
  <2>4. LeavingOne(i)' + HoldsOne(i, e) + stops + errors
          <= LeavingOne(i) + HoldsOne(i, e)' + stops' + errors'
    OBVIOUS
  <2> QED BY <2>1, <2>2, <2>3, <2>4
<1> QED BY <1>1, <1>2 DEF AloneInv, AloneExplained

\* The steps of an instance between its ticks.
LEMMA LifeKeepsAlone ==
    ASSUME RelayInv, RelayInv', AloneInv, NEW i \in Relays, Relays = {i},
           Boot(i) \/ DrainOver(i) \/ Close(i) \/ Exit(i) \/ Crash(i) \/ Throw(i)
    PROVE  AloneInv'
<1> USE DEF RelayInv, TypeOK
<1>1. /\ row' = row /\ published' = published
      /\ \A k \in Relays : batch'[k] \subseteq batch[k]
  BY DEF Boot, DrainOver, Close, Exit, Crash, Gone, Throw
<1>2. \A k \in Relays : \A b \in batch'[k] : b.attempts = row[b.id].attempts
  BY <1>1 DEF AloneInv, BatchCurrent
<1>3. ASSUME NEW e \in Rows
      PROVE  LeavingOne(i)' + HoldsOne(i, e) + stops + errors
               <= LeavingOne(i) + HoldsOne(i, e)' + stops' + errors'
  <2>0. /\ HoldsOne(i, e) \in {0, 1} /\ HoldsOne(i, e)' \in {0, 1}
        /\ LeavingOne(i) \in {0, 1} /\ LeavingOne(i)' \in {0, 1}
        /\ stops \in Nat /\ errors \in Nat
    BY DEF HoldsOne, LeavingOne
  <2>1. CASE Boot(i) \/ DrainOver(i)
    <3>1. /\ step' = step /\ batch' = batch /\ stops' = stops
          /\ errors' = errors \/ errors' = errors + 1
          /\ LeavingOne(i)' <= LeavingOne(i)
      BY <2>1 DEF Boot, DrainOver, LeavingOne
    <3>2. HoldsOne(i, e)' = HoldsOne(i, e)
      BY <3>1, HeadKept DEF HoldsOne, Holds
    <3> QED BY <2>0, <3>1, <3>2
  <2>2. CASE Close(i)
    <3>1. step' = step /\ batch' = batch /\ stops' = stops + 1 /\ errors' = errors
      BY <2>2 DEF Close
    <3>2. HoldsOne(i, e)' = HoldsOne(i, e)
      BY <3>1, HeadKept DEF HoldsOne, Holds
    <3> QED BY <2>0, <3>1, <3>2
  <2>3. CASE Exit(i) \/ Crash(i)
    <3>1. /\ phase'[i] = "down" /\ step'[i] = "idle" /\ errors' = errors
          /\ \/ stops' = stops /\ LeavingOne(i) = 1
             \/ stops' = stops + 1
      BY <2>3 DEF Exit, Crash, Gone, LeavingOne
    <3>2. LeavingOne(i)' = 0 /\ HoldsOne(i, e)' = 0
      BY <3>1 DEF LeavingOne, HoldsOne, Holds
    <3> QED BY <2>0, <3>1, <3>2
  <2>4. CASE Throw(i)
    <3>1. /\ step'[i] = "catch" /\ batch' = batch /\ phase' = phase
          /\ stops' = stops /\ errors' = errors + 1
      BY <2>4 DEF Throw
    <3>2. HoldsOne(i, e) <= HoldsOne(i, e)' + 1 /\ LeavingOne(i)' = LeavingOne(i)
      BY <3>1 DEF HoldsOne, LeavingOne
    <3> QED BY <2>0, <3>1, <3>2
  <2> QED BY <2>1, <2>2, <2>3, <2>4
<1> HIDE DEF RelayInv, TypeOK
<1> QED BY <1>1, <1>2, <1>3, AloneFrame

\* The steps that count an attempt: the count pays for the row that is let go.
LEMMA CountKeepsAlone ==
    ASSUME RelayInv, RelayInv', AloneInv, NEW i \in Relays, Relays = {i},
           SkipUnknown(i) \/ Mark(i) \/ RecordFailure(i)
    PROVE  AloneInv'
<1> DEFINE b == Head(i)
<1>1. batch[i] # {} /\ NextRow(i) /\ UNCHANGED <<phase, published, stops>>
  BY DEF SkipUnknown, Mark, RecordFailure, AtHead
<1>2. b \in batch[i] /\ b.id \in Rows /\ b.attempts \in Nat
  BY <1>1, HeadTyped
<1>3. b.attempts = row[b.id].attempts
  BY <1>2 DEF AloneInv, BatchCurrent
<1>4. /\ row \in [Rows -> [stored : BOOLEAN, processed : BOOLEAN, attempts : Nat]]
      /\ row' \in [Rows -> [stored : BOOLEAN, processed : BOOLEAN, attempts : Nat]]
      /\ batch \in [Relays -> SUBSET Claimed] /\ step \in [Relays -> Step]
      /\ errors \in Nat
  BY DEF RelayInv, TypeOK
<1>5. /\ batch' = [batch EXCEPT ![i] = @ \ {b}]
      /\ step'[i] \in {"idle", "dispatch"}
  BY <1>1, <1>4 DEF NextRow
<1>6. \/ row' = Counted(b) /\ errors' = errors
      \/ row' = [Counted(b) EXCEPT ![b.id].processed = TRUE] /\ errors' = errors
      \/ row' = row /\ errors' = errors + 1
  BY DEF SkipUnknown, Mark, RecordFailure
<1> HIDE DEF b
<1>7. /\ \A e \in Rows \ {b.id} : row'[e].attempts = row[e].attempts
      /\ \/ row'[b.id].attempts = row[b.id].attempts + 1 /\ errors' = errors
         \/ row'[b.id].attempts = row[b.id].attempts /\ errors' = errors + 1
  BY <1>2, <1>3, <1>4, <1>6 DEF Counted
<1>8. BatchCurrent'
  <2>1. ASSUME NEW k \in Relays, NEW c \in batch'[k] PROVE c.attempts = row'[c.id].attempts
    <3>1. k = i /\ c \in batch[i] /\ c # b /\ c \in Claimed /\ b \in Claimed
      BY <1>2, <1>4, <1>5
    <3>2. c.attempts = row[c.id].attempts
      BY <3>1 DEF AloneInv, BatchCurrent
    <3>3. c.id # b.id
      BY <1>3, <3>1, <3>2 DEF Claimed
    <3> QED BY <1>7, <3>1, <3>2, <3>3 DEF Claimed
  <2> QED BY <2>1 DEF BatchCurrent
<1>9. ASSUME NEW e \in Rows
      PROVE  published'[e] + LeavingOne(i)'
               <= row'[e].attempts + HoldsOne(i, e)' + stops' + errors'
  <2>1. /\ published[e] \in Nat /\ stops \in Nat
        /\ row[e].attempts \in Nat /\ row'[e].attempts \in Nat
    BY <1>4 DEF RelayInv, TypeOK
  <2>2. published[e] + LeavingOne(i) <= row[e].attempts + HoldsOne(i, e) + stops + errors
    BY DEF AloneInv, AloneExplained
  <2>3. LeavingOne(i) \in {0, 1} /\ LeavingOne(i)' = LeavingOne(i) /\ HoldsOne(i, e)' = 0
    BY <1>1, <1>5 DEF LeavingOne, HoldsOne, Holds
  <2>4. HoldsOne(i, e) = 0 \/ (HoldsOne(i, e) = 1 /\ e = b.id)
    BY DEF HoldsOne, Holds, b
  <2> QED BY <1>1, <1>4, <1>7, <2>1, <2>2, <2>3, <2>4
<1> QED BY <1>8, <1>9 DEF AloneInv, AloneExplained

LEMMA PublishKeepsAlone ==
    ASSUME RelayInv, RelayInv', AloneInv, NEW i \in Relays, Relays = {i}, Publish(i)
    PROVE  AloneInv'
<1> DEFINE h == Head(i).id
<1>1. /\ h \in Rows /\ step[i] = "dispatch"
      /\ published' = [published EXCEPT ![h] = @ + 1]
      /\ step' = [step EXCEPT ![i] = "mark"]
      /\ UNCHANGED <<row, phase, batch, stops, errors>>
  BY HeadTyped DEF Publish, AtHead
<1>2. Head(i)' = Head(i)
  BY <1>1, HeadKept
<1>3. BatchCurrent'
  BY <1>1 DEF AloneInv, BatchCurrent
<1>4. ASSUME NEW e \in Rows
      PROVE  published'[e] + LeavingOne(i)'
               <= row'[e].attempts + HoldsOne(i, e)' + stops' + errors'
  <2>1. /\ published \in [Rows -> Nat] /\ step \in [Relays -> Step]
        /\ row[e].attempts \in Nat /\ stops \in Nat /\ errors \in Nat
    BY DEF RelayInv, TypeOK
  <2>2. published[e] + LeavingOne(i) <= row[e].attempts + HoldsOne(i, e) + stops + errors
    BY DEF AloneInv, AloneExplained
  <2>3. LeavingOne(i) \in {0, 1} /\ LeavingOne(i)' = LeavingOne(i) /\ HoldsOne(i, e) = 0
    BY <1>1 DEF LeavingOne, HoldsOne, Holds
  <2>4. HoldsOne(i, e)' = IF h = e THEN 1 ELSE 0
    BY <1>1, <1>2, <2>1 DEF HoldsOne, Holds
  <2> HIDE DEF h
  <2> QED BY <1>1, <2>1, <2>2, <2>3, <2>4
<1> QED BY <1>3, <1>4 DEF AloneInv, AloneExplained

LEMMA ClaimKeepsAlone ==
    ASSUME RelayInv, RelayInv', AloneInv, NEW i \in Relays, Relays = {i},
           Claim(i) \/ EndClaim(i)
    PROVE  AloneInv'
<1> USE DEF RelayInv, TypeOK
<1>1. /\ UNCHANGED <<row, phase, published, stops, errors>>
      /\ step[i] \in {"idle", "claimed"} /\ step'[i] \in {"claimed", "dispatch"}
  BY DEF Claim, EndClaim
<1>2. \A b \in batch'[i] : b.attempts = row[b.id].attempts
  <2>1. CASE Claim(i)
    <3>1. \E S \in SUBSET Eligible(i) :
            batch'[i] = {[id |-> e, attempts |-> row[e].attempts] : e \in S}
      BY <2>1 DEF Claim
    <3> QED BY <3>1
  <2>2. CASE EndClaim(i)
    BY <2>2 DEF EndClaim, AloneInv, BatchCurrent
  <2> QED BY <2>1, <2>2
<1>3. ASSUME NEW e \in Rows
      PROVE  LeavingOne(i)' + HoldsOne(i, e) + stops + errors
               <= LeavingOne(i) + HoldsOne(i, e)' + stops' + errors'
  <2>1. HoldsOne(i, e) = 0 /\ HoldsOne(i, e)' = 0 /\ LeavingOne(i)' = LeavingOne(i)
    BY <1>1 DEF HoldsOne, Holds, LeavingOne
  <2> QED BY <1>1, <2>1 DEF LeavingOne
<1> HIDE DEF RelayInv, TypeOK
<1> QED BY <1>1, <1>2, <1>3, AloneFrame

LEMMA AloneNext ==
    ASSUME OneInstance, RelayInv, RelayInv', AloneInv, [Next]_vars
    PROVE  AloneInv'
<1>1. PICK i : Relays = {i}
  BY DEF OneInstance
<1>2. i \in Relays
  BY <1>1
<1>3. CASE UNCHANGED vars \/ \E k \in Relays, e \in Rows : HandlerEnds(k, e)
  <2>1. UNCHANGED <<row, phase, step, batch, published, stops, errors>>
    BY <1>3 DEF vars, HandlerEnds
  <2>2. \A k \in Relays, e \in Rows :
          LeavingOne(k)' = LeavingOne(k) /\ HoldsOne(k, e)' = HoldsOne(k, e)
    BY <2>1, HeadKept DEF LeavingOne, HoldsOne, Holds
  <2>3. \A k \in Relays : \A b \in batch'[k] : b.attempts = row[b.id].attempts
    BY <2>1 DEF AloneInv, BatchCurrent
  <2>4. stops \in Nat /\ errors \in Nat
    BY DEF RelayInv, TypeOK
  <2>5. \A k \in Relays, e \in Rows : LeavingOne(k) \in {0, 1} /\ HoldsOne(k, e) \in {0, 1}
    BY DEF LeavingOne, HoldsOne
  <2> QED BY <2>1, <2>2, <2>3, <2>4, <2>5, AloneFrame
<1>4. ASSUME NEW e \in Rows, Append(e) PROVE AloneInv'
  <2>1. /\ row' = [row EXCEPT ![e].stored = TRUE]
        /\ UNCHANGED <<phase, step, batch, published, stops, errors>>
    BY <1>4 DEF Append
  <2>2. row \in [Rows -> [stored : BOOLEAN, processed : BOOLEAN, attempts : Nat]]
        /\ batch \in [Relays -> SUBSET Claimed]
    BY DEF RelayInv, TypeOK
  <2>3. \A f \in Rows : row'[f].attempts = row[f].attempts
    BY <2>1, <2>2
  <2>4. \A k \in Relays, f \in Rows :
          LeavingOne(k)' = LeavingOne(k) /\ HoldsOne(k, f)' = HoldsOne(k, f)
    BY <2>1, HeadKept DEF LeavingOne, HoldsOne, Holds
  <2>5. BatchCurrent'
    BY <2>1, <2>2, <2>3 DEF AloneInv, BatchCurrent, Claimed
  <2>6. AloneExplained'
    BY <2>1, <2>3, <2>4 DEF AloneInv, AloneExplained
  <2> QED BY <2>5, <2>6 DEF AloneInv
<1>5. CASE Boot(i) \/ DrainOver(i) \/ Close(i) \/ Exit(i) \/ Crash(i) \/ Throw(i)
  BY <1>1, <1>2, <1>5, LifeKeepsAlone
<1>6. CASE Tick(i)
  BY <1>1, <1>2, <1>6, CountKeepsAlone, PublishKeepsAlone, ClaimKeepsAlone DEF Tick
<1> QED BY <1>1, <1>3, <1>4, <1>5, <1>6 DEF Next

\* A single instance publishes an event once for each attempt it counts, and once
\* more at most for each stop and each statement that failed.  (Two instances do
\* so without either: each publishes what the other has claimed and not yet marked.)
THEOREM AloneExplainsPublications == OneInstance => (Spec => []PublicationsExplained)
<1> SUFFICES ASSUME OneInstance PROVE Spec => []PublicationsExplained
  OBVIOUS
<1>1. Init => AloneInv
  <2> SUFFICES ASSUME Init PROVE AloneInv
    OBVIOUS
  <2>1. BatchCurrent
    BY DEF Init, BatchCurrent
  <2>2. AloneExplained
    BY DEF Init, AloneExplained, LeavingOne, HoldsOne, Holds
  <2> QED BY <2>1, <2>2 DEF AloneInv
<1>2. RelayInv /\ RelayInv' /\ AloneInv /\ [Next]_vars => AloneInv'
  BY AloneNext
<1>3. RelayInv /\ AloneInv => PublicationsExplained
  <2> SUFFICES ASSUME RelayInv, AloneInv, NEW e \in Rows
               PROVE  published[e] <= row[e].attempts + InHand(e) + stops + errors
    BY DEF PublicationsExplained
  <2>1. PICK i : Relays = {i}
    BY DEF OneInstance
  <2>2. InHand(e) = HoldsOne(i, e)
    <3>1. CASE Holds(i, e)
      <4>1. {k \in Relays : step[k] \in {"mark", "catch"} /\ Head(k).id = e} = {i}
        BY <2>1, <3>1 DEF Holds
      <4> QED BY <3>1, <4>1, FS_Singleton DEF InHand, HoldsOne
    <3>2. CASE ~ Holds(i, e)
      <4>1. {k \in Relays : step[k] \in {"mark", "catch"} /\ Head(k).id = e} = {}
        BY <2>1, <3>2 DEF Holds
      <4> QED BY <3>2, <4>1, FS_EmptySet DEF InHand, HoldsOne
    <3> QED BY <3>1, <3>2
  <2>3. published[e] + LeavingOne(i) <= row[e].attempts + HoldsOne(i, e) + stops + errors
    BY <2>1 DEF AloneInv, AloneExplained
  <2>4. /\ LeavingOne(i) \in {0, 1} /\ HoldsOne(i, e) \in {0, 1}
        /\ published[e] \in Nat /\ row[e].attempts \in Nat /\ stops \in Nat /\ errors \in Nat
    BY DEF LeavingOne, HoldsOne, RelayInv, TypeOK
  <2> QED BY <2>2, <2>3, <2>4
<1> QED BY <1>1, <1>2, <1>3, RelayInvHolds, PTL DEF Spec
=============================================================================
