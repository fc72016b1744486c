--------------------------- MODULE CheckoutProofs ---------------------------
(***************************************************************************)
(* The application implements both parts it is made of: whatever the       *)
(* relays, the handlers on their buses and the processes that are killed   *)
(* do, the rows of the payment context and the orders move as PayOrder's   *)
(* steps move them, and the outbox as those of OutboxRelay.  What is       *)
(* proved of the parts holds of the application, and the two together      *)
(* tell what may become of the outcome of a payment.                       *)
(***************************************************************************)
EXTENDS Checkout, ChargeProofs, LifecycleProofs

-----------------------------------------------------------------------------
(* Every step of the application is one of PayOrder, or none *)

LEMMA RequestPart ==
    ASSUME NEW r \in Requests, Accept(r) \/ Work(r) \/ Conclude(r) \/ Rollback(r)
    PROVE  Receive(r) \/ Execute(r) \/ Abort(r)
BY DEF Accept, Work, Conclude, Rollback

LEMMA RelayPart ==
    ASSUME NEW i \in Relays, Poll(i) \/ Deliver(i) \/ Kill(i)
    PROVE  UNCHANGED vars
BY DEF Poll, Deliver, Kill

LEMMA HandlerPart ==
    ASSUME NEW p \in Requests, NEW d \in Deliveries, ReadsOrder(p, d) \/ EndsOrThrows(p, d)
    PROVE  Handle(p, d)
BY DEF ReadsOrder, EndsOrThrows, Handle

LEMMA PayOrderStep == [CheckoutNext]_allVars => [Next]_vars
<1> SUFFICES ASSUME [CheckoutNext]_allVars PROVE [Next]_vars
  OBVIOUS
<1>1. ASSUME NEW r \in Requests, Accept(r) \/ Work(r) \/ Conclude(r) \/ Rollback(r)
      PROVE  Next
  BY <1>1, RequestPart DEF Next
<1>2. ASSUME NEW i \in Relays, Poll(i) \/ Deliver(i) \/ Kill(i)
      PROVE  UNCHANGED vars
  BY <1>2, RelayPart
<1>3. ASSUME NEW p \in Requests, NEW d \in Deliveries, ReadsOrder(p, d) \/ EndsOrThrows(p, d)
      PROVE  Next
  BY <1>3, HandlerPart DEF Next
<1>4. CASE Rest \/ UNCHANGED allVars
  BY <1>4 DEF Rest, allVars
<1> QED BY <1>1, <1>2, <1>3, <1>4 DEF CheckoutNext

\* Requests that die together, events published twice and handlers that vanish with
\* their process are, for the payment context, steps PayOrder has.
THEOREM CheckoutPays == CheckoutSpec => ImplementsPayOrder
<1>1. CheckoutInit => Init
  BY DEF CheckoutInit
<1> QED BY <1>1, PayOrderStep, PTL DEF CheckoutSpec, ImplementsPayOrder, Spec

\* So no crash, late publication or lost handler makes an order paid, or failed,
\* that no payment of its own paid, or failed.
THEOREM CheckoutSettlesByPayment == CheckoutSpec => []SettledByPayment
<1> QED BY CheckoutPays, OrdersSettledByPayments, PTL DEF ImplementsPayOrder

\* With one key per order the application as a whole is an OrderLifecycle: no crash,
\* retry, late or repeated event opens an order twice or moves it once it settled.
THEOREM CheckoutKeepsLifecycle ==
    OneKeyPerOrder => (CheckoutSpec => ImplementsLifecycle)
<1> QED BY CheckoutPays, OneKeyGivesLifecycle, PTL DEF ImplementsPayOrder

-----------------------------------------------------------------------------
(* Every step of the application is one of the outbox, or none *)

RelayFacts == INSTANCE OutboxRelayProofs WITH
    Known <- Rows, MayThrow <- Rows, MaxErrors <- 0

\* The assumption of the theorems about the outbox.
LEMMA RelayAssumed ==
    /\ Rows = 1 .. Cardinality(Requests) /\ Cardinality(Requests) \in Nat
    /\ Rows \subseteq Nat /\ IsFiniteSet(Rows) /\ RelayFacts!IsFiniteSet(Rows)
    /\ BatchSize \in Nat \ {0} /\ MaxAttempts \in Nat /\ MaxStops \in Nat
    /\ BusFirst \in BOOLEAN
<1>1. Cardinality(Requests) \in Nat
  BY CheckoutAssumption, FS_CardinalityType DEF CheckoutAssumption
<1>2. IsFiniteSet(1 .. Cardinality(Requests))
  BY <1>1, FS_Interval
<1>3. RelayFacts!IsFiniteSet(1 .. Cardinality(Requests))
  BY <1>2 DEF IsFiniteSet, RelayFacts!IsFiniteSet
<1> QED BY <1>1, <1>2, <1>3, CheckoutAssumption DEF Rows, CheckoutAssumption

\* The instance that carries the theorems is the one Checkout is made of.
LEMMA SameInit == Relay!Init <=> RelayFacts!Init
BY DEF Relay!Init, RelayFacts!Init

LEMMA SameHead ==
    /\ Relay!vars = RelayFacts!vars
    /\ \A i : Relay!Head(i) = RelayFacts!Head(i)
    /\ \A i : Relay!Eligible(i) = RelayFacts!Eligible(i)
    /\ \A i : Relay!NextRow(i) <=> RelayFacts!NextRow(i)
    /\ \A i, s : Relay!AtHead(i, s) <=> RelayFacts!AtHead(i, s)
    /\ \A b : Relay!Counted(b) = RelayFacts!Counted(b)
    /\ \A e : Relay!Writable(e) <=> RelayFacts!Writable(e)
    /\ \A e : Relay!Knows(e) <=> RelayFacts!Knows(e)
    /\ \A i : Relay!Listening(i) <=> RelayFacts!Listening(i)
    /\ \A i : Relay!Gone(i) <=> RelayFacts!Gone(i)
    /\ \A S : Relay!Cardinality(S) = RelayFacts!Cardinality(S)
<1>1. Relay!vars = RelayFacts!vars
  BY DEF Relay!vars, RelayFacts!vars
<1>2. \A i : Relay!Head(i) = RelayFacts!Head(i)
  BY DEF Relay!Head, RelayFacts!Head, Relay!Oldest, RelayFacts!Oldest
<1>3. \A i : Relay!Eligible(i) = RelayFacts!Eligible(i)
  BY DEF Relay!Eligible, RelayFacts!Eligible
<1>4. \A i : Relay!NextRow(i) <=> RelayFacts!NextRow(i)
  BY DEF Relay!NextRow, RelayFacts!NextRow, Relay!Head, RelayFacts!Head, Relay!Oldest, RelayFacts!Oldest
<1>5. \A i, s : Relay!AtHead(i, s) <=> RelayFacts!AtHead(i, s)
  BY DEF Relay!AtHead, RelayFacts!AtHead
<1>6. \A b : Relay!Counted(b) = RelayFacts!Counted(b)
  BY DEF Relay!Counted, RelayFacts!Counted
<1>7. \A e : Relay!Writable(e) <=> RelayFacts!Writable(e)
  BY DEF Relay!Writable, RelayFacts!Writable
<1>8. \A e : Relay!Knows(e) <=> RelayFacts!Knows(e)
  BY DEF Relay!Knows, RelayFacts!Knows
<1>9. \A i : Relay!Listening(i) <=> RelayFacts!Listening(i)
  BY DEF Relay!Listening, RelayFacts!Listening
<1>10. \A i : Relay!Gone(i) <=> RelayFacts!Gone(i)
  BY DEF Relay!Gone, RelayFacts!Gone
<1>11. \A S : Relay!Cardinality(S) = RelayFacts!Cardinality(S)
  BY DEF Relay!Cardinality, RelayFacts!Cardinality
<1> QED BY <1>1, <1>2, <1>3, <1>4, <1>5, <1>6, <1>7, <1>8, <1>9, <1>10, <1>11

LEMMA SameNext == [Relay!Next]_(Relay!vars) <=> [RelayFacts!Next]_(RelayFacts!vars)
<1>1. \A e : Relay!Append(e) <=> RelayFacts!Append(e)
  BY SameHead DEF Relay!Append, RelayFacts!Append
<1>2. \A i : Relay!Boot(i) <=> RelayFacts!Boot(i)
  BY SameHead DEF Relay!Boot, RelayFacts!Boot
<1>3. \A i : Relay!DrainOver(i) <=> RelayFacts!DrainOver(i)
  BY SameHead DEF Relay!DrainOver, RelayFacts!DrainOver
<1>4. \A i : Relay!Close(i) <=> RelayFacts!Close(i)
  BY SameHead DEF Relay!Close, RelayFacts!Close
<1>5. \A i : Relay!Exit(i) <=> RelayFacts!Exit(i)
  BY SameHead DEF Relay!Exit, RelayFacts!Exit
<1>6. \A i : Relay!Crash(i) <=> RelayFacts!Crash(i)
  BY SameHead DEF Relay!Crash, RelayFacts!Crash
<1>7. \A i : Relay!Claim(i) <=> RelayFacts!Claim(i)
  BY SameHead DEF Relay!Claim, RelayFacts!Claim
<1>8. \A i : Relay!EndClaim(i) <=> RelayFacts!EndClaim(i)
  BY SameHead DEF Relay!EndClaim, RelayFacts!EndClaim
<1>9. \A i : Relay!SkipUnknown(i) <=> RelayFacts!SkipUnknown(i)
  BY SameHead DEF Relay!SkipUnknown, RelayFacts!SkipUnknown
<1>10. \A i : Relay!Publish(i) <=> RelayFacts!Publish(i)
  BY SameHead DEF Relay!Publish, RelayFacts!Publish
<1>11. \A i : Relay!Mark(i) <=> RelayFacts!Mark(i)
  BY SameHead DEF Relay!Mark, RelayFacts!Mark
<1>12. \A i : Relay!Throw(i) <=> RelayFacts!Throw(i)
  BY SameHead DEF Relay!Throw, RelayFacts!Throw
<1>13. \A i : Relay!RecordFailure(i) <=> RelayFacts!RecordFailure(i)
  BY SameHead DEF Relay!RecordFailure, RelayFacts!RecordFailure
<1>14. \A i, e : Relay!HandlerEnds(i, e) <=> RelayFacts!HandlerEnds(i, e)
  BY SameHead DEF Relay!HandlerEnds, RelayFacts!HandlerEnds
<1>15. \A i : Relay!Tick(i) <=> RelayFacts!Tick(i)
  BY <1>7, <1>8, <1>9, <1>10, <1>11, <1>13 DEF Relay!Tick, RelayFacts!Tick
<1>16. Relay!Next <=> RelayFacts!Next
  BY <1>1, <1>2, <1>3, <1>4, <1>5, <1>6, <1>12, <1>14, <1>15 DEF Relay!Next, RelayFacts!Next
<1> QED BY <1>16 DEF Relay!vars, RelayFacts!vars

-----------------------------------------------------------------------------
(* What joins the parts *)

\* The log numbers the payments that concluded, each once.
LogInv ==
    /\ log \in Seq(Requests)
    /\ \A j, k \in DOMAIN log : log[j] = log[k] => j = k
    /\ \A k \in DOMAIN log : payment[log[k]].status \in Concluded

\* A row that is stored, or was published, is that of a logged payment, and so is
\* one a handler works for.
RowsLogged ==
    /\ \A k \in Rows : row[k].stored \/ published[k] > 0 => k \in DOMAIN log
    /\ host \in [Requests \X Deliveries -> Relays \cup {NoRelay}]
    /\ \A p \in Requests, d \in Deliveries :
         host[<<p, d>>] # NoRelay => \E k \in DOMAIN log : log[k] = p

JoinInv == LogInv /\ RowsLogged

\* There are rows for all payments that conclude.
LEMMA LogFits ==
    ASSUME NEW s \in Seq(Requests), \A j, k \in DOMAIN s : s[j] = s[k] => j = k
    PROVE  Len(s) \in Nat /\ DOMAIN s = 1 .. Len(s) /\ DOMAIN s \subseteq Rows
<1>1. Len(s) \in Nat /\ DOMAIN s = 1 .. Len(s) /\ s \in [1 .. Len(s) -> Requests]
  OBVIOUS
<1>2. s \in Injection(1 .. Len(s), Requests)
  BY <1>1 DEF Injection, IsInjective
<1>3. IsFiniteSet(Requests)
  BY CheckoutAssumption DEF CheckoutAssumption
<1>4. Cardinality(1 .. Len(s)) <= Cardinality(Requests)
  BY <1>2, <1>3, FS_Injection
<1>5. Cardinality(1 .. Len(s)) = Len(s)
  BY <1>1, FS_Interval
<1> QED BY <1>1, <1>4, <1>5, RelayAssumed

\* Only the final transaction leads to an outcome.
LEMMA ConcludeFinalizes ==
    ASSUME TypeInv, NEW r \in Requests, Execute(r), pc'[r] \in Concluded
    PROVE  FinalizeSuccess(r) \/ FinalizeFailed(r)
<1> USE DEF TypeInv, TypeOK, Concluded
<1>1. ASSUME Lookup(r) \/ ReadOrder(r) \/ ClaimRefused(r) PROVE FALSE
  BY <1>1, VerdictIs DEF Lookup, ReadOrder, ClaimRefused, Goto, Refused
<1>2. ASSUME Claim(r) PROVE FALSE
  BY <1>2, StageIs DEF Claim, Goto, Initiate
<1>3. ASSUME SkipProvider(r) \/ RecordAttempt(r) PROVE FALSE
  <2>1. \E attempts : GoOn(r, attempts)
    BY <1>3 DEF SkipProvider, RecordAttempt
  <2> QED BY <2>1, GoOnTyped DEF Labels
<1>4. ASSUME ChargeExternal(r) \/ ChargeWallet(r) \/ SaveDebit(r) PROVE FALSE
  BY <1>4 DEF ChargeExternal, ChargeWallet, SaveDebit, Goto, Registered, InsufficientFunds, Debited
<1>5. ASSUME RefundSkipped(r) \/ RefundExternal(r) \/ RefundWallet(r) \/ SaveRefund(r) PROVE FALSE
  BY <1>5 DEF RefundSkipped, RefundExternal, RefundWallet, SaveRefund, Refunding, Goto, Credited
<1> QED BY <1>1, <1>2, <1>3, <1>4, <1>5 DEF Execute

LEMMA ConcludeLogs ==
    ASSUME TypeInv, PaymentInv, LogInv, NEW r \in Requests, Conclude(r)
    PROVE  /\ LogInv' /\ Len(log) + 1 \in Rows
           /\ DOMAIN log' = DOMAIN log \cup {Len(log) + 1}
           /\ \A k \in DOMAIN log : log'[k] = log[k]
<1>1. log' = Append(log, r) /\ Execute(r) /\ pc'[r] \in Concluded
  BY DEF Conclude
<1>2. FinalizeSuccess(r) \/ FinalizeFailed(r)
  BY <1>1, ConcludeFinalizes
<1>3. /\ payment[r].status = "initiated" /\ payment'[r].status \in Concluded
      /\ \A k \in Requests \ {r} : payment'[k] = payment[k]
  BY <1>2 DEF TypeInv, TypeOK, FinalizeSuccess, FinalizeFailed, PaymentInv, StatusMatchesPc,
     Charging, MarkSucceeded, MarkFailed, Concluded
<1>4. /\ Len(log) \in Nat /\ DOMAIN log = 1 .. Len(log)
      /\ DOMAIN log' = DOMAIN log \cup {Len(log) + 1} /\ log' \in Seq(Requests)
      /\ log'[Len(log) + 1] = r /\ \A k \in DOMAIN log : log'[k] = log[k]
  BY <1>1, LogFits DEF LogInv
<1>5. \A k \in DOMAIN log : log[k] \in Requests \ {r}
  BY <1>3 DEF LogInv, Concluded
<1>6. LogInv'
  BY <1>3, <1>4, <1>5 DEF LogInv
<1>7. DOMAIN log' \subseteq Rows
  BY <1>6, LogFits DEF LogInv
<1> QED BY <1>4, <1>6, <1>7

\* An outcome that was stored stays.
LEMMA OutcomeKept ==
    ASSUME TypeInv, PaymentInv, [Next]_vars, NEW p \in Requests,
           payment[p].status \in Concluded
    PROVE  payment'[p].status = payment[p].status
<1>1. ASSUME NEW r \in Requests, RequestStep(r)
      PROVE  payment'[p].status = payment[p].status
  <2>1. payment'[p] = payment[p] \/ payment'[p].status = payment[p].status \/ p = r
    BY <1>1, StatusMoves DEF TypeInv
  <2>2. CASE Claim(r)
    <3>1. pc[r] = "claim"
      BY <2>2 DEF Claim
    <3>2. p # r
      BY <3>1 DEF PaymentInv, StatusMatchesPc, BeforeClaim, Concluded
    <3> QED BY <2>1, <3>2
  <2>3. CASE FinalizeSuccess(r) \/ FinalizeFailed(r)
    <3>1. pc[r] \in {"finalize", "compensate"}
      BY <2>3 DEF FinalizeSuccess, FinalizeFailed
    <3>2. p # r
      BY <3>1 DEF PaymentInv, StatusMatchesPc, Charging, Concluded
    <3> QED BY <2>1, <3>2
  <2> QED BY <1>1, <2>2, <2>3, StatusMoves DEF TypeInv
<1>2. ASSUME NEW t \in TopUps, TopUp(t) PROVE payment' = payment
  BY <1>2 DEF TopUp, TopUpRead, TopUpConnect, TopUpSave, database
<1>3. ASSUME NEW q \in Requests, NEW d \in Deliveries, Handle(q, d) PROVE payment' = payment
  BY <1>3 DEF Handle, HandlerRead, HandlerFails, SettlePaid, SettleThrows, SettleFailed, database
<1>4. CASE AllOver \/ UNCHANGED vars
  BY <1>4 DEF AllOver, vars, database
<1> QED BY <1>1, <1>2, <1>3, <1>4 DEF Next, RequestStep

\* The row a relay has in hand is that of a logged payment.
LEMMA HeadLogged ==
    ASSUME RelayFacts!RelayInv, JoinInv, NEW i \in Relays, batch[i] # {}
    PROVE  /\ Relay!Head(i).id \in Rows /\ Relay!Head(i).id \in DOMAIN log
           /\ log[Relay!Head(i).id] \in Requests
<1>1. Relay!Head(i).id \in Rows /\ row[Relay!Head(i).id].stored
  BY RelayFacts!HeadTyped, RelayAssumed, SameHead
<1> QED BY <1>1 DEF JoinInv, LogInv, RowsLogged

\* The payment of a delivery has a row.
LEMMA RowOfPayment ==
    ASSUME JoinInv, NEW p \in Requests, NEW d \in Deliveries, host[<<p, d>>] # NoRelay
    PROVE  /\ RowOf(p) \in DOMAIN log /\ RowOf(p) \in Rows /\ log[RowOf(p)] = p
           /\ host[<<p, d>>] \in Relays
<1>1. \E k \in DOMAIN log : log[k] = p
  BY DEF JoinInv, RowsLogged
<1>2. RowOf(p) \in DOMAIN log /\ log[RowOf(p)] = p
  BY <1>1 DEF RowOf
<1>3. DOMAIN log \subseteq Rows
  BY LogFits DEF JoinInv, LogInv
<1> QED BY <1>2, <1>3 DEF JoinInv, RowsLogged

LEMMA OutboxStep ==
    ASSUME TypeInv, PaymentInv, RelayFacts!RelayInv, JoinInv, [CheckoutNext]_allVars
    PROVE  [Relay!Next]_(Relay!vars)
<1>1. ASSUME UNCHANGED relayVars PROVE [Relay!Next]_(Relay!vars)
  BY <1>1 DEF relayVars, Relay!vars
<1>2. ASSUME NEW r \in Requests, Conclude(r) PROVE Relay!Next
  <2>1. Relay!Append(Len(log) + 1) /\ Len(log) + 1 \in Rows
    BY <1>2, ConcludeLogs DEF Conclude, JoinInv
  <2> QED BY <2>1 DEF Relay!Next
<1>3. ASSUME NEW i \in Relays, Poll(i) \/ Deliver(i) \/ Kill(i) PROVE Relay!Next
  BY <1>3 DEF Poll, Deliver, Kill, Relay!Next, Relay!Tick
<1>4. ASSUME NEW p \in Requests, NEW d \in Deliveries, EndsOrThrows(p, d) PROVE Relay!Next
  <2>1. /\ Relay!HandlerEnds(host[<<p, d>>], RowOf(p))
        /\ host[<<p, d>>] \in Relays /\ RowOf(p) \in Rows
    BY <1>4, RowOfPayment DEF EndsOrThrows
  <2> QED BY <2>1 DEF Relay!Next
<1>5. ASSUME NEW r \in Requests, Accept(r) \/ Work(r) \/ Rollback(r) PROVE UNCHANGED relayVars
  BY <1>5 DEF Accept, Work, Rollback
<1>6. ASSUME NEW p \in Requests, NEW d \in Deliveries, ReadsOrder(p, d) PROVE UNCHANGED relayVars
  BY <1>6 DEF ReadsOrder
<1>7. ASSUME Rest \/ UNCHANGED allVars PROVE UNCHANGED relayVars
  BY <1>7 DEF Rest, allVars
<1> QED BY <1>1, <1>2, <1>3, <1>4, <1>5, <1>6, <1>7 DEF CheckoutNext

\* What a step that concludes no payment must do.
LEMMA JoinFrame ==
    ASSUME TypeInv, PaymentInv, JoinInv, [Next]_vars, log' = log,
           \A k \in Rows : row'[k].stored => row[k].stored,
           \A k \in Rows : published'[k] > 0 => published[k] > 0 \/ k \in DOMAIN log,
           host' \in [Requests \X Deliveries -> Relays \cup {NoRelay}],
           \A p \in Requests, d \in Deliveries :
             host'[<<p, d>>] # NoRelay =>
               host[<<p, d>>] # NoRelay \/ \E k \in DOMAIN log : log[k] = p
    PROVE  JoinInv'
<1>1. \A k \in DOMAIN log : log[k] \in Requests
  BY DEF JoinInv, LogInv
<1>2. \A k \in DOMAIN log : payment'[log[k]].status \in Concluded
  BY <1>1, OutcomeKept DEF JoinInv, LogInv
<1>3. LogInv'
  BY <1>2 DEF JoinInv, LogInv
<1>4. RowsLogged'
  BY DEF JoinInv, RowsLogged
<1> QED BY <1>3, <1>4 DEF JoinInv

LEMMA JoinNext ==
    ASSUME TypeInv, PaymentInv, RelayFacts!RelayInv, JoinInv, [CheckoutNext]_allVars
    PROVE  JoinInv'
<1>0. [Next]_vars
  BY PayOrderStep
<1>1. CASE UNCHANGED <<relayVars, log, host>>
  <2>1. host' \in [Requests \X Deliveries -> Relays \cup {NoRelay}]
    BY <1>1 DEF JoinInv, RowsLogged
  <2> QED BY <1>0, <1>1, <2>1, JoinFrame DEF relayVars
<1>2. ASSUME NEW r \in Requests, Conclude(r) PROVE JoinInv'
  <2>1. /\ LogInv' /\ Len(log) + 1 \in Rows /\ DOMAIN log' = DOMAIN log \cup {Len(log) + 1}
        /\ \A k \in DOMAIN log : log'[k] = log[k]
    BY <1>2, ConcludeLogs DEF JoinInv
  <2>2. /\ row' = [row EXCEPT ![Len(log) + 1].stored = TRUE]
        /\ published' = published /\ host' = host
    BY <1>2 DEF Conclude, Relay!Append
  <2>3. \A k \in Rows : row'[k].stored => row[k].stored \/ k = Len(log) + 1
    BY <2>1, <2>2 DEF RelayFacts!RelayInv, RelayFacts!TypeOK
  <2>4. RowsLogged'
    BY <2>1, <2>2, <2>3 DEF JoinInv, RowsLogged
  <2> QED BY <2>1, <2>4 DEF JoinInv
<1>3. ASSUME NEW i \in Relays, Poll(i) PROVE JoinInv'
  <2>1. published' = published /\ host' = host /\ log' = log
    BY <1>3 DEF Poll, Relay!Boot, Relay!DrainOver, Relay!Claim, Relay!EndClaim, Relay!Mark
  <2>2. row' = row \/ Relay!Mark(i)
    BY <1>3 DEF Poll, Relay!Boot, Relay!DrainOver, Relay!Claim, Relay!EndClaim
  <2>3. \A k \in Rows : row'[k].stored => row[k].stored
    BY <2>2 DEF Relay!Mark, Relay!Counted, RelayFacts!RelayInv, RelayFacts!TypeOK
  <2>4. host' \in [Requests \X Deliveries -> Relays \cup {NoRelay}]
    BY <2>1 DEF JoinInv, RowsLogged
  <2> QED BY <1>0, <2>1, <2>3, <2>4, JoinFrame
<1>4. ASSUME NEW i \in Relays, Deliver(i) PROVE JoinInv'
  <2> DEFINE k == Relay!Head(i).id
             x == <<log[k], published[k] + 1>>
  <2>1. batch[i] # {}
    BY <1>4 DEF Deliver, Relay!Publish, Relay!AtHead
  <2>2. k \in Rows /\ k \in DOMAIN log /\ log[k] \in Requests
    BY <2>1, HeadLogged
  <2>3. /\ published' = [published EXCEPT ![k] = @ + 1] /\ row' = row /\ log' = log
        /\ published[k] + 1 \in Deliveries
        /\ host' = host \/ host' = [host EXCEPT ![x] = i]
    BY <1>4 DEF Deliver, Relay!Publish
  <2> HIDE DEF k
  <2>4. host' \in [Requests \X Deliveries -> Relays \cup {NoRelay}]
    BY <2>2, <2>3 DEF JoinInv, RowsLogged
  <2>5. \A p \in Requests, d \in Deliveries :
          host'[<<p, d>>] # host[<<p, d>>] => p = log[k]
    BY <2>2, <2>3 DEF JoinInv, RowsLogged
  <2>6. \A e \in Rows : published'[e] > 0 => published[e] > 0 \/ e = k
    BY <2>2, <2>3 DEF RelayFacts!RelayInv, RelayFacts!TypeOK
  <2> QED BY <1>0, <2>2, <2>3, <2>4, <2>5, <2>6, JoinFrame
<1>5. ASSUME NEW i \in Relays, Kill(i) PROVE JoinInv'
  <2>1. /\ UNCHANGED <<row, published, log>>
        /\ host' = [x \in DOMAIN host |-> IF host[x] = i THEN NoRelay ELSE host[x]]
    BY <1>5 DEF Kill, Relay!Crash, Relay!Gone
  <2>2. /\ host' \in [Requests \X Deliveries -> Relays \cup {NoRelay}]
        /\ \A p \in Requests, d \in Deliveries :
             host'[<<p, d>>] # NoRelay => host[<<p, d>>] # NoRelay
    BY <2>1 DEF JoinInv, RowsLogged
  <2> QED BY <1>0, <2>1, <2>2, JoinFrame
<1>6. ASSUME NEW p \in Requests, NEW d \in Deliveries, EndsOrThrows(p, d) PROVE JoinInv'
  <2>1. /\ UNCHANGED <<row, published, log>>
        /\ host' = [host EXCEPT ![<<p, d>>] = NoRelay]
    BY <1>6 DEF EndsOrThrows, Relay!HandlerEnds
  <2>2. /\ host' \in [Requests \X Deliveries -> Relays \cup {NoRelay}]
        /\ \A q \in Requests, c \in Deliveries :
             host'[<<q, c>>] # NoRelay => host[<<q, c>>] # NoRelay
    BY <2>1 DEF JoinInv, RowsLogged
  <2> QED BY <1>0, <2>1, <2>2, JoinFrame
<1>7. ASSUME NEW r \in Requests, Accept(r) \/ Work(r) \/ Rollback(r)
      PROVE  UNCHANGED <<relayVars, log, host>>
  BY <1>7 DEF Accept, Work, Rollback
<1>8. ASSUME NEW p \in Requests, NEW d \in Deliveries, ReadsOrder(p, d)
      PROVE  UNCHANGED <<relayVars, log, host>>
  BY <1>8 DEF ReadsOrder
<1>9. ASSUME Rest \/ UNCHANGED allVars PROVE UNCHANGED <<relayVars, log, host>>
  BY <1>9 DEF Rest, allVars
<1> QED BY <1>1, <1>2, <1>3, <1>4, <1>5, <1>6, <1>7, <1>8, <1>9 DEF CheckoutNext

\* What holds of the application in every state.
CheckoutInv == TypeInv /\ PaymentInv /\ RelayFacts!RelayInv /\ JoinInv

LEMMA CheckoutInvInit == CheckoutInit => CheckoutInv
<1> SUFFICES ASSUME CheckoutInit PROVE CheckoutInv
  OBVIOUS
<1>1. TypeInv /\ PaymentInv
  BY InitTypeInv, InitPaymentInv DEF CheckoutInit
<1>2. RelayFacts!RelayInv
  BY SameInit, RelayFacts!InitInv, RelayAssumed DEF CheckoutInit
<1>3. LogInv
  BY DEF CheckoutInit, LogInv
<1>4. RowsLogged
  BY DEF CheckoutInit, Relay!Init, RowsLogged
<1> QED BY <1>1, <1>2, <1>3, <1>4 DEF CheckoutInv, JoinInv

LEMMA CheckoutInvNext == CheckoutInv /\ [CheckoutNext]_allVars => CheckoutInv'
<1> SUFFICES ASSUME CheckoutInv, [CheckoutNext]_allVars PROVE CheckoutInv'
  OBVIOUS
<1>1. [Next]_vars /\ [RelayFacts!Next]_(RelayFacts!vars)
  BY PayOrderStep, OutboxStep, SameNext DEF CheckoutInv
<1>2. TypeInv' /\ PaymentInv'
  BY <1>1, NextTypeInv, NextPaymentInv DEF CheckoutInv
<1>3. RelayFacts!RelayInv'
  BY <1>1, RelayFacts!NextInv, RelayAssumed DEF CheckoutInv
<1>4. JoinInv'
  BY JoinNext DEF CheckoutInv
<1> QED BY <1>2, <1>3, <1>4 DEF CheckoutInv

LEMMA CheckoutInvHolds == CheckoutSpec => []CheckoutInv
<1> QED BY CheckoutInvInit, CheckoutInvNext, PTL DEF CheckoutSpec

\* The application implements the outbox as well: the transaction that concludes a
\* payment is the producer of a row nobody stored before, the handlers that settle
\* orders are those the relay started, and nothing else touches its table.
THEOREM CheckoutRelays == CheckoutSpec => ImplementsRelay
<1>1. CheckoutInit => Relay!Init
  BY DEF CheckoutInit
<1>2. CheckoutInv /\ [CheckoutNext]_allVars => [Relay!Next]_(Relay!vars)
  BY OutboxStep DEF CheckoutInv
<1> QED BY <1>1, <1>2, CheckoutInvHolds, PTL DEF CheckoutSpec, ImplementsRelay, Relay!Spec

\* So the application as a whole is an EventDelivery: the event of an outcome is
\* published only once its payment is committed, given up and handled only once it
\* was published, whatever becomes of the processes in between.
THEOREM CheckoutDelivers == CheckoutSpec => RelayFacts!ImplementsDelivery
<1>1. CheckoutInit => RelayFacts!Init
  BY SameInit DEF CheckoutInit
<1>2. CheckoutInv /\ [CheckoutNext]_allVars => [RelayFacts!Next]_(RelayFacts!vars)
  BY OutboxStep, SameNext DEF CheckoutInv
<1>3. CheckoutSpec => RelayFacts!Spec
  BY <1>1, <1>2, CheckoutInvHolds, PTL DEF CheckoutSpec, RelayFacts!Spec
<1>4. RelayFacts!Spec => RelayFacts!ImplementsDelivery
  BY RelayFacts!OutboxDelivers, RelayAssumed
<1> QED BY <1>3, <1>4

-----------------------------------------------------------------------------
(* What becomes of the events that were published *)

\* A handler that read an order as failed read what another payment made of it, and
\* none reads an order that still waits for payment.
HandsExplained ==
    \A p \in Requests, d \in Deliveries : hand[<<p, d>>] \in OrderStatus =>
        /\ hand[<<p, d>>] # "pending"
        /\ hand[<<p, d>>] = "failed" =>
             \E q \in Requests : OrderOf(q) = OrderOf(p) /\ payment[q].status = "failed"

\* No request is at work in an instance that does not listen yet.
QuietBoot ==
    stops = 0 => \A r \in Requests : phase[HostOf[r]] # "polling" => pc[r] = "idle"

\* A handler of row k returned or runs.
Taken(k) == k \in handled \/ \E i \in Relays : running[i][k] > 0

\* The one reason why a handler refuses an outcome.
OtherFailed(p) ==
    /\ payment[p].status = "succeeded"
    /\ \E q \in Requests \ {p} : OrderOf(q) = OrderOf(p) /\ payment[q].status = "failed"

\* The reasons why a handler that ended has not handled it.
Excused(p) == FailedToHandle(p) \/ OtherFailed(p)

Undisturbed == stops = 0 /\ (BusFirst \/ Cardinality(Relays) = 1)

\* What LossExplained says of the rows that were given up holds of all that were
\* published: a handler that starts is there until it returns, refuses or fails.
PublishedTaken ==
    Undisturbed => \A k \in DOMAIN log : published[k] > 0 => Taken(k) \/ Excused(log[k])

LossInv == HandsExplained /\ QuietBoot /\ PublishedTaken

LEMMA CommandsKept ==
    ASSUME TypeInv, [Next]_vars
    PROVE  /\ cmd' = cmd
           /\ hand' = hand \/ \E p \in Requests, d \in Deliveries : Handle(p, d)
<1>1. ASSUME NEW r \in Requests, RequestStep(r) PROVE cmd' = cmd /\ hand' = hand
  <2>1. cmd' = cmd
    BY <1>1, RequestMoves DEF TypeInv, TypeOK, Labels
  <2>2. ASSUME Receive(r) \/ Abort(r) PROVE hand' = hand
    BY <2>2 DEF Receive, Abort
  <2>3. ASSUME Lookup(r) \/ ReadOrder(r) \/ ClaimRefused(r) \/ Claim(r) PROVE hand' = hand
    BY <2>3 DEF Lookup, ReadOrder, ClaimRefused, Claim
  <2>4. ASSUME SkipProvider(r) \/ ChargeExternal(r) \/ ChargeWallet(r) PROVE hand' = hand
    BY <2>4 DEF SkipProvider, ChargeExternal, ChargeWallet
  <2>5. ASSUME SaveDebit(r) \/ RecordAttempt(r) \/ FinalizeSuccess(r) PROVE hand' = hand
    BY <2>5 DEF SaveDebit, RecordAttempt, FinalizeSuccess
  <2>6. ASSUME RefundSkipped(r) \/ RefundExternal(r) \/ RefundWallet(r) PROVE hand' = hand
    BY <2>6 DEF RefundSkipped, RefundExternal, RefundWallet
  <2>7. ASSUME SaveRefund(r) \/ FinalizeFailed(r) PROVE hand' = hand
    BY <2>7 DEF SaveRefund, FinalizeFailed
  <2> QED BY <1>1, <2>1, <2>2, <2>3, <2>4, <2>5, <2>6, <2>7 DEF RequestStep, Execute
<1>2. ASSUME NEW t \in TopUps, TopUp(t) PROVE cmd' = cmd /\ hand' = hand
  BY <1>2 DEF TopUp, TopUpRead, TopUpConnect, TopUpSave
<1>3. ASSUME NEW p \in Requests, NEW d \in Deliveries, Handle(p, d) PROVE cmd' = cmd
  BY <1>3 DEF Handle, HandlerRead, HandlerFails, SettlePaid, SettleThrows, SettleFailed
<1>4. CASE AllOver \/ UNCHANGED vars
  BY <1>4 DEF AllOver, vars
<1> QED BY <1>1, <1>2, <1>3, <1>4 DEF Next, RequestStep

\* A failed payment goes on to explain what its order was read as.
LEMMA FailureKept ==
    ASSUME TypeInv, PaymentInv, [Next]_vars, NEW p, NEW q \in Requests,
           OrderOf(q) = OrderOf(p), payment[q].status = "failed"
    PROVE  (OrderOf(q) = OrderOf(p))' /\ payment'[q].status = "failed"
BY OutcomeKept, CommandsKept DEF Concluded, OrderOf

LEMMA HandsNext ==
    ASSUME TypeInv, PaymentInv, HandsExplained, [Next]_vars
    PROVE  HandsExplained'
<1>1. ASSUME NEW p \in Requests, NEW d \in Deliveries, hand'[<<p, d>>] = hand[<<p, d>>],
             hand[<<p, d>>] \in OrderStatus
      PROVE  /\ hand[<<p, d>>] # "pending"
             /\ hand[<<p, d>>] = "failed" =>
                  \E q \in Requests : (OrderOf(q) = OrderOf(p))' /\ payment'[q].status = "failed"
  BY <1>1, FailureKept DEF HandsExplained
<1>2. CASE hand' = hand
  BY <1>1, <1>2 DEF HandsExplained
<1>3. ASSUME NEW p \in Requests, NEW d \in Deliveries, Handle(p, d) PROVE HandsExplained'
  <2>1. hand' = [hand EXCEPT ![<<p, d>>] = hand'[<<p, d>>]]
    BY <1>3 DEF Handle, HandlerRead, HandlerFails, SettlePaid, SettleThrows, SettleFailed,
       TypeInv, TypeOK
  <2>2. \A q \in Requests, c \in Deliveries :
          hand'[<<q, c>>] = hand[<<q, c>>] \/ (q = p /\ c = d)
    BY <2>1 DEF TypeInv, TypeOK
  <2>3. CASE HandlerRead(p, d)
    <3>1. /\ hand'[<<p, d>>] = order[OrderOf(p)]
          /\ payment' = payment /\ cmd' = cmd
          /\ <<"payment.succeeded", p>> \in outbox \/ <<"payment.failed", p>> \in outbox
      BY <2>3 DEF HandlerRead, Delivered, database, TypeInv, TypeOK
    <3>2. Persisted(p) /\ OrderOf(p) \in Orders
      BY <3>1 DEF TypeInv, RowsReferToRows, EventName
    <3>3. order[OrderOf(p)] # "pending"
      BY <3>2 DEF PaymentInv, PendingIffUnclaimed
    <3>4. order[OrderOf(p)] = "failed" =>
            \E q \in Requests : OrderOf(q) = OrderOf(p) /\ payment[q].status = "failed"
      BY <3>2 DEF PaymentInv, SettledByPayment
    <3>5. order[OrderOf(p)] = "failed" =>
            \E q \in Requests : (OrderOf(q) = OrderOf(p))' /\ payment'[q].status = "failed"
      BY <3>4, FailureKept
    <3> QED BY <1>1, <2>2, <3>1, <3>3, <3>5 DEF HandsExplained
  <2>4. CASE \/ SettlePaid(p, d) \/ SettleThrows(p, d) \/ SettleFailed(p, d)
             \/ HandlerFails(p, d)
    <3>1. hand'[<<p, d>>] \in {"done", "error"}
      BY <2>4 DEF SettlePaid, SettleThrows, SettleFailed, HandlerFails, TypeInv, TypeOK
    <3> QED BY <1>1, <2>2, <3>1 DEF HandsExplained, OrderStatus
  <2> QED BY <1>3, <2>3, <2>4 DEF Handle
<1> QED BY <1>2, <1>3, CommandsKept

\* A request leaves "idle" through the controller of an instance that listens.
LEMMA QuietBootNext ==
    ASSUME CheckoutInv, QuietBoot, [CheckoutNext]_allVars
    PROVE  QuietBoot'
<1> USE DEF CheckoutInv, TypeInv, TypeOK
<1>1. CASE pc' = pc /\ phase' = phase /\ stops' = stops
  BY <1>1 DEF QuietBoot
<1>2. ASSUME NEW r \in Requests, Accept(r) PROVE QuietBoot'
  <2>1. /\ phase[HostOf[r]] = "polling" /\ phase' = phase /\ stops' = stops
        /\ RequestStep(r)
    BY <1>2 DEF Accept, relayVars, RequestStep
  <2>2. \A k \in Requests \ {r} : pc'[k] = pc[k]
    BY <2>1, RequestMoves DEF Labels
  <2> QED BY <2>1, <2>2 DEF QuietBoot
<1>3. ASSUME NEW r \in Requests, Work(r) \/ Conclude(r) \/ Rollback(r) PROVE QuietBoot'
  <2>1. phase' = phase /\ stops' = stops
    BY <1>3 DEF Work, Conclude, Rollback, relayVars, Relay!Append
  <2>2. Execute(r) \/ Abort(r)
    BY <1>3 DEF Work, Conclude, Rollback
  <2>3. \A k \in Requests \ {r} : pc'[k] = pc[k]
    BY <2>2, RequestMoves DEF Labels, RequestStep
  <2>4. pc[r] # "idle"
    BY <2>2 DEF Execute, Abort, Running, Lookup, ReadOrder, ClaimRefused, Claim, SkipProvider,
       ChargeExternal, ChargeWallet, SaveDebit, RecordAttempt, FinalizeSuccess, RefundSkipped,
       RefundExternal, RefundWallet, SaveRefund, FinalizeFailed, Refunding
  <2> QED BY <2>1, <2>3, <2>4 DEF QuietBoot
<1>4. ASSUME NEW i \in Relays, Poll(i) \/ Deliver(i) PROVE QuietBoot'
  <2>1. pc' = pc /\ stops' = stops
    BY <1>4 DEF Poll, Deliver, vars, Relay!Boot, Relay!DrainOver, Relay!Claim, Relay!EndClaim,
       Relay!Mark, Relay!Publish
  <2>2. phase' = phase \/ (phase[i] # "polling" /\ phase' = [phase EXCEPT ![i] = phase'[i]])
    BY <1>4 DEF Poll, Deliver, Relay!Boot, Relay!DrainOver, Relay!Claim, Relay!EndClaim,
       Relay!Mark, Relay!Publish, RelayFacts!RelayInv, RelayFacts!TypeOK
  <2>3. phase \in [Relays -> RelayFacts!Phase] /\ HostOf \in [Requests -> Relays]
    BY CheckoutAssumption DEF RelayFacts!RelayInv, RelayFacts!TypeOK, CheckoutAssumption
  <2>4. \A r \in Requests : phase'[HostOf[r]] # "polling" => phase[HostOf[r]] # "polling"
    BY <2>2, <2>3
  <2> QED BY <2>1, <2>4 DEF QuietBoot
<1>5. ASSUME NEW i \in Relays, Kill(i) PROVE QuietBoot'
  <2>1. stops \in Nat /\ stops' = stops + 1
    BY <1>5 DEF Kill, Relay!Crash, RelayFacts!RelayInv, RelayFacts!TypeOK
  <2> QED BY <2>1 DEF QuietBoot
<1>6. ASSUME NEW p \in Requests, NEW d \in Deliveries, ReadsOrder(p, d) \/ EndsOrThrows(p, d)
      PROVE  pc' = pc /\ phase' = phase /\ stops' = stops
  <2>1. Handle(p, d)
    BY <1>6, HandlerPart
  <2>2. pc' = pc
    BY <2>1 DEF Handle, HandlerRead, HandlerFails, SettlePaid, SettleThrows, SettleFailed, process
  <2> QED BY <1>6, <2>2 DEF ReadsOrder, EndsOrThrows, relayVars, Relay!HandlerEnds
<1>7. CASE Rest \/ UNCHANGED allVars
  BY <1>1, <1>7 DEF Rest, allVars, relayVars, vars
<1> QED BY <1>1, <1>2, <1>3, <1>4, <1>5, <1>6, <1>7 DEF CheckoutNext

\* A handler that failed is over.
LEMMA ErrorKept ==
    ASSUME TypeInv, [Next]_vars, NEW p \in Requests, FailedToHandle(p)
    PROVE  FailedToHandle(p)'
<1>1. PICK d \in Deliveries : hand[<<p, d>>] = "error"
  BY DEF FailedToHandle
<1>2. ASSUME NEW q \in Requests, NEW c \in Deliveries, Handle(q, c)
      PROVE  hand'[<<p, d>>] = "error"
  <2>1. hand[<<q, c>>] # "error"
    BY <1>2 DEF Handle, HandlerRead, HandlerFails, SettlePaid, SettleThrows, SettleFailed,
       OrderStatus
  <2>2. hand' = [hand EXCEPT ![<<q, c>>] = hand'[<<q, c>>]]
    BY <1>2 DEF Handle, HandlerRead, HandlerFails, SettlePaid, SettleThrows, SettleFailed,
       TypeInv, TypeOK
  <2> QED BY <1>1, <2>1, <2>2 DEF TypeInv, TypeOK
<1>3. hand'[<<p, d>>] = "error"
  BY <1>1, <1>2, CommandsKept
<1> QED BY <1>3 DEF FailedToHandle

LEMMA ExcusedKept ==
    ASSUME TypeInv, PaymentInv, [Next]_vars, NEW p \in Requests, Excused(p)
    PROVE  Excused(p)'
<1>1. CASE FailedToHandle(p)
  BY <1>1, ErrorKept DEF Excused
<1>2. CASE OtherFailed(p)
  <2>1. PICK q \in Requests \ {p} : OrderOf(q) = OrderOf(p) /\ payment[q].status = "failed"
    BY <1>2 DEF OtherFailed
  <2>2. (OrderOf(q) = OrderOf(p))' /\ payment'[q].status = "failed"
    BY <2>1, FailureKept
  <2>3. payment'[p].status = "succeeded"
    BY <1>2, OutcomeKept DEF OtherFailed, Concluded
  <2> QED BY <2>2, <2>3 DEF Excused, OtherFailed
<1> QED BY <1>1, <1>2 DEF Excused

\* What a step must do that no instance is killed by.
LEMMA TakenFrame ==
    ASSUME CheckoutInv, PublishedTaken, [Next]_vars, stops' = stops,
           \A k \in DOMAIN log : log'[k] = log[k],
           \A k \in DOMAIN log' : Undisturbed /\ published'[k] > 0 =>
               \/ (Taken(k) \/ Excused(log[k]))'
               \/ k \in DOMAIN log /\ published[k] > 0 /\ (Taken(k) => Taken(k)')
    PROVE  PublishedTaken'
<1>1. Undisturbed' => Undisturbed
  BY DEF Undisturbed
<1>2. ASSUME NEW k \in DOMAIN log, Excused(log[k]) PROVE Excused(log[k])'
  <2>1. log[k] \in Requests
    BY DEF CheckoutInv, JoinInv, LogInv
  <2> QED BY <1>2, <2>1, ExcusedKept
          DEF CheckoutInv, Excused, OtherFailed, FailedToHandle, OrderOf
<1> QED BY <1>1, <1>2 DEF PublishedTaken

\* A handler that refuses a payment that succeeded read an order that failed.
LEMMA RefusalExcused ==
    ASSUME CheckoutInv, HandsExplained, NEW p \in Requests, NEW d \in Deliveries,
           SettleThrows(p, d)
    PROVE  Excused(p)
<1>1. payment[p].status = "succeeded"
  BY DEF SettleThrows, CheckoutInv, PaymentInv, EventsMatchStatus
<1>2. hand[<<p, d>>] \in OrderStatus /\ hand[<<p, d>>] \in {"pending", "failed"}
  BY DEF SettleThrows, MayBePaid, OrderStatus
<1>3. PICK q \in Requests : OrderOf(q) = OrderOf(p) /\ payment[q].status = "failed"
  BY <1>2 DEF HandsExplained
<1> QED BY <1>1, <1>3 DEF Excused, OtherFailed

\* One that fails on the database says so.
LEMMA ErrorExcused ==
    ASSUME TypeInv, NEW p \in Requests, NEW d \in Deliveries, HandlerFails(p, d)
    PROVE  FailedToHandle(p)'
<1>1. hand'[<<p, d>>] = "error"
  BY DEF HandlerFails, TypeInv, TypeOK
<1> QED BY <1>1 DEF FailedToHandle

\* Where nothing was killed, who publishes a row has its handler on the bus.
LEMMA DeliverStarts ==
    ASSUME CheckoutInv, QuietBoot, Undisturbed, NEW i \in Relays, Deliver(i)
    PROVE  Relay!Listening(i)
<1>1. CASE BusFirst
  BY <1>1 DEF Relay!Listening
<1>2. CASE Cardinality(Relays) = 1
  <2> DEFINE r == log[Relay!Head(i).id]
  <2>1. batch[i] # {}
    BY DEF Deliver, Relay!Publish, Relay!AtHead
  <2>2. r \in Requests /\ payment[r].status \in Concluded
    BY <2>1, HeadLogged DEF CheckoutInv, JoinInv, LogInv
  <2>3. pc[r] # "idle"
    BY <2>2 DEF CheckoutInv, PaymentInv, StatusMatchesPc, BeforeClaim, Concluded
  <2>4. HostOf[r] \in Relays
    BY <2>2, CheckoutAssumption DEF CheckoutAssumption
  <2>5. HostOf[r] = i
    BY <1>2, <2>4, FS_Singleton, CheckoutAssumption DEF CheckoutAssumption
  <2>6. phase[i] = "polling"
    BY <2>2, <2>3, <2>5 DEF QuietBoot, Undisturbed
  <2> QED BY <2>6 DEF Relay!Listening
<1> QED BY <1>1, <1>2 DEF Undisturbed

LEMMA DeliverTaken ==
    ASSUME CheckoutInv, QuietBoot, PublishedTaken, [Next]_vars, NEW i \in Relays, Deliver(i)
    PROVE  PublishedTaken'
<1> DEFINE h == Relay!Head(i).id
<1>1. /\ stops' = stops /\ log' = log /\ handled' = handled
      /\ published' = [published EXCEPT ![h] = @ + 1]
      /\ Relay!Listening(i) => running' = [running EXCEPT ![i][h] = @ + 1]
  BY DEF Deliver, Relay!Publish
<1>2. /\ running \in [Relays -> [Rows -> Nat]] /\ published \in [Rows -> Nat]
  BY DEF CheckoutInv, RelayFacts!RelayInv, RelayFacts!TypeOK
<1>3. h \in Rows /\ DOMAIN log \subseteq Rows
  <2>1. batch[i] # {}
    BY DEF Deliver, Relay!Publish, Relay!AtHead
  <2> QED BY <2>1, HeadLogged, LogFits DEF CheckoutInv, JoinInv, LogInv
<1> HIDE DEF h
<1>4. ASSUME Undisturbed, NEW k \in DOMAIN log, published'[k] > 0
      PROVE  Taken(k)' \/ (published[k] > 0 /\ (Taken(k) => Taken(k)'))
  <2>1. running' = [running EXCEPT ![i][h] = @ + 1]
    BY <1>1, <1>4, DeliverStarts
  <2>2. running'[i][h] > 0 /\ \A j \in Relays : running[j][k] > 0 => running'[j][k] > 0
    BY <1>2, <1>3, <2>1
  <2>3. k = h \/ published[k] > 0
    BY <1>1, <1>2, <1>3, <1>4
  <2> QED BY <1>1, <2>2, <2>3 DEF Taken
<1> QED BY <1>1, <1>4, TakenFrame

\* A handler that ends has settled the order, unless it refused or failed.
LEMMA EndTaken ==
    ASSUME CheckoutInv, HandsExplained, PublishedTaken, [Next]_vars,
           NEW p \in Requests, NEW d \in Deliveries, EndsOrThrows(p, d)
    PROVE  PublishedTaken'
<1>0. PICK h \in Rows, i \in Relays : h = RowOf(p) /\ i = host[<<p, d>>]
  BY RowOfPayment DEF EndsOrThrows, CheckoutInv
<1>1. /\ stops' = stops /\ log' = log /\ published' = published
      /\ running' = [running EXCEPT ![i][h] = @ - 1]
      /\ \/ handled' = handled \cup {h}
         \/ handled' = handled /\ (SettleThrows(p, d) \/ HandlerFails(p, d))
  BY <1>0 DEF EndsOrThrows, Relay!HandlerEnds
<1>2. running \in [Relays -> [Rows -> Nat]]
  BY DEF CheckoutInv, RelayFacts!RelayInv, RelayFacts!TypeOK
<1>3. h \in DOMAIN log /\ log[h] = p
  BY <1>0, RowOfPayment DEF EndsOrThrows, CheckoutInv
<1>4. DOMAIN log \subseteq Rows
  BY LogFits DEF CheckoutInv, JoinInv, LogInv
<1>5. h \in handled' \/ Excused(p)'
  <2>1. CASE SettleThrows(p, d)
    BY <2>1, RefusalExcused, ExcusedKept DEF CheckoutInv
  <2>2. CASE HandlerFails(p, d)
    BY <2>2, ErrorExcused DEF CheckoutInv, Excused
  <2> QED BY <1>1, <2>1, <2>2
<1>6. (Taken(h) \/ Excused(log[h]))'
  BY <1>1, <1>3, <1>5 DEF Taken, Excused, OtherFailed, FailedToHandle, OrderOf
<1>7. ASSUME NEW k \in DOMAIN log, k # h PROVE Taken(k) => Taken(k)'
  <2>1. \A j \in Relays : running'[j][k] = running[j][k]
    BY <1>1, <1>2, <1>3, <1>4, <1>7
  <2> QED BY <1>1, <2>1 DEF Taken
<1> QED BY <1>1, <1>3, <1>6, <1>7, TakenFrame

LEMMA PublishedTakenNext ==
    ASSUME CheckoutInv, LossInv, [CheckoutNext]_allVars
    PROVE  PublishedTaken'
<1>0. [Next]_vars
  BY PayOrderStep
<1>1. CASE UNCHANGED <<published, handled, running, stops, log>>
  <2>1. \A k \in DOMAIN log : Taken(k) => Taken(k)'
    BY <1>1 DEF Taken
  <2> QED BY <1>0, <1>1, <2>1, TakenFrame DEF LossInv
<1>2. ASSUME NEW r \in Requests, Conclude(r) PROVE PublishedTaken'
  <2>1. UNCHANGED <<published, handled, running, stops>>
    BY <1>2 DEF Conclude, Relay!Append
  <2>2. /\ Len(log) + 1 \in Rows /\ DOMAIN log' = DOMAIN log \cup {Len(log) + 1}
        /\ \A k \in DOMAIN log : log'[k] = log[k]
    BY <1>2, ConcludeLogs DEF CheckoutInv, JoinInv
  <2>3. Len(log) \in Nat /\ DOMAIN log = 1 .. Len(log)
    BY LogFits DEF CheckoutInv, JoinInv, LogInv
  <2>4. ~ (published[Len(log) + 1] > 0)
    BY <2>2, <2>3 DEF CheckoutInv, JoinInv, RowsLogged
  <2>5. \A k \in DOMAIN log : Taken(k) => Taken(k)'
    BY <2>1 DEF Taken
  <2> QED BY <1>0, <2>1, <2>2, <2>4, <2>5, TakenFrame DEF LossInv
<1>3. ASSUME NEW i \in Relays, Poll(i) PROVE UNCHANGED <<published, handled, running, stops, log>>
  BY <1>3 DEF Poll, Relay!Boot, Relay!DrainOver, Relay!Claim, Relay!EndClaim, Relay!Mark
<1>4. ASSUME NEW i \in Relays, Kill(i) PROVE PublishedTaken'
  <2>1. stops \in Nat /\ stops' = stops + 1
    BY <1>4 DEF Kill, Relay!Crash, CheckoutInv, RelayFacts!RelayInv, RelayFacts!TypeOK
  <2> QED BY <2>1 DEF PublishedTaken, Undisturbed
<1>5. ASSUME NEW i \in Relays, Deliver(i) PROVE PublishedTaken'
  BY <1>0, <1>5, DeliverTaken DEF LossInv
<1>6. ASSUME NEW p \in Requests, NEW d \in Deliveries, EndsOrThrows(p, d) PROVE PublishedTaken'
  BY <1>0, <1>6, EndTaken DEF LossInv
<1>7. ASSUME NEW r \in Requests, Accept(r) \/ Work(r) \/ Rollback(r)
      PROVE  UNCHANGED <<published, handled, running, stops, log>>
  BY <1>7 DEF Accept, Work, Rollback, relayVars
<1>8. ASSUME NEW p \in Requests, NEW d \in Deliveries, ReadsOrder(p, d)
      PROVE  UNCHANGED <<published, handled, running, stops, log>>
  BY <1>8 DEF ReadsOrder, relayVars
<1>9. ASSUME Rest \/ UNCHANGED allVars
      PROVE  UNCHANGED <<published, handled, running, stops, log>>
  BY <1>9 DEF Rest, allVars, relayVars
<1> QED BY <1>1, <1>2, <1>3, <1>4, <1>5, <1>6, <1>7, <1>8, <1>9 DEF CheckoutNext

LEMMA LossInvInit == CheckoutInit => LossInv
<1> SUFFICES ASSUME CheckoutInit PROVE LossInv
  OBVIOUS
<1>1. HandsExplained
  BY DEF CheckoutInit, Init, HandsExplained, OrderStatus
<1>2. QuietBoot /\ PublishedTaken
  BY DEF CheckoutInit, Init, QuietBoot, PublishedTaken
<1> QED BY <1>1, <1>2 DEF LossInv

LEMMA LossInvNext == CheckoutInv /\ LossInv /\ [CheckoutNext]_allVars => LossInv'
<1> SUFFICES ASSUME CheckoutInv, LossInv, [CheckoutNext]_allVars PROVE LossInv'
  OBVIOUS
<1>1. HandsExplained'
  BY PayOrderStep, HandsNext DEF CheckoutInv, LossInv
<1> QED BY <1>1, QuietBootNext, PublishedTakenNext DEF LossInv

\* While no process is killed, and if the handlers are on the bus before anything is
\* published, an outcome gets lost in two cases only: its handler failed on the
\* database, or another payment of the same order failed, and the order was read as
\* failed by the handler of a success.
THEOREM LossesAreExplained == CheckoutSpec => []LossExplained
<1>1. CheckoutInv /\ LossInv => LossExplained
  <2> SUFFICES ASSUME CheckoutInv, LossInv, NEW k \in DOMAIN log, Lost(k), Undisturbed
               PROVE  Excused(log[k])
    BY DEF LossExplained, Undisturbed, Excused, OtherFailed
  <2>1. k \in Rows
    BY LogFits DEF CheckoutInv, JoinInv, LogInv
  <2>2. published[k] > 0
    BY <2>1 DEF CheckoutInv, RelayFacts!RelayInv, RelayFacts!ProcessedWasPublished, Lost
  <2>3. ~ Taken(k)
    BY DEF Taken, Lost
  <2> QED BY <2>2, <2>3 DEF LossInv, PublishedTaken
<1> QED BY <1>1, LossInvInit, LossInvNext, CheckoutInvHolds, PTL DEF CheckoutSpec

\* No event that was given up as done is lost, but those a handler failed on.
NothingElseLost ==
    Undisturbed => \A k \in DOMAIN log : Lost(k) => FailedToHandle(log[k])

\* With one key per order the second case is gone: while no process is killed, whatever
\* the retries and the number of instances, an outcome whose row is marked reached a
\* handler that returned or still runs, or one that failed on the database.
THEOREM OneKeyLosesByErrorOnly == OneKeyPerOrder => (CheckoutSpec => []NothingElseLost)
<1> SUFFICES ASSUME OneKeyPerOrder PROVE CheckoutSpec => []NothingElseLost
  OBVIOUS
<1>1. CheckoutInv /\ LossExplained => NothingElseLost
  <2> SUFFICES ASSUME CheckoutInv, LossExplained, NEW k \in DOMAIN log, Lost(k), Undisturbed,
                      ~ FailedToHandle(log[k])
               PROVE  FALSE
    BY DEF NothingElseLost
  <2>1. log[k] \in Requests
    BY DEF CheckoutInv, JoinInv, LogInv
  <2>2. PICK q \in Requests \ {log[k]} :
          /\ payment[log[k]].status = "succeeded" /\ payment[q].status = "failed"
          /\ OrderOf(q) = OrderOf(log[k])
    BY DEF LossExplained, Undisturbed
  <2> QED BY <2>1, <2>2, OnePaymentPerOrder DEF CheckoutInv, Persisted
<1> QED BY <1>1, LossesAreExplained, CheckoutInvHolds, PTL

-----------------------------------------------------------------------------
(* What a customer of the application can rely on *)

\* Through kills, restarts and repeated events: a payment that is reported as
\* succeeded was charged in full and once, one reported as failed was given back
\* where that is possible, and one key never charges twice.
THEOREM CheckoutCharges ==
    CheckoutSpec =>
        [](/\ SucceededFullyCharged /\ FailedFullyRefunded
           /\ OneChargePerAllocation /\ KeyNamesOnePayment)
<1> QED BY CheckoutPays, SuccessIsPaidInFull, FailureIsRefunded, ChargedOncePerAllocation,
           IdempotencyKeyIsUnique, PTL DEF ImplementsPayOrder
=============================================================================
