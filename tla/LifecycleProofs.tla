-------------------------- MODULE LifecycleProofs --------------------------
(***************************************************************************)
(* A client that uses one key for an order sees the life of an order that  *)
(* OrderLifecycle describes, for every set of requests and however they    *)
(* overlap, crash and are retried: PayOrder implements OrderLifecycle,     *)
(* and an order that settled stays settled.                                *)
(***************************************************************************)
EXTENDS PayOrderProofs

\* Two payments of one order would have the same key.
LEMMA OnePaymentPerOrder ==
    ASSUME OneKeyPerOrder, TypeInv, PaymentInv,
           NEW p \in Requests, NEW q \in Requests, OrderOf(p) = OrderOf(q)
    PROVE  Key(p) = Key(q) /\ (Persisted(p) /\ Persisted(q) => p = q)
<1>1. cmd[p] \in Commands /\ cmd[q] \in Commands /\ cmd[p].order = cmd[q].order
  BY DEF TypeInv, TypeOK, OrderOf
<1>2. cmd[p].key = cmd[q].key /\ cmd[p].key # NoKey
  BY <1>1 DEF OneKeyPerOrder
<1>3. Key(p) = Key(q)
  BY <1>2 DEF Key
<1> QED BY <1>3 DEF PaymentInv, KeyNamesOnePayment

\* The claim opens a pending order: whoever claimed it before had the same key.
LEMMA ClaimOpens ==
    ASSUME OneKeyPerOrder, TypeInv, PaymentInv, NEW r \in Requests, Claim(r)
    PROVE  Lifecycle!Open(r)
<1>1. /\ cmd' = cmd /\ OrderOf(r) \in Orders /\ payment[r].status = "none"
      /\ order' = [order EXCEPT ![OrderOf(r)] = "processing"]
      /\ payment' = [payment EXCEPT ![r].status = "initiated"]
      /\ ~ \E p \in Requests : Persisted(p) /\ Key(p) = Key(r)
  BY DEF TypeInv, Admitted, AfterRead, Claim, Initiate, KeyTaken, Replay,
         PaymentInv, StatusMatchesPc, BeforeClaim
<1>2. order[OrderOf(r)] = "pending"
  <2>1. \A p \in Requests : OrderOf(p) = OrderOf(r) => ~ Persisted(p)
    BY <1>1, OnePaymentPerOrder
  <2> QED BY <1>1, <2>1 DEF PaymentInv, PendingIffUnclaimed
<1>3. [p \in Requests |-> payment[p].status]'
        = [[p \in Requests |-> payment[p].status] EXCEPT ![r] = "initiated"]
  BY <1>1 DEF TypeInv, TypeOK
<1>4. [p \in Requests |-> OrderOf(p)]' = [p \in Requests |-> OrderOf(p)]
  BY <1>1 DEF OrderOf
<1> QED BY <1>1, <1>2, <1>3, <1>4 DEF Lifecycle!Open

\* The final transaction concludes the payment.
LEMMA FinalConcludes ==
    ASSUME TypeInv, PaymentInv, NEW r \in Requests, FinalizeSuccess(r) \/ FinalizeFailed(r)
    PROVE  \E outcome \in {"succeeded", "failed"} : Lifecycle!Conclude(r, outcome)
<1>1. /\ cmd' = cmd /\ order' = order /\ payment[r].status = "initiated"
      /\ \E outcome \in {"succeeded", "failed"} :
           payment' = [payment EXCEPT ![r].status = outcome]
  BY DEF FinalizeSuccess, FinalizeFailed, MarkSucceeded, MarkFailed, PaymentInv,
         StatusMatchesPc, Charging
<1>2. PICK outcome \in {"succeeded", "failed"} :
        payment' = [payment EXCEPT ![r].status = outcome]
  BY <1>1
<1>3. [p \in Requests |-> payment[p].status]'
        = [[p \in Requests |-> payment[p].status] EXCEPT ![r] = outcome]
  BY <1>2 DEF TypeInv, TypeOK
<1>4. [p \in Requests |-> OrderOf(p)]' = [p \in Requests |-> OrderOf(p)]
  BY <1>1 DEF OrderOf
<1>5. Lifecycle!Conclude(r, outcome)
  BY <1>1, <1>3, <1>4 DEF Lifecycle!Conclude
<1> QED BY <1>5

\* A handler settles the order once, as the event says: an order that settled
\* settled with the same payment.
LEMMA HandlerSettles ==
    ASSUME OneKeyPerOrder, TypeInv, PaymentInv,
           NEW p \in Requests, NEW d \in Deliveries, Handle(p, d)
    PROVE  Lifecycle!Settle(p) \/ UNCHANGED Lifecycle!vars
<1>1. cmd' = cmd /\ payment' = payment
  BY DEF Handle, HandlerRead, HandlerFails, SettlePaid, SettleThrows, SettleFailed, database
<1>2. /\ [q \in Requests |-> payment[q].status]' = [q \in Requests |-> payment[q].status]
      /\ [q \in Requests |-> OrderOf(q)]' = [q \in Requests |-> OrderOf(q)]
  BY <1>1 DEF OrderOf
<1>3. CASE order' = order
  BY <1>2, <1>3 DEF Lifecycle!vars
<1>4. ASSUME NEW name \in EventName, <<name, p>> \in outbox
      PROVE  /\ OrderOf(p) \in Orders /\ order[OrderOf(p)] # "pending"
             /\ \A q \in Requests : Persisted(q) /\ OrderOf(q) = OrderOf(p) => q = p
  <2>1. Persisted(p) /\ OrderOf(p) \in Orders
    BY <1>4 DEF TypeInv, RowsReferToRows
  <2>2. \A q \in Requests : Persisted(q) /\ OrderOf(q) = OrderOf(p) => q = p
    BY <2>1, OnePaymentPerOrder
  <2> QED BY <2>1, <2>2 DEF PaymentInv, PendingIffUnclaimed
<1>5. CASE SettlePaid(p, d)
  <2>1. /\ <<"payment.succeeded", p>> \in outbox /\ payment[p].status = "succeeded"
        /\ order' = [order EXCEPT ![OrderOf(p)] = "paid"]
    BY <1>5 DEF SettlePaid, SaveStatus, PaymentInv, EventsMatchStatus
  <2>2. /\ OrderOf(p) \in Orders /\ order[OrderOf(p)] # "pending"
        /\ \A q \in Requests : Persisted(q) /\ OrderOf(q) = OrderOf(p) => q = p
    BY <1>4, <2>1 DEF EventName
  <2>3. order[OrderOf(p)] # "failed"
    BY <2>1, <2>2 DEF PaymentInv, SettledByPayment, Persisted
  <2>4. order[OrderOf(p)] \in {"processing", "paid"}
    BY <2>2, <2>3 DEF TypeInv, TypeOK, OrderStatus
  <2>5. CASE order[OrderOf(p)] = "paid"
    <3>1. order' = order
      BY <2>1, <2>5 DEF TypeInv, TypeOK
    <3> QED BY <1>3, <3>1
  <2>6. CASE order[OrderOf(p)] = "processing"
    BY <1>2, <2>1, <2>6 DEF Lifecycle!Settle
  <2> QED BY <2>4, <2>5, <2>6
<1>6. CASE SettleFailed(p, d) /\ order' # order
  <2>1. /\ <<"payment.failed", p>> \in outbox /\ payment[p].status = "failed"
        /\ order' = [order EXCEPT ![OrderOf(p)] = "failed"]
    BY <1>6 DEF SettleFailed, SaveStatus, PaymentInv, EventsMatchStatus
  <2>2. /\ OrderOf(p) \in Orders /\ order[OrderOf(p)] # "pending"
        /\ \A q \in Requests : Persisted(q) /\ OrderOf(q) = OrderOf(p) => q = p
    BY <1>4, <2>1 DEF EventName
  <2>3. order[OrderOf(p)] # "paid"
    BY <2>1, <2>2 DEF PaymentInv, SettledByPayment, Persisted
  <2>4. order[OrderOf(p)] \in {"processing", "failed"}
    BY <2>2, <2>3 DEF TypeInv, TypeOK, OrderStatus
  <2>5. order[OrderOf(p)] = "processing"
    BY <1>6, <2>1, <2>4 DEF TypeInv, TypeOK
  <2> QED BY <1>2, <2>1, <2>5 DEF Lifecycle!Settle
<1>7. CASE HandlerRead(p, d) \/ SettleThrows(p, d) \/ HandlerFails(p, d)
  BY <1>3, <1>7 DEF HandlerRead, SettleThrows, HandlerFails, database
<1> QED BY <1>3, <1>5, <1>6, <1>7 DEF Handle

\* Whatever else happens, no status changes.
LEMMA OthersStutter ==
    ASSUME UNCHANGED <<order, cmd>>,
           \A p \in Requests : payment'[p].status = payment[p].status
    PROVE  UNCHANGED Lifecycle!vars
BY DEF Lifecycle!vars, OrderOf

LEMMA LifecycleInit == Init => Lifecycle!Init
<1> SUFFICES ASSUME Init PROVE Lifecycle!Init
  OBVIOUS
<1>1. order = [o \in Orders |-> "pending"] /\ cmd \in [Requests -> Commands]
  BY DEF Init
<1>2. [p \in Requests |-> payment[p].status] = [p \in Requests |-> "none"]
  BY DEF Init
<1>3. [p \in Requests |-> OrderOf(p)] \in [Requests -> {c.order : c \in Commands}]
  BY <1>1 DEF OrderOf
<1> QED BY <1>1, <1>2, <1>3 DEF Lifecycle!Init

LEMMA LifecycleNext ==
    ASSUME OneKeyPerOrder, TypeInv, PaymentInv, [Next]_vars
    PROVE  [Lifecycle!Next]_(Lifecycle!vars)
<1>1. CASE UNCHANGED vars
  BY <1>1, OthersStutter DEF vars
<1>2. ASSUME NEW r \in Requests, RequestStep(r)
      PROVE  [Lifecycle!Next]_(Lifecycle!vars)
  <2>1. CASE Claim(r)
    BY <2>1, ClaimOpens DEF Lifecycle!Next
  <2>2. CASE FinalizeSuccess(r) \/ FinalizeFailed(r)
    BY <2>2, FinalConcludes DEF Lifecycle!Next
  <2>3. CASE /\ order' = order
             /\ \A k \in Requests : payment'[k].status = payment[k].status
    <3>1. cmd' = cmd
      BY <1>2, RequestMoves DEF TypeInv, TypeOK, Labels
    <3> QED BY <2>3, <3>1, OthersStutter
  <2> QED BY <1>2, <2>1, <2>2, <2>3, StatusMoves DEF TypeInv
<1>3. ASSUME NEW t \in TopUps, TopUp(t) PROVE [Lifecycle!Next]_(Lifecycle!vars)
  <2>1. UNCHANGED <<order, payment, cmd>>
    BY <1>3 DEF TopUp, TopUpRead, TopUpConnect, TopUpSave, database
  <2> QED BY <2>1, OthersStutter
<1>4. ASSUME NEW p \in Requests, NEW d \in Deliveries, Handle(p, d)
      PROVE  [Lifecycle!Next]_(Lifecycle!vars)
  BY <1>4, HandlerSettles DEF Lifecycle!Next
<1>5. CASE AllOver
  BY <1>1, <1>5 DEF AllOver
<1> QED BY <1>1, <1>2, <1>3, <1>4, <1>5 DEF Next, RequestStep

\* Clients that use one key for an order get what OrderLifecycle says: an order is
\* opened once, by one payment, and settles once, with that payment's outcome.
THEOREM OneKeyGivesLifecycle == OneKeyPerOrder => (Spec => ImplementsLifecycle)
<1> SUFFICES ASSUME OneKeyPerOrder PROVE Spec => ImplementsLifecycle
  OBVIOUS
<1>1. TypeInv /\ PaymentInv /\ [Next]_vars => [Lifecycle!Next]_(Lifecycle!vars)
  BY LifecycleNext
<1> QED
  BY <1>1, LifecycleInit, TypeInvHolds, PaymentInvHolds, PTL
  DEF Spec, ImplementsLifecycle, Lifecycle!Spec

-----------------------------------------------------------------------------
(* A settled order stays settled *)

\* No step of an OrderLifecycle leaves "paid" or "failed".
LEMMA LifecycleSettles ==
    ASSUME TypeInv, [Lifecycle!Next]_(Lifecycle!vars),
           NEW o \in Orders, order[o] \in {"paid", "failed"}
    PROVE  order'[o] = order[o]
<1>1. order \in [Orders -> OrderStatus]
  BY DEF TypeInv, TypeOK
<1>2. ASSUME NEW p \in Requests, Lifecycle!Open(p) PROVE order'[o] = order[o]
  <2>1. PICK other \in Orders :
          order[other] = "pending" /\ order' = [order EXCEPT ![other] = "processing"]
    BY <1>2 DEF Lifecycle!Open
  <2> QED BY <1>1, <2>1
<1>3. ASSUME NEW p \in Requests, NEW outcome \in {"succeeded", "failed"},
             Lifecycle!Conclude(p, outcome)
      PROVE  order'[o] = order[o]
  BY <1>3 DEF Lifecycle!Conclude
<1>4. ASSUME NEW p \in Requests, Lifecycle!Settle(p) PROVE order'[o] = order[o]
  <2>1. \E status \in OrderStatus : \E other :
          order[other] = "processing" /\ order' = [order EXCEPT ![other] = status]
    BY <1>4 DEF Lifecycle!Settle, OrderStatus
  <2> QED BY <1>1, <2>1
<1> QED BY <1>2, <1>3, <1>4 DEF Lifecycle!Next, Lifecycle!vars

\* With one key per order a paid order stays paid and a failed one failed: no late
\* claim, second delivery or stale read of a handler takes it back.  (Without that
\* hypothesis a claim on a stale read can: it writes "processing" whatever the
\* order has become.)
THEOREM SettledOrdersStay == OneKeyPerOrder => (Spec => SettledForGood)
<1> SUFFICES ASSUME OneKeyPerOrder PROVE Spec => SettledForGood
  OBVIOUS
<1>1. TypeInv /\ PaymentInv /\ [Next]_vars =>
        [\A o \in Orders : order[o] \in {"paid", "failed"} => order'[o] = order[o]]_vars
  BY LifecycleNext, LifecycleSettles
<1> QED BY <1>1, TypeInvHolds, PaymentInvHolds, PTL DEF Spec, SettledForGood

\* What two payments of one order with different outcomes have is two keys.
LEMMA OutcomesHaveKeys ==
    ASSUME PaymentInv, NEW p \in Requests, NEW q \in Requests,
           Persisted(p), Persisted(q), payment[p].status # payment[q].status
    PROVE  Key(p) # Key(q)
BY DEF PaymentInv, KeyNamesOnePayment

\* Whoever the clients are, an order that settled moves only if it has two payments under
\* two keys: the claim that puts it back met no payment with its own key, and a handler
\* that overwrites it was sent by another payment than the one that settled it.
THEOREM SettledMovesByTwoKeys == Spec => SettledUnlessTwoKeys
<1>1. ASSUME TypeInv, PaymentInv, [Next]_vars, NEW o \in Orders,
             order[o] \in {"paid", "failed"}, order'[o] # order[o]
      PROVE  \E p, q \in Requests :
               /\ OrderOf(p) = o /\ OrderOf(q) = o /\ Key(p) # Key(q)
               /\ payment'[p].status # "none" /\ payment'[q].status # "none"
  <2>1. PICK q \in Requests :
          /\ OrderOf(q) = o /\ Persisted(q)
          /\ order[o] = "paid" => payment[q].status = "succeeded"
          /\ order[o] = "failed" => payment[q].status = "failed"
    BY <1>1 DEF PaymentInv, SettledByPayment, Persisted
  <2>2. /\ order \in [Orders -> OrderStatus]
        /\ payment \in [Requests -> [status : PaymentStatus, attempts : Seq(Attempt)]]
    BY <1>1 DEF TypeInv, TypeOK
  <2>3. ASSUME NEW r \in Requests, Claim(r)
        PROVE  /\ OrderOf(r) = o /\ OrderOf(q) = o /\ Key(r) # Key(q)
               /\ payment'[r].status # "none" /\ payment'[q].status # "none"
    <3>1. /\ order' = [order EXCEPT ![OrderOf(r)] = "processing"]
          /\ payment' = [payment EXCEPT ![r].status = "initiated"]
          /\ ~ \E p \in Requests : Persisted(p) /\ Key(p) = Key(r)
      BY <2>3 DEF Claim, Initiate, KeyTaken, Replay
    <3>2. OrderOf(r) = o
      BY <1>1, <2>2, <3>1
    <3> QED BY <2>1, <2>2, <3>1, <3>2 DEF Persisted
  <2>4. ASSUME NEW p \in Requests, NEW d \in Deliveries, Handle(p, d)
        PROVE  /\ OrderOf(p) = o /\ OrderOf(q) = o /\ Key(p) # Key(q)
               /\ payment'[p].status # "none" /\ payment'[q].status # "none"
    <3>1. /\ payment' = payment
          /\ \/ order' = order
             \/ /\ order' = [order EXCEPT ![OrderOf(p)] = "paid"]
                /\ <<"payment.succeeded", p>> \in outbox
             \/ /\ order' = [order EXCEPT ![OrderOf(p)] = "failed"]
                /\ <<"payment.failed", p>> \in outbox
      BY <2>4 DEF Handle, HandlerRead, HandlerFails, SettlePaid, SettleThrows, SettleFailed,
         database, SaveStatus
    <3>2. /\ OrderOf(p) = o
          /\ \/ order'[o] = "paid" /\ payment[p].status = "succeeded"
             \/ order'[o] = "failed" /\ payment[p].status = "failed"
      BY <1>1, <2>2, <3>1 DEF PaymentInv, EventsMatchStatus
    <3>3. Persisted(p) /\ payment[p].status # payment[q].status
      BY <1>1, <2>1, <3>2 DEF Persisted
    <3> QED BY <1>1, <2>1, <3>1, <3>2, <3>3, OutcomesHaveKeys DEF Persisted
  <2>5. PICK r \in Requests : RequestStep(r) \/ \E d \in Deliveries : Handle(r, d)
    <3>1. ASSUME NEW t \in TopUps, TopUp(t) PROVE order' = order
      BY <3>1 DEF TopUp, TopUpRead, TopUpConnect, TopUpSave, database
    <3>2. ASSUME AllOver \/ UNCHANGED vars PROVE order' = order
      BY <3>2 DEF AllOver, vars
    <3> QED BY <1>1, <3>1, <3>2 DEF Next, RequestStep
  <2>6. CASE RequestStep(r)
    <3>1. Claim(r)
      BY <1>1, <2>6, StatusMoves DEF TypeInv, FinalizeSuccess, FinalizeFailed
    <3> QED BY <2>3, <3>1
  <2> QED BY <2>4, <2>5, <2>6
<1>2. TypeInv /\ PaymentInv /\ [Next]_vars =>
        [\A o \in Orders :
           order[o] \in {"paid", "failed"} /\ order'[o] # order[o] =>
              \E p, q \in Requests :
                  /\ OrderOf(p) = o /\ OrderOf(q) = o /\ Key(p) # Key(q)
                  /\ payment'[p].status # "none" /\ payment'[q].status # "none"]_vars
  BY <1>1
<1> QED BY <1>2, TypeInvHolds, PaymentInvHolds, PTL DEF Spec, SettledUnlessTwoKeys

\* With one key per order only a pending order is claimed, although the claim looks
\* at an order it read earlier and updates the row without a condition: the unique
\* index refuses every claim that comes too late.
THEOREM OneKeyClaimsPending == OneKeyPerOrder => (Spec => OnlyPendingIsClaimed)
<1> SUFFICES ASSUME OneKeyPerOrder PROVE Spec => OnlyPendingIsClaimed
  OBVIOUS
<1>1. ASSUME TypeInv, PaymentInv, [Next]_vars, NEW r \in Requests,
             payment[r].status = "none", payment'[r].status # "none"
      PROVE  order[OrderOf(r)] = "pending"
  <2>1. PICK k \in Requests : RequestStep(k)
    <3>1. ASSUME NEW t \in TopUps, TopUp(t) PROVE payment' = payment
      BY <3>1 DEF TopUp, TopUpRead, TopUpConnect, TopUpSave, database
    <3>2. ASSUME NEW q \in Requests, NEW d \in Deliveries, Handle(q, d)
          PROVE  payment' = payment
      BY <3>2 DEF Handle, HandlerRead, HandlerFails, SettlePaid, SettleThrows, SettleFailed,
         database
    <3>3. ASSUME AllOver \/ UNCHANGED vars PROVE payment' = payment
      BY <3>3 DEF AllOver, vars
    <3> QED BY <1>1, <3>1, <3>2, <3>3 DEF Next, RequestStep
  <2>2. Claim(r) \/ FinalizeSuccess(r) \/ FinalizeFailed(r)
    BY <1>1, <2>1, StatusMoves DEF TypeInv
  <2>3. Claim(r)
    BY <1>1, <2>2 DEF FinalizeSuccess, FinalizeFailed, PaymentInv, StatusMatchesPc, Charging
  <2>4. Lifecycle!Open(r)
    BY <1>1, <2>3, ClaimOpens
  <2> QED BY <2>4 DEF Lifecycle!Open
<1>2. TypeInv /\ PaymentInv /\ [Next]_vars =>
        [\A r \in Requests :
           ~ Persisted(r) /\ payment'[r].status # "none" => order[OrderOf(r)] = "pending"]_vars
  BY <1>1 DEF Persisted
<1> QED BY <1>2, TypeInvHolds, PaymentInvHolds, PTL DEF Spec, OnlyPendingIsClaimed
=============================================================================
