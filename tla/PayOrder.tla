------------------------------ MODULE PayOrder ------------------------------
(***************************************************************************)
(* Paying an order: POST /orders/:id/pay, PayOrderHandler, the providers   *)
(* it charges and the order context's handlers of the events it emits.     *)
(*                                                                         *)
(* Postgres runs at READ COMMITTED.  A database transaction is modelled by *)
(* its reads, each an action of its own, and by its commit: everything it  *)
(* writes becomes visible in the action that stands for the commit.  The   *)
(* one row that two transactions update and one of them keeps locked over  *)
(* several steps, the customer's wallet, has its lock in the state.  Every *)
(* await of the code that lets another request run separates two actions.  *)
(*                                                                         *)
(* A request is identified with the payment it would create.               *)
(*                                                                         *)
(* A definition whose name begins with Faulty is no part of the            *)
(* specification: it is the definition below it with a plausible mistake,  *)
(* and shows that a property fails when the code has that mistake.         *)
(***************************************************************************)
EXTENDS Integers, SequencesExt, HttpErrors

CONSTANTS
    Requests,        \* HTTP requests to pay an order
    Commands,        \* the requests a client may send
    ApiKeys,         \* API_KEYS, parsed
    NoKey,           \* the key of a request without an Idempotency-Key header
    NoCustomer,      \* the customer of a request without an X-Customer-Id header
    Orders,          \* orders that exist
    Customers,       \* customers that exist
    Owner,           \* Owner[o]: the customer order o belongs to
    Total,           \* Total[o]: totalCents of order o
    Names,           \* the provider names a client or the chain may mention
    Providers,       \* those of the registered providers
    Wallet,          \* the provider kept in our database
    NoProvider,      \* the provider of an allocation that names none
    Chain,           \* PAYMENT_PROVIDER_CHAIN, parsed
    Refundable,      \* the providers that implement refund()
    FlakyRefunds,    \* the external providers whose refund() may throw
    InitialBalance,  \* InitialBalance[c]: the wallet of customer c
    TopUps,          \* POST /customers/:id/wallet/top-up requests
    TopUpOf,         \* TopUpOf[t]: their customer and amount
    PoolSize,        \* the connections to the database an instance may have open
    Deliveries,      \* each event reaches its handler at most once per member
    MayAbort,        \* the requests that a crash or a database error may stop
    MayFail,         \* the deliveries whose handler a database error may stop
    NoRequest        \* the holder of a row lock nobody holds

Allocation == [provider : Names \cup {NoProvider}, amount : Int]

ASSUME PayAssumption ==
    /\ Orders # {} /\ Customers # {}
    /\ Owner \in [Orders -> Customers] /\ NoCustomer \notin Customers
    /\ Total \in [Orders -> Nat]
    /\ \A c \in Commands : c.allocations \in Seq(Allocation)
    /\ Wallet \in Providers /\ Providers \subseteq Names /\ NoProvider \notin Names
    /\ Chain \in Seq(Names)
    /\ Wallet \in Refundable /\ Refundable \subseteq Providers
    /\ FlakyRefunds \subseteq Providers \ {Wallet}
    /\ InitialBalance \in [Customers -> Nat]
    /\ TopUpOf \in [TopUps -> [customer : Customers, amount : Nat]]
    /\ IsFiniteSet(Requests) /\ IsFiniteSet(TopUps)
    /\ PoolSize \in Nat \ {0}
    /\ MayAbort \subseteq Requests /\ MayFail \subseteq Deliveries
    /\ NoRequest \notin Requests

VARIABLES
    \* ---- committed rows ----
    order,     \* order[o]: orders.status
    payment,   \* payment[p]: the row of payments with its payment_attempts
    wallet,    \* wallet[c]: customers.wallet_balance_cents
    outbox,    \* rows of domain_events_outbox, as <<event name, payment>>
    \* ---- the outside world ----
    ledger,    \* what the external providers did: charges and refunds, by ref
    \* ---- the processes ----
    cmd,       \* cmd[r]: what request r asks for
    pc,        \* pc[r]: where PayOrderHandler.execute stands for r
    at,        \* at[r]: the loops' counters: allocation, candidate, refunds done
    successes, \* successes[r]: the charges that compensate() would refund
    draft,     \* draft[r]: the wallet balance of the Customer object r holds
    lock,      \* lock[c]: who holds the lock of customer c's row
    topup,     \* topup[t]: where TopUpWalletHandler stands
    hand       \* hand[<<p, d>>]: what delivery d of p's final event has read, how it ended

database == <<order, payment, wallet, outbox>>
process == <<pc, at, successes, draft, lock>>
vars == <<order, payment, wallet, outbox, ledger, cmd, pc, at, successes, draft, lock,
          topup, hand>>

-----------------------------------------------------------------------------
(* Types *)

OrderStatus == {"pending", "processing", "paid", "failed"}
PaymentStatus == {"none", "initiated", "succeeded", "failed"}
EventName == {"payment.initiated", "payment.succeeded", "payment.failed"}

\* `${payment.id}:${index}:${name}`, the key and the reference of a charge.
Ref == Requests \X (Nat \ {0}) \X Providers

Attempt == [provider : Providers, amount : Nat, ok : BOOLEAN, ref : Ref]
Charge == [provider : Providers, amount : Nat, ref : Ref]
Counters == [alloc : Nat \ {0}, cand : Nat \ {0}, undone : Nat]

\* Where a request can be while it runs, the errors that refuse it, and how it can
\* end: refused, answered with a payment, or stopped.
Running == {"lookup", "read", "claim", "charge", "debit", "charged", "declined",
            "finalize", "compensate", "refund"}
Refused == {"UNAUTHORIZED", "BAD_REQUEST", "ORDER_NOT_FOUND", "ORDER_ACCESS_DENIED",
            "ORDER_NOT_PAYABLE", "INVALID_PAYMENT_REQUEST", "UNIQUE_CONSTRAINT"}
Ended == Refused \cup {"replayed", "succeeded", "failed", "aborted"}

-----------------------------------------------------------------------------
(* Helpers *)

\* The controller draws a random key for a request that carries none.
Key(r) == IF cmd[r].key = NoKey THEN <<r>> ELSE <<cmd[r].key>>
OrderOf(r) == cmd[r].order
CustomerOf(r) == cmd[r].customer
Allocations(r) == cmd[r].allocations

Persisted(p) == payment[p].status # "none"

SumAmounts(s) == FoldFunction(LAMBDA a, sum : a.amount + sum, 0, s)

Successful(attempts) == SelectSeq(attempts, LAMBDA a : a.ok)

\* PaymentProviderRegistry.has
Registered(name) == name \in Providers

\* The providers an allocation is tried on.
Candidates(r, i) ==
    LET named == Allocations(r)[i].provider
    IN  IF named = NoProvider THEN Chain ELSE <<named>>

\* Mistake: the reason of a failure is forgotten.
FaultyStage(r, attempts, i, j) ==
    IF i > Len(Allocations(r)) \/ j > Len(Candidates(r, i)) THEN "finalize" ELSE "charge"

\* Where execute() goes next, given the attempts, the allocation i and the
\* candidate j it is about to look at.
Stage(r, attempts, i, j) ==
    IF i > Len(Allocations(r))
    THEN IF SumAmounts(Successful(attempts)) = Total[OrderOf(r)]
         THEN "finalize" ELSE "compensate"
    ELSE IF j > Len(Candidates(r, i)) THEN "compensate" ELSE "charge"

Goto(r, label) == pc' = [pc EXCEPT ![r] = label]

-----------------------------------------------------------------------------
(* Connections: a transaction keeps one until it ends, a statement outside *)
(* of a transaction needs one for a moment                                 *)

\* The transaction of an attempt, and that of a compensation once it has begun.
Connected(r) ==
    \/ pc[r] \in {"debit", "charged", "declined", "refund"}
    \/ pc[r] = "compensate" /\ at[r].undone > 0

FreeConnection ==
    Cardinality({r \in Requests : Connected(r)})
        + Cardinality({t \in TopUps : topup[t].pc = "saving"}) < PoolSize

-----------------------------------------------------------------------------
(* Before the claim: nothing is written *)

\* ApiKeyGuard.
KeyAccepted(r) == cmd[r].apiKey \in ApiKeys

\* CustomerIdGuard.
CustomerNamed(r) == CustomerOf(r) # NoCustomer

\* PaymentController.pay and the DTO's constraints on the body.
WellFormed(s) == s # <<>> /\ \A i \in DOMAIN s : s[i].amount >= 1

\* The guards come first, then the pipes.
Receive(r) ==
    /\ pc[r] = "idle"
    /\ \/ KeyAccepted(r) /\ CustomerNamed(r) /\ WellFormed(Allocations(r)) /\ Goto(r, "lookup")
       \/ KeyAccepted(r) /\ CustomerNamed(r) /\ ~ WellFormed(Allocations(r))
          /\ Goto(r, "BAD_REQUEST")
       \/ ~ (KeyAccepted(r) /\ CustomerNamed(r)) /\ Goto(r, "UNAUTHORIZED")
    /\ UNCHANGED <<database, ledger, cmd, at, successes, draft, lock, topup, hand>>

Replay(r, p) == Persisted(p) /\ Key(p) = Key(r)

SameRequest(r, p) == CustomerOf(p) = CustomerOf(r) /\ OrderOf(p) = OrderOf(r)

Lookup(r) ==
    /\ pc[r] = "lookup" /\ FreeConnection
    /\ \/ \E p \in Requests :
            /\ Replay(r, p)
            /\ Goto(r, IF SameRequest(r, p) THEN "replayed" ELSE "INVALID_PAYMENT_REQUEST")
       \/ /\ ~ \E p \in Requests : Replay(r, p)
          /\ Goto(r, "read")
    /\ UNCHANGED <<database, ledger, cmd, at, successes, draft, lock, topup, hand>>

\* The allocations add up to the order's total and name registered providers.
Covers(r) ==
    /\ SumAmounts(Allocations(r)) = Total[OrderOf(r)]
    /\ \A i \in DOMAIN Allocations(r) :
         /\ Allocations(r)[i].amount > 0
         /\ Allocations(r)[i].provider = NoProvider \/ Registered(Allocations(r)[i].provider)

\* Where the checks of the order that was read lead, in the order they are made in.
Verdict(r) ==
    IF OrderOf(r) \notin Orders THEN "ORDER_NOT_FOUND"
    ELSE IF Owner[OrderOf(r)] # CustomerOf(r) THEN "ORDER_ACCESS_DENIED"
    ELSE IF order[OrderOf(r)] # "pending" THEN "ORDER_NOT_PAYABLE"
    ELSE IF ~ Covers(r) THEN "INVALID_PAYMENT_REQUEST"
    ELSE "claim"

ReadOrder(r) ==
    /\ pc[r] = "read" /\ FreeConnection
    /\ Goto(r, Verdict(r))
    /\ UNCHANGED <<database, ledger, cmd, at, successes, draft, lock, topup, hand>>

-----------------------------------------------------------------------------
(* The claim transaction *)

\* Mistake: no unique index.
FaultyKeyTaken(r) == FALSE

\* The unique index refuses a second row with the same key: all is rolled back.
KeyTaken(r) == \E p \in Requests : Replay(r, p)

ClaimRefused(r) ==
    /\ pc[r] = "claim" /\ FreeConnection
    /\ KeyTaken(r)
    /\ Goto(r, "UNIQUE_CONSTRAINT")
    /\ UNCHANGED <<database, ledger, cmd, at, successes, draft, lock, topup, hand>>

\* What Payment.initiate, markSucceeded and markFailed change, and the event each
\* of them records: the row and the event are stored by one transaction.
Initiate(r) ==
    /\ payment' = [payment EXCEPT ![r].status = "initiated"]
    /\ outbox' = outbox \cup {<<"payment.initiated", r>>}

MarkSucceeded(r) ==
    /\ payment' = [payment EXCEPT ![r].status = "succeeded"]
    /\ outbox' = outbox \cup {<<"payment.succeeded", r>>}

MarkFailed(r) ==
    /\ payment' = [payment EXCEPT ![r].status = "failed"]
    /\ outbox' = outbox \cup {<<"payment.failed", r>>}

\* Mistake: the order is not saved with the payment.
FaultyClaim(r) ==
    /\ pc[r] = "claim" /\ FreeConnection
    /\ ~ KeyTaken(r)
    /\ Initiate(r)
    /\ Goto(r, Stage(r, <<>>, 1, 1))
    /\ UNCHANGED <<order, wallet, ledger, cmd, at, successes, draft, lock, topup, hand>>

\* markProcessing() looks at the Order object read before the transaction, and
\* the UPDATE has no condition on the status: the row may have moved on.
Claim(r) ==
    /\ pc[r] = "claim" /\ FreeConnection
    /\ ~ KeyTaken(r)
    /\ order' = [order EXCEPT ![OrderOf(r)] = "processing"]
    /\ Initiate(r)
    /\ Goto(r, Stage(r, <<>>, 1, 1))
    /\ UNCHANGED <<wallet, ledger, cmd, at, successes, draft, lock, topup, hand>>

-----------------------------------------------------------------------------
(* One attempt: a transaction around provider.charge() and the payment row *)

Amount(r) == Allocations(r)[at[r].alloc].amount
Provider(r) == Candidates(r, at[r].alloc)[at[r].cand]
ChargeRef(r) == <<r, at[r].alloc, Provider(r)>>

\* Mistake: after a success the next candidate is charged as well.
FaultyAdvance(r) == [at[r] EXCEPT !.cand = @ + 1]

\* The loops: after a success the next allocation, else the next candidate.
Advance(r) ==
    IF pc[r] = "charged" THEN [alloc |-> at[r].alloc + 1, cand |-> 1, undone |-> 0]
                         ELSE [at[r] EXCEPT !.cand = @ + 1]

GoOn(r, attempts) ==
    /\ at' = [at EXCEPT ![r] = Advance(r)]
    /\ Goto(r, Stage(r, attempts, Advance(r).alloc, Advance(r).cand))

\* A name of the chain that nobody registered costs nothing.
SkipProvider(r) ==
    /\ pc[r] = "charge" /\ ~ Registered(Provider(r))
    /\ GoOn(r, payment[r].attempts)
    /\ UNCHANGED <<database, ledger, cmd, successes, draft, lock, topup, hand>>

ChargeExternal(r) ==
    /\ pc[r] = "charge" /\ FreeConnection
    /\ Registered(Provider(r)) /\ Provider(r) # Wallet
    /\ \/ /\ ledger' = ledger \cup {<<"charge", ChargeRef(r)>>}
          /\ Goto(r, "charged")
       \/ /\ Goto(r, "declined")
          /\ UNCHANGED ledger
    /\ UNCHANGED <<database, cmd, at, successes, draft, lock, topup, hand>>

\* Customer.debit compares before Money.subtract; topUp and refund are Money.add.
InsufficientFunds(balance, amount) == amount > balance
Debited(balance, amount) == balance - amount
Credited(balance, amount) == balance + amount

\* Mistake: the balance is not compared with the amount.
FaultyChargeWallet(r) ==
    /\ pc[r] = "charge" /\ FreeConnection /\ Provider(r) = Wallet
    /\ draft' = [draft EXCEPT ![r] = Debited(wallet[CustomerOf(r)], Amount(r))]
    /\ Goto(r, "debit")
    /\ UNCHANGED <<database, ledger, cmd, at, successes, lock, topup, hand>>

\* Mistake: the error of Customer.debit is not caught by the provider.
FaultyChargeWalletThrows(r) ==
    LET balance == wallet[CustomerOf(r)] IN
    /\ pc[r] = "charge" /\ FreeConnection /\ Provider(r) = Wallet
    /\ \/ /\ InsufficientFunds(balance, Amount(r))
          /\ Goto(r, "INSUFFICIENT_FUNDS")
          /\ UNCHANGED draft
       \/ /\ ~ InsufficientFunds(balance, Amount(r))
          /\ draft' = [draft EXCEPT ![r] = Debited(balance, Amount(r))]
          /\ Goto(r, "debit")
    /\ UNCHANGED <<database, ledger, cmd, at, successes, lock, topup, hand>>

\* WalletProvider.charge reads the customer and debits the object it read.
ChargeWallet(r) ==
    LET balance == wallet[CustomerOf(r)] IN
    /\ pc[r] = "charge" /\ FreeConnection /\ Provider(r) = Wallet
    /\ \/ /\ InsufficientFunds(balance, Amount(r))
          /\ Goto(r, "declined")
          /\ UNCHANGED draft
       \/ /\ ~ InsufficientFunds(balance, Amount(r))
          /\ draft' = [draft EXCEPT ![r] = Debited(balance, Amount(r))]
          /\ Goto(r, "debit")
    /\ UNCHANGED <<database, ledger, cmd, at, successes, lock, topup, hand>>

\* TypeORM's save() updates the row, to the absolute balance of the object, only
\* if it differs from the row it finds; the UPDATE waits for the row's lock and
\* keeps it until the transaction ends.
SaveCustomer(r) ==
    LET c == CustomerOf(r) IN
    \/ /\ lock[c] # r /\ draft[r] = wallet[c]
       /\ UNCHANGED lock
    \/ /\ lock[c] = r \/ (lock[c] = NoRequest /\ draft[r] # wallet[c])
       /\ lock' = [lock EXCEPT ![c] = r]

\* Mistake: the repository asks for a connection of its own within a transaction.
FaultySaveDebit(r) ==
    /\ pc[r] = "debit" /\ FreeConnection
    /\ SaveCustomer(r)
    /\ Goto(r, "charged")
    /\ UNCHANGED <<database, ledger, cmd, at, successes, draft, topup, hand>>

SaveDebit(r) ==
    /\ pc[r] = "debit"
    /\ SaveCustomer(r)
    /\ Goto(r, "charged")
    /\ UNCHANGED <<database, ledger, cmd, at, successes, draft, topup, hand>>

\* What committing r's transaction does to the customers' rows.
CommitCustomers(r) ==
    /\ wallet' = [c \in Customers |-> IF lock[c] = r THEN draft[r] ELSE wallet[c]]
    /\ lock' = [c \in Customers |-> IF lock[c] = r THEN NoRequest ELSE lock[c]]

\* What compensate() is told of a charge, and what is recorded of an attempt.  The
\* row of a failed attempt has no reference; here it tells which attempt it was.
NewCharge(r) == [provider |-> Provider(r), amount |-> Amount(r), ref |-> ChargeRef(r)]

NewAttempt(r) ==
    [provider |-> Provider(r), amount |-> Amount(r), ok |-> pc[r] = "charged",
     ref |-> ChargeRef(r)]

\* Mistake: the payment is not saved.
FaultyAttempts(r) == payment[r].attempts

\* Mistake: only the new row is kept.
FaultyAttemptsOverwrite(r) == <<NewAttempt(r)>>

Attempts(r) == Append(payment[r].attempts, NewAttempt(r))

\* The attempt is recorded whatever its outcome, in the transaction in which a
\* wallet was debited.
RecordAttempt(r) ==
    /\ pc[r] \in {"charged", "declined"}
    /\ payment' = [payment EXCEPT ![r].attempts = Attempts(r)]
    /\ CommitCustomers(r)
    /\ successes' = IF pc[r] = "charged"
                    THEN [successes EXCEPT ![r] = Append(@, NewCharge(r))] ELSE successes
    /\ GoOn(r, Attempts(r))
    /\ UNCHANGED <<order, outbox, ledger, cmd, draft, topup, hand>>

-----------------------------------------------------------------------------
(* The final transaction *)

FinalizeSuccess(r) ==
    /\ pc[r] = "finalize" /\ FreeConnection
    /\ MarkSucceeded(r)
    /\ Goto(r, "succeeded")
    /\ UNCHANGED <<order, wallet, ledger, cmd, at, successes, draft, lock, topup, hand>>

\* Mistake: the last charge is forgotten.
FaultyRefunding(r) == pc[r] = "compensate" /\ at[r].undone + 1 < Len(successes[r])

\* compensate() walks the successful charges; at[r].undone of them are behind it.
Refunding(r) == pc[r] = "compensate" /\ at[r].undone < Len(successes[r])
ToRefund(r) == successes[r][at[r].undone + 1]
RefundedOne(r) == at' = [at EXCEPT ![r].undone = @ + 1]

\* The first step of the compensating transaction takes a connection.
Connects(r) == Connected(r) \/ FreeConnection

\* A provider without refund() is skipped and an exception is only logged.
RefundSkipped(r) ==
    /\ Refunding(r) /\ Connects(r)
    /\ ToRefund(r).provider \notin Refundable \/ ToRefund(r).provider \in FlakyRefunds
    /\ RefundedOne(r)
    /\ UNCHANGED <<database, ledger, cmd, pc, successes, draft, lock, topup, hand>>

\* The refund leaves at once; the transaction around it is still open.
RefundExternal(r) ==
    /\ Refunding(r) /\ Connects(r)
    /\ ToRefund(r).provider \in Refundable \ {Wallet}
    /\ ledger' = ledger \cup {<<"refund", ToRefund(r).ref>>}
    /\ RefundedOne(r)
    /\ UNCHANGED <<database, cmd, pc, successes, draft, lock, topup, hand>>

\* Mistake: the refund reads the row outside of its transaction.
FaultyRefundWallet(r) ==
    /\ Refunding(r) /\ Connects(r)
    /\ ToRefund(r).provider = Wallet /\ Wallet \in Refundable
    /\ draft' = [draft EXCEPT ![r] = Credited(wallet[CustomerOf(r)], ToRefund(r).amount)]
    /\ Goto(r, "refund")
    /\ UNCHANGED <<database, ledger, cmd, at, successes, lock, topup, hand>>

\* WalletProvider.refund reads the row, or its own uncommitted version of it.
RefundWallet(r) ==
    LET c == CustomerOf(r)
        balance == IF lock[c] = r THEN draft[r] ELSE wallet[c]
    IN
    /\ Refunding(r) /\ Connects(r)
    /\ ToRefund(r).provider = Wallet /\ Wallet \in Refundable
    /\ draft' = [draft EXCEPT ![r] = Credited(balance, ToRefund(r).amount)]
    /\ Goto(r, "refund")
    /\ UNCHANGED <<database, ledger, cmd, at, successes, lock, topup, hand>>

SaveRefund(r) ==
    /\ pc[r] = "refund"
    /\ SaveCustomer(r)
    /\ RefundedOne(r)
    /\ Goto(r, "compensate")
    /\ UNCHANGED <<database, ledger, cmd, successes, draft, topup, hand>>

\* Mistake: the payment is saved before it is marked failed.
FaultyFinalizeFailed(r) ==
    /\ pc[r] = "compensate" /\ ~ Refunding(r) /\ Connects(r)
    /\ CommitCustomers(r)
    /\ outbox' = outbox \cup {<<"payment.failed", r>>}
    /\ Goto(r, "failed")
    /\ UNCHANGED <<order, payment, ledger, cmd, at, successes, draft, topup, hand>>

FinalizeFailed(r) ==
    /\ pc[r] = "compensate" /\ ~ Refunding(r) /\ Connects(r)
    /\ CommitCustomers(r)
    /\ MarkFailed(r)
    /\ Goto(r, "failed")
    /\ UNCHANGED <<order, ledger, cmd, at, successes, draft, topup, hand>>

-----------------------------------------------------------------------------
(* A crash, or a database error that leaves execute() as an exception: the  *)
(* open transaction is rolled back, what happened outside stays.            *)

\* Mistake: the customer is saved by a manager that is not that of the transaction, so that
\* the debit or the refund survives its rollback.
FaultyAbort(r) ==
    /\ r \in MayAbort /\ pc[r] \in Running
    /\ CommitCustomers(r)
    /\ Goto(r, "aborted")
    /\ UNCHANGED <<order, payment, outbox, ledger, cmd, at, successes, draft, topup, hand>>

\* Mistake: an exception leaves the transaction open.
FaultyAbortLeaks(r) ==
    /\ r \in MayAbort /\ pc[r] \in Running
    /\ Goto(r, "aborted")
    /\ UNCHANGED <<database, ledger, cmd, at, successes, draft, lock, topup, hand>>

Abort(r) ==
    /\ r \in MayAbort /\ pc[r] \in Running
    /\ lock' = [c \in Customers |-> IF lock[c] = r THEN NoRequest ELSE lock[c]]
    /\ Goto(r, "aborted")
    /\ UNCHANGED <<database, ledger, cmd, at, successes, draft, topup, hand>>

-----------------------------------------------------------------------------
(* TopUpWalletHandler: reads, adds, saves, without a transaction around it *)

TopUpRead(t) ==
    /\ topup[t].pc = "idle" /\ FreeConnection
    /\ topup' = [topup EXCEPT ![t] =
                   [pc |-> "save",
                    balance |-> Credited(wallet[TopUpOf[t].customer], TopUpOf[t].amount)]]
    /\ UNCHANGED <<database, ledger, cmd, process, hand>>

\* save() opens a transaction of its own, in which the UPDATE may wait for the row.
TopUpConnect(t) ==
    /\ topup[t].pc = "save" /\ FreeConnection
    /\ topup' = [topup EXCEPT ![t].pc = "saving"]
    /\ UNCHANGED <<database, ledger, cmd, process, hand>>

TopUpSave(t) ==
    LET c == TopUpOf[t].customer IN
    /\ topup[t].pc = "saving"
    /\ lock[c] = NoRequest \/ topup[t].balance = wallet[c]
    /\ wallet' = [wallet EXCEPT ![c] = topup[t].balance]
    /\ topup' = [topup EXCEPT ![t].pc = "done"]
    /\ UNCHANGED <<order, payment, outbox, ledger, cmd, process, hand>>

-----------------------------------------------------------------------------
(* The order context: PaymentSucceededOrderHandler, PaymentFailedOrderHandler *)

Delivered(p) == outbox \cap {<<"payment.succeeded", p>>, <<"payment.failed", p>>} # {}

HandlerRead(p, d) ==
    /\ hand[<<p, d>>] = "idle" /\ Delivered(p) /\ FreeConnection
    /\ hand' = [hand EXCEPT ![<<p, d>>] = order[OrderOf(p)]]
    /\ UNCHANGED <<database, ledger, cmd, process, topup>>

\* Mistake: an order that is paid already is refused.
FaultyMayBePaid(status) == status = "processing"

\* The statuses of an order that Order.markPaid accepts.
MayBePaid(status) == status \in {"processing", "paid"}

SaveStatus(p, status) ==
    /\ FreeConnection
    /\ order' = [order EXCEPT ![OrderOf(p)] = status]

\* markPaid() and save(): the row is written even when the object was paid.
SettlePaid(p, d) ==
    /\ hand[<<p, d>>] \in OrderStatus /\ <<"payment.succeeded", p>> \in outbox
    /\ MayBePaid(hand[<<p, d>>])
    /\ SaveStatus(p, "paid")
    /\ hand' = [hand EXCEPT ![<<p, d>>] = "done"]
    /\ UNCHANGED <<payment, wallet, outbox, ledger, cmd, process, topup>>

\* markPaid() throws: the order is failed already.
SettleThrows(p, d) ==
    /\ hand[<<p, d>>] \in OrderStatus /\ <<"payment.succeeded", p>> \in outbox
    /\ ~ MayBePaid(hand[<<p, d>>])
    /\ hand' = [hand EXCEPT ![<<p, d>>] = "done"]
    /\ UNCHANGED <<database, ledger, cmd, process, topup>>

\* Ignored for an order read as paid, which markFailed() would refuse, else saved.
SettleFailed(p, d) ==
    /\ hand[<<p, d>>] \in OrderStatus /\ <<"payment.failed", p>> \in outbox
    /\ IF hand[<<p, d>>] = "paid" THEN UNCHANGED order ELSE SaveStatus(p, "failed")
    /\ hand' = [hand EXCEPT ![<<p, d>>] = "done"]
    /\ UNCHANGED <<payment, wallet, outbox, ledger, cmd, process, topup>>

\* The handlers save the order, whose object has this status when it was read.
Saves(p, status) ==
    \/ <<"payment.succeeded", p>> \in outbox /\ MayBePaid(status)
    \/ <<"payment.failed", p>> \in outbox /\ status # "paid"

\* findById() or save() rejects, and with it the handler: nobody catches it but the
\* bus, which drops it, and the order stays as it was.
HandlerFails(p, d) ==
    /\ d \in MayFail
    /\ \/ hand[<<p, d>>] = "idle" /\ Delivered(p)
       \/ hand[<<p, d>>] \in OrderStatus /\ Saves(p, hand[<<p, d>>])
    /\ hand' = [hand EXCEPT ![<<p, d>>] = "error"]
    /\ UNCHANGED <<database, ledger, cmd, process, topup>>

-----------------------------------------------------------------------------
(* The specification *)

Init ==
    /\ order = [o \in Orders |-> "pending"]
    /\ payment = [p \in Requests |-> [status |-> "none", attempts |-> <<>>]]
    /\ wallet = InitialBalance
    /\ outbox = {} /\ ledger = {}
    /\ cmd \in [Requests -> Commands]
    /\ pc = [r \in Requests |-> "idle"]
    /\ at = [r \in Requests |-> [alloc |-> 1, cand |-> 1, undone |-> 0]]
    /\ successes = [r \in Requests |-> <<>>]
    /\ draft = [r \in Requests |-> 0]
    /\ lock = [c \in Customers |-> NoRequest]
    /\ topup = [t \in TopUps |-> [pc |-> "idle", balance |-> 0]]
    /\ hand = [x \in Requests \X Deliveries |-> "idle"]

\* What a request does once it is received and as long as nothing stops it.
Execute(r) ==
    \/ Lookup(r) \/ ReadOrder(r) \/ ClaimRefused(r) \/ Claim(r)
    \/ SkipProvider(r) \/ ChargeExternal(r) \/ ChargeWallet(r) \/ SaveDebit(r) \/ RecordAttempt(r)
    \/ FinalizeSuccess(r)
    \/ RefundSkipped(r) \/ RefundExternal(r) \/ RefundWallet(r) \/ SaveRefund(r)
    \/ FinalizeFailed(r)

Handle(p, d) ==
    \/ HandlerRead(p, d) \/ HandlerFails(p, d)
    \/ SettlePaid(p, d) \/ SettleThrows(p, d) \/ SettleFailed(p, d)

TopUp(t) == TopUpRead(t) \/ TopUpConnect(t) \/ TopUpSave(t)

\* Not a step of the program: everything asked for is over, so that a state
\* without a successor is a real deadlock.
AllOver ==
    /\ \A r \in Requests : pc[r] \in Ended
    /\ \A t \in TopUps : topup[t].pc = "done"
    /\ \A p \in Requests, d \in Deliveries :
         payment[p].status \in {"succeeded", "failed"} => hand[<<p, d>>] \in {"done", "error"}
    /\ UNCHANGED vars

Next ==
    \/ \E r \in Requests : Receive(r) \/ Execute(r) \/ Abort(r)
    \/ \E t \in TopUps : TopUp(t)
    \/ \E p \in Requests, d \in Deliveries : Handle(p, d)
    \/ AllOver

Spec == Init /\ [][Next]_vars

-----------------------------------------------------------------------------
(* Type correctness *)

\* Every variable has its type; in particular no interleaving of charges,
\* refunds and top-ups makes a wallet negative.
TypeOK ==
    /\ order \in [Orders -> OrderStatus]
    /\ payment \in [Requests -> [status : PaymentStatus, attempts : Seq(Attempt)]]
    /\ wallet \in [Customers -> Nat]
    /\ outbox \subseteq EventName \X Requests
    /\ ledger \subseteq {"charge", "refund"} \X Ref
    /\ cmd \in [Requests -> Commands]
    /\ pc \in [Requests -> {"idle"} \cup Running \cup Ended]
    /\ at \in [Requests -> Counters]
    /\ successes \in [Requests -> Seq(Charge)]
    /\ draft \in [Requests -> Nat]
    /\ lock \in [Customers -> Requests \cup {NoRequest}]
    /\ topup \in [TopUps -> [pc : {"idle", "save", "saving", "done"}, balance : Nat]]
    /\ hand \in [Requests \X Deliveries -> {"idle", "done", "error"} \cup OrderStatus]

-----------------------------------------------------------------------------
(* Safety *)

\* A key names one payment: however many requests carry it, and however they
\* interleave, the lookup and the unique index let one of them charge.
KeyNamesOnePayment ==
    \A p, q \in Requests :
        Persisted(p) /\ Persisted(q) /\ Key(p) = Key(q) => p = q

\* An order leaves `pending` in the transaction that stores a payment for it and
\* never returns: an order that still waits for payment was never charged.
PendingIffUnclaimed ==
    \A o \in Orders :
        order[o] = "pending" <=> ~ \E p \in Requests : Persisted(p) /\ OrderOf(p) = o

\* The charges the rows of payment_attempts know of.
Successes(p) == Successful(payment[p].attempts)
Charged(p) == {a.ref : a \in {b \in Range(payment[p].attempts) : b.ok}}
External(ref) == ref[3] # Wallet
Did(what, ref) == <<what, ref>> \in ledger

\* A payment is reported as succeeded only when every allocation was charged
\* once and in full, the external providers really hold the money, and nothing
\* of it was given back.
SucceededFullyCharged ==
    \A p \in Requests : payment[p].status = "succeeded" =>
        /\ SumAmounts(Successes(p)) = Total[OrderOf(p)]
        /\ \A i \in DOMAIN Allocations(p) :
             Cardinality({ref \in Charged(p) : ref[2] = i}) = 1
        /\ \A ref \in Charged(p) :
             External(ref) => Did("charge", ref) /\ ~ Did("refund", ref)

\* A payment is reported as failed only when every external charge made for it,
\* known to the database or not, was refunded, where the provider can refund.
FailedFullyRefunded ==
    \A p \in Requests : payment[p].status = "failed" =>
        \A entry \in ledger : LET ref == entry[2] IN
            ref[1] = p /\ ref[3] \in Refundable \ FlakyRefunds => Did("refund", ref)

\* At any moment at most one external charge of a request is not in its payment's
\* attempts, it is that of the attempt being recorded, and it stays so for ever
\* only when the request was stopped there.  A refund has a recorded charge.
OnlyTheAttemptIsAtRisk ==
    \A entry \in ledger : LET ref == entry[2] IN
        \/ ref \in Charged(ref[1])
        \/ /\ entry[1] = "charge"
           /\ pc[ref[1]] \in {"charged", "aborted"}
           /\ ref = ChargeRef(ref[1])

\* What was charged for allocation i of payment p, at the wallet or elsewhere and
\* recorded or not.
ChargedFor(p, i) ==
    {ref \in Charged(p) \cup {e[2] : e \in {f \in ledger : f[1] = "charge"}} :
        ref[1] = p /\ ref[2] = i}

\* No allocation of a request is charged twice, be it at two providers, of which one
\* may be the wallet, or at one: nothing was charged for the allocation that the loop
\* is about to try a provider on, whatever was declined, skipped or stopped before.
OneChargePerAllocation ==
    \A p \in Requests : \A i \in DOMAIN Allocations(p) :
        /\ \A ref, other \in ChargedFor(p, i) : ref = other
        /\ pc[p] = "charge" /\ at[p].alloc = i => ChargedFor(p, i) = {}

\* An order is paid, or failed, only by a payment of its own with that outcome,
\* whatever the order in which the events are delivered.
SettledByPayment ==
    \A o \in Orders :
        /\ order[o] = "paid" =>
             \E p \in Requests : OrderOf(p) = o /\ payment[p].status = "succeeded"
        /\ order[o] = "failed" =>
             \E p \in Requests : OrderOf(p) = o /\ payment[p].status = "failed"

\* What a payment took out of a wallet: its recorded wallet charges.
WalletCharges(p) ==
    {i \in DOMAIN payment[p].attempts :
        payment[p].attempts[i].ok /\ payment[p].attempts[i].provider = Wallet}

Held(p) ==
    SumFunctionOnSet([i \in DOMAIN payment[p].attempts |-> payment[p].attempts[i].amount],
                     WalletCharges(p))

\* What the payments of customer c hold, but for those that failed: the transaction that
\* marks a payment as failed gives back what it took.
HeldFrom(c) ==
    SumFunctionOnSet([p \in Requests |-> Held(p)],
        {p \in Requests : CustomerOf(p) = c /\ payment[p].status # "failed"})

ToppedUp(c) ==
    SumFunctionOnSet([t \in TopUps |-> TopUpOf[t].amount],
        {t \in TopUps : TopUpOf[t].customer = c /\ topup[t].pc = "done"})

\* No money of a wallet appears or disappears: the balance is what was put in
\* less what the recorded attempts took out.
WalletConserved ==
    \A c \in Customers : wallet[c] + HeldFrom(c) = InitialBalance[c] + ToppedUp(c)

\* The balances of customer c that somebody has read and changed but not yet written.
Drafts(c) ==
    ({"payment"} \X {r \in Requests : /\ CustomerOf(r) = c
                                      /\ pc[r] \in {"debit", "refund"} \/ lock[c] = r})
    \cup ({"top-up"} \X {t \in TopUps : /\ TopUpOf[t].customer = c
                                        /\ topup[t].pc \in {"save", "saving"}})

OneWriter == \A c \in Customers : \A x, y \in Drafts(c) : x = y

\* Whatever the keys, the top-ups, the refunds and the crashes, wallet money is only lost
\* or made up where two drafts of one balance overlap.
TurnsConserveWallets == []OneWriter => []WalletConserved

\* Who can neither save a customer nor find that nothing has to be saved.
WaitsForRow(r) ==
    /\ pc[r] \in {"debit", "refund"}
    /\ lock[CustomerOf(r)] \notin {NoRequest, r} /\ draft[r] # wallet[CustomerOf(r)]

TopUpWaits(t) ==
    LET c == TopUpOf[t].customer IN
    topup[t].pc = "saving" /\ lock[c] # NoRequest /\ topup[t].balance # wallet[c]

GoesOn(r) == Connected(r) /\ ~ WaitsForRow(r)

\* Nobody waits in a circle for customers' rows and connections: whoever waits for a row
\* waits for a transaction that needs neither another row nor another connection, and when
\* the pool is used up one of its connections is held by somebody who can go on.
WaitsEnd ==
    /\ \A r \in Requests : WaitsForRow(r) => GoesOn(lock[CustomerOf(r)])
    /\ \A t \in TopUps : TopUpWaits(t) => GoesOn(lock[TopUpOf[t].customer])
    /\ ~ FreeConnection =>
         \/ \E r \in Requests : GoesOn(r)
         \/ \E t \in TopUps : topup[t].pc = "saving" /\ ~ TopUpWaits(t)

-----------------------------------------------------------------------------
(* Action properties *)

\* payment_attempts is a log, and a payment that reached its final status keeps
\* it, with the attempts it had.
PaymentOnlyGrows ==
    [][\A p \in Requests :
         /\ IsPrefix(payment[p].attempts, payment'[p].attempts)
         /\ payment[p].status \in {"succeeded", "failed"} => payment'[p] = payment[p]
         /\ Persisted(p) => payment'[p].status # "none"]_vars

\* Only a pending order gets a payment.
OnlyPendingIsClaimed ==
    [][\A r \in Requests :
         ~ Persisted(r) /\ payment'[r].status # "none" => order[OrderOf(r)] = "pending"]_vars

\* A paid order stays paid and a failed order stays failed.
SettledForGood ==
    [][\A o \in Orders :
         order[o] \in {"paid", "failed"} => order'[o] = order[o]]_vars

\* What it takes to change the status of an order that is paid or failed, by a claim
\* that writes what it read before or by the event of another payment: two payments of
\* it under two keys, the only clients whom the unique index does not stop.
SettledUnlessTwoKeys ==
    [][\A o \in Orders :
         order[o] \in {"paid", "failed"} /\ order'[o] # order[o] =>
            \E p, q \in Requests :
                /\ OrderOf(p) = o /\ OrderOf(q) = o /\ Key(p) # Key(q)
                /\ payment'[p].status # "none" /\ payment'[q].status # "none"]_vars

-----------------------------------------------------------------------------
(* A request with the key of an earlier one *)

\* Outside of the attempt that is being recorded, a request that was stopped needs
\* no recovery: no charge of a payment that has no outcome stands.
OnlyOneWindow ==
    \A r \in Requests :
        pc[r] = "aborted" /\ payment[r].status = "initiated" /\ Successes(r) # <<>> =>
            Did("charge", ChargeRef(r)) /\ ChargeRef(r) \notin Charged(r)

\* A request whose key was used by a request for the same order and customer is
\* answered with the payment of that request.
SameKeySamePayment ==
    \A r, p \in Requests :
        pc[r] = "UNIQUE_CONSTRAINT" => ~ (p # r /\ Replay(r, p) /\ SameRequest(r, p))

-----------------------------------------------------------------------------
(* The errors a client is answered *)

\* GET /payments/:id
GetPayment(p) ==
    IF Persisted(p) THEN [status |-> 200, payment |-> payment[p]]
    ELSE [status |-> StatusOf("NOT_FOUND"), payment |-> <<>>]

\* A client that is told its request is at fault (a 4xx) may correct it and ask
\* again: nothing was charged for the refused one, at any provider, nothing was
\* stored and no event of it is on its way.
RefusalLeavesNothing ==
    \A r \in Requests : ClientError(pc[r]) =>
        /\ GetPayment(r).status = 404
        /\ \A name \in EventName : <<name, r>> \notin outbox
        /\ \A entry \in ledger : entry[2][1] # r

-----------------------------------------------------------------------------
(* What a client that uses one key for an order sees *)

Lifecycle == INSTANCE OrderLifecycle WITH
    Payments <- Requests,
    Named <- {c.order : c \in Commands},
    status <- [p \in Requests |-> payment[p].status],
    about <- [p \in Requests |-> OrderOf(p)]

\* The requests about one order carry one key.
OneKeyPerOrder ==
    \A c, d \in Commands :
        c.order = d.order => c.key = d.key /\ c.key # NoKey

\* So do those of one customer.
OneKeyPerCustomer ==
    \A c, d \in Commands :
        c.customer = d.customer => c.key = d.key /\ c.key # NoKey

\* With one key per order, whatever the retries, crashes and deliveries: an order
\* is opened while it is pending, by one payment, and settles once, as that
\* payment did.
ImplementsLifecycle == Lifecycle!Spec
=============================================================================
