------------------------------ MODULE Checkout ------------------------------
(***************************************************************************)
(* The application as a whole, from the request that pays an order to the  *)
(* order that takes the outcome: PayOrder and OutboxRelay joined at the    *)
(* rows of domain_events_outbox and at the process of an instance.         *)
(*                                                                         *)
(*   - The transaction that concludes a payment stores a row of the relay. *)
(*   - A publication of that row starts a handler of the order context.    *)
(*   - An instance that is killed takes with it the requests it serves,    *)
(*     its relay and the handlers on its bus; Postgres rolls back what     *)
(*     they had open.                                                      *)
(*                                                                         *)
(* An instance listens when its bootstrap drain is over.  Rows are those   *)
(* of the events that have a handler, in the order of their commits.       *)
(* Top-ups are left to PayOrder, and an instance that is closed, failing   *)
(* statements and events nobody can deserialize to OutboxRelay.            *)
(***************************************************************************)
EXTENDS PayOrder

CONSTANTS
    Relays,        \* the instances of the application
    NoRelay,       \* no instance
    HostOf,        \* HostOf[r]: the instance that request r is sent to
    BatchSize,     \* OUTBOX_BATCH_SIZE
    MaxAttempts,   \* OUTBOX_MAX_ATTEMPTS
    MaxStops,      \* bound: crashes, over all instances
    BusFirst       \* does the framework bootstrap the bus before the relay

\* A request concludes one payment, which has one final event.
Rows == 1 .. Cardinality(Requests)

ASSUME CheckoutAssumption ==
    /\ IsFiniteSet(Requests) /\ MayAbort = Requests /\ TopUps = {}
    /\ IsFiniteSet(Relays) /\ NoRelay \notin Relays /\ HostOf \in [Requests -> Relays]
    /\ BatchSize \in Nat \ {0} /\ MaxAttempts \in Nat /\ MaxStops \in Nat
    /\ BusFirst \in BOOLEAN

VARIABLES
    \* ---- the relays' part, as in OutboxRelay ----
    row, locked, phase, step, batch, running, published, handled, stops, errors,
    \* ---- what joins the parts ----
    log,       \* log[k]: the payment whose final event is in row k
    host,      \* host[<<p, d>>]: the instance in which delivery d of p is handled
    doomed     \* requests of a process that is gone, until Postgres notices

relayVars == <<row, locked, phase, step, batch, running, published, handled, stops, errors>>
allVars == <<vars, relayVars, log, host, doomed>>

Relay == INSTANCE OutboxRelay WITH
    Known <- Rows, MayThrow <- Rows, MaxErrors <- 0

-----------------------------------------------------------------------------
(* Requests *)

Concluded == {"succeeded", "failed"}

Accept(r) ==
    /\ phase[HostOf[r]] = "polling"
    /\ Receive(r)
    /\ UNCHANGED <<relayVars, log, host, doomed>>

Work(r) ==
    /\ r \notin doomed
    /\ Execute(r) /\ pc'[r] \notin Concluded
    /\ UNCHANGED <<relayVars, log, host, doomed>>

\* Mistake: the payment's last transaction does not contain its event.
FaultyConclude(r) ==
    /\ r \notin doomed
    /\ Execute(r) /\ pc'[r] \in Concluded
    /\ UNCHANGED <<relayVars, log, host, doomed>>

\* Mistake: the event goes to the handlers of this instance, past the outbox.
FaultyConcludeDirect(r) ==
    /\ r \notin doomed
    /\ Execute(r) /\ pc'[r] \in Concluded
    /\ log' = Append(log, r)
    /\ running' = [running EXCEPT ![HostOf[r]][Len(log) + 1] = @ + 1]
    /\ host' = [host EXCEPT ![<<r, 1>>] = HostOf[r]]
    /\ UNCHANGED <<row, locked, phase, step, batch, published, handled, stops, errors, doomed>>

\* The final transaction commits the payment and the row of its event.
Conclude(r) ==
    /\ r \notin doomed
    /\ Execute(r) /\ pc'[r] \in Concluded
    /\ Relay!Append(Len(log) + 1)
    /\ log' = Append(log, r)
    /\ UNCHANGED <<host, doomed>>

\* Postgres notices that the connection is gone.
Rollback(r) ==
    /\ r \in doomed
    /\ Abort(r)
    /\ doomed' = doomed \ {r}
    /\ UNCHANGED <<relayVars, log, host>>

-----------------------------------------------------------------------------
(* The relay of an instance *)

Poll(i) ==
    /\ \/ Relay!Boot(i) \/ Relay!DrainOver(i)
       \/ Relay!Claim(i) \/ Relay!EndClaim(i) \/ Relay!Mark(i)
    /\ UNCHANGED <<vars, log, host, doomed>>

\* bus.publish() starts the handler of the event's name on this instance, if it is
\* on the bus yet.
Deliver(i) ==
    LET k == Relay!Head(i).id IN
    /\ Relay!Publish(i)
    /\ published[k] + 1 \in Deliveries
    /\ host' = IF Relay!Listening(i)
               THEN [host EXCEPT ![<<log[k], published[k] + 1>>] = i] ELSE host
    /\ UNCHANGED <<vars, log, doomed>>

-----------------------------------------------------------------------------
(* The handlers of the order context *)

RowOf(p) == CHOOSE k \in DOMAIN log : log[k] = p

\* findById() returns; where it throws, the handler ends.
ReadsOrder(p, d) ==
    /\ host[<<p, d>>] # NoRelay
    /\ HandlerRead(p, d)
    /\ UNCHANGED <<relayVars, log, host, doomed>>

\* The handler returns, or throws: markPaid() does, or the database when the order is
\* read or saved.
EndsOrThrows(p, d) ==
    /\ host[<<p, d>>] # NoRelay
    /\ Relay!HandlerEnds(host[<<p, d>>], RowOf(p))
    /\ \/ /\ SettlePaid(p, d) \/ SettleFailed(p, d)
          /\ handled' = handled \cup {RowOf(p)}
       \/ (SettleThrows(p, d) \/ HandlerFails(p, d)) /\ handled' = handled
    /\ host' = [host EXCEPT ![<<p, d>>] = NoRelay]
    /\ UNCHANGED <<log, doomed>>

-----------------------------------------------------------------------------
(* A process is killed *)

Kill(i) ==
    /\ Relay!Crash(i)
    /\ doomed' = doomed \cup {r \in Requests : HostOf[r] = i /\ pc[r] \in Running}
    /\ host' = [x \in DOMAIN host |-> IF host[x] = i THEN NoRelay ELSE host[x]]
    /\ UNCHANGED <<vars, log>>

-----------------------------------------------------------------------------
(* The specification *)

CheckoutInit ==
    /\ Init /\ Relay!Init
    /\ log = <<>> /\ doomed = {}
    /\ host = [x \in Requests \X Deliveries |-> NoRelay]

\* Not a step of the program: all is done, and nothing waits for anything.
Rest ==
    /\ \A r \in Requests : pc[r] \in Ended
    /\ \A i \in Relays :
         phase[i] = "polling" /\ step[i] = "idle" /\ Relay!Eligible(i) = {}
    /\ \A x \in DOMAIN host : host[x] = NoRelay
    /\ UNCHANGED allVars

CheckoutNext ==
    \/ \E r \in Requests : Accept(r) \/ Work(r) \/ Conclude(r) \/ Rollback(r)
    \/ \E i \in Relays : Poll(i) \/ Deliver(i) \/ Kill(i)
    \/ \E p \in Requests, d \in Deliveries : ReadsOrder(p, d) \/ EndsOrThrows(p, d)
    \/ Rest

CheckoutSpec == CheckoutInit /\ [][CheckoutNext]_allVars

\* The event loops, the timers and Postgres run what is runnable, and a process
\* that was killed is started again.  No request has to arrive and no process has to be
\* killed.
Fairness ==
    /\ \A r \in Requests :
         WF_allVars(Work(r) \/ Conclude(r)) /\ WF_allVars(Rollback(r))
    /\ \A i \in Relays : WF_allVars(Poll(i) \/ Deliver(i))
    /\ \A p \in Requests, d \in Deliveries :
         WF_allVars(ReadsOrder(p, d) \/ EndsOrThrows(p, d))

FairSpec == CheckoutSpec /\ Fairness

-----------------------------------------------------------------------------
(* Properties *)

\* A request that is received is answered or dies with its process: through the
\* customer's row lock, which a transaction keeps over calls of other providers,
\* and through a pool of connections that all may be waiting for that lock.
RequestAnswered ==
    \A r \in Requests : pc[r] = "lookup" ~> pc[r] \in Ended

\* The event of row k was given up as done, and no handler of it runs or returned.
Lost(k) ==
    /\ row[k].processed /\ k \notin handled
    /\ \A i \in Relays : running[i][k] = 0

\* An order that is being processed settles, unless one of its requests was killed
\* before it concluded or the event of an outcome is lost: there, and only there,
\* a reader of the order may wait for ever.
OrderSettles ==
    \A o \in Orders :
        order[o] = "processing" ~>
            \/ order[o] \in {"paid", "failed"}
            \/ \E r \in Requests : OrderOf(r) = o /\ pc[r] = "aborted"
            \/ \E k \in DOMAIN log : OrderOf(log[k]) = o /\ Lost(k)

\* A handler of payment p's outcome failed on the database.
FailedToHandle(p) == \E d \in Deliveries : hand[<<p, d>>] = "error"

\* Without a process that was killed, and with the handlers on the bus before any
\* event is stored, the outcome of a payment is lost in two cases:
\*   - its handler failed on the database, and the row was marked all the same;
\*   - the order was claimed twice, the other payment failed and the order learnt of
\*     that first: the customer is then charged for an order that stays failed.
LossExplained ==
    \A k \in DOMAIN log :
        Lost(k) /\ stops = 0 /\ (BusFirst \/ Cardinality(Relays) = 1) =>
        \/ FailedToHandle(log[k])
        \/ /\ payment[log[k]].status = "succeeded"
           /\ \E q \in Requests \ {log[k]} :
                OrderOf(q) = OrderOf(log[k]) /\ payment[q].status = "failed"

\* The payment context never sees more than PayOrder lets it see: requests that die
\* together, rows published twice and handlers that vanish are steps of PayOrder.
ImplementsPayOrder == Spec

\* Nor does the outbox: a row is stored once and handlers run only for what a relay
\* published and counted, past which no step of a request or of a handler reaches the bus.
ImplementsRelay == Relay!Spec
=============================================================================
