---------------------------- MODULE OutboxRelay ----------------------------
(***************************************************************************)
(* The transactional outbox: transactions append events to a table and the *)
(* OutboxRelay of every running instance of the application polls it,      *)
(* claims a batch, publishes each event on the in-process EventBus and     *)
(* marks its row.  EventBus.publish() of @nestjs/cqrs starts the handlers, *)
(* does not wait for them and swallows what they throw.                    *)
(*                                                                         *)
(* As in PayOrder, a definition whose name begins with Faulty is no part   *)
(* of the specification: it is the one below it with a plausible mistake.  *)
(***************************************************************************)
EXTENDS Integers, FiniteSets

CONSTANTS
    Rows,          \* the events, numbered in the order of occurred_at
    Known,         \* those whose name is in the DomainEventRegistry
    Relays,        \* the instances of the application
    BatchSize,     \* OUTBOX_BATCH_SIZE
    MaxAttempts,   \* OUTBOX_MAX_ATTEMPTS
    MaxStops,      \* bound: crashes and shutdowns, over all instances
    MaxErrors,     \* bound: failing statements of the relays
    MayThrow,      \* the events whose handlers may throw
    BusFirst       \* does the framework bootstrap the bus before the relay

ASSUME RelayAssumption ==
    /\ Rows \subseteq Nat /\ IsFiniteSet(Rows)
    /\ Known \subseteq Rows /\ MayThrow \subseteq Known
    /\ BatchSize \in Nat \ {0} /\ MaxAttempts \in Nat
    /\ MaxStops \in Nat /\ MaxErrors \in Nat
    /\ BusFirst \in BOOLEAN

VARIABLES
    \* ---- the table domain_events_outbox ----
    row,        \* row[e]: is it stored, is processed_at set, attempt_count
    locked,     \* locked[i]: the rows i's open claim transaction holds
    \* ---- the instances ----
    phase,      \* phase[i]: what the process of relay i is doing
    step,       \* step[i]: where tick() stands; "idle" when inFlight is false
    batch,      \* batch[i]: the claimed rows still to dispatch, as they were read
    running,    \* running[i][e]: handlers of event e that run in i
    \* ---- what happened ----
    published,  \* published[e]: how often e was published
    handled,    \* the events a handler of which returned
    stops, errors

vars == <<row, locked, phase, step, batch, running, published, handled, stops, errors>>

Phase == {"down", "bootstrap", "polling", "closing", "closed"}
Step == {"idle", "claimed", "dispatch", "mark", "catch"}
Claimed == [id : Rows, attempts : Nat]

-----------------------------------------------------------------------------
(* Helpers *)

\* Mistake: attempt_count is not compared with the limit.
FaultyEligible(i) ==
    {e \in Rows : row[e].stored /\ ~ row[e].processed
                  /\ \A k \in Relays \ {i} : e \notin locked[k]}

\* WHERE processed_at IS NULL AND attempt_count < $1 ... SKIP LOCKED
Eligible(i) ==
    {e \in Rows : /\ row[e].stored /\ ~ row[e].processed
                  /\ row[e].attempts < MaxAttempts
                  /\ \A k \in Relays \ {i} : e \notin locked[k]}

\* The row dispatchOne is called with: the batch is in the order of occurred_at.
Oldest(claimed) == CHOOSE b \in claimed : \A other \in claimed : b.id <= other.id
Head(i) == Oldest(batch[i])

\* Mistake: the loop does not end with the batch.
FaultyNextRow(i) ==
    /\ batch' = [batch EXCEPT ![i] = @ \ {Head(i)}]
    /\ step' = [step EXCEPT ![i] = "dispatch"]

\* dispatchOne is over: the loop goes on, or processBatch returns.
NextRow(i) ==
    /\ batch' = [batch EXCEPT ![i] = @ \ {Head(i)}]
    /\ step' = [step EXCEPT ![i] = IF batch[i] = {Head(i)} THEN "idle" ELSE "dispatch"]

AtHead(i, s) == step[i] = s /\ batch[i] # {}

-----------------------------------------------------------------------------
(* The producers *)

\* OutboxStore.append, when the transaction it is part of commits.  Transactions
\* commit in any order, whatever the occurred_at of their events.
Append(e) ==
    /\ ~ row[e].stored
    /\ row' = [row EXCEPT ![e].stored = TRUE]
    /\ UNCHANGED <<locked, phase, step, batch, running, published, handled, stops, errors>>

-----------------------------------------------------------------------------
(* Life of an instance *)

Boot(i) ==
    /\ phase[i] = "down"
    /\ phase' = [phase EXCEPT ![i] = "bootstrap"]
    /\ UNCHANGED <<row, locked, step, batch, running, published, handled, stops, errors>>

\* drainUntilEmpty ends when a tick returns 0: nothing to claim, or the claim
\* failed.  After the bootstrap drain the timer is set, after the last one the
\* shutdown hook returns.
DrainOver(i) ==
    /\ phase[i] \in {"bootstrap", "closing"} /\ step[i] = "idle"
    /\ \/ Eligible(i) = {} /\ UNCHANGED errors
       \/ errors < MaxErrors /\ errors' = errors + 1
    /\ phase' = [phase EXCEPT ![i] = IF @ = "bootstrap" THEN "polling" ELSE "closed"]
    /\ UNCHANGED <<row, locked, step, batch, running, published, handled, stops>>

\* onApplicationShutdown: the timer is cleared and a last drain begins.  Its tick
\* returns 0 at once if one is in flight, which is then not waited for.  The hook
\* runs when app.close() is called; a signal that kills the process is a Crash.
Close(i) ==
    /\ phase[i] = "polling" /\ stops < MaxStops
    /\ phase' = [phase EXCEPT ![i] = IF step[i] = "idle" THEN "closing" ELSE "closed"]
    /\ stops' = stops + 1
    /\ UNCHANGED <<row, locked, step, batch, running, published, handled, errors>>

\* The process is gone, and with it the claim, the batch and the handlers.
Gone(i) ==
    /\ phase' = [phase EXCEPT ![i] = "down"]
    /\ step' = [step EXCEPT ![i] = "idle"]
    /\ batch' = [batch EXCEPT ![i] = {}]
    /\ locked' = [locked EXCEPT ![i] = {}]
    /\ running' = [running EXCEPT ![i] = [e \in Rows |-> 0]]
    /\ UNCHANGED <<row, published, handled, errors>>

Exit(i) == phase[i] = "closed" /\ Gone(i) /\ UNCHANGED stops

Crash(i) ==
    /\ phase[i] \in {"bootstrap", "polling", "closing"} /\ stops < MaxStops
    /\ Gone(i) /\ stops' = stops + 1

-----------------------------------------------------------------------------
(* tick(): one claim and the dispatch of what was claimed *)

\* ORDER BY occurred_at LIMIT $2 FOR UPDATE
Claim(i) ==
    /\ phase[i] \in {"bootstrap", "polling", "closing"} /\ step[i] = "idle"
    /\ Eligible(i) # {}
    /\ \E S \in SUBSET Eligible(i) :
         /\ S # {} /\ Cardinality(S) <= BatchSize
         /\ Cardinality(S) = BatchSize \/ S = Eligible(i)
         /\ \A e \in S, f \in Eligible(i) \ S : e < f
         /\ batch' = [batch EXCEPT ![i] =
                        {[id |-> e, attempts |-> row[e].attempts] : e \in S}]
         /\ locked' = [locked EXCEPT ![i] = S]
    /\ step' = [step EXCEPT ![i] = "claimed"]
    /\ UNCHANGED <<row, phase, running, published, handled, stops, errors>>

\* The transaction of the claim commits before anything is dispatched.
EndClaim(i) ==
    /\ step[i] = "claimed"
    /\ locked' = [locked EXCEPT ![i] = {}]
    /\ step' = [step EXCEPT ![i] = "dispatch"]
    /\ UNCHANGED <<row, phase, batch, running, published, handled, stops, errors>>

\* No row of the table is updated while a claim transaction has it locked.
Writable(e) == \A k \in Relays : e \notin locked[k]

\* The attempt_count written is the one that was read, plus one.
Counted(b) == [row EXCEPT ![b.id].attempts = b.attempts + 1]

\* DomainEventRegistry.knows
Knows(e) == e \in Known

\* Mistake: an event without a deserializer costs no attempt.
FaultySkipUnknown(i) ==
    LET b == Head(i) IN
    /\ AtHead(i, "dispatch") /\ ~ Knows(b.id) /\ Writable(b.id)
    /\ NextRow(i)
    /\ UNCHANGED <<row, locked, phase, running, published, handled, stops, errors>>

SkipUnknown(i) ==
    LET b == Head(i) IN
    /\ AtHead(i, "dispatch") /\ ~ Knows(b.id) /\ Writable(b.id)
    /\ row' = Counted(b)
    /\ NextRow(i)
    /\ UNCHANGED <<locked, phase, running, published, handled, stops, errors>>

\* Mistake: the relay begins before the handlers are on the bus.
FaultyListening(i) == phase[i] # "bootstrap"

\* CqrsModule puts the handlers on the bus in its own bootstrap hook.  The framework
\* calls these hooks one after the other, and no file of the repository says in
\* which order; what is published before that hook reaches nobody.
Listening(i) == BusFirst \/ phase[i] # "bootstrap"

\* this.bus.publish(event): the handlers start, and nobody waits for them.
Publish(i) ==
    LET b == Head(i) IN
    /\ AtHead(i, "dispatch") /\ Knows(b.id)
    /\ published' = [published EXCEPT ![b.id] = @ + 1]
    /\ running' = IF Listening(i) THEN [running EXCEPT ![i][b.id] = @ + 1] ELSE running
    /\ step' = [step EXCEPT ![i] = "mark"]
    /\ UNCHANGED <<row, locked, phase, batch, handled, stops, errors>>

\* Mistake: processed_at is set and the attempt is not counted.
FaultyMarkUncounted(i) ==
    LET b == Head(i) IN
    /\ AtHead(i, "mark") /\ Writable(b.id)
    /\ row' = [row EXCEPT ![b.id].processed = TRUE]
    /\ NextRow(i)
    /\ UNCHANGED <<locked, phase, running, published, handled, stops, errors>>

Mark(i) ==
    LET b == Head(i) IN
    /\ AtHead(i, "mark") /\ Writable(b.id)
    /\ row' = [Counted(b) EXCEPT ![b.id].processed = TRUE]
    /\ NextRow(i)
    /\ UNCHANGED <<locked, phase, running, published, handled, stops, errors>>

\* The event cannot be built or published, or the UPDATE of the row fails.
Throw(i) ==
    /\ AtHead(i, "dispatch") \/ AtHead(i, "mark")
    /\ errors < MaxErrors /\ errors' = errors + 1
    /\ step' = [step EXCEPT ![i] = "catch"]
    /\ UNCHANGED <<row, locked, phase, batch, running, published, handled, stops>>

\* Mistake: a failure gives up on the row as if it was delivered.
FaultyRecordFailure(i) ==
    LET b == Head(i) IN
    /\ AtHead(i, "catch") /\ Writable(b.id)
    /\ row' = [Counted(b) EXCEPT ![b.id].processed = TRUE]
    /\ UNCHANGED errors
    /\ NextRow(i)
    /\ UNCHANGED <<locked, phase, running, published, handled, stops>>

\* Mistake: a failure puts the row back as it was inserted.
FaultyRecordFailureReset(i) ==
    LET b == Head(i) IN
    /\ AtHead(i, "catch") /\ Writable(b.id)
    /\ row' = [Counted(b) EXCEPT ![b.id].processed = FALSE]
    /\ UNCHANGED errors
    /\ NextRow(i)
    /\ UNCHANGED <<locked, phase, running, published, handled, stops>>

\* The catch block: the attempt is counted, unless that UPDATE fails as well.
RecordFailure(i) ==
    LET b == Head(i) IN
    /\ AtHead(i, "catch") /\ Writable(b.id)
    /\ \/ row' = Counted(b) /\ UNCHANGED errors
       \/ errors < MaxErrors /\ errors' = errors + 1 /\ UNCHANGED row
    /\ NextRow(i)
    /\ UNCHANGED <<locked, phase, running, published, handled, stops>>

-----------------------------------------------------------------------------
(* The handlers on the bus of instance i *)

HandlerEnds(i, e) ==
    /\ running[i][e] > 0
    /\ running' = [running EXCEPT ![i][e] = @ - 1]
    /\ \/ handled' = handled \cup {e}
       \/ e \in MayThrow /\ UNCHANGED handled
    /\ UNCHANGED <<row, locked, phase, step, batch, published, stops, errors>>

-----------------------------------------------------------------------------
(* The specification *)

Init ==
    /\ row = [e \in Rows |-> [stored |-> FALSE, processed |-> FALSE, attempts |-> 0]]
    /\ locked = [i \in Relays |-> {}]
    /\ phase = [i \in Relays |-> "down"]
    /\ step = [i \in Relays |-> "idle"]
    /\ batch = [i \in Relays |-> {}]
    /\ running = [i \in Relays |-> [e \in Rows |-> 0]]
    /\ published = [e \in Rows |-> 0]
    /\ handled = {} /\ stops = 0 /\ errors = 0

Tick(i) ==
    \/ Claim(i) \/ EndClaim(i) \/ SkipUnknown(i) \/ Publish(i) \/ Mark(i)
    \/ RecordFailure(i)

Next ==
    \/ \E e \in Rows : Append(e)
    \/ \E i \in Relays :
         \/ Boot(i) \/ DrainOver(i) \/ Close(i) \/ Exit(i) \/ Crash(i)
         \/ Tick(i) \/ Throw(i)
         \/ \E e \in Rows : HandlerEnds(i, e)

Spec == Init /\ [][Next]_vars

\* The supervisor restarts the process, the timer fires, a drain and a batch that
\* began go on, a process that closed exits.  Errors and stops are never fair.
FairSpec ==
    /\ Spec
    /\ \A i \in Relays :
         /\ WF_vars(Boot(i)) /\ WF_vars(Exit(i)) /\ WF_vars(Tick(i))
         /\ WF_vars(DrainOver(i) /\ UNCHANGED errors)

-----------------------------------------------------------------------------
(* Properties *)

\* Every variable has its type; an instance is between ticks exactly when it holds
\* no row, and its claim transaction locks the rows it claimed.
TypeOK ==
    /\ row \in [Rows -> [stored : BOOLEAN, processed : BOOLEAN, attempts : Nat]]
    /\ locked \in [Relays -> SUBSET Rows]
    /\ phase \in [Relays -> Phase]
    /\ step \in [Relays -> Step]
    /\ batch \in [Relays -> SUBSET Claimed]
    /\ running \in [Relays -> [Rows -> Nat]]
    /\ published \in [Rows -> Nat]
    /\ handled \subseteq Rows
    /\ stops \in Nat /\ errors \in Nat
    /\ \A i \in Relays :
         /\ step[i] = "idle" <=> batch[i] = {}
         /\ locked[i] = IF step[i] = "claimed" THEN {b.id : b \in batch[i]} ELSE {}

\* A row is tried at most OUTBOX_MAX_ATTEMPTS times as attempt_count counts them,
\* also when several instances write a count they read before others did.
AttemptsBounded == \A e \in Rows : row[e].attempts <= MaxAttempts

\* processed_at is set only on the row of a known event that was stored and was
\* published at least once: no failure path gives up on an event silently.
ProcessedWasPublished ==
    \A e \in Rows : row[e].processed =>
        row[e].stored /\ e \in Known /\ published[e] > 0

\* Being marked, or failing, right now.
InHand(e) ==
    Cardinality({i \in Relays : step[i] \in {"mark", "catch"} /\ Head(i).id = e})

\* An event is published once for each attempt that is counted; every publication
\* beyond that is explained by a process that stopped or a statement that failed.
PublicationsExplained ==
    \A e \in Rows : published[e] <= row[e].attempts + InHand(e) + stops + errors

\* What the table and the instances do with an event, seen from outside.
Delivery == INSTANCE EventDelivery WITH
    Events <- Rows,
    stored <- {e \in Rows : row[e].stored},
    sent <- {e \in Rows : published[e] > 0},
    retired <- {e \in Rows : row[e].processed}

\* Whatever stops or fails, and however many instances share the table, an event
\* is published only after its transaction committed, marked and handled only
\* after it was published, and marked for good.
ImplementsDelivery == Delivery!Spec

\* A handler of a processed event has returned or will: delivery at least once.
AtLeastOnce ==
    \A e \in Rows : row[e].processed =>
        e \in handled \/ \E i \in Relays : running[i][e] > 0

\* While no process stops, an event whose handler does not throw is handled, however
\* many instances dispatch it and whatever statement fails, provided that the
\* handlers are on the bus before the first drain.
HandledUnlessStopped ==
    BusFirst /\ stops = 0 =>
        \A e \in Rows \ MayThrow : row[e].processed =>
            e \in handled \/ \E i \in Relays : running[i][e] > 0

\* Every stored row is eventually processed or out of attempts, and a process that
\* boots gets to poll: a row nobody can deliver does not hold up the others.
RowsSettle ==
    \A e \in Rows : row[e].stored ~> row[e].processed \/ row[e].attempts >= MaxAttempts

BootCompletes ==
    \A i \in Relays : phase[i] = "bootstrap" ~> phase[i] \in {"polling", "down"}
=============================================================================
