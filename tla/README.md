# A verification project for the Bime Bazar backend

TLA+ models of the parts of this repository where the order of things decides
whether money and orders stay right: placing an order, paying it through several
providers, delivering the events that settle it, and the three together in a process
that may be killed. Two abstract specifications say what a client and a producer of
events may rely on; the detailed models are shown to implement them. TLC checks the
models on small instances; TLAPS proves every safety property the runs check, and the
refinements, for every instance.

    tlc -workers 4 -config PayRace.cfg MCPayOrder.tla      # one run
    tlapm PayOrderProofs.tla                               # one proof module

`PROJECT.json` lists the components, runs, mutants, hazards, findings and
theorems, and for each definition of a model the lines of `src/` it stands for.

## Inventory

| Component | State it keeps | Operations | Made correct by |
| --- | --- | --- | --- |
| Payment orchestration (`PayOrderHandler`, `Payment`) | `payments`, `payment_attempts` | lookup by key, validate, claim, attempt per allocation and candidate, finalize, compensate | one payment per key, charged in full or given back, no charge unknown to the database outside the attempt being made |
| Providers (wallet, stripe, paypal) | the wallet row; the providers' own ledgers | `charge`, `refund` | one charge per allocation, refunds only of charges |
| Order status (`Order`, the two payment event handlers) | `orders.status` | `markProcessing`, `markPaid`, `markFailed` | the status agrees with the payments of the order, and settles |
| Customer wallet (`Customer`, `TopUpWalletHandler`) | `customers.wallet_balance_cents` | top-up, debit, refund, `save()` | never negative; no cents appear or disappear |
| Outbox (`OutboxStore`, `OutboxRelay`) | `domain_events_outbox`; timer, `inFlight`, claimed batch | append, claim, dispatch, mark, record a failure, drain at bootstrap and shutdown | every stored event is published, or out of attempts; extra publications have a cause |
| Transaction runner | the open transaction of an async context, its connection | `run` | the writes of a step are visible together or not at all; nobody waits for ever for a connection |
| Order creation, products | `orders`, `order_items`, `products` | create, list, fetch | an order is complete or absent, has the prices of the catalogue, and one total |
| Money | - | add, subtract, fromCents | whole cents, exact within 2^53 |
| HTTP edge (guards, DTOs, exception filter) | - | authenticate, validate, map errors | a request that is told to be at fault left nothing behind |
| Configuration, migrations | schema | wiring | the unique index on the key |

**How they interact.** `PaymentController` sends a command to `PayOrderHandler`,
which reads the order through its repository, claims it and stores the payment
and an event in one transaction, calls the providers one after the other (each
call inside a transaction with the row of the attempt), and ends with a
transaction that stores the final status and its event. The wallet provider
writes the customer's row in the transaction of the attempt. The relay of every
instance polls the outbox table and starts the handlers of the order context,
which read the order and save its new status.

**What is hard.** Every `await` lets other requests run; the order and the
customer are read without a lock and saved from objects read earlier; calls to
external providers cannot be rolled back with the transaction around them; a
process may stop between any two transactions; the relay's instances share rows
whose locks end before the rows are used, and start handlers they do not wait
for. `PROJECT.json` lists these hazards, each at its line.

## Modules

    HttpErrors        OrderLifecycle       EventDelivery
      |      \             ^ implements          ^ implements
    Ordering  PayOrder ---'         OutboxRelay -'
                 \                   /
                  \-- Checkout -----/     (EXTENDS PayOrder, INSTANCE OutboxRelay,
                                           implements both)

### PayOrder

One payment request per element of `Requests`; the request is identified with the
payment it would create. Committed rows are `order`, `payment`, `wallet` and
`outbox`; `ledger` is what the external providers did; `pc`, `at`, `successes`
and `draft` are the local state of `execute()` (where it stands, the loop
counters, the charges `compensate()` would refund, and the balance of the
`Customer` object in hand); `lock` holds the one row lock that a transaction keeps
over several awaits, that of a customer's row.

| Code | Actions |
| --- | --- |
| `ApiKeyGuard`, `CustomerIdGuard`, `PaymentController.pay`, DTO constraints | `Receive` |
| `findByIdempotencyKey` and the comparison with the request | `Lookup` |
| the reads and checks before the claim, in their order | `ReadOrder` (`Verdict`, `Covers`) |
| the claim transaction; the unique index refusing it | `Claim` (`Initiate`), `ClaimRefused` |
| `tryAllocation`: a name nobody registered; `charge()` of a mock; `WalletProvider.charge` read and save | `SkipProvider`; `ChargeExternal`; `ChargeWallet`, `SaveDebit` |
| the commit of an attempt, then the loops | `RecordAttempt` (`Stage`, `Advance`) |
| the final transaction on success | `FinalizeSuccess` |
| `compensate()`: no `refund()` or an exception; a mock; the wallet's read and save | `RefundSkipped`; `RefundExternal`; `RefundWallet`, `SaveRefund` |
| the final transaction on failure | `FinalizeFailed` |
| a crash, or a database error that leaves `execute()` | `Abort` |
| `TopUpWalletHandler` | `TopUpRead`, `TopUpConnect`, `TopUpSave` |
| `PaymentSucceededOrderHandler`, `PaymentFailedOrderHandler` | `HandlerRead`, `SettlePaid`, `SettleThrows`, `SettleFailed`; `HandlerFails` when `findById()` or `save()` rejects |

Postgres runs at READ COMMITTED: reads are actions of their own, the writes of a
transaction become visible at its commit. TypeORM's `save()` of a customer writes
the absolute balance, and only if it differs from the row (`SaveCustomer`). An
event in `outbox` may be handled any number of times up to `Deliveries`, in any
order and never at all: that is what `OutboxRelay` and the event bus deliver. A handler
may fail on the database when it reads or when it saves (`HandlerFails`); the order is
then as it was, and nobody calls the handler again for this delivery. (A connection that
is lost at COMMIT, so that the row is written and the handler rejects, is to the order a
handler that returned.)

A transaction keeps a connection of the pool from its first statement to its end, also
while a provider is called (`Connected`); every other statement needs a free one for
a moment (`FreeConnection`). Where the pool is not the question `PoolSize` is larger
than the number of processes.

A request that is refused ends in the code of its error. **HttpErrors** is the table of
`DomainExceptionFilter` that makes a status of it; `RefusalLeavesNothing` and
`AllOrNothing` say what the client may conclude from a 4xx.

### OrderLifecycle

What a client that uses one key per order may rely on, without requests, transactions
or events: a pending order is opened for one payment, the payment concludes, the order
settles once and as the payment did. `PayOrder!Lifecycle` maps a payment's status to
`status`, the order a request names to `about`, and keeps `order`; lookups, attempts,
refunds, crashes, replays and repeated events are stutters. `ImplementsLifecycle` does
not hold without the one key: that is the finding PayDoubleClaim.

### OutboxRelay

`Rows` are the events in the order of `occurred_at`, `Relays` the instances. `row`
and `locked` are the table and the rows each open claim transaction holds;
`phase`, `step` and `batch` are an instance's process; `running`, `published` and
`handled` say what happened to events. `Append` is `OutboxStore.append`; `Boot`,
`DrainOver` and `Close` are the lifecycle hooks; `Claim`, `EndClaim`,
`SkipUnknown`, `Publish`, `Mark`, `Throw` and `RecordFailure` are `processBatch`
and `dispatchOne`; `HandlerEnds`, `Crash` and `Exit` are the environment.
`main.ts` never enables shutdown hooks, so a signal is a `Crash`; `Close` is
`app.close()`.

`OutboxModule` is global, and its relay drains the table in a bootstrap hook.
`@nestjs/cqrs` registers the handlers in a hook of its own; the framework calls hooks one
after another in an order that no file of this repository fixes. `BusFirst` says
which comes first: if it is FALSE, what the first drain publishes reaches nobody
(`Listening`).

### EventDelivery

What the outbox promises of an event: stored, then sent (once or more often), then
retired or handled, and none of that taken back. The mapping, `OutboxRelay!Delivery`,
reads it off `row`, `published` and `handled`. That a retired event was handled is
deliberately not promised: the finding RelayLoses. `HandledUnlessStopped` says when it
holds nevertheless.

### Checkout

The application from the claim of an order to its settlement. `Checkout` extends
`PayOrder` and instantiates `OutboxRelay` (`Relay`); what joins them:

| Code | Action |
| --- | --- |
| `app.listen` after the bootstrap hooks | `Accept` |
| the final transaction of a payment with `OutboxStore.append` | `Conclude` (a `PayOrder` step and `Relay!Append`) |
| every other step of a request | `Work` |
| `bus.publish` starting the handler on its own instance | `Deliver` (`Relay!Publish`) |
| the handler reading; returning, or throwing by `markPaid()` or by a database error | `ReadsOrder`; `EndsOrThrows` (with `Relay!HandlerEnds`) |
| a killed process: its relay, its handlers and its requests at once; later, Postgres rolling back | `Kill`; `Rollback` |

`log` maps a row to its payment, `host` a delivery to the instance that handles it, and
`doomed` are the requests of a dead process whose transaction Postgres has not ended yet,
so that their locks and connections outlive them. Left out, and covered by the parts:
top-ups, `app.close()`, failing statements of the relay, unknown events. (A failing
statement of a request is a stop of it in `PayOrder`; here requests stop with their
process. A failing statement of a handler is modelled.) The
relay's own statements are not counted against the pool of connections: it uses one at
a time, and its waiting adds no cycle.

### Ordering

`customers`, `wallet`, `catalogue`, `orders` and `items` are the rows that exist before
anything is paid; `putIn` remembers what was put into a wallet; `created` are the `order.created` events; `pc`, `lines` and `answer`
are `CreateOrderHandler.execute`: where it stands, the items it has built from the
products it read, and the total it told the client.

| Code | Actions |
| --- | --- |
| `CreateCustomerHandler`, the unique email | `SignUp` |
| `TopUpWalletHandler`, one at a time | `TopUp` |
| `CreateProductHandler`, `Product.create` | `CreateProduct` |
| `OrderController.create`, DTO constraints | `Receive` |
| `findByIdOrFail` of the customer; `findByIds` and the items built from it | `ReadCustomer`; `ReadProducts` |
| the transaction: `Order.create`, `save()`, the event | `Store` (`InsertOrder`, `PublishCreated`) |
| the answer; a crash or a database error | `Respond`; `Abort` |
| the queries, which write nothing: operators of the state | `GetCustomer`, `GetProduct`, `GetOrder`, `GetMyOrders` |

Totals and balances are computed as the code computes them, in doubles (`Double` rounds to the
nearest, ties to even), from the items in the order they are in. No row holds a total:
`Rehydrated` is the set of totals a later read may compute, as the query states no
order. `PayOrder`, which takes an order's total as a constant, rests on
`TotalStands`.

### MCPayOrder, MCOutboxRelay, MCOrdering, MCCheckout

Constants for TLC. **PayOrderProofs**, **ChargeProofs**, **WalletProofs**,
**LifecycleProofs**, **OutboxRelayProofs**, **CheckoutProofs** and **OrderingProofs** hold
the theorems, **Sums** what two of them need of sums.

Definitions named `Faulty...` are not part of a specification. Each is the
definition below it with a plausible mistake; the mutants of `PROJECT.json`
use them to show that every property can fail.

## Runs

| Run | Instance | Checks |
| --- | --- | --- |
| PlaceOrders | 2 orders, 3 customers (two with one email) with top-ups, 4 products (one free, one beyond its column), each request may be stopped | atomicity, the catalogue's prices, totals and balances |
| PayRetry | 3 requests, one key, each may be stopped, events handled twice | types, one payment per key, refunds, wallet money, what a refusal leaves, what is claimed, finality, `OrderLifecycle` |
| PayRace | 2 requests with different keys or none, one order, a top-up, no refund at paypal | what survives a double claim; that wallet money is lost only where two drafts of a balance overlap |
| Checkout | 2 requests for one order, one wallet, a pool of 2 connections, 1 instance that may be killed once, every event delivered up to twice | liveness under fairness from request to settled order; when an outcome is lost; that waits end; that the composition is still an `OutboxRelay` |
| RelayPair | 2 instances, a known and an unknown event, 1 stop, 1 error | counts on a shared table, handling, `EventDelivery` |
| RelayAlone | 1 instance, 3 events, batches of 2, 2 stops, 2 errors, handlers registered after the first drain | liveness and publications |

What the properties say is stated above each of them. Some deserve a remark.

* `KeyNamesOnePayment` holds for overlapping requests only because of the unique
  index: the lookup alone does not give it (mutant `FaultyKeyTaken`).
* `ImplementsLifecycle`, `SettledForGood`, `OnlyPendingIsClaimed` and `WalletConserved`
  hold in PayRetry, where the client uses one key per order and tops nothing up
  meanwhile; the findings PayDoubleClaim and PayLostUpdate show that they need that.
* `TurnsConserveWallets` (PayRace) says what `WalletConserved` needs when keys differ and
  there are top-ups: that no two requests, and no request and top-up, are between the read
  and the write of one balance. The mutant `FaultyAbort`, a debit that survives the
  rollback of its attempt, breaks it. `WalletsConserved` is the theorem.
* `RequestAnswered` runs against two connections that two payments may both hold while
  one waits for the customer's row the other has locked. It holds because everything
  inside a transaction goes through its own connection (`currentTxManager`); the mutant
  `FaultySaveDebit` lets one save ask the pool, and everybody waits. `WaitsEnd` is the
  reason as an invariant; a rollback that is forgotten (`FaultyAbortLeaks`) breaks it. The
  holder it speaks of may belong to a killed process: then Postgres's rollback is its step.
* `OrderSettles` has two exceptions, and the code has both: a request killed between
  its claim and its outcome is never resumed, and an outcome whose event is lost
  never reaches the order. `LossExplained` says that without a kill, and with the bus
  first, only two histories lose an outcome: its handler failed on the database, when the
  bus drops the rejection and the relay marks the row all the same; or a double claim in
  which the failed payment's event is handled first. In both the customer may be charged
  for an order that never becomes `paid`.
* `SucceededFullyCharged`, `OneChargePerAllocation` and `SettledByPayment` hold
  per payment even when an order is claimed twice: none of them excludes that. The double
  claim itself breaks `OnlyPendingIsClaimed`, in PayDoubleClaim.
* `OneChargePerAllocation` counts what the wallet and the external providers were charged
  alike, recorded or not, and says that no provider is called for an allocation that was
  charged: the ledger is a set of references and would not show a second charge at the
  same provider.
* `SettledUnlessTwoKeys` (PayRace) bounds what a claim that writes what it read before,
  and a handler that read before another one wrote, can do to a settled order: it takes two
  payments under two keys. `SettledForGood` (PayRetry) is what is left of it for one key.
* `OnlyTheAttemptIsAtRisk` is the exact form of "the one non-transactional
  window" of the repository's README: per request at most one external charge is
  unknown to the database.

**Findings** are runs that must fail, each with the text it contradicts:
`PayDoubleClaim` (two keys, one pending order, two charges), `PayConcurrentRetry`
(a concurrent replay is answered 409), `PayLostUpdate` (top-up against wallet
charge), `PayCrash` (a second window: between two transactions), `RelayTwice` (two
healthy instances publish twice), `RelayLoses` (processed but never handled).

**Bounds.** Two requests exhaust the races for one order and one wallet, which are
between pairs; the third request of PayRetry is a replay that meets another
replay. Totals of three and two cents let an allocation be one, two or three of
them, and the balance of two cents makes the wallet pay for some bodies and not
for others, and once but not twice. The bodies in `MCPayOrder` are: the whole
through the chain, wallet and chain, three named providers, the wallet twice, and
four that must be refused. The chain has a name nobody registered. For the relay,
a batch smaller than the backlog, an event nobody knows, a limit of two attempts,
and `MaxStops` and `MaxErrors`, which bound crashes and failing statements. `MayFail`
names the deliveries whose handler may fail: the first of two in PayRetry, the only one in
PayRace, both in Checkout, none in the runs of the findings.
Checkout has two bodies, wallet and chain, and wallet and stripe, over a wallet that
covers one of them at most; one kill meets every state the two requests, the relay and the
handlers can be in, and the restart drains what is left. It is one instance, so two
relays racing for one row are RelayPair's business; there, an event that is published
twice is handled as in PayRetry's two deliveries. `Rows` are numbered by commit.
For orders, doubles exact up to 8
in a column that holds up to 60 and quantities up to 3: there are totals below, at and
above the limit of exactness, a quantity beyond its column, and two items of one
product; one customer's balance passes the limit of exactness (`MaxPutIn` bounds what
is put in) and one's does not. Symmetry is used where requests, or instances, are interchangeable and no
liveness is checked.

**Fairness.** `Checkout!Fairness` is weak fairness of each request's, relay's and
handler's next step and of Postgres's rollback of a dead connection: Node's event loop,
the timer and Postgres run what can run, a row lock and a connection are released with
their transaction, and a process that was killed is started again. `Accept` and `Kill`
are not fair, and neither is success: the step a handler must take may be its failure. `OutboxRelay!FairSpec` assumes the same of an instance: the supervisor
restarts it, the timer fires and a tick that began goes on; errors and stops are never
fair.

**Deadlock.** A state of `PayOrder` or `Checkout` without a successor is a real deadlock:
`AllOver` and `Rest` are enabled only when everything is over. The relay runs set
`CHECK_DEADLOCK FALSE`: with nothing to publish its instances only poll. So does
PlaceOrders, which stops when every request is over.

## Proofs

`PayOrderProofs` proves, for every set of requests, orders, customers, commands,
providers and chains that satisfies `PayAssumption`:

* `TypeCorrect`: `Spec => []TypeOK`. Not a formality: a wallet must not become
  negative and the loops must not index beyond their lists.
* `IdempotencyKeyIsUnique`: `Spec => []KeyNamesOnePayment`.
* `PendingMeansUnclaimed`: `Spec => []PendingIffUnclaimed`.
* `OrdersSettledByPayments`: `Spec => []SettledByPayment`.
* `NobodyWaitsInACircle`: `Spec => []WaitsEnd`.

`TypeOK` is not inductive. `TypeInv` adds that a request past the checks is about an
order of its customer (`Admitted`) with an accepted body (`BodyAccepted`), that
the counters start at one and point into the lists (`CountersFresh`,
`CountersInRange`), and that events refer to stored payments and payments to
orders (`RowsReferToRows`). A debit is typed because `ChargeWallet` compares the
same object it subtracts from. The next three follow from `PaymentInv`, which
adds that a payment's status follows its request's progress (`StatusMatchesPc`)
and that a final event is in the outbox only with the final status
(`EventsMatchStatus`): so a handler, whatever it read before, writes `paid` or
`failed` only for an order with such a payment. `RequestMoves` and `StatusMoves`
say once what a step of a request may touch; the other lemmas cite them.

`WaitsEnd` is what `RequestAnswered` needs of rows and connections, without fairness: a
wait for a customer's row has length one, its holder waits for nothing, and a pool that is
used up has somebody who can go on. `LocksMoveOn` is why: a row is locked only by a
transaction that is past its save, and keeps its connection to the end.

`ChargeProofs` proves what the README of the repository promises of money, from
`TypeInv`, `PaymentInv` and an invariant of one request at a time (`ChargeInv`, that is
`Traced(r)` for every `r`):

* `OnlyTheAttemptIsUnknown`: `Spec => []OnlyTheAttemptIsAtRisk`.
* `ChargedOncePerAllocation`: `Spec => []OneChargePerAllocation`.
* `SuccessIsPaidInFull`: `Spec => []SucceededFullyCharged`.
* `FailureIsRefunded`: `Spec => []FailedFullyRefunded`.
* `RefusalIsHarmless`: `Spec => []RefusalLeavesNothing`.
* `PaymentsAreALog`: `Spec => PaymentOnlyGrows`.

None of the first five is inductive: they relate the ledgers of the providers to rows
that are written one transaction later. `Traced` says how the three records of a charge
agree at every step: the ledger holds recorded charges, their refunds and at most the
charge of the attempt at hand (`LedgerExplained`); the recorded charges are one for each
allocation behind the loop counter (`OneForEachAllocation`, from which one charge per
allocation follows although providers fail over); `successes`, the list `compensate()`
walks, is exactly the recorded charges (`SuccessesAreCharged`), so that what was given
back is its prefix of `undone` charges (`RefundsFollowTheList`). That a total is met
needs no arithmetic over sums: `Stage` compares it before it leads to `finalize`, and
`SuccessIsComplete` carries the comparison on. A step of a request disturbs no other
request (`OthersTraced`) and is of one kind: it charges (`ChargeKeepsTraced`), records an
attempt or skips one (`RecordKeepsTraced`, `SkipKeepsTraced`), refunds
(`RefundKeepsTraced`), or moves no money (`QuietKeepsTraced`).

`LifecycleProofs` proves `OneKeyGivesLifecycle`: `OneKeyPerOrder => (Spec =>
ImplementsLifecycle)`. The step of `Claim` is the reason for the condition: the abstract
order must be pending, which the code does not check in its transaction. The unique
index does: were the order not pending, a stored payment of it would exist
(`PendingIffUnclaimed`) and carry the same key. The steps of the handlers need that a
settled order's only payment is the one whose event is handled (`OnePaymentPerOrder`,
from `KeyNamesOnePayment`): an order with an event is no longer pending, and
`SettledByPayment` excludes the opposite status (`HandlerSettles`). From the refinement
follow two action properties: `SettledOrdersStay` (`OneKeyPerOrder => (Spec =>
SettledForGood)`) and `OneKeyClaimsPending` (`OneKeyPerOrder => (Spec =>
OnlyPendingIsClaimed)`). The run PayDoubleClaim shows that the second needs its
hypothesis. `SettledMovesByTwoKeys` (`Spec => SettledUnlessTwoKeys`) needs none: by
`SettledByPayment` a settled order has a payment with its outcome, a claim met no stored
payment with its key, and a handler that changes the status serves a payment with the other
outcome (`OutcomesHaveKeys`).

`OutboxRelayProofs` proves, for any number of rows and instances, batch size, limit and
bounds that satisfy `RelayAssumption`, `AttemptsWithinLimit` (`Spec =>
[]AttemptsBounded`), `ProcessedOnlyAfterPublish` (`Spec => []ProcessedWasPublished`)
and `RelayTypeCorrect` (`Spec => []TypeOK`). `AttemptsBounded` is not inductive, because an
instance writes the count it read, plus one: `BatchEligible` adds that every claimed
row was read with a count below the limit, which stays true whatever others
write. `MarksPublished` adds that an instance about to mark a row has published it.
`Head` is a CHOOSE over the batch; `OldestExists` shows, from the well-foundedness of
the naturals, that a batch has an oldest row. `OutboxDelivers` (`Spec => ImplementsDelivery`)
maps every step: it adds that a handler runs only for a published event
(`RunsPublishedNext`), and takes from `MarksPublished` that a marked row was sent.

`MarkedIsHandled` (`Spec => []HandledUnlessStopped`) rests on `ServedInv`: what the
property says of processed events holds of all published ones, and no instance is
closing, since closing counts as a stop. `AloneExplainsPublications` (`OneInstance =>
(Spec => []PublicationsExplained)`) rests on `AloneInv`: with one instance the batch
holds the counts that are in the table (`BatchCurrent`), and each publication is paid for
by an attempt, the row in hand, a stop or an error, one stop being kept for an
instance that is closing and may exit in the middle of a row (`AloneExplained`). The run
RelayTwice is the counterexample with two instances.

`CheckoutProofs` proves that the composition does nothing to its two parts that they do
not do themselves. `CheckoutPays` (`CheckoutSpec => Spec`) maps the steps of requests,
relays and handlers to `PayOrder`; `CheckoutCharges`, `CheckoutSettlesByPayment` and
`CheckoutKeepsLifecycle` carry over what is proved of it. `CheckoutRelays` (`CheckoutSpec
=> ImplementsRelay`) needs more, as `Append` takes a row that was not stored and the
handlers' steps a row of the log: `JoinInv` says that the log lists each concluded payment
once (so that it never runs out of `Rows`: `LogFits`, by counting an injection), that
stored, published and handled rows are in it (`RowsLogged`), and `OutcomeKept` that an
outcome is never replaced. `RelayFacts` instantiates the proofs of the outbox for the
application's rows, with its assumption proved (`RelayAssumed`), so that its lemmas are
used here and not proved again; `CheckoutDelivers` carries `EventDelivery` over.

`LossesAreExplained` (`CheckoutSpec => []LossExplained`) needs both parts at once. Its
invariant `LossInv` says that a handler that read `failed` has another payment to blame
(`HandsExplained`), that nothing is at work in an instance before it listens, so that with
one instance the order of bootstrap hooks does not matter until a restart (`QuietBoot`), and
that every published row was taken by a handler that returned or runs, or is excused by a
double claim or by a handler that failed on the database, and a handler that failed is over
(`PublishedTaken`, `ErrorKept`). `OneKeyLosesByErrorOnly` adds `OneKeyPerOrder`, under which
there is no double claim: without a kill an outcome is lost by a failing handler only.

`OrderingProofs` proves `OrderIsAllOrNothing` (`Spec => []AllOrNothing`) and
`OrderMatchesCatalogue` (`Spec => []OrderIsWhatWasAsked`). `OrderInv` adds that a request
has stored its order exactly from `Store` on (`StoredMatchesPc`) and that what it read
still holds (`ReadStillHolds`): rows of products and customers are never removed or
changed, so that the reads before the transaction cannot become stale.
`WalletIsWhatWasPutIn` (`Spec => []WalletStands`) holds for every limit of exactness:
`ExactIsKept` shows from the definition of `Double`, for any set of spacings that holds 1 and
is closed under halving, that a number up to the limit is not rounded.

`TotalIsOneNumber` (`Spec => []TotalStands`): `TotalInv` says that an event and an answer
have the total the code computes from the stored items, which are those the request had in
hand. Two facts about sums do the rest: while the exact total is
within the limit, each of the sums on the way is, as items cost nothing negative, and none of
them is rounded (`ExactTotalIsKept`); and a bijection of the items keeps the exact total
(`ExactTotalReordered`), so that `Rehydrated` has one element. `OrderingTypes` (`EverySize =>
(Spec => []TypeOK)`) adds that beyond the limit the total is still a natural number.
`EverySize` says that spacings double without end: with a finite set of spacings,
which TLC needs, an amount beyond the largest of them has no double to be rounded to.

`WalletProofs` proves of the customers' balances:

* `WalletsConserved`: `Spec => TurnsConserveWallets`, that is `[]OneWriter => []WalletConserved`.
* `OneKeyConservesWallets`: `OneKeyPerCustomer /\ TopUps = {} => (Spec => []WalletConserved)`.

The code reads a balance, changes the object and later writes the absolute result, and
keeps no lock in between: PayLostUpdate shows a write that is lost. `OneWriter` is a
condition under which none is: at no moment do two such drafts of one customer's balance
exist (`Drafts`). Nothing in the code brings it about for a top-up or for two keys; for a
client that keeps to one key the unique index does (`OneKeyOneWriter`), because a request
only drafts a balance when its payment is stored, and two stored payments of one key are one.

`WalletConserved` relates committed rows, but the step that keeps it true is the commit of a
draft that was read steps before. `WalletInv` says of every draft by what it differs from
the row: by the charge at hand (`DebitDrafted`), by the refunds made so far in the
transaction that compensates (`RefundDrafted`), by the top-up (`TopUpDrafted`).
`OneWriter` keeps the row from moving meanwhile. `ToldWhatIsHeld` says that the list
`compensate()` walks adds up to the payment's recorded wallet charges, so that the commit
which marks the payment as failed, and takes it out of `HeldFrom`, gives back exactly that;
`LocksItsRow`, that only the owner of a draft holds the lock. The lemmas go by kind of step
(`ChargeWalletKeepsDrafted`, `RecordKeepsDrafted`, ...), then by what happens to the
balance (`RequestBalances`, `TopUpKeepsWalletInv`).

`Sums` is what both need of `SumFunctionOnSet` and of folds over finite sets, which the
community modules define by recursion: that such a sum exists (`FoldExists`, `SumIs`), takes
one element at a time (`SumTakes`), depends on the summed values only (`SumSame`,
`SumChanges`), is a natural number for natural numbers and grows with the set
(`SumGrows`), and does not depend on an order (`SumReordered`). The library's induction
theorems take a predicate and cannot be instantiated here, so induction is done on a set
instead: among the subsets where two such functions differ there is a smallest one
(`MinSubset`, from well-foundedness), and there cannot be one (`AgreeOnSubsets`).

**Assumptions.** The theorems assume what the modules' named assumptions say of the
constants (`PayAssumption`, `RelayAssumption`, `CheckoutAssumption`,
`OrderingAssumption`), which TLC evaluates in every run, and the hypotheses they state:
`OneKeyPerOrder` and `OneKeyPerCustomer` are clients that keep one key, `OneInstance` a
deployment of one process, `OneWriter` and `EverySize` are discussed above. `PayAssumption`
has the wallet among the providers that refund, as `WalletProvider` does, and finitely many
requests and top-ups, so that there is a sum over them. The constants that bound TLC's
runs (`Deliveries`, `MayFail`, `MaxStops`, `MaxErrors`, `MaxPutIn`) are arbitrary in the proofs.

**Only model-checked.** `RowsSettle`, `BootCompletes`, `RequestAnswered` and `OrderSettles`
are liveness under fairness, whose ENABLED this prover does not reason about. The findings
are counterexamples of TLC.

## Not modelled

Payloads of events; latencies; the sequence of a list of orders; public routes and the
pipes that parse identifiers; propagation of a transaction's manager through
`AsyncLocalStorage`, as no code nests `run()`; retries of `POST /orders`, which has no
key, so that each of them is an order; configuration and tooling, which have no state
the program changes.

## What could come next

An abstract wallet with atomic operations, which `PayOrder` implements under `OneWriter`:
`WalletsConserved` would follow from it.
