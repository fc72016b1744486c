------------------------------ MODULE Ordering ------------------------------
(***************************************************************************)
(* What happens before an order is paid: customers sign up and top up      *)
(* their wallets, products are added to the catalogue, and POST /orders    *)
(* copies the catalogue's prices into an order.                            *)
(*                                                                         *)
(* The application computes in doubles.  An integer up to Exact (2^53) has *)
(* a double of its own; beyond it results are rounded.  No row holds the   *)
(* total of an order: it is computed anew from the items, which the        *)
(* database returns in no particular order, whenever the order is read.    *)
(*                                                                         *)
(* Top-ups come one after another here: PayOrder models those that race.   *)
(* As in PayOrder, a request is identified with the row it would create,   *)
(* reads and commits are actions of their own, and a definition whose name *)
(* begins with Faulty is no part of the specification.                     *)
(***************************************************************************)
EXTENDS Integers, SequencesExt, HttpErrors

CONSTANTS
    Signups,      \* POST /customers requests; the customers they would create
    EmailOf,      \* EmailOf[c]: the email of customer c
    Amounts,      \* the amounts of POST /customers/:id/wallet/top-up
    MaxPutIn,     \* bound: MaxPutIn[c], the sum of the top-ups of customer c
    Products,     \* POST /products requests; the products they would create
    PriceOf,      \* PriceOf[p]: the price such a request names
    Requests,     \* POST /orders requests; the orders they would create
    Commands,     \* the customers and items such a request may name
    Exact,        \* the integers up to here are exact: 2^53
    Spacings,     \* bound: the powers of two, up to one of them
    MaxInt,       \* the largest value of an INT column: 2^31 - 1
    MaxBigint,    \* the largest value of a BIGINT column: 2^63 - 1
    MayAbort      \* the requests that a crash or a database error may stop

\* The distance of the doubles around n, and the one that n is rounded to: the
\* nearest, of two equally near ones the even one.
Spacing(n) ==
    CHOOSE u \in Spacings : n <= Exact * u /\ (u = 1 \/ n > Exact * (u \div 2))

Double(n) ==
    LET u == Spacing(n)
        below == n \div u
        rest == n % u
    IN  IF 2 * rest > u \/ (2 * rest = u /\ below % 2 = 1)
        THEN (below + 1) * u ELSE below * u

Asked == [product : Products, quantity : Int]

ASSUME OrderingAssumption ==
    /\ Exact \in Nat \ {0}
    /\ 1 \in Spacings /\ Spacings \subseteq Nat \ {0}
    /\ \A u \in Spacings \ {1} : u % 2 = 0 /\ u \div 2 \in Spacings
    /\ MaxInt \in Nat /\ MaxBigint \in Nat
    /\ DOMAIN EmailOf = Signups
    /\ Amounts \subseteq Nat \ {0}
    /\ MaxPutIn \in [Signups -> Nat]
    /\ PriceOf \in [Products -> Int]
    /\ \A p \in Products : PriceOf[p] >= 0 => Double(PriceOf[p]) = PriceOf[p]
    /\ \A c \in Commands : c.items \in Seq(Asked)
    /\ MayAbort \subseteq Requests

VARIABLES
    customers,  \* rows of customers
    wallet,     \* wallet[c]: the balance in the row of customer c
    putIn,      \* history: putIn[c], the sum of the top-ups that succeeded
    catalogue,  \* rows of products
    orders,     \* rows of orders
    items,      \* items[r]: the rows of order_items of order r
    created,    \* the order.created events in the outbox, with their totals
    cmd,        \* cmd[r]: what request r asks for
    pc,         \* pc[r]: where CreateOrderHandler.execute stands for r
    lines,      \* lines[r]: the items it has built from the products it read
    answer      \* answer[r]: the total the client was told

vars ==
    <<customers, wallet, putIn, catalogue, orders, items, created, cmd, pc, lines, answer>>

Product == [id : Products, price : Nat \ {0}]
Line == [product : Products, price : Nat \ {0}, quantity : Nat \ {0}]

Running == {"customer", "products", "store", "respond"}
Refused == {"BAD_REQUEST", "CUSTOMER_NOT_FOUND", "PRODUCT_NOT_FOUND"}
Ended == Refused \cup {"created", "DATABASE_ERROR", "aborted"}

-----------------------------------------------------------------------------
(* Totals *)

\* Mistake: the quantity is forgotten.
FaultySubtotal(line) == line.price

Subtotal(line) == Double(line.price * line.quantity)

TotalCents(s) == FoldLeft(LAMBDA sum, line : Double(sum + Subtotal(line)), 0, s)

\* The totals a later read of order r may compute: its items in any order.
Rehydrated(r) ==
    LET rows == DOMAIN items[r]
    IN  {TotalCents([i \in rows |-> items[r][turn[i]]]) :
            turn \in {f \in [rows -> rows] : IsInjective(f)}}

-----------------------------------------------------------------------------
(* Customers and products: rows that are inserted and, but for the wallet, *)
(* never changed                                                           *)

\* The unique index on the email, translated into an error of its own.
EmailTaken(c) == \E other \in customers : EmailOf[other] = EmailOf[c]

SignUp(c) ==
    /\ c \notin customers /\ ~ EmailTaken(c)
    /\ customers' = customers \cup {c}
    /\ wallet' = [wallet EXCEPT ![c] = 0]
    /\ UNCHANGED <<putIn, catalogue, orders, items, created, cmd, pc, lines, answer>>

\* Mistake: the balance is set, not raised.
FaultyRaised(c, amount) == Double(amount)

Raised(c, amount) == Double(wallet[c] + amount)

\* A sum that does not fit the column is refused by the database.
TopUp(c, amount) ==
    /\ c \in customers /\ putIn[c] + amount <= MaxPutIn[c]
    /\ Raised(c, amount) <= MaxBigint
    /\ wallet' = [wallet EXCEPT ![c] = Raised(c, amount)]
    /\ putIn' = [putIn EXCEPT ![c] = @ + amount]
    /\ UNCHANGED <<customers, catalogue, orders, items, created, cmd, pc, lines, answer>>

\* Mistake: the price is not looked at.
FaultySellable(p) == TRUE

Sellable(p) == PriceOf[p] > 0

\* The identifier is new, so that save() inserts; the price has to fit its column.
CreateProduct(p) ==
    /\ \A known \in catalogue : known.id # p
    /\ Sellable(p) /\ PriceOf[p] <= MaxBigint
    /\ catalogue' = catalogue \cup {[id |-> p, price |-> PriceOf[p]]}
    /\ UNCHANGED <<customers, wallet, putIn, orders, items, created, cmd, pc, lines, answer>>

-----------------------------------------------------------------------------
(* Placing an order *)

Goto(r, label) == pc' = [pc EXCEPT ![r] = label]

\* The DTO's constraints on the body.
WellFormed(s) == s # <<>> /\ \A i \in DOMAIN s : s[i].quantity >= 1

Receive(r) ==
    /\ pc[r] = "idle"
    /\ Goto(r, IF WellFormed(cmd[r].items) THEN "customer" ELSE "BAD_REQUEST")
    /\ UNCHANGED <<customers, wallet, putIn, catalogue, orders, items, created, cmd, lines, answer>>

ReadCustomer(r) ==
    /\ pc[r] = "customer"
    /\ Goto(r, IF cmd[r].customer \in customers THEN "products" ELSE "CUSTOMER_NOT_FOUND")
    /\ UNCHANGED <<customers, wallet, putIn, catalogue, orders, items, created, cmd, lines, answer>>

\* The rows one query returns for the ids of the items: a product once, however
\* many items name it.
Found(r) == {p \in catalogue : \E i \in DOMAIN cmd[r].items : cmd[r].items[i].product = p.id}

\* Mistake: one line for each product that was found.
FaultyItemsOf(r) ==
    LET found == SetToSeq(Found(r))
    IN  [i \in DOMAIN found |->
           [product |-> found[i].id, price |-> found[i].price,
            quantity |-> (CHOOSE asked \in Range(cmd[r].items) :
                             asked.product = found[i].id).quantity]]

\* A line for each item, with the price of its product at this moment.
ItemsOf(r) ==
    [i \in DOMAIN cmd[r].items |->
       LET asked == cmd[r].items[i]
           product == CHOOSE p \in Found(r) : p.id = asked.product
       IN  [product |-> product.id, price |-> product.price, quantity |-> asked.quantity]]

ReadProducts(r) ==
    /\ pc[r] = "products"
    /\ \/ /\ \A i \in DOMAIN cmd[r].items : \E p \in Found(r) : p.id = cmd[r].items[i].product
          /\ lines' = [lines EXCEPT ![r] = ItemsOf(r)]
          /\ Goto(r, "store")
       \/ /\ \E i \in DOMAIN cmd[r].items : \A p \in Found(r) : p.id # cmd[r].items[i].product
          /\ Goto(r, "PRODUCT_NOT_FOUND")
          /\ UNCHANGED lines
    /\ UNCHANGED <<customers, wallet, putIn, catalogue, orders, items, created, cmd, answer>>

\* What Order.create and the columns of order_items accept.
Storable(s) ==
    /\ s # <<>>
    /\ \A i \in DOMAIN s : s[i].price > 0 /\ s[i].quantity > 0 /\ s[i].quantity <= MaxInt

\* The rows save() inserts for a new order, and the row of its event.
InsertOrder(r) ==
    /\ orders' = orders \cup {r}
    /\ items' = [items EXCEPT ![r] = lines[r]]

PublishCreated(r) ==
    created' = created \cup {[order |-> r, total |-> TotalCents(lines[r])]}

\* Mistake: no transaction around the rows of the order and of its items.
FaultyStore(r) ==
    /\ pc[r] = "store"
    /\ \/ Storable(lines[r]) /\ InsertOrder(r) /\ PublishCreated(r) /\ Goto(r, "respond")
       \/ /\ ~ Storable(lines[r]) /\ Goto(r, "DATABASE_ERROR")
          /\ orders' = orders \cup {r}
          /\ UNCHANGED <<items, created>>
    /\ UNCHANGED <<customers, wallet, putIn, catalogue, cmd, lines, answer>>

\* One transaction: the order, its items and its event, or nothing.
Store(r) ==
    /\ pc[r] = "store"
    /\ \/ Storable(lines[r]) /\ InsertOrder(r) /\ PublishCreated(r) /\ Goto(r, "respond")
       \/ /\ ~ Storable(lines[r]) /\ Goto(r, "DATABASE_ERROR")
          /\ UNCHANGED <<orders, items, created>>
    /\ UNCHANGED <<customers, wallet, putIn, catalogue, cmd, lines, answer>>

Respond(r) ==
    /\ pc[r] = "respond"
    /\ answer' = [answer EXCEPT ![r] = TotalCents(lines[r])]
    /\ Goto(r, "created")
    /\ UNCHANGED <<customers, wallet, putIn, catalogue, orders, items, created, cmd, lines>>

\* A crash, or a connection that is lost: nobody learns how the request ended.
Abort(r) ==
    /\ r \in MayAbort /\ pc[r] \in Running
    /\ Goto(r, "aborted")
    /\ UNCHANGED <<customers, wallet, putIn, catalogue, orders, items, created, cmd, lines, answer>>

-----------------------------------------------------------------------------
(* The queries, which write nothing *)

GetCustomer(c) ==
    IF c \in customers THEN [status |-> 200, balance |-> wallet[c]]
    ELSE [status |-> StatusOf("CUSTOMER_NOT_FOUND"), balance |-> 0]

\* The row of a product, if there is one.
GetProduct(id) == {p \in catalogue : p.id = id}

\* What customer c may be answered who asks for order r.
GetOrder(r, c) ==
    IF r \notin orders THEN [status |-> StatusOf("ORDER_NOT_FOUND"), totals |-> {}]
    ELSE IF cmd[r].customer # c THEN [status |-> StatusOf("ORDER_ACCESS_DENIED"), totals |-> {}]
    ELSE [status |-> 200, totals |-> Rehydrated(r)]

\* The orders listed for customer c, without their sequence.
GetMyOrders(c) == {r \in orders : cmd[r].customer = c}

-----------------------------------------------------------------------------
(* The specification *)

Init ==
    /\ customers = {} /\ catalogue = {} /\ orders = {} /\ created = {}
    /\ wallet = [c \in Signups |-> 0] /\ putIn = [c \in Signups |-> 0]
    /\ items = [r \in Requests |-> <<>>]
    /\ cmd \in [Requests -> Commands]
    /\ pc = [r \in Requests |-> "idle"]
    /\ lines = [r \in Requests |-> <<>>]
    /\ answer = [r \in Requests |-> 0]

PlaceOrder(r) ==
    Receive(r) \/ ReadCustomer(r) \/ ReadProducts(r) \/ Store(r) \/ Respond(r)

Next ==
    \/ \E c \in Signups : SignUp(c) \/ \E amount \in Amounts : TopUp(c, amount)
    \/ \E p \in Products : CreateProduct(p)
    \/ \E r \in Requests : PlaceOrder(r) \/ Abort(r)

Spec == Init /\ [][Next]_vars

-----------------------------------------------------------------------------
(* Properties *)

\* Every variable has its type; no product is free and no line is empty.
TypeOK ==
    /\ customers \subseteq Signups
    /\ wallet \in [Signups -> Nat] /\ putIn \in [Signups -> Nat]
    /\ catalogue \subseteq Product
    /\ orders \subseteq Requests
    /\ items \in [Requests -> Seq(Line)]
    /\ created \subseteq [order : Requests, total : Nat]
    /\ cmd \in [Requests -> Commands]
    /\ pc \in [Requests -> {"idle"} \cup Running \cup Ended]
    /\ lines \in [Requests -> Seq(Line)]
    /\ answer \in [Requests -> Nat]

\* An order, its items and its event exist together or not at all, whatever stops
\* the request; a client that is told of an order can read it, and a client that is
\* answered an error left nothing behind.
AllOrNothing ==
    \A r \in Requests :
        /\ r \in orders <=> items[r] # <<>>
        /\ r \in orders <=> \E e \in created : e.order = r
        /\ pc[r] = "created" =>
             /\ GetOrder(r, cmd[r].customer).status = 200
             /\ r \in GetMyOrders(cmd[r].customer)
        /\ ClientError(pc[r]) \/ pc[r] = "DATABASE_ERROR" => r \notin orders

\* The lines s are those request r asks for, at the catalogue's prices.
AsAsked(r, s) ==
    /\ cmd[r].customer \in customers
    /\ Len(s) = Len(cmd[r].items)
    /\ \A i \in DOMAIN s :
         /\ s[i].product = cmd[r].items[i].product
         /\ s[i].quantity = cmd[r].items[i].quantity
         /\ [id |-> s[i].product, price |-> s[i].price] \in GetProduct(s[i].product)

\* A stored order is of an existing customer and has a line for each item that was
\* asked for, also when two items name one product, at the catalogue's price.
OrderIsWhatWasAsked == \A r \in orders : AsAsked(r, items[r])

\* As long as a balance is exact, it is what the customer was told was added: no
\* cent is lost between the body, the double, the text and the column.
WalletStands ==
    \A c \in customers : putIn[c] <= Exact =>
        GetCustomer(c) = [status |-> 200, balance |-> putIn[c]]

ExactTotal(s) == FoldLeft(LAMBDA sum, line : sum + line.price * line.quantity, 0, s)

\* As long as the total of an order is exact, it is one number for everybody: the
\* event, the answer and every later read of the items, in whatever order the
\* database returns them.
TotalStands ==
    \A r \in orders : ExactTotal(items[r]) <= Exact =>
        /\ \A e \in created : e.order = r => e.total = ExactTotal(items[r])
        /\ pc[r] = "created" => answer[r] = ExactTotal(items[r])
        /\ GetOrder(r, cmd[r].customer).totals = {ExactTotal(items[r])}
=============================================================================
