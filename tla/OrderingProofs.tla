--------------------------- MODULE OrderingProofs ---------------------------
(***************************************************************************)
(* An order is complete or absent and is what was asked for, and balances  *)
(* are the sums of what was put in, for every set of requests, customers   *)
(* and products, whatever stops a request and wherever doubles end to be   *)
(* exact.                                                                  *)
(*                                                                         *)
(* A total is a fold over the lines in the order they have.  As long as it *)
(* is exact it is their sum (Sums), whatever that order.                   *)
(***************************************************************************)
EXTENDS Ordering, Sums

\* The part of TypeOK that the proofs need.
RowTypes ==
    /\ catalogue \subseteq Product
    /\ orders \subseteq Requests
    /\ items \in [Requests -> Seq(Line)]
    /\ cmd \in [Requests -> Commands]
    /\ pc \in [Requests -> {"idle"} \cup Running \cup Ended]
    /\ lines \in [Requests -> Seq(Line)]

\* A request that has passed the DTO has items whose quantities are positive.
BodyAccepted ==
    \A r \in Requests :
        pc[r] \in {"customer", "products", "store"} => WellFormed(cmd[r].items)

Unstored == {"idle", "customer", "products", "store", "DATABASE_ERROR"} \cup Refused

\* An order is stored by the step that leaves "store", and only by that one.
StoredMatchesPc ==
    \A r \in Requests :
        /\ pc[r] \in Unstored => r \notin orders
        /\ pc[r] \in {"respond", "created"} => r \in orders

RowsTogether ==
    \A r \in Requests :
        /\ r \in orders <=> items[r] # <<>>
        /\ r \in orders <=> \E e \in created : e.order = r

\* What a request has read stays true until it is stored: rows are never removed.
ReadStillHolds ==
    \A r \in Requests :
        /\ pc[r] = "products" => cmd[r].customer \in customers
        /\ pc[r] = "store" => AsAsked(r, lines[r])

OrderInv ==
    /\ RowTypes /\ BodyAccepted /\ StoredMatchesPc /\ RowsTogether /\ ReadStillHolds
    /\ OrderIsWhatWasAsked

-----------------------------------------------------------------------------

\* The catalogue has a line's price for every item whose product was found.
LEMMA LinesAreAsAsked ==
    ASSUME OrderingAssumption, RowTypes, NEW r \in Requests,
           WellFormed(cmd[r].items), cmd[r].customer \in customers,
           \A i \in DOMAIN cmd[r].items : \E p \in Found(r) : p.id = cmd[r].items[i].product
    PROVE  ItemsOf(r) \in Seq(Line) /\ AsAsked(r, ItemsOf(r))
<1> DEFINE asked == cmd[r].items
           product(i) == CHOOSE p \in Found(r) : p.id = asked[i].product
<1>1. asked \in Seq(Asked)
  BY DEF OrderingAssumption, RowTypes
<1>2. \A i \in DOMAIN asked : product(i) \in catalogue /\ product(i).id = asked[i].product
  BY DEF Found
<1>3. \A i \in DOMAIN asked :
        [product |-> product(i).id, price |-> product(i).price, quantity |-> asked[i].quantity]
            \in Line
  <2> SUFFICES ASSUME NEW i \in DOMAIN asked
               PROVE  [product |-> product(i).id, price |-> product(i).price,
                       quantity |-> asked[i].quantity] \in Line
    OBVIOUS
  <2>1. product(i) \in Product
    BY <1>2 DEF RowTypes
  <2>2. asked[i] \in Asked
    BY <1>1
  <2>3. asked[i].quantity >= 1
    BY DEF WellFormed
  <2>4. asked[i].quantity \in Nat \ {0}
    BY <2>2, <2>3 DEF Asked
  <2> HIDE DEF product
  <2> QED BY <2>1, <2>4 DEF Product, Line
<1>4. ItemsOf(r) = [i \in DOMAIN asked |->
        [product |-> product(i).id, price |-> product(i).price, quantity |-> asked[i].quantity]]
  BY DEF ItemsOf
<1>5. DOMAIN asked = 1 .. Len(asked) /\ Len(asked) \in Nat
  BY <1>1
<1> HIDE DEF product, asked
<1>6. ItemsOf(r) \in Seq(Line) /\ Len(ItemsOf(r)) = Len(asked)
  BY <1>3, <1>4, <1>5
<1>7. \A i \in DOMAIN asked :
        [id |-> product(i).id, price |-> product(i).price] \in GetProduct(product(i).id)
  <2> SUFFICES ASSUME NEW i \in DOMAIN asked
               PROVE  [id |-> product(i).id, price |-> product(i).price] = product(i)
    BY <1>2 DEF GetProduct
  <2> QED BY <1>2 DEF RowTypes, Product
<1> QED BY <1>2, <1>4, <1>5, <1>6, <1>7 DEF AsAsked, asked

-----------------------------------------------------------------------------

\* Before any request there are no rows.
LEMMA InitRows == OrderingAssumption /\ Init => OrderInv
BY DEF OrderingAssumption, Init, OrderInv, RowTypes, BodyAccepted, StoredMatchesPc,
       RowsTogether, ReadStillHolds, OrderIsWhatWasAsked, Running, Ended

\* Rows that are only added do not change what a stored order, or one about to be,
\* was asked for.
LEMMA StillAsAsked ==
    ASSUME OrderInv, customers \subseteq customers', catalogue \subseteq catalogue',
           UNCHANGED <<orders, items, cmd, pc, lines>>
    PROVE  ReadStillHolds' /\ OrderIsWhatWasAsked'
BY DEF OrderInv, ReadStillHolds, OrderIsWhatWasAsked, AsAsked, GetProduct

\* The actions of a request that write no row of an order: what it takes for them
\* to keep the invariant.
LEMMA ReadingMoves ==
    ASSUME OrderInv, NEW r \in Requests, NEW label,
           UNCHANGED <<customers, catalogue, orders, items, created, cmd>>,
           Goto(r, label), label \in Running \cup Ended,
           lines' \in [Requests -> Seq(Line)],
           \A q \in Requests \ {r} : lines'[q] = lines[q],
           label \in {"customer", "products", "store"} => WellFormed(cmd[r].items),
           label \in Unstored => r \notin orders,
           label \in {"respond", "created"} => r \in orders,
           label = "products" => cmd[r].customer \in customers,
           label = "store" => AsAsked(r, lines'[r])
    PROVE  OrderInv'
<1>1. pc' \in [Requests -> {"idle"} \cup Running \cup Ended]
  BY DEF OrderInv, RowTypes, Goto
<1>2. pc'[r] = label /\ \A q \in Requests \ {r} : pc'[q] = pc[q]
  BY DEF OrderInv, RowTypes, Goto
<1>3. RowTypes'
  BY <1>1 DEF OrderInv, RowTypes
<1>4. BodyAccepted'
  BY <1>2 DEF OrderInv, BodyAccepted, WellFormed
<1>5. StoredMatchesPc'
  <2>1. orders' = orders /\ StoredMatchesPc
    BY DEF OrderInv
  <2>2. /\ pc'[r] \in Unstored => r \notin orders
        /\ pc'[r] \in {"respond", "created"} => r \in orders
    BY <1>2
  <2> QED BY <1>2, <2>1, <2>2 DEF StoredMatchesPc
<1>6. RowsTogether'
  BY DEF OrderInv, RowsTogether
<1>7. ReadStillHolds'
  <2>1. customers' = customers /\ catalogue' = catalogue /\ cmd' = cmd /\ ReadStillHolds
    BY DEF OrderInv
  <2>2. SUFFICES ASSUME NEW q \in Requests
                 PROVE  /\ pc'[q] = "products" => cmd[q].customer \in customers
                        /\ pc'[q] = "store" => AsAsked(q, lines'[q])
    BY <2>1 DEF ReadStillHolds, AsAsked, GetProduct
  <2>3. CASE q = r
    BY <1>2, <2>3
  <2>4. CASE q # r
    BY <1>2, <2>1, <2>4 DEF ReadStillHolds
  <2> QED BY <2>3, <2>4
<1>8. OrderIsWhatWasAsked'
  BY DEF OrderInv, OrderIsWhatWasAsked, AsAsked, GetProduct
<1> QED BY <1>3, <1>4, <1>5, <1>6, <1>7, <1>8 DEF OrderInv

\* The transaction that stores an order.
LEMMA StoreRows ==
    ASSUME OrderInv, NEW r \in Requests, pc[r] = "store",
           InsertOrder(r), PublishCreated(r), Storable(lines[r]), Goto(r, "respond"),
           UNCHANGED <<customers, catalogue, cmd, lines, answer>>
    PROVE  OrderInv'
<1>1. pc'[r] = "respond" /\ \A q \in Requests \ {r} : pc'[q] = pc[q]
  BY DEF OrderInv, RowTypes, Goto
<1>2. items'[r] = lines[r] /\ \A q \in Requests \ {r} : items'[q] = items[q]
  BY DEF OrderInv, RowTypes, InsertOrder
<1>3. RowTypes'
  <2>1. items' \in [Requests -> Seq(Line)]
    BY DEF OrderInv, RowTypes, InsertOrder
  <2>2. pc' \in [Requests -> {"idle"} \cup Running \cup Ended]
    BY DEF OrderInv, RowTypes, Goto, Running
  <2> QED BY <2>1, <2>2 DEF OrderInv, RowTypes, InsertOrder
<1>4. BodyAccepted'
  BY <1>1 DEF OrderInv, BodyAccepted, WellFormed
<1>5. StoredMatchesPc'
  BY <1>1 DEF OrderInv, StoredMatchesPc, InsertOrder, Unstored, Refused
<1>6. RowsTogether'
  <2>1. \E e \in created' : e.order = r
    <3> DEFINE event == [order |-> r, total |-> TotalCents(lines[r])]
    <3>1. event.order = r /\ created' = created \cup {event}
      BY DEF PublishCreated
    <3> HIDE DEF event
    <3> QED BY <3>1
  <2>2. \A q \in Requests \ {r} :
          (\E e \in created' : e.order = q) <=> (\E e \in created : e.order = q)
    BY DEF PublishCreated
  <2>3. items'[r] # <<>>
    BY <1>2 DEF Storable
  <2> QED BY <1>2, <2>1, <2>2, <2>3 DEF OrderInv, RowsTogether, InsertOrder
<1>7. ReadStillHolds'
  BY <1>1 DEF OrderInv, ReadStillHolds, AsAsked, GetProduct
<1>8. OrderIsWhatWasAsked'
  <2>1. AsAsked(r, lines[r]) /\ \A q \in orders : AsAsked(q, items[q])
    BY DEF OrderInv, ReadStillHolds, OrderIsWhatWasAsked
  <2>2. \A q \in Requests : AsAsked(q, items'[q]) => AsAsked(q, items[q])'
    BY DEF AsAsked, GetProduct
  <2>3. orders' = orders \cup {r} /\ orders \subseteq Requests
    BY DEF InsertOrder, OrderInv, RowTypes
  <2> QED BY <1>2, <2>1, <2>2, <2>3 DEF OrderIsWhatWasAsked
<1> QED BY <1>3, <1>4, <1>5, <1>6, <1>7, <1>8 DEF OrderInv

\* Every step of every action of Next keeps the invariant.
LEMMA NextRows == OrderingAssumption /\ OrderInv /\ [Next]_vars => OrderInv'
<1> SUFFICES ASSUME OrderingAssumption, OrderInv, [Next]_vars PROVE OrderInv'
  OBVIOUS
<1>1. CASE UNCHANGED vars
  BY <1>1 DEF vars, OrderInv, RowTypes, BodyAccepted, StoredMatchesPc, RowsTogether,
              ReadStillHolds, OrderIsWhatWasAsked, AsAsked, GetProduct, WellFormed
<1>2. ASSUME NEW c \in Signups, SignUp(c) PROVE OrderInv'
  <2>1. ReadStillHolds' /\ OrderIsWhatWasAsked'
    BY <1>2, StillAsAsked DEF SignUp
  <2> QED BY <1>2, <2>1 DEF SignUp, OrderInv, RowTypes, BodyAccepted, StoredMatchesPc,
                            RowsTogether, WellFormed
<1>3. ASSUME NEW c \in Signups, NEW amount \in Amounts, TopUp(c, amount) PROVE OrderInv'
  <2>1. ReadStillHolds' /\ OrderIsWhatWasAsked'
    BY <1>3, StillAsAsked DEF TopUp
  <2> QED BY <1>3, <2>1 DEF TopUp, OrderInv, RowTypes, BodyAccepted, StoredMatchesPc,
                             RowsTogether, WellFormed
<1>4. ASSUME NEW p \in Products, CreateProduct(p) PROVE OrderInv'
  <2>1. ReadStillHolds' /\ OrderIsWhatWasAsked'
    BY <1>4, StillAsAsked DEF CreateProduct
  <2>2. [id |-> p, price |-> PriceOf[p]] \in Product
    BY <1>4 DEF CreateProduct, Sellable, OrderingAssumption, Product
  <2> QED BY <1>4, <2>1, <2>2 DEF CreateProduct, OrderInv, RowTypes, BodyAccepted,
                                  StoredMatchesPc, RowsTogether, WellFormed
<1>5. ASSUME NEW r \in Requests, Receive(r) PROVE OrderInv'
  <2>1. r \notin orders
    BY <1>5 DEF Receive, OrderInv, StoredMatchesPc, Unstored
  <2>2. lines' \in [Requests -> Seq(Line)]
    BY <1>5 DEF Receive, OrderInv, RowTypes
  <2> DEFINE label == IF WellFormed(cmd[r].items) THEN "customer" ELSE "BAD_REQUEST"
  <2>3. Goto(r, label) /\ UNCHANGED <<customers, catalogue, orders, items, created, cmd, lines>>
    BY <1>5 DEF Receive
  <2>4. label \in {"customer", "BAD_REQUEST"} /\ (label = "customer" => WellFormed(cmd[r].items))
    OBVIOUS
  <2> HIDE DEF label
  <2> QED BY <2>1, <2>2, <2>3, <2>4, ReadingMoves DEF Running, Ended, Refused
<1>6. ASSUME NEW r \in Requests, ReadCustomer(r) PROVE OrderInv'
  <2>1. r \notin orders /\ WellFormed(cmd[r].items)
    BY <1>6 DEF ReadCustomer, OrderInv, StoredMatchesPc, BodyAccepted, Unstored
  <2>2. lines' \in [Requests -> Seq(Line)]
    BY <1>6 DEF ReadCustomer, OrderInv, RowTypes
  <2> DEFINE label == IF cmd[r].customer \in customers THEN "products" ELSE "CUSTOMER_NOT_FOUND"
  <2>3. Goto(r, label) /\ UNCHANGED <<customers, catalogue, orders, items, created, cmd, lines>>
    BY <1>6 DEF ReadCustomer
  <2>4. label \in {"products", "CUSTOMER_NOT_FOUND"} /\ (label = "products" => cmd[r].customer \in customers)
    OBVIOUS
  <2> HIDE DEF label
  <2> QED BY <2>1, <2>2, <2>3, <2>4, ReadingMoves DEF Running, Ended, Refused
<1>7. ASSUME NEW r \in Requests, ReadProducts(r) PROVE OrderInv'
  <2>1. /\ r \notin orders /\ WellFormed(cmd[r].items) /\ cmd[r].customer \in customers
        /\ UNCHANGED <<customers, catalogue, orders, items, created, cmd>>
        /\ RowTypes
    BY <1>7 DEF ReadProducts, OrderInv, StoredMatchesPc, BodyAccepted, ReadStillHolds, Unstored
  <2>2. CASE /\ \A i \in DOMAIN cmd[r].items : \E p \in Found(r) : p.id = cmd[r].items[i].product
             /\ lines' = [lines EXCEPT ![r] = ItemsOf(r)]
             /\ Goto(r, "store")
    <3>1. ItemsOf(r) \in Seq(Line) /\ AsAsked(r, ItemsOf(r))
      BY <2>1, <2>2, LinesAreAsAsked
    <3>2. /\ lines' \in [Requests -> Seq(Line)] /\ lines'[r] = ItemsOf(r)
          /\ \A q \in Requests \ {r} : lines'[q] = lines[q]
      BY <2>1, <2>2, <3>1 DEF RowTypes
    <3> QED BY <2>1, <2>2, <3>1, <3>2, ReadingMoves DEF Running
  <2>3. CASE Goto(r, "PRODUCT_NOT_FOUND") /\ UNCHANGED lines
    <3>1. lines' \in [Requests -> Seq(Line)]
      BY <2>1, <2>3 DEF RowTypes
    <3> QED BY <2>1, <2>3, <3>1, ReadingMoves DEF Ended, Refused
  <2> QED BY <1>7, <2>2, <2>3 DEF ReadProducts
<1>8. ASSUME NEW r \in Requests, Store(r) PROVE OrderInv'
  <2>1. CASE Storable(lines[r]) /\ InsertOrder(r) /\ PublishCreated(r) /\ Goto(r, "respond")
    BY <1>8, <2>1, StoreRows DEF Store
  <2>2. CASE Goto(r, "DATABASE_ERROR") /\ UNCHANGED <<orders, items, created>>
    <3>1. lines' \in [Requests -> Seq(Line)]
      BY <1>8 DEF Store, OrderInv, RowTypes
    <3> QED BY <1>8, <2>2, <3>1, ReadingMoves DEF Store, Ended, OrderInv, StoredMatchesPc, Unstored
  <2> QED BY <1>8, <2>1, <2>2 DEF Store
<1>9. ASSUME NEW r \in Requests, Respond(r) PROVE OrderInv'
  <2>1. r \in orders /\ lines' \in [Requests -> Seq(Line)]
    BY <1>9 DEF Respond, OrderInv, StoredMatchesPc, RowTypes
  <2> QED BY <1>9, <2>1, ReadingMoves DEF Respond, Ended, Unstored, Refused
<1>10. ASSUME NEW r \in Requests, Abort(r) PROVE OrderInv'
  <2>1. lines' \in [Requests -> Seq(Line)]
    BY <1>10 DEF Abort, OrderInv, RowTypes
  <2> QED BY <1>10, <2>1, ReadingMoves DEF Abort, Ended, Unstored, Refused
<1> QED
  BY <1>1, <1>2, <1>3, <1>4, <1>5, <1>6, <1>7, <1>8, <1>9, <1>10 DEF Next, PlaceOrder

-----------------------------------------------------------------------------

\* The inductive invariant of this module.
LEMMA OrderInvHolds == Spec => []OrderInv
<1>1. Init => OrderInv
  BY OrderingAssumption, InitRows
<1>2. OrderInv /\ [Next]_vars => OrderInv'
  BY OrderingAssumption, NextRows
<1> QED BY <1>1, <1>2, PTL DEF Spec

\* The errors that blame the client are those that refuse a request.
LEMMA ClientErrorsRefuse ==
    ASSUME NEW label \in {"idle"} \cup Running \cup Ended, ClientError(label)
    PROVE  label \in Refused
BY DEF ClientError, StatusOf, DomainErrorStatus, HttpExceptionStatus, QueryErrorStatus,
       Running, Ended, Refused

\* Whatever stops a request, an order is stored with its items and its event or not
\* at all: create-order.handler.ts writes them in one transaction.
THEOREM OrderIsAllOrNothing == Spec => []AllOrNothing
<1>1. OrderInv => AllOrNothing
  <2> SUFFICES ASSUME OrderInv, NEW r \in Requests
               PROVE  /\ r \in orders <=> items[r] # <<>>
                      /\ r \in orders <=> \E e \in created : e.order = r
                      /\ pc[r] = "created" =>
                           /\ GetOrder(r, cmd[r].customer).status = 200
                           /\ r \in GetMyOrders(cmd[r].customer)
                      /\ ClientError(pc[r]) \/ pc[r] = "DATABASE_ERROR" => r \notin orders
    BY DEF AllOrNothing
  <2>1. pc[r] = "created" => /\ GetOrder(r, cmd[r].customer).status = 200
                             /\ r \in GetMyOrders(cmd[r].customer)
    BY DEF OrderInv, StoredMatchesPc, GetOrder, GetMyOrders
  <2>2. ClientError(pc[r]) => pc[r] \in Refused
    BY ClientErrorsRefuse DEF OrderInv, RowTypes
  <2>3. ClientError(pc[r]) \/ pc[r] = "DATABASE_ERROR" => r \notin orders
    BY <2>2 DEF OrderInv, StoredMatchesPc, Unstored
  <2> QED BY <2>1, <2>3 DEF OrderInv, RowsTogether
<1> QED BY <1>1, OrderInvHolds, PTL

\* A stored order has the items that were asked for at the catalogue's prices: what
\* the handler read before its transaction cannot become stale.
THEOREM OrderMatchesCatalogue == Spec => []OrderIsWhatWasAsked
<1>1. OrderInv => OrderIsWhatWasAsked
  BY DEF OrderInv
<1> QED BY <1>1, OrderInvHolds, PTL

-----------------------------------------------------------------------------
(* Balances *)

\* An integer that has a double of its own is not rounded.
LEMMA ExactIsKept ==
    ASSUME OrderingAssumption, NEW n \in Nat, n <= Exact
    PROVE  Double(n) = n
<1>1. Exact \in Nat \ {0} /\ 1 \in Spacings
  BY DEF OrderingAssumption
<1>2. ASSUME NEW u \in Spacings, u = 1 \/ n > Exact * (u \div 2) PROVE u = 1
  <2> SUFFICES ASSUME u # 1 PROVE FALSE
    OBVIOUS
  <2>1. u \div 2 \in Nat \ {0}
    BY DEF OrderingAssumption
  <2>2. \A half \in Nat \ {0} : Exact * half >= Exact
    BY <1>1
  <2> QED BY <1>1, <1>2, <2>1, <2>2
<1>3. Spacing(n) = 1
  <2>1. n <= Exact * 1 /\ (1 = 1 \/ n > Exact * (1 \div 2))
    BY <1>1
  <2> QED BY <1>1, <1>2, <2>1 DEF Spacing
<1>4. n \div 1 = n /\ n % 1 = 0
  OBVIOUS
<1> QED BY <1>3, <1>4 DEF Double

\* The balance of every row is the sum of the top-ups, as long as that is exact; a
\* customer without a row was never topped up.
WalletInv ==
    /\ customers \subseteq Signups /\ DOMAIN wallet = Signups
    /\ putIn \in [Signups -> Nat]
    /\ \A c \in Signups :
         /\ c \notin customers => putIn[c] = 0
         /\ putIn[c] <= Exact => wallet[c] = putIn[c]

LEMMA NextWallet == OrderingAssumption /\ WalletInv /\ [Next]_vars => WalletInv'
<1> SUFFICES ASSUME OrderingAssumption, WalletInv, [Next]_vars PROVE WalletInv'
  OBVIOUS
<1>1. ASSUME NEW c \in Signups, SignUp(c) PROVE WalletInv'
  BY <1>1 DEF SignUp, WalletInv
<1>2. ASSUME NEW c \in Signups, NEW amount \in Amounts, TopUp(c, amount)
      PROVE  WalletInv'
  <2>1. /\ amount \in Nat /\ c \in customers /\ customers' = customers
        /\ wallet' = [wallet EXCEPT ![c] = Double(wallet[c] + amount)]
        /\ putIn' = [putIn EXCEPT ![c] = @ + amount]
    BY <1>2 DEF TopUp, Raised, OrderingAssumption
  <2>2. putIn[c] \in Nat /\ putIn[c] + amount \in Nat /\ Exact \in Nat
    BY <2>1 DEF WalletInv, OrderingAssumption
  <2>3. ASSUME putIn[c] + amount <= Exact
        PROVE  Double(wallet[c] + amount) = putIn[c] + amount
    <3>1. wallet[c] = putIn[c]
      BY <2>1, <2>2, <2>3 DEF WalletInv
    <3> QED BY <2>2, <2>3, <3>1, ExactIsKept
  <2> QED BY <2>1, <2>2, <2>3 DEF WalletInv
<1>3. ASSUME NEW p \in Products, CreateProduct(p) PROVE WalletInv'
  BY <1>3 DEF CreateProduct, WalletInv
<1>4. ASSUME NEW r \in Requests, PlaceOrder(r) \/ Abort(r) PROVE WalletInv'
  BY <1>4 DEF PlaceOrder, Receive, ReadCustomer, ReadProducts, Store, Respond, Abort,
              WalletInv
<1>5. CASE UNCHANGED vars
  BY <1>5 DEF vars, WalletInv
<1> QED BY <1>1, <1>2, <1>3, <1>4, <1>5 DEF Next

\* Whatever is topped up in whatever portions, a customer is shown the sum, to the
\* cent, until it passes what doubles can count.
THEOREM WalletIsWhatWasPutIn == Spec => []WalletStands
<1>1. Init => WalletInv
  BY DEF Init, WalletInv
<1>2. WalletInv /\ [Next]_vars => WalletInv'
  BY OrderingAssumption, NextWallet
<1>3. WalletInv => WalletStands
  BY DEF WalletInv, WalletStands, GetCustomer
<1> QED BY <1>1, <1>2, <1>3, PTL DEF Spec

-----------------------------------------------------------------------------
(* Totals *)

\* The lines of an order, as far as totals go: a row for each number up to n.
HasLines(s, n) == DOMAIN s = 1 .. n /\ \A i \in 1 .. n : s[i] \in Line

\* What line i is worth.
Worth(s) == [i \in DOMAIN s |-> s[i].price * s[i].quantity]

LEMMA WorthTyped ==
    ASSUME NEW n \in Nat, NEW s, HasLines(s, n)
    PROVE  \A i \in DOMAIN s : Worth(s)[i] \in Nat
<1> SUFFICES ASSUME NEW i \in DOMAIN s PROVE s[i].price * s[i].quantity \in Nat
  BY DEF Worth
<1>1. s[i] \in Line
  BY DEF HasLines
<1>2. s[i].price \in Nat /\ s[i].quantity \in Nat
  BY <1>1 DEF Line
<1> QED BY <1>2

LEMMA MaxIsIn ==
    ASSUME NEW n \in Nat, NEW T \in SUBSET (1 .. n), T # {}
    PROVE  Max(T) \in T
<1> DEFINE HasMax(U) == \E x \in U : \A y \in U : x >= y
           P == {k \in Nat : \A U \in SUBSET (1 .. k) : U # {} => HasMax(U)}
<1>1. 0 \in P
  <2>1. 1 .. 0 = {}
    OBVIOUS
  <2> QED BY <2>1
<1>2. ASSUME NEW k \in Nat, k \in P PROVE k + 1 \in P
  <2> SUFFICES ASSUME NEW U \in SUBSET (1 .. k + 1), U # {} PROVE HasMax(U)
    OBVIOUS
  <2>1. CASE k + 1 \in U
    BY <2>1
  <2>2. CASE k + 1 \notin U
    <3>1. U \in SUBSET (1 .. k)
      BY <2>2
    <3> QED BY <1>2, <3>1
  <2> QED BY <2>1, <2>2
<1>3. n \in P
  <2> HIDE DEF P
  <2> QED BY <1>1, <1>2, NatsByStep
<1> QED BY <1>3 DEF Max

\* g is what the fold of ExactTotal, or of TotalCents, makes of the lines s.
AddsUp(s, g) ==
    g = [T \in SUBSET DOMAIN s |->
           IF T = {} THEN 0
           ELSE g[T \ {Max(T)}] + s[Max(T)].price * s[Max(T)].quantity]

RoundsUp(s, g) ==
    g = [T \in SUBSET DOMAIN s |->
           IF T = {} THEN 0 ELSE Double(g[T \ {Max(T)}] + Subtotal(s[Max(T)]))]

LEMMA TotalsUnfold ==
    ASSUME NEW s
    PROVE  /\ ExactTotal(s) = (CHOOSE g : AddsUp(s, g))[DOMAIN s]
           /\ TotalCents(s) = (CHOOSE g : RoundsUp(s, g))[DOMAIN s]
<1>1. ExactTotal(s) = (CHOOSE g : AddsUp(s, g))[DOMAIN s]
  BY DEF ExactTotal, FoldLeft, MapThenFoldSet, AddsUp
<1>2. TotalCents(s) = (CHOOSE g : RoundsUp(s, g))[DOMAIN s]
  BY DEF TotalCents, FoldLeft, MapThenFoldSet, RoundsUp
<1> QED BY <1>1, <1>2

\* Either recursion has one solution at most.
LEMMA TotalsUnique ==
    ASSUME NEW n \in Nat, NEW s, HasLines(s, n), NEW g, NEW h,
           (AddsUp(s, g) /\ AddsUp(s, h)) \/ (RoundsUp(s, g) /\ RoundsUp(s, h))
    PROVE  g[DOMAIN s] = h[DOMAIN s]
<1> DEFINE S == DOMAIN s
<1>1. IsFiniteSet(S) /\ S = 1 .. n
  BY FS_Interval DEF HasLines
<1>2. \A T \in SUBSET S : T # {} => Max(T) \in T
  BY <1>1, MaxIsIn
<1>3. ASSUME NEW T \in SUBSET S, \A U \in SUBSET T : U # T => g[U] = h[U]
      PROVE  g[T] = h[T]
  <2>1. T # {} => g[T \ {Max(T)}] = h[T \ {Max(T)}]
    BY <1>2, <1>3
  <2>2. CASE AddsUp(s, g) /\ AddsUp(s, h)
    <3> DEFINE V(k) == IF T = {} THEN 0
                       ELSE k[T \ {Max(T)}] + s[Max(T)].price * s[Max(T)].quantity
    <3>1. g[T] = V(g) /\ h[T] = V(h)
      BY <2>2 DEF AddsUp
    <3> QED BY <2>1, <3>1
  <2>3. CASE RoundsUp(s, g) /\ RoundsUp(s, h)
    <3> DEFINE V(k) == IF T = {} THEN 0 ELSE Double(k[T \ {Max(T)}] + Subtotal(s[Max(T)]))
    <3>1. g[T] = V(g) /\ h[T] = V(h)
      BY <2>3 DEF RoundsUp
    <3> QED BY <2>1, <3>1
  <2> QED BY <2>2, <2>3
<1>4. IsFiniteSet(DOMAIN s) /\ AgreeStepwise(DOMAIN s, g, h)
  BY <1>1, <1>3 DEF Agree, AgreeStepwise
<1> QED BY <1>4, AgreeOnSubsets

LEMMA ExactTotalIsSum ==
    ASSUME NEW n \in Nat, NEW s, HasLines(s, n)
    PROVE  ExactTotal(s) = SumFunctionOnSet(Worth(s), DOMAIN s)
<1> DEFINE S == DOMAIN s
<1>1. IsFiniteSet(S) /\ S = 1 .. n
  BY FS_Interval DEF HasLines
<1>2. \A T \in SUBSET S : T # {} => Max(T) \in T
  BY <1>1, MaxIsIn
<1>3. \A i \in S : Worth(s)[i] \in Int /\ Worth(s)[i] = s[i].price * s[i].quantity
  BY WorthTyped DEF Worth
<1>4. PICK g : IsTable(Worth(s), S, g) /\ g[S] = SumFunctionOnSet(Worth(s), S)
  <2> HIDE DEF S
  <2> QED BY <1>1, <1>3, TableOf
<1>5. \A T \in SUBSET S : g[T] = IF T = {} THEN 0
         ELSE g[T \ {Max(T)}] + s[Max(T)].price * s[Max(T)].quantity
  <2> SUFFICES ASSUME NEW T \in SUBSET S, T # {}
               PROVE  g[T] = g[T \ {Max(T)}] + s[Max(T)].price * s[Max(T)].quantity
    BY <1>4 DEF IsTable
  <2>1. Max(T) \in T /\ g[T] = Worth(s)[Max(T)] + g[T \ {Max(T)}] /\ g[T \ {Max(T)}] \in Int
    BY <1>2, <1>4 DEF IsTable
  <2> QED BY <1>3, <2>1
<1>6. AddsUp(s, g)
  BY <1>4, <1>5 DEF AddsUp, IsTable
<1>7. AddsUp(s, CHOOSE h : AddsUp(s, h))
  BY <1>6
<1>8. ExactTotal(s) = g[DOMAIN s]
  BY <1>6, <1>7, TotalsUnique, TotalsUnfold
<1> QED BY <1>4, <1>8

\* An exact total is computed exactly: no subtotal and no partial sum is rounded.
LEMMA ExactTotalIsKept ==
    ASSUME OrderingAssumption, NEW n \in Nat, NEW s, HasLines(s, n), ExactTotal(s) <= Exact
    PROVE  TotalCents(s) = ExactTotal(s)
<1> DEFINE S == DOMAIN s
<1>1. IsFiniteSet(S) /\ \A i \in S : Worth(s)[i] \in Int
  <2>1. IsFiniteSet(S)
    BY FS_Interval DEF HasLines
  <2>2. \A i \in S : Worth(s)[i] \in Nat
    BY WorthTyped
  <2> QED BY <2>1, <2>2
<1>2. S = 1 .. n /\ Exact \in Nat /\ \A T \in SUBSET S : T # {} => Max(T) \in T
  BY MaxIsIn DEF HasLines, OrderingAssumption
<1>3. \A i \in S : Worth(s)[i] \in Nat /\ Worth(s)[i] = s[i].price * s[i].quantity
  BY WorthTyped DEF Worth
<1> HIDE DEF S
<1>4. PICK g : /\ IsTable(Worth(s), S, g)
               /\ \A T \in SUBSET S : g[T] = SumFunctionOnSet(Worth(s), T)
  BY ONLY <1>1, TableHolds
<1>5. ASSUME NEW T \in SUBSET S
      PROVE  g[T] \in Nat /\ g[T] <= Exact
  <2>1. SumFunctionOnSet(Worth(s), T) \in Nat
        /\ SumFunctionOnSet(Worth(s), T) <= SumFunctionOnSet(Worth(s), S)
    BY <1>1, <1>3, SumGrows
  <2>2. SumFunctionOnSet(Worth(s), S) <= Exact /\ SumFunctionOnSet(Worth(s), S) \in Nat
    BY <1>1, <1>3, SumGrows, ExactTotalIsSum DEF S
  <2> QED BY <1>1, <1>4, <2>1, <2>2
<1>6. ASSUME NEW T \in SUBSET S, T # {}
      PROVE  g[T] = Double(g[T \ {Max(T)}] + Subtotal(s[Max(T)]))
  <2> DEFINE x == Max(T)
  <2>1. x \in T /\ T \ {x} \in SUBSET S /\ x \in S
    BY <1>2, <1>6
  <2> HIDE DEF x
  <2>2. g[T] = Worth(s)[x] + g[T \ {x}]
    BY <1>4, <2>1 DEF IsTable
  <2>3. g[T] \in Nat /\ g[T] <= Exact /\ g[T \ {x}] \in Nat /\ Worth(s)[x] \in Nat
    BY <1>3, <1>5, <2>1
  <2>4. Worth(s)[x] <= Exact
    BY <1>1, <2>2, <2>3
  <2>5. Subtotal(s[x]) = Worth(s)[x]
    BY <1>3, <2>1, <2>3, <2>4, ExactIsKept DEF Subtotal
  <2>6. g[T \ {x}] + Subtotal(s[x]) = g[T]
    BY <2>2, <2>3, <2>5
  <2>7. Double(g[T]) = g[T]
    BY <2>3, ExactIsKept
  <2> QED BY <2>6, <2>7 DEF x
<1>7. RoundsUp(s, g)
  BY <1>4, <1>6 DEF RoundsUp, IsTable, S
<1>8. RoundsUp(s, CHOOSE h : RoundsUp(s, h))
  BY <1>7
<1>9. TotalCents(s) = g[DOMAIN s]
  BY <1>7, <1>8, TotalsUnique, TotalsUnfold
<1> QED BY <1>4, <1>9, ExactTotalIsSum DEF S

\* An exact total is the same for the lines in any order.
LEMMA ExactTotalReordered ==
    ASSUME OrderingAssumption, NEW n \in Nat, NEW s, HasLines(s, n), ExactTotal(s) <= Exact,
           NEW turn \in [DOMAIN s -> DOMAIN s], IsInjective(turn)
    PROVE  TotalCents([i \in DOMAIN s |-> s[turn[i]]]) = ExactTotal(s)
<1> DEFINE other == [i \in DOMAIN s |-> s[turn[i]]]
<1>1. HasLines(other, n) /\ DOMAIN other = DOMAIN s
  BY DEF HasLines
<1>2. Worth(other) = [i \in DOMAIN s |-> Worth(s)[turn[i]]]
  BY DEF Worth
<1>3. IsFiniteSet(DOMAIN s)
  BY FS_Interval DEF HasLines
<1>4. \A i \in DOMAIN s : Worth(s)[i] \in Int
  <2>1. \A i \in DOMAIN s : Worth(s)[i] \in Nat
    BY WorthTyped
  <2> QED BY <2>1
<1> HIDE DEF other
<1>5. SumFunctionOnSet(Worth(other), DOMAIN s) = SumFunctionOnSet(Worth(s), DOMAIN s)
  BY <1>2, <1>3, <1>4, SumReordered
<1>6. ExactTotal(other) = ExactTotal(s)
  BY <1>1, <1>5, ExactTotalIsSum
<1>7. TotalCents(other) = ExactTotal(other)
  BY <1>1, <1>6, ExactTotalIsKept
<1> QED BY <1>6, <1>7 DEF other

\* What is kept or told of an order's total was computed from the rows it has.
TotalInv ==
    \A r \in Requests :
        /\ \A e \in created : e.order = r => e.total = TotalCents(items[r])
        /\ pc[r] \in {"respond", "created"} => lines[r] = items[r]
        /\ pc[r] = "created" => answer[r] = TotalCents(items[r])

\* No step computes a total from anything else.
LEMMA NextTotal ==
    ASSUME OrderInv, TotalInv, DOMAIN answer = Requests, [Next]_vars
    PROVE  TotalInv' /\ DOMAIN answer' = Requests
<1> USE DEF TotalInv
<1>1. CASE UNCHANGED vars
  BY <1>1 DEF vars
<1>2. ASSUME NEW c \in Signups, SignUp(c) \/ \E amount \in Amounts : TopUp(c, amount)
      PROVE  TotalInv' /\ DOMAIN answer' = Requests
  BY <1>2 DEF SignUp, TopUp
<1>3. ASSUME NEW p \in Products, CreateProduct(p)
      PROVE  TotalInv' /\ DOMAIN answer' = Requests
  BY <1>3 DEF CreateProduct
<1>4. ASSUME NEW r \in Requests, PlaceOrder(r) \/ Abort(r)
      PROVE  TotalInv' /\ DOMAIN answer' = Requests
  <2>1. /\ DOMAIN pc = Requests /\ DOMAIN lines = Requests /\ DOMAIN items = Requests
        /\ \A q \in Requests \ {r} : pc'[q] = pc[q]
    BY <1>4 DEF OrderInv, RowTypes, PlaceOrder, Receive, ReadCustomer, ReadProducts, Store,
                Respond, Abort, Goto
  <2>2. CASE \/ Receive(r) \/ ReadCustomer(r) \/ ReadProducts(r) \/ Abort(r)
             \/ Store(r) /\ UNCHANGED <<orders, items, created>>
    <3>1. /\ UNCHANGED <<items, created, answer>> /\ pc'[r] \notin {"respond", "created"}
          /\ \A q \in Requests \ {r} : lines'[q] = lines[q]
      BY <2>1, <2>2 DEF Receive, ReadCustomer, ReadProducts, Abort, Store, Goto, InsertOrder,
                        OrderInv, StoredMatchesPc, Unstored
    <3> QED BY <2>1, <3>1
  <2>3. CASE Store(r) /\ InsertOrder(r) /\ PublishCreated(r) /\ Goto(r, "respond")
    <3>1. r \notin orders /\ \A e \in created : e.order # r
      BY <2>3 DEF Store, OrderInv, StoredMatchesPc, RowsTogether, Unstored
    <3>2. /\ items'[r] = lines[r] /\ \A q \in Requests \ {r} : items'[q] = items[q]
          /\ created' = created \cup {[order |-> r, total |-> TotalCents(lines[r])]}
          /\ pc'[r] = "respond" /\ UNCHANGED <<lines, answer>>
      BY <2>1, <2>3 DEF Store, InsertOrder, PublishCreated, Goto
    <3> QED BY <2>1, <3>1, <3>2
  <2>4. CASE Respond(r)
    BY <2>1, <2>4 DEF Respond, Goto
  <2> QED BY <1>4, <2>2, <2>3, <2>4 DEF PlaceOrder, Store
<1> QED BY <1>1, <1>2, <1>3, <1>4 DEF Next

\* An order whose total is exact has one total: the event of its creation, the answer to
\* its client and every later query say the same, in whatever order the database returns
\* the items they are computed from (order-mapper.ts, Order.totalCents).
THEOREM TotalIsOneNumber == Spec => []TotalStands
<1> DEFINE Inv == OrderInv /\ TotalInv /\ DOMAIN answer = Requests
<1>1. Init => Inv
  BY OrderingAssumption, InitRows DEF Init, TotalInv
<1>2. Inv /\ [Next]_vars => Inv'
  BY OrderingAssumption, NextRows, NextTotal
<1>3. Inv => TotalStands
  <2> SUFFICES ASSUME Inv, NEW r \in orders, ExactTotal(items[r]) <= Exact
               PROVE  /\ \A e \in created : e.order = r => e.total = ExactTotal(items[r])
                      /\ pc[r] = "created" => answer[r] = ExactTotal(items[r])
                      /\ GetOrder(r, cmd[r].customer).totals = {ExactTotal(items[r])}
    BY DEF TotalStands
  <2> DEFINE s == items[r]
             n == Len(s)
             turns == {f \in [DOMAIN s -> DOMAIN s] : IsInjective(f)}
  <2>1. r \in Requests /\ s \in Seq(Line)
    BY DEF OrderInv, RowTypes
  <2>2. n \in Nat /\ HasLines(s, n)
    BY <2>1 DEF HasLines
  <2>3. TotalCents(s) = ExactTotal(s)
    <3> HIDE DEF s, n
    <3> QED BY <2>2, OrderingAssumption, ExactTotalIsKept DEF s
  <2>4. \A turn \in turns : TotalCents([i \in DOMAIN s |-> s[turn[i]]]) = ExactTotal(s)
    <3> HIDE DEF s, n
    <3> QED BY <2>2, OrderingAssumption, ExactTotalReordered DEF s
  <2>5. [i \in DOMAIN s |-> i] \in turns
    BY DEF IsInjective
  <2>6. GetOrder(r, cmd[r].customer).totals
          = {TotalCents([i \in DOMAIN s |-> s[turn[i]]]) : turn \in turns}
    BY DEF GetOrder, Rehydrated
  <2>7. GetOrder(r, cmd[r].customer).totals = {ExactTotal(s)}
    <3> HIDE DEF turns, s
    <3> QED BY <2>4, <2>5, <2>6
  <2> QED BY <2>1, <2>3, <2>7 DEF TotalInv
<1> HIDE DEF Inv
<1> QED BY <1>1, <1>2, <1>3, PTL DEF Spec

-----------------------------------------------------------------------------
(* Types *)

\* Doubles of every size: no spacing is the largest.
EverySize == \A u \in Spacings : 2 * u \in Spacings

\* A number of every size has doubles around it, and is rounded to one.
LEMMA DoubleTyped ==
    ASSUME OrderingAssumption, EverySize
    PROVE  \A n \in Nat : Double(n) \in Nat
<1> DEFINE Around(n, u) == n <= Exact * u /\ (u = 1 \/ n > Exact * (u \div 2))
           P == {n \in Nat : \E u \in Spacings : Around(n, u)}
<1>1. Exact \in Nat \ {0} /\ 1 \in Spacings /\ Spacings \subseteq Nat \ {0}
  BY DEF OrderingAssumption
<1>2. 0 \in P
  BY <1>1
<1>3. ASSUME NEW n \in Nat, n \in P PROVE n + 1 \in P
  <2>1. PICK u \in Spacings : Around(n, u)
    BY <1>3
  <2>2. u \in Nat \ {0} /\ 2 * u \in Spacings /\ (2 * u) \div 2 = u
    BY <1>1 DEF EverySize
  <2>3. Exact * u \in Nat /\ Exact * (2 * u) = 2 * (Exact * u) /\ Exact * u >= 1
    BY <1>1, <2>2
  <2>4. CASE n + 1 <= Exact * u
    <3>1. u = 1 \/ n + 1 > Exact * (u \div 2)
      <4>1. u # 1 => u \div 2 \in Nat /\ Exact * (u \div 2) \in Nat
        BY <1>1, <2>2
      <4> QED BY <2>1, <4>1
    <3> QED BY <2>4, <3>1
  <2>5. CASE ~ (n + 1 <= Exact * u)
    <3>1. n + 1 <= Exact * (2 * u) /\ n + 1 > Exact * ((2 * u) \div 2)
      BY <2>1, <2>2, <2>3, <2>5
    <3> QED BY <2>2, <3>1
  <2> QED BY <2>4, <2>5
<1>4. \A n \in Nat : n \in P
  <2> HIDE DEF P
  <2> QED BY <1>2, <1>3, NatsByStep
<1>5. ASSUME NEW n \in Nat PROVE Double(n) \in Nat
  <2> DEFINE u == Spacing(n)
             below == n \div u
  <2>1. u \in Spacings
    BY <1>4 DEF Spacing
  <2>2. u \in Nat \ {0}
    BY <1>1, <2>1
  <2> HIDE DEF u
  <2>3. below \in Nat
    BY <2>2
  <2> HIDE DEF below
  <2>4. below * u \in Nat /\ (below + 1) * u \in Nat
    BY <2>2, <2>3
  <2> QED BY <2>4 DEF Double, u, below
<1> QED BY <1>5

\* What a total adds, and what it makes of it.
LEMMA TotalTyped ==
    ASSUME OrderingAssumption, EverySize, NEW n \in Nat, NEW s, HasLines(s, n)
    PROVE  TotalCents(s) \in Nat
<1> DEFINE S == DOMAIN s
           step == [p \in S \X Nat |-> Double(p[2] + Subtotal(s[p[1]]))]
           pick == [T \in SUBSET S |-> Max(T)]
<1>1. IsFiniteSet(S) /\ S = 1 .. n
  BY FS_Interval DEF HasLines
<1>2. \A i \in S : Subtotal(s[i]) \in Nat
  <2> SUFFICES ASSUME NEW i \in S PROVE Subtotal(s[i]) \in Nat
    OBVIOUS
  <2>1. s[i].price * s[i].quantity = Worth(s)[i] /\ Worth(s)[i] \in Nat
    BY WorthTyped DEF Worth
  <2> QED BY <2>1, DoubleTyped DEF Subtotal
<1>3. step \in [S \X Nat -> Nat]
  <2> SUFFICES ASSUME NEW p \in S \X Nat PROVE Double(p[2] + Subtotal(s[p[1]])) \in Nat
    OBVIOUS
  <2>1. p[2] + Subtotal(s[p[1]]) \in Nat
    BY <1>2
  <2> QED BY <2>1, DoubleTyped
<1>4. PicksElements(S, pick)
  BY <1>1, MaxIsIn DEF PicksElements
<1>5. \A i \in S, k \in Nat : step[<<i, k>>] = Double(k + Subtotal(s[i]))
  OBVIOUS
<1>6. \A T \in SUBSET S : pick[T] = Max(T)
  OBVIOUS
<1> HIDE DEF step, pick
<1>7. PICK g : IsFold(S, Nat, 0, step, pick, g)
  <2>1. 0 \in Nat
    OBVIOUS
  <2> HIDE DEF S
  <2> QED BY <1>1, <1>3, <1>4, <2>1, FoldExists
<1>8. g \in [SUBSET S -> Nat]
      /\ \A T \in SUBSET S :
           g[T] = IF T = {} THEN 0 ELSE Double(g[T \ {Max(T)}] + Subtotal(s[Max(T)]))
  <2>1. g \in [SUBSET S -> Nat]
    BY <1>7 DEF IsFold
  <2> SUFFICES ASSUME NEW T \in SUBSET S
               PROVE  g[T] = IF T = {} THEN 0
                             ELSE Double(g[T \ {Max(T)}] + Subtotal(s[Max(T)]))
    BY <2>1
  <2>2. g[T] = IF T = {} THEN 0 ELSE step[<<Max(T), g[T \ {Max(T)}]>>]
    BY <1>6, <1>7 DEF IsFold
  <2>3. T # {} => Max(T) \in S /\ g[T \ {Max(T)}] \in Nat
    BY <1>4, <1>6, <2>1 DEF PicksElements
  <2> QED BY <1>5, <2>2, <2>3
<1>9. RoundsUp(s, g)
  BY <1>8 DEF RoundsUp
<1>10. RoundsUp(s, CHOOSE h : RoundsUp(s, h))
  BY <1>9
<1>11. TotalCents(s) = g[DOMAIN s]
  BY <1>9, <1>10, TotalsUnique, TotalsUnfold
<1> QED BY <1>8, <1>11

\* The part of TypeOK that is about amounts, and what it takes for it to be kept.
AmountTypes ==
    /\ wallet \in [Signups -> Nat]
    /\ created \subseteq [order : Requests, total : Nat]
    /\ answer \in [Requests -> Nat]

LEMMA NextAmounts ==
    ASSUME OrderingAssumption, EverySize, OrderInv, AmountTypes, [Next]_vars
    PROVE  AmountTypes'
<1>1. CASE UNCHANGED vars
  BY <1>1 DEF vars, AmountTypes
<1>2. ASSUME NEW c \in Signups, SignUp(c) PROVE AmountTypes'
  BY <1>2 DEF SignUp, AmountTypes
<1>3. ASSUME NEW c \in Signups, NEW amount \in Amounts, TopUp(c, amount) PROVE AmountTypes'
  <2>1. wallet[c] + amount \in Nat
    BY DEF OrderingAssumption, AmountTypes
  <2>2. Raised(c, amount) \in Nat
    BY <2>1, DoubleTyped DEF Raised
  <2> QED BY <1>3, <2>2 DEF TopUp, AmountTypes
<1>4. ASSUME NEW p \in Products, CreateProduct(p) PROVE AmountTypes'
  BY <1>4 DEF CreateProduct, AmountTypes
<1>5. ASSUME NEW r \in Requests, PlaceOrder(r) \/ Abort(r) PROVE AmountTypes'
  <2>1. TotalCents(lines[r]) \in Nat
    <3>1. lines[r] \in Seq(Line)
      BY DEF OrderInv, RowTypes
    <3>2. HasLines(lines[r], Len(lines[r])) /\ Len(lines[r]) \in Nat
      BY <3>1 DEF HasLines
    <3> QED BY <3>2, TotalTyped
  <2>2. CASE Receive(r) \/ ReadCustomer(r) \/ ReadProducts(r) \/ Abort(r)
    BY <2>2 DEF Receive, ReadCustomer, ReadProducts, Abort, AmountTypes
  <2>3. CASE Store(r)
    <3>1. [order |-> r, total |-> TotalCents(lines[r])] \in [order : Requests, total : Nat]
      BY <2>1
    <3>2. wallet' = wallet /\ answer' = answer
          /\ created' \in {created, created \cup {[order |-> r, total |-> TotalCents(lines[r])]}}
      BY <2>3 DEF Store, PublishCreated
    <3> QED BY <3>1, <3>2 DEF AmountTypes
  <2>4. CASE Respond(r)
    BY <2>1, <2>4 DEF Respond, AmountTypes
  <2> QED BY <1>5, <2>2, <2>3, <2>4 DEF PlaceOrder
<1> QED BY <1>1, <1>2, <1>3, <1>4, <1>5 DEF Next

\* Every row and variable has its type, whatever the amounts: rounding a balance or a
\* total that no double holds (Customer.topUp, Order.totalCents) yields an integer.
THEOREM OrderingTypes == EverySize => (Spec => []TypeOK)
<1> SUFFICES ASSUME EverySize PROVE Spec => []TypeOK
  OBVIOUS
<1> DEFINE Inv == OrderInv /\ WalletInv /\ AmountTypes
<1>1. Init => Inv
  BY OrderingAssumption, InitRows DEF Init, WalletInv, AmountTypes
<1>2. Inv /\ [Next]_vars => Inv'
  BY OrderingAssumption, NextRows, NextWallet, NextAmounts
<1>3. Inv => TypeOK
  BY DEF OrderInv, RowTypes, WalletInv, AmountTypes, TypeOK
<1> HIDE DEF Inv
<1> QED BY <1>1, <1>2, <1>3, PTL DEF Spec
=============================================================================
