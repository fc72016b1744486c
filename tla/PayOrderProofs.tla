--------------------------- MODULE PayOrderProofs ---------------------------
(***************************************************************************)
(* Theorems about PayOrder, for every set of requests, orders, customers   *)
(* and providers: type correctness first, then the invariants that tie the *)
(* status of an order to the payments stored for it.                       *)
(***************************************************************************)
EXTENDS PayOrder, FiniteSetTheorems, TLAPS

-----------------------------------------------------------------------------
(* The strengthening type correctness needs *)

InLoop == {"charge", "debit", "charged", "declined"}
Charging == InLoop \cup {"finalize", "compensate", "refund"}
BeforeClaim == {"idle", "lookup", "read", "claim"}
AfterRead == Charging \cup {"claim", "succeeded", "failed"}

\* A request that got past the read is about an order of its customer.
Admitted ==
    \A r \in Requests : pc[r] \in AfterRead =>
        OrderOf(r) \in Orders /\ CustomerOf(r) = Owner[OrderOf(r)]

\* Only a body the controller let through is worked on.
BodyAccepted ==
    \A r \in Requests : pc[r] \in Running => WellFormed(Allocations(r))

\* The loops begin with the first candidate for the first allocation.
CountersFresh ==
    \A r \in Requests : pc[r] \in BeforeClaim =>
        at[r] = [alloc |-> 1, cand |-> 1, undone |-> 0]

\* The loops' counters point at an allocation and at a candidate for it.
CountersInRange ==
    \A r \in Requests : pc[r] \in InLoop =>
        /\ at[r].alloc \in 1 .. Len(Allocations(r))
        /\ at[r].cand \in 1 .. Len(Candidates(r, at[r].alloc))
        /\ pc[r] # "charge" => Provider(r) \in Providers

\* Only existing orders have payments, and only payments have events.
RowsReferToRows ==
    /\ \A p \in Requests : Persisted(p) => OrderOf(p) \in Orders
    /\ \A p \in Requests, n \in EventName : <<n, p>> \in outbox => Persisted(p)

TypeInv ==
    /\ TypeOK /\ Admitted /\ BodyAccepted /\ CountersFresh /\ CountersInRange
    /\ RowsReferToRows

-----------------------------------------------------------------------------
(* Facts about the helpers *)

LEMMA CommandTyped ==
    ASSUME cmd \in [Requests -> Commands], NEW r \in Requests
    PROVE  Allocations(r) \in Seq(Allocation)
BY PayAssumption DEF Allocations

LEMMA CandidatesTyped ==
    ASSUME cmd \in [Requests -> Commands], NEW r \in Requests,
           NEW i \in 1 .. Len(Allocations(r)),
           Allocations(r)[i].provider \in Names \cup {NoProvider}
    PROVE  Candidates(r, i) \in Seq(Names)
BY PayAssumption DEF Candidates

LEMMA VerdictIs ==
    ASSUME NEW r
    PROVE  Verdict(r) \in {"claim"} \cup Refused
BY DEF Verdict, Refused

LEMMA StageIs ==
    ASSUME NEW r, NEW attempts, NEW i, NEW j
    PROVE  /\ Stage(r, attempts, i, j) \in {"charge", "finalize", "compensate"}
           /\ Stage(r, attempts, i, j) = "charge" =>
                ~ (i > Len(Allocations(r))) /\ ~ (j > Len(Candidates(r, i)))
BY DEF Stage

LEMMA LoopTyped ==
    ASSUME TypeInv, NEW r \in Requests, pc[r] \in InLoop
    PROVE  /\ Amount(r) \in Nat
           /\ Provider(r) \in Names
           /\ Candidates(r, at[r].alloc) \in Seq(Names)
           /\ Allocations(r) \in Seq(Allocation)
<1>1. Allocations(r) \in Seq(Allocation)
  BY CommandTyped DEF TypeInv, TypeOK
<1>2. at[r].alloc \in 1 .. Len(Allocations(r))
  BY DEF TypeInv, CountersInRange
<1>3. Allocations(r)[at[r].alloc] \in Allocation
  BY <1>1, <1>2
<1>4. Candidates(r, at[r].alloc) \in Seq(Names)
  BY <1>2, <1>3, CandidatesTyped DEF TypeInv, TypeOK, Allocation
<1>5. Provider(r) \in Names
  BY <1>4 DEF TypeInv, CountersInRange, Provider
<1>6. Amount(r) \in Nat
  <2>1. Allocations(r)[at[r].alloc].amount >= 1
    BY <1>1, <1>2 DEF TypeInv, BodyAccepted, WellFormed, InLoop, Running
  <2> QED BY <2>1, <1>3 DEF Amount, Allocation
<1> QED BY <1>1, <1>4, <1>5, <1>6

-----------------------------------------------------------------------------
(* How a step of request r moves it *)

RequestStep(r) == Receive(r) \/ Execute(r) \/ Abort(r)

Labels == {"idle"} \cup Running \cup Ended

LEMMA GoOnTyped ==
    ASSUME pc \in [Requests -> Labels], at \in [Requests -> Counters],
           NEW r \in Requests, NEW attempts, GoOn(r, attempts)
    PROVE  /\ pc' = [pc EXCEPT ![r] = pc'[r]]
           /\ pc'[r] \in {"charge", "finalize", "compensate"}
           /\ at' = [at EXCEPT ![r] = at'[r]]
           /\ at'[r] \in Counters
           /\ pc'[r] = "charge" =>
                ~ (at'[r].alloc > Len(Allocations(r)))
                /\ ~ (at'[r].cand > Len(Candidates(r, at'[r].alloc)))
<1>1. Advance(r) \in Counters
  BY DEF Advance, Counters
<1>2. at' = [at EXCEPT ![r] = Advance(r)] /\ at'[r] = Advance(r)
  BY DEF GoOn
<1>3. /\ pc' = [pc EXCEPT ![r] = Stage(r, attempts, Advance(r).alloc, Advance(r).cand)]
      /\ pc'[r] = Stage(r, attempts, Advance(r).alloc, Advance(r).cand)
  BY DEF GoOn, Goto
<1> QED BY <1>1, <1>2, <1>3, StageIs

\* A step of r leaves the other requests and every command alone, and gets r past
\* the read, or past the controller, only through their checks.
LEMMA RequestMoves ==
    ASSUME pc \in [Requests -> Labels], at \in [Requests -> Counters],
           NEW r \in Requests, RequestStep(r)
    PROVE  /\ cmd' = cmd
           /\ pc' \in [Requests -> Labels] /\ at' \in [Requests -> Counters]
           /\ \A k \in Requests \ {r} : pc'[k] = pc[k] /\ at'[k] = at[k]
           /\ pc'[r] \in AfterRead => pc[r] \in AfterRead \/ Verdict(r) = "claim"
           /\ pc'[r] \in Running => pc[r] \in Running \/ WellFormed(Allocations(r))
           /\ pc'[r] \in BeforeClaim => pc[r] \in BeforeClaim /\ at'[r] = at[r]
           /\ pc'[r] \in Charging => pc[r] \in Charging \/ Claim(r)
<1> USE DEF AfterRead, BeforeClaim, Charging, InLoop, Labels, Running, Ended, Refused
<1>1. CASE Receive(r)
  BY <1>1 DEF Receive, Goto
<1>2. CASE Lookup(r)
  BY <1>2 DEF Lookup, Goto
<1>3. CASE ReadOrder(r)
  BY <1>3, VerdictIs DEF ReadOrder, Goto
<1>4. CASE ClaimRefused(r)
  BY <1>4 DEF ClaimRefused, Goto
<1>5. CASE Claim(r)
  BY <1>5, StageIs DEF Claim, Goto, Initiate
<1>6. CASE SkipProvider(r)
  BY <1>6, GoOnTyped DEF SkipProvider, Registered
<1>7. CASE ChargeExternal(r)
  BY <1>7 DEF ChargeExternal, Goto, Registered
<1>8. CASE ChargeWallet(r)
  BY <1>8 DEF ChargeWallet, Goto, InsufficientFunds, Debited
<1>9. CASE SaveDebit(r)
  BY <1>9 DEF SaveDebit, Goto
<1>10. CASE RecordAttempt(r)
  BY <1>10, GoOnTyped DEF RecordAttempt
<1>11. CASE FinalizeSuccess(r)
  BY <1>11 DEF FinalizeSuccess, Goto, MarkSucceeded
<1>12. CASE RefundSkipped(r)
  <2>1. pc' = pc /\ cmd' = cmd /\ pc[r] = "compensate"
    BY <1>12 DEF RefundSkipped, Refunding
  <2>2. at' = [at EXCEPT ![r].undone = @ + 1]
    BY <1>12 DEF RefundSkipped, RefundedOne
  <2> QED BY <2>1, <2>2 DEF Counters
<1>13. CASE RefundExternal(r)
  <2>1. pc' = pc /\ cmd' = cmd /\ pc[r] = "compensate"
    BY <1>13 DEF RefundExternal, Refunding
  <2>2. at' = [at EXCEPT ![r].undone = @ + 1]
    BY <1>13 DEF RefundExternal, RefundedOne
  <2> QED BY <2>1, <2>2 DEF Counters
<1>14. CASE RefundWallet(r)
  BY <1>14 DEF RefundWallet, Refunding, Goto, Credited
<1>15. CASE SaveRefund(r)
  BY <1>15 DEF SaveRefund, RefundedOne, Counters, Goto
<1>16. CASE FinalizeFailed(r)
  BY <1>16 DEF FinalizeFailed, Goto, MarkFailed
<1>17. CASE Abort(r)
  BY <1>17 DEF Abort, Goto
<1> QED BY <1>1, <1>2, <1>3, <1>4, <1>5, <1>6, <1>7, <1>8, <1>9, <1>10, <1>11, <1>12, <1>13,
           <1>14, <1>15, <1>16, <1>17 DEF RequestStep, Execute

-----------------------------------------------------------------------------
(* Type correctness *)

\* Committing a transaction keeps the wallets typed.
LEMMA CommitTyped ==
    ASSUME wallet \in [Customers -> Nat], draft \in [Requests -> Nat],
           lock \in [Customers -> Requests \cup {NoRequest}],
           NEW r \in Requests, CommitCustomers(r)
    PROVE  /\ wallet' \in [Customers -> Nat]
           /\ lock' \in [Customers -> Requests \cup {NoRequest}]
BY DEF CommitCustomers

LEMMA RequestTyped ==
    ASSUME TypeInv, NEW r \in Requests, RequestStep(r)
    PROVE  TypeOK'
<1> USE DEF TypeOK
<1>0. TypeOK /\ cmd' = cmd /\ pc' \in [Requests -> Labels] /\ at' \in [Requests -> Counters]
  BY RequestMoves DEF TypeInv, Labels
<1>1. CASE Receive(r)
  BY <1>0, <1>1 DEF Receive, database, Labels
<1>2. CASE Lookup(r)
  BY <1>0, <1>2 DEF Lookup, database, Labels
<1>3. CASE ReadOrder(r)
  BY <1>0, <1>3 DEF ReadOrder, database, Labels
<1>4. CASE ClaimRefused(r)
  BY <1>0, <1>4 DEF ClaimRefused, database, Labels
<1>5. CASE Claim(r)
  <2>1. payment' \in [Requests -> [status : PaymentStatus, attempts : Seq(Attempt)]]
    BY <1>5 DEF TypeInv, Claim, PaymentStatus, Initiate
  <2>2. order' \in [Orders -> OrderStatus]
    BY <1>5 DEF TypeInv, Claim, OrderStatus, Initiate
  <2>3. outbox' \subseteq EventName \X Requests
    BY <1>5 DEF TypeInv, Claim, EventName, Initiate
  <2> QED BY <1>0, <1>5, <2>1, <2>2, <2>3 DEF Claim, Labels, Initiate
<1>6. CASE SkipProvider(r)
  BY <1>0, <1>6 DEF SkipProvider, database, Labels, Registered
<1>7. CASE ChargeExternal(r)
  <2>1. ChargeRef(r) \in Ref
    BY <1>7 DEF TypeInv, ChargeRef, Ref, Counters, ChargeExternal, Registered
  <2> QED BY <1>0, <1>7, <2>1 DEF ChargeExternal, database, Labels, Registered
<1>8. CASE ChargeWallet(r)
  <2>1. Amount(r) \in Nat /\ wallet[CustomerOf(r)] \in Nat
    BY <1>8, LoopTyped, PayAssumption DEF TypeInv, Admitted, InLoop, AfterRead, Charging,
       ChargeWallet, InsufficientFunds, Debited
  <2>2. draft' \in [Requests -> Nat]
    <3>1. CASE Amount(r) > wallet[CustomerOf(r)]
      BY <1>0, <1>8, <2>1, <3>1 DEF ChargeWallet, InsufficientFunds, Debited
    <3>2. CASE Amount(r) <= wallet[CustomerOf(r)]
      <4>1. wallet[CustomerOf(r)] - Amount(r) \in Nat
        BY <2>1, <3>2
      <4>2. draft' = [draft EXCEPT ![r] = wallet[CustomerOf(r)] - Amount(r)]
        BY <1>8, <2>1, <3>2 DEF ChargeWallet, InsufficientFunds, Debited
      <4> QED BY <1>0, <4>1, <4>2
    <3> QED BY <2>1, <3>1, <3>2
  <2> QED BY <1>0, <1>8, <2>2 DEF ChargeWallet, database, Labels, InsufficientFunds, Debited
<1>9. CASE SaveDebit(r)
  BY <1>0, <1>9 DEF SaveDebit, database, Labels, SaveCustomer
<1>10. CASE RecordAttempt(r)
  <2>1. NewAttempt(r) \in Attempt /\ NewCharge(r) \in Charge
    <3>1. Amount(r) \in Nat /\ Provider(r) \in Providers
      BY <1>10, LoopTyped DEF TypeInv, CountersInRange, InLoop, RecordAttempt
    <3>2. ChargeRef(r) \in Ref
      BY <3>1 DEF TypeInv, ChargeRef, Ref, Counters
    <3> QED BY <3>1, <3>2 DEF NewAttempt, NewCharge, Attempt, Charge
  <2>2. Attempts(r) \in Seq(Attempt)
    BY <2>1 DEF TypeInv, Attempts
  <2>3. payment' \in [Requests -> [status : PaymentStatus, attempts : Seq(Attempt)]]
    BY <1>10, <2>2 DEF TypeInv, RecordAttempt
  <2>4. successes' \in [Requests -> Seq(Charge)]
    BY <1>10, <2>1 DEF TypeInv, RecordAttempt
  <2>5. /\ wallet' \in [Customers -> Nat]
        /\ lock' \in [Customers -> Requests \cup {NoRequest}]
    BY <1>10, CommitTyped DEF TypeInv, RecordAttempt
  <2> QED BY <1>0, <1>10, <2>3, <2>4, <2>5 DEF RecordAttempt, Labels
<1>11. CASE FinalizeSuccess(r)
  <2>1. payment' \in [Requests -> [status : PaymentStatus, attempts : Seq(Attempt)]]
    BY <1>11 DEF TypeInv, FinalizeSuccess, PaymentStatus, MarkSucceeded
  <2> QED BY <1>0, <1>11, <2>1 DEF FinalizeSuccess, EventName, Labels, MarkSucceeded
<1>12. CASE RefundSkipped(r)
  BY <1>0, <1>12 DEF RefundSkipped, database, Labels
<1>13. CASE RefundExternal(r)
  <2>1. Refunding(r)
    BY <1>13 DEF RefundExternal
  <2>2. ToRefund(r) \in Charge
    BY <1>0, <2>1 DEF ToRefund, Refunding, Counters
  <2>3. ledger' \subseteq {"charge", "refund"} \X Ref
    BY <1>0, <1>13, <2>2 DEF RefundExternal, Charge
  <2> QED BY <1>0, <1>13, <2>3 DEF RefundExternal, database, Labels
<1>14. CASE RefundWallet(r)
  <2>1. ToRefund(r) \in Charge
    BY <1>14, <1>0 DEF ToRefund, Refunding, RefundWallet, Counters, Credited
  <2>2. wallet[CustomerOf(r)] \in Nat /\ draft[r] \in Nat /\ ToRefund(r).amount \in Nat
    BY <1>14, <2>1, PayAssumption DEF TypeInv, Admitted, AfterRead, Charging, RefundWallet,
       Refunding, Charge, Credited
  <2>3. draft' \in [Requests -> Nat]
    BY <1>14, <1>0, <2>2 DEF RefundWallet, Credited
  <2> QED BY <1>0, <1>14, <2>3 DEF RefundWallet, database, Labels, Credited
<1>15. CASE SaveRefund(r)
  BY <1>0, <1>15 DEF SaveRefund, database, Labels, SaveCustomer
<1>16. CASE FinalizeFailed(r)
  <2>1. /\ wallet' \in [Customers -> Nat]
        /\ lock' \in [Customers -> Requests \cup {NoRequest}]
    BY <1>16, CommitTyped DEF TypeInv, FinalizeFailed, MarkFailed
  <2>2. payment' \in [Requests -> [status : PaymentStatus, attempts : Seq(Attempt)]]
    BY <1>16 DEF TypeInv, FinalizeFailed, PaymentStatus, MarkFailed
  <2> QED BY <1>0, <1>16, <2>1, <2>2 DEF FinalizeFailed, EventName, Labels, MarkFailed
<1>17. CASE Abort(r)
  BY <1>0, <1>17 DEF Abort, database, Labels
<1> QED BY <1>1, <1>2, <1>3, <1>4, <1>5, <1>6, <1>7, <1>8, <1>9, <1>10, <1>11, <1>12, <1>13,
           <1>14, <1>15, <1>16, <1>17 DEF RequestStep, Execute

\* The only steps that change the status of an order or of a payment, or write
\* to the outbox.
LEMMA StatusMoves ==
    ASSUME TypeOK, NEW r \in Requests, RequestStep(r)
    PROVE  /\ \A k \in Requests \ {r} : payment'[k] = payment[k]
           /\ \/ Claim(r) \/ FinalizeSuccess(r) \/ FinalizeFailed(r)
              \/ /\ order' = order /\ outbox' = outbox
                 /\ \A k \in Requests : payment'[k].status = payment[k].status
<1> USE DEF TypeOK
<1>1. CASE Receive(r)
  BY <1>1 DEF Receive, database
<1>2. CASE Lookup(r)
  BY <1>2 DEF Lookup, database
<1>3. CASE ReadOrder(r)
  BY <1>3 DEF ReadOrder, database
<1>4. CASE ClaimRefused(r)
  BY <1>4 DEF ClaimRefused, database
<1>5. CASE Claim(r)
  BY <1>5 DEF Claim, database, Initiate
<1>6. CASE SkipProvider(r)
  BY <1>6 DEF SkipProvider, database, Registered
<1>7. CASE ChargeExternal(r)
  BY <1>7 DEF ChargeExternal, database, Registered
<1>8. CASE ChargeWallet(r)
  BY <1>8 DEF ChargeWallet, database, InsufficientFunds, Debited
<1>9. CASE SaveDebit(r)
  BY <1>9 DEF SaveDebit, database
<1>10. CASE RecordAttempt(r)
  BY <1>10 DEF RecordAttempt, database
<1>11. CASE FinalizeSuccess(r)
  BY <1>11 DEF FinalizeSuccess, database, MarkSucceeded
<1>12. CASE RefundSkipped(r)
  BY <1>12 DEF RefundSkipped, database
<1>13. CASE RefundExternal(r)
  BY <1>13 DEF RefundExternal, database
<1>14. CASE RefundWallet(r)
  BY <1>14 DEF RefundWallet, database, Credited
<1>15. CASE SaveRefund(r)
  BY <1>15 DEF SaveRefund, database
<1>16. CASE FinalizeFailed(r)
  BY <1>16 DEF FinalizeFailed, database, MarkFailed
<1>17. CASE Abort(r)
  BY <1>17 DEF Abort, database
<1> QED BY <1>1, <1>2, <1>3, <1>4, <1>5, <1>6, <1>7, <1>8, <1>9, <1>10, <1>11, <1>12, <1>13,
           <1>14, <1>15, <1>16, <1>17 DEF RequestStep, Execute

\* The counters stay in range: a step into the loops sets them, a step inside an
\* attempt keeps them, and an attempt is made only of a registered provider.
LEMMA RequestCounters ==
    ASSUME TypeInv, NEW r \in Requests, RequestStep(r)
    PROVE  CountersInRange'
<1>1. /\ cmd' = cmd
      /\ pc' \in [Requests -> Labels] /\ at' \in [Requests -> Counters]
      /\ \A k \in Requests \ {r} : pc'[k] = pc[k] /\ at'[k] = at[k]
  BY RequestMoves DEF TypeInv, TypeOK, Labels
<1>2. ASSUME NEW k \in Requests, pc'[k] \in InLoop, k # r
      PROVE  /\ at'[k].alloc \in 1 .. Len(Allocations(k)')
             /\ at'[k].cand \in 1 .. Len(Candidates(k, at[k].alloc)')
             /\ pc'[k] # "charge" => Provider(k)' \in Providers
  BY <1>1, <1>2 DEF TypeInv, CountersInRange, Allocations, Candidates, Provider
<1>3. ASSUME pc'[r] \in InLoop
      PROVE  /\ at'[r].alloc \in 1 .. Len(Allocations(r)')
             /\ at'[r].cand \in 1 .. Len(Candidates(r, at[r].alloc)')
             /\ pc'[r] # "charge" => Provider(r)' \in Providers
  <2> DEFINE InRange(c) == /\ c.alloc \in 1 .. Len(Allocations(r))
                           /\ c.cand \in 1 .. Len(Candidates(r, c.alloc))
  <2>1. /\ cmd \in [Requests -> Commands] /\ at'[r] \in Counters
        /\ Allocations(r) \in Seq(Allocation)
    BY <1>1, CommandTyped DEF TypeInv, TypeOK
  <2>2. ASSUME NEW c \in Counters, ~ (c.alloc > Len(Allocations(r))),
               ~ (c.cand > Len(Candidates(r, c.alloc)))
        PROVE  InRange(c)
    <3>1. c.alloc \in 1 .. Len(Allocations(r))
      BY <2>1, <2>2 DEF Counters
    <3>2. Allocations(r)[c.alloc] \in Allocation
      BY <2>1, <3>1
    <3>3. Candidates(r, c.alloc) \in Seq(Names)
      BY <2>1, <3>1, <3>2, CandidatesTyped DEF Allocation
    <3> QED BY <2>2, <3>1, <3>3 DEF Counters
  <2>3. InRange(at'[r]) /\ (pc'[r] # "charge" => Provider(r)' \in Providers)
    <3> USE <1>1, <1>3 DEF TypeInv, TypeOK, InLoop, Labels, Running, Ended, Refused
    <3>1. CASE Claim(r)
      <4>1. at' = at /\ pc[r] = "claim" /\ pc'[r] = Stage(r, <<>>, 1, 1)
        BY <3>1 DEF Claim, Goto, Initiate
      <4>2. at'[r] = [alloc |-> 1, cand |-> 1, undone |-> 0]
        BY <4>1 DEF CountersFresh, BeforeClaim
      <4>3. pc'[r] = "charge" /\ ~ (1 > Len(Allocations(r))) /\ ~ (1 > Len(Candidates(r, 1)))
        <5>1. Stage(r, <<>>, 1, 1) \in {"charge", "finalize", "compensate"}
          BY StageIs
        <5>2. Stage(r, <<>>, 1, 1) = "charge"
          BY <4>1, <5>1
        <5> QED BY ONLY <4>1, <5>2, StageIs
      <4>4. InRange(at'[r])
        BY <2>1, <2>2, <4>2, <4>3
      <4> QED BY <4>3, <4>4
    <3>2. CASE SkipProvider(r) \/ RecordAttempt(r)
      <4>1. PICK attempts : GoOn(r, attempts)
        BY <3>2 DEF SkipProvider, RecordAttempt, Registered
      <4>2. /\ pc'[r] = "charge" /\ ~ (at'[r].alloc > Len(Allocations(r)))
            /\ ~ (at'[r].cand > Len(Candidates(r, at'[r].alloc)))
        BY <4>1, GoOnTyped
      <4> QED BY <2>1, <2>2, <4>2
    <3>3. CASE ChargeExternal(r) \/ ChargeWallet(r) \/ SaveDebit(r)
      <4>1. at' = at /\ pc[r] \in {"charge", "debit"} /\ Provider(r)' = Provider(r)
        BY <3>3 DEF ChargeExternal, ChargeWallet, SaveDebit, Provider, Candidates, Allocations,
           InsufficientFunds, Debited, Registered
      <4>2. InRange(at[r]) /\ (pc[r] # "charge" => Provider(r) \in Providers)
        BY <4>1 DEF CountersInRange
      <4>3. pc[r] = "charge" => Provider(r) \in Providers
        BY <3>3, PayAssumption DEF ChargeExternal, ChargeWallet, SaveDebit, InsufficientFunds,
           Debited, Registered
      <4> QED BY <4>1, <4>2, <4>3
    <3>4. CASE Receive(r) \/ Lookup(r) \/ ReadOrder(r) \/ ClaimRefused(r) \/ Abort(r)
      <4>1. pc \in [Requests -> Labels]
        OBVIOUS
      <4> USE DEF Goto
      <4>2. CASE Receive(r) \/ Lookup(r)
        BY <4>1, <4>2 DEF Receive, Lookup
      <4>3. CASE ReadOrder(r)
        BY <4>1, <4>3, VerdictIs DEF ReadOrder
      <4>4. CASE ClaimRefused(r) \/ Abort(r)
        BY <4>1, <4>4 DEF ClaimRefused, Abort
      <4> QED BY <3>4, <4>2, <4>3, <4>4
    <3>5. CASE FinalizeSuccess(r) \/ FinalizeFailed(r)
      BY <3>5 DEF FinalizeSuccess, FinalizeFailed, Goto, MarkSucceeded, MarkFailed
    <3>6. CASE RefundSkipped(r) \/ RefundExternal(r) \/ RefundWallet(r) \/ SaveRefund(r)
      BY <3>6 DEF RefundSkipped, RefundExternal, RefundWallet, SaveRefund, Refunding, Goto,
         Credited
    <3> QED BY <3>1, <3>2, <3>3, <3>4, <3>5, <3>6 DEF RequestStep, Execute
  <2> QED BY <1>1, <2>3 DEF Allocations, Candidates
<1> QED BY <1>2, <1>3 DEF CountersInRange
LEMMA RequestKeepsTypeInv ==
    ASSUME TypeInv, NEW r \in Requests, RequestStep(r)
    PROVE  TypeInv'
<1>1. /\ cmd' = cmd /\ pc' \in [Requests -> Labels]
      /\ \A k \in Requests \ {r} : pc'[k] = pc[k] /\ at'[k] = at[k]
      /\ pc'[r] \in AfterRead => pc[r] \in AfterRead \/ Verdict(r) = "claim"
      /\ pc'[r] \in Running => pc[r] \in Running \/ WellFormed(Allocations(r))
      /\ pc'[r] \in BeforeClaim => pc[r] \in BeforeClaim /\ at'[r] = at[r]
  BY RequestMoves DEF TypeInv, TypeOK, Labels
<1>2. Admitted'
  BY <1>1 DEF TypeInv, Admitted, Verdict, OrderOf, CustomerOf
<1>3. BodyAccepted'
  BY <1>1 DEF TypeInv, BodyAccepted, WellFormed, Allocations
<1>4. CountersFresh'
  BY <1>1 DEF TypeInv, CountersFresh
<1>5. RowsReferToRows'
  <2> USE DEF TypeInv, TypeOK, RowsReferToRows, Persisted
  <2>1. OrderOf(r)' = OrderOf(r) /\ \A k \in Requests \ {r} : payment'[k] = payment[k]
    BY <1>1, StatusMoves DEF OrderOf
  <2>2. CASE Claim(r)
    <3>1. OrderOf(r) \in Orders /\ payment'[r].status = "initiated"
      BY <2>2 DEF Claim, Admitted, AfterRead, Initiate
    <3> QED BY <1>1, <2>1, <2>2, <3>1 DEF Claim, OrderOf, Initiate
  <2>3. CASE FinalizeSuccess(r)
    <3>1. OrderOf(r) \in Orders /\ payment'[r].status = "succeeded"
      BY <2>3 DEF FinalizeSuccess, Admitted, AfterRead, Charging, MarkSucceeded
    <3> QED BY <1>1, <2>1, <2>3, <3>1 DEF FinalizeSuccess, OrderOf, MarkSucceeded
  <2>4. CASE FinalizeFailed(r)
    <3>1. OrderOf(r) \in Orders /\ payment'[r].status = "failed"
      BY <2>4 DEF FinalizeFailed, Admitted, AfterRead, Charging, MarkFailed
    <3> QED BY <1>1, <2>1, <2>4, <3>1 DEF FinalizeFailed, OrderOf, MarkFailed
  <2>5. CASE outbox' = outbox /\ \A k \in Requests : payment'[k].status = payment[k].status
    BY <1>1, <2>5 DEF OrderOf
  <2> QED BY <2>2, <2>3, <2>4, <2>5, StatusMoves
<1> QED BY <1>2, <1>3, <1>4, <1>5, RequestTyped, RequestCounters DEF TypeInv

\* What TypeInv says, besides the types, only speaks of these variables.
LEMMA TypeInvFrame ==
    ASSUME TypeInv, TypeOK', UNCHANGED <<payment, outbox, cmd, pc, at>>
    PROVE  TypeInv'
<1>1. Admitted'
  BY DEF TypeInv, Admitted, OrderOf, CustomerOf
<1>2. BodyAccepted'
  BY DEF TypeInv, BodyAccepted, WellFormed, Allocations
<1>3. CountersFresh' /\ CountersInRange'
  BY DEF TypeInv, CountersFresh, CountersInRange, Allocations, Candidates, Provider
<1>4. RowsReferToRows'
  BY DEF TypeInv, RowsReferToRows, Persisted, OrderOf
<1> QED BY <1>1, <1>2, <1>3, <1>4 DEF TypeInv

\* A step of a top-up.
LEMMA TopUpKeepsTypeInv ==
    ASSUME TypeInv, NEW t \in TopUps, TopUp(t)
    PROVE  TypeInv'
<1> USE DEF TypeInv, TypeOK, database, process
<1>0. TopUpOf[t].customer \in Customers /\ TopUpOf[t].amount \in Nat
  BY PayAssumption
<1>1. CASE TopUpRead(t)
  <2>1. wallet[TopUpOf[t].customer] + TopUpOf[t].amount \in Nat
    BY <1>0
  <2>2. topup' \in [TopUps -> [pc : {"idle", "save", "saving", "done"}, balance : Nat]]
    BY <1>1, <2>1 DEF TopUpRead, Credited
  <2>3. TypeOK'
    BY <1>1, <2>2 DEF TopUpRead, Credited
  <2> QED BY <1>1, <2>3, TypeInvFrame DEF TopUpRead, Credited
<1>2. CASE TopUpConnect(t)
  <2>1. topup' \in [TopUps -> [pc : {"idle", "save", "saving", "done"}, balance : Nat]]
    BY <1>2 DEF TopUpConnect
  <2>2. TypeOK'
    BY <1>2, <2>1 DEF TopUpConnect
  <2> QED BY <1>2, <2>2, TypeInvFrame DEF TopUpConnect
<1>3. CASE TopUpSave(t)
  <2>1. topup' \in [TopUps -> [pc : {"idle", "save", "saving", "done"}, balance : Nat]]
    BY <1>3 DEF TopUpSave
  <2>2. wallet' \in [Customers -> Nat]
    BY <1>3 DEF TopUpSave
  <2>3. TypeOK'
    BY <1>3, <2>1, <2>2 DEF TopUpSave
  <2> QED BY <1>3, <2>3, TypeInvFrame DEF TopUpSave
<1> QED BY <1>1, <1>2, <1>3 DEF TopUp

\* A step of a handler of the order context.
LEMMA HandlerKeepsTypeInv ==
    ASSUME TypeInv, NEW p \in Requests, NEW d \in Deliveries, Handle(p, d)
    PROVE  TypeInv'
<1> USE DEF TypeInv, TypeOK, database, process
<1>1. CASE HandlerRead(p, d)
  <2>1. OrderOf(p) \in Orders
    BY <1>1 DEF HandlerRead, Delivered, RowsReferToRows, EventName
  <2>2. TypeOK'
    BY <1>1, <2>1 DEF HandlerRead
  <2> QED BY <1>1, <2>2, TypeInvFrame DEF HandlerRead
<1>2. CASE SettlePaid(p, d)
  <2>1. order' \in [Orders -> OrderStatus]
    BY <1>2 DEF SettlePaid, OrderStatus, SaveStatus
  <2>2. TypeOK'
    BY <1>2, <2>1 DEF SettlePaid, SaveStatus
  <2> QED BY <1>2, <2>2, TypeInvFrame DEF SettlePaid, SaveStatus
<1>3. CASE SettleFailed(p, d)
  <2>1. order' \in [Orders -> OrderStatus]
    BY <1>3 DEF SettleFailed, OrderStatus, SaveStatus
  <2>2. TypeOK'
    BY <1>3, <2>1 DEF SettleFailed, SaveStatus
  <2> QED BY <1>3, <2>2, TypeInvFrame DEF SettleFailed, SaveStatus
<1>4. CASE SettleThrows(p, d) \/ HandlerFails(p, d)
  <2>1. TypeOK'
    BY <1>4 DEF SettleThrows, HandlerFails
  <2> QED BY <1>4, <2>1, TypeInvFrame DEF SettleThrows, HandlerFails
<1> QED BY <1>1, <1>2, <1>3, <1>4 DEF Handle

LEMMA InitTypeInv == Init => TypeInv
<1> SUFFICES ASSUME Init PROVE TypeInv
  OBVIOUS
<1>1. TypeOK
  <2>1. payment \in [Requests -> [status : PaymentStatus, attempts : Seq(Attempt)]]
    BY DEF Init, PaymentStatus
  <2>2. order \in [Orders -> OrderStatus] /\ wallet \in [Customers -> Nat]
    BY PayAssumption DEF Init, OrderStatus
  <2>3. at \in [Requests -> Counters] /\ successes \in [Requests -> Seq(Charge)]
    BY DEF Init, Counters
  <2>4. topup \in [TopUps -> [pc : {"idle", "save", "saving", "done"}, balance : Nat]]
    BY DEF Init
  <2> QED BY <2>1, <2>2, <2>3, <2>4 DEF Init, TypeOK
<1>2. Admitted /\ BodyAccepted /\ CountersInRange
  BY DEF Init, Admitted, BodyAccepted, CountersInRange, AfterRead, Charging, InLoop, Running
<1>3. CountersFresh /\ RowsReferToRows
  BY DEF Init, CountersFresh, RowsReferToRows, Persisted
<1> QED BY <1>1, <1>2, <1>3 DEF TypeInv

LEMMA NextTypeInv == TypeInv /\ [Next]_vars => TypeInv'
<1> SUFFICES ASSUME TypeInv, [Next]_vars PROVE TypeInv'
  OBVIOUS
<1>1. CASE UNCHANGED vars
  BY <1>1, TypeInvFrame DEF vars, TypeInv, TypeOK
<1>2. CASE Next
  <2>1. ASSUME NEW r \in Requests, Receive(r) \/ Execute(r) \/ Abort(r) PROVE TypeInv'
    BY <2>1, RequestKeepsTypeInv DEF RequestStep
  <2>2. ASSUME NEW t \in TopUps, TopUp(t) PROVE TypeInv'
    BY <2>2, TopUpKeepsTypeInv
  <2>3. ASSUME NEW p \in Requests, NEW d \in Deliveries, Handle(p, d) PROVE TypeInv'
    BY <2>3, HandlerKeepsTypeInv
  <2>4. CASE AllOver
    BY <1>1, <2>4 DEF AllOver
  <2> QED BY <1>2, <2>1, <2>2, <2>3, <2>4 DEF Next
<1> QED BY <1>1, <1>2

LEMMA TypeInvHolds == Spec => []TypeInv
<1> QED BY InitTypeInv, NextTypeInv, PTL DEF Spec

\* No request, top-up or handler leaves a variable without its type, whatever the
\* commands, the chain and the interleaving: no balance becomes negative and no
\* loop reaches beyond the allocations or the providers it walks.
THEOREM TypeCorrect == Spec => []TypeOK
<1>1. TypeInv => TypeOK
  BY DEF TypeInv
<1> QED BY <1>1, TypeInvHolds, PTL

-----------------------------------------------------------------------------
(* Orders and their payments *)

\* The row of a payment is written when its request claims the order, and gets its
\* final status only in the last transaction of that request.
StatusMatchesPc ==
    \A r \in Requests :
        /\ pc[r] \in BeforeClaim => payment[r].status = "none"
        /\ pc[r] \in Charging => payment[r].status = "initiated"

\* The outbox tells the truth: the final event of a payment and its final status
\* are committed together.
EventsMatchStatus ==
    \A p \in Requests :
        /\ <<"payment.succeeded", p>> \in outbox => payment[p].status = "succeeded"
        /\ <<"payment.failed", p>> \in outbox => payment[p].status = "failed"

PaymentInv ==
    /\ StatusMatchesPc /\ EventsMatchStatus /\ KeyNamesOnePayment
    /\ PendingIffUnclaimed /\ SettledByPayment

\* A claim stores the payment of a request that has none, for an order and a key.
LEMMA ClaimKeepsPaymentInv ==
    ASSUME TypeInv, PaymentInv, NEW r \in Requests, Claim(r),
           KeyNamesOnePayment', StatusMatchesPc'
    PROVE  PaymentInv'
<1>1. /\ cmd' = cmd /\ OrderOf(r) \in Orders
      /\ payment[r].status = "none" /\ payment'[r].status = "initiated"
      /\ \A k \in Requests \ {r} : payment'[k] = payment[k]
      /\ order' = [order EXCEPT ![OrderOf(r)] = "processing"]
      /\ order \in [Orders -> OrderStatus]
      /\ outbox' = outbox \cup {<<"payment.initiated", r>>}
  BY DEF TypeInv, TypeOK, Claim, PaymentInv, StatusMatchesPc, BeforeClaim, Admitted, AfterRead,
     Initiate
<1>2. EventsMatchStatus'
  BY <1>1 DEF PaymentInv, EventsMatchStatus
<1>3. PendingIffUnclaimed'
  BY <1>1 DEF PaymentInv, PendingIffUnclaimed, Persisted, OrderOf
<1>4. SettledByPayment'
  BY <1>1 DEF PaymentInv, SettledByPayment, OrderOf
<1> QED BY <1>2, <1>3, <1>4 DEF PaymentInv

\* The last transaction gives a payment its final status and writes its event.
LEMMA FinalKeepsPaymentInv ==
    ASSUME TypeInv, PaymentInv, NEW r \in Requests,
           FinalizeSuccess(r) \/ FinalizeFailed(r), KeyNamesOnePayment', StatusMatchesPc'
    PROVE  PaymentInv'
<1>1. /\ cmd' = cmd /\ order' = order
      /\ payment[r].status = "initiated"
      /\ \A k \in Requests \ {r} : payment'[k] = payment[k]
      /\ \/ /\ payment'[r].status = "succeeded"
            /\ outbox' = outbox \cup {<<"payment.succeeded", r>>}
         \/ /\ payment'[r].status = "failed"
            /\ outbox' = outbox \cup {<<"payment.failed", r>>}
  BY DEF TypeInv, TypeOK, FinalizeSuccess, FinalizeFailed, PaymentInv, StatusMatchesPc,
     Charging, MarkSucceeded, MarkFailed
<1>2. EventsMatchStatus'
  <2>1. CASE outbox' = outbox \cup {<<"payment.succeeded", r>>} /\ payment'[r].status = "succeeded"
    BY <1>1, <2>1 DEF PaymentInv, EventsMatchStatus
  <2>2. CASE outbox' = outbox \cup {<<"payment.failed", r>>} /\ payment'[r].status = "failed"
    BY <1>1, <2>2 DEF PaymentInv, EventsMatchStatus
  <2> QED BY <1>1, <2>1, <2>2
<1>3. PendingIffUnclaimed'
  BY <1>1 DEF PaymentInv, PendingIffUnclaimed, Persisted, OrderOf
<1>4. SettledByPayment'
  BY <1>1 DEF PaymentInv, SettledByPayment, OrderOf
<1> QED BY <1>2, <1>3, <1>4 DEF PaymentInv

LEMMA RequestKeepsPaymentInv ==
    ASSUME TypeInv, PaymentInv, NEW r \in Requests, RequestStep(r)
    PROVE  PaymentInv'
<1>1. /\ cmd' = cmd
      /\ \A k \in Requests \ {r} : pc'[k] = pc[k] /\ payment'[k] = payment[k]
      /\ pc'[r] \in BeforeClaim => pc[r] \in BeforeClaim
      /\ pc'[r] \in Charging => pc[r] \in Charging \/ Claim(r)
  BY RequestMoves, StatusMoves DEF TypeInv, TypeOK, Labels
<1>2. CASE Claim(r)
  <2>1. /\ pc[r] = "claim" /\ payment[r].status = "none"
        /\ payment'[r].status = "initiated" /\ pc'[r] \notin BeforeClaim
    BY <1>2, StageIs DEF TypeInv, TypeOK, Claim, Goto, BeforeClaim, PaymentInv,
       StatusMatchesPc, Initiate
  <2>2. StatusMatchesPc'
    BY <1>1, <2>1 DEF PaymentInv, StatusMatchesPc
  <2>3. \A k \in Requests \ {r} : Persisted(k) => Key(k) # Key(r)
    BY <1>2 DEF Claim, KeyTaken, Replay, Initiate
  <2>4. KeyNamesOnePayment'
    BY <1>1, <2>3 DEF PaymentInv, KeyNamesOnePayment, Persisted, Key
  <2> QED BY <1>2, <2>2, <2>4, ClaimKeepsPaymentInv
<1>3. CASE FinalizeSuccess(r) \/ FinalizeFailed(r)
  <2>1. pc'[r] \in {"succeeded", "failed"} /\ payment[r].status = "initiated"
    BY <1>3 DEF TypeInv, TypeOK, FinalizeSuccess, FinalizeFailed, Goto, Charging,
                PaymentInv, StatusMatchesPc, MarkSucceeded, MarkFailed
  <2>2. StatusMatchesPc'
    BY <1>1, <2>1 DEF PaymentInv, StatusMatchesPc, BeforeClaim, Charging, InLoop
  <2>3. KeyNamesOnePayment'
    BY <1>1, <2>1 DEF PaymentInv, KeyNamesOnePayment, Persisted, Key
  <2> QED BY <1>3, <2>2, <2>3, FinalKeepsPaymentInv
<1>4. CASE /\ ~ Claim(r) /\ order' = order /\ outbox' = outbox
           /\ \A k \in Requests : payment'[k].status = payment[k].status
  <2>1. StatusMatchesPc'
    BY <1>1, <1>4 DEF PaymentInv, StatusMatchesPc
  <2>2. EventsMatchStatus' /\ KeyNamesOnePayment'
    BY <1>1, <1>4 DEF PaymentInv, EventsMatchStatus, KeyNamesOnePayment, Persisted, Key
  <2>3. PendingIffUnclaimed' /\ SettledByPayment'
    BY <1>1, <1>4 DEF PaymentInv, PendingIffUnclaimed, SettledByPayment, Persisted, OrderOf
  <2> QED BY <2>1, <2>2, <2>3 DEF PaymentInv
<1> QED BY <1>2, <1>3, <1>4, StatusMoves DEF TypeInv

\* Whatever it read before, a handler moves an order only as its event says.
LEMMA HandlerKeepsPaymentInv ==
    ASSUME TypeInv, PaymentInv, NEW p \in Requests, NEW d \in Deliveries, Handle(p, d)
    PROVE  PaymentInv'
<1> USE DEF TypeInv, TypeOK, Persisted, process
<1>1. /\ cmd' = cmd /\ payment' = payment /\ outbox' = outbox /\ pc' = pc
      /\ \/ order' = order
         \/ /\ order' = [order EXCEPT ![OrderOf(p)] = "paid"]
            /\ <<"payment.succeeded", p>> \in outbox
         \/ /\ order' = [order EXCEPT ![OrderOf(p)] = "failed"]
            /\ <<"payment.failed", p>> \in outbox
  BY DEF Handle, HandlerRead, HandlerFails, SettlePaid, SettleThrows, SettleFailed, database,
     SaveStatus
<1>2. StatusMatchesPc' /\ EventsMatchStatus' /\ KeyNamesOnePayment'
  BY <1>1 DEF PaymentInv, StatusMatchesPc, EventsMatchStatus, KeyNamesOnePayment, Key
<1>3. order' # order => OrderOf(p) \in Orders /\ Persisted(p)
  BY <1>1 DEF RowsReferToRows, EventName
<1>4. PendingIffUnclaimed'
  BY <1>1, <1>3 DEF PaymentInv, PendingIffUnclaimed, OrderOf
<1>5. SettledByPayment'
  BY <1>1, <1>3 DEF PaymentInv, SettledByPayment, EventsMatchStatus, OrderOf
<1> QED BY <1>2, <1>4, <1>5 DEF PaymentInv

LEMMA PaymentInvFrame ==
    ASSUME PaymentInv, UNCHANGED <<order, payment, outbox, cmd, pc>>
    PROVE  PaymentInv'
<1>1. StatusMatchesPc' /\ EventsMatchStatus'
  BY DEF PaymentInv, StatusMatchesPc, EventsMatchStatus
<1>2. KeyNamesOnePayment'
  BY DEF PaymentInv, KeyNamesOnePayment, Key, Persisted
<1>3. PendingIffUnclaimed' /\ SettledByPayment'
  BY DEF PaymentInv, PendingIffUnclaimed, SettledByPayment, OrderOf, Persisted
<1> QED BY <1>1, <1>2, <1>3 DEF PaymentInv

LEMMA InitPaymentInv == Init => PaymentInv
<1> SUFFICES ASSUME Init PROVE PaymentInv
  OBVIOUS
<1>1. StatusMatchesPc /\ EventsMatchStatus
  BY DEF Init, StatusMatchesPc, EventsMatchStatus, Charging, InLoop
<1>2. KeyNamesOnePayment /\ PendingIffUnclaimed /\ SettledByPayment
  BY DEF Init, KeyNamesOnePayment, PendingIffUnclaimed, SettledByPayment, Persisted
<1> QED BY <1>1, <1>2 DEF PaymentInv

LEMMA NextPaymentInv == TypeInv /\ PaymentInv /\ [Next]_vars => PaymentInv'
<1> SUFFICES ASSUME TypeInv, PaymentInv, [Next]_vars PROVE PaymentInv'
  OBVIOUS
<1>1. CASE UNCHANGED vars
  BY <1>1, PaymentInvFrame DEF vars
<1>2. CASE Next
  <2>1. ASSUME NEW r \in Requests, Receive(r) \/ Execute(r) \/ Abort(r) PROVE PaymentInv'
    BY <2>1, RequestKeepsPaymentInv DEF RequestStep
  <2>2. ASSUME NEW t \in TopUps, TopUp(t) PROVE PaymentInv'
    BY <2>2, PaymentInvFrame DEF TopUp, TopUpRead, TopUpConnect, TopUpSave, database, process,
       Credited
  <2>3. ASSUME NEW p \in Requests, NEW d \in Deliveries, Handle(p, d) PROVE PaymentInv'
    BY <2>3, HandlerKeepsPaymentInv
  <2>4. CASE AllOver
    BY <1>1, <2>4 DEF AllOver
  <2> QED BY <1>2, <2>1, <2>2, <2>3, <2>4 DEF Next
<1> QED BY <1>1, <1>2

LEMMA PaymentInvHolds == Spec => []PaymentInv
<1> QED BY InitPaymentInv, NextPaymentInv, TypeInvHolds, PTL DEF Spec

\* One key, one payment: of all requests that ever carry a key, whatever else they
\* ask for and however they overlap, one at most charges.
THEOREM IdempotencyKeyIsUnique == Spec => []KeyNamesOnePayment
<1>1. PaymentInv => KeyNamesOnePayment
  BY DEF PaymentInv
<1> QED BY <1>1, PaymentInvHolds, PTL

\* An order waits for payment exactly as long as no payment was stored for it,
\* through concurrent claims, crashes, and events delivered late or twice.
THEOREM PendingMeansUnclaimed == Spec => []PendingIffUnclaimed
<1>1. PaymentInv => PendingIffUnclaimed
  BY DEF PaymentInv
<1> QED BY <1>1, PaymentInvHolds, PTL

\* The order context never contradicts the payment context: an order is paid, or
\* failed, only when a payment of its own succeeded, or failed.
THEOREM OrdersSettledByPayments == Spec => []SettledByPayment
<1>1. PaymentInv => SettledByPayment
  BY DEF PaymentInv
<1> QED BY <1>1, PaymentInvHolds, PTL

-----------------------------------------------------------------------------
(* Rows and connections *)

\* A customer's row is locked by a transaction that is past its save of the customer,
\* and can take every step it has left.
LocksMoveOn ==
    \A c \in Customers : lock[c] # NoRequest =>
        /\ CustomerOf(lock[c]) = c
        /\ \/ pc[lock[c]] \in {"charged", "refund"}
           \/ pc[lock[c]] = "compensate" /\ at[lock[c]].undone > 0

\* A step of a request takes and gives back locks for itself alone.
LEMMA RequestKeepsLocks ==
    ASSUME TypeInv, LocksMoveOn, NEW r \in Requests, RequestStep(r)
    PROVE  LocksMoveOn'
<1>1. /\ cmd' = cmd
      /\ \A k \in Requests \ {r} : pc'[k] = pc[k] /\ at'[k] = at[k]
  BY RequestMoves DEF TypeInv, TypeOK, Labels
<1>2. /\ pc \in [Requests -> Labels] /\ at \in [Requests -> Counters]
      /\ lock \in [Customers -> Requests \cup {NoRequest}]
  BY DEF TypeInv, TypeOK, Labels
<1>3. pc[r] \in {"debit", "refund"} => CustomerOf(r) \in Customers
  BY PayAssumption DEF TypeInv, TypeOK, Admitted, AfterRead, Charging, InLoop
<1>4. \A c \in Customers : lock[c] # NoRequest /\ lock[c] # r =>
        /\ pc'[lock[c]] = pc[lock[c]] /\ at'[lock[c]] = at[lock[c]]
  BY <1>1, <1>2
<1>5. r # NoRequest
  BY PayAssumption
<1> USE <1>1 DEF CustomerOf
<1>6. CASE lock' = lock /\ \A c \in Customers : lock[c] # r
  BY <1>4, <1>6 DEF LocksMoveOn
<1>7. CASE lock' = [c \in Customers |-> IF lock[c] = r THEN NoRequest ELSE lock[c]]
  BY <1>4, <1>7 DEF LocksMoveOn
<1>8. CASE SaveDebit(r)
  <2>1. pc'[r] = "charged" /\ SaveCustomer(r) /\ \A c \in Customers : lock[c] # r
    BY <1>2, <1>5, <1>8 DEF SaveDebit, Goto, LocksMoveOn
  <2> QED BY <1>2, <1>3, <1>4, <1>5, <1>8, <2>1 DEF SaveDebit, SaveCustomer, LocksMoveOn
<1>9. CASE SaveRefund(r)
  <2>1. /\ pc[r] = "refund" /\ pc'[r] = "compensate" /\ SaveCustomer(r)
        /\ at'[r].undone = at[r].undone + 1 /\ at[r].undone \in Nat
    BY <1>2, <1>9 DEF SaveRefund, Goto, RefundedOne, Counters
  <2>2. at'[r].undone > 0
    BY <2>1
  <2> QED BY <1>2, <1>3, <1>4, <1>5, <2>1, <2>2 DEF SaveCustomer, LocksMoveOn
<1>10. CASE RefundSkipped(r) \/ RefundExternal(r)
  <2>1. /\ pc' = pc /\ lock' = lock
        /\ at'[r].undone = at[r].undone + 1 /\ at[r].undone \in Nat
    BY <1>2, <1>10 DEF RefundSkipped, RefundExternal, RefundedOne, Counters
  <2>2. at'[r].undone > 0
    BY <2>1
  <2> QED BY <1>2, <1>4, <1>5, <2>1, <2>2 DEF LocksMoveOn
<1>11. CASE RefundWallet(r)
  <2>1. pc'[r] = "refund" /\ lock' = lock
    BY <1>2, <1>11 DEF RefundWallet, Goto
  <2> QED BY <1>2, <1>4, <1>5, <2>1 DEF LocksMoveOn
<1>12. CASE \/ Receive(r) \/ Lookup(r) \/ ReadOrder(r) \/ ClaimRefused(r) \/ Claim(r)
            \/ SkipProvider(r) \/ ChargeExternal(r) \/ ChargeWallet(r) \/ FinalizeSuccess(r)
  <2>1. /\ pc[r] \in {"idle", "lookup", "read", "claim", "charge", "finalize"}
        /\ lock' = lock
    BY <1>12 DEF Receive, Lookup, ReadOrder, ClaimRefused, Claim, SkipProvider,
       ChargeExternal, ChargeWallet, FinalizeSuccess, database
  <2> QED BY <1>5, <1>6, <2>1 DEF LocksMoveOn
<1>13. CASE RecordAttempt(r) \/ FinalizeFailed(r) \/ Abort(r)
  BY <1>7, <1>13 DEF RecordAttempt, FinalizeFailed, Abort, CommitCustomers
<1> QED BY <1>8, <1>9, <1>10, <1>11, <1>12, <1>13 DEF RequestStep, Execute

LEMMA NextLocks == TypeInv /\ LocksMoveOn /\ [Next]_vars => LocksMoveOn'
<1> SUFFICES ASSUME TypeInv, LocksMoveOn, [Next]_vars PROVE LocksMoveOn'
  OBVIOUS
<1>1. ASSUME UNCHANGED <<cmd, pc, at, lock>> PROVE LocksMoveOn'
  BY <1>1 DEF LocksMoveOn, CustomerOf
<1>2. ASSUME NEW r \in Requests, RequestStep(r) PROVE LocksMoveOn'
  BY <1>2, RequestKeepsLocks
<1>3. ASSUME NEW t \in TopUps, TopUp(t) PROVE LocksMoveOn'
  BY <1>1, <1>3 DEF TopUp, TopUpRead, TopUpConnect, TopUpSave, process
<1>4. ASSUME NEW p \in Requests, NEW d \in Deliveries, Handle(p, d) PROVE LocksMoveOn'
  BY <1>1, <1>4 DEF Handle, HandlerRead, HandlerFails, SettlePaid, SettleThrows, SettleFailed,
     process
<1>5. CASE UNCHANGED vars
  BY <1>1, <1>5 DEF vars
<1> QED BY <1>2, <1>3, <1>4, <1>5 DEF Next, RequestStep, AllOver

\* The holder of a row is connected and waits for nothing: it is past the save of the one
\* row a transaction may wait for.
LEMMA HolderGoesOn ==
    ASSUME TypeInv, LocksMoveOn, NEW c \in Customers, lock[c] # NoRequest
    PROVE  lock[c] \in Requests /\ GoesOn(lock[c])
BY DEF TypeInv, TypeOK, LocksMoveOn, GoesOn, Connected, WaitsForRow

LEMMA LocksGiveWaitsEnd ==
    ASSUME TypeInv, LocksMoveOn
    PROVE  WaitsEnd
<1>1. ASSUME NEW r \in Requests, WaitsForRow(r)
      PROVE  /\ CustomerOf(r) \in Customers /\ lock[CustomerOf(r)] # NoRequest
             /\ GoesOn(lock[CustomerOf(r)])
  <2>1. CustomerOf(r) \in Customers
    BY <1>1, PayAssumption
    DEF WaitsForRow, TypeInv, TypeOK, Admitted, AfterRead, Charging, InLoop
  <2> QED BY <1>1, <2>1, HolderGoesOn DEF WaitsForRow
<1>2. ASSUME NEW t \in TopUps, TopUpWaits(t)
      PROVE  /\ TopUpOf[t].customer \in Customers /\ lock[TopUpOf[t].customer] # NoRequest
             /\ GoesOn(lock[TopUpOf[t].customer])
  <2>1. TopUpOf[t].customer \in Customers
    BY PayAssumption
  <2> QED BY <1>2, <2>1, HolderGoesOn DEF TopUpWaits
<1>3. ASSUME ~ FreeConnection
      PROVE  \/ \E r \in Requests : GoesOn(r)
             \/ \E t \in TopUps : topup[t].pc = "saving" /\ ~ TopUpWaits(t)
  <2> DEFINE R == {r \in Requests : Connected(r)}
             T == {t \in TopUps : topup[t].pc = "saving"}
  <2>1. R # {} \/ T # {}
    <3>1. ASSUME R = {}, T = {} PROVE FALSE
      <4>1. Cardinality(R) = 0 /\ Cardinality(T) = 0
        BY <3>1, FS_EmptySet
      <4>2. PoolSize \in Nat \ {0}
        BY PayAssumption
      <4> QED BY <1>3, <4>1, <4>2 DEF FreeConnection
    <3> QED BY <3>1
  <2>2. CASE \E r \in R : TRUE
    <3>1. PICK r \in Requests : Connected(r)
      BY <2>2
    <3>2. CASE WaitsForRow(r)
      BY <1>1, <3>2, HolderGoesOn
    <3> QED BY <3>1, <3>2 DEF GoesOn
  <2>3. CASE \E t \in T : TRUE
    <3>1. PICK t \in TopUps : topup[t].pc = "saving"
      BY <2>3
    <3>2. CASE TopUpWaits(t)
      BY <1>2, <3>2, HolderGoesOn
    <3> QED BY <3>1, <3>2
  <2> QED BY <2>1, <2>2, <2>3
<1> QED BY <1>1, <1>2, <1>3 DEF WaitsEnd

\* Payments and top-ups cannot deadlock over a customer's row and the pool of connections,
\* however small the pool and however many of them overlap: save() in a transaction uses
\* the connection of that transaction (currentTxManager), and nothing a transaction does
\* after it has a row waits for another.
THEOREM NobodyWaitsInACircle == Spec => []WaitsEnd
<1>1. Init => LocksMoveOn
  BY DEF Init, LocksMoveOn
<1>2. TypeInv /\ LocksMoveOn => WaitsEnd
  BY LocksGiveWaitsEnd
<1> QED BY <1>1, <1>2, NextLocks, TypeInvHolds, PTL DEF Spec
=============================================================================
