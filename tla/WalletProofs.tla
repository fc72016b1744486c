---------------------------- MODULE WalletProofs ----------------------------
(***************************************************************************)
(* No money of a wallet appears or disappears, for every set of requests,  *)
(* customers, providers and top-ups and whatever is stopped, as long as    *)
(* the balances that are about to be written are one at a time: a payment  *)
(* and a top-up, or two payments, that write a balance each read before    *)
(* the other's write lose one of the two (PayLostUpdate.cfg).              *)
(*                                                                         *)
(* The inductive invariant says of every balance that is held outside of   *)
(* its row by what it differs from the row: by the amount of the charge    *)
(* that is being recorded, by the refunds made so far in the transaction   *)
(* that compensates, or by the top-up.                                     *)
(***************************************************************************)
EXTENDS ChargeProofs, Sums

Amounts(s) == [i \in DOMAIN s |-> s[i].amount]

\* The charges of a wallet among the first n of s.
FromWallet(s, n) == {i \in DOMAIN s : i <= n /\ s[i].provider = Wallet}

\* What compensate() was told the payment holds of the wallet, and what it has added to
\* the balance so far.
Told(r) == SumFunctionOnSet(Amounts(successes[r]), FromWallet(successes[r], Len(successes[r])))
Returned(r) == SumFunctionOnSet(Amounts(successes[r]), FromWallet(successes[r], at[r].undone))

Locked(r) == lock[CustomerOf(r)] = r
Row(r) == wallet[CustomerOf(r)]

\* compensate() is told of what the rows of payment_attempts say, and of no empty charge.
ToldWhatIsHeld(r) ==
    /\ Told(r) = Held(r)
    /\ \A i \in DOMAIN successes[r] : successes[r][i].amount >= 1

\* A request locks the row of its customer only, and only to change it.
LocksItsRow(r) ==
    \A c \in Customers : lock[c] = r =>
        /\ c = CustomerOf(r)
        /\ \/ pc[r] \in {"compensate", "refund"}
           \/ pc[r] = "charged" /\ Provider(r) = Wallet

\* Between the debit and the commit that records it.
DebitDrafted(r) ==
    /\ pc[r] = "debit" => Row(r) = draft[r] + Amount(r)
    /\ pc[r] = "charged" /\ Provider(r) = Wallet =>
         Locked(r) /\ Row(r) = draft[r] + Amount(r)

\* In the transaction that compensates.
RefundDrafted(r) ==
    /\ pc[r] = "compensate" =>
         IF Locked(r) THEN draft[r] = Row(r) + Returned(r) ELSE Returned(r) = 0
    /\ pc[r] = "refund" =>
         /\ draft[r] = Row(r) + Returned(r) + ToRefund(r).amount
         /\ ~ Locked(r) => Returned(r) = 0

Drafted(r) == ToldWhatIsHeld(r) /\ LocksItsRow(r) /\ DebitDrafted(r) /\ RefundDrafted(r)

TopUpDrafted(t) ==
    topup[t].pc \in {"save", "saving"} =>
        topup[t].balance = wallet[TopUpOf[t].customer] + TopUpOf[t].amount

WalletInv ==
    /\ \A r \in Requests : Drafted(r)
    /\ \A t \in TopUps : TopUpDrafted(t)
    /\ WalletConserved

-----------------------------------------------------------------------------
(* The sums *)

\* What a list adds up to, in part or whole, is a natural number.
LEMMA AmountsSum ==
    ASSUME NEW s \in Seq(Charge) \cup Seq(Attempt),
           NEW I \in SUBSET DOMAIN s
    PROVE  /\ IsFiniteSet(I) /\ \A i \in I : Amounts(s)[i] \in Int
           /\ SumFunctionOnSet(Amounts(s), I) \in Nat
<1>1. DOMAIN s = 1 .. Len(s) /\ Len(s) \in Nat
  OBVIOUS
<1>2. IsFiniteSet(DOMAIN s)
  BY <1>1, FS_Interval
<1>3. IsFiniteSet(I)
  BY <1>2, FS_Subset
<1>4. \A i \in DOMAIN s : s[i].amount \in Nat
  <2>1. \A i \in 1 .. Len(s) : s[i] \in Charge \cup Attempt
    OBVIOUS
  <2>2. \A x \in Charge \cup Attempt : x.amount \in Nat
    BY DEF Charge, Attempt
  <2> QED BY <1>1, <2>1, <2>2
<1>5. \A i \in I : Amounts(s)[i] \in Nat
  BY <1>4 DEF Amounts
<1>6. SumFunctionOnSet(Amounts(s), I) \in Nat
  BY <1>3, <1>5, SumGrows
<1> QED BY <1>3, <1>5, <1>6

\* Appending a row to a list changes no sum over the rows it had, and adds its amount to
\* the sums that take it in.
LEMMA AppendSums ==
    ASSUME NEW s, NEW x,
           \/ s \in Seq(Charge) /\ x \in Charge
           \/ s \in Seq(Attempt) /\ x \in Attempt,
           NEW I \in SUBSET DOMAIN s
    PROVE  /\ SumFunctionOnSet(Amounts(Append(s, x)), I) = SumFunctionOnSet(Amounts(s), I)
           /\ SumFunctionOnSet(Amounts(Append(s, x)), I \cup {Len(s) + 1})
                = SumFunctionOnSet(Amounts(s), I) + x.amount
<1> DEFINE t == Append(s, x)
           J == I \cup {Len(s) + 1}
<1>1. /\ t \in Seq(Charge) \cup Seq(Attempt) /\ s \in Seq(Charge) \cup Seq(Attempt)
      /\ DOMAIN s = 1 .. Len(s) /\ DOMAIN t = 1 .. Len(s) + 1
      /\ Len(s) \in Nat /\ t[Len(s) + 1] = x /\ \A i \in DOMAIN s : t[i] = s[i]
  <2>1. CASE s \in Seq(Charge) /\ x \in Charge
    BY <2>1
  <2>2. CASE s \in Seq(Attempt) /\ x \in Attempt
    BY <2>2
  <2> QED BY <2>1, <2>2
<1>2. /\ I \in SUBSET DOMAIN t /\ J \in SUBSET DOMAIN t
      /\ Len(s) + 1 \notin I /\ Len(s) + 1 \in J /\ J \ {Len(s) + 1} = I
  BY <1>1
<1>3. t \in Seq(Charge) \cup Seq(Attempt) /\ s \in Seq(Charge) \cup Seq(Attempt)
  BY <1>1
<1>4. \A i \in I : Amounts(t)[i] = Amounts(s)[i]
  BY <1>1, <1>2 DEF Amounts
<1>5. Amounts(t)[Len(s) + 1] = x.amount
  BY <1>1, <1>2 DEF Amounts
<1> HIDE DEF t, J
<1>6. /\ IsFiniteSet(I) /\ \A i \in I : Amounts(s)[i] \in Int
      /\ SumFunctionOnSet(Amounts(s), I) \in Nat
  BY <1>3, AmountsSum
<1>7. IsFiniteSet(J) /\ \A i \in J : Amounts(t)[i] \in Int
  BY <1>2, <1>3, AmountsSum
<1>8. SumFunctionOnSet(Amounts(t), I) = SumFunctionOnSet(Amounts(s), I)
  BY <1>4, <1>6, SumSame
<1>9. SumFunctionOnSet(Amounts(t), J) = Amounts(t)[Len(s) + 1] + SumFunctionOnSet(Amounts(t), I)
  BY <1>2, <1>7, SumTakes
<1>10. x.amount \in Nat
  <2>1. CASE x \in Charge
    BY <2>1 DEF Charge
  <2>2. CASE x \in Attempt
    BY <2>2 DEF Attempt
  <2> QED BY <2>1, <2>2
<1> QED BY <1>5, <1>6, <1>8, <1>9, <1>10 DEF t, J

\* What a payment holds, and what was told and returned of it, as natural numbers.
LEMMA HeldTyped ==
    ASSUME TypeInv, NEW r \in Requests
    PROVE  /\ Held(r) \in Nat /\ Told(r) \in Nat /\ Returned(r) \in Nat
           /\ Held(r) = SumFunctionOnSet(Amounts(payment[r].attempts), WalletCharges(r))
<1>1. payment[r].attempts \in Seq(Attempt) /\ successes[r] \in Seq(Charge)
  BY DEF TypeInv, TypeOK
<1>2. /\ WalletCharges(r) \in SUBSET DOMAIN payment[r].attempts
      /\ \A n : FromWallet(successes[r], n) \in SUBSET DOMAIN successes[r]
  BY DEF WalletCharges, FromWallet
<1>3. Held(r) = SumFunctionOnSet(Amounts(payment[r].attempts), WalletCharges(r))
  BY DEF Held, Amounts
<1> QED BY <1>1, <1>2, <1>3, AmountsSum DEF Told, Returned

LEMMA HeldTypedNext ==
    ASSUME TypeInv', NEW r \in Requests
    PROVE  Held(r)' \in Nat
<1>1. payment'[r].attempts \in Seq(Attempt)
  BY DEF TypeInv, TypeOK
<1>2. WalletCharges(r)' \in SUBSET DOMAIN payment'[r].attempts
  BY DEF WalletCharges
<1>3. Held(r)' = SumFunctionOnSet(Amounts(payment'[r].attempts), WalletCharges(r)')
  BY DEF Held, Amounts
<1> QED BY <1>1, <1>2, <1>3, AmountsSum

\* The payments of customer c that did not fail.
Standing(c) == {p \in Requests : CustomerOf(p) = c /\ payment[p].status # "failed"}

\* A step of one request that keeps its status changes what is held of its customer's
\* wallet by what it changes of its own.
LEMMA HeldChanges ==
    ASSUME TypeInv, TypeInv', NEW r \in Requests, cmd' = cmd,
           \A p \in Requests \ {r} : payment'[p] = payment[p],
           payment[r].status = "failed" <=> payment'[r].status = "failed"
    PROVE  \A c \in Customers :
               /\ HeldFrom(c) \in Nat /\ HeldFrom(c)' \in Nat
               /\ HeldFrom(c)' = IF c = CustomerOf(r) /\ payment[r].status # "failed"
                                 THEN HeldFrom(c) - Held(r) + Held(r)' ELSE HeldFrom(c)
<1> TAKE c \in Customers
<1> DEFINE held == [p \in Requests |-> Held(p)]
           then == [p \in Requests |-> Held(p)']
           mine == Standing(c)
<1>1. Standing(c)' = mine
  BY DEF Standing, CustomerOf
<1>2. HeldFrom(c) = SumFunctionOnSet(held, mine) /\ HeldFrom(c)' = SumFunctionOnSet(then, mine)
  BY <1>1 DEF HeldFrom, Standing
<1>3. \A p \in Requests : Held(p) \in Nat /\ Held(p)' \in Nat
  BY HeldTyped, HeldTypedNext
<1>4. \A p \in mine : p # r => then[p] = held[p]
  BY DEF Held, WalletCharges, Standing
<1>5. IsFiniteSet(mine) /\ mine \subseteq Requests
  BY PayAssumption, FS_Subset DEF Standing
<1>6. \A p \in mine : held[p] \in Nat /\ then[p] \in Nat
  BY <1>3, <1>5
<1>7. r \in mine <=> c = CustomerOf(r) /\ payment[r].status # "failed"
  BY DEF Standing
<1>8. held[r] = Held(r) /\ then[r] = Held(r)'
  OBVIOUS
<1> HIDE DEF held, then, mine
<1>9. SumFunctionOnSet(held, mine) \in Nat /\ SumFunctionOnSet(then, mine) \in Nat
  BY <1>5, <1>6, SumGrows
<1>10. CASE r \in mine
  <2>1. SumFunctionOnSet(then, mine) = SumFunctionOnSet(held, mine) - held[r] + then[r]
    <3>1. \A y \in mine \ {r} : then[y] = held[y]
      BY <1>4
    <3>2. \A y \in mine : held[y] \in Int /\ then[y] \in Int
      BY <1>6
    <3>3. IsFiniteSet(mine)
      BY <1>5
    <3> QED BY ONLY <1>10, <3>1, <3>2, <3>3, SumChanges
  <2> QED BY <1>2, <1>7, <1>8, <1>9, <1>10, <2>1
<1>11. CASE r \notin mine
  <2>1. \A y \in mine : held[y] \in Int /\ then[y] = held[y]
    BY <1>4, <1>6, <1>11
  <2>2. SumFunctionOnSet(then, mine) = SumFunctionOnSet(held, mine)
    BY <1>5, <2>1, SumSame
  <2> QED BY <1>2, <1>7, <1>9, <1>11, <2>2
<1> QED BY <1>10, <1>11

\* A payment that fails no longer holds what it held.
LEMMA HeldReturns ==
    ASSUME TypeInv, TypeInv', NEW r \in Requests, cmd' = cmd,
           \A p \in Requests \ {r} : payment'[p] = payment[p],
           payment'[r].attempts = payment[r].attempts,
           payment[r].status # "failed", payment'[r].status = "failed"
    PROVE  \A c \in Customers :
               /\ HeldFrom(c) \in Nat /\ HeldFrom(c)' \in Nat
               /\ HeldFrom(c)' = IF c = CustomerOf(r) THEN HeldFrom(c) - Held(r)
                                 ELSE HeldFrom(c)
<1> TAKE c \in Customers
<1> DEFINE f == [p \in Requests |-> Held(p)]
           S == Standing(c)
<1>1. Standing(c)' = S \ {r} /\ (r \in S <=> c = CustomerOf(r))
  BY DEF Standing, CustomerOf
<1>2. \A p \in Requests : Held(p)' = Held(p) /\ Held(p) \in Nat
  BY HeldTyped DEF Held, WalletCharges
<1>3. HeldFrom(c) = SumFunctionOnSet(f, S) /\ HeldFrom(c)' = SumFunctionOnSet(f, S \ {r})
  <2>1. [p \in Requests |-> Held(p)'] = f
    BY <1>2
  <2> QED BY <1>1, <2>1 DEF HeldFrom, Standing
<1>4. IsFiniteSet(S) /\ IsFiniteSet(S \ {r}) /\ S \subseteq Requests
  BY PayAssumption, FS_Subset DEF Standing
<1>5. \A p \in S : f[p] \in Nat
  BY <1>2, <1>4
<1>6. f[r] = Held(r)
  OBVIOUS
<1> HIDE DEF f, S
<1>7. SumFunctionOnSet(f, S) \in Nat /\ SumFunctionOnSet(f, S \ {r}) \in Nat
  BY <1>4, <1>5, SumGrows
<1>8. CASE r \in S
  <2>1. SumFunctionOnSet(f, S) = f[r] + SumFunctionOnSet(f, S \ {r})
    BY <1>4, <1>5, <1>8, SumTakes
  <2> QED BY <1>1, <1>2, <1>3, <1>6, <1>7, <1>8, <2>1
<1>9. CASE r \notin S
  <2>1. S \ {r} = S
    BY <1>9
  <2> QED BY <1>1, <1>3, <1>7, <1>9, <2>1
<1> QED BY <1>8, <1>9

\* A top-up that is done adds its amount to what its customer has put in.
LEMMA ToppedUpGrows ==
    ASSUME TypeInv, NEW t \in TopUps, topup[t].pc # "done",
           topup' = [topup EXCEPT ![t].pc = "done"]
    PROVE  \A c \in Customers :
               /\ ToppedUp(c) \in Nat
               /\ ToppedUp(c)' = IF c = TopUpOf[t].customer
                                 THEN ToppedUp(c) + TopUpOf[t].amount ELSE ToppedUp(c)
<1> TAKE c \in Customers
<1> DEFINE f == [u \in TopUps |-> TopUpOf[u].amount]
           S == {u \in TopUps : TopUpOf[u].customer = c /\ topup[u].pc = "done"}
           T == {u \in TopUps : TopUpOf[u].customer = c /\ topup'[u].pc = "done"}
<1>1. topup'[t].pc = "done" /\ \A u \in TopUps \ {t} : topup'[u] = topup[u]
  BY DEF TypeInv, TypeOK
<1>2. ToppedUp(c) = SumFunctionOnSet(f, S) /\ ToppedUp(c)' = SumFunctionOnSet(f, T)
  BY DEF ToppedUp
<1>3. t \notin S /\ T = IF c = TopUpOf[t].customer THEN S \cup {t} ELSE S
  BY <1>1
<1>4. IsFiniteSet(S) /\ IsFiniteSet(S \cup {t})
  <2>1. S \subseteq TopUps /\ S \cup {t} \subseteq TopUps
    OBVIOUS
  <2> QED BY <2>1, PayAssumption, FS_Subset
<1>5. \A u \in S \cup {t} : f[u] \in Nat
  BY PayAssumption
<1>6. f[t] = TopUpOf[t].amount
  OBVIOUS
<1> HIDE DEF f, S, T
<1>7. SumFunctionOnSet(f, S) \in Nat
  BY <1>4, <1>5, SumGrows
<1>8. SumFunctionOnSet(f, S \cup {t}) = f[t] + SumFunctionOnSet(f, S)
  <2>1. (S \cup {t}) \ {t} = S /\ t \in S \cup {t}
    BY <1>3
  <2>2. \A u \in S \cup {t} : f[u] \in Int
    BY <1>5
  <2> QED BY <1>4, <2>1, <2>2, SumTakes
<1>9. f[t] \in Nat
  BY <1>5
<1> QED BY <1>2, <1>3, <1>6, <1>7, <1>8, <1>9

\* The sum of the refunds made so far: none at first, then one more for each charge of the
\* wallet that compensate() leaves behind it.
LEMMA ReturnedSums ==
    ASSUME NEW s \in Seq(Charge), NEW n \in Nat, n < Len(s)
    PROVE  /\ FromWallet(s, 0) = {}
           /\ s[n + 1].provider # Wallet => FromWallet(s, n + 1) = FromWallet(s, n)
           /\ s[n + 1].provider = Wallet =>
                SumFunctionOnSet(Amounts(s), FromWallet(s, n + 1))
                  = SumFunctionOnSet(Amounts(s), FromWallet(s, n)) + s[n + 1].amount
<1>1. DOMAIN s = 1 .. Len(s) /\ Len(s) \in Nat /\ n + 1 \in DOMAIN s
  OBVIOUS
<1>2. FromWallet(s, 0) = {}
  BY <1>1 DEF FromWallet
<1>3. s[n + 1].provider # Wallet => FromWallet(s, n + 1) = FromWallet(s, n)
  BY <1>1 DEF FromWallet
<1>4. ASSUME s[n + 1].provider = Wallet
      PROVE  SumFunctionOnSet(Amounts(s), FromWallet(s, n + 1))
               = SumFunctionOnSet(Amounts(s), FromWallet(s, n)) + s[n + 1].amount
  <2> DEFINE I == FromWallet(s, n + 1)
  <2>1. I \in SUBSET DOMAIN s /\ n + 1 \in I /\ I \ {n + 1} = FromWallet(s, n)
    BY <1>1, <1>4 DEF FromWallet
  <2>2. FromWallet(s, n) \in SUBSET DOMAIN s
    BY DEF FromWallet
  <2> HIDE DEF I
  <2>3. IsFiniteSet(I) /\ \A i \in I : Amounts(s)[i] \in Int
    BY <2>1, AmountsSum
  <2>4. SumFunctionOnSet(Amounts(s), FromWallet(s, n)) \in Nat
    BY <2>2, AmountsSum
  <2>5. Amounts(s)[n + 1] = s[n + 1].amount /\ Amounts(s)[n + 1] \in Int
    BY <1>1, <2>1, <2>3 DEF Amounts
  <2>6. SumFunctionOnSet(Amounts(s), I)
          = Amounts(s)[n + 1] + SumFunctionOnSet(Amounts(s), I \ {n + 1})
    BY <2>1, <2>3, SumTakes
  <2>7. SumFunctionOnSet(Amounts(s), I)
          = SumFunctionOnSet(Amounts(s), FromWallet(s, n)) + s[n + 1].amount
    <3>1. SumFunctionOnSet(Amounts(s), I)
            = s[n + 1].amount + SumFunctionOnSet(Amounts(s), FromWallet(s, n))
      BY <2>1, <2>5, <2>6
    <3>2. s[n + 1].amount \in Int
      BY <2>5
    <3> QED BY <2>4, <3>1, <3>2
  <2> QED BY <2>7 DEF I
<1> QED BY <1>2, <1>3, <1>4

-----------------------------------------------------------------------------
(* What a step leaves alone *)

\* A request that is charged is one of a customer that exists.
LEMMA CustomerKnown ==
    ASSUME TypeInv, NEW r \in Requests, pc[r] \in Charging
    PROVE  CustomerOf(r) \in Customers
BY PayAssumption DEF TypeInv, TypeOK, Admitted, AfterRead

\* A step of r leaves the payments, drafts and locks of the others alone.
LEMMA OthersAlone ==
    ASSUME TypeInv, NEW r \in Requests, Traced(r), RequestStep(r)
    PROVE  /\ cmd' = cmd /\ topup' = topup
           /\ \A k \in Requests \ {r} :
                /\ pc'[k] = pc[k] /\ at'[k] = at[k] /\ payment'[k] = payment[k]
                /\ successes'[k] = successes[k] /\ draft'[k] = draft[k]
                /\ \A c \in Customers : lock'[c] = k <=> lock[c] = k
<1>1. /\ cmd' = cmd
      /\ \A k \in Requests \ {r} :
           pc'[k] = pc[k] /\ at'[k] = at[k] /\ successes'[k] = successes[k]
  BY RequestMoves, LedgerMoves DEF TypeInv, TypeOK, Labels
<1> USE DEF TypeInv, TypeOK
<1>2. topup' = topup
  BY DEF RequestStep, Execute, Receive, Lookup, ReadOrder, ClaimRefused, Claim, SkipProvider,
         ChargeExternal, ChargeWallet, SaveDebit, RecordAttempt, FinalizeSuccess,
         RefundSkipped, RefundExternal, RefundWallet, SaveRefund, FinalizeFailed, Abort
<1>3. \A k \in Requests \ {r} : payment'[k] = payment[k]
  BY DEF RequestStep, Execute, Receive, Lookup, ReadOrder, ClaimRefused, Claim, SkipProvider,
         ChargeExternal, ChargeWallet, SaveDebit, RecordAttempt, FinalizeSuccess,
         RefundSkipped, RefundExternal, RefundWallet, SaveRefund, FinalizeFailed, Abort,
         database, Initiate, MarkSucceeded, MarkFailed
<1>4. \A k \in Requests \ {r} : draft'[k] = draft[k]
  BY DEF RequestStep, Execute, Receive, Lookup, ReadOrder, ClaimRefused, Claim, SkipProvider,
         ChargeExternal, ChargeWallet, SaveDebit, RecordAttempt, FinalizeSuccess,
         RefundSkipped, RefundExternal, RefundWallet, SaveRefund, FinalizeFailed, Abort
<1>5. ASSUME NEW k \in Requests \ {r}, NEW c \in Customers
      PROVE  lock'[c] = k <=> lock[c] = k
  <2>1. CASE SaveCustomer(r)
    BY <2>1, PayAssumption DEF SaveCustomer
  <2>2. CASE \/ CommitCustomers(r)
             \/ lock' = [x \in Customers |-> IF lock[x] = r THEN NoRequest ELSE lock[x]]
    BY <2>2, PayAssumption DEF CommitCustomers
  <2>3. CASE lock' = lock
    BY <2>3
  <2> QED BY <2>1, <2>2, <2>3
      DEF RequestStep, Execute, Receive, Lookup, ReadOrder, ClaimRefused, Claim, SkipProvider,
         ChargeExternal, ChargeWallet, SaveDebit, RecordAttempt, FinalizeSuccess,
         RefundSkipped, RefundExternal, RefundWallet, SaveRefund, FinalizeFailed, Abort
<1> QED BY <1>1, <1>2, <1>3, <1>4, <1>5

\* Nobody else's draft is disturbed: the row stays as it is, or its reader holds none.
LEMMA OthersDrafted ==
    ASSUME TypeInv, NEW k \in Requests, Drafted(k), cmd' = cmd,
           at'[k] = at[k], pc'[k] = pc[k], payment'[k] = payment[k],
           successes'[k] = successes[k], draft'[k] = draft[k],
           \A c \in Customers : lock'[c] = k <=> lock[c] = k,
           \/ Row(k)' = Row(k)
           \/ pc[k] \notin {"debit", "refund"} /\ ~ Locked(k)
    PROVE  Drafted(k)'
<1>1. /\ Held(k)' = Held(k) /\ Told(k)' = Told(k) /\ Returned(k)' = Returned(k)
      /\ CustomerOf(k)' = CustomerOf(k) /\ ToRefund(k)' = ToRefund(k)
      /\ Amount(k)' = Amount(k)
  BY DEF Held, WalletCharges, Told, Returned, CustomerOf, ToRefund, Amount, Allocations
<1>2. Provider(k)' = Provider(k)
  BY ReadsKept
<1>3. pc[k] \in Charging => (Locked(k)' <=> Locked(k))
  BY <1>1, CustomerKnown DEF Locked
<1>4. ToldWhatIsHeld(k)'
  BY <1>1 DEF Drafted, ToldWhatIsHeld
<1>5. LocksItsRow(k)'
  BY <1>1, <1>2 DEF Drafted, LocksItsRow
<1>6. DebitDrafted(k)'
  BY <1>1, <1>2, <1>3 DEF Drafted, DebitDrafted, Charging, InLoop
<1>7. RefundDrafted(k)'
  BY <1>1, <1>3 DEF Drafted, RefundDrafted, Charging, InLoop
<1> QED BY <1>4, <1>5, <1>6, <1>7 DEF Drafted

-----------------------------------------------------------------------------
(* The steps of a request that holds no draft *)

Resting(r) ==
    \/ Receive(r) \/ Lookup(r) \/ ReadOrder(r) \/ ClaimRefused(r) \/ Claim(r)
    \/ SkipProvider(r) \/ ChargeExternal(r) \/ FinalizeSuccess(r)

LEMMA RestingMoves ==
    ASSUME TypeInv, NEW r \in Requests, Traced(r), Resting(r)
    PROVE  /\ UNCHANGED <<wallet, lock, draft, successes>>
           /\ payment'[r].attempts = payment[r].attempts
           /\ pc[r] \in BeforeClaim \cup {"charge", "finalize"}
           /\ pc'[r] \notin {"debit", "refund"}
           /\ pc'[r] = "charged" => Provider(r)' # Wallet
           /\ pc'[r] = "compensate" => at'[r].undone = 0
<1> USE DEF TypeInv, TypeOK, BeforeClaim
<1>1. CASE Receive(r)
  BY <1>1 DEF Receive, Goto, database
<1>2. CASE Lookup(r)
  BY <1>2 DEF Lookup, Goto, database
<1>3. CASE ReadOrder(r)
  BY <1>3, VerdictIs DEF ReadOrder, Goto, database, Refused
<1>4. CASE ClaimRefused(r)
  BY <1>4 DEF ClaimRefused, Goto, database
<1>5. CASE Claim(r)
  <2>1. pc'[r] \in {"charge", "finalize", "compensate"}
    BY <1>5, StageIs DEF Claim, Goto
  <2>2. at'[r].undone = 0
    BY <1>5 DEF Claim, CountersFresh
  <2> QED BY <1>5, <2>1, <2>2 DEF Claim, Initiate
<1>6. CASE SkipProvider(r)
  <2>1. at[r].undone = 0
    BY <1>6 DEF SkipProvider, Traced, RefundsFollowTheList, InLoop
  <2>2. GoOn(r, payment[r].attempts) /\ pc[r] = "charge"
    BY <1>6 DEF SkipProvider
  <2>3. at'[r].undone = 0 /\ pc'[r] \in {"charge", "finalize", "compensate"}
    BY <2>1, <2>2, GoOnMoves, AdvanceIs
  <2> QED BY <1>6, <2>3 DEF SkipProvider, database
<1>7. CASE ChargeExternal(r)
  <2>1. Provider(r)' = Provider(r)
    BY <1>7, ReadsKept DEF ChargeExternal, database
  <2> QED BY <1>7, <2>1 DEF ChargeExternal, Goto, database
<1>8. CASE FinalizeSuccess(r)
  BY <1>8 DEF FinalizeSuccess, Goto, MarkSucceeded
<1> QED BY <1>1, <1>2, <1>3, <1>4, <1>5, <1>6, <1>7, <1>8 DEF Resting

\* What is told and held when neither list changes.
LEMMA ToldKept ==
    ASSUME NEW r \in Requests, successes' = successes,
           payment'[r].attempts = payment[r].attempts
    PROVE  Told(r)' = Told(r) /\ Held(r)' = Held(r) /\ (ToldWhatIsHeld(r) => ToldWhatIsHeld(r)')
BY DEF Told, Held, WalletCharges, ToldWhatIsHeld

LEMMA RestingKeepsDrafted ==
    ASSUME TypeInv, TypeInv', NEW r \in Requests, Traced(r), Drafted(r), cmd' = cmd, Resting(r)
    PROVE  Drafted(r)'
<1>1. /\ UNCHANGED <<wallet, lock, draft, successes>>
      /\ payment'[r].attempts = payment[r].attempts
      /\ pc[r] \in BeforeClaim \cup {"charge", "finalize"}
      /\ pc'[r] \notin {"debit", "refund"}
      /\ pc'[r] = "charged" => Provider(r)' # Wallet
      /\ pc'[r] = "compensate" => at'[r].undone = 0
  BY RestingMoves
<1>2. \A c \in Customers : lock'[c] # r
  BY <1>1 DEF Drafted, LocksItsRow, BeforeClaim
<1>3. ToldWhatIsHeld(r)'
  BY <1>1, ToldKept DEF Drafted
<1>4. pc'[r] = "compensate" => ~ Locked(r)' /\ Returned(r)' = 0
  <2>1. SUFFICES ASSUME pc'[r] = "compensate" PROVE ~ Locked(r)' /\ Returned(r)' = 0
    OBVIOUS
  <2>2. CustomerOf(r)' \in Customers
    BY <2>1, PayAssumption DEF TypeInv, TypeOK, Admitted, AfterRead, Charging
  <2>3. FromWallet(successes'[r], 0) = {}
    <3>1. successes'[r] \in Seq(Charge)
      BY DEF TypeInv, TypeOK
    <3>2. DOMAIN successes'[r] = 1 .. Len(successes'[r])
      BY <3>1
    <3> QED BY <3>2 DEF FromWallet
  <2>4. Returned(r)' = 0
    BY <1>1, <2>1, <2>3, SumEmpty DEF Returned
  <2> QED BY <1>2, <2>2, <2>4 DEF Locked
<1> QED BY <1>1, <1>2, <1>3, <1>4 DEF Drafted, LocksItsRow, DebitDrafted, RefundDrafted

-----------------------------------------------------------------------------
(* The attempt that debits a wallet *)

\* Nothing is charged that is not at least a cent.
LEMMA AmountIs ==
    ASSUME TypeInv, NEW r \in Requests, pc[r] \in InLoop
    PROVE  Amount(r) \in Nat /\ Amount(r) >= 1 /\ Row(r) \in Nat /\ draft[r] \in Nat
<1>1. /\ Allocations(r) \in Seq(Allocation) /\ at[r].alloc \in 1 .. Len(Allocations(r))
      /\ WellFormed(Allocations(r)) /\ Amount(r) \in Nat
  BY LoopTyped DEF TypeInv, CountersInRange, BodyAccepted, InLoop, Running
<1>2. Amount(r) >= 1
  <2>1. at[r].alloc \in DOMAIN Allocations(r)
    BY <1>1
  <2> QED BY <1>1, <2>1 DEF WellFormed, Amount
<1>3. Row(r) \in Nat /\ draft[r] \in Nat
  BY CustomerKnown DEF TypeInv, TypeOK, Row, Charging
<1> QED BY <1>1, <1>2, <1>3

LEMMA ChargeWalletKeepsDrafted ==
    ASSUME TypeInv, NEW r \in Requests, Drafted(r), ChargeWallet(r)
    PROVE  Drafted(r)'
<1>1. /\ UNCHANGED <<payment, wallet, cmd, at, successes, lock>> /\ pc[r] = "charge"
      /\ \/ pc'[r] = "declined"
         \/ /\ pc'[r] = "debit" /\ ~ (Amount(r) > Row(r))
            /\ draft'[r] = Row(r) - Amount(r)
  BY DEF ChargeWallet, Goto, database, InsufficientFunds, Debited, Row, TypeInv, TypeOK
<1>2. Amount(r)' = Amount(r) /\ Row(r)' = Row(r)
  BY <1>1 DEF Amount, Allocations, Row, CustomerOf
<1>3. \A c \in Customers : lock'[c] # r
  BY <1>1 DEF Drafted, LocksItsRow
<1>4. ToldWhatIsHeld(r)'
  BY <1>1, ToldKept DEF Drafted
<1>5. pc'[r] = "debit" => Row(r)' = draft'[r] + Amount(r)'
  BY <1>1, <1>2, AmountIs DEF InLoop
<1> QED BY <1>1, <1>3, <1>4, <1>5 DEF Drafted, LocksItsRow, DebitDrafted, RefundDrafted

\* A balance that differs from its row is written: the row is locked.
LEMMA SaveLocks ==
    ASSUME TypeInv, NEW r \in Requests, LocksItsRow(r), CustomerOf(r) \in Customers,
           SaveCustomer(r), Locked(r) \/ draft[r] # Row(r)
    PROVE  lock'[CustomerOf(r)] = r /\ \A c \in Customers : lock'[c] = r => c = CustomerOf(r)
BY DEF SaveCustomer, LocksItsRow, Locked, Row, TypeInv, TypeOK

LEMMA SaveDebitKeepsDrafted ==
    ASSUME TypeInv, NEW r \in Requests, Traced(r), Drafted(r), SaveDebit(r)
    PROVE  Drafted(r)'
<1>1. /\ UNCHANGED <<payment, wallet, cmd, at, successes, draft>> /\ pc[r] = "debit"
      /\ pc'[r] = "charged" /\ SaveCustomer(r)
  BY DEF SaveDebit, Goto, database, TypeInv, TypeOK
<1>2. Amount(r)' = Amount(r) /\ Row(r)' = Row(r) /\ CustomerOf(r)' = CustomerOf(r)
  BY <1>1 DEF Amount, Allocations, Row, CustomerOf
<1>3. Provider(r)' = Provider(r) /\ Provider(r) = Wallet
  BY <1>1, ReadsKept DEF Traced, ChargesWereMade
<1>4. Row(r) = draft[r] + Amount(r) /\ draft[r] # Row(r)
  BY <1>1, AmountIs DEF Drafted, DebitDrafted, InLoop
<1>5. lock'[CustomerOf(r)] = r /\ \A c \in Customers : lock'[c] = r => c = CustomerOf(r)
  BY <1>1, <1>4, CustomerKnown, SaveLocks DEF Drafted, Charging, InLoop
<1>6. ToldWhatIsHeld(r)'
  BY <1>1, ToldKept DEF Drafted
<1>7. LocksItsRow(r)' /\ DebitDrafted(r)' /\ RefundDrafted(r)'
  BY <1>1, <1>2, <1>3, <1>4, <1>5 DEF LocksItsRow, DebitDrafted, RefundDrafted, Locked
<1> QED BY <1>6, <1>7 DEF Drafted

\* What recording an attempt adds to what is held and told.
LEMMA RecordSums ==
    ASSUME TypeInv, NEW r \in Requests, RecordAttempt(r)
    PROVE  LET more == IF pc[r] = "charged" /\ Provider(r) = Wallet THEN Amount(r) ELSE 0
           IN  Held(r)' = Held(r) + more /\ Told(r)' = Told(r) + more
<1> DEFINE more == IF pc[r] = "charged" /\ Provider(r) = Wallet THEN Amount(r) ELSE 0
           s == payment[r].attempts
           t == successes[r]
           n == Len(s) + 1
           m == Len(t) + 1
<1>1. /\ s \in Seq(Attempt) /\ t \in Seq(Charge)
      /\ NewAttempt(r) \in Attempt /\ NewCharge(r) \in Charge
      /\ payment'[r].attempts = Append(s, NewAttempt(r))
      /\ successes'[r] = IF pc[r] = "charged" THEN Append(t, NewCharge(r)) ELSE t
  BY AttemptTyped DEF RecordAttempt, Attempts, TypeInv, TypeOK
<1>2. /\ NewAttempt(r).ok = (pc[r] = "charged")
      /\ NewAttempt(r).provider = Provider(r) /\ NewAttempt(r).amount = Amount(r)
      /\ NewCharge(r).provider = Provider(r) /\ NewCharge(r).amount = Amount(r)
  BY DEF NewAttempt, NewCharge
<1>3. /\ Held(r) \in Nat /\ Told(r) \in Nat /\ Amount(r) \in Nat
      /\ Held(r) = SumFunctionOnSet(Amounts(s), WalletCharges(r))
  BY HeldTyped, AmountIs DEF RecordAttempt, InLoop
<1>4. Held(r)' = SumFunctionOnSet(Amounts(Append(s, NewAttempt(r))), WalletCharges(r)')
  BY <1>1 DEF Held, Amounts
<1>5. WalletCharges(r)' = IF pc[r] = "charged" /\ Provider(r) = Wallet
                          THEN WalletCharges(r) \cup {n} ELSE WalletCharges(r)
  <2> DEFINE a == Append(s, NewAttempt(r))
  <2>1. /\ DOMAIN a = DOMAIN s \cup {n} /\ n \notin DOMAIN s
        /\ \A i \in DOMAIN s : a[i] = s[i]
        /\ a[n] = NewAttempt(r)
    BY <1>1
  <2>2. payment'[r].attempts = a
    BY <1>1
  <2> HIDE DEF a, n, s
  <2>3. WalletCharges(r)' = {i \in DOMAIN a : a[i].ok /\ a[i].provider = Wallet}
    BY <2>2 DEF WalletCharges
  <2>4. WalletCharges(r) = {i \in DOMAIN s : s[i].ok /\ s[i].provider = Wallet}
    BY DEF WalletCharges, s
  <2>5. CASE pc[r] = "charged" /\ Provider(r) = Wallet
    BY <1>2, <2>1, <2>3, <2>4, <2>5
  <2>6. CASE ~ (pc[r] = "charged" /\ Provider(r) = Wallet)
    BY <1>2, <2>1, <2>3, <2>4, <2>6
  <2> QED BY <2>5, <2>6
<1>6. Held(r)' = Held(r) + more
  <2>1. WalletCharges(r) \in SUBSET DOMAIN s
    BY DEF WalletCharges
  <2>2. /\ SumFunctionOnSet(Amounts(Append(s, NewAttempt(r))), WalletCharges(r)) = Held(r)
        /\ SumFunctionOnSet(Amounts(Append(s, NewAttempt(r))), WalletCharges(r) \cup {n})
             = Held(r) + Amount(r)
    <3> DEFINE I == WalletCharges(r)
               x == NewAttempt(r)
    <3>1. s \in Seq(Attempt) /\ x \in Attempt
      BY <1>1
    <3>2. I \in SUBSET DOMAIN s
      BY <2>1
    <3>3. x.amount = Amount(r) /\ Held(r) = SumFunctionOnSet(Amounts(s), I)
      BY <1>2, <1>3
    <3> HIDE DEF I, x, s
    <3>4. /\ SumFunctionOnSet(Amounts(Append(s, x)), I) = SumFunctionOnSet(Amounts(s), I)
          /\ SumFunctionOnSet(Amounts(Append(s, x)), I \cup {Len(s) + 1})
               = SumFunctionOnSet(Amounts(s), I) + x.amount
      BY ONLY <3>1, <3>2, AppendSums
    <3> QED BY <3>3, <3>4 DEF I, x
  <2> QED BY <1>3, <1>4, <1>5, <2>2
<1>7. Told(r)' = Told(r) + more
  <2>1. CASE pc[r] # "charged"
    BY <1>1, <1>3, <2>1 DEF Told
  <2>2. CASE pc[r] = "charged"
    <3> DEFINE b == Append(t, NewCharge(r))
               I == FromWallet(t, Len(t))
    <3>1. /\ DOMAIN b = DOMAIN t \cup {m} /\ Len(b) = m /\ DOMAIN t = 1 .. Len(t)
          /\ \A i \in DOMAIN t : b[i] = t[i] /\ i <= Len(t) /\ i <= m
          /\ b[m] = NewCharge(r) /\ m \notin DOMAIN t /\ m <= m
      BY <1>1
    <3>2. I \in SUBSET DOMAIN t
      BY DEF FromWallet
    <3>3. FromWallet(b, m) = IF Provider(r) = Wallet THEN I \cup {m} ELSE I
      <4> HIDE DEF b, m
      <4> QED BY <1>2, <3>1 DEF FromWallet
    <3>4. /\ SumFunctionOnSet(Amounts(b), I) = Told(r)
          /\ SumFunctionOnSet(Amounts(b), I \cup {m}) = Told(r) + Amount(r)
      <4> DEFINE x == NewCharge(r)
      <4>1. t \in Seq(Charge) /\ x \in Charge
        BY <1>1
      <4>2. x.amount = Amount(r) /\ Told(r) = SumFunctionOnSet(Amounts(t), I)
        BY <1>2 DEF Told
      <4> HIDE DEF I, x, t
      <4>3. /\ SumFunctionOnSet(Amounts(Append(t, x)), I) = SumFunctionOnSet(Amounts(t), I)
            /\ SumFunctionOnSet(Amounts(Append(t, x)), I \cup {Len(t) + 1})
                 = SumFunctionOnSet(Amounts(t), I) + x.amount
        BY ONLY <3>2, <4>1, AppendSums
      <4> QED BY <4>2, <4>3 DEF x
    <3>5. Told(r)' = SumFunctionOnSet(Amounts(b), FromWallet(b, m))
      BY <1>1, <2>2, <3>1 DEF Told
    <3> QED BY <1>3, <2>2, <3>3, <3>4, <3>5
  <2> QED BY <2>1, <2>2
<1> QED BY <1>6, <1>7

\* The commit releases the row, with the debited balance if there was one.
LEMMA RecordKeepsDrafted ==
    ASSUME TypeInv, TypeInv', NEW r \in Requests, Traced(r), Traced(r)', Drafted(r),
           RecordAttempt(r)
    PROVE  /\ Drafted(r)' /\ CustomerOf(r) \in Customers
           /\ \A c \in Customers \ {CustomerOf(r)} : wallet'[c] = wallet[c]
           /\ wallet'[CustomerOf(r)] = IF pc[r] = "charged" /\ Provider(r) = Wallet
                                       THEN Row(r) - Amount(r) ELSE Row(r)
           /\ ~ Locked(r) => wallet' = wallet
<1>1. /\ CommitCustomers(r) /\ pc[r] \in {"charged", "declined"} /\ cmd' = cmd
      /\ pc'[r] \in {"charge", "finalize", "compensate"}
      /\ successes'[r] = IF pc[r] = "charged" THEN Append(successes[r], NewCharge(r))
                         ELSE successes[r]
  BY GoOnMoves DEF RecordAttempt, TypeInv, TypeOK
<1>2. CustomerOf(r) \in Customers /\ CustomerOf(r)' = CustomerOf(r)
  BY <1>1, CustomerKnown DEF Charging, InLoop, CustomerOf
<1>3. \A c \in Customers : lock'[c] # r
  BY <1>1, PayAssumption DEF CommitCustomers
<1>4. \A c \in Customers \ {CustomerOf(r)} : wallet'[c] = wallet[c]
  BY <1>1 DEF CommitCustomers, Drafted, LocksItsRow
<1>5. wallet'[CustomerOf(r)] = IF pc[r] = "charged" /\ Provider(r) = Wallet
                               THEN Row(r) - Amount(r) ELSE Row(r)
  <2>1. CASE pc[r] = "charged" /\ Provider(r) = Wallet
    <3>1. Locked(r) /\ Row(r) = draft[r] + Amount(r)
      BY <2>1 DEF Drafted, DebitDrafted
    <3>2. draft[r] = Row(r) - Amount(r)
      BY <1>1, <3>1, AmountIs DEF InLoop
    <3> QED BY <1>1, <1>2, <2>1, <3>1, <3>2 DEF CommitCustomers, Locked
  <2>2. CASE ~ (pc[r] = "charged" /\ Provider(r) = Wallet)
    <3>1. ~ Locked(r)
      BY <1>1, <1>2, <2>2 DEF Drafted, LocksItsRow, Locked
    <3> QED BY <1>1, <1>2, <2>2, <3>1 DEF CommitCustomers, Locked, Row
  <2> QED BY <2>1, <2>2
<1>6. ToldWhatIsHeld(r)'
  <2>1. Told(r)' = Held(r)'
    BY RecordSums DEF Drafted, ToldWhatIsHeld
  <2>2. \A i \in DOMAIN successes'[r] : successes'[r][i].amount >= 1
    <3>1. successes[r] \in Seq(Charge) /\ NewCharge(r) \in Charge
      BY <1>1, AttemptTyped DEF TypeInv, TypeOK
    <3>2. /\ DOMAIN Append(successes[r], NewCharge(r))
               = DOMAIN successes[r] \cup {Len(successes[r]) + 1}
          /\ \A i \in DOMAIN successes[r] :
               Append(successes[r], NewCharge(r))[i] = successes[r][i]
          /\ Append(successes[r], NewCharge(r))[Len(successes[r]) + 1] = NewCharge(r)
      BY <3>1
    <3>3. NewCharge(r).amount >= 1
      BY <1>1, AmountIs DEF NewCharge, InLoop
    <3> QED BY <1>1, <3>2, <3>3 DEF Drafted, ToldWhatIsHeld
  <2> QED BY <2>1, <2>2 DEF ToldWhatIsHeld
<1>7. pc'[r] = "compensate" => ~ Locked(r)' /\ Returned(r)' = 0
  <2>1. at'[r].undone = 0
    <3>1. at[r].undone = 0
      BY <1>1 DEF Traced, RefundsFollowTheList, InLoop
    <3> QED BY <1>1, <3>1, GoOnMoves, AdvanceIs DEF RecordAttempt, TypeInv, TypeOK
  <2>2. FromWallet(successes'[r], 0) = {}
    <3>1. successes'[r] \in Seq(Charge)
      BY DEF TypeInv, TypeOK
    <3>2. DOMAIN successes'[r] = 1 .. Len(successes'[r])
      BY <3>1
    <3> QED BY <3>2 DEF FromWallet
  <2>3. Returned(r)' = 0
    BY <2>1, <2>2, SumEmpty DEF Returned
  <2> QED BY <1>2, <1>3, <2>3 DEF Locked
<1>8. LocksItsRow(r)' /\ DebitDrafted(r)' /\ RefundDrafted(r)'
  BY <1>1, <1>3, <1>7 DEF LocksItsRow, DebitDrafted, RefundDrafted
<1>9. ~ Locked(r) => wallet' = wallet
  BY <1>1, <1>2 DEF CommitCustomers, Drafted, LocksItsRow, Locked, TypeInv, TypeOK
<1> QED BY <1>2, <1>4, <1>5, <1>6, <1>8, <1>9 DEF Drafted

-----------------------------------------------------------------------------
(* The transaction that compensates *)

\* What is known of the charge that is refunded.
LEMMA RefundIs ==
    ASSUME TypeInv, NEW r \in Requests, Drafted(r), at[r].undone < Len(successes[r])
    PROVE  /\ at[r].undone \in Nat /\ successes[r] \in Seq(Charge)
           /\ at[r].undone + 1 \in DOMAIN successes[r]
           /\ ToRefund(r) \in Charge /\ ToRefund(r).amount \in Nat /\ ToRefund(r).amount >= 1
           /\ Returned(r) \in Nat
<1>1. at[r].undone \in Nat /\ successes[r] \in Seq(Charge)
  BY DEF TypeInv, TypeOK, Counters
<1>2. at[r].undone + 1 \in DOMAIN successes[r] /\ ToRefund(r) \in Charge
  BY <1>1 DEF ToRefund
<1>3. ToRefund(r).amount \in Nat
  BY <1>2 DEF Charge
<1>4. ToRefund(r).amount >= 1
  BY <1>2 DEF Drafted, ToldWhatIsHeld, ToRefund
<1>5. Returned(r) \in Nat
  BY HeldTyped
<1> QED BY <1>1, <1>2, <1>3, <1>4, <1>5

\* A charge that is not the wallet's leaves what was returned as it is.
LEMMA RefundElsewhereKeepsDrafted ==
    ASSUME TypeInv, NEW r \in Requests, Drafted(r), RefundSkipped(r) \/ RefundExternal(r)
    PROVE  Drafted(r)'
<1>1. /\ UNCHANGED <<payment, wallet, cmd, pc, successes, draft, lock>>
      /\ pc[r] = "compensate" /\ at[r].undone < Len(successes[r])
      /\ at'[r].undone = at[r].undone + 1
  BY DEF RefundSkipped, RefundExternal, Refunding, RefundedOne, database, TypeInv, TypeOK, Counters
<1>2. ToRefund(r).provider # Wallet
  BY PayAssumption DEF RefundSkipped, RefundExternal
<1>3. Returned(r)' = Returned(r)
  BY <1>1, <1>2, RefundIs, ReturnedSums DEF Returned, ToRefund
<1>4. ToldWhatIsHeld(r)'
  BY <1>1, ToldKept DEF Drafted
<1>5. Locked(r)' = Locked(r) /\ Row(r)' = Row(r) /\ CustomerOf(r)' = CustomerOf(r)
  BY <1>1 DEF Locked, Row, CustomerOf
<1> QED BY <1>1, <1>3, <1>4, <1>5 DEF Drafted, LocksItsRow, DebitDrafted, RefundDrafted

LEMMA RefundWalletKeepsDrafted ==
    ASSUME TypeInv, NEW r \in Requests, Drafted(r), RefundWallet(r)
    PROVE  Drafted(r)'
<1>1. /\ UNCHANGED <<payment, wallet, cmd, at, successes, lock>>
      /\ pc[r] = "compensate" /\ pc'[r] = "refund" /\ at[r].undone < Len(successes[r])
      /\ draft'[r] = (IF Locked(r) THEN draft[r] ELSE Row(r)) + ToRefund(r).amount
  BY DEF RefundWallet, Refunding, Goto, Credited, Locked, Row, database, TypeInv, TypeOK
<1>2. /\ Returned(r)' = Returned(r) /\ ToRefund(r)' = ToRefund(r)
      /\ Locked(r)' = Locked(r) /\ Row(r)' = Row(r) /\ CustomerOf(r)' = CustomerOf(r)
  BY <1>1 DEF Returned, ToRefund, Locked, Row, CustomerOf
<1>3. ToldWhatIsHeld(r)'
  BY <1>1, ToldKept DEF Drafted
<1>4. draft'[r] = Row(r) + Returned(r) + ToRefund(r).amount /\ (~ Locked(r) => Returned(r) = 0)
  <2>1. Row(r) \in Nat
    BY <1>1, CustomerKnown DEF TypeInv, TypeOK, Row, Charging
  <2>2. /\ ToRefund(r).amount \in Nat /\ Returned(r) \in Nat
        /\ IF Locked(r) THEN draft[r] = Row(r) + Returned(r) ELSE Returned(r) = 0
    BY <1>1, RefundIs DEF Drafted, RefundDrafted
  <2> QED BY <1>1, <2>1, <2>2
<1> QED BY <1>1, <1>2, <1>3, <1>4 DEF Drafted, LocksItsRow, DebitDrafted, RefundDrafted

LEMMA SaveRefundKeepsDrafted ==
    ASSUME TypeInv, NEW r \in Requests, Traced(r), Drafted(r), SaveRefund(r)
    PROVE  Drafted(r)'
<1>1. /\ UNCHANGED <<payment, wallet, cmd, successes, draft>>
      /\ pc[r] = "refund" /\ pc'[r] = "compensate" /\ SaveCustomer(r)
      /\ at'[r].undone = at[r].undone + 1
  BY DEF SaveRefund, RefundedOne, Goto, database, TypeInv, TypeOK, Counters
<1>2. at[r].undone < Len(successes[r]) /\ ToRefund(r).provider = Wallet
  BY <1>1 DEF Traced, RefundsFollowTheList
<1>3. Returned(r)' = Returned(r) + ToRefund(r).amount
  BY <1>1, <1>2, RefundIs, ReturnedSums DEF Returned, ToRefund
<1>4. CustomerOf(r)' = CustomerOf(r) /\ Row(r)' = Row(r) /\ CustomerOf(r) \in Customers
  BY <1>1, CustomerKnown DEF CustomerOf, Row, Charging
<1>5. draft[r] = Row(r) + Returned(r) + ToRefund(r).amount /\ draft[r] # Row(r)
  <2>1. Row(r) \in Nat
    BY <1>4 DEF TypeInv, TypeOK, Row
  <2>2. draft[r] = Row(r) + Returned(r) + ToRefund(r).amount
    BY <1>1 DEF Drafted, RefundDrafted
  <2>3. ToRefund(r).amount \in Nat /\ ToRefund(r).amount >= 1 /\ Returned(r) \in Nat
    BY <1>2, RefundIs
  <2> QED BY <2>1, <2>2, <2>3
<1>6. lock'[CustomerOf(r)] = r /\ \A c \in Customers : lock'[c] = r => c = CustomerOf(r)
  BY <1>1, <1>4, <1>5, SaveLocks DEF Drafted
<1>7. ToldWhatIsHeld(r)'
  BY <1>1, ToldKept DEF Drafted
<1>8. draft'[r] = Row(r)' + Returned(r)'
  <2>1. ToRefund(r).amount \in Nat /\ Returned(r) \in Nat
    BY <1>2, RefundIs
  <2>2. Row(r) \in Nat
    BY <1>4 DEF TypeInv, TypeOK, Row
  <2> QED BY <1>1, <1>3, <1>4, <1>5, <2>1, <2>2
<1> QED
  BY <1>1, <1>4, <1>6, <1>7, <1>8
  DEF Drafted, LocksItsRow, DebitDrafted, RefundDrafted, Locked

\* The commit writes the row with everything that was returned, which is all that was held.
LEMMA FinalizeFailedKeepsDrafted ==
    ASSUME TypeInv, NEW r \in Requests, Drafted(r), FinalizeFailed(r)
    PROVE  /\ Drafted(r)' /\ CustomerOf(r) \in Customers
           /\ \A c \in Customers \ {CustomerOf(r)} : wallet'[c] = wallet[c]
           /\ wallet'[CustomerOf(r)] = Row(r) + Held(r)
           /\ ~ Locked(r) => wallet' = wallet
<1>1. /\ CommitCustomers(r) /\ UNCHANGED <<cmd, at, successes, draft>>
      /\ pc[r] = "compensate" /\ pc'[r] = "failed" /\ ~ (at[r].undone < Len(successes[r]))
      /\ payment'[r].attempts = payment[r].attempts
  BY DEF FinalizeFailed, Refunding, MarkFailed, Goto, TypeInv, TypeOK
<1>2. CustomerOf(r) \in Customers
  BY <1>1, CustomerKnown DEF Charging
<1>3. Returned(r) = Held(r)
  <2>1. at[r].undone \in Nat /\ successes[r] \in Seq(Charge)
    BY DEF TypeInv, TypeOK, Counters
  <2>2. \A i \in DOMAIN successes[r] : i <= Len(successes[r]) /\ i <= at[r].undone
    BY <1>1, <2>1
  <2>3. FromWallet(successes[r], at[r].undone) = FromWallet(successes[r], Len(successes[r]))
    BY <2>2 DEF FromWallet
  <2> QED BY <2>3 DEF Returned, Told, Drafted, ToldWhatIsHeld
<1>4. \A c \in Customers : lock'[c] # r
  BY <1>1, PayAssumption DEF CommitCustomers
<1>5. \A c \in Customers \ {CustomerOf(r)} : wallet'[c] = wallet[c]
  BY <1>1 DEF CommitCustomers, Drafted, LocksItsRow
<1>6. wallet'[CustomerOf(r)] = Row(r) + Held(r)
  <2>1. IF Locked(r) THEN draft[r] = Row(r) + Returned(r) ELSE Returned(r) = 0
    BY <1>1 DEF Drafted, RefundDrafted
  <2>2. Row(r) \in Nat
    BY <1>2 DEF TypeInv, TypeOK, Row
  <2>3. wallet'[CustomerOf(r)] = IF Locked(r) THEN draft[r] ELSE Row(r)
    BY <1>1, <1>2 DEF CommitCustomers, Locked, Row
  <2> QED BY <1>3, <2>1, <2>2, <2>3
<1>7. ToldWhatIsHeld(r)'
  BY <1>1, ToldKept DEF Drafted
<1>8. ~ Locked(r) => wallet' = wallet
  BY <1>1, <1>2 DEF CommitCustomers, Drafted, LocksItsRow, Locked, TypeInv, TypeOK
<1> QED
  BY <1>1, <1>2, <1>4, <1>5, <1>6, <1>7, <1>8
  DEF Drafted, LocksItsRow, DebitDrafted, RefundDrafted

LEMMA AbortKeepsDrafted ==
    ASSUME TypeInv, NEW r \in Requests, Drafted(r), Abort(r)
    PROVE  Drafted(r)'
<1>1. /\ UNCHANGED <<payment, successes>> /\ pc'[r] = "aborted"
      /\ \A c \in Customers : lock'[c] # r
  BY PayAssumption DEF Abort, Goto, database, TypeInv, TypeOK
<1>2. ToldWhatIsHeld(r)'
  BY <1>1, ToldKept DEF Drafted
<1> QED BY <1>1, <1>2 DEF Drafted, LocksItsRow, DebitDrafted, RefundDrafted

-----------------------------------------------------------------------------
(* Every step *)

\* A request that is about to write a balance is the only one of its customer.
LEMMA OnlyWriter ==
    ASSUME OneWriter, NEW r \in Requests, CustomerOf(r) \in Customers, Locked(r)
    PROVE  /\ \A k \in Requests \ {r} : CustomerOf(k) = CustomerOf(r) =>
                pc[k] \notin {"debit", "refund"} /\ ~ Locked(k)
           /\ \A t \in TopUps : TopUpOf[t].customer = CustomerOf(r) =>
                topup[t].pc \notin {"save", "saving"}
<1> DEFINE c == CustomerOf(r)
<1>1. <<"payment", r>> \in Drafts(c)
  BY DEF Drafts, Locked
<1>2. \A x \in Drafts(c) : x = <<"payment", r>>
  BY <1>1 DEF OneWriter
<1>3. ASSUME NEW k \in Requests \ {r}, CustomerOf(k) = c
      PROVE  pc[k] \notin {"debit", "refund"} /\ ~ Locked(k)
  <2>1. <<"payment", k>> \notin Drafts(c)
    BY <1>2
  <2> QED BY <1>3, <2>1 DEF Drafts, Locked
<1>4. ASSUME NEW t \in TopUps, TopUpOf[t].customer = c
      PROVE  topup[t].pc \notin {"save", "saving"}
  <2>1. <<"top-up", t>> \notin Drafts(c)
    BY <1>2
  <2> QED BY <1>4, <2>1 DEF Drafts
<1> QED BY <1>3, <1>4

\* The balances of a step of r: as they were, or the row of its customer changes by what
\* the step adds to, or takes from, what its payment holds.
LEMMA RequestBalances ==
    ASSUME TypeInv, TypeInv', PaymentInv, NEW r \in Requests, Traced(r), Traced(r)', Drafted(r),
           RequestStep(r), WalletConserved
    PROVE  /\ Drafted(r)' /\ WalletConserved'
           /\ ~ Locked(r) => wallet' = wallet
           /\ \A c \in Customers : c # CustomerOf(r) => wallet'[c] = wallet[c]
           /\ wallet' = wallet \/ CustomerOf(r) \in Customers
<1>1. /\ cmd' = cmd /\ topup' = topup
      /\ \A k \in Requests \ {r} : payment'[k] = payment[k]
  BY OthersAlone
<1>2. \A c \in Customers : ToppedUp(c)' = ToppedUp(c) /\ wallet[c] \in Nat
  BY <1>1 DEF ToppedUp, TypeInv, TypeOK
<1>3. ASSUME wallet' = wallet, payment'[r].attempts = payment[r].attempts,
             payment[r].status = "failed" <=> payment'[r].status = "failed"
      PROVE  WalletConserved'
  <2>1. Held(r)' = Held(r) /\ Held(r) \in Nat
    BY <1>3, HeldTyped DEF Held, WalletCharges
  <2>2. \A c \in Customers : HeldFrom(c)' = HeldFrom(c)
    BY <1>1, <1>3, <2>1, HeldChanges
  <2> QED BY <1>2, <1>3, <2>2 DEF WalletConserved
<1>4. CASE Resting(r)
  <2>1. Drafted(r)'
    BY <1>1, <1>4, RestingKeepsDrafted
  <2>2. wallet' = wallet /\ payment'[r].attempts = payment[r].attempts
    BY <1>4, RestingMoves
  <2>3. payment[r].status # "failed" /\ payment'[r].status # "failed"
    BY <1>1, <1>4, RestingMoves
    DEF Resting, PaymentInv, StatusMatchesPc, BeforeClaim, Receive, Lookup, ReadOrder,
        ClaimRefused, Claim, SkipProvider, ChargeExternal, FinalizeSuccess, database,
        Initiate, MarkSucceeded, TypeInv, TypeOK, Charging, InLoop
  <2> QED BY <1>3, <2>1, <2>2, <2>3
<1>5. CASE \/ ChargeWallet(r) \/ SaveDebit(r) \/ RefundSkipped(r) \/ RefundExternal(r)
           \/ RefundWallet(r) \/ SaveRefund(r) \/ Abort(r)
  <2>1. Drafted(r)'
    BY <1>5, ChargeWalletKeepsDrafted, SaveDebitKeepsDrafted, RefundElsewhereKeepsDrafted,
       RefundWalletKeepsDrafted, SaveRefundKeepsDrafted, AbortKeepsDrafted
  <2>2. wallet' = wallet /\ payment' = payment
    BY <1>5 DEF ChargeWallet, SaveDebit, RefundSkipped, RefundExternal, RefundWallet,
                SaveRefund, Abort, database
  <2> QED BY <1>3, <2>1, <2>2
<1>6. CASE RecordAttempt(r)
  <2> DEFINE more == IF pc[r] = "charged" /\ Provider(r) = Wallet THEN Amount(r) ELSE 0
  <2>1. /\ Drafted(r)' /\ CustomerOf(r) \in Customers
        /\ \A c \in Customers \ {CustomerOf(r)} : wallet'[c] = wallet[c]
        /\ wallet'[CustomerOf(r)] = IF pc[r] = "charged" /\ Provider(r) = Wallet
                                    THEN Row(r) - Amount(r) ELSE Row(r)
        /\ ~ Locked(r) => wallet' = wallet
    BY <1>6, RecordKeepsDrafted
  <2>2. Held(r)' = Held(r) + more /\ Held(r) \in Nat
    BY <1>6, RecordSums, HeldTyped
  <2>3. payment[r].status = "initiated" /\ payment'[r].status = "initiated"
    BY <1>6, RecordMoves DEF RecordAttempt, PaymentInv, StatusMatchesPc, Charging, InLoop
  <2>4. Amount(r) \in Nat /\ Row(r) \in Nat
    BY <1>6, AmountIs DEF RecordAttempt, InLoop
  <2>5. WalletConserved'
    <3> SUFFICES ASSUME NEW c \in Customers
                 PROVE  wallet'[c] + HeldFrom(c)' = InitialBalance[c] + ToppedUp(c)'
      BY DEF WalletConserved
    <3>1. /\ HeldFrom(c) \in Nat
          /\ HeldFrom(c)' = IF c = CustomerOf(r) THEN HeldFrom(c) - Held(r) + Held(r)'
                            ELSE HeldFrom(c)
      BY <1>1, <2>3, HeldChanges
    <3>2. wallet[c] + HeldFrom(c) = InitialBalance[c] + ToppedUp(c)
      BY DEF WalletConserved
    <3>3. CASE c = CustomerOf(r)
      BY <1>2, <2>1, <2>2, <2>4, <3>1, <3>2, <3>3 DEF Row
    <3>4. CASE c # CustomerOf(r)
      BY <1>2, <2>1, <3>1, <3>2, <3>4
    <3> QED BY <3>3, <3>4
  <2> QED BY <2>1, <2>5
<1>7. CASE FinalizeFailed(r)
  <2>1. /\ Drafted(r)' /\ CustomerOf(r) \in Customers
        /\ \A c \in Customers \ {CustomerOf(r)} : wallet'[c] = wallet[c]
        /\ wallet'[CustomerOf(r)] = Row(r) + Held(r)
        /\ ~ Locked(r) => wallet' = wallet
    BY <1>7, FinalizeFailedKeepsDrafted
  <2>2. /\ payment[r].status = "initiated" /\ payment'[r].status = "failed"
        /\ payment'[r].attempts = payment[r].attempts
    BY <1>7 DEF FinalizeFailed, MarkFailed, PaymentInv, StatusMatchesPc, Charging, InLoop,
                TypeInv, TypeOK
  <2>3. Held(r) \in Nat
    BY HeldTyped
  <2>4. WalletConserved'
    <3> SUFFICES ASSUME NEW c \in Customers
                 PROVE  wallet'[c] + HeldFrom(c)' = InitialBalance[c] + ToppedUp(c)'
      BY DEF WalletConserved
    <3>1. /\ HeldFrom(c) \in Nat
          /\ HeldFrom(c)' = IF c = CustomerOf(r) THEN HeldFrom(c) - Held(r) ELSE HeldFrom(c)
      BY <1>1, <2>2, HeldReturns
    <3>2. wallet[c] + HeldFrom(c) = InitialBalance[c] + ToppedUp(c)
      BY DEF WalletConserved
    <3>3. CASE c = CustomerOf(r)
      BY <1>2, <2>1, <2>3, <3>1, <3>2, <3>3 DEF Row
    <3>4. CASE c # CustomerOf(r)
      BY <1>2, <2>1, <3>1, <3>2, <3>4
    <3> QED BY <3>3, <3>4
  <2> QED BY <2>1, <2>4
<1> QED BY <1>4, <1>5, <1>6, <1>7 DEF RequestStep, Execute, Resting

\* A step of a request keeps the drafts of all the others.
LEMMA RequestKeepsWalletInv ==
    ASSUME TypeInv, TypeInv', PaymentInv, NEW r \in Requests, Traced(r), Traced(r)',
           OneWriter, WalletInv, RequestStep(r)
    PROVE  WalletInv'
<1>1. /\ Drafted(r)' /\ WalletConserved'
      /\ ~ Locked(r) => wallet' = wallet
      /\ \A c \in Customers : c # CustomerOf(r) => wallet'[c] = wallet[c]
      /\ wallet' = wallet \/ CustomerOf(r) \in Customers
  BY RequestBalances DEF WalletInv
<1>2. /\ cmd' = cmd /\ topup' = topup
      /\ \A k \in Requests \ {r} :
           /\ pc'[k] = pc[k] /\ at'[k] = at[k] /\ payment'[k] = payment[k]
           /\ successes'[k] = successes[k] /\ draft'[k] = draft[k]
           /\ \A c \in Customers : lock'[c] = k <=> lock[c] = k
  BY OthersAlone
<1>3. ASSUME NEW k \in Requests \ {r} PROVE Drafted(k)'
  <2>1. CustomerOf(k)' = CustomerOf(k)
    BY <1>2 DEF CustomerOf
  <2>2. CASE wallet' = wallet
    <3>1. Row(k)' = Row(k)
      BY <2>1, <2>2 DEF Row
    <3> QED BY <1>2, <3>1, OthersDrafted DEF WalletInv
  <2>3. CASE Locked(r) /\ CustomerOf(r) \in Customers /\ CustomerOf(k) = CustomerOf(r)
    <3>1. pc[k] \notin {"debit", "refund"} /\ ~ Locked(k)
      BY <2>3, OnlyWriter
    <3> QED BY <1>2, <3>1, OthersDrafted DEF WalletInv
  <2>4. CASE CustomerOf(k) # CustomerOf(r) /\ CustomerOf(k) \in Customers
    <3>1. Row(k)' = Row(k)
      BY <1>1, <2>1, <2>4 DEF Row
    <3> QED BY <1>2, <3>1, OthersDrafted DEF WalletInv
  <2>5. CASE CustomerOf(k) \notin Customers
    <3>1. pc[k] \notin Charging
      BY <2>5, CustomerKnown
    <3>2. pc'[k] \notin Charging
      BY <1>2, <3>1
    <3>3. /\ Told(k)' = Told(k) /\ Held(k)' = Held(k) /\ successes'[k] = successes[k]
      BY <1>2 DEF Told, Held, WalletCharges
    <3>4. ToldWhatIsHeld(k)'
      BY <3>3 DEF WalletInv, Drafted, ToldWhatIsHeld
    <3>5. \A c \in Customers : lock'[c] # k
      BY <1>2, <3>1 DEF WalletInv, Drafted, LocksItsRow, Charging, InLoop
    <3> QED BY <3>2, <3>4, <3>5 DEF Drafted, LocksItsRow, DebitDrafted, RefundDrafted,
                                   Charging, InLoop
  <2> QED BY <1>1, <2>2, <2>3, <2>4, <2>5
<1>4. ASSUME NEW t \in TopUps PROVE TopUpDrafted(t)'
  <2>1. TopUpOf[t].customer \in Customers
    BY PayAssumption
  <2>2. CASE wallet'[TopUpOf[t].customer] = wallet[TopUpOf[t].customer]
    BY <1>2, <2>2 DEF WalletInv, TopUpDrafted
  <2>3. CASE Locked(r) /\ TopUpOf[t].customer = CustomerOf(r)
    BY <1>2, <2>1, <2>3, OnlyWriter DEF TopUpDrafted
  <2> QED BY <1>1, <2>1, <2>2, <2>3
<1> QED BY <1>1, <1>3, <1>4 DEF WalletInv

\* A top-up that is about to write a balance is the only one to do so.
LEMMA OnlyTopUp ==
    ASSUME OneWriter, NEW t \in TopUps, topup[t].pc = "saving"
    PROVE  /\ \A k \in Requests : CustomerOf(k) = TopUpOf[t].customer =>
                pc[k] \notin {"debit", "refund"} /\ ~ Locked(k)
           /\ \A u \in TopUps \ {t} : TopUpOf[u].customer = TopUpOf[t].customer =>
                topup[u].pc \notin {"save", "saving"}
<1> DEFINE c == TopUpOf[t].customer
<1>1. <<"top-up", t>> \in Drafts(c) /\ c \in Customers
  BY PayAssumption DEF Drafts
<1>2. \A x \in Drafts(c) : x = <<"top-up", t>>
  BY <1>1 DEF OneWriter
<1>3. ASSUME NEW k \in Requests, CustomerOf(k) = c
      PROVE  pc[k] \notin {"debit", "refund"} /\ ~ Locked(k)
  <2>1. <<"payment", k>> \notin Drafts(c)
    BY <1>2
  <2> QED BY <1>3, <2>1 DEF Drafts, Locked
<1>4. ASSUME NEW u \in TopUps \ {t}, TopUpOf[u].customer = c
      PROVE  topup[u].pc \notin {"save", "saving"}
  <2>1. <<"top-up", u>> \notin Drafts(c)
    BY <1>2
  <2> QED BY <1>4, <2>1 DEF Drafts
<1> QED BY <1>3, <1>4

LEMMA TopUpKeepsWalletInv ==
    ASSUME TypeInv, NEW t \in TopUps, OneWriter, WalletInv, TopUp(t)
    PROVE  WalletInv'
<1>1. UNCHANGED <<order, payment, outbox, ledger, cmd, process, hand>>
  BY DEF TopUp, TopUpRead, TopUpConnect, TopUpSave, database
<1>2. /\ \A c : HeldFrom(c)' = HeldFrom(c)
      /\ \A k \in Requests : CustomerOf(k)' = CustomerOf(k)
  BY <1>1 DEF HeldFrom, Held, WalletCharges, CustomerOf
<1>3. \A u \in TopUps \ {t} : topup'[u] = topup[u]
  BY DEF TopUp, TopUpRead, TopUpConnect, TopUpSave, TypeInv, TypeOK
<1>4. CASE TopUpRead(t) \/ TopUpConnect(t)
  <2>1. wallet' = wallet /\ topup[t].pc \in {"idle", "save"} /\ topup'[t].pc \in {"save", "saving"}
    BY <1>4 DEF TopUpRead, TopUpConnect, database, TypeInv, TypeOK
  <2>2. \A c : ToppedUp(c)' = ToppedUp(c)
    <3>1. \A u \in TopUps : topup'[u].pc = "done" <=> topup[u].pc = "done"
      BY <1>3, <2>1
    <3> QED BY <3>1 DEF ToppedUp
  <2>3. \A k \in Requests : Drafted(k)'
    BY <1>1, <1>2, <2>1, OthersDrafted DEF WalletInv, process, Row
  <2>4. TopUpDrafted(t)'
    BY <1>4, <2>1 DEF TopUpRead, TopUpConnect, WalletInv, TopUpDrafted, Credited, TypeInv, TypeOK
  <2>5. \A u \in TopUps \ {t} : TopUpDrafted(u)'
    BY <1>3, <2>1 DEF WalletInv, TopUpDrafted
  <2> QED BY <1>2, <2>1, <2>2, <2>3, <2>4, <2>5 DEF WalletInv, WalletConserved
<1>5. CASE TopUpSave(t)
  <2> DEFINE c == TopUpOf[t].customer
  <2>1. /\ topup[t].pc = "saving" /\ c \in Customers /\ TopUpOf[t].amount \in Nat
        /\ wallet' = [wallet EXCEPT ![c] = topup[t].balance]
        /\ topup' = [topup EXCEPT ![t].pc = "done"]
    BY <1>5, PayAssumption DEF TopUpSave
  <2>2. topup[t].balance = wallet[c] + TopUpOf[t].amount
    BY <2>1 DEF WalletInv, TopUpDrafted
  <2>3. /\ wallet'[c] = wallet[c] + TopUpOf[t].amount
        /\ \A d \in Customers \ {c} : wallet'[d] = wallet[d]
        /\ \A d \in Customers : wallet[d] \in Nat
    BY <2>1, <2>2 DEF TypeInv, TypeOK
  <2>4. ASSUME NEW k \in Requests PROVE Drafted(k)'
    <3>1. CASE CustomerOf(k) = c
      <4>1. pc[k] \notin {"debit", "refund"} /\ ~ Locked(k)
        BY <2>1, <3>1, OnlyTopUp
      <4> QED BY <1>1, <4>1, OthersDrafted DEF WalletInv, process
    <3>2. CASE CustomerOf(k) # c
      <4>1. Row(k)' = Row(k)
        BY <1>2, <2>1, <3>2 DEF Row, TypeInv, TypeOK
      <4> QED BY <1>1, <4>1, OthersDrafted DEF WalletInv, process
    <3> QED BY <3>1, <3>2
  <2>5. TopUpDrafted(t)'
    BY <2>1 DEF TopUpDrafted, TypeInv, TypeOK
  <2>6. ASSUME NEW u \in TopUps \ {t} PROVE TopUpDrafted(u)'
    <3>1. CASE TopUpOf[u].customer = c
      BY <1>3, <2>1, <3>1, OnlyTopUp DEF TopUpDrafted
    <3>2. CASE TopUpOf[u].customer # c
      BY <1>3, <2>3, <3>2, PayAssumption DEF WalletInv, TopUpDrafted
    <3> QED BY <3>1, <3>2
  <2>7. WalletConserved'
    <3> SUFFICES ASSUME NEW d \in Customers
                 PROVE  wallet'[d] + HeldFrom(d)' = InitialBalance[d] + ToppedUp(d)'
      BY DEF WalletConserved
    <3>1. /\ ToppedUp(d) \in Nat
          /\ ToppedUp(d)' = IF d = c THEN ToppedUp(d) + TopUpOf[t].amount ELSE ToppedUp(d)
      BY <2>1, ToppedUpGrows
    <3>2. HeldFrom(d)' = HeldFrom(d) /\ HeldFrom(d) \in Nat
      <4>1. HeldFrom(d) = SumFunctionOnSet([p \in Requests |-> Held(p)], Standing(d))
        BY DEF HeldFrom, Standing
      <4>2. IsFiniteSet(Standing(d)) /\ \A p \in Standing(d) : [q \in Requests |-> Held(q)][p] \in Nat
        BY PayAssumption, FS_Subset, HeldTyped DEF Standing
      <4>3. SumFunctionOnSet([p \in Requests |-> Held(p)], Standing(d)) \in Nat
        BY <4>2, SumGrows
      <4> QED BY <1>2, <4>1, <4>3
    <3>3. wallet[d] + HeldFrom(d) = InitialBalance[d] + ToppedUp(d) /\ InitialBalance[d] \in Nat
      BY PayAssumption DEF WalletConserved, WalletInv
    <3>4. CASE d = c
      BY <2>1, <2>3, <3>1, <3>2, <3>3, <3>4
    <3>5. CASE d # c
      BY <2>3, <3>1, <3>2, <3>3, <3>5
    <3> QED BY <3>4, <3>5
  <2> QED BY <2>4, <2>5, <2>6, <2>7 DEF WalletInv
<1> QED BY <1>4, <1>5 DEF TopUp

\* Events move orders, not money.
LEMMA WalletInvFrame ==
    ASSUME TypeInv, WalletInv, UNCHANGED <<payment, wallet, cmd, process, topup>>
    PROVE  WalletInv'
<1>1. WalletConserved'
  BY DEF WalletInv, WalletConserved, HeldFrom, ToppedUp, Held, WalletCharges, CustomerOf
<1>2. \A k \in Requests : Row(k)' = Row(k)
  BY DEF Row, CustomerOf
<1>3. \A k \in Requests : Drafted(k)'
  BY <1>2, OthersDrafted DEF WalletInv, process
<1>4. \A t \in TopUps : TopUpDrafted(t)'
  BY DEF WalletInv, TopUpDrafted
<1> QED BY <1>1, <1>3, <1>4 DEF WalletInv

LEMMA NextWalletInv ==
    ASSUME TypeInv, TypeInv', PaymentInv, ChargeInv, ChargeInv', OneWriter, WalletInv,
           [Next]_vars
    PROVE  WalletInv'
<1>1. ASSUME NEW r \in Requests, RequestStep(r) PROVE WalletInv'
  BY <1>1, RequestKeepsWalletInv DEF ChargeInv
<1>2. ASSUME NEW t \in TopUps, TopUp(t) PROVE WalletInv'
  BY <1>2, TopUpKeepsWalletInv
<1>3. ASSUME NEW p \in Requests, NEW d \in Deliveries, Handle(p, d) PROVE WalletInv'
  <2>1. UNCHANGED <<payment, wallet, cmd, process, topup>>
    BY <1>3 DEF Handle, HandlerRead, HandlerFails, SettlePaid, SettleThrows, SettleFailed, database
  <2> QED BY <2>1, WalletInvFrame
<1>4. CASE UNCHANGED vars
  <2>1. UNCHANGED <<payment, wallet, cmd, process, topup>>
    BY <1>4 DEF vars, process
  <2> QED BY <2>1, WalletInvFrame
<1> QED BY <1>1, <1>2, <1>3, <1>4 DEF Next, RequestStep, AllOver

\* Before any request nothing is held, and a wallet has what it begins with.
LEMMA InitWalletInv == Init => WalletInv
<1> SUFFICES ASSUME Init PROVE WalletInv
  OBVIOUS
<1> USE DEF Init
<1>1. ASSUME NEW r \in Requests PROVE Held(r) = 0 /\ Told(r) = 0
  <2>1. WalletCharges(r) = {} /\ FromWallet(successes[r], Len(successes[r])) = {}
    BY DEF WalletCharges, FromWallet
  <2> QED BY <2>1, SumEmpty DEF Held, Told
<1>2. ASSUME NEW r \in Requests PROVE Drafted(r)
  <2>1. ToldWhatIsHeld(r)
    BY <1>1 DEF ToldWhatIsHeld
  <2>2. LocksItsRow(r)
    BY PayAssumption DEF LocksItsRow
  <2> QED BY <2>1, <2>2 DEF Drafted, DebitDrafted, RefundDrafted
<1>3. \A t \in TopUps : TopUpDrafted(t)
  BY DEF TopUpDrafted
<1>4. ASSUME NEW c \in Customers PROVE HeldFrom(c) = 0 /\ ToppedUp(c) = 0
  <2> DEFINE S == Standing(c)
             f == [p \in Requests |-> Held(p)]
             zero == [p \in Requests |-> 0]
  <2>1. f = zero
    BY <1>1
  <2>2. IsFiniteSet(S) /\ S \subseteq Requests
    BY PayAssumption, FS_Subset DEF Standing
  <2>3. SumFunctionOnSet(zero, S) = 0
    <3> DEFINE g == [T \in SUBSET S |-> 0]
    <3>1. \A x \in S : zero[x] = 0
      BY <2>2
    <3>2. g[{}] = 0
      OBVIOUS
    <3>3. \A T \in SUBSET S : T # {} => \E x \in T : g[T] = zero[x] + g[T \ {x}]
      <4> SUFFICES ASSUME NEW T \in SUBSET S, T # {}
                   PROVE  \E x \in T : g[T] = zero[x] + g[T \ {x}]
        OBVIOUS
      <4>1. PICK x \in T : TRUE
        OBVIOUS
      <4>2. g[T] = 0 /\ g[T \ {x}] = 0 /\ zero[x] = 0
        BY <3>1, <4>1
      <4> QED BY <4>2
    <3>4. g[S] = 0
      OBVIOUS
    <3>5. \A x \in S : zero[x] \in Int
      BY <3>1
    <3>6. IsFiniteSet(S)
      BY <2>2
    <3> HIDE DEF g, zero, S
    <3>7. g[S] = SumFunctionOnSet(zero, S)
      BY ONLY <3>2, <3>3, <3>5, <3>6, SumIs
    <3> QED BY <3>4, <3>7
  <2>4. HeldFrom(c) = 0
    BY <2>1, <2>3 DEF HeldFrom, Standing
  <2>5. {t \in TopUps : TopUpOf[t].customer = c /\ topup[t].pc = "done"} = {}
    OBVIOUS
  <2>6. ToppedUp(c) = 0
    BY <2>5, SumEmpty DEF ToppedUp
  <2> QED BY <2>4, <2>6
<1>5. WalletConserved
  BY <1>4, PayAssumption DEF WalletConserved
<1> QED BY <1>2, <1>3, <1>5 DEF WalletInv

-----------------------------------------------------------------------------
(* The theorems *)

\* No money of a wallet appears or disappears in a run in which at no moment two
\* requests, or a request and a top-up, are between reading a balance and writing it:
\* whatever is charged, refunded, refused or stopped, and at whichever provider.  The
\* code has nothing that keeps them apart.
THEOREM WalletsConserved == Spec => TurnsConserveWallets
<1>1. Init => WalletInv
  BY InitWalletInv
<1>2. /\ TypeInv /\ TypeInv' /\ PaymentInv /\ ChargeInv /\ ChargeInv'
      /\ OneWriter /\ WalletInv /\ [Next]_vars
      => WalletInv'
  BY NextWalletInv
<1>3. WalletInv => WalletConserved
  BY DEF WalletInv
<1> QED
  BY <1>1, <1>2, <1>3, TypeInvHolds, PaymentInvHolds, ChargeInvHolds, PTL
  DEF Spec, TurnsConserveWallets

\* The unique index on the key does keep the payments of a client apart that sends one key
\* with every request: the second of them is not stored, and charges nothing.
LEMMA OneKeyOneWriter ==
    ASSUME OneKeyPerCustomer, TopUps = {}, TypeInv, PaymentInv, WalletInv
    PROVE  OneWriter
<1> SUFFICES ASSUME NEW c \in Customers, NEW x \in Drafts(c), NEW y \in Drafts(c)
             PROVE  x = y
  BY DEF OneWriter
<1>1. ASSUME NEW r \in Requests,
             CustomerOf(r) = c /\ (pc[r] \in {"debit", "refund"} \/ lock[c] = r)
      PROVE  CustomerOf(r) = c /\ Persisted(r)
  <2>1. CustomerOf(r) = c /\ pc[r] \in Charging
    BY <1>1 DEF WalletInv, Drafted, LocksItsRow, Charging, InLoop
  <2> QED BY <2>1 DEF PaymentInv, StatusMatchesPc, Persisted
<1>2. PICK p \in Requests :
        /\ x = <<"payment", p>>
        /\ CustomerOf(p) = c /\ (pc[p] \in {"debit", "refund"} \/ lock[c] = p)
  BY DEF Drafts
<1>3. PICK q \in Requests :
        /\ y = <<"payment", q>>
        /\ CustomerOf(q) = c /\ (pc[q] \in {"debit", "refund"} \/ lock[c] = q)
  BY DEF Drafts
<1>4. /\ CustomerOf(p) = c /\ Persisted(p)
      /\ CustomerOf(q) = c /\ Persisted(q)
  BY <1>1, <1>2, <1>3
<1>5. cmd[p] \in Commands /\ cmd[q] \in Commands
  BY DEF TypeInv, TypeOK
<1>6. Key(p) = Key(q)
  BY <1>4, <1>5 DEF OneKeyPerCustomer, CustomerOf, Key
<1>7. p = q
  BY <1>4, <1>6 DEF PaymentInv, KeyNamesOnePayment
<1> QED BY <1>2, <1>3, <1>7

\* With one key for all the requests of a customer, and no top-up, nothing is lost or made
\* up, however the requests overlap, are repeated and are stopped.
THEOREM OneKeyConservesWallets ==
    OneKeyPerCustomer /\ TopUps = {} => (Spec => []WalletConserved)
<1> SUFFICES ASSUME OneKeyPerCustomer /\ TopUps = {} PROVE Spec => []WalletConserved
  OBVIOUS
<1>1. Init => WalletInv
  BY InitWalletInv
<1>2. /\ TypeInv /\ TypeInv' /\ PaymentInv /\ ChargeInv /\ ChargeInv'
      /\ WalletInv /\ [Next]_vars
      => WalletInv'
  BY NextWalletInv, OneKeyOneWriter
<1>3. WalletInv => WalletConserved
  BY DEF WalletInv
<1> QED BY <1>1, <1>2, <1>3, TypeInvHolds, PaymentInvHolds, ChargeInvHolds, PTL DEF Spec
=============================================================================
