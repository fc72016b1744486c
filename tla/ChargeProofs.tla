---------------------------- MODULE ChargeProofs ----------------------------
(***************************************************************************)
(* Theorems about the money PayOrder moves: what the rows of               *)
(* payment_attempts, the list compensate() is given and the ledgers of the *)
(* external providers say of each other, for every chain, every set of     *)
(* providers and whatever requests overlap or are stopped.                 *)
(*                                                                         *)
(* A step of a request touches its own payment and its own charges only,   *)
(* so that the invariant is stated of one request at a time.               *)
(***************************************************************************)
EXTENDS PayOrderProofs, FiniteSetTheorems

-----------------------------------------------------------------------------
(* The invariant of one request *)

Mine(r) == {e \in ledger : e[2][1] = r}

\* A payment that was refused was not stored, and a final status ends its request.
EndMatchesStatus(r) ==
    /\ pc[r] \in Refused => payment[r].status = "none"
    /\ \A status \in {"succeeded", "failed"} : payment[r].status = status => pc[r] = status

\* Whatever an external provider did for r, it did for a stored payment: a charge that
\* is recorded or at risk, or the refund of a recorded one.
LedgerExplained(r) ==
    \A e \in Mine(r) :
        /\ Persisted(r) /\ External(e[2])
        /\ \/ e[2] \in Charged(r)
           \/ e[1] = "charge" /\ pc[r] \in {"charged", "aborted"} /\ e[2] = ChargeRef(r)

\* The recorded charges are one for each allocation the loop has behind it.
OneForEachAllocation(r) ==
    /\ \A ref \in Charged(r) : ref[1] = r /\ ref[2] \in 1 .. at[r].alloc - 1
    /\ \A ref, other \in Charged(r) : ref[2] = other[2] => ref = other
    /\ \A i \in 1 .. at[r].alloc - 1 : \E ref \in Charged(r) : ref[2] = i

\* compensate() is told of the recorded charges, all of them and no others.
SuccessesAreCharged(r) ==
    /\ \A i \in DOMAIN successes[r] :
         successes[r][i].ref \in Charged(r)
         /\ successes[r][i].ref[3] = successes[r][i].provider
    /\ \A ref \in Charged(r) : \E i \in DOMAIN successes[r] : successes[r][i].ref = ref

\* A recorded charge of an external provider was made, and so was the one that is
\* about to be recorded.
ChargesWereMade(r) ==
    /\ \A ref \in Charged(r) : External(ref) => Did("charge", ref)
    /\ pc[r] = "charged" /\ Provider(r) # Wallet => Did("charge", ChargeRef(r))
    /\ pc[r] = "debit" => Provider(r) = Wallet

\* Refunds are made in compensate() only, and in the order of the list.
RefundsFollowTheList(r) ==
    /\ pc[r] \in InLoop => at[r].undone = 0
    /\ \A e \in Mine(r) : e[1] = "refund" =>
         pc[r] \in {"compensate", "refund", "failed", "aborted"}
    /\ \A i \in DOMAIN successes[r] :
         i <= at[r].undone /\ successes[r][i].provider \in Refundable \ (FlakyRefunds \cup {Wallet})
            => Did("refund", successes[r][i].ref)
    /\ pc[r] = "refund" =>
         at[r].undone < Len(successes[r]) /\ ToRefund(r).provider = Wallet
    /\ pc[r] = "failed" => at[r].undone >= Len(successes[r])

\* A payment is about to succeed, or has, when every allocation is behind the loop and
\* what was recorded adds up.
SuccessIsComplete(r) ==
    pc[r] \in {"finalize", "succeeded"} =>
        /\ at[r].alloc > Len(Allocations(r))
        /\ SumAmounts(Successes(r)) = Total[OrderOf(r)]

Traced(r) ==
    /\ EndMatchesStatus(r) /\ LedgerExplained(r) /\ OneForEachAllocation(r)
    /\ SuccessesAreCharged(r) /\ ChargesWereMade(r) /\ RefundsFollowTheList(r)
    /\ SuccessIsComplete(r)

ChargeInv == \A r \in Requests : Traced(r)

-----------------------------------------------------------------------------
(* What a step leaves alone *)

\* What is read of the attempts and the counters of a request that keeps them.
LEMMA ReadsKept ==
    ASSUME NEW k \in Requests, cmd' = cmd, at'[k] = at[k],
           payment'[k].attempts = payment[k].attempts
    PROVE  /\ Charged(k)' = Charged(k) /\ Successes(k)' = Successes(k)
           /\ Allocations(k)' = Allocations(k) /\ OrderOf(k)' = OrderOf(k)
           /\ Provider(k)' = Provider(k) /\ ChargeRef(k)' = ChargeRef(k)
<1>1. Allocations(k)' = Allocations(k) /\ OrderOf(k)' = OrderOf(k)
  BY DEF Allocations, OrderOf
<1>2. Provider(k)' = Provider(k)
  BY <1>1 DEF Provider, Candidates
<1>3. Charged(k)' = Charged(k) /\ Successes(k)' = Successes(k)
  BY DEF Charged, Successes
<1> QED BY <1>1, <1>2, <1>3 DEF ChargeRef

\* A request nothing was done for stays as it was, whatever others do.
LEMMA OthersTraced ==
    ASSUME NEW k \in Requests, Traced(k), cmd' = cmd, at'[k] = at[k], pc'[k] = pc[k],
           payment'[k] = payment[k], successes'[k] = successes[k],
           ledger \subseteq ledger', \A e \in ledger' \ ledger : e[2][1] # k
    PROVE  Traced(k)'
<1>1. /\ Charged(k)' = Charged(k) /\ Successes(k)' = Successes(k)
      /\ Allocations(k)' = Allocations(k) /\ OrderOf(k)' = OrderOf(k)
      /\ Provider(k)' = Provider(k) /\ ChargeRef(k)' = ChargeRef(k)
  BY ReadsKept
<1>2. Mine(k)' = Mine(k)
  BY DEF Mine
<1>3. EndMatchesStatus(k)'
  BY DEF Traced, EndMatchesStatus
<1>4. LedgerExplained(k)'
  BY <1>1, <1>2 DEF Traced, LedgerExplained, Persisted, External
<1>5. OneForEachAllocation(k)'
  BY <1>1 DEF Traced, OneForEachAllocation
<1>6. SuccessesAreCharged(k)'
  BY <1>1 DEF Traced, SuccessesAreCharged
<1>7. ChargesWereMade(k)'
  BY <1>1 DEF Traced, ChargesWereMade, Did, External
<1>8. RefundsFollowTheList(k)'
  BY <1>1, <1>2 DEF Traced, RefundsFollowTheList, Did, ToRefund
<1>9. SuccessIsComplete(k)'
  BY <1>1 DEF Traced, SuccessIsComplete
<1> QED BY <1>3, <1>4, <1>5, <1>6, <1>7, <1>8, <1>9 DEF Traced

\* The ledgers only grow, by what the request that makes the step asked for.
LEMMA LedgerMoves ==
    ASSUME TypeInv, NEW r \in Requests, Traced(r), RequestStep(r)
    PROVE  /\ ledger \subseteq ledger' /\ \A e \in ledger' \ ledger : e[2][1] = r
           /\ \A k \in Requests \ {r} : successes'[k] = successes[k]
<1>1. CASE ChargeExternal(r)
  BY <1>1 DEF ChargeExternal, ChargeRef
<1>2. CASE RefundExternal(r)
  <2>1. at[r].undone + 1 \in DOMAIN successes[r]
    BY <1>2 DEF RefundExternal, Refunding, TypeInv, TypeOK, Counters
  <2>2. ToRefund(r).ref[1] = r
    BY <2>1 DEF ToRefund, Traced, SuccessesAreCharged, OneForEachAllocation
  <2> QED BY <1>2, <2>2 DEF RefundExternal
<1>3. CASE RecordAttempt(r)
  BY <1>3 DEF RecordAttempt, TypeInv, TypeOK
<1>4. CASE \/ Receive(r) \/ Lookup(r) \/ ReadOrder(r) \/ ClaimRefused(r) \/ Claim(r)
           \/ SkipProvider(r) \/ ChargeWallet(r) \/ SaveDebit(r) \/ FinalizeSuccess(r)
           \/ RefundSkipped(r) \/ RefundWallet(r) \/ SaveRefund(r) \/ FinalizeFailed(r)
           \/ Abort(r)
  BY <1>4 DEF Receive, Lookup, ReadOrder, ClaimRefused, Claim, SkipProvider, ChargeWallet,
     SaveDebit, FinalizeSuccess, RefundSkipped, RefundWallet, SaveRefund, FinalizeFailed, Abort
<1> QED BY <1>1, <1>2, <1>3, <1>4 DEF RequestStep, Execute

-----------------------------------------------------------------------------
(* The steps that charge, record and refund nothing *)

Quiet(r) ==
    \/ Receive(r) \/ Lookup(r) \/ ReadOrder(r) \/ ClaimRefused(r) \/ Claim(r)
    \/ ChargeWallet(r) \/ SaveDebit(r) \/ FinalizeSuccess(r)
    \/ RefundWallet(r) \/ FinalizeFailed(r) \/ Abort(r)

AfterLoop == {"compensate", "refund", "failed", "aborted"}

\* Where such a step takes its request, as far as charges and refunds go.
QuietMove(r) ==
    /\ UNCHANGED <<ledger, at, successes, cmd>>
    /\ payment'[r].attempts = payment[r].attempts /\ (Persisted(r) => Persisted(r)')
    /\ pc[r] \in {"charged", "aborted"} => pc'[r] = "aborted"
    /\ pc[r] \in AfterLoop => pc'[r] \in AfterLoop
    /\ pc'[r] = "charged" => pc[r] = "debit"
    /\ pc'[r] = "debit" => Provider(r) = Wallet
    /\ pc'[r] \in InLoop => pc[r] \in InLoop \cup {"claim"}
    /\ pc'[r] = "refund" => Refunding(r) /\ ToRefund(r).provider = Wallet
    /\ pc'[r] = "failed" => pc[r] = "compensate" /\ ~ Refunding(r)
    /\ pc'[r] \in {"finalize", "succeeded"} => pc[r] = "finalize"
    /\ pc'[r] \in Refused => payment'[r].status = "none"
    /\ payment'[r].status \in {"succeeded", "failed"} => pc'[r] = payment'[r].status

LEMMA QuietMoves ==
    ASSUME TypeInv, PaymentInv, NEW r \in Requests, Traced(r), Quiet(r)
    PROVE  QuietMove(r)
<1> USE DEF QuietMove, TypeInv, TypeOK, AfterLoop, InLoop, Refused, Ended, Running, Persisted,
            BeforeClaim, Charging, PaymentInv, StatusMatchesPc
<1>1. CASE Receive(r)
  BY <1>1 DEF Receive, Goto, database
<1>2. CASE Lookup(r)
  BY <1>2 DEF Lookup, Goto, database
<1>3. CASE ReadOrder(r)
  BY <1>3, VerdictIs DEF ReadOrder, Goto, database
<1>4. CASE ClaimRefused(r)
  BY <1>4 DEF ClaimRefused, Goto, database
<1>5. CASE Claim(r)
  <2>1. at[r].alloc = 1 /\ Len(Allocations(r)) >= 1
    <3>1. Allocations(r) \in Seq(Allocation) /\ Allocations(r) # <<>>
      BY <1>5, CommandTyped DEF Claim, BodyAccepted, WellFormed
    <3> QED BY <1>5, <3>1 DEF Claim, CountersFresh
  <2>2. Stage(r, <<>>, 1, 1) \in {"charge", "compensate"}
    BY <2>1, StageIs DEF Stage
  <2> QED BY <1>5, <2>2 DEF Claim, Goto, Initiate
<1>6. CASE ChargeWallet(r)
  BY <1>6 DEF ChargeWallet, Goto, database
<1>7. CASE SaveDebit(r)
  BY <1>7 DEF SaveDebit, Goto, database
<1>8. CASE FinalizeSuccess(r)
  BY <1>8 DEF FinalizeSuccess, Goto, MarkSucceeded
<1>9. CASE RefundWallet(r)
  BY <1>9 DEF RefundWallet, Refunding, Goto, database
<1>10. CASE FinalizeFailed(r)
  BY <1>10 DEF FinalizeFailed, Refunding, Goto, MarkFailed
<1>11. CASE Abort(r)
  BY <1>11 DEF Abort, Goto, database, Traced, EndMatchesStatus
<1> QED BY <1>1, <1>2, <1>3, <1>4, <1>5, <1>6, <1>7, <1>8, <1>9, <1>10, <1>11 DEF Quiet

LEMMA QuietKeepsTraced ==
    ASSUME TypeInv, PaymentInv, NEW r \in Requests, Traced(r), QuietMove(r)
    PROVE  Traced(r)'
<1>1. /\ Charged(r)' = Charged(r) /\ Successes(r)' = Successes(r)
      /\ Allocations(r)' = Allocations(r) /\ OrderOf(r)' = OrderOf(r)
      /\ Provider(r)' = Provider(r) /\ ChargeRef(r)' = ChargeRef(r)
  BY ReadsKept DEF QuietMove
<1>2. Mine(r)' = Mine(r) /\ ToRefund(r)' = ToRefund(r)
  BY DEF Mine, QuietMove, ToRefund
<1>3. EndMatchesStatus(r)'
  BY DEF QuietMove, EndMatchesStatus
<1>4. LedgerExplained(r)'
  BY <1>1, <1>2 DEF Traced, LedgerExplained, QuietMove, External
<1>5. OneForEachAllocation(r)' /\ SuccessesAreCharged(r)'
  BY <1>1 DEF Traced, OneForEachAllocation, SuccessesAreCharged, QuietMove
<1>6. ChargesWereMade(r)'
  BY <1>1 DEF Traced, ChargesWereMade, Did, External, QuietMove
<1>7. RefundsFollowTheList(r)'
  <2>1. at[r].undone \in Nat /\ Len(successes[r]) \in Nat
    BY DEF TypeInv, TypeOK, Counters
  <2>2. pc'[r] \in InLoop => at'[r].undone = 0
    BY DEF QuietMove, Traced, RefundsFollowTheList, TypeInv, CountersFresh, BeforeClaim
  <2>3. \A e \in Mine(r)' : e[1] = "refund" => pc'[r] \in AfterLoop
    BY <1>2 DEF QuietMove, Traced, RefundsFollowTheList, AfterLoop
  <2>4. \A i \in DOMAIN successes'[r] :
          i <= at'[r].undone
          /\ successes'[r][i].provider \in Refundable \ (FlakyRefunds \cup {Wallet})
            => <<"refund", successes'[r][i].ref>> \in ledger'
    BY DEF QuietMove, Traced, RefundsFollowTheList, Did
  <2>5. pc'[r] = "refund" =>
          at'[r].undone < Len(successes'[r]) /\ ToRefund(r)'.provider = Wallet
    BY <1>2 DEF QuietMove, Refunding
  <2>6. pc'[r] = "failed" => at'[r].undone >= Len(successes'[r])
    BY <2>1 DEF QuietMove, Refunding
  <2> QED BY <2>2, <2>3, <2>4, <2>5, <2>6 DEF RefundsFollowTheList, AfterLoop, Did
<1>8. SuccessIsComplete(r)'
  BY <1>1 DEF Traced, SuccessIsComplete, QuietMove
<1> QED BY <1>3, <1>4, <1>5, <1>6, <1>7, <1>8 DEF Traced
-----------------------------------------------------------------------------
(* A charge of an external provider *)

LEMMA ChargeKeepsTraced ==
    ASSUME TypeInv, PaymentInv, NEW r \in Requests, Traced(r), ChargeExternal(r)
    PROVE  Traced(r)'
<1>1. /\ UNCHANGED <<at, successes, cmd, payment>> /\ pc[r] = "charge"
      /\ Provider(r) # Wallet /\ Persisted(r) /\ Persisted(r)'
      /\ \/ pc'[r] = "charged" /\ ledger' = ledger \cup {<<"charge", ChargeRef(r)>>}
         \/ pc'[r] = "declined" /\ ledger' = ledger
  BY DEF ChargeExternal, Goto, database, TypeInv, TypeOK, PaymentInv, StatusMatchesPc, Charging,
     InLoop, Persisted
<1>2. /\ Charged(r)' = Charged(r) /\ Successes(r)' = Successes(r)
      /\ Provider(r)' = Provider(r) /\ ChargeRef(r)' = ChargeRef(r)
  BY <1>1, ReadsKept
<1>3. EndMatchesStatus(r)'
  BY <1>1 DEF EndMatchesStatus, Refused, PaymentInv, StatusMatchesPc, Charging, InLoop
<1>4. LedgerExplained(r)'
  BY <1>1, <1>2 DEF Traced, LedgerExplained, Mine, External, ChargeRef
<1>5. OneForEachAllocation(r)' /\ SuccessesAreCharged(r)'
  BY <1>1, <1>2 DEF Traced, OneForEachAllocation, SuccessesAreCharged
<1>6. ChargesWereMade(r)'
  BY <1>1, <1>2 DEF Traced, ChargesWereMade, Did, External
<1>7. RefundsFollowTheList(r)'
  BY <1>1 DEF Traced, RefundsFollowTheList, Mine, Did, InLoop
<1>8. SuccessIsComplete(r)'
  BY <1>1 DEF SuccessIsComplete
<1> QED BY <1>3, <1>4, <1>5, <1>6, <1>7, <1>8 DEF Traced

-----------------------------------------------------------------------------
(* A provider that is skipped and an attempt that is recorded *)

\* Where the loop goes, and that it ends well only with all it was asked to charge.
LEMMA GoOnMoves ==
    ASSUME TypeInv, NEW r \in Requests, NEW attempts, GoOn(r, attempts)
    PROVE  /\ at' = [at EXCEPT ![r] = Advance(r)] /\ at'[r] = Advance(r)
           /\ pc'[r] \in {"charge", "finalize", "compensate"}
           /\ pc'[r] = "finalize" =>
                /\ Advance(r).alloc > Len(Allocations(r))
                /\ SumAmounts(Successful(attempts)) = Total[OrderOf(r)]
BY StageIs DEF GoOn, Goto, Stage, TypeInv, TypeOK

\* The allocation changes with a charge only, and no refund is counted in the loops.
LEMMA AdvanceIs ==
    ASSUME at \in [Requests -> Counters], NEW r \in Requests
    PROVE  /\ Advance(r).alloc = IF pc[r] = "charged" THEN at[r].alloc + 1 ELSE at[r].alloc
           /\ Advance(r).undone = IF pc[r] = "charged" THEN 0 ELSE at[r].undone
<1>1. at[r] \in [alloc : Nat \ {0}, cand : Nat \ {0}, undone : Nat]
  BY DEF Counters
<1> QED BY <1>1 DEF Advance

LEMMA SkipKeepsTraced ==
    ASSUME TypeInv, PaymentInv, NEW r \in Requests, Traced(r), SkipProvider(r)
    PROVE  Traced(r)'
<1>1. /\ UNCHANGED <<ledger, successes, cmd, payment>> /\ pc[r] = "charge"
      /\ GoOn(r, payment[r].attempts)
  BY DEF SkipProvider, database
<1>2. /\ at'[r].alloc = at[r].alloc /\ at'[r].undone = at[r].undone
      /\ pc'[r] \in {"charge", "finalize", "compensate"}
      /\ pc'[r] = "finalize" =>
           /\ at'[r].alloc > Len(Allocations(r))
           /\ SumAmounts(Successes(r)) = Total[OrderOf(r)]
  BY <1>1, GoOnMoves, AdvanceIs DEF TypeInv, TypeOK, Successes
<1>3. /\ Charged(r)' = Charged(r) /\ Successes(r)' = Successes(r) /\ Mine(r)' = Mine(r)
      /\ Allocations(r)' = Allocations(r) /\ OrderOf(r)' = OrderOf(r)
  BY <1>1 DEF Charged, Successes, Mine, Allocations, OrderOf
<1>4. EndMatchesStatus(r)'
  BY <1>1, <1>2 DEF EndMatchesStatus, Refused, PaymentInv, StatusMatchesPc, Charging, InLoop
<1>5. LedgerExplained(r)'
  BY <1>1, <1>2, <1>3 DEF Traced, LedgerExplained, External, Persisted
<1>6. OneForEachAllocation(r)' /\ SuccessesAreCharged(r)'
  BY <1>1, <1>2, <1>3 DEF Traced, OneForEachAllocation, SuccessesAreCharged
<1>7. ChargesWereMade(r)'
  BY <1>1, <1>2, <1>3 DEF Traced, ChargesWereMade, Did, External
<1>8. RefundsFollowTheList(r)'
  BY <1>1, <1>2, <1>3 DEF Traced, RefundsFollowTheList, Did, InLoop
<1>9. SuccessIsComplete(r)'
  BY <1>2, <1>3 DEF SuccessIsComplete
<1> QED BY <1>4, <1>5, <1>6, <1>7, <1>8, <1>9 DEF Traced

LEMMA AttemptTyped ==
    ASSUME TypeInv, NEW r \in Requests, pc[r] \in {"charged", "declined"}
    PROVE  NewAttempt(r) \in Attempt /\ NewCharge(r) \in Charge
<1>1. Amount(r) \in Nat /\ Provider(r) \in Providers
  BY LoopTyped DEF TypeInv, CountersInRange, InLoop
<1>2. ChargeRef(r) \in Ref
  BY <1>1 DEF TypeInv, TypeOK, ChargeRef, Ref, Counters
<1> QED BY <1>1, <1>2 DEF NewAttempt, NewCharge, Attempt, Charge

\* The references of the attempts among S that charged, and one attempt more.
LEMMA OneMoreAttempt ==
    ASSUME NEW S, NEW attempt
    PROVE  /\ attempt.ok =>
                {a.ref : a \in {b \in S \cup {attempt} : b.ok}}
                    = {a.ref : a \in {b \in S : b.ok}} \cup {attempt.ref}
           /\ ~ attempt.ok =>
                {a.ref : a \in {b \in S \cup {attempt} : b.ok}}
                    = {a.ref : a \in {b \in S : b.ok}}
<1>1. ASSUME attempt.ok
      PROVE  {b \in S \cup {attempt} : b.ok} = {b \in S : b.ok} \cup {attempt}
  BY <1>1
<1>2. ASSUME ~ attempt.ok
      PROVE  {b \in S \cup {attempt} : b.ok} = {b \in S : b.ok}
  BY <1>2
<1> QED BY <1>1, <1>2

\* Recording an attempt adds its reference to the charges if it was one.
LEMMA RecordMoves ==
    ASSUME TypeInv, NEW r \in Requests, RecordAttempt(r)
    PROVE  /\ UNCHANGED <<ledger, cmd>> /\ payment'[r].status = payment[r].status
           /\ GoOn(r, payment'[r].attempts)
           /\ pc[r] = "charged" =>
                /\ Charged(r)' = Charged(r) \cup {ChargeRef(r)}
                /\ successes'[r] = Append(successes[r], NewCharge(r))
           /\ pc[r] # "charged" =>
                Charged(r)' = Charged(r) /\ successes'[r] = successes[r]
<1> USE DEF TypeInv, TypeOK
<1>1. /\ UNCHANGED <<ledger, cmd>> /\ payment'[r].status = payment[r].status
      /\ payment'[r].attempts = Append(payment[r].attempts, NewAttempt(r))
      /\ GoOn(r, payment'[r].attempts)
      /\ successes'[r] = IF pc[r] = "charged" THEN Append(successes[r], NewCharge(r))
                         ELSE successes[r]
  BY DEF RecordAttempt, Attempts
<1>2. payment[r].attempts \in Seq(Attempt) /\ NewAttempt(r) \in Attempt
  BY AttemptTyped DEF RecordAttempt
<1>3. Range(payment'[r].attempts) = Range(payment[r].attempts) \cup {NewAttempt(r)}
  <2> DEFINE s == payment[r].attempts
  <2>1. /\ DOMAIN payment'[r].attempts = DOMAIN s \cup {Len(s) + 1}
        /\ \A i \in DOMAIN s : payment'[r].attempts[i] = s[i]
        /\ payment'[r].attempts[Len(s) + 1] = NewAttempt(r)
    BY <1>1, <1>2
  <2> QED BY <2>1 DEF Range
<1>4. NewAttempt(r).ok = (pc[r] = "charged") /\ NewAttempt(r).ref = ChargeRef(r)
  BY DEF NewAttempt
<1>5. Charged(r)' = {a.ref : a \in {b \in Range(payment[r].attempts) \cup {NewAttempt(r)} : b.ok}}
  BY <1>3 DEF Charged, Range
<1>6. Charged(r)' = IF pc[r] = "charged" THEN Charged(r) \cup {ChargeRef(r)} ELSE Charged(r)
  <2>1. Charged(r) = {a.ref : a \in {b \in Range(payment[r].attempts) : b.ok}}
    BY DEF Charged
  <2>2. CASE pc[r] = "charged"
    BY ONLY <1>4, <1>5, <2>1, <2>2, OneMoreAttempt
  <2>3. CASE pc[r] # "charged"
    BY ONLY <1>4, <1>5, <2>1, <2>3, OneMoreAttempt
  <2> QED BY <2>2, <2>3
<1> QED BY <1>1, <1>6

LEMMA RecordKeepsTraced ==
    ASSUME TypeInv, PaymentInv, NEW r \in Requests, Traced(r), RecordAttempt(r)
    PROVE  Traced(r)'
<1>1. /\ UNCHANGED <<ledger, cmd>> /\ payment'[r].status = payment[r].status
      /\ pc[r] \in {"charged", "declined"} /\ payment[r].status = "initiated"
      /\ GoOn(r, payment'[r].attempts)
  BY RecordMoves DEF RecordAttempt, PaymentInv, StatusMatchesPc, Charging, InLoop
<1>2. /\ pc'[r] \in {"charge", "finalize", "compensate"}
      /\ at[r].undone = 0 /\ at'[r].undone = 0
      /\ at'[r].alloc = IF pc[r] = "charged" THEN at[r].alloc + 1 ELSE at[r].alloc
      /\ pc'[r] = "finalize" =>
           /\ at'[r].alloc > Len(Allocations(r))
           /\ SumAmounts(Successful(payment'[r].attempts)) = Total[OrderOf(r)]
  <2>1. at[r].undone = 0
    BY <1>1 DEF Traced, RefundsFollowTheList, InLoop
  <2>2. at'[r] = Advance(r)
    BY <1>1, GoOnMoves
  <2>3. Advance(r).undone = 0
    BY <2>1, AdvanceIs DEF TypeInv, TypeOK
  <2> QED BY <1>1, <2>1, <2>2, <2>3, GoOnMoves, AdvanceIs DEF TypeInv, TypeOK
<1>3. /\ Mine(r)' = Mine(r) /\ Allocations(r)' = Allocations(r) /\ OrderOf(r)' = OrderOf(r)
      /\ Successes(r)' = Successful(payment'[r].attempts)
      /\ Persisted(r) /\ Persisted(r)' /\ at[r].alloc \in Nat \ {0}
      /\ successes[r] \in Seq(Charge) /\ NewCharge(r) \in Charge
  BY <1>1, AttemptTyped DEF Mine, Allocations, OrderOf, Successes, Persisted, TypeInv, TypeOK,
     Counters
<1>4. /\ ChargeRef(r)[1] = r /\ ChargeRef(r)[2] = at[r].alloc /\ ChargeRef(r)[3] = Provider(r)
      /\ NewCharge(r).ref = ChargeRef(r) /\ NewCharge(r).provider = Provider(r)
  BY DEF ChargeRef, NewCharge
<1>5. /\ pc[r] = "charged" =>
           /\ Charged(r)' = Charged(r) \cup {ChargeRef(r)}
           /\ successes'[r] = Append(successes[r], NewCharge(r))
      /\ pc[r] # "charged" => Charged(r)' = Charged(r) /\ successes'[r] = successes[r]
  BY RecordMoves
<1>6. EndMatchesStatus(r)'
  BY <1>1, <1>2 DEF EndMatchesStatus, Refused
<1>7. LedgerExplained(r)'
  BY <1>1, <1>3, <1>5 DEF Traced, LedgerExplained, External
<1>8. OneForEachAllocation(r)'
  <2>1. CASE pc[r] = "charged"
    <3>1. /\ at'[r].alloc = at[r].alloc + 1 /\ at[r].alloc \in Nat \ {0}
          /\ Charged(r)' = Charged(r) \cup {ChargeRef(r)}
      BY <1>2, <1>3, <1>5, <2>1
    <3>2. 1 .. at'[r].alloc - 1 = (1 .. at[r].alloc - 1) \cup {at[r].alloc}
      BY <3>1
    <3>3. \A ref \in Charged(r) : ref[2] # at[r].alloc
      BY <3>1 DEF Traced, OneForEachAllocation
    <3> QED BY <1>4, <3>1, <3>2, <3>3 DEF Traced, OneForEachAllocation
  <2>2. CASE pc[r] # "charged"
    BY <1>2, <1>5, <2>2 DEF Traced, OneForEachAllocation
  <2> QED BY <2>1, <2>2
<1>9. SuccessesAreCharged(r)'
  <2>1. CASE pc[r] = "charged"
    <3>1. /\ DOMAIN successes'[r] = DOMAIN successes[r] \cup {Len(successes[r]) + 1}
          /\ \A i \in DOMAIN successes[r] : successes'[r][i] = successes[r][i]
          /\ successes'[r][Len(successes[r]) + 1] = NewCharge(r)
      BY <1>3, <1>5, <2>1
    <3> QED BY <1>4, <1>5, <2>1, <3>1 DEF Traced, SuccessesAreCharged
  <2>2. CASE pc[r] # "charged"
    BY <1>5, <2>2 DEF Traced, SuccessesAreCharged
  <2> QED BY <2>1, <2>2
<1>10. ChargesWereMade(r)'
  BY <1>1, <1>2, <1>4, <1>5 DEF Traced, ChargesWereMade, Did, External
<1>11. RefundsFollowTheList(r)'
  <2>1. \A e \in Mine(r) : e[1] # "refund"
    BY <1>1 DEF Traced, RefundsFollowTheList
  <2>2. \A i \in DOMAIN successes'[r] : ~ (i <= 0)
    BY <1>3, <1>5
  <2> QED BY <1>2, <1>3, <2>1, <2>2 DEF RefundsFollowTheList, InLoop
<1>12. SuccessIsComplete(r)'
  BY <1>2, <1>3 DEF SuccessIsComplete
<1> QED BY <1>6, <1>7, <1>8, <1>9, <1>10, <1>11, <1>12 DEF Traced

-----------------------------------------------------------------------------
(* A refund that is made, skipped or failed *)

RefundStep(r) == RefundSkipped(r) \/ RefundExternal(r) \/ SaveRefund(r)

\* compensate() goes on to the next charge when what can be done for one is done.
LEMMA RefundMoves ==
    ASSUME TypeInv, NEW r \in Requests, Traced(r), RefundStep(r)
    PROVE  /\ UNCHANGED <<cmd, payment, successes>>
           /\ pc[r] \in {"compensate", "refund"} /\ pc'[r] = "compensate"
           /\ at[r].undone < Len(successes[r])
           /\ at'[r] = [at[r] EXCEPT !.undone = @ + 1]
           /\ \/ ledger' = ledger
              \/ /\ ledger' = ledger \cup {<<"refund", ToRefund(r).ref>>}
                 /\ ToRefund(r).provider # Wallet
           /\ ToRefund(r).provider \in Refundable \ (FlakyRefunds \cup {Wallet}) =>
                <<"refund", ToRefund(r).ref>> \in ledger'
<1> USE DEF TypeInv, TypeOK, RefundedOne, Refunding, database, Goto
<1>1. CASE RefundSkipped(r)
  BY <1>1 DEF RefundSkipped
<1>2. CASE RefundExternal(r)
  BY <1>2 DEF RefundExternal
<1>3. CASE SaveRefund(r)
  BY <1>3 DEF SaveRefund, Traced, RefundsFollowTheList
<1> QED BY <1>1, <1>2, <1>3 DEF RefundStep

LEMMA RefundKeepsTraced ==
    ASSUME TypeInv, PaymentInv, NEW r \in Requests, Traced(r), RefundStep(r)
    PROVE  Traced(r)'
<1>1. /\ UNCHANGED <<cmd, payment, successes>>
      /\ pc[r] \in {"compensate", "refund"} /\ pc'[r] = "compensate"
      /\ at'[r].undone = at[r].undone + 1 /\ at'[r].alloc = at[r].alloc
      /\ at[r].undone \in Nat /\ at[r].undone < Len(successes[r])
  <2>1. at[r] \in [alloc : Nat \ {0}, cand : Nat \ {0}, undone : Nat]
    BY DEF TypeInv, TypeOK, Counters
  <2>2. /\ at'[r].undone = at[r].undone + 1 /\ at'[r].alloc = at[r].alloc
        /\ at[r].undone \in Nat
    <3>1. at'[r] = [at[r] EXCEPT !.undone = @ + 1]
      BY RefundMoves
    <3> QED BY <2>1, <3>1
  <2> QED BY <2>2, RefundMoves
<1>2. at[r].undone + 1 \in DOMAIN successes[r] /\ Len(successes[r]) \in Nat
  BY <1>1 DEF TypeInv, TypeOK
<1>3. /\ ToRefund(r).ref \in Charged(r) /\ ToRefund(r).ref[1] = r
      /\ ToRefund(r).ref[3] = ToRefund(r).provider
  BY <1>2 DEF ToRefund, Traced, SuccessesAreCharged, OneForEachAllocation
<1>4. /\ Charged(r)' = Charged(r) /\ payment[r].status = "initiated"
      /\ Persisted(r) /\ Persisted(r)'
  BY <1>1 DEF Charged, PaymentInv, StatusMatchesPc, Charging, Persisted
<1>5. /\ \/ ledger' = ledger
         \/ /\ ledger' = ledger \cup {<<"refund", ToRefund(r).ref>>}
            /\ ToRefund(r).provider # Wallet
      /\ ToRefund(r).provider \in Refundable \ (FlakyRefunds \cup {Wallet}) =>
           <<"refund", ToRefund(r).ref>> \in ledger'
  BY RefundMoves
<1>6. EndMatchesStatus(r)'
  BY <1>1, <1>4 DEF EndMatchesStatus, Refused
<1>7. LedgerExplained(r)'
  <2>1. \A e \in Mine(r) : e[2] \in Charged(r) /\ External(e[2])
    BY <1>1 DEF Traced, LedgerExplained
  <2>2. \A e \in Mine(r)' : e[2] \in Charged(r) /\ e[2][3] # Wallet
    BY <1>3, <1>5, <2>1 DEF Mine, External
  <2> QED BY <1>4, <2>2 DEF LedgerExplained, External
<1>8. OneForEachAllocation(r)' /\ SuccessesAreCharged(r)'
  BY <1>1, <1>4 DEF Traced, OneForEachAllocation, SuccessesAreCharged
<1>9. ChargesWereMade(r)'
  BY <1>1, <1>4, <1>5 DEF Traced, ChargesWereMade, Did, External
<1>10. RefundsFollowTheList(r)'
  <2>1. \A i \in DOMAIN successes[r] :
          i <= at[r].undone + 1
          /\ successes[r][i].provider \in Refundable \ (FlakyRefunds \cup {Wallet})
            => <<"refund", successes[r][i].ref>> \in ledger'
    <3>1. ASSUME NEW i \in DOMAIN successes[r], i <= at[r].undone,
                 successes[r][i].provider \in Refundable \ (FlakyRefunds \cup {Wallet})
          PROVE  <<"refund", successes[r][i].ref>> \in ledger'
      BY <1>5, <3>1 DEF Traced, RefundsFollowTheList, Did
    <3>2. \A i \in DOMAIN successes[r] : i <= at[r].undone + 1 =>
            i <= at[r].undone \/ i = at[r].undone + 1
      <4>1. DOMAIN successes[r] \subseteq Nat
        BY DEF TypeInv, TypeOK
      <4> QED BY <1>1, <4>1
    <3> QED BY <1>5, <3>1, <3>2 DEF ToRefund
  <2> QED BY <1>1, <2>1 DEF RefundsFollowTheList, InLoop, Did
<1>11. SuccessIsComplete(r)'
  BY <1>1 DEF SuccessIsComplete
<1> QED BY <1>6, <1>7, <1>8, <1>9, <1>10, <1>11 DEF Traced
-----------------------------------------------------------------------------
(* The invariant of all requests *)

LEMMA RequestKeepsChargeInv ==
    ASSUME TypeInv, PaymentInv, ChargeInv, NEW r \in Requests, RequestStep(r)
    PROVE  ChargeInv'
<1>1. Traced(r)
  BY DEF ChargeInv
<1>2. ASSUME NEW k \in Requests, k # r PROVE Traced(k)'
  <2>1. cmd' = cmd /\ at'[k] = at[k] /\ pc'[k] = pc[k]
    BY <1>2, RequestMoves DEF TypeInv, TypeOK, Labels
  <2>2. payment'[k] = payment[k]
    BY <1>2, StatusMoves DEF TypeInv
  <2>3. /\ ledger \subseteq ledger' /\ \A e \in ledger' \ ledger : e[2][1] # k
        /\ successes'[k] = successes[k]
    BY <1>1, <1>2, LedgerMoves
  <2> QED BY <2>1, <2>2, <2>3, OthersTraced DEF ChargeInv
<1>3. Traced(r)'
  <2>1. CASE ChargeExternal(r)
    BY <1>1, <2>1, ChargeKeepsTraced
  <2>2. CASE SkipProvider(r)
    BY <1>1, <2>2, SkipKeepsTraced
  <2>3. CASE RecordAttempt(r)
    BY <1>1, <2>3, RecordKeepsTraced
  <2>4. CASE RefundStep(r)
    BY <1>1, <2>4, RefundKeepsTraced
  <2>5. CASE Quiet(r)
    BY <1>1, <2>5, QuietMoves, QuietKeepsTraced
  <2> QED BY <2>1, <2>2, <2>3, <2>4, <2>5 DEF RequestStep, Execute, Quiet, RefundStep
<1> QED BY <1>2, <1>3 DEF ChargeInv

LEMMA ChargeInvFrame ==
    ASSUME ChargeInv, UNCHANGED <<payment, ledger, cmd, pc, at, successes>>
    PROVE  ChargeInv'
BY OthersTraced DEF ChargeInv

LEMMA InitChargeInv == Init => ChargeInv
<1> SUFFICES ASSUME Init, NEW r \in Requests PROVE Traced(r)
  BY DEF ChargeInv
<1>1. /\ pc[r] = "idle" /\ at[r].alloc = 1 /\ at[r].undone = 0 /\ successes[r] = <<>>
      /\ payment[r].status = "none" /\ payment[r].attempts = <<>> /\ Mine(r) = {}
  BY DEF Init, Mine
<1>2. Charged(r) = {} /\ DOMAIN successes[r] = {}
  BY <1>1 DEF Charged, Range
<1>3. EndMatchesStatus(r) /\ LedgerExplained(r)
  BY <1>1 DEF EndMatchesStatus, LedgerExplained
<1>4. OneForEachAllocation(r) /\ SuccessesAreCharged(r)
  BY <1>1, <1>2 DEF OneForEachAllocation, SuccessesAreCharged
<1>5. ChargesWereMade(r) /\ RefundsFollowTheList(r) /\ SuccessIsComplete(r)
  BY <1>1, <1>2 DEF ChargesWereMade, RefundsFollowTheList, SuccessIsComplete
<1> QED BY <1>3, <1>4, <1>5 DEF Traced

LEMMA NextChargeInv == TypeInv /\ PaymentInv /\ ChargeInv /\ [Next]_vars => ChargeInv'
<1> SUFFICES ASSUME TypeInv, PaymentInv, ChargeInv, [Next]_vars PROVE ChargeInv'
  OBVIOUS
<1>1. CASE UNCHANGED vars
  BY <1>1, ChargeInvFrame DEF vars
<1>2. CASE Next
  <2>1. ASSUME NEW r \in Requests, Receive(r) \/ Execute(r) \/ Abort(r) PROVE ChargeInv'
    BY <2>1, RequestKeepsChargeInv DEF RequestStep
  <2>2. ASSUME NEW t \in TopUps, TopUp(t) PROVE ChargeInv'
    BY <2>2, ChargeInvFrame DEF TopUp, TopUpRead, TopUpConnect, TopUpSave, database, process
  <2>3. ASSUME NEW p \in Requests, NEW d \in Deliveries, Handle(p, d) PROVE ChargeInv'
    BY <2>3, ChargeInvFrame DEF Handle, HandlerRead, HandlerFails, SettlePaid, SettleThrows,
       SettleFailed, database, process, SaveStatus
  <2>4. CASE AllOver
    BY <1>1, <2>4 DEF AllOver
  <2> QED BY <1>2, <2>1, <2>2, <2>3, <2>4 DEF Next
<1> QED BY <1>1, <1>2

LEMMA ChargeInvHolds == Spec => []ChargeInv
<1> QED BY InitChargeInv, NextChargeInv, TypeInvHolds, PaymentInvHolds, PTL DEF Spec

-----------------------------------------------------------------------------
(* What follows *)

\* An entry of the ledgers is that of a request.
LEMMA EntryOfRequest ==
    ASSUME TypeOK, NEW e \in ledger
    PROVE  e[2][1] \in Requests /\ e \in Mine(e[2][1])
BY DEF TypeOK, Ref, Mine

\* Between any two steps, and after any crash, the only external charge the database
\* does not know of is the one of the attempt that was being recorded: what an
\* operator has to look for after a crash is one reference per stopped request.
THEOREM OnlyTheAttemptIsUnknown == Spec => []OnlyTheAttemptIsAtRisk
<1>1. TypeInv /\ ChargeInv => OnlyTheAttemptIsAtRisk
  <2> SUFFICES ASSUME TypeInv, ChargeInv, NEW e \in ledger
               PROVE  \/ e[2] \in Charged(e[2][1])
                      \/ /\ e[1] = "charge"
                         /\ pc[e[2][1]] \in {"charged", "aborted"}
                         /\ e[2] = ChargeRef(e[2][1])
    BY DEF OnlyTheAttemptIsAtRisk
  <2> QED BY EntryOfRequest DEF TypeInv, ChargeInv, Traced, LedgerExplained
<1> QED BY <1>1, TypeInvHolds, ChargeInvHolds, PTL

\* Whatever the chain repeats, declines or skips, and whatever is stopped, no allocation of a
\* request is charged by two providers, the wallet among them, or twice by one: no
\* provider is called for an allocation that was charged.
THEOREM ChargedOncePerAllocation == Spec => []OneChargePerAllocation
<1>1. TypeInv /\ ChargeInv => OneChargePerAllocation
  <2> SUFFICES ASSUME TypeInv, ChargeInv, NEW r \in Requests, NEW i \in DOMAIN Allocations(r)
               PROVE  /\ \A ref, other \in ChargedFor(r, i) : ref = other
                      /\ pc[r] = "charge" /\ at[r].alloc = i => ChargedFor(r, i) = {}
    BY DEF OneChargePerAllocation
  <2>1. Traced(r) /\ at[r].alloc \in Nat
    BY DEF TypeInv, TypeOK, ChargeInv, Counters
  <2>2. ASSUME NEW ref \in ChargedFor(r, i)
        PROVE  /\ ref[2] = i
               /\ ref \in Charged(r) \/ (pc[r] \in {"charged", "aborted"} /\ ref = ChargeRef(r))
    <3>1. ref[1] = r /\ ref[2] = i /\ (ref \in Charged(r) \/ \E e \in ledger : e[2] = ref)
      BY <2>2 DEF ChargedFor
    <3> QED BY <2>1, <3>1 DEF Mine, Traced, LedgerExplained
  <2>3. ChargeRef(r)[2] = at[r].alloc /\ \A ref \in Charged(r) : ref[2] # at[r].alloc
    BY <2>1 DEF ChargeRef, Traced, OneForEachAllocation
  <2>4. \A ref, other \in ChargedFor(r, i) : ref = other
    BY <2>1, <2>2, <2>3 DEF Traced, OneForEachAllocation
  <2>5. pc[r] = "charge" /\ at[r].alloc = i => ChargedFor(r, i) = {}
    BY <2>2, <2>3
  <2> QED BY <2>4, <2>5
<1> QED BY <1>1, TypeInvHolds, ChargeInvHolds, PTL

\* What the client is told was paid was paid: in full, once for each allocation, the
\* external providers have it and none of it was given back.
THEOREM SuccessIsPaidInFull == Spec => []SucceededFullyCharged
<1>1. TypeInv /\ ChargeInv => SucceededFullyCharged
  <2> SUFFICES ASSUME TypeInv, ChargeInv, NEW p \in Requests,
                      payment[p].status = "succeeded"
               PROVE  /\ SumAmounts(Successes(p)) = Total[OrderOf(p)]
                      /\ \A i \in DOMAIN Allocations(p) :
                           Cardinality({ref \in Charged(p) : ref[2] = i}) = 1
                      /\ \A ref \in Charged(p) :
                           External(ref) => Did("charge", ref) /\ ~ Did("refund", ref)
    BY DEF SucceededFullyCharged
  <2>1. Traced(p) /\ pc[p] = "succeeded"
    BY DEF ChargeInv, Traced, EndMatchesStatus
  <2>2. SumAmounts(Successes(p)) = Total[OrderOf(p)] /\ at[p].alloc > Len(Allocations(p))
    BY <2>1 DEF Traced, SuccessIsComplete
  <2>3. ASSUME NEW i \in DOMAIN Allocations(p)
        PROVE  Cardinality({ref \in Charged(p) : ref[2] = i}) = 1
    <3>1. Allocations(p) \in Seq(Allocation) /\ at[p].alloc \in Nat
      BY CommandTyped DEF TypeInv, TypeOK, Counters
    <3>2. i \in 1 .. at[p].alloc - 1
      BY <2>2, <3>1
    <3>3. PICK ref \in Charged(p) : ref[2] = i
      BY <2>1, <3>2 DEF Traced, OneForEachAllocation
    <3>4. {other \in Charged(p) : other[2] = i} = {ref}
      BY <2>1, <3>3 DEF Traced, OneForEachAllocation
    <3> QED BY <3>4, FS_Singleton
  <2>4. ASSUME NEW ref \in Charged(p), External(ref)
        PROVE  Did("charge", ref) /\ ~ Did("refund", ref)
    <3>1. ref[1] = p /\ Did("charge", ref)
      BY <2>1, <2>4 DEF Traced, OneForEachAllocation, ChargesWereMade
    <3>2. <<"refund", ref>> \notin Mine(p)
      BY <2>1 DEF Traced, RefundsFollowTheList
    <3> QED BY <3>1, <3>2 DEF Did, Mine
  <2> QED BY <2>2, <2>3, <2>4
<1> QED BY <1>1, TypeInvHolds, ChargeInvHolds, PTL

\* What the client is told has failed was given back, at every provider that can.
THEOREM FailureIsRefunded == Spec => []FailedFullyRefunded
<1>1. TypeInv /\ ChargeInv => FailedFullyRefunded
  <2> SUFFICES ASSUME TypeInv, ChargeInv, NEW p \in Requests, payment[p].status = "failed",
                      NEW e \in ledger, e[2][1] = p, e[2][3] \in Refundable \ FlakyRefunds
               PROVE  Did("refund", e[2])
    BY DEF FailedFullyRefunded
  <2>1. Traced(p) /\ pc[p] = "failed" /\ e \in Mine(p)
    BY DEF ChargeInv, Traced, EndMatchesStatus, Mine
  <2>2. e[2] \in Charged(p) /\ e[2][3] # Wallet
    BY <2>1 DEF Traced, LedgerExplained, External
  <2>3. PICK i \in DOMAIN successes[p] : successes[p][i].ref = e[2]
    BY <2>1, <2>2 DEF Traced, SuccessesAreCharged
  <2>4. i <= at[p].undone
    <3>1. /\ successes[p] \in Seq(Charge) /\ at[p].undone \in Nat
          /\ at[p].undone >= Len(successes[p])
      BY <2>1 DEF TypeInv, TypeOK, Counters, Traced, RefundsFollowTheList
    <3> QED BY <2>3, <3>1
  <2>5. successes[p][i].provider = e[2][3]
    BY <2>1, <2>3 DEF Traced, SuccessesAreCharged
  <2> QED BY <2>1, <2>2, <2>3, <2>4, <2>5 DEF Traced, RefundsFollowTheList
<1> QED BY <1>1, TypeInvHolds, ChargeInvHolds, PTL

\* Of everywhere a request can be, only a refusal is answered with a 4xx.
LEMMA ClientErrorIsRefusal ==
    ASSUME NEW label \in Labels, ClientError(label)
    PROVE  label \in Refused
BY DEF Labels, Running, Ended, Refused, ClientError, StatusOf, DomainErrorStatus,
   HttpExceptionStatus, QueryErrorStatus

\* A 4xx is a promise: the refused request stored nothing, charged nothing anywhere and
\* has no event on its way.
THEOREM RefusalIsHarmless == Spec => []RefusalLeavesNothing
<1>1. TypeInv /\ ChargeInv => RefusalLeavesNothing
  <2> SUFFICES ASSUME TypeInv, ChargeInv, NEW r \in Requests, ClientError(pc[r])
               PROVE  /\ GetPayment(r).status = 404
                      /\ \A name \in EventName : <<name, r>> \notin outbox
                      /\ \A e \in ledger : e[2][1] # r
    BY DEF RefusalLeavesNothing
  <2>1. Traced(r) /\ pc[r] \in Refused
    BY ClientErrorIsRefusal DEF ChargeInv, TypeInv, TypeOK, Labels
  <2>2. ~ Persisted(r)
    BY <2>1 DEF Traced, EndMatchesStatus, Persisted
  <2>3. GetPayment(r).status = 404
    <3>1. StatusOf("NOT_FOUND") = 404
      <4>1. "NOT_FOUND" \notin DOMAIN DomainErrorStatus
        BY DEF DomainErrorStatus
      <4>2. "NOT_FOUND" \notin DOMAIN QueryErrorStatus
        BY DEF QueryErrorStatus
      <4>3. /\ "NOT_FOUND" \in DOMAIN HttpExceptionStatus
            /\ HttpExceptionStatus["NOT_FOUND"] = 404
        BY DEF HttpExceptionStatus
      <4> QED BY <4>1, <4>2, <4>3 DEF StatusOf
    <3> QED BY <2>2, <3>1 DEF GetPayment
  <2>4. \A name \in EventName : <<name, r>> \notin outbox
    BY <2>2 DEF TypeInv, RowsReferToRows
  <2>5. \A e \in ledger : e[2][1] # r
    BY <2>1, <2>2 DEF Traced, LedgerExplained, Mine
  <2> QED BY <2>3, <2>4, <2>5
<1> QED BY <1>1, TypeInvHolds, ChargeInvHolds, PTL
-----------------------------------------------------------------------------
(* The log of attempts *)

LEMMA AppendExtends ==
    ASSUME NEW S, NEW s \in Seq(S), NEW e \in S
    PROVE  IsPrefix(s, s) /\ IsPrefix(s, Append(s, e))
<1>1. Len(s) \in Nat /\ Len(Append(s, e)) = Len(s) + 1
  OBVIOUS
<1>2. SubSeq(s, 1, Len(s)) = SubSeq(Append(s, e), 1, Len(s))
  OBVIOUS
<1> QED BY <1>1, <1>2 DEF IsPrefix

\* The row of a payment gets an attempt, a status, or nothing, and none once its
\* request has ended.
LEMMA PaymentMoves ==
    ASSUME TypeInv, PaymentInv, NEW r \in Requests, Traced(r), RequestStep(r)
    PROVE  /\ payment[r].status \notin {"succeeded", "failed"}
           /\ Persisted(r) => payment'[r].status # "none"
           /\ \/ payment'[r].attempts = payment[r].attempts
              \/ /\ NewAttempt(r) \in Attempt
                 /\ payment'[r].attempts = Append(payment[r].attempts, NewAttempt(r))
<1>1. CASE Quiet(r)
  <2>1. pc[r] \notin {"succeeded", "failed"}
    BY <1>1 DEF Quiet, Receive, Lookup, ReadOrder, ClaimRefused, Claim, ChargeWallet, SaveDebit,
       FinalizeSuccess, RefundWallet, Refunding, FinalizeFailed, Abort, Running
  <2> QED BY <1>1, <2>1, QuietMoves DEF Traced, EndMatchesStatus, QuietMove, Persisted
<1>2. CASE ChargeExternal(r) \/ SkipProvider(r)
  BY <1>2 DEF ChargeExternal, SkipProvider, database, Traced, EndMatchesStatus, Persisted
<1>3. CASE RecordAttempt(r)
  <2>1. NewAttempt(r) \in Attempt
    BY <1>3, AttemptTyped DEF RecordAttempt
  <2>2. payment'[r].attempts = Append(payment[r].attempts, NewAttempt(r))
    BY <1>3 DEF RecordAttempt, Attempts, TypeInv, TypeOK
  <2> QED BY <1>3, <2>1, <2>2, RecordMoves DEF RecordAttempt, Traced, EndMatchesStatus, Persisted
<1>4. CASE RefundStep(r)
  BY <1>4, RefundMoves DEF Traced, EndMatchesStatus, Persisted
<1> QED BY <1>1, <1>2, <1>3, <1>4 DEF RequestStep, Execute, Quiet, RefundStep

\* payment_attempts is only ever appended to, through crashes, overlapping requests
\* and retries, and the outcome a client was once told never changes.
THEOREM PaymentsAreALog == Spec => PaymentOnlyGrows
<1>1. TypeInv /\ PaymentInv /\ ChargeInv /\ [Next]_vars =>
        [\A p \in Requests :
           /\ IsPrefix(payment[p].attempts, payment'[p].attempts)
           /\ payment[p].status \in {"succeeded", "failed"} => payment'[p] = payment[p]
           /\ Persisted(p) => payment'[p].status # "none"]_vars
  <2> SUFFICES ASSUME TypeInv, PaymentInv, ChargeInv, Next, NEW p \in Requests
               PROVE  /\ IsPrefix(payment[p].attempts, payment'[p].attempts)
                      /\ payment[p].status \in {"succeeded", "failed"} =>
                           payment'[p] = payment[p]
                      /\ Persisted(p) => payment'[p].status # "none"
    OBVIOUS
  <2>1. payment[p].attempts \in Seq(Attempt) /\ Traced(p)
    BY DEF TypeInv, TypeOK, ChargeInv
  <2>2. CASE payment'[p] = payment[p]
    <3>1. IsPrefix(payment[p].attempts, payment'[p].attempts)
      BY <2>2 DEF IsPrefix
    <3> QED BY <2>2, <3>1 DEF Persisted
  <2>3. CASE RequestStep(p)
    <3>1. IsPrefix(payment[p].attempts, payment'[p].attempts)
      BY <2>1, <2>3, PaymentMoves, AppendExtends DEF IsPrefix
    <3> QED BY <2>1, <2>3, <3>1, PaymentMoves
  <2>4. ASSUME NEW r \in Requests, Receive(r) \/ Execute(r) \/ Abort(r), r # p
        PROVE  payment'[p] = payment[p]
    BY <2>4, StatusMoves DEF RequestStep, TypeInv
  <2>5. ASSUME ~ \E r \in Requests : Receive(r) \/ Execute(r) \/ Abort(r)
        PROVE  payment' = payment
    BY <2>5 DEF Next, TopUp, TopUpRead, TopUpConnect, TopUpSave, Handle, HandlerRead, HandlerFails,
       SettlePaid, SettleThrows, SettleFailed, AllOver, database, vars
  <2> QED BY <2>2, <2>3, <2>4, <2>5 DEF RequestStep
<1> QED BY <1>1, TypeInvHolds, PaymentInvHolds, ChargeInvHolds, PTL DEF Spec, PaymentOnlyGrows
=============================================================================
