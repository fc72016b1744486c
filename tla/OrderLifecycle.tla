--------------------------- MODULE OrderLifecycle ---------------------------
(***************************************************************************)
(* What a client that uses one idempotency key for an order may rely on,   *)
(* without requests, providers, transactions or events: an order is paid   *)
(* for by one payment, it waits until that payment has an outcome, and it  *)
(* then takes that outcome for good.  PayOrder implements it; see there    *)
(* for the mapping.                                                        *)
(***************************************************************************)
CONSTANTS
    Orders,     \* the orders there are
    Payments,   \* the payments that may be made
    Named       \* the orders a payment may name, existing or not

VARIABLES
    order,      \* order[o]: the status of order o
    status,     \* status[p]: the status of payment p
    about       \* about[p]: the order p is to pay

vars == <<order, status, about>>

Init ==
    /\ order = [o \in Orders |-> "pending"]
    /\ status = [p \in Payments |-> "none"]
    /\ about \in [Payments -> Named]

\* A pending order gets its payment.
Open(p) ==
    /\ about[p] \in Orders /\ order[about[p]] = "pending" /\ status[p] = "none"
    /\ order' = [order EXCEPT ![about[p]] = "processing"]
    /\ status' = [status EXCEPT ![p] = "initiated"]
    /\ UNCHANGED about

\* The payment has an outcome.
Conclude(p, outcome) ==
    /\ status[p] = "initiated"
    /\ status' = [status EXCEPT ![p] = outcome]
    /\ UNCHANGED <<order, about>>

\* The order learns of it.
Settle(p) ==
    /\ status[p] \in {"succeeded", "failed"} /\ order[about[p]] = "processing"
    /\ order' = [order EXCEPT ![about[p]] =
                   IF status[p] = "succeeded" THEN "paid" ELSE "failed"]
    /\ UNCHANGED <<status, about>>

Next ==
    \E p \in Payments :
        \/ Open(p)
        \/ \E outcome \in {"succeeded", "failed"} : Conclude(p, outcome)
        \/ Settle(p)

Spec == Init /\ [][Next]_vars
=============================================================================
