--------------------------- MODULE EventDelivery ----------------------------
(***************************************************************************)
(* What the outbox promises of an event, without tables, batches, locks or *)
(* instances: only what was stored is published, only what was published   *)
(* is given up or handled, and nothing of that is ever taken back.  It     *)
(* does not promise that a published event is handled.  OutboxRelay        *)
(* implements it; see there for the mapping.                               *)
(***************************************************************************)
CONSTANTS
    Events,    \* the events that may be stored
    Known      \* those that can be published

VARIABLES
    stored,    \* committed with the transaction they belong to
    sent,      \* published, once or more often
    retired,   \* given up as done: no instance looks for them any more
    handled    \* a handler of them returned

vars == <<stored, sent, retired, handled>>

Init == stored = {} /\ sent = {} /\ retired = {} /\ handled = {}

Store(e) == stored' = stored \cup {e} /\ UNCHANGED <<sent, retired, handled>>

Send(e) ==
    /\ e \in stored \cap Known
    /\ sent' = sent \cup {e}
    /\ UNCHANGED <<stored, retired, handled>>

Retire(e) ==
    /\ e \in sent
    /\ retired' = retired \cup {e}
    /\ UNCHANGED <<stored, sent, handled>>

Handle(e) ==
    /\ e \in sent
    /\ handled' = handled \cup {e}
    /\ UNCHANGED <<stored, sent, retired>>

Next == \E e \in Events : Store(e) \/ Send(e) \/ Retire(e) \/ Handle(e)

Spec == Init /\ [][Next]_vars
=============================================================================
