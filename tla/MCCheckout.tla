----------------------------- MODULE MCCheckout -----------------------------
(***************************************************************************)
(* An instance of Checkout for TLC: two tabs of one client that pay one    *)
(* order of three cents, from a wallet that holds two, at one instance.    *)
(***************************************************************************)
EXTENDS Checkout

MCOwner == [o \in {"o1"} |-> "c1"]
MCTotal == [o \in {"o1"} |-> 3]
MCInitialBalance == [c \in {"c1"} |-> 2]
MCHostOf == [r \in Requests |-> CHOOSE i \in Relays : TRUE]
NoTopUps == << >>
MCChain == <<"stripe">>

Pay(provider, amount) == [provider |-> provider, amount |-> amount]
Ask(key, allocations) ==
    [apiKey |-> "app", order |-> "o1", customer |-> "c1", key |-> key,
     allocations |-> allocations]

\* The wallet first and the rest through the chain, or by name; each request has a
\* key of its own.
MCCommands ==
    {Ask(NoKey, <<Pay("wallet", 1), Pay(NoProvider, 2)>>),
     Ask(NoKey, <<Pay("wallet", 2), Pay("stripe", 1)>>)}
=============================================================================
