----------------------------- MODULE MCPayOrder -----------------------------
(***************************************************************************)
(* Instances of PayOrder for TLC.  Two customers, an order of each (three  *)
(* cents and two cents), the three providers the application registers and *)
(* a chain that also names a provider nobody registered.                   *)
(***************************************************************************)
EXTENDS PayOrder, TLC

MCOrders == {"o1", "o2"}
MCCustomers == {"c1", "c2"}
MCOwner == [o \in MCOrders |-> IF o = "o1" THEN "c1" ELSE "c2"]
MCTotal == [o \in MCOrders |-> IF o = "o1" THEN 3 ELSE 2]
MCNames == {"wallet", "stripe", "paypal", "klarna"}
MCProviders == {"wallet", "stripe", "paypal"}
MCChain == <<"wallet", "klarna", "stripe", "paypal">>
MCInitialBalance == [c \in MCCustomers |-> 2]
MCExternal == MCProviders \ {"wallet"}

NoTopUps == << >>

RequestSymmetry == Permutations(Requests)

Pay(provider, amount) == [provider |-> provider, amount |-> amount]
Ask(o, c, k, s) ==
    [apiKey |-> "app", order |-> o, customer |-> c, key |-> k, allocations |-> s]

\* Through the chain; wallet first and the rest through the chain; two named
\* providers of which the wallet is the second; twice the wallet, then the chain.
Whole == <<Pay(NoProvider, 3)>>
Split == <<Pay("wallet", 1), Pay(NoProvider, 2)>>
Named == <<Pay("stripe", 1), Pay("paypal", 1), Pay("wallet", 1)>>
Twice == <<Pay("wallet", 1), Pay("wallet", 1), Pay("stripe", 1)>>

\* Bodies the controller or the handler refuses.
RefusedBodies == {<<>>, <<Pay("wallet", 0), Pay("stripe", 3)>>, <<Pay("wallet", 2)>>,
                  <<Pay("klarna", 3)>>}

\* Retries of one client: one key for every request about o1, and a mistaken
\* reuse of it for o2, for another customer, for no known order; a client that the
\* guards turn away.
RetryCommands ==
    {Ask("o1", "c1", "k1", s) : s \in {Split, Named, Twice} \cup RefusedBodies}
    \cup {Ask("o2", "c2", "k1", <<Pay(NoProvider, 2)>>),
          Ask("o1", "c2", "k1", Whole),
          Ask("o0", "c1", "k1", Whole),
          Ask("o1", NoCustomer, "k1", Split),
          [Ask("o1", "c1", "k1", Split) EXCEPT !.apiKey = "none"]}

\* Two tabs of one client: no key, or one, for the same order.
RaceCommands ==
    {Ask("o1", "c1", NoKey, s) : s \in {Split, Named, Twice}}
    \cup {Ask("o1", "c1", "k1", Whole)}

RaceTopUps == [t \in {"t1"} |-> [customer |-> "c1", amount |-> 2]]

=============================================================================
