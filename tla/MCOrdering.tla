----------------------------- MODULE MCOrdering -----------------------------
(***************************************************************************)
(* An instance of Ordering for TLC: doubles that are exact up to eight, in *)
(* columns that hold up to three and sixty.                                *)
(***************************************************************************)
EXTENDS Ordering

\* c3 has the email of c2.
MCEmailOf == [c \in {"c1", "c2", "c3"} |-> IF c = "c1" THEN "a" ELSE "b"]

\* One customer's balance may pass eight, one's may not, one is never raised.
MCMaxPutIn == [c \in {"c1", "c2", "c3"} |->
                 CASE c = "c1" -> 13 [] c = "c2" -> 5 [] c = "c3" -> 0]

\* A product that is refused, one that does not fit its column.
MCPriceOf == [p \in {"cheap", "dear", "free", "huge"} |->
                CASE p = "cheap" -> 1 [] p = "dear" -> 3 [] p = "free" -> 0 [] p = "huge" -> 64]

Item(p, n) == [product |-> p, quantity |-> n]
Order(c, s) == [customer |-> c, items |-> s]

MCCommands ==
    {Order("c1", s) : s \in
        {<<Item("cheap", 2), Item("dear", 2)>>, <<Item("dear", 1), Item("dear", 1)>>,
         <<Item("dear", 3), Item("cheap", 1), Item("cheap", 1)>>,
         <<Item("cheap", 4)>>, <<Item("free", 1)>>, <<Item("huge", 1)>>,
         <<Item("cheap", 0)>>, <<>>}}
    \cup {Order("c2", <<Item("cheap", 1)>>), Order("c4", <<Item("cheap", 1)>>)}
=============================================================================
