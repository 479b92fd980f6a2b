---------------------------- MODULE MCGatewayReads ----------------------------
(* What the gateway reads of tables that change meanwhile: the prices of a   *)
(* product under two clean-ups and inserts (PriceStats), and the pages of    *)
(* promotions (PromotionPages).  A behaviour is about one of them, and the   *)
(* variables of the other stay as they were.                                 *)
EXTENDS PriceStats, PromotionPages, TLC

CONSTANTS c1, c2, r1, r2

VARIABLE part       \* what it is about

\* Two users of the list of promotions; one of the products of a promotion, and
\* one of the daily deals.
MCClients   == [all |-> {r1, r2}, promotion |-> {r1}, deals |-> {r1}]
MCMaxListed == [all |-> 2, promotion |-> 3, deals |-> 2]

MCInit ==
    /\ part \in {"prices", "pages"}
    /\ Init /\ InitPages
    /\ part = "prices" => kind = "all"

MCNext ==
    \/ part = "prices" /\ Next /\ UNCHANGED <<part, pagesVars>>
    \/ part = "pages" /\ NextPages /\ UNCHANGED <<part, vars>>

MCSpec == MCInit /\ [][MCNext]_<<part, vars, pagesVars>>

\* The type invariants of both parts.
TypesOK == TypeOK /\ PagesTypeOK

Symmetry == Permutations(Cleaner)
===============================================================================
