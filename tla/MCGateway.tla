------------------------------ MODULE MCGateway ------------------------------
(* The gateway's handlers side by side: queries through the cache            *)
(* (GatewayCache), and the requests that bring products in (ProductRequests). *)
(* No query reads what the others write within the bounds of its own: a      *)
(* behaviour is about one of the two, and the variables of the other stay as *)
(* they were.                                                                *)
EXTENDS GatewayCache, ProductRequests

CONSTANTS r1, r2

VARIABLE part       \* what it is about

\* Two requests for one product and two searches; one for the latest products, and
\* one for those of a brand, whose messages are built by two goroutines.  A page of
\* one for the latest.
MCClients == [k \in Kinds |-> IF k \in {"brand", "latest"} THEN {r1} ELSE {r1, r2}]
MCSize    == [k \in Kinds |-> IF k = "latest" THEN 1 ELSE 2]

MCShape == [u \in Url |-> u]
MCNamed == [u \in Url |-> 1]

MCInit ==
    /\ part \in {"cache", "requests"}
    /\ Init /\ InitRequests
    /\ part = "requests" => kind = "product"

MCNext ==
    \/ part = "cache" /\ Next /\ UNCHANGED <<part, requestsVars>>
    \/ part = "requests" /\ NextRequest /\ UNCHANGED <<part, vars>>

MCSpec ==
    /\ MCInit /\ [][MCNext]_<<part, vars, requestsVars>>
    /\ Fairness /\ RequestsFairness

\* The type invariants of both parts.
TypesOK == TypeOK /\ RequestsTypeOK
==============================================================================
