--------------------------- MODULE MCProductIngest ---------------------------
(* Two handlers, two tasks for one product, or for two that share a brand.  *)
EXTENDS ProductIngest, TLC

CONSTANTS w1, w2, m1, m2, m3, p1, p2, b1, b2, c1

\* Three tasks: two for p1, one for p2.
MCPlidOf == [m \in Msg |-> IF m = m3 THEN p2 ELSE p1]

\* One product with a brand and a category, one with the same brand.
MCEntitiesOf == [p \in Plid |-> IF p = p1 THEN {b1, c1} ELSE {b1}]

\* The second product spells the brand in another way.
SpelledEntitiesOf == [p \in Plid |-> IF p = p1 THEN {b1} ELSE {b2}]

\* Products with a brand only.
BrandOnly == [p \in Plid |-> Brand]

MCRowName == [e \in Entity |-> IF e = b2 THEN b1 ELSE e]

\* The failures that change what other handlers find, while leases hold.
Leased == {"crash", "commit", "timeout"}

\* What else can happen when no lease can be relied upon.
Lapses == {"lease", "read", "commit"}

\* What can keep a task from being settled; a crash is a lease left behind
\* ("redis") and a delivery more.
Delays == {"redis", "busy", "timeout"}

Workers == Permutations(Worker)
==============================================================================
