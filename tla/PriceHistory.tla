----------------------------- MODULE PriceHistory -----------------------------
(***************************************************************************)
(* takealot/model/price.go: the price rows of one product, inserted by the *)
(* new-product handlers and thinned out by the daily price clean-up, two   *)
(* runs of which may overlap (each scheduled task runs in a goroutine of   *)
(* its own, and its message may be delivered twice).                       *)
(*                                                                         *)
(* RemoveProductDuplicatePrices is one transaction of two statements: the  *)
(* SELECT reads the transaction's snapshot, the DELETE acts on the rows of *)
(* the moment it runs.                                                     *)
(***************************************************************************)
EXTENDS Naturals, Sequences, FiniteSets

CONSTANTS
    Cleaner,        \* goroutines running RemoveProductDuplicatePrices
    Price,          \* values of current_price
    Limit,          \* distinct prices that are left alone (15 in the code)
    AnyRow,         \* whether GROUP BY answers any row of a group, or the first
    MaxRows         \* bound of the model: rows ever inserted

ASSUME PriceAssumption ==
    /\ Limit \in Nat
    /\ AnyRow \in BOOLEAN
    /\ MaxRows \in Nat

VARIABLES
    price,          \* the prices ever inserted: a row's id is its index
    live,           \* the ids of the rows in the table
    pc,             \* cleaner: between its two statements or not
    keep,           \* cleaner: the ids its SELECT answered
    seen            \* cleaner: the last id in its snapshot

vars == <<price, live, pc, keep, seen>>

Init ==
    /\ price = <<>>
    /\ live = {}
    /\ pc = [c \in Cleaner |-> "idle"]
    /\ keep = [c \in Cleaner |-> {}]
    /\ seen = [c \in Cleaner |-> 0]

\* The distinct prices of some rows.
PricesOf(ids) == {price[i] : i \in ids}

\* Mutant: the insert is repeated when its commit takes long.
CreatePrice_Twice(x) ==
    /\ Len(price) < MaxRows
    /\ price' = Append(price, x)
    /\ live' = live \cup {Len(price) + 1, Len(price) + 2}
    /\ UNCHANGED <<pc, keep, seen>>

CreatePrice(x) ==
    /\ Len(price) < MaxRows
    /\ price' = Append(price, x)
    /\ live' = live \cup {Len(price) + 1}
    /\ UNCHANGED <<pc, keep, seen>>

\* Mutant: the SELECT is cut off at the limit.
Grouped_Limited(ids) ==
    /\ \A i, j \in ids : price[i] = price[j] => i = j
    /\ Cardinality(ids) = Limit + 1

\* What "GROUP BY current_price" may answer: a row for each price.  Which one
\* is the server's choice; scanning the product_id index it is the first.
Grouped(ids) ==
    /\ \A i, j \in ids : price[i] = price[j] => i = j
    /\ \A i \in live : \E k \in ids : price[k] = price[i]
    /\ AnyRow \/ \A k \in ids, i \in live : price[i] = price[k] => k <= i

\* Mutant: the test of len(uniqueCurrentPrices) is off by one.
Select_Early(c) ==
    /\ pc[c] = "idle"
    /\ Cardinality(PricesOf(live)) >= Limit
    /\ \E ids \in SUBSET live : Grouped(ids) /\ keep' = [keep EXCEPT ![c] = ids]
    /\ pc' = [pc EXCEPT ![c] = "delete"]
    /\ seen' = [seen EXCEPT ![c] = Len(price)]
    /\ UNCHANGED <<price, live>>

\* The SELECT; with few prices the transaction ends here and changes nothing.
Select(c) ==
    /\ pc[c] = "idle"
    /\ Cardinality(PricesOf(live)) > Limit
    /\ \E ids \in SUBSET live : Grouped(ids) /\ keep' = [keep EXCEPT ![c] = ids]
    /\ pc' = [pc EXCEPT ![c] = "delete"]
    /\ seen' = [seen EXCEPT ![c] = Len(price)]
    /\ UNCHANGED <<price, live>>

Idle(c) ==
    /\ pc' = [pc EXCEPT ![c] = "idle"]
    /\ keep' = [keep EXCEPT ![c] = {}]
    /\ seen' = [seen EXCEPT ![c] = 0]

\* DELETE ... WHERE id NOT IN (...), and the Commit.
Delete(c) ==
    /\ pc[c] = "delete"
    /\ live' = live \cap keep[c]
    /\ Idle(c)
    /\ UNCHANGED price

\* The DELETE or the Commit fails, or the process ends: rolled back.
RollBack(c) ==
    /\ pc[c] = "delete"
    /\ Idle(c)
    /\ UNCHANGED <<price, live>>

Next ==
    \/ \E x \in Price : CreatePrice(x)
    \/ \E c \in Cleaner : Select(c) \/ Delete(c) \/ RollBack(c)

Spec == Init /\ [][Next]_vars
-----------------------------------------------------------------------------
\* Rows have prices, clean-ups choose among rows, and a snapshot is of the past.
TypeOK ==
    /\ price \in Seq(Price)
    /\ live \subseteq 1 .. Len(price)
    /\ pc \in [Cleaner -> {"idle", "delete"}]
    /\ keep \in [Cleaner -> SUBSET (1 .. Len(price))]
    /\ seen \in [Cleaner -> 0 .. Len(price)]

\* Clean-ups remove duplicates (price.go:25): a price disappears only with rows
\* that came after the SELECT of the clean-up that deletes them; one that was
\* there to be selected keeps a row, whatever another clean-up does.
OnlyDuplicates ==
    [][\A c \in Cleaner : Delete(c) =>
          \A i \in live \ live' :
             i > seen[c] \/ \E k \in live' : price[k] = price[i]]_vars

\* No clean-up, nor two that overlap, leaves a product with as few different
\* prices as would have stopped it (price.go:40): the history never vanishes.
FloorKept ==
    [][live \subseteq live' \/ Cardinality({price[i] : i \in live'}) > Limit]_vars

\* The row FindProductLatestPrice answers.
Latest(ids) == CHOOSE i \in ids : \A j \in ids : j <= i

\* Cleaning up does not change the product's latest price, which is what the
\* test of the handler looks at before and after
\* (queue/scheduled_task_handler_test.go:61, 86).
LatestKept ==
    [][\A c \in Cleaner : Delete(c) /\ seen[c] = Len(price) =>
          price[Latest(live')] = price[Latest(live)]]_vars
==============================================================================
