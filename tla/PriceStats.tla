------------------------------ MODULE PriceStats ------------------------------
(***************************************************************************)
(* What the gateway tells of a product's prices (gateway/builder:          *)
(* ProductStatsBuilder): the least, the greatest and the mean of its last  *)
(* prices, and a chart of them from the oldest to the newest.  It is built *)
(* from one SELECT, at any moment of the price history.                    *)
(*                                                                         *)
(* Prices are float64 in the code and numbers of 1/Unit here; what the     *)
(* code converts to uint32 is cut off, what it rounds is rounded.          *)
(***************************************************************************)
EXTENDS PriceHistory, SequencesExt

CONSTANTS
    ChartSize,      \* prices that are looked at (15 in the code)
    Unit            \* a price of 1, so that there are fractions

ASSUME StatsAssumption ==
    /\ Price \subseteq Nat
    /\ ChartSize \in Nat \ {0} /\ Unit \in Nat \ {0}

\* The first ChartSize of some ids, where Before says how many come before one.
Page(ids, Before(_)) ==
    [k \in 1 .. (IF Cardinality(ids) < ChartSize THEN Cardinality(ids) ELSE ChartSize) |->
        CHOOSE i \in ids : Before(i) = k - 1]

\* Mutant: ORDER BY id.
FindProductLatestPrices_Oldest(ids) ==
    Page(ids, LAMBDA i : Cardinality({j \in ids : j < i}))

\* ORDER BY id DESC LIMIT ChartSize
FindProductLatestPrices(ids) ==
    Page(ids, LAMBDA i : Cardinality({j \in ids : j > i}))

\* setChartData: the rows of the first half change places with those opposite.
Chart(rows) ==
    LET half == Len(rows) \div 2
    IN  [i \in DOMAIN rows |->
            IF i <= half \/ i > Len(rows) - half THEN rows[Len(rows) + 1 - i] ELSE rows[i]]

\* setPriceMinMaxMean: one pass over the rows; the first one sets min and max.
Pass(rows) ==
    LET a[k \in 0 .. Len(rows)] ==
          IF k = 0 THEN [min |-> 0, max |-> 0, total |-> 0]
          ELSE LET p == price[rows[k]]
                   b == a[k - 1]
               IN  [min   |-> IF k = 1 \/ p < b.min THEN p ELSE b.min,
                    max   |-> IF k = 1 \/ p > b.max THEN p ELSE b.max,
                    total |-> b.total + p]
    IN  a[Len(rows)]

\* uint32 of a price, and math.Round of a quotient.
Cut(p)         == p \div Unit
Rounded(p, n)  == (2 * p + n * Unit) \div (2 * n * Unit)

\* Build, if the product has a price; without one MinPrice is the uint32 of
\* MaxFloat64, which Go leaves to the implementation.
Stats(ids) ==
    LET rows == Chart(FindProductLatestPrices(ids))
        a    == Pass(rows)
    IN  [MinPrice |-> Cut(a.min), MaxPrice |-> Cut(a.max),
         MeanPrice |-> Rounded(a.total, Len(rows)),
         Chart |-> [i \in DOMAIN rows |-> Cut(price[rows[i]])], rows |-> rows]
-----------------------------------------------------------------------------
\* However the history was inserted and thinned out, the chart is of the newest
\* rows in the order of their ids and ends with the latest price, MinPrice and
\* MaxPrice are on it and bound it, and the mean lies between them but for its
\* rounding (builder.go:141-214).
StatsHold ==
    live # {} =>
        LET s == Stats(live)
            shown == ToSet(s.rows)
            points == ToSet(s.Chart)
        IN  /\ shown \subseteq live /\ Len(s.rows) = Cardinality(shown)
            /\ Cardinality(shown) < ChartSize => shown = live
            /\ Len(s.rows) <= ChartSize
            /\ \A i \in live \ shown, k \in shown : i < k
            /\ \A i, j \in DOMAIN s.rows : i < j => s.rows[i] < s.rows[j]
            /\ s.Chart[Len(s.Chart)] = Cut(price[Latest(live)])
            /\ {s.MinPrice, s.MaxPrice} \subseteq points
            /\ \A p \in points : s.MinPrice <= p /\ p <= s.MaxPrice
            /\ s.MinPrice <= s.MeanPrice /\ s.MeanPrice <= s.MaxPrice + 1
===============================================================================
