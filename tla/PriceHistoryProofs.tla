-------------------------- MODULE PriceHistoryProofs --------------------------
(***************************************************************************)
(* Theorems of PriceHistory for any number of overlapping clean-ups, any   *)
(* limit and any prices; those on what is kept are about a server whose    *)
(* GROUP BY answers the first row of each group.  The second half is about *)
(* PriceStats, for charts of any size over any history.                    *)
(***************************************************************************)
EXTENDS PriceStats, FiniteSetTheorems, WellFoundedInduction, TLAPS

\* What the SELECT of a clean-up under way still guarantees: the ids it chose
\* are of its snapshot, are the first of their price, and stand for every row
\* of the snapshot that is left.
Covers(c) ==
    /\ keep[c] \subseteq 1 .. seen[c]
    /\ \A k \in keep[c] \cap live, i \in live : price[i] = price[k] => k <= i
    /\ \A i \in live : i <= seen[c] =>
          \E k \in keep[c] \cap live : price[k] = price[i]

\* And they are of enough different prices.
Enough(c) == Cardinality(PricesOf(keep[c] \cap live)) > Limit

\* The inductive invariant.
IInv ==
    /\ TypeOK
    /\ \A c \in Cleaner : pc[c] = "delete" => Covers(c) /\ Enough(c)

\* A product without prices: no clean-up is under way.
LEMMA InitIInv == Init => IInv
  BY DEF Init, IInv, TypeOK

\* Inserting a row extends the history and touches no older price.
LEMMA CreateStep ==
  ASSUME TypeOK, NEW x \in Price, CreatePrice(x)
  PROVE  /\ price' \in Seq(Price)
         /\ Len(price') = Len(price) + 1
         /\ \A i \in 1 .. Len(price) : price'[i] = price[i]
         /\ live' = live \cup {Len(price) + 1}
         /\ UNCHANGED <<pc, keep, seen>>
         /\ TypeOK'
  <1>1. /\ price' \in Seq(Price)
        /\ Len(price') = Len(price) + 1
        /\ \A i \in 1 .. Len(price) : price'[i] = price[i]
        /\ live' = live \cup {Len(price) + 1}
        /\ UNCHANGED <<pc, keep, seen>>
        /\ Len(price) \in Nat
    BY DEF TypeOK, CreatePrice
  <1>2. 1 .. Len(price) \subseteq 1 .. Len(price') /\ 0 .. Len(price) \subseteq 0 .. Len(price')
    BY <1>1
  <1>3. live' \subseteq 1 .. Len(price')
    <2>1. live \subseteq 1 .. Len(price')
      BY <1>2 DEF TypeOK
    <2>2. Len(price) + 1 \in 1 .. Len(price')
      BY <1>1
    <2> QED BY <1>1, <2>1, <2>2
  <1>4. keep' \in [Cleaner -> SUBSET (1 .. Len(price'))]
    BY <1>1, <1>2 DEF TypeOK
  <1>5. seen' \in [Cleaner -> 0 .. Len(price')]
    BY <1>1, <1>2 DEF TypeOK
  <1> QED BY <1>1, <1>3, <1>4, <1>5 DEF TypeOK

\* What a clean-up has chosen stays good while nothing it reads changes.
LEMMA Frame ==
  ASSUME NEW d \in Cleaner, UNCHANGED <<price, live>>,
         keep'[d] = keep[d], seen'[d] = seen[d], Covers(d), Enough(d)
  PROVE  Covers(d)' /\ Enough(d)'
  <1>1. PricesOf(keep[d] \cap live)' = PricesOf(keep[d] \cap live)
    BY DEF PricesOf
  <1> QED BY <1>1 DEF Covers, Enough

\* Of two clean-ups under way, the one with the older snapshot has chosen only
\* rows that the other has chosen too, as far as they still exist.
LEMMA OlderIsSubset ==
  ASSUME TypeOK, NEW c \in Cleaner, NEW d \in Cleaner,
         Covers(c), Covers(d), seen[d] <= seen[c]
  PROVE  keep[d] \cap live \subseteq keep[c]
  <1> SUFFICES ASSUME NEW i \in keep[d] \cap live PROVE i \in keep[c]
    OBVIOUS
  <1>0. i \in Nat /\ seen[c] \in Nat /\ seen[d] \in Nat
    BY DEF TypeOK
  <1>1. i <= seen[c]
    BY <1>0 DEF Covers
  <1>2. PICK k \in keep[c] \cap live : price[k] = price[i]
    BY <1>1 DEF Covers
  <1>3. k <= i /\ i <= k
    BY <1>2 DEF Covers
  <1>4. k \in Nat
    BY DEF TypeOK
  <1> QED BY <1>0, <1>2, <1>3, <1>4

\* A clean-up does not take from another what that one needs.
LEMMA DeleteStep ==
  ASSUME IInv, NEW c \in Cleaner, Delete(c), NEW d \in Cleaner,
         d # c, pc[d] = "delete"
  PROVE  Covers(d)' /\ Enough(d)'
  <1>0. /\ Covers(c) /\ Enough(c) /\ Covers(d) /\ Enough(d)
        /\ live' = live \cap keep[c]
        /\ keep'[d] = keep[d] /\ seen'[d] = seen[d] /\ price' = price
        /\ seen[c] \in Nat /\ seen[d] \in Nat /\ live \subseteq Nat
    BY DEF IInv, TypeOK, Delete, Idle
  <1>1. \A i \in live' : i <= seen'[d] =>
           \E k \in keep'[d] \cap live' : price'[k] = price'[i]
    <2> SUFFICES ASSUME NEW i \in live', i <= seen[d]
                 PROVE \E k \in keep[d] \cap live' : price[k] = price[i]
      BY <1>0
    <2>1. i \in live /\ i \in keep[c]
      BY <1>0
    <2>2. PICK k \in keep[d] \cap live : price[k] = price[i]
      BY <1>0, <2>1 DEF Covers
    <2>3. k <= i /\ i <= k
      BY <1>0, <2>1, <2>2 DEF Covers
    <2>4. i \in Nat /\ k \in Nat
      BY <1>0, <2>1, <2>2
    <2>5. k = i
      BY <2>3, <2>4
    <2> QED BY <1>0, <2>1, <2>2, <2>5
  <1>2. Covers(d)'
    BY <1>0, <1>1 DEF Covers
  <1>3. PricesOf(keep[d] \cap live)' = IF seen[d] <= seen[c]
          THEN PricesOf(keep[d] \cap live) ELSE PricesOf(keep[c] \cap live)
    <2>1. CASE seen[d] <= seen[c]
      <3>1. keep[d] \cap live \subseteq keep[c]
        BY <1>0, <2>1, OlderIsSubset DEF IInv
      <3>2. keep'[d] \cap live' = keep[d] \cap live
        BY <1>0, <3>1
      <3> QED BY <1>0, <2>1, <3>2 DEF PricesOf
    <2>2. CASE ~(seen[d] <= seen[c])
      <3>1. keep[c] \cap live \subseteq keep[d]
        BY <1>0, <2>2, OlderIsSubset DEF IInv
      <3>2. keep'[d] \cap live' = keep[c] \cap live
        BY <1>0, <3>1
      <3> QED BY <1>0, <2>2, <3>2 DEF PricesOf
    <2> QED BY <2>1, <2>2
  <1>4. Enough(d)'
    BY <1>0, <1>3 DEF Enough
  <1> QED BY <1>2, <1>4

\* One step per action.
LEMMA Inductive == ~AnyRow /\ IInv /\ [Next]_vars => IInv'
<1> SUFFICES ASSUME ~AnyRow, IInv, [Next]_vars PROVE IInv'
  OBVIOUS
<1>1. ASSUME NEW x \in Price, CreatePrice(x) PROVE IInv'
  <2>1. /\ \A i \in 1 .. Len(price) : price'[i] = price[i]
        /\ live' = live \cup {Len(price) + 1}
        /\ UNCHANGED <<pc, keep, seen>>
        /\ TypeOK'
        /\ Len(price) \in Nat
    BY <1>1, CreateStep DEF IInv, TypeOK
  <2>2. ASSUME NEW d \in Cleaner, pc[d] = "delete" PROVE Covers(d)' /\ Enough(d)'
    <3>1. /\ Covers(d) /\ Enough(d)
          /\ keep'[d] = keep[d] /\ seen'[d] = seen[d]
          /\ keep[d] \subseteq 1 .. Len(price) /\ live \subseteq 1 .. Len(price)
          /\ seen[d] \in 0 .. Len(price)
      BY <2>1, <2>2 DEF IInv, TypeOK
    <3>2. keep[d] \cap live' = keep[d] \cap live
      BY <2>1, <3>1
    <3>3. \A k \in keep[d] \cap live : price'[k] = price[k]
      BY <2>1, <3>1
    <3>4. PricesOf(keep[d] \cap live)' = PricesOf(keep[d] \cap live)
      BY <3>1, <3>2, <3>3 DEF PricesOf
    <3>5. \A k \in keep[d] \cap live', i \in live' : price'[i] = price'[k] => k <= i
      BY <2>1, <3>1, <3>2, <3>3 DEF Covers
    <3>6. \A i \in live' : i <= seen[d] =>
            \E k \in keep[d] \cap live' : price'[k] = price'[i]
      BY <2>1, <3>1, <3>2, <3>3 DEF Covers
    <3> QED BY <3>1, <3>4, <3>5, <3>6 DEF Covers, Enough
  <2> QED BY <2>1, <2>2 DEF IInv
<1>2. ASSUME NEW c \in Cleaner, Select(c) PROVE IInv'
  <2>1. PICK ids \in SUBSET live : Grouped(ids) /\ keep' = [keep EXCEPT ![c] = ids]
    BY <1>2 DEF Select
  <2>2. /\ UNCHANGED <<price, live>>
        /\ pc' = [pc EXCEPT ![c] = "delete"]
        /\ seen' = [seen EXCEPT ![c] = Len(price)]
        /\ Cardinality(PricesOf(live)) > Limit
        /\ Len(price) \in Nat
    BY <1>2 DEF Select, IInv, TypeOK
  <2>3. TypeOK'
    BY <2>1, <2>2 DEF IInv, TypeOK
  <2>4. Covers(c)'
    BY <2>1, <2>2 DEF IInv, TypeOK, Covers, Grouped
  <2>5. PricesOf(ids \cap live) = PricesOf(live)
    BY <2>1 DEF Grouped, PricesOf
  <2>6. Enough(c)'
    <3>1. keep'[c] = ids
      BY <2>1 DEF IInv, TypeOK
    <3>2. PricesOf(keep[c] \cap live)' = PricesOf(live)
      BY <2>2, <2>5, <3>1 DEF PricesOf
    <3> QED BY <2>2, <3>2 DEF Enough
  <2>7. ASSUME NEW d \in Cleaner, d # c, pc[d] = "delete" PROVE Covers(d)' /\ Enough(d)'
    <3>1. Covers(d) /\ Enough(d) /\ keep'[d] = keep[d] /\ seen'[d] = seen[d]
      BY <2>1, <2>2, <2>7 DEF IInv, TypeOK
    <3> QED BY <2>2, <3>1, Frame
  <2>8. \A d \in Cleaner \ {c} : pc'[d] = pc[d]
    BY <2>2 DEF IInv, TypeOK
  <2> QED BY <2>3, <2>4, <2>6, <2>7, <2>8 DEF IInv
<1>3. ASSUME NEW c \in Cleaner, Delete(c) PROVE IInv'
  <2>1. TypeOK'
    BY <1>3 DEF IInv, TypeOK, Delete, Idle
  <2>2. \A d \in Cleaner : pc'[d] = "delete" => d # c /\ pc[d] = "delete"
    BY <1>3 DEF IInv, TypeOK, Delete, Idle
  <2> QED BY <1>3, <2>1, <2>2, DeleteStep DEF IInv
<1>4. ASSUME NEW c \in Cleaner, RollBack(c) PROVE IInv'
  <2>1. TypeOK'
    BY <1>4 DEF IInv, TypeOK, RollBack, Idle
  <2>2. \A d \in Cleaner : pc'[d] = "delete" =>
           d # c /\ pc[d] = "delete" /\ keep'[d] = keep[d] /\ seen'[d] = seen[d]
    BY <1>4 DEF IInv, TypeOK, RollBack, Idle
  <2>3. UNCHANGED <<price, live>>
    BY <1>4 DEF RollBack
  <2> QED BY <2>1, <2>2, <2>3, Frame DEF IInv
<1>5. CASE UNCHANGED vars
  <2>1. TypeOK' /\ UNCHANGED <<price, live, pc, keep, seen>>
    BY <1>5 DEF IInv, TypeOK, vars
  <2> QED BY <2>1, Frame DEF IInv
<1> QED
  BY <1>1, <1>2, <1>3, <1>4, <1>5 DEF Next

\* What every reachable state satisfies.
LEMMA Invariance == ASSUME ~AnyRow PROVE Spec => []IInv
<1>1. IInv /\ [Next]_vars => IInv'
  BY Inductive
<1> QED BY <1>1, InitIInv, PTL DEF Spec

\* Every id a clean-up has chosen is that of a row that was inserted, whatever
\* row GROUP BY answers.
THEOREM TypeCorrect == Spec => []TypeOK
<1>1. Init => TypeOK
  BY InitIInv DEF IInv
<1>2. ASSUME TypeOK, [Next]_vars PROVE TypeOK'
  <2>1. ASSUME NEW x \in Price, CreatePrice(x) PROVE TypeOK'
    BY <1>2, <2>1, CreateStep
  <2>2. ASSUME NEW c \in Cleaner, Select(c) PROVE TypeOK'
    BY <1>2, <2>2 DEF TypeOK, Select
  <2>3. ASSUME NEW c \in Cleaner, Delete(c) PROVE TypeOK'
    BY <1>2, <2>3 DEF TypeOK, Delete, Idle
  <2>4. ASSUME NEW c \in Cleaner, RollBack(c) PROVE TypeOK'
    BY <1>2, <2>4 DEF TypeOK, RollBack, Idle
  <2>5. CASE UNCHANGED vars
    BY <1>2, <2>5 DEF TypeOK, vars
  <2> QED BY <1>2, <2>1, <2>2, <2>3, <2>4, <2>5 DEF Next
<1> QED BY <1>1, <1>2, PTL DEF Spec

\* However many clean-ups overlap, a price that was there to be selected keeps
\* a row when the clean-up that selected it deletes.
THEOREM CleanUpRemovesDuplicates == ASSUME ~AnyRow PROVE Spec => OnlyDuplicates
<1>1. IInv => [\A c \in Cleaner : Delete(c) =>
          \A i \in live \ live' :
             i > seen[c] \/ \E k \in live' : price[k] = price[i]]_vars
  <2> SUFFICES ASSUME IInv, NEW c \in Cleaner, Delete(c), NEW i \in live \ live',
                      ~(i > seen[c])
               PROVE \E k \in live' : price[k] = price[i]
    OBVIOUS
  <2>1. Covers(c) /\ live' = live \cap keep[c] /\ i \in Nat /\ seen[c] \in Nat
    BY DEF IInv, TypeOK, Delete
  <2> QED BY <2>1 DEF Covers
<1> QED BY <1>1, Invariance, PTL DEF OnlyDuplicates

\* However many clean-ups overlap, more than Limit different prices remain.
THEOREM HistoryNeverVanishes == ASSUME ~AnyRow PROVE Spec => FloorKept
<1>1. IInv /\ [Next]_vars =>
        [live \subseteq live' \/ Cardinality({price[i] : i \in live'}) > Limit]_vars
  <2> SUFFICES ASSUME IInv, Next, ~(live \subseteq live')
               PROVE Cardinality({price[i] : i \in live'}) > Limit
    OBVIOUS
  <2>1. PICK c \in Cleaner : Delete(c)
    BY DEF Next, CreatePrice, Select, RollBack
  <2>2. live' = keep[c] \cap live /\ Enough(c)
    BY <2>1 DEF IInv, Delete
  <2> QED BY <2>2 DEF Enough, PricesOf
<1> QED BY <1>1, Invariance, PTL DEF FloorKept, Spec
-----------------------------------------------------------------------------
(***************************************************************************)
(* The statistics.                                                         *)
(***************************************************************************)

\* Induction over the natural numbers, for a set.
LEMMA NatSet ==
  ASSUME NEW S, 0 \in S, \A n \in Nat : n \in S => n + 1 \in S
  PROVE  Nat \subseteq S
<1> DEFINE T == Nat \ S
           R == OpToRel(<, Nat)
<1> SUFFICES ASSUME T # {} PROVE FALSE
  OBVIOUS
<1>1. \E x \in T : \A y \in T : ~(<<y, x>> \in R)
  <2> HIDE DEF T
  <2>1. T \subseteq Nat BY DEF T
  <2> QED BY <2>1, NatLessThanWellFounded, WFMin
<1>2. PICK x \in T : \A y \in T : ~(<<y, x>> \in R)
  BY <1>1
<1>3. x # 0 /\ x - 1 \in Nat /\ x - 1 < x
  OBVIOUS
<1>4. <<x - 1, x>> \in R
  BY <1>3 DEF OpToRel
<1>5. x - 1 \in S
  BY <1>2, <1>3, <1>4
<1> QED BY <1>3, <1>5

\* How many of some ids come after one.
After(ids, i) == Cardinality({j \in ids : j > i})

LEMMA PageOf ==
  ASSUME NEW ids
  PROVE  FindProductLatestPrices(ids) =
      [k \in 1 .. (IF Cardinality(ids) < ChartSize THEN Cardinality(ids) ELSE ChartSize) |->
        CHOOSE i \in ids : After(ids, i) = k - 1]
  BY DEF FindProductLatestPrices, Page, After

\* A set with less in it has fewer elements.
LEMMA SmallerSet ==
  ASSUME NEW S, IsFiniteSet(S), NEW T, T \subseteq S, T # S
  PROVE  Cardinality(T) \in 0 .. Cardinality(S) - 1
<1>1. Cardinality(T) <= Cardinality(S) /\ Cardinality(T) # Cardinality(S) /\ IsFiniteSet(T)
  BY FS_Subset
<1>2. Cardinality(T) \in Nat /\ Cardinality(S) \in Nat
  BY <1>1, FS_CardinalityType
<1> QED BY <1>1, <1>2

\* A greater id has fewer after it.
LEMMA AfterIsOrder ==
  ASSUME NEW ids \in SUBSET Nat, IsFiniteSet(ids)
  PROVE  /\ \A i \in ids : After(ids, i) \in 0 .. Cardinality(ids) - 1
         /\ \A i, j \in ids : i < j => After(ids, j) < After(ids, i)
<1>1. ASSUME NEW i \in ids PROVE After(ids, i) \in 0 .. Cardinality(ids) - 1
  <2> DEFINE M == {j \in ids : j > i}
  <2>1. M \subseteq ids /\ M # ids
    OBVIOUS
  <2> HIDE DEF M
  <2>2. Cardinality(M) \in 0 .. Cardinality(ids) - 1
    BY <2>1, SmallerSet
  <2> QED BY <2>2 DEF After, M
<1>2. ASSUME NEW i \in ids, NEW j \in ids, i < j PROVE After(ids, j) < After(ids, i)
  <2> DEFINE L == {m \in ids : m > j}
             M == {m \in ids : m > i}
  <2>0. \A m \in ids : m \in Nat
    OBVIOUS
  <2>4. ~(j > j) /\ j > i /\ \A m \in ids : m > j => m > i
    BY <1>2, <2>0
  <2>1. L \subseteq M /\ L # M /\ M \subseteq ids
    BY <2>4
  <2> HIDE DEF L, M
  <2>2. IsFiniteSet(M)
    BY <2>1, FS_Subset
  <2>3. Cardinality(L) \in 0 .. Cardinality(M) - 1 /\ Cardinality(M) \in Nat
    BY <2>1, <2>2, SmallerSet, FS_CardinalityType
  <2> QED BY <2>3 DEF After, L, M
<1> QED BY <1>1, <1>2

\* There is an id with any number of ids after it that is less than all.
LEMMA AfterIsOnto ==
  ASSUME NEW ids \in SUBSET Nat, IsFiniteSet(ids),
         NEW k \in 0 .. Cardinality(ids) - 1
  PROVE  \E i \in ids : After(ids, i) = k
<1> DEFINE T == 0 .. Cardinality(ids) - 1
           f == [i \in ids |-> After(ids, i)]
<1>1. Cardinality(ids) \in Nat
  BY FS_CardinalityType
<1>2. IsFiniteSet(T) /\ Cardinality(T) = Cardinality(ids)
  BY <1>1, FS_Interval
<1>3. f \in Injection(ids, T)
  <2>1. f \in [ids -> T]
    BY AfterIsOrder
  <2>2. \A i, j \in ids : f[i] = f[j] => i = j
    <3> SUFFICES ASSUME NEW i \in ids, NEW j \in ids, i # j PROVE f[i] # f[j]
      OBVIOUS
    <3>1. i < j \/ j < i
      OBVIOUS
    <3>2. f[i] \in Nat /\ f[j] \in Nat
      BY <1>1, AfterIsOrder
    <3> QED BY <3>1, <3>2, AfterIsOrder
  <2> QED BY <2>1, <2>2 DEF Injection, IsInjective
<1> HIDE DEF f, T
<1>4. f \in Surjection(ids, T)
  BY <1>2, <1>3, FS_Injection
<1> QED BY <1>4 DEF Surjection, f, T

\* How many rows are looked at.
Width(ids) == IF Cardinality(ids) < ChartSize THEN Cardinality(ids) ELSE ChartSize

\* A sequence is a function from its indices.
LEMMA FunctionIsSeq ==
  ASSUME NEW S, NEW n \in Nat, NEW f \in [1 .. n -> S]
  PROVE  f \in Seq(S) /\ Len(f) = n /\ DOMAIN f = 1 .. n
  OBVIOUS

\* The k-th row of the page has k - 1 rows after it.
LEMMA PageIs ==
  ASSUME NEW ids \in SUBSET Nat, IsFiniteSet(ids), ids # {}
  PROVE  LET page == FindProductLatestPrices(ids)
             n    == Width(ids)
         IN  /\ n \in Nat \ {0} /\ n <= Cardinality(ids) /\ n <= ChartSize
             /\ page \in [1 .. n -> ids]
             /\ \A k \in 1 .. n : After(ids, page[k]) = k - 1
<1> DEFINE page == FindProductLatestPrices(ids)
           n    == Width(ids)
<1>1. /\ n \in Nat \ {0} /\ n <= Cardinality(ids) /\ n <= ChartSize
      /\ Cardinality(ids) \in Nat
  BY FS_CardinalityType, FS_EmptySet, StatsAssumption DEF Width
<1>2. page = [k \in 1 .. n |-> CHOOSE i \in ids : After(ids, i) = k - 1]
  BY PageOf DEF Width
<1> HIDE DEF page, n
<1>3. ASSUME NEW k \in 1 .. n PROVE page[k] \in ids /\ After(ids, page[k]) = k - 1
  <2>1. k - 1 \in 0 .. Cardinality(ids) - 1
    BY <1>1
  <2>2. \E i \in ids : After(ids, i) = k - 1
    BY <2>1, AfterIsOnto
  <2> QED BY <1>2, <2>2
<1>4. page \in [1 .. n -> ids]
  BY <1>2, <1>3
<1> QED BY <1>1, <1>3, <1>4 DEF page, n

\* The rows from the oldest to the newest: after the i-th come those behind it.
LEMMA ChartIs ==
  ASSUME NEW ids \in SUBSET Nat, IsFiniteSet(ids), ids # {}
  PROVE  LET rows == Chart(FindProductLatestPrices(ids))
             n    == Width(ids)
         IN  /\ n \in Nat \ {0} /\ n <= Cardinality(ids) /\ n <= ChartSize
             /\ rows \in [1 .. n -> ids]
             /\ rows \in Seq(ids) /\ Len(rows) = n /\ DOMAIN rows = 1 .. n
             /\ \A i \in 1 .. n : After(ids, rows[i]) = n - i
<1> DEFINE page == FindProductLatestPrices(ids)
           n    == Width(ids)
           rows == Chart(page)
<1>1. /\ n \in Nat \ {0} /\ n <= Cardinality(ids) /\ n <= ChartSize
      /\ page \in [1 .. n -> ids]
      /\ \A k \in 1 .. n : After(ids, page[k]) = k - 1
  BY PageIs
<1> HIDE DEF page, n
<1>2. Len(page) = n /\ DOMAIN page = 1 .. n
  BY <1>1, FunctionIsSeq
<1>3. ASSUME NEW i \in 1 .. n PROVE rows[i] = page[n + 1 - i]
  <2> DEFINE half == n \div 2
  <2>1. half \in Nat /\ (n = 2 * half \/ n = 2 * half + 1)
    BY <1>1
  <2>2. rows[i] = IF i <= half \/ i > n - half THEN page[n + 1 - i] ELSE page[i]
    BY <1>2 DEF Chart
  <2> HIDE DEF half
  <2>3. i <= half \/ i > n - half \/ n + 1 - i = i
    BY <1>1, <2>1
  <2> QED BY <2>2, <2>3
<1>4. rows = [i \in 1 .. n |-> rows[i]]
  BY <1>2 DEF Chart
<1> HIDE DEF rows
<1>5. \A i \in 1 .. n : n + 1 - i \in 1 .. n /\ (n + 1 - i) - 1 = n - i
  BY <1>1
<1>6. \A i \in 1 .. n : rows[i] \in ids /\ After(ids, rows[i]) = n - i
  BY <1>1, <1>3, <1>5
<1>7. rows \in [1 .. n -> ids]
  BY <1>4, <1>6
<1>8. rows \in Seq(ids) /\ Len(rows) = n /\ DOMAIN rows = 1 .. n
  BY <1>1, <1>7, FunctionIsSeq
<1> QED BY <1>1, <1>6, <1>7, <1>8 DEF rows, page, n

\* What the pass knows after k rows, from what a says of fewer.
Passed(rows, a, k) ==
    IF k = 0 THEN [min |-> 0, max |-> 0, total |-> 0]
    ELSE [min   |-> IF k = 1 \/ price[rows[k]] < a[k - 1].min THEN price[rows[k]] ELSE a[k - 1].min,
          max   |-> IF k = 1 \/ price[rows[k]] > a[k - 1].max THEN price[rows[k]] ELSE a[k - 1].max,
          total |-> a[k - 1].total + price[rows[k]]]

\* The pass is well defined: there is a function that satisfies its recursion.
LEMMA PassIs ==
  ASSUME NEW rows, Len(rows) \in Nat
  PROVE  \E a : /\ a = [k \in 0 .. Len(rows) |-> Passed(rows, a, k)]
               /\ Pass(rows) = a[Len(rows)]
<1> DEFINE Is(a, n) == a = [k \in 0 .. n |-> Passed(rows, a, k)]
           S == {n \in Nat : \E a : Is(a, n)}
<1>1. 0 \in S
  <2> DEFINE a == [k \in 0 .. 0 |-> [min |-> 0, max |-> 0, total |-> 0]]
  <2>1. [k \in 0 .. 0 |-> Passed(rows, a, k)] = a
    BY DEF Passed
  <2> HIDE DEF a
  <2>2. Is(a, 0)
    BY <2>1
  <2> QED BY <2>2
<1>2. ASSUME NEW n \in Nat, n \in S PROVE n + 1 \in S
  <2>1. PICK a : Is(a, n)
    BY <1>2
  <2> DEFINE b == [k \in 0 .. n + 1 |-> IF k = n + 1 THEN Passed(rows, a, k) ELSE a[k]]
  <2>2. \A k \in 0 .. n : b[k] = a[k]
    OBVIOUS
  <2>3. \A k \in 0 .. n + 1 : Passed(rows, b, k) = Passed(rows, a, k)
    <3> HIDE DEF b
    <3> SUFFICES ASSUME NEW k \in 0 .. n + 1 PROVE Passed(rows, b, k) = Passed(rows, a, k)
      OBVIOUS
    <3>1. k # 0 => b[k - 1] = a[k - 1]
      BY <2>2
    <3> QED BY <3>1 DEF Passed
  <2>4. \A k \in 0 .. n : a[k] = Passed(rows, a, k)
    BY <2>1
  <2>5. \A k \in 0 .. n + 1 : b[k] = Passed(rows, b, k)
    <3>1. \A k \in 0 .. n + 1 : b[k] = IF k = n + 1 THEN Passed(rows, a, k) ELSE a[k]
      OBVIOUS
    <3> HIDE DEF b
    <3> QED BY <2>3, <2>4, <3>1
  <2>6. b = [k \in 0 .. n + 1 |-> b[k]]
    OBVIOUS
  <2> HIDE DEF b
  <2>7. Is(b, n + 1)
    BY <2>5, <2>6
  <2> QED BY <2>7
<1>3. Len(rows) \in S
  <2> HIDE DEF S
  <2> QED BY <1>1, <1>2, NatSet
<1>4. PICK c : Is(c, Len(rows))
  BY <1>3
<1> DEFINE a == CHOOSE a : Is(a, Len(rows))
<1>5. Is(a, Len(rows))
  <2> HIDE DEF Is
  <2> QED BY <1>4
<1>6. Pass(rows) = a[Len(rows)]
  BY DEF Pass, Passed
<1> HIDE DEF a
<1> QED BY <1>5, <1>6

\* Products keep the order.
LEMMA TimesKeepsOrder ==
  ASSUME NEW k \in Nat, NEW x \in Nat, NEW y \in Nat, x <= y
  PROVE  k * x <= k * y /\ k * x \in Nat /\ k * y \in Nat
  OBVIOUS

\* m and g are the least and the greatest price of the first k rows, and the
\* sum of these is between k times one and k times the other.
Bounds(rows, k, m, g, t) ==
    /\ m \in Nat /\ g \in Nat /\ t \in Nat
    /\ \E i \in 1 .. k : m = price[rows[i]]
    /\ \E i \in 1 .. k : g = price[rows[i]]
    /\ \A i \in 1 .. k : m <= price[rows[i]] /\ price[rows[i]] <= g
    /\ k * m <= t /\ t <= k * g

\* One more row.
LEMMA BoundsStep ==
  ASSUME NEW rows, NEW k \in Nat, \A i \in 1 .. k + 1 : price[rows[i]] \in Nat,
         NEW m, NEW g, NEW t, Bounds(rows, k, m, g, t),
         NEW p, p = price[rows[k + 1]]
  PROVE  Bounds(rows, k + 1, IF p < m THEN p ELSE m, IF p > g THEN p ELSE g, t + p)
<1> DEFINE low  == IF p < m THEN p ELSE m
           high == IF p > g THEN p ELSE g
<1>1. /\ p \in Nat /\ m \in Nat /\ g \in Nat /\ t \in Nat
      /\ k * m <= t /\ t <= k * g
  BY DEF Bounds
<1>2. /\ low \in Nat /\ low <= m /\ low <= p /\ (low = m \/ low = p)
      /\ high \in Nat /\ g <= high /\ p <= high /\ (high = g \/ high = p)
  BY <1>1
<1> HIDE DEF low, high
<1>3. /\ \E i \in 1 .. k + 1 : low = price[rows[i]]
      /\ \E i \in 1 .. k + 1 : high = price[rows[i]]
  BY <1>2 DEF Bounds
<1>4. \A i \in 1 .. k + 1 : low <= price[rows[i]] /\ price[rows[i]] <= high
  <2> SUFFICES ASSUME NEW i \in 1 .. k + 1
               PROVE  low <= price[rows[i]] /\ price[rows[i]] <= high
    OBVIOUS
  <2>1. price[rows[i]] \in Nat /\ (i = k + 1 \/ i \in 1 .. k)
    OBVIOUS
  <2> QED BY <1>1, <1>2, <2>1 DEF Bounds
<1>5. (k + 1) * low <= t + p /\ t + p <= (k + 1) * high
  <2>1. /\ k * low <= k * m /\ k * low \in Nat /\ k * m \in Nat
        /\ k * g <= k * high /\ k * g \in Nat /\ k * high \in Nat
    BY <1>1, <1>2, TimesKeepsOrder
  <2>2. (k + 1) * low = k * low + low /\ (k + 1) * high = k * high + high
    BY <1>2
  <2> QED BY <1>1, <1>2, <2>1, <2>2
<1> QED BY <1>1, <1>2, <1>3, <1>4, <1>5 DEF Bounds, low, high

\* What setPriceMinMaxMean finds.
LEMMA PassFinds ==
  ASSUME NEW rows, Len(rows) \in Nat \ {0},
         \A i \in 1 .. Len(rows) : price[rows[i]] \in Nat
  PROVE  Bounds(rows, Len(rows), Pass(rows).min, Pass(rows).max, Pass(rows).total)
<1> DEFINE n == Len(rows)
<1>1. PICK a : a = [k \in 0 .. n |-> Passed(rows, a, k)] /\ Pass(rows) = a[n]
  BY PassIs
<1> DEFINE Q(k) == Bounds(rows, k, a[k].min, a[k].max, a[k].total)
           S == {k \in Nat : k \in 1 .. n => Q(k)}
<1>2. 0 \in S
  OBVIOUS
<1>3. ASSUME NEW k \in Nat, k \in S PROVE k + 1 \in S
  <2> SUFFICES ASSUME k + 1 \in 1 .. n PROVE Q(k + 1)
    OBVIOUS
  <2> DEFINE p == price[rows[k + 1]]
  <2>1. a[k + 1] = Passed(rows, a, k + 1) /\ p \in Nat
    BY <1>1
  <2>2. (k + 1) - 1 = k /\ k + 1 # 0
    OBVIOUS
  <2>3. CASE k = 0
    <3>1. a[k] = Passed(rows, a, 0)
      BY <1>1, <2>3
    <3>2. /\ a[k + 1].min = p /\ a[k + 1].max = p /\ a[k + 1].total = p
      BY <2>1, <2>2, <2>3, <3>1 DEF Passed
    <3> QED BY <2>1, <2>3, <3>2 DEF Bounds
  <2>4. CASE k # 0
    <3>1. Q(k)
      BY <1>3, <2>4
    <3>2. /\ a[k + 1].min = IF p < a[k].min THEN p ELSE a[k].min
          /\ a[k + 1].max = IF p > a[k].max THEN p ELSE a[k].max
          /\ a[k + 1].total = a[k].total + p
      BY <2>1, <2>2, <2>4 DEF Passed
    <3>3. \A i \in 1 .. k + 1 : price[rows[i]] \in Nat
      OBVIOUS
    <3> HIDE DEF p
    <3> QED BY <3>1, <3>2, <3>3, BoundsStep DEF p
  <2> QED BY <2>3, <2>4
<1>4. n \in S
  <2> HIDE DEF S
  <2> QED BY <1>2, <1>3, NatSet
<1> QED BY <1>1, <1>4

\* The quotient is the greatest number that fits.
LEMMA Quotient ==
  ASSUME NEW x \in Nat, NEW d \in Nat \ {0}
  PROVE  /\ x \div d \in Nat
         /\ d * (x \div d) <= x /\ x < d * ((x \div d) + 1)
         /\ \A k \in Nat : d * k <= x => k <= x \div d
         /\ \A k \in Nat : x < d * (k + 1) => x \div d <= k
<1> DEFINE q == x \div d
<1>1. q \in Nat /\ x % d \in 0 .. d - 1 /\ x = d * q + (x % d)
  OBVIOUS
<1> HIDE DEF q
<1>2. d * (q + 1) = d * q + d /\ d * q \in Nat
  BY <1>1
<1>3. d * q <= x /\ x < d * (q + 1)
  BY <1>1, <1>2
<1>4. ASSUME NEW k \in Nat, d * k <= x, q < k PROVE FALSE
  <2>1. d * (q + 1) <= d * k /\ d * (q + 1) \in Nat /\ d * k \in Nat
    BY <1>1, <1>4, TimesKeepsOrder
  <2> QED BY <1>3, <1>4, <2>1
<1>5. ASSUME NEW k \in Nat, x < d * (k + 1), k < q PROVE FALSE
  <2>1. d * (k + 1) <= d * q /\ d * (k + 1) \in Nat /\ d * q \in Nat
    BY <1>1, <1>5, TimesKeepsOrder
  <2> QED BY <1>3, <1>5, <2>1
<1> QED BY <1>1, <1>3, <1>4, <1>5 DEF q

\* Cutting prices off keeps their order.
LEMMA CutKeepsOrder ==
  ASSUME NEW x \in Nat, NEW y \in Nat, x <= y
  PROVE  Cut(x) \in Nat /\ Cut(y) \in Nat /\ Cut(x) <= Cut(y)
<1> DEFINE q == Cut(x)
<1>1. q \in Nat /\ Cut(y) \in Nat /\ Unit * q <= x /\ Unit * q \in Nat
  BY Quotient, StatsAssumption DEF Cut
<1> HIDE DEF q
<1>2. Unit * q <= y
  BY <1>1
<1>3. q <= Cut(y)
  BY <1>1, <1>2, Quotient, StatsAssumption DEF Cut
<1> QED BY <1>1, <1>3 DEF q

\* A mean of prices between m and g is between them, but for the rounding.
LEMMA MeanIsBetween ==
  ASSUME NEW n \in Nat \ {0}, NEW m \in Nat, NEW g \in Nat, NEW t \in Nat,
         n * m <= t, t <= n * g
  PROVE  Cut(m) <= Rounded(t, n) /\ Rounded(t, n) <= Cut(g) + 1
<1> DEFINE q == Cut(m)
           h == Cut(g)
           D == 2 * n * Unit
           N == 2 * t + n * Unit
<1>1. /\ q \in Nat /\ Unit * q <= m /\ Unit * q \in Nat
      /\ h \in Nat /\ g < Unit * (h + 1) /\ Unit * (h + 1) \in Nat
  BY Quotient, StatsAssumption DEF Cut
<1>2. n * Unit \in Nat \ {0} /\ D = 2 * (n * Unit) /\ D \in Nat \ {0} /\ N \in Nat
  BY StatsAssumption
<1> HIDE DEF q, h
<1>3. D * q <= N
  <2>1. n * (Unit * q) <= n * m /\ n * (Unit * q) \in Nat /\ n * m \in Nat
    BY <1>1, TimesKeepsOrder
  <2>2. D * q = 2 * (n * (Unit * q))
    BY <1>1, StatsAssumption
  <2> QED BY <1>2, <2>1, <2>2
<1>4. N < D * ((h + 1) + 1)
  <2>1. n * g <= n * (Unit * (h + 1)) /\ n * g \in Nat /\ n * (Unit * (h + 1)) \in Nat
    BY <1>1, TimesKeepsOrder
  <2>2. D * ((h + 1) + 1) = 2 * (n * (Unit * (h + 1))) + 2 * (n * Unit)
    BY <1>1, StatsAssumption
  <2> QED BY <1>2, <2>1, <2>2
<1>5. Rounded(t, n) = N \div D
  BY DEF Rounded
<1> HIDE DEF N, D
<1>6. q <= N \div D
  BY <1>1, <1>2, <1>3, Quotient
<1>7. N \div D <= h + 1
  <2>1. h + 1 \in Nat
    BY <1>1
  <2> QED BY <1>2, <1>4, <2>1, Quotient
<1> QED BY <1>5, <1>6, <1>7 DEF q, h

\* The rows of a product.
LEMMA LiveIsFinite == ASSUME TypeOK PROVE live \in SUBSET Nat /\ IsFiniteSet(live)
<1>1. Len(price) \in Nat /\ live \subseteq 1 .. Len(price)
  BY DEF TypeOK
<1>2. IsFiniteSet(1 .. Len(price))
  BY <1>1, FS_Interval
<1>3. live \in SUBSET (1 .. Len(price)) /\ live \subseteq Nat
  BY <1>1
<1> QED BY <1>2, <1>3, FS_Subset

\* The chart is of the newest rows, each once, in the order of their ids.
LEMMA ChartIsNewest ==
  ASSUME NEW ids \in SUBSET Nat, IsFiniteSet(ids), ids # {}
  PROVE  LET rows == Chart(FindProductLatestPrices(ids))
             shown == ToSet(rows)
         IN  /\ shown \subseteq ids /\ Len(rows) = Cardinality(shown)
             /\ Cardinality(shown) < ChartSize => shown = ids
             /\ Len(rows) <= ChartSize
             /\ \A i \in ids \ shown, k \in shown : i < k
             /\ \A i, j \in DOMAIN rows : i < j => rows[i] < rows[j]
             /\ rows[Len(rows)] = Latest(ids)
<1> DEFINE rows  == Chart(FindProductLatestPrices(ids))
           n     == Width(ids)
           shown == ToSet(rows)
<1>1. /\ n \in Nat \ {0} /\ n <= Cardinality(ids) /\ n <= ChartSize
      /\ rows \in [1 .. n -> ids]
      /\ Len(rows) = n /\ DOMAIN rows = 1 .. n
      /\ \A i \in 1 .. n : After(ids, rows[i]) = n - i
      /\ n < ChartSize => n = Cardinality(ids)
  BY ChartIs, StatsAssumption, FS_CardinalityType DEF Width
<1> HIDE DEF rows, n
<1>2. /\ \A i \in ids : After(ids, i) \in Nat
      /\ \A i, j \in ids : i < j => After(ids, j) < After(ids, i)
      /\ \A i, j \in ids : After(ids, i) < After(ids, j) => j < i
  <2>1. \A i \in ids : After(ids, i) \in 0 .. Cardinality(ids) - 1
    BY AfterIsOrder
  <2>2. \A i, j \in ids : i < j => After(ids, j) < After(ids, i)
    BY AfterIsOrder
  <2>3. \A i \in ids : i \in Nat /\ After(ids, i) \in Nat
    BY <2>1, FS_CardinalityType
  <2>4. ASSUME NEW i \in ids, NEW j \in ids, After(ids, i) < After(ids, j) PROVE j < i
    <3>1. j < i \/ i < j \/ i = j
      BY <2>3
    <3> QED BY <2>2, <2>3, <2>4, <3>1
  <2> QED BY <2>2, <2>3, <2>4
<1>3. shown = {rows[i] : i \in 1 .. n}
  BY <1>1 DEF ToSet
<1> HIDE DEF shown
<1>4. shown \subseteq ids
  BY <1>1, <1>3
<1>5. \A i, j \in 1 .. n : i < j => rows[i] < rows[j]
  <2> SUFFICES ASSUME NEW i \in 1 .. n, NEW j \in 1 .. n, i < j PROVE rows[i] < rows[j]
    OBVIOUS
  <2>1. After(ids, rows[j]) < After(ids, rows[i])
    BY <1>1
  <2> QED BY <1>1, <1>2, <2>1
<1>6. IsFiniteSet(shown) /\ Cardinality(shown) = n
  <2>1. rows \in Injection(1 .. n, shown)
    <3>1. rows \in [1 .. n -> shown]
      BY <1>1, <1>3
    <3>2. \A i, j \in 1 .. n : rows[i] = rows[j] => i = j
      <4> SUFFICES ASSUME NEW i \in 1 .. n, NEW j \in 1 .. n, i # j PROVE rows[i] # rows[j]
        OBVIOUS
      <4>0. i < j \/ j < i
        OBVIOUS
      <4>1. (i < j \/ j < i) /\ rows[i] \in ids /\ rows[j] \in ids
        BY <1>1, <4>0
      <4>2. rows[i] \in Nat /\ rows[j] \in Nat
        BY <4>1
      <4> QED BY <1>5, <4>1, <4>2
    <3> QED BY <1>1, <3>1, <3>2 DEF Injection, IsInjective
  <2>2. rows \in Surjection(1 .. n, shown)
    BY <1>1, <1>3 DEF Surjection
  <2>3. ExistsBijection(1 .. n, shown)
    BY <2>1, <2>2 DEF ExistsBijection, Bijection
  <2> QED BY <1>1, <2>3, FS_CountingElements, FS_NatBijection
<1>7. n < ChartSize => shown = ids
  BY <1>1, <1>4, <1>6, FS_Subset
<1>8. \A i \in ids \ shown, k \in shown : i < k
  <2> SUFFICES ASSUME NEW i \in ids \ shown, NEW k \in 1 .. n PROVE i < rows[k]
    BY <1>3
  <2>1. After(ids, i) \in Nat
    BY <1>2
  <2>2. CASE After(ids, i) < n
    <3> DEFINE h == n - After(ids, i)
    <3>1. h \in 1 .. n /\ After(ids, rows[h]) = After(ids, i)
      BY <1>1, <2>1, <2>2
    <3>2. rows[h] \in ids /\ rows[h] \in shown
      BY <1>1, <1>3, <3>1
    <3> HIDE DEF h
    <3>3. i \in ids /\ i # rows[h] /\ i \in Nat /\ rows[h] \in Nat
      BY <3>2
    <3>4. rows[h] < i \/ i < rows[h]
      BY <3>3
    <3>5. After(ids, i) < After(ids, rows[h]) \/ After(ids, rows[h]) < After(ids, i)
      BY <1>2, <3>2, <3>3, <3>4
    <3> QED BY <2>1, <3>1, <3>5
  <2>3. CASE ~(After(ids, i) < n)
    <3>1. After(ids, rows[k]) < After(ids, i)
      BY <1>1, <2>1, <2>3
    <3> QED BY <1>1, <1>2, <3>1
  <2> QED BY <2>2, <2>3
<1>9. rows[n] = Latest(ids)
  <2> DEFINE l == rows[n]
  <2>1. l \in ids /\ After(ids, l) = 0
    BY <1>1
  <2> HIDE DEF l
  <2>2. \A j \in ids : j <= l
    <3> SUFFICES ASSUME NEW j \in ids, l < j PROVE FALSE
      BY <2>1
    <3> QED BY <1>2, <2>1
  <2>3. \A i \in ids : (\A j \in ids : j <= i) => i = l
    BY <2>1, <2>2
  <2> QED BY <2>1, <2>2, <2>3 DEF Latest, l
<1> QED BY <1>1, <1>4, <1>5, <1>6, <1>7, <1>8, <1>9 DEF rows, shown

\* What the statistics say of any rows of a product.
LEMMA StatsAgree == TypeOK => StatsHold
<1> SUFFICES ASSUME TypeOK, live # {} PROVE StatsHold
  BY DEF StatsHold
<1> DEFINE rows  == Chart(FindProductLatestPrices(live))
           n     == Len(rows)
           a     == Pass(rows)
           s     == Stats(live)
           shown == ToSet(rows)
<1>1. live \in SUBSET Nat /\ IsFiniteSet(live) /\ live \subseteq 1 .. Len(price)
  BY LiveIsFinite DEF TypeOK
<1>2. /\ n \in Nat \ {0} /\ DOMAIN rows = 1 .. n /\ rows \in [1 .. n -> live]
  BY <1>1, ChartIs
<1>3. /\ shown \subseteq live /\ Len(rows) = Cardinality(shown)
      /\ Cardinality(shown) < ChartSize => shown = live
      /\ Len(rows) <= ChartSize
      /\ \A i \in live \ shown, k \in shown : i < k
      /\ \A i, j \in DOMAIN rows : i < j => rows[i] < rows[j]
      /\ rows[Len(rows)] = Latest(live)
  BY <1>1, ChartIsNewest
<1>4. /\ s.rows = rows
      /\ s.MinPrice = Cut(a.min) /\ s.MaxPrice = Cut(a.max)
      /\ s.MeanPrice = Rounded(a.total, n)
      /\ s.Chart = [i \in DOMAIN rows |-> Cut(price[rows[i]])]
  BY DEF Stats
<1> HIDE DEF rows, a, s
<1>5. \A i \in 1 .. n : price[rows[i]] \in Nat
  <2>1. \A i \in 1 .. n : rows[i] \in 1 .. Len(price)
    BY <1>1, <1>2
  <2>2. price \in [1 .. Len(price) -> Price]
    BY DEF TypeOK
  <2> QED BY <2>1, <2>2, StatsAssumption
<1>6. Bounds(rows, n, a.min, a.max, a.total)
  BY <1>2, <1>5, PassFinds DEF a
<1> HIDE DEF n
<1>7. s.Chart = [i \in 1 .. n |-> Cut(price[rows[i]])] /\ Len(s.Chart) = n
  <2>1. s.Chart = [i \in 1 .. n |-> Cut(price[rows[i]])]
    BY <1>2, <1>4
  <2>2. \A i \in 1 .. n : Cut(price[rows[i]]) \in Nat
    BY <1>5, CutKeepsOrder
  <2>3. s.Chart \in [1 .. n -> Nat]
    BY <2>1, <2>2
  <2> QED BY <1>2, <2>1, <2>3, FunctionIsSeq
<1>8. ToSet(s.Chart) = {Cut(price[rows[i]]) : i \in 1 .. n}
  BY <1>7 DEF ToSet
<1>9. s.Chart[Len(s.Chart)] = Cut(price[Latest(live)])
  BY <1>2, <1>3, <1>7 DEF n
<1>10. {s.MinPrice, s.MaxPrice} \subseteq ToSet(s.Chart)
  <2>1. /\ \E i \in 1 .. n : a.min = price[rows[i]]
        /\ \E i \in 1 .. n : a.max = price[rows[i]]
    BY <1>6 DEF Bounds
  <2> QED BY <1>4, <1>8, <2>1
<1>11. \A p \in ToSet(s.Chart) : s.MinPrice <= p /\ p <= s.MaxPrice
  <2> SUFFICES ASSUME NEW i \in 1 .. n
               PROVE  /\ Cut(a.min) <= Cut(price[rows[i]])
                      /\ Cut(price[rows[i]]) <= Cut(a.max)
    BY <1>4, <1>8
  <2> QED BY <1>5, <1>6, CutKeepsOrder DEF Bounds
<1>12. s.MinPrice <= s.MeanPrice /\ s.MeanPrice <= s.MaxPrice + 1
  BY <1>2, <1>4, <1>6, MeanIsBetween DEF Bounds
<1> QED
  BY <1>3, <1>4, <1>9, <1>10, <1>11, <1>12 DEF StatsHold, s, n

\* However the history was inserted and thinned out, and whatever row GROUP BY
\* answers, chart, least, greatest and mean price agree with the newest rows.
THEOREM StatisticsAgree == Spec => []StatsHold
  BY TypeCorrect, StatsAgree, PTL

\* A product that has prices has a latest one.
LEMMA LatestIs ==
  ASSUME NEW ids \in SUBSET Nat, IsFiniteSet(ids), ids # {}
  PROVE  Latest(ids) \in ids /\ \A j \in ids : j <= Latest(ids)
<1>1. Cardinality(ids) \in Nat \ {0}
  BY FS_CardinalityType, FS_EmptySet
<1>2. PICK i \in ids : After(ids, i) = 0
  BY <1>1, AfterIsOnto
<1>3. ASSUME NEW j \in ids, ~(j <= i) PROVE FALSE
  <2>1. i < j
    BY <1>3
  <2>2. After(ids, j) < After(ids, i) /\ After(ids, j) \in 0 .. Cardinality(ids) - 1
    BY <2>1, AfterIsOrder
  <2> QED BY <1>1, <1>2, <2>2
<1> QED BY <1>2, <1>3 DEF Latest

\* A clean-up that saw all rows takes the latest price away only if an older
\* row had it: one that is new to the product stays the latest.
NewPriceKept ==
    [][\A c \in Cleaner :
          /\ Delete(c) /\ seen[c] = Len(price) /\ live # {}
          /\ \A i \in live : price[i] = price[Latest(live)] => i = Latest(live)
          => live' # {} /\ Latest(live') = Latest(live)]_vars

\* The test of the handler (queue/scheduled_task_handler_test.go:61, 86) holds
\* of a product whose latest price it never had before.
THEOREM NewPriceStaysLatest == ASSUME ~AnyRow PROVE Spec => NewPriceKept
<1>1. IInv => [\A c \in Cleaner :
          /\ Delete(c) /\ seen[c] = Len(price) /\ live # {}
          /\ \A i \in live : price[i] = price[Latest(live)] => i = Latest(live)
          => live' # {} /\ Latest(live') = Latest(live)]_vars
  <2> DEFINE l == Latest(live)
  <2> SUFFICES ASSUME IInv, NEW c \in Cleaner, Delete(c),
                      seen[c] = Len(price), live # {},
                      \A i \in live : price[i] = price[l] => i = l
               PROVE  live' # {} /\ Latest(live') = l
    OBVIOUS
  <2>1. live \in SUBSET Nat /\ IsFiniteSet(live) /\ live \subseteq 1 .. Len(price)
    BY LiveIsFinite DEF IInv, TypeOK
  <2>2. l \in live /\ \A j \in live : j <= l
    BY <2>1, LatestIs
  <2>3. Covers(c) /\ live' = live \cap keep[c]
    BY DEF IInv, Delete
  <2> HIDE DEF l
  <2>4. l <= seen[c]
    BY <2>1, <2>2
  <2>5. PICK k \in keep[c] \cap live : price[k] = price[l]
    BY <2>2, <2>3, <2>4 DEF Covers
  <2>6. l \in live' /\ \A j \in live' : j <= l
    BY <2>2, <2>3, <2>5
  <2>7. live' \in SUBSET Nat /\ IsFiniteSet(live') /\ live' # {}
    BY <2>1, <2>3, <2>6, FS_Subset
  <2>8. Latest(live') \in live' /\ \A j \in live' : j <= Latest(live')
    BY <2>7, LatestIs
  <2>9. l \in Nat /\ Latest(live') \in Nat
    BY <2>6, <2>7, <2>8
  <2> QED BY <2>6, <2>7, <2>8, <2>9
<1> QED BY <1>1, Invariance, PTL DEF NewPriceKept
==============================================================================
