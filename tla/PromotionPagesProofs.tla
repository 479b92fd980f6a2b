-------------------------- MODULE PromotionPagesProofs --------------------------
(***************************************************************************)
(* Theorems of PromotionPages, for any number of users, rows, promotions   *)
(* and failures, and pages of any size, and of the pages and the price     *)
(* history side by side.                                                   *)
(***************************************************************************)
EXTENDS MCGatewayReads, PriceHistoryProofs, SequenceTheorems

USE PagesAssumption DEF Promotion

(***************************************************************************)
(* The inductive invariant.                                                *)
(***************************************************************************)

\* The items of a promotion from page n on, those that are shown.
From(d, n) == Existing({list[d][k] : k \in Beyond(list[d], n)})

\* Page n has been read and is cached, on its way, or shown.
Known(n, a) ==
    \/ n \in Number /\ cache[n] # None /\ a = cache[n]
    \/ \E r \in Request :
          at[r] \in {"count", "products", "set", "shown"} /\ n = page[r] /\ a = answer[r]

\* No more rows than were inserted, and as many products as can be counted.
Counted ==
    /\ IsFiniteSet(stored)
    /\ \A d \in Promotion : Len(list[d]) <= inserted

\* A user begins with the first page, and rows are read of a promotion.
Steps ==
    \A r \in Request :
        /\ at[r] = "idle" => page[r] = 0
        /\ at[r] \in {"rows", "count"} => answer[r].of \in Promotion

\* What stood behind a page when it was read still stands behind it; and as long
\* as the tables are as they were, the page shows what they have.
Read(n, a) ==
    /\ a.of \in Promotion
    /\ a.asof <= Moment
    /\ a.last => a.rest = {}
    /\ a.rest \subseteq From(a.of, n + 1)
    /\ a.asof = Moment => From(a.of, n) \subseteq a.items \cup a.rest

\* What stood behind page a is on page b, the next, or stood behind that one too.
Continues(a, b) ==
    a.of = b.of /\ a.asof <= b.asof => a.rest \subseteq b.items \cup b.rest

\* A page that is not the last was full, and those read without failure agree.
PagesRead ==
    \A n \in Nat, a \in Answer : Known(n, a) =>
        /\ ~a.last => (n + 1) * Size <= inserted
        /\ a.clean =>
              /\ Read(n, a)
              /\ \A b \in Answer : Known(n + 1, b) /\ b.clean => Continues(a, b)

Left(r) == walk[r].due \ walk[r].seen

Going == {"get", "find", "rows", "count", "products", "set"}

\* What an orderly walk has not seen stands behind the pages it has seen, and on
\* any page it may see next, or behind it.
WalkRead(r) ==
    walk[r].orderly =>
        /\ walk[r].asof <= Moment
        /\ at[r] \in Going =>
              /\ Left(r) # {} =>
                    walk[r].of \in Promotion /\ Left(r) \subseteq From(walk[r].of, page[r])
              /\ \A b \in Answer : Known(page[r], b) /\ Follows(walk[r], b) =>
                    Left(r) \subseteq b.items \cup b.rest
        /\ at[r] = "shown" =>
              /\ answer[r].clean /\ answer[r].of = walk[r].of
              /\ answer[r].asof = walk[r].asof
              /\ Left(r) \subseteq answer[r].rest

WalksRead == \A r \in Request : WalkRead(r)

\* The rows that the SELECT of a page saw are still there, and the page numbers.
CountsAgree(n, a) ==
    /\ a.rows <= Len(list[a.of])
    /\ IF a.last THEN a.rows < (n + 1) * Size ELSE (n + 1) * Size <= a.rows

Numbered(n, a) ==
    a.clean => IF a.last THEN (a.pages - (n + 1) - 1) * Size < a.came ELSE n + 1 < a.pages

Numbers ==
    /\ \A n \in Number : cache[n] # None => Numbered(n, cache[n])
    /\ \A r \in Request :
          /\ at[r] = "count" /\ answer[r].clean =>
                CountsAgree(page[r], answer[r])
          /\ at[r] \in {"products", "set", "shown"} => Numbered(page[r], answer[r])

PagesIInv == PagesTypeOK /\ Counted /\ Steps /\ PagesRead /\ WalksRead /\ Numbers
-----------------------------------------------------------------------------
(***************************************************************************)
(* Pages and rows.                                                         *)
(***************************************************************************)

\* Whole pages that fit into M rows, and those that do not.
LEMMA PagesFit ==
  ASSUME NEW M \in Nat, NEW n \in Nat
  PROVE  /\ M \div Size \in Nat
         /\ n * Size <= M => n <= M \div Size
         /\ M < n * Size => M \div Size < n
<1>1. /\ M = Size * (M \div Size) + (M % Size)
      /\ M % Size \in 0 .. Size - 1
      /\ M \div Size \in Nat
  OBVIOUS
<1>2. ASSUME n * Size <= M, M \div Size + 1 <= n PROVE FALSE
  <2>1. (M \div Size + 1) * Size <= n * Size
    BY <1>1, <1>2
  <2> QED BY <1>1, <1>2, <2>1
<1>3. ASSUME M < n * Size, n <= M \div Size PROVE FALSE
  <2>1. n * Size <= (M \div Size) * Size
    BY <1>1, <1>3
  <2> QED BY <1>1, <1>3, <2>1
<1> QED BY <1>1, <1>2, <1>3

\* The numbers of pages are numbers.
LEMMA NumberType == PagesTypeOK => Number \subseteq Nat /\ 0 \in Number /\ MaxListed[kind] \in Nat
  BY PagesFit DEF PagesTypeOK, Number

\* A page has Size rows if there are so many, and otherwise nothing stands behind
\* it; every row from the page on is on it or behind it.
LEMMA PageOfRows ==
  ASSUME NEW s \in Seq(Item), NEW n \in Nat
  PROVE  /\ Cardinality(Window(s, n)) < Size <=> Len(s) < (n + 1) * Size
         /\ Len(s) < (n + 1) * Size => Beyond(s, n + 1) = {}
         /\ Beyond(s, n) \subseteq Window(s, n) \cup Beyond(s, n + 1)
<1> DEFINE lo == n * Size
           hi == (n + 1) * Size
<1>1. lo \in Nat /\ hi \in Nat /\ hi = lo + Size
  OBVIOUS
<1>2. Window(s, n) = {k \in 1 .. Len(s) : lo <= Len(s) - k /\ Len(s) - k < hi}
  BY DEF Window
<1>3. Beyond(s, n + 1) = {k \in 1 .. Len(s) : hi <= Len(s) - k}
  BY DEF Beyond
<1>4. Beyond(s, n) = {k \in 1 .. Len(s) : lo <= Len(s) - k}
  BY DEF Beyond
<1> HIDE DEF lo, hi
<1>5. CASE hi <= Len(s)
  <2>1. Window(s, n) = (Len(s) - hi + 1) .. (Len(s) - lo)
    BY <1>1, <1>2, <1>5
  <2>2. Cardinality(Window(s, n)) = Size
    BY <1>1, <1>5, <2>1, FS_Interval
  <2> QED BY <1>1, <1>2, <1>3, <1>4, <1>5, <2>2 DEF hi
<1>6. CASE Len(s) < hi
  <2>1. Window(s, n) = 1 .. (Len(s) - lo)
    BY <1>1, <1>2, <1>6
  <2>2. Len(s) \in Nat /\ Len(s) - lo \in Int
    BY <1>1
  <2>3. Cardinality(1 .. (Len(s) - lo)) = IF 1 > Len(s) - lo THEN 0 ELSE Len(s) - lo
    BY <2>2, FS_Interval
  <2>4. Cardinality(Window(s, n)) < Size
    BY <1>1, <1>6, <2>1, <2>2, <2>3
  <2> QED BY <1>1, <1>2, <1>3, <1>4, <1>6, <2>4 DEF hi
<1> QED BY <1>1, <1>5, <1>6

\* A row that is inserted moves others further from the end, never nearer.
LEMMA InsertedRow ==
  ASSUME NEW s \in Seq(Item), NEW i \in Item, NEW k \in 0 .. Len(s)
  PROVE  LET t == SubSeq(s, 1, k) \o <<i>> \o SubSeq(s, k + 1, Len(s))
         IN  /\ t \in Seq(Item) /\ Len(t) = Len(s) + 1
             /\ \A j \in 1 .. Len(s) : \E m \in 1 .. Len(t) :
                   t[m] = s[j] /\ Len(s) - j <= Len(t) - m
<1> DEFINE a == SubSeq(s, 1, k)
           b == SubSeq(s, k + 1, Len(s))
           ai == a \o <<i>>
           t == ai \o b
<1>1. a \in Seq(Item) /\ Len(a) = k /\ \A j \in 1 .. k : a[j] = s[j]
  BY SubSeqProperties
<1>2. /\ b \in Seq(Item) /\ Len(b) = Len(s) - k
      /\ \A j \in 1 .. Len(s) - k : b[j] = s[k + j]
  BY SubSeqProperties
<1>3. <<i>> \in Seq(Item) /\ Len(<<i>>) = 1
  OBVIOUS
<1> HIDE DEF a, b
<1>4. ai \in Seq(Item) /\ Len(ai) = k + 1 /\ \A j \in 1 .. k : ai[j] = s[j]
  BY <1>1, <1>3, ConcatProperties
<1> HIDE DEF ai
<1>6. /\ t \in Seq(Item) /\ Len(t) = Len(ai) + Len(b)
      /\ \A j \in 1 .. Len(ai) + Len(b) : t[j] = IF j <= Len(ai) THEN ai[j] ELSE b[j - Len(ai)]
  BY <1>2, <1>4, ConcatProperties
<1> HIDE DEF t
<1>7. /\ Len(t) = Len(s) + 1
      /\ \A j \in 1 .. Len(s) : \E m \in 1 .. Len(t) :
            t[m] = s[j] /\ Len(s) - j <= Len(t) - m
  <2>1. Len(s) \in Nat /\ k \in Nat /\ k <= Len(s) /\ Len(t) = Len(s) + 1
    BY <1>2, <1>4, <1>6
  <2>2. ASSUME NEW j \in 1 .. Len(s)
        PROVE  \E m \in 1 .. Len(t) : t[m] = s[j] /\ Len(s) - j <= Len(t) - m
    <3>1. CASE j <= k
      <4>1. /\ j \in 1 .. Len(t) /\ j <= Len(ai) /\ j \in 1 .. k
            /\ Len(s) - j <= Len(t) - j
        BY <1>4, <2>1, <3>1
      <4>2. t[j] = ai[j] /\ ai[j] = s[j]
        BY <1>4, <1>6, <4>1
      <4> QED BY <4>1, <4>2
    <3>2. CASE ~(j <= k)
      <4>1. /\ j + 1 \in 1 .. Len(t) /\ ~(j + 1 <= Len(ai))
            /\ j - k \in 1 .. Len(s) - k
        BY <1>4, <2>1, <3>2
      <4>2. t[j + 1] = b[j - k] /\ b[j - k] = s[k + (j - k)]
        BY <1>2, <1>4, <1>6, <2>1, <4>1
      <4> QED BY <2>1, <4>1, <4>2
    <3> QED BY <3>1, <3>2
  <2> QED BY <2>1, <2>2
<1> QED BY <1>6, <1>7 DEF t, ai, a, b

-----------------------------------------------------------------------------
(***************************************************************************)
(* Rows and products are inserted.                                         *)
(***************************************************************************)

\* Moments are numbers.
LEMMA MomentType == PagesTypeOK /\ Counted => Moment \in Nat
<1> SUFFICES ASSUME PagesTypeOK, Counted PROVE Moment \in Nat
  OBVIOUS
<1>1. Cardinality(stored) \in Nat
  BY FS_CardinalityType DEF Counted
<1> QED BY <1>1 DEF PagesTypeOK, Moment

\* The tables have grown: a new moment, and what stands behind a page stands there.
Grown ==
    /\ PagesTypeOK' /\ Counted'
    /\ Moment' = Moment + 1
    /\ inserted <= inserted'
    /\ \A d \in Promotion : Len(list[d]) <= Len(list'[d])
    /\ \A d \in Promotion, n \in Nat : From(d, n) \subseteq From(d, n)'
    /\ UNCHANGED <<kind, cache, at, page, answer, walk>>

LEMMA PromoteGrows == PagesIInv /\ Promote => Grown
<1> SUFFICES ASSUME PagesIInv, Promote PROVE Grown
  OBVIOUS
<1> USE DEF PagesIInv
<1>1. UNCHANGED <<kind, list, inserted, stored, cache, at, page, answer, walk, failures>>
  BY DEF Promote
<1>2. newest \in Nat /\ newest' = newest + 1 /\ newest' \in 0 .. MaxPromotions
  BY DEF Promote, PagesTypeOK
<1>3. PagesTypeOK' /\ Counted'
  BY <1>1, <1>2 DEF PagesTypeOK, Counted, Number, Kinds
<1>4. Moment' = Moment + 1
  <2>1. Cardinality(stored) \in Nat
    BY FS_CardinalityType DEF Counted
  <2> QED BY <1>1, <1>2, <2>1 DEF Moment, PagesTypeOK
<1>5. \A d \in Promotion, n \in Nat : From(d, n) = From(d, n)'
  BY <1>1 DEF From, Existing, Beyond
<1>6. inserted <= inserted' /\ \A d \in Promotion : Len(list[d]) <= Len(list'[d])
  BY <1>1 DEF PagesTypeOK
<1> QED BY <1>1, <1>3, <1>4, <1>5, <1>6 DEF Grown

LEMMA InsertGrows ==
  ASSUME PagesIInv, NEW d \in Promotion, NEW i \in Item, Insert(d, i)
  PROVE  Grown
<1> USE DEF PagesIInv
<1>1. UNCHANGED <<kind, newest, stored, cache, at, page, answer, walk, failures>>
  BY DEF Insert
<1>2. PICK k \in 0 .. Len(list[d]) :
         list' = [list EXCEPT ![d] = SubSeq(@, 1, k) \o <<i>> \o SubSeq(@, k + 1, Len(@))]
  BY DEF Insert
<1>3. list[d] \in Seq(Item)
  BY DEF PagesTypeOK
<1>4. list'[d] = SubSeq(list[d], 1, k) \o <<i>> \o SubSeq(list[d], k + 1, Len(list[d]))
  BY <1>2 DEF PagesTypeOK
<1>5. /\ list'[d] \in Seq(Item) /\ Len(list'[d]) = Len(list[d]) + 1
      /\ \A j \in 1 .. Len(list[d]) : \E m \in 1 .. Len(list'[d]) :
            list'[d][m] = list[d][j] /\ Len(list[d]) - j <= Len(list'[d]) - m
  <2> DEFINE t == SubSeq(list[d], 1, k) \o <<i>> \o SubSeq(list[d], k + 1, Len(list[d]))
  <2>1. /\ t \in Seq(Item) /\ Len(t) = Len(list[d]) + 1
        /\ \A j \in 1 .. Len(list[d]) : \E m \in 1 .. Len(t) :
              t[m] = list[d][j] /\ Len(list[d]) - j <= Len(t) - m
    BY <1>3, InsertedRow, Zenon
  <2>2. list'[d] = t
    BY <1>4
  <2> HIDE DEF t
  <2> QED BY <2>1, <2>2
<1>6. /\ \A e \in Promotion \ {d} : list'[e] = list[e]
      /\ list' \in [Promotion -> Seq(Item)]
  <2> DEFINE s == SubSeq(list[d], 1, k) \o <<i>> \o SubSeq(list[d], k + 1, Len(list[d]))
  <2>1. list' = [list EXCEPT ![d] = s] /\ s \in Seq(Item)
    BY <1>2, <1>4, <1>5
  <2> HIDE DEF s
  <2> QED BY <2>1 DEF PagesTypeOK
<1>7. inserted \in Nat /\ inserted' = inserted + 1 /\ inserted' \in 0 .. MaxListed[kind]
  BY NumberType DEF Insert, PagesTypeOK
<1>8. PagesTypeOK'
  BY <1>1, <1>6, <1>7 DEF PagesTypeOK, Number
<1>9. ASSUME NEW e \in Promotion
      PROVE  /\ Len(list[e]) \in Nat /\ Len(list'[e]) \in Nat
             /\ Len(list[e]) <= Len(list'[e]) /\ Len(list'[e]) <= Len(list[e]) + 1
  <2>1. Len(list[e]) \in Nat
    BY DEF PagesTypeOK
  <2>2. Len(list'[e]) = IF e = d THEN Len(list[e]) + 1 ELSE Len(list[e])
    BY <1>5, <1>6
  <2> QED BY <2>1, <2>2
<1>10. Counted'
  BY <1>1, <1>7, <1>9 DEF Counted
<1>11. Moment' = Moment + 1
  <2>1. Cardinality(stored) \in Nat
    BY FS_CardinalityType DEF Counted
  <2> QED BY <1>1, <1>7, <2>1 DEF Moment, PagesTypeOK
<1>12. ASSUME NEW e \in Promotion, NEW n \in Nat PROVE From(e, n) \subseteq From(e, n)'
  <2>1. CASE e # d
    BY <1>1, <1>6, <2>1 DEF From, Existing, Beyond
  <2>2. CASE e = d
    <3> DEFINE x == n * Size
    <3>1. x \in Nat
      OBVIOUS
    <3> SUFFICES ASSUME NEW y \in {list[d][j] : j \in Beyond(list[d], n)}
                 PROVE  y \in {list'[d][m] : m \in Beyond(list'[d], n)}
      BY <1>1, <2>2 DEF From, Existing
    <3>a. Beyond(list[d], n) = {j \in 1 .. Len(list[d]) : x <= Len(list[d]) - j}
      BY <1>3 DEF Beyond
    <3>2. PICK j \in 1 .. Len(list[d]) : x <= Len(list[d]) - j /\ y = list[d][j]
      BY <3>a
    <3>3. PICK m \in 1 .. Len(list'[d]) :
             list'[d][m] = list[d][j] /\ Len(list[d]) - j <= Len(list'[d]) - m
      BY <1>5
    <3> HIDE DEF x
    <3>4. x <= Len(list'[d]) - m
      BY <3>1, <3>2, <3>3, <1>9
    <3>5. m \in Beyond(list'[d], n)
      BY <3>4, <1>5 DEF Beyond, x
    <3> QED BY <3>2, <3>3, <3>5
  <2> QED BY <2>1, <2>2
<1> QED BY <1>1, <1>7, <1>8, <1>9, <1>10, <1>11, <1>12 DEF Grown

LEMMA StoreProductGrows == ASSUME PagesIInv, NEW i \in Item, StoreProduct(i) PROVE Grown
<1> USE DEF PagesIInv
<1>1. UNCHANGED <<kind, newest, list, inserted, cache, at, page, answer, walk, failures>>
  BY DEF StoreProduct
<1>2. stored' = stored \cup {i} /\ i \notin stored
  BY DEF StoreProduct
<1>3. IsFiniteSet(stored') /\ Cardinality(stored') = Cardinality(stored) + 1
  BY <1>2, FS_AddElement DEF Counted
<1>4. PagesTypeOK' /\ Counted'
  BY <1>1, <1>2, <1>3 DEF PagesTypeOK, Counted, Number
<1>5. Moment' = Moment + 1
  <2>1. Cardinality(stored) \in Nat
    BY FS_CardinalityType DEF Counted
  <2> QED BY <1>1, <1>3, <2>1 DEF Moment, PagesTypeOK
<1>6. \A d \in Promotion, n \in Nat : From(d, n) \subseteq From(d, n)'
  BY <1>1, <1>2 DEF From, Existing, Beyond
<1>7. inserted <= inserted' /\ \A d \in Promotion : Len(list[d]) <= Len(list'[d])
  BY <1>1 DEF PagesTypeOK
<1> QED BY <1>1, <1>4, <1>5, <1>6, <1>7 DEF Grown

\* Tables that grow leave what is known of pages and walks true.
LEMMA GrownKeeps == PagesIInv /\ Grown => PagesIInv'
<1> SUFFICES ASSUME PagesIInv, Grown PROVE PagesIInv'
  OBVIOUS
<1> USE DEF PagesIInv, Grown
<1>1. Moment \in Nat
  BY MomentType
<1>2. \A n, a : Known(n, a)' <=> Known(n, a)
  BY DEF Known, Number
<1>3. Steps'
  BY DEF Steps
<1>4. PagesRead'
  <2> SUFFICES ASSUME NEW n \in Nat, NEW a \in Answer, Known(n, a)
               PROVE  /\ ~a.last => (n + 1) * Size <= inserted'
                      /\ a.clean =>
                            /\ Read(n, a)'
                            /\ \A b \in Answer : Known(n + 1, b) /\ b.clean => Continues(a, b)
    BY <1>2 DEF PagesRead, Continues
  <2>1. ~a.last => (n + 1) * Size <= inserted'
    <3>1. inserted \in Nat /\ inserted' \in Nat /\ (n + 1) * Size \in Nat
      BY DEF PagesTypeOK
    <3>2. ~a.last => (n + 1) * Size <= inserted
      BY DEF PagesRead
    <3> QED BY <3>1, <3>2
  <2>2. ASSUME a.clean PROVE Read(n, a)'
    <3>1. Read(n, a) /\ a.asof \in Nat
      BY <2>2 DEF PagesRead, Answer
    <3>2. n + 1 \in Nat /\ a.asof # Moment' /\ a.asof <= Moment'
      BY <1>1, <3>1 DEF Read
    <3>3. From(a.of, n + 1) \subseteq From(a.of, n + 1)'
      BY <3>1, <3>2 DEF Read
    <3> QED BY <3>1, <3>2, <3>3 DEF Read
  <2>3. a.clean => \A b \in Answer : Known(n + 1, b) /\ b.clean => Continues(a, b)
    BY DEF PagesRead
  <2> QED BY <2>1, <2>2, <2>3
<1>5. WalksRead'
  <2> SUFFICES ASSUME NEW r \in Request, walk[r].orderly PROVE WalkRead(r)'
    BY DEF WalksRead, WalkRead
  <2>0. WalkRead(r) /\ page[r] \in Nat /\ walk[r].asof \in Nat
    BY NumberType DEF WalksRead, PagesTypeOK
  <2>1. walk[r].asof <= Moment'
    BY <1>1, <2>0 DEF WalkRead
  <2>2. ASSUME at[r] \in Going, Left(r) # {}
        PROVE  walk[r].of \in Promotion /\ Left(r) \subseteq From(walk[r].of, page[r])'
    BY <2>0, <2>2 DEF WalkRead
  <2>3. ASSUME at[r] \in Going, NEW b \in Answer, Known(page[r], b), Follows(walk[r], b)
        PROVE  Left(r) \subseteq b.items \cup b.rest
    BY <2>0, <2>3 DEF WalkRead
  <2>4. ASSUME at[r] = "shown"
        PROVE  /\ answer[r].clean /\ answer[r].of = walk[r].of
               /\ answer[r].asof = walk[r].asof
               /\ Left(r) \subseteq answer[r].rest
    BY <2>0, <2>4 DEF WalkRead
  <2>5. Left(r)' = Left(r)
    BY DEF Left
  <2>6. \A n, a : Known(n, a)' <=> Known(n, a)
    BY <1>2
  <2> QED BY <2>1, <2>2, <2>3, <2>4, <2>5, <2>6 DEF WalkRead, Follows
<1>6. Numbers'
  <2>1. ASSUME NEW r \in Request, at[r] = "count", answer[r].clean
        PROVE  CountsAgree(page[r], answer[r])'
    <3>1. CountsAgree(page[r], answer[r]) /\ answer[r].of \in Promotion
      BY <2>1 DEF Numbers, Steps
    <3>2. answer[r].rows \in Nat
      BY DEF PagesTypeOK, Answer
    <3> DEFINE L == Len(list[answer[r].of])
               M == Len(list'[answer[r].of])
    <3>3. list[answer[r].of] \in Seq(Item) /\ list'[answer[r].of] \in Seq(Item) /\ L <= M
      BY <3>1 DEF PagesTypeOK
    <3>4. L \in Nat /\ M \in Nat /\ L <= M
      BY <3>3
    <3>5. answer[r].rows <= L
      BY <3>1 DEF CountsAgree
    <3> HIDE DEF L, M
    <3>6. answer[r].rows <= M
      BY <3>2, <3>4, <3>5
    <3> QED BY <3>1, <3>6 DEF CountsAgree, M
  <2> QED BY <2>1 DEF Numbers, Numbered, Number
<1> QED BY <1>3, <1>4, <1>5, <1>6
-----------------------------------------------------------------------------
(***************************************************************************)
(* Requests.                                                               *)
(***************************************************************************)

\* What is shown of a set is in it, and shown.
LEMMA ExistingFacts ==
  /\ \A S : Existing(S) \subseteq S
  /\ \A S, T : S \subseteq Existing(T) => S = Existing(S)
  /\ \A S, T, U : S \subseteq T \cup U => Existing(S) \subseteq Existing(T) \cup U
  BY DEF Existing

\* Page n as the tables are now.
Fresh(n, a) ==
    /\ a.of \in Promotion /\ a.asof = Moment
    /\ a.rest = From(a.of, n + 1)
    /\ From(a.of, n) \subseteq a.items \cup a.rest
    /\ a.last => a.rest = {}

\* Page a is page b at a later step of its handler.
Same(a, b) ==
    /\ a.of = b.of /\ a.asof = b.asof /\ a.rest = b.rest /\ a.last = b.last
    /\ Existing(b.items) \subseteq a.items

\* A page that may come to be known.
Good(n, a) ==
    /\ ~a.last => (n + 1) * Size <= inserted
    /\ a.clean => Fresh(n, a) \/ \E b \in Answer : Known(n, b) /\ b.clean /\ Same(a, b)

\* Pages that are known are good.
LEMMA KnownGood ==
  ASSUME PagesRead, NEW n \in Nat, NEW a \in Answer, Known(n, a)
  PROVE  Good(n, a)
<1>1. Same(a, a)
  BY ExistingFacts DEF Same
<1> QED BY <1>1 DEF PagesRead, Good

Succeeds == \A n \in Nat, a \in Answer : Known(n, a)' => Good(n, a)

\* The tables at rest.
LEMMA AtRest ==
  UNCHANGED tables => /\ Moment' = Moment
                      /\ \A d, n : From(d, n)' = From(d, n)
                      /\ Number' = Number
  BY DEF tables, Moment, From, Existing, Beyond, Number

\* Pages that come to be known are as good as those before.
LEMMA PagesKept ==
  ASSUME PagesIInv, UNCHANGED tables, Succeeds
  PROVE  PagesRead'
<1> USE DEF PagesIInv
<1>0. inserted' = inserted /\ Moment' = Moment /\ Moment \in Nat
  BY AtRest, MomentType DEF tables
<1>1. ASSUME NEW n \in Nat, NEW a \in Answer, Known(n, a)', a.clean
      PROVE  Read(n, a)
  <2>1. Good(n, a)
    BY <1>1 DEF Succeeds
  <2>2. CASE Fresh(n, a)
    BY <1>0, <2>2 DEF Fresh, Read
  <2>3. ASSUME NEW b \in Answer, Known(n, b), b.clean, Same(a, b)
        PROVE  Read(n, a)
    <3>1. Read(n, b)
      BY <2>3 DEF PagesRead
    <3>2. ASSUME b.asof = Moment PROVE From(b.of, n) \subseteq a.items \cup b.rest
      <4>1. From(b.of, n) \subseteq b.items \cup b.rest
        BY <3>1, <3>2 DEF Read
      <4>2. Existing(From(b.of, n)) = From(b.of, n)
        BY ExistingFacts DEF From
      <4>3. From(b.of, n) \subseteq Existing(b.items) \cup b.rest
        BY <4>1, <4>2, ExistingFacts
      <4> QED BY <2>3, <4>3 DEF Same
    <3> QED BY <2>3, <3>1, <3>2 DEF Read, Same
  <2> QED BY <1>1, <2>1, <2>2, <2>3 DEF Good
<1>2. ASSUME NEW n \in Nat, NEW a \in Answer, Known(n, a)', a.clean,
             NEW b \in Answer, Known(n + 1, b)', b.clean,
             a.of = b.of, a.asof <= b.asof
      PROVE  a.rest \subseteq b.items \cup b.rest
  <2>1. Read(n, a) /\ Read(n + 1, b) /\ a.asof \in Nat /\ b.asof \in Nat
    BY <1>1, <1>2 DEF Answer
  <2>2. CASE b.asof = Moment
    BY <1>2, <2>1, <2>2 DEF Read
  <2>3. CASE b.asof # Moment
    <3>1. a.asof # Moment
      BY <1>0, <1>2, <2>1, <2>3 DEF Read
    <3>2. PICK c \in Answer : Known(n, c) /\ c.clean /\ Same(a, c)
      BY <1>2, <3>1 DEF Succeeds, Good, Fresh
    <3>3. PICK d \in Answer : Known(n + 1, d) /\ d.clean /\ Same(b, d)
      BY <1>2, <2>3 DEF Succeeds, Good, Fresh
    <3>4. Continues(c, d)
      BY <3>2, <3>3 DEF PagesRead
    <3>5. a.rest \subseteq d.items \cup d.rest
      BY <1>2, <3>2, <3>3, <3>4 DEF Continues, Same
    <3>6. a.rest = Existing(a.rest)
      BY <2>1 DEF Read, From, Existing
    <3>7. a.rest \subseteq Existing(d.items) \cup d.rest
      BY <3>5, <3>6, ExistingFacts
    <3> QED BY <3>3, <3>7 DEF Same
  <2> QED BY <2>2, <2>3
<1>3. ASSUME NEW n \in Nat, NEW a \in Answer, Known(n, a)', ~a.last
      PROVE  (n + 1) * Size <= inserted
  BY <1>3 DEF Succeeds, Good
<1>4. \A n \in Nat, a \in Answer : Read(n, a)' <=> Read(n, a)
  BY <1>0, AtRest DEF Read
<1> QED BY <1>0, <1>1, <1>2, <1>3, <1>4 DEF PagesRead, Continues

\* A walk that does not turn or see a page goes on as it was.
LEMMA WalkKept ==
  ASSUME PagesIInv, UNCHANGED tables, Succeeds, NEW r \in Request,
         walk'[r] = walk[r], page'[r] = page[r],
         at'[r] \in Going => at[r] \in Going,
         at'[r] = "shown" => at[r] = "shown" /\ answer'[r] = answer[r]
  PROVE  WalkRead(r)'
<1> USE DEF PagesIInv
<1>0. Moment' = Moment /\ Moment \in Nat /\ \A d, n : From(d, n)' = From(d, n)
  BY AtRest, MomentType
<1>1. page[r] \in Nat /\ WalkRead(r) /\ Left(r)' = Left(r)
  BY NumberType DEF PagesTypeOK, WalksRead, Left
<1>2. ASSUME walk[r].orderly, at'[r] \in Going, NEW b \in Answer, Known(page[r], b)',
             Follows(walk[r], b)
      PROVE  Left(r) \subseteq b.items \cup b.rest
  <2>1. Good(page[r], b) /\ b.clean /\ b.of = walk[r].of
    BY <1>1, <1>2 DEF Succeeds, Follows
  <2>2. Left(r) # {} => Left(r) \subseteq From(b.of, page[r])
    BY <1>1, <1>2, <2>1 DEF WalkRead
  <2>3. CASE Fresh(page[r], b)
    BY <2>2, <2>3 DEF Fresh
  <2>4. ASSUME NEW c \in Answer, Known(page[r], c), c.clean, Same(b, c)
        PROVE  Left(r) \subseteq b.items \cup b.rest
    <3>1. Follows(walk[r], c)
      BY <1>2, <2>4 DEF Follows, Same
    <3>2. Left(r) \subseteq c.items \cup c.rest
      BY <1>1, <1>2, <2>4, <3>1 DEF WalkRead
    <3>3. Left(r) = Existing(Left(r))
      BY <2>2, ExistingFacts DEF From, Existing
    <3>4. Left(r) \subseteq Existing(c.items) \cup c.rest
      BY <3>2, <3>3, ExistingFacts
    <3> QED BY <2>4, <3>4 DEF Same
  <2> QED BY <2>1, <2>3, <2>4 DEF Good
<1>3. ASSUME walk[r].orderly
      PROVE  /\ walk[r].asof <= Moment
             /\ at'[r] \in Going /\ Left(r) # {} =>
                   walk[r].of \in Promotion /\ Left(r) \subseteq From(walk[r].of, page[r])
             /\ at'[r] = "shown" =>
                   /\ answer[r].clean /\ answer[r].of = walk[r].of
                   /\ answer[r].asof = walk[r].asof
                   /\ Left(r) \subseteq answer[r].rest
  BY <1>1, <1>3 DEF WalkRead
<1> QED BY <1>0, <1>1, <1>2, <1>3 DEF WalkRead, Follows
-----------------------------------------------------------------------------
\* A page that its request knows: from its SELECT on.
Shown == {"count", "products", "set", "shown"}

\* A step of r alone: no row, nothing of another request, and no page that was
\* not known comes into the cache.
Alone(r) ==
    /\ PagesTypeOK' /\ UNCHANGED tables
    /\ \A q \in Request \ {r} :
          at'[q] = at[q] /\ page'[q] = page[q] /\ answer'[q] = answer[q] /\ walk'[q] = walk[q]
    /\ \A n \in Number : cache'[n] # None =>
          Known(n, cache'[n]) /\ Numbered(n, cache'[n])

\* What is known after it, but for r's own page, was known before.
LEMMA KnownAfter ==
  ASSUME NEW r \in Request, Alone(r), NEW n, NEW a, Known(n, a)'
  PROVE  Known(n, a) \/ (at'[r] \in Shown /\ n = page'[r] /\ a = answer'[r])
<1>1. Number' = Number
  BY AtRest DEF Alone
<1>2. CASE n \in Number /\ cache'[n] # None /\ a = cache'[n]
  BY <1>2 DEF Alone, Known
<1>3. ASSUME NEW q \in Request, at'[q] \in Shown, n = page'[q], a = answer'[q]
      PROVE  Known(n, a) \/ (at'[r] \in Shown /\ n = page'[r] /\ a = answer'[r])
  <2>1. CASE q = r
    BY <1>3, <2>1
  <2>2. CASE q # r
    <3>1. at[q] \in Shown /\ n = page[q] /\ a = answer[q]
      BY <1>3, <2>2 DEF Alone
    <3>2. Known(n, a)
      BY <3>1 DEF Known, Shown
    <3> QED BY <3>2
  <2> QED BY <2>1, <2>2
<1> QED BY <1>1, <1>2, <1>3 DEF Known, Shown

\* So the invariant is kept if it is for r.
Keeps(r) ==
    /\ Alone(r)
    /\ at'[r] \in Shown => Good(page'[r], answer'[r])
    /\ at'[r] = "idle" => page'[r] = 0
    /\ at'[r] \in {"rows", "count"} => answer'[r].of \in Promotion
    /\ \/ WalkRead(r)'
       \/ /\ walk'[r] = walk[r] /\ page'[r] = page[r]
          /\ at[r] \in Going /\ at'[r] # "shown"
    /\ at'[r] = "count" /\ answer'[r].clean =>
          CountsAgree(page'[r], answer'[r])
    /\ at'[r] \in {"products", "set", "shown"} => Numbered(page'[r], answer'[r])

LEMMA KeepsInvariant ==
  ASSUME PagesIInv, NEW r \in Request, Keeps(r)
  PROVE  PagesIInv'
<1> USE DEF PagesIInv
<1>0. /\ Alone(r) /\ PagesTypeOK' /\ UNCHANGED tables /\ Moment' = Moment
      /\ Number' = Number /\ UNCHANGED <<stored, list, inserted>>
  BY AtRest DEF Keeps, Alone, tables
<1>1. Succeeds
  <2> SUFFICES ASSUME NEW n \in Nat, NEW a \in Answer, Known(n, a)' PROVE Good(n, a)
    BY DEF Succeeds
  <2>1. CASE Known(n, a)
    BY <2>1, KnownGood
  <2>2. CASE at'[r] \in Shown /\ n = page'[r] /\ a = answer'[r]
    BY <2>2 DEF Keeps
  <2> QED BY <1>0, <2>1, <2>2, KnownAfter
<1>2. PagesRead'
  BY <1>0, <1>1, PagesKept
<1>3. WalksRead'
  <2> SUFFICES ASSUME NEW q \in Request PROVE WalkRead(q)'
    BY DEF WalksRead
  <2>1. CASE q # r
    <3>1. /\ walk'[q] = walk[q] /\ page'[q] = page[q]
          /\ at'[q] = at[q] /\ answer'[q] = answer[q]
      BY <1>0, <2>1 DEF Alone
    <3> QED BY <1>0, <1>1, <3>1, WalkKept
  <2>2. CASE q = r
    <3>1. ASSUME walk'[r] = walk[r], page'[r] = page[r], at[r] \in Going, at'[r] # "shown"
          PROVE  WalkRead(r)'
      BY <1>0, <1>1, <3>1, WalkKept
    <3> QED BY <2>2, <3>1 DEF Keeps
  <2> QED BY <2>1, <2>2
<1>4. Steps'
  <2> SUFFICES ASSUME NEW q \in Request
               PROVE  /\ at'[q] = "idle" => page'[q] = 0
                      /\ at'[q] \in {"rows", "count"} => answer'[q].of \in Promotion
    BY DEF Steps
  <2>1. CASE q # r
    BY <1>0, <2>1 DEF Alone, Steps
  <2>2. CASE q = r
    BY <2>2 DEF Keeps
  <2> QED BY <2>1, <2>2
<1>5. Numbers'
  <2>1. \A n \in Number : cache'[n] # None => Numbered(n, cache'[n])
    BY <1>0 DEF Alone
  <2>2. ASSUME NEW q \in Request
        PROVE  /\ at'[q] = "count" /\ answer'[q].clean =>
                     CountsAgree(page'[q], answer'[q])
               /\ at'[q] \in {"products", "set", "shown"} => Numbered(page'[q], answer'[q])
    <3>1. CASE q # r
      BY <1>0, <3>1 DEF Alone, Numbers
    <3>2. CASE q = r
      BY <3>2 DEF Keeps
    <3> QED BY <3>1, <3>2
  <2> QED BY <1>0, <2>1, <2>2 DEF Numbers, CountsAgree, Numbered
<1>6. Counted'
  BY <1>0 DEF Counted
<1> QED BY <1>0, <1>2, <1>3, <1>4, <1>5, <1>6

\* The pages in the cache are known and their numbers agree.
LEMMA CacheKnown ==
  PagesIInv => \A n \in Number : cache[n] # None => Known(n, cache[n]) /\ Numbered(n, cache[n])
  BY DEF PagesIInv, Numbers, Known
-----------------------------------------------------------------------------
(***************************************************************************)
(* The actions of requests.                                                *)
(***************************************************************************)

\* The items of a promotion are those from its first page on.
LEMMA ListedItems ==
  ASSUME PagesTypeOK, NEW d \in Nat
  PROVE  /\ Listed(d) \subseteq Item
         /\ Listed(d) # {} => d \in Promotion
         /\ d \in Promotion => Existing(Listed(d)) = From(d, 0)
<1>1. \A e \in Promotion : list[e] \in Seq(Item)
  BY DEF PagesTypeOK
<1>2. \A e \in Promotion : \A k \in DOMAIN list[e] : list[e][k] \in Item
  BY <1>1
<1>3. Listed(d) \subseteq Item /\ (Listed(d) # {} => d \in Promotion)
  BY <1>2 DEF Listed
<1>4. ASSUME d \in Promotion PROVE Existing(Listed(d)) = From(d, 0)
  <2>1. Listed(d) = {list[d][k] : k \in DOMAIN list[d]}
    BY <1>4 DEF Listed
  <2>2. Beyond(list[d], 0) = DOMAIN list[d]
    <3>1. DOMAIN list[d] = 1 .. Len(list[d]) /\ Len(list[d]) \in Nat
      BY <1>1, <1>4
    <3>2. \A k \in DOMAIN list[d] : 0 * Size <= Len(list[d]) - k
      BY <3>1
    <3> QED BY <3>2 DEF Beyond
  <2> QED BY <2>1, <2>2 DEF From
<1> QED BY <1>3, <1>4

LEMMA BeginKeeps == ASSUME PagesIInv, NEW r \in Request, Begin(r) PROVE PagesIInv'
<1> USE DEF PagesIInv
<1>0. /\ UNCHANGED <<tables, cache, page, answer, failures>> /\ at[r] = "idle"
      /\ at' = [at EXCEPT ![r] = "get"] /\ Moment \in Nat
  BY MomentType DEF Begin, Goto
<1>1. newest \in Nat /\ Existing(Listed(newest)) \subseteq Item
  <2>1. newest \in Nat
    BY DEF PagesTypeOK
  <2> QED BY <2>1, ListedItems, ExistingFacts
<1>2. walk' = [walk EXCEPT ![r] = [due |-> Existing(Listed(newest)), of |-> newest,
                                   seen |-> {}, asof |-> Moment, orderly |-> TRUE]]
  BY DEF Begin
<1>3. PagesTypeOK'
  <2>1. newest \in {0} \cup Promotion
    BY DEF PagesTypeOK
  <2> HIDE DEF Promotion
  <2>2. walk' \in [Request -> [due : SUBSET Item, of : {0} \cup Promotion, seen : SUBSET Item,
                               asof : Nat, orderly : BOOLEAN]]
    BY <1>0, <1>1, <1>2, <2>1 DEF PagesTypeOK
  <2> QED BY <1>0, <2>2 DEF PagesTypeOK, tables, Number, Promotion
<1>4. Alone(r)
  BY <1>0, <1>2, <1>3, CacheKnown DEF Alone, PagesTypeOK
<1>5. page'[r] = 0 /\ at'[r] = "get"
  BY <1>0 DEF PagesTypeOK, Steps
<1>6. WalkRead(r)'
  <2>1. /\ walk'[r].of = newest /\ walk'[r].asof = Moment /\ walk'[r].orderly
        /\ Left(r)' = Existing(Listed(newest))
    BY <1>2 DEF PagesTypeOK, Left
  <2>2. Left(r)' # {} => newest \in Promotion /\ Left(r)' = From(newest, 0)
    BY <1>1, <2>1, ListedItems, ExistingFacts
  <2>3. ASSUME NEW b \in Answer, Known(0, b)', Follows(walk'[r], b)
        PROVE  Left(r)' \subseteq b.items \cup b.rest
    <3>1. Known(0, b)
      BY <1>4, <1>5, <2>3, KnownAfter DEF Shown
    <3>2. b.clean /\ b.of = newest /\ Moment <= b.asof /\ b.asof \in Nat
      BY <2>1, <2>3 DEF Follows, Answer
    <3>3. Read(0, b)
      BY <3>1, <3>2 DEF PagesRead
    <3>4. b.asof = Moment
      BY <1>0, <3>2, <3>3 DEF Read
    <3> QED BY <2>2, <3>2, <3>3, <3>4 DEF Read
  <2>4. Moment' = Moment /\ \A d, n : From(d, n)' = From(d, n)
    BY <1>0, AtRest
  <2> QED BY <1>0, <1>5, <2>1, <2>2, <2>3, <2>4 DEF WalkRead, Follows, Going
<1> QED BY <1>4, <1>5, <1>6, KeepsInvariant DEF Keeps, Shown

LEMMA TurnKeeps == ASSUME PagesIInv, NEW r \in Request, Turn(r) PROVE PagesIInv'
<1> USE DEF PagesIInv
<1>0. /\ UNCHANGED <<tables, cache, walk, failures>> /\ at[r] = "shown" /\ ~answer[r].last
      /\ page' = [page EXCEPT ![r] = @ + 1] /\ answer' = [answer EXCEPT ![r] = NoAnswer]
      /\ at' = [at EXCEPT ![r] = "get"]
  BY DEF Turn, Goto
<1>1. answer[r] \in Answer /\ page[r] \in Nat /\ Known(page[r], answer[r])
  BY <1>0, NumberType DEF PagesTypeOK, Known
<1>2. page[r] + 1 \in Number
  <2>1. (page[r] + 1) * Size <= inserted /\ (page[r] + 1) * Size \in Nat
    BY <1>0, <1>1 DEF PagesRead
  <2>2. (page[r] + 1) * Size <= MaxListed[kind] /\ MaxListed[kind] \in Nat
    <3>1. inserted \in Nat /\ inserted <= MaxListed[kind] /\ MaxListed[kind] \in Nat
      BY NumberType DEF PagesTypeOK
    <3> QED BY <2>1, <3>1
  <2>3. page[r] + 1 \in Nat
    BY <1>1
  <2> QED BY <2>2, <2>3, PagesFit DEF Number
<1>3. PagesTypeOK'
  <2>1. NoAnswer \in Answer
    BY DEF NoAnswer, Answer
  <2> QED BY <1>0, <1>2, <2>1 DEF PagesTypeOK, tables, Number
<1>4. Alone(r)
  BY <1>0, <1>3, CacheKnown DEF Alone, PagesTypeOK
<1> PICK m \in Nat : m = page[r] + 1
  BY <1>1
<1>5. page'[r] = m /\ at'[r] = "get"
  BY <1>0 DEF PagesTypeOK
<1>6. WalkRead(r)'
  <2> SUFFICES ASSUME walk[r].orderly PROVE WalkRead(r)'
    BY <1>0 DEF WalkRead
  <2>1. /\ WalkRead(r) /\ Left(r)' = Left(r) /\ walk'[r] = walk[r]
    BY <1>0 DEF WalksRead, Left
  <2>2. /\ walk[r].asof <= Moment
        /\ answer[r].clean /\ answer[r].of = walk[r].of
        /\ answer[r].asof = walk[r].asof
        /\ Left(r) \subseteq answer[r].rest
    BY <1>0, <2>1 DEF WalkRead
  <2>3. Read(page[r], answer[r])
    BY <1>1, <2>2 DEF PagesRead
  <2>4. walk[r].of \in Promotion /\ Left(r) \subseteq From(walk[r].of, m)
    BY <2>2, <2>3 DEF Read
  <2>5. ASSUME NEW b \in Answer, Known(m, b)', Follows(walk[r], b)
        PROVE  Left(r) \subseteq b.items \cup b.rest
    <3>1. Known(m, b)
      BY <1>4, <1>5, <2>5, KnownAfter DEF Shown
    <3>2. Continues(answer[r], b)
      BY <1>1, <2>2, <2>5, <3>1 DEF PagesRead, Follows
    <3> QED BY <2>2, <2>5, <3>2 DEF Continues, Follows
  <2>6. Moment' = Moment /\ \A d, n : From(d, n)' = From(d, n)
    BY <1>0, AtRest
  <2> QED BY <1>5, <2>1, <2>2, <2>4, <2>5, <2>6 DEF WalkRead, Follows, Going
<1> QED BY <1>4, <1>5, <1>6, KeepsInvariant DEF Keeps, Shown

LEMMA LeaveKeeps == ASSUME PagesIInv, NEW r \in Request, Leave(r) PROVE PagesIInv'
<1> USE DEF PagesIInv
<1>0. /\ UNCHANGED <<tables, cache, failures>>
      /\ page' = [page EXCEPT ![r] = 0] /\ answer' = [answer EXCEPT ![r] = NoAnswer]
      /\ at' = [at EXCEPT ![r] = "idle"] /\ walk' = [walk EXCEPT ![r] = NoWalk]
  BY DEF Leave, Goto
<1>1. PagesTypeOK'
  <2>1. NoAnswer \in Answer
    BY DEF NoAnswer, Answer
  <2>2. walk' \in [Request -> [due : SUBSET Item, of : {0} \cup Promotion, seen : SUBSET Item,
                               asof : Nat, orderly : BOOLEAN]]
    BY <1>0 DEF PagesTypeOK, NoWalk
  <2> QED BY <1>0, <2>1, <2>2, NumberType DEF PagesTypeOK, tables, Number
<1>2. Alone(r)
  BY <1>0, <1>1, CacheKnown DEF Alone, PagesTypeOK
<1>3. page'[r] = 0 /\ at'[r] = "idle" /\ ~walk'[r].orderly
  BY <1>0 DEF PagesTypeOK, NoWalk
<1>4. WalkRead(r)'
  BY <1>3 DEF WalkRead
<1> QED BY <1>2, <1>3, <1>4, KeepsInvariant DEF Keeps, Shown

\* A page that is known is shown.
LEMMA ShowKeeps ==
  ASSUME PagesIInv, NEW r \in Request, NEW a \in Answer, Known(page[r], a), Numbered(page[r], a),
         at[r] \in Going, Show(r, a), UNCHANGED <<tables, page>>,
         failures' \in 0 .. MaxFailures,
         cache' \in [Number -> Answer \cup {None}],
         \A n \in Number : cache'[n] # None => Known(n, cache'[n]) /\ Numbered(n, cache'[n])
  PROVE  PagesIInv'
<1> USE DEF PagesIInv
<1>0. /\ at' = [at EXCEPT ![r] = "shown"] /\ answer' = [answer EXCEPT ![r] = a]
      /\ page[r] \in Nat
  BY NumberType DEF Show, Goto, PagesTypeOK
<1>1. walk' = [walk EXCEPT ![r] =
         IF Follows(walk[r], a)
           THEN [walk[r] EXCEPT !.seen = walk[r].seen \cup a.items, !.asof = a.asof]
           ELSE NoWalk]
  BY Zenon DEF Show
<1>2. a.items \subseteq Item /\ a.asof \in Nat
  BY DEF Answer
<1>3. PagesTypeOK'
  <2>1. walk' \in [Request -> [due : SUBSET Item, of : {0} \cup Promotion, seen : SUBSET Item,
                               asof : Nat, orderly : BOOLEAN]]
    BY <1>1, <1>2 DEF PagesTypeOK, NoWalk
  <2> QED BY <1>0, <2>1 DEF PagesTypeOK, tables, Number
<1>4. Alone(r)
  BY <1>0, <1>1, <1>3 DEF Alone, PagesTypeOK
<1>5. at'[r] = "shown" /\ answer'[r] = a /\ page'[r] = page[r]
  BY <1>0 DEF PagesTypeOK
<1>6. WalkRead(r)'
  <2>1. CASE ~Follows(walk[r], a)
    <3>1. ~walk'[r].orderly
      BY <1>1, <2>1 DEF PagesTypeOK, NoWalk
    <3> QED BY <3>1 DEF WalkRead
  <2>2. CASE Follows(walk[r], a)
    <3>1. /\ walk'[r].of = walk[r].of /\ walk'[r].asof = a.asof
          /\ Left(r)' = Left(r) \ a.items
      BY <1>1, <2>2 DEF PagesTypeOK, Left
    <3>2. Left(r) \subseteq a.items \cup a.rest
      BY <2>2 DEF WalksRead, WalkRead, Follows
    <3>3. a.clean /\ a.of = walk[r].of /\ a.asof <= Moment
      BY <1>0, <2>2 DEF Follows, PagesRead, Read
    <3>4. Moment' = Moment
      BY AtRest
    <3> QED BY <1>5, <3>1, <3>2, <3>3, <3>4 DEF WalkRead, Going
  <2> QED BY <2>1, <2>2
<1>7. Good(page[r], a)
  BY <1>0, KnownGood
<1>8. page'[r] = 0 \/ at'[r] # "idle"
  BY <1>5
<1> QED BY <1>4, <1>5, <1>6, <1>7, KeepsInvariant DEF Keeps, Shown
-----------------------------------------------------------------------------
LEMMA HitKeeps == ASSUME PagesIInv, NEW r \in Request, Hit(r) PROVE PagesIInv'
<1> USE DEF PagesIInv
<1> PICK a : a = cache[page[r]]
  OBVIOUS
<1>1. /\ at[r] = "get" /\ Show(r, a) /\ UNCHANGED <<tables, cache, page, failures>>
      /\ a \in Answer /\ Known(page[r], a) /\ Numbered(page[r], a)
  BY CacheKnown DEF Hit, PagesTypeOK
<1>2. cache' \in [Number -> Answer \cup {None}] /\ failures' \in 0 .. MaxFailures
  BY <1>1 DEF PagesTypeOK
<1> QED BY <1>1, <1>2, CacheKnown, ShowKeeps DEF Going

LEMMA SetKeeps == ASSUME PagesIInv, NEW r \in Request, Set(r) PROVE PagesIInv'
<1> USE DEF PagesIInv
<1> PICK a : a = answer[r]
  OBVIOUS
<1>1. /\ at[r] = "set" /\ Show(r, a) /\ UNCHANGED <<tables, page>>
      /\ a \in Answer /\ Known(page[r], a) /\ Numbered(page[r], a) /\ page[r] \in Number
  BY DEF Set, PagesTypeOK, Known, Numbers
<1>2. cache' = [cache EXCEPT ![page[r]] = a] \/ cache' = cache
  BY DEF Set
<1>3. failures' \in 0 .. MaxFailures
  BY DEF Set, PagesTypeOK, Failure
<1>4. cache' \in [Number -> Answer \cup {None}]
  BY <1>1, <1>2 DEF PagesTypeOK
<1>5. ASSUME NEW n \in Number, cache'[n] # None
      PROVE  Known(n, cache'[n]) /\ Numbered(n, cache'[n])
  <2>1. CASE cache'[n] = cache[n]
    BY <1>5, <2>1, CacheKnown
  <2>2. CASE n = page[r] /\ cache'[n] = a
    BY <1>1, <2>2
  <2> QED BY <1>1, <1>2, <2>1, <2>2 DEF PagesTypeOK
<1> QED BY <1>1, <1>3, <1>4, <1>5, ShowKeeps DEF Going

LEMMA MissKeeps == ASSUME PagesIInv, NEW r \in Request, Miss(r) PROVE PagesIInv'
<1> USE DEF PagesIInv
<1>1. /\ UNCHANGED <<tables, cache, page, answer, walk>> /\ at[r] = "get"
      /\ at' = [at EXCEPT ![r] = "find"]
  BY DEF Miss, Goto
<1>2. PagesTypeOK'
  BY <1>1 DEF Miss, Failure, PagesTypeOK, tables, Number
<1>3. Alone(r)
  BY <1>1, <1>2, CacheKnown DEF Alone, PagesTypeOK
<1>4. at'[r] = "find"
  BY <1>1 DEF PagesTypeOK
<1> QED BY <1>1, <1>3, <1>4, KeepsInvariant DEF Keeps, Shown, Going

LEMMA FindPromotionKeeps == ASSUME PagesIInv, NEW r \in Request, FindPromotion(r) PROVE PagesIInv'
<1> USE DEF PagesIInv
<1>1. /\ UNCHANGED <<tables, cache, page, walk>> /\ at[r] = "find"
      /\ \/ /\ newest > 0 /\ answer' = [answer EXCEPT ![r] = [answer[r] EXCEPT !.of = newest]]
            /\ at' = [at EXCEPT ![r] = "rows"]
         \/ answer' = answer /\ at' = [at EXCEPT ![r] = "error"]
      /\ failures' \in 0 .. MaxFailures
  BY DEF FindPromotion, Goto, Failure, PagesTypeOK
<1>2. newest > 0 => newest \in Promotion
  BY DEF PagesTypeOK
<1> PICK a \in Answer : a = answer[r]
  BY DEF PagesTypeOK
<1> DEFINE b == [a EXCEPT !.of = newest]
<1>a. newest > 0 => b \in Answer /\ b.of \in Promotion
  <2> HIDE DEF Promotion
  <2> QED BY <1>2 DEF Answer
<1> HIDE DEF b
<1>b. \/ newest > 0 /\ answer' = [answer EXCEPT ![r] = b] /\ at' = [at EXCEPT ![r] = "rows"]
      \/ answer' = answer /\ at' = [at EXCEPT ![r] = "error"]
  BY <1>1 DEF b
<1>3. answer' \in [Request -> Answer]
  BY <1>a, <1>b DEF PagesTypeOK
<1>4. PagesTypeOK'
  BY <1>1, <1>3 DEF PagesTypeOK, tables, Number
<1>5. Alone(r)
  BY <1>1, <1>4, CacheKnown DEF Alone, PagesTypeOK
<1>6. at'[r] \in {"rows", "error"} /\ (at'[r] = "rows" => answer'[r].of \in Promotion)
  BY <1>a, <1>b DEF PagesTypeOK
<1> QED BY <1>1, <1>5, <1>6, KeepsInvariant DEF Keeps, Shown, Going

LEMMA FindRowsKeeps == ASSUME PagesIInv, NEW r \in Request, FindRows(r) PROVE PagesIInv'
<1> USE DEF PagesIInv
<1> DEFINE d == answer[r].of
           s == list[d]
<1> PICK n : n = page[r]
  OBVIOUS
<1>1. /\ UNCHANGED <<tables, cache, page, walk>> /\ at[r] = "rows"
      /\ at' = [at EXCEPT ![r] = "count"] /\ failures' \in 0 .. MaxFailures
  BY DEF FindRows, Goto, Failure, PagesTypeOK
<1>2. /\ d \in Promotion /\ s \in Seq(Item) /\ Len(s) \in Nat /\ n \in Nat
      /\ answer[r] \in Answer /\ Moment \in Nat
  BY <1>1, NumberType, MomentType DEF Steps, PagesTypeOK
<1> DEFINE X == {s[k] : k \in Window(s, n)}
           Y == Existing({s[k] : k \in Beyond(s, n + 1)})
           last == Cardinality(Window(s, n)) < Size
<1>3. X \subseteq Item /\ Y \subseteq Item
  <2>1. Window(s, n) \subseteq DOMAIN s /\ Beyond(s, n + 1) \subseteq DOMAIN s
    BY DEF Window, Beyond
  <2>2. \A k \in DOMAIN s : s[k] \in Item
    BY <1>2
  <2> QED BY <2>1, <2>2, ExistingFacts
<1>4. /\ Y = From(d, n + 1)
      /\ From(d, n) \subseteq X \cup Y
  <2>1. Beyond(s, n) \subseteq Window(s, n) \cup Beyond(s, n + 1)
    BY <1>2, PageOfRows
  <2>2. {s[k] : k \in Beyond(s, n)} \subseteq X \cup {s[k] : k \in Beyond(s, n + 1)}
    BY <2>1
  <2> QED BY <2>2, ExistingFacts DEF From, Existing
<1>5. /\ last => Len(s) < (n + 1) * Size /\ Y = {}
      /\ ~last => (n + 1) * Size <= Len(s)
  <2>1. (n + 1) * Size \in Nat
    BY <1>2
  <2>2. last <=> Len(s) < (n + 1) * Size
    BY <1>2, PageOfRows
  <2>3. Len(s) < (n + 1) * Size => Y = {}
    BY <1>2, PageOfRows, ExistingFacts
  <2> HIDE DEF X, Y, last
  <2> QED BY <1>2, <2>1, <2>2, <2>3
<1> HIDE DEF X, Y, last
<1>6. ~last => (n + 1) * Size <= inserted
  <2>1. Len(s) <= inserted /\ inserted \in Nat /\ (n + 1) * Size \in Nat
    BY <1>2 DEF Counted, PagesTypeOK
  <2> QED BY <1>2, <1>5, <2>1
<1> PICK a \in Answer : a = answer[r]
  BY <1>2
<1> DEFINE page1 == [a EXCEPT !.items = X, !.last = last, !.asof = Moment, !.rows = Len(s),
                              !.rest = Y]
           page2 == [a EXCEPT !.last = TRUE, !.clean = FALSE]
<1>7. answer' = [answer EXCEPT ![r] = page1] \/ answer' = [answer EXCEPT ![r] = page2]
  BY DEF FindRows, X, Y, last
<1>8. /\ page1 \in Answer /\ page1.of = d /\ page1.items = X /\ page1.last = last
      /\ page1.asof = Moment /\ page1.rest = Y /\ page1.rows = Len(s)
      /\ page2 \in Answer /\ page2.of = d /\ page2.last /\ ~page2.clean
  <2>1. last \in BOOLEAN
    BY DEF last
  <2> QED BY <1>2, <1>3, <2>1 DEF Answer
<1> HIDE DEF page1, page2
<1>9. answer' \in [Request -> Answer] /\ answer'[r] \in {page1, page2}
  BY <1>7, <1>8 DEF PagesTypeOK
<1>10. PagesTypeOK'
  BY <1>1, <1>9 DEF PagesTypeOK, tables, Number
<1>11. Alone(r)
  BY <1>1, <1>7, <1>10, CacheKnown DEF Alone, PagesTypeOK
<1>12. at'[r] = "count" /\ page'[r] = n
  BY <1>1 DEF PagesTypeOK
<1>13. Good(n, answer'[r])
  BY <1>2, <1>4, <1>5, <1>6, <1>8, <1>9 DEF Good, Fresh
<1>14. answer'[r].clean => CountsAgree(n, answer'[r])
  <2>1. Len(s) <= Len(s) /\ (n + 1) * Size \in Nat
    BY <1>2
  <2> QED BY <1>2, <1>5, <1>8, <1>9, <2>1 DEF CountsAgree
<1>15. answer'[r].of \in Promotion
  BY <1>2, <1>8, <1>9
<1> QED
  BY <1>1, <1>11, <1>12, <1>13, <1>14, <1>15, KeepsInvariant DEF Keeps, Shown, Going
-----------------------------------------------------------------------------
LEMMA CountRowsKeeps == ASSUME PagesIInv, NEW r \in Request, CountRows(r) PROVE PagesIInv'
<1> USE DEF PagesIInv
<1> PICK n \in Nat, a \in Answer : n = page[r] /\ a = answer[r]
  BY NumberType DEF PagesTypeOK
<1> DEFINE L     == Len(list[a.of])
           page1 == [a EXCEPT !.pages = LastPage(L), !.came = L - a.rows]
           page2 == [a EXCEPT !.pages = LastPage(0), !.clean = FALSE]
<1>1. /\ UNCHANGED <<tables, cache, page, walk>> /\ at[r] = "count"
      /\ at' = [at EXCEPT ![r] = IF kind = "all" THEN "set" ELSE "products"]
      /\ failures' \in 0 .. MaxFailures
      /\ answer' = [answer EXCEPT ![r] = page1] \/ answer' = [answer EXCEPT ![r] = page2]
  BY DEF CountRows, Goto, Failure, PagesTypeOK
<1>2. L \in Nat
  BY <1>1 DEF Steps, PagesTypeOK
<1>3. LastPage(L) = L \div Size + 1 /\ LastPage(L) \in Nat /\ LastPage(0) \in Nat
  <2>1. L \div Size \in Nat
    BY <1>2, PagesFit
  <2>2. 0 \div Size \in Nat
    BY PagesFit
  <2> HIDE DEF L
  <2>3. LastPage(L) = L \div Size + 1 /\ LastPage(0) = 0 \div Size + 1
    BY DEF LastPage
  <2> QED BY <2>1, <2>2, <2>3
<1>a. L - a.rows \in Int
  BY <1>2 DEF Answer
<1>4. /\ page1 \in Answer /\ page1.pages = LastPage(L) /\ page1.came = L - a.rows
      /\ page1.clean = a.clean /\ Same(page1, a)
      /\ page2 \in Answer /\ ~page2.clean /\ page2.last = a.last
  BY <1>3, <1>a, ExistingFacts DEF Answer, Same
<1>5. a.clean /\ a.last => a.rows < (n + 1) * Size
  BY <1>1, <1>4 DEF Numbers, CountsAgree
<1>6. a.clean /\ ~a.last => (n + 1) * Size <= a.rows /\ a.rows <= L
  BY <1>1 DEF Numbers, CountsAgree
<1>7. page1.last = a.last
  BY <1>4 DEF Same
<1> HIDE DEF L, page1, page2
<1>8. Numbered(n, page1) /\ Numbered(n, page2)
  <2> DEFINE q == L \div Size
  <2>1. q \in Nat /\ n + 1 \in Nat /\ q * Size <= L
        /\ ((n + 1) * Size <= L => n + 1 <= q)
    <3>1. n + 1 \in Nat
      OBVIOUS
    <3>2. q \in Nat /\ ((n + 1) * Size <= L => n + 1 <= q)
      BY <1>2, <3>1, PagesFit
    <3>3. q * Size <= L
      BY <1>2, <3>2, PagesFit DEF q
    <3> QED BY <3>1, <3>2, <3>3
  <2>2. a.rows \in Nat /\ (n + 1) * Size \in Nat
    BY DEF Answer
  <2> HIDE DEF q
  <2> DEFINE p == page1.pages
  <2>3. p = q + 1 /\ page1.came = L - a.rows /\ page1.clean = a.clean
    BY <1>3, <1>4 DEF q
  <2> HIDE DEF p
  <2>4. a.clean /\ a.last => (p - (n + 1) - 1) * Size < L - a.rows
    <3>1. (p - (n + 1) - 1) * Size = q * Size - (n + 1) * Size
      <4>1. p - (n + 1) - 1 = q - (n + 1)
        BY <2>1, <2>3
      <4>2. \A i, j \in Nat : (i - j) * Size = i * Size - j * Size
        OBVIOUS
      <4> QED BY <2>1, <4>1, <4>2
    <3>2. q * Size \in Nat
      BY <2>1
    <3> QED BY <1>2, <1>5, <2>1, <2>2, <3>1, <3>2
  <2>5. a.clean /\ ~a.last => n + 1 < p
    BY <1>2, <1>6, <2>1, <2>2, <2>3
  <2>6. Numbered(n, page1)
    <3>1. a.clean /\ a.last => (page1.pages - (n + 1) - 1) * Size < page1.came
      BY <2>3, <2>4, Zenon DEF p
    <3>2. a.clean /\ ~a.last => n + 1 < page1.pages
      BY <2>5 DEF p
    <3> QED BY <1>7, <2>3, <3>1, <3>2, Zenon DEF Numbered
  <2>7. Numbered(n, page2)
    BY <1>4 DEF Numbered
  <2> QED BY <2>6, <2>7
<1>9. answer' \in [Request -> Answer] /\ answer'[r] \in {page1, page2}
  BY <1>1, <1>4 DEF PagesTypeOK
<1>10. PagesTypeOK'
  BY <1>1, <1>9 DEF PagesTypeOK, tables, Number
<1>11. Alone(r)
  BY <1>1, <1>10, CacheKnown DEF Alone, PagesTypeOK
<1>12. at'[r] \in {"set", "products"} /\ page'[r] = n
  BY <1>1 DEF PagesTypeOK
<1>13. Good(n, page1) /\ Good(n, page2)
  <2>1. Known(n, a)
    BY <1>1 DEF Known
  <2>2. ~a.last => (n + 1) * Size <= inserted
    BY <2>1 DEF PagesRead
  <2> QED BY <1>4, <1>7, <2>1, <2>2 DEF Good
<1> QED BY <1>1, <1>8, <1>9, <1>11, <1>12, <1>13, KeepsInvariant DEF Keeps, Shown, Going

LEMMA FindProductsKeeps == ASSUME PagesIInv, NEW r \in Request, FindProducts(r) PROVE PagesIInv'
<1> USE DEF PagesIInv
<1> PICK n \in Nat, a \in Answer : n = page[r] /\ a = answer[r]
  BY NumberType DEF PagesTypeOK
<1> DEFINE page1 == [a EXCEPT !.items = Existing(a.items)]
           page2 == [a EXCEPT !.items = {}, !.clean = FALSE]
<1>1. /\ UNCHANGED <<tables, cache, page, walk>> /\ at[r] = "products"
      /\ at' = [at EXCEPT ![r] = "set"] /\ failures' \in 0 .. MaxFailures
      /\ answer' = [answer EXCEPT ![r] = page1] \/ answer' = [answer EXCEPT ![r] = page2]
  BY DEF FindProducts, Goto, Failure, PagesTypeOK
<1>2. /\ page1 \in Answer /\ page1.clean = a.clean /\ Same(page1, a)
      /\ page1.pages = a.pages /\ page1.came = a.came
      /\ page2 \in Answer /\ ~page2.clean /\ page2.last = a.last
  BY ExistingFacts DEF Answer, Same
<1> HIDE DEF page1, page2
<1>3. page1.last = a.last
  BY <1>2 DEF Same
<1>4. Numbered(n, page1) /\ Numbered(n, page2)
  <2>1. Numbered(n, a)
    BY <1>1 DEF Numbers
  <2> QED BY <1>2, <1>3, <2>1 DEF Numbered
<1>5. answer' \in [Request -> Answer] /\ answer'[r] \in {page1, page2}
  BY <1>1, <1>2 DEF PagesTypeOK
<1>6. PagesTypeOK'
  BY <1>1, <1>5 DEF PagesTypeOK, tables, Number
<1>7. Alone(r)
  BY <1>1, <1>6, CacheKnown DEF Alone, PagesTypeOK
<1>8. at'[r] = "set" /\ page'[r] = n
  BY <1>1 DEF PagesTypeOK
<1>9. Good(n, page1) /\ Good(n, page2)
  <2>1. Known(n, a)
    BY <1>1 DEF Known
  <2>2. ~a.last => (n + 1) * Size <= inserted
    BY <2>1 DEF PagesRead
  <2> QED BY <1>2, <1>3, <2>1, <2>2 DEF Good
<1> QED BY <1>1, <1>4, <1>5, <1>7, <1>8, <1>9, KeepsInvariant DEF Keeps, Shown, Going

\* An entry that expires is one page less that is known.
LEMMA ExpireKeeps == ASSUME PagesIInv, NEW m \in Number, Expire(m) PROVE PagesIInv'
<1> USE DEF PagesIInv
<1>1. UNCHANGED <<tables, at, page, answer, walk, failures>> /\ cache' = [cache EXCEPT ![m] = None]
  BY DEF Expire
<1>2. PagesTypeOK' /\ Counted' /\ Steps' /\ Moment' = Moment /\ Number' = Number
  BY <1>1, AtRest DEF PagesTypeOK, Counted, Steps, tables, Number
<1>3. \A n \in Number : cache'[n] = cache[n] \/ cache'[n] = None
  BY <1>1 DEF PagesTypeOK
<1>4. Succeeds
  <2> SUFFICES ASSUME NEW n \in Nat, NEW a \in Answer, Known(n, a)' PROVE Good(n, a)
    BY DEF Succeeds
  <2>1. Known(n, a)
    BY <1>1, <1>2, <1>3 DEF Known
  <2> QED BY <2>1, KnownGood
<1>5. PagesRead'
  BY <1>1, <1>4, PagesKept
<1>6. WalksRead'
  <2> SUFFICES ASSUME NEW r \in Request PROVE WalkRead(r)'
    BY DEF WalksRead
  <2> QED BY <1>1, <1>4, WalkKept
<1>7. Numbers'
  BY <1>1, <1>2, <1>3 DEF Numbers, Numbered, CountsAgree, tables
<1> QED BY <1>2, <1>5, <1>6, <1>7
-----------------------------------------------------------------------------
(***************************************************************************)
(* The theorems.                                                           *)
(***************************************************************************)

\* No page is known, and nobody walks.
LEMMA InitPagesIInv == InitPages => PagesIInv
<1> SUFFICES ASSUME InitPages PROVE PagesIInv
  OBVIOUS
<1>1. kind \in Kinds /\ MaxListed[kind] \in Nat /\ 0 \in Number
  BY PagesFit DEF InitPages, Number
<1>2. NoAnswer \in Answer
  BY DEF NoAnswer, Answer
<1>3. walk \in [Request -> [due : SUBSET Item, of : {0} \cup Promotion, seen : SUBSET Item,
                            asof : Nat, orderly : BOOLEAN]]
  BY DEF InitPages, NoWalk
<1>4. \A d \in Promotion : list[d] \in Seq(Item) /\ Len(list[d]) = 0
  BY DEF InitPages
<1>5. PagesTypeOK
  BY <1>1, <1>2, <1>3, <1>4 DEF InitPages, PagesTypeOK
<1>6. Counted
  BY <1>4, FS_EmptySet DEF InitPages, Counted
<1>7. \A n, a : ~Known(n, a)
  BY DEF InitPages, Known
<1>8. \A r \in Request : at[r] = "idle" /\ ~walk[r].orderly /\ page[r] = 0
  BY DEF InitPages, NoWalk
<1>9. \A n \in Number : cache[n] = None
  BY DEF InitPages
<1> QED
  BY <1>5, <1>6, <1>7, <1>8, <1>9
     DEF PagesIInv, Steps, PagesRead, WalksRead, WalkRead, Numbers

\* No step breaks the inductive invariant.
LEMMA PagesInductive == PagesIInv /\ [NextPages]_pagesVars => PagesIInv'
<1> SUFFICES ASSUME PagesIInv, [NextPages]_pagesVars PROVE PagesIInv'
  OBVIOUS
<1>1. CASE Promote
  BY <1>1, PromoteGrows, GrownKeeps
<1>2. ASSUME NEW i \in Item, StoreProduct(i) PROVE PagesIInv'
  BY <1>2, StoreProductGrows, GrownKeeps
<1>3. ASSUME NEW i \in Item, NEW d \in Promotion, Insert(d, i) PROVE PagesIInv'
  BY <1>3, InsertGrows, GrownKeeps
<1>4. ASSUME NEW n \in Number, Expire(n) PROVE PagesIInv'
  BY <1>4, ExpireKeeps
<1>5. ASSUME NEW r \in Request, Begin(r) \/ Turn(r) \/ Leave(r) PROVE PagesIInv'
  BY <1>5, BeginKeeps, TurnKeeps, LeaveKeeps
<1>6. ASSUME NEW r \in Request, Handle(r) PROVE PagesIInv'
  BY <1>6, HitKeeps, MissKeeps, FindPromotionKeeps, FindRowsKeeps, CountRowsKeeps,
     FindProductsKeeps, SetKeeps DEF Handle
<1>7. CASE UNCHANGED pagesVars
  <2>1. UNCHANGED <<tables, cache, at, page, answer, walk, failures>>
    BY <1>7 DEF pagesVars
  <2>2. \A n, a : Known(n, a)' <=> Known(n, a)
    BY <2>1, AtRest DEF Known
  <2>3. Succeeds
    BY <2>2, KnownGood DEF Succeeds, PagesIInv
  <2>4. PagesRead'
    BY <2>1, <2>3, PagesKept
  <2>5. WalksRead'
    <3> SUFFICES ASSUME NEW r \in Request PROVE WalkRead(r)'
      BY DEF WalksRead
    <3> QED BY <2>1, <2>3, WalkKept
  <2>6. Moment' = Moment /\ Number' = Number
    BY <2>1, AtRest
  <2>7. PagesTypeOK' /\ Counted' /\ Steps' /\ Numbers'
    BY <2>1, <2>6 DEF PagesIInv, PagesTypeOK, Counted, Steps, Numbers, Numbered, CountsAgree, tables
  <2> QED BY <2>4, <2>5, <2>7 DEF PagesIInv
<1> QED BY <1>1, <1>2, <1>3, <1>4, <1>5, <1>6, <1>7 DEF NextPages

\* The inductive invariant holds.
LEMMA PagesInvariant == PagesSpec => []PagesIInv
  BY InitPagesIInv, PagesInductive, PTL DEF PagesSpec

\* The variables keep their types; a user never comes to a page that no row can
\* fill (handler.go:159-350).
THEOREM PagesTypeCorrect == PagesSpec => []PagesTypeOK
<1>1. PagesIInv => PagesTypeOK BY DEF PagesIInv
<1> QED BY <1>1, PagesInvariant, PTL

\* However many rows come between the SELECT of a page and its COUNT, LastPageNumber
\* differs from IsLastPage by the pages those rows fill, and never tells an end that
\* IsLastPage denies (handler.go:190-210, promotion.go:67-95).
THEOREM PageNumbersAgree == PagesSpec => []PageNumbers
<1>1. PagesIInv => PageNumbers
  <2> SUFFICES ASSUME PagesIInv, NEW r \in Request, at[r] = "shown", answer[r].clean
               PROVE  IF answer[r].last
                 THEN (answer[r].pages - (page[r] + 1) - 1) * Size < answer[r].came
                 ELSE page[r] + 1 < answer[r].pages
    BY DEF PageNumbers
  <2> QED BY DEF PagesIInv, Numbers, Numbered
<1> QED BY <1>1, PagesInvariant, PTL

\* Who turns pages of any size up to the last one, cached or not, sees everything
\* that was on the list when they began, whatever is inserted meanwhile and however
\* many users walk (product_promotion_link.go:24-60).
THEOREM WalksAreComplete == PagesSpec => []WalkComplete
<1>1. PagesIInv => WalkComplete
  <2> SUFFICES ASSUME PagesIInv, NEW r \in Request, at[r] = "shown", answer[r].last,
                      walk[r].orderly
               PROVE  walk[r].due \subseteq walk[r].seen
    BY DEF WalkComplete
  <2>1. answer[r].clean /\ Left(r) \subseteq answer[r].rest
    BY DEF PagesIInv, WalksRead, WalkRead
  <2>2. answer[r] \in Answer /\ page[r] \in Nat /\ Known(page[r], answer[r])
    BY NumberType DEF PagesIInv, PagesTypeOK, Known
  <2>3. answer[r].rest = {}
    BY <2>1, <2>2 DEF PagesIInv, PagesRead, Read
  <2> QED BY <2>1, <2>3 DEF Left
<1> QED BY <1>1, PagesInvariant, PTL
-----------------------------------------------------------------------------
(***************************************************************************)
(* Pages and prices side by side.                                          *)
(***************************************************************************)

\* A behaviour of the two is one of each: a step of one part is a stutter of
\* the other.
LEMMA BothReads == MCSpec => Spec /\ PagesSpec
<1>1. MCInit => Init /\ InitPages
  BY DEF MCInit
<1>2. [MCNext]_<<part, vars, pagesVars>> => [Next]_vars /\ [NextPages]_pagesVars
  BY DEF MCNext
<1> QED BY <1>1, <1>2, PTL DEF MCSpec, Spec, PagesSpec

\* Both parts keep their types whatever the other does.
THEOREM ReadsTypesCorrect == MCSpec => []TypesOK
<1>1. TypeOK /\ PagesTypeOK => TypesOK
  BY DEF TypesOK
<1> QED BY <1>1, BothReads, TypeCorrect, PagesTypeCorrect, PTL

\* What the gateway reads of changing tables, as a whole: statistics agree with
\* the prices, walks are complete and page numbers agree.
THEOREM ReadsAgree == MCSpec => [](StatsHold /\ WalkComplete /\ PageNumbers)
  BY BothReads, StatisticsAgree, WalksAreComplete, PageNumbersAgree, PTL
===============================================================================
