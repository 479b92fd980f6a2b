-------------------------- MODULE ProductSweepProofs --------------------------
(***************************************************************************)
(* Theorems of ProductSweep for any number of runs, products, brands and   *)
(* promotions, any size of the pages and of the pool, and all failures.    *)
(***************************************************************************)
EXTENDS ProductSweep, FiniteSetTheorems, TLAPS

\* A page is finite, so that its answers can be counted, and a link is committed
\* after it was inserted.
Types ==
    /\ TypeOK
    /\ \A r \in Run : IsFiniteSet(page[r])
    /\ \A k \in Run \X Offer : kid[k].pc = "commit" => kid[k].row \in 1 .. Len(link)

PcType == {"idle", "read", "sweep", "deal", "links", "products", "fetch",
           "upsert", "collect", "stop", "end", "quit"}

LEMMA InitTypeOK == Init => TypeOK
  BY DEF Init, TypeOK, NoKid, UnknownBrand, Kind, Keyset, Table

\* Typing of what the actions of several kinds of tasks change.
LEMMA GotoType ==
  ASSUME TypeOK, NEW r \in Run, NEW p \in PcType, Goto(r, p)
  PROVE  pc' \in [Run -> PcType]
  BY DEF TypeOK, Goto, PcType

LEMMA IdsType ==
  ASSUME NEW f \in [Run -> SUBSET Nat], NEW r \in Run, NEW i \in Nat
  PROVE  /\ [f EXCEPT ![r] = @ \cup {i}] \in [Run -> SUBSET Nat]
         /\ [f EXCEPT ![r] = @ \ {i}] \in [Run -> SUBSET Nat]
  OBVIOUS

LEMMA VisibleIds ==
  ASSUME TypeOK
  PROVE  \A t \in Table : IsFiniteSet(visible[t]) /\ visible[t] \subseteq Nat \ {0}
  <1>1. \A n \in Nat : IsFiniteSet(1 .. n)
    BY FS_Interval
  <1>2. Len(product) \in Nat /\ Len(link) \in Nat /\ brands \in Nat
    BY DEF TypeOK
  <1>3. IsFiniteSet(visible["product"]) /\ visible["product"] \subseteq Nat \ {0}
    BY <1>1, <1>2, FS_Subset DEF TypeOK
  <1>4. IsFiniteSet(visible["brand"]) /\ visible["brand"] \subseteq Nat \ {0}
    BY <1>1, <1>2, FS_Subset DEF TypeOK
  <1>5. IsFiniteSet(visible["link"]) /\ visible["link"] \subseteq Nat \ {0}
    BY <1>1, <1>2, FS_Subset DEF TypeOK
  <1> QED BY <1>3, <1>4, <1>5 DEF Table

LEMMA SourceTable == \A k : Source(k) \in Table
  BY DEF Source, Table

LEMMA HandlersType ==
  ASSUME TypeOK, Handlers
  PROVE  TypeOK'
  <1>1. ASSUME NEW p \in Plid, NewProduct(p) PROVE TypeOK'
    <2>1. product' \in Seq(Plid) /\ Len(product') = Len(product) + 1 /\ Len(product) \in Nat
      BY <1>1 DEF TypeOK, NewProduct
    <2>2. 1 .. Len(product) \subseteq 1 .. Len(product')
      BY <2>1
    <2> QED BY <1>1, <2>1, <2>2 DEF TypeOK, NewProduct, paging, pool
  <1>2. CASE NewBrand
    <2>1. brands' \in Nat /\ 1 .. brands \subseteq 1 .. brands'
      BY <1>2 DEF TypeOK, NewBrand
    <2> QED BY <1>2, <2>1 DEF TypeOK, NewBrand, paging, pool
  <1>3. ASSUME NEW t \in Table, NEW i \in Nat, Commit(t, i) PROVE TypeOK'
    <2>1. there' \in [Run -> SUBSET Nat]
      BY <1>3 DEF TypeOK, Commit
    <2> QED BY <1>3, <2>1 DEF TypeOK, Commit, paging, pool, Table
  <1>4. Len(product) + brands \in Nat
    BY DEF TypeOK
  <1>5. \A i \in 1 .. (Len(product) + brands) : i \in Nat
    BY <1>4
  <1> QED BY <1>1, <1>2, <1>3, <1>5 DEF Handlers

LEMMA StartType ==
  ASSUME TypeOK, NEW r \in Run, NEW k \in Kinds, Start(r, k)
  PROVE  TypeOK'
  <1>1. k \in Kind
    BY OfferAssumption
  <1>2. pc' \in [Run -> PcType]
    BY GotoType DEF Start, PcType
  <1>3. there' \in [Run -> SUBSET Nat]
    <2>1. visible[Source(k)] \subseteq Nat
      BY VisibleIds, SourceTable
    <2> QED BY <2>1 DEF TypeOK, Start
  <1> QED BY <1>1, <1>2, <1>3 DEF TypeOK, Start, tables, pool, PcType

LEMMA ReadPageType ==
  ASSUME TypeOK, NEW r \in Run, ReadPage(r)
  PROVE  TypeOK'
  <1> DEFINE S == visible[Source(kind[r])]
  <1>1. S \subseteq Nat
    BY VisibleIds, SourceTable
  <1>2. PICK P \in SUBSET S, failed \in BOOLEAN :
          /\ page' = [page EXCEPT ![r] = P]
          /\ rest' = [rest EXCEPT ![r] = P]
          /\ blind' = [blind EXCEPT ![r] = @ \/ failed]
          /\ Goto(r, IF P = {} THEN "end" ELSE "sweep")
    BY DEF ReadPage
  <1>3. pc' \in [Run -> PcType]
    BY <1>2, GotoType DEF PcType
  <1>4. page' \in [Run -> SUBSET Nat] /\ rest' \in [Run -> SUBSET Nat]
    BY <1>1, <1>2 DEF TypeOK
  <1>5. blind' \in [Run -> BOOLEAN]
    BY <1>2 DEF TypeOK
  <1> QED BY <1>3, <1>4, <1>5 DEF TypeOK, ReadPage, tables, pool, PcType

LEMMA PublishType ==
  ASSUME TypeOK, NEW r \in Run, NEW i \in rest[r],
         PublishProduct(r, i) \/ PublishBrand(r, i) \/ Submit(r, i)
  PROVE  TypeOK'
  <1>1. i \in Nat /\ rest \in [Run -> SUBSET Nat] /\ swept \in [Run -> SUBSET Nat]
    BY DEF TypeOK
  <1>2. CASE PublishProduct(r, i)
    <2>1. pc' \in [Run -> PcType]
      BY <1>2, GotoType DEF PublishProduct, PcType, TypeOK
    <2>2. rest' \in [Run -> SUBSET Nat] /\ swept' \in [Run -> SUBSET Nat]
      BY <1>1, <1>2, IdsType DEF PublishProduct
    <2>3. UNCHANGED <<tables, kind, from, page, deal, links, pool, kid, there, blind>>
      BY <1>2 DEF PublishProduct
    <2> QED BY <2>1, <2>2, <2>3 DEF TypeOK, tables, pool, PcType
  <1>3. CASE PublishBrand(r, i)
    <2>1. pc' \in [Run -> PcType]
      BY <1>3, GotoType DEF PublishBrand, PcType, TypeOK
    <2>2. rest' \in [Run -> SUBSET Nat] /\ swept' \in [Run -> SUBSET Nat]
      BY <1>1, <1>3, IdsType DEF PublishBrand
    <2>3. UNCHANGED <<tables, kind, from, page, deal, links, pool, kid, there, blind>>
      BY <1>3 DEF PublishBrand
    <2> QED BY <2>1, <2>2, <2>3 DEF TypeOK, tables, pool, PcType
  <1>4. CASE Submit(r, i)
    <2>1. rest' \in [Run -> SUBSET Nat] /\ queue' \in [Run -> SUBSET Nat]
      BY <1>1, <1>4 DEF TypeOK, Submit
    <2> QED BY <1>4, <2>1 DEF TypeOK, Submit, tables
  <1> QED BY <1>2, <1>3, <1>4

LEMMA AdvanceType ==
  ASSUME TypeOK, NEW r \in Run, Advance(r)
  PROVE  from' \in [Run -> Nat] /\ pc' \in [Run -> PcType]
  BY GotoType DEF TypeOK, Advance, PcType

LEMMA PagingType ==
  ASSUME Types, TypeOK, NEW r \in Run, NextPage(r) \/ StopPool(r) \/ Submitted(r) \/ Collected(r)
  PROVE  TypeOK'
  <1>1. CASE NextPage(r)
    BY <1>1, AdvanceType DEF TypeOK, NextPage, tables, pool, PcType
  <1>2. CASE StopPool(r)
    BY <1>2, AdvanceType DEF TypeOK, StopPool, tables, PcType
  <1>3. CASE Submitted(r)
    <2>1. pc' \in [Run -> PcType]
      BY <1>3, GotoType DEF Submitted, PcType
    <2>2. left' \in [Run -> Nat]
      BY <1>3, FS_CardinalityType DEF TypeOK, Submitted, Types
    <2> QED BY <1>3, <2>1, <2>2 DEF TypeOK, Submitted, tables, paging, PcType
  <1>4. CASE Collected(r)
    <2>1. pc' \in [Run -> PcType]
      BY <1>4, GotoType DEF Collected, PcType
    <2> QED BY <1>4, <2>1 DEF TypeOK, Collected, tables, paging, pool, PcType
  <1> QED BY <1>1, <1>2, <1>3, <1>4
LEMMA DealsType ==
  ASSUME TypeOK, NEW r \in Run,
         FindDeal(r) \/ ReadLinks(r) \/ ReadProducts(r) \/ NextLinks(r)
  PROVE  TypeOK'
  <1>0. \A t \in Table : visible[t] \subseteq Nat
    BY VisibleIds
  <1>1. CASE FindDeal(r)
    <2>1. pc' \in [Run -> PcType]
      BY <1>1, GotoType DEF FindDeal, PcType
    <2>2. deal' \in [Run -> Nat]
      BY <1>1 DEF TypeOK, FindDeal, Deals
    <2>3. \A ls : ProductsOf(ls) \subseteq Nat
      BY <1>0 DEF ProductsOf, Table
    <2>4. there' \in [Run -> SUBSET Nat]
      <3>1. \A d \in Deals : ProductsOf(LinksOf(d)) \in SUBSET Nat
        BY <2>3
      <3>2. there \in [Run -> SUBSET Nat]
        BY DEF TypeOK
      <3>3. CASE UNCHANGED <<deal, there>>
        BY <3>2, <3>3
      <3>4. CASE \E d \in Deals : there' = [there EXCEPT ![r] = ProductsOf(LinksOf(d))]
        BY <3>1, <3>2, <3>4
      <3> QED BY <1>1, <3>3, <3>4 DEF FindDeal
    <2>5. UNCHANGED <<tables, kind, from, page, rest, links, pool, kid, swept, blind>>
      BY <1>1 DEF FindDeal
    <2> QED BY <2>1, <2>2, <2>4, <2>5 DEF TypeOK, tables, pool, PcType
  <1>2. CASE ReadLinks(r)
    <2>1. pc' \in [Run -> PcType]
      BY <1>2, GotoType DEF ReadLinks, PcType
    <2>2. LinksOf(deal[r]) \subseteq Nat
      BY <1>0 DEF LinksOf, Table
    <2>3. links' \in [Run -> SUBSET Nat] /\ blind' \in [Run -> BOOLEAN]
      BY <1>2, <2>2 DEF TypeOK, ReadLinks
    <2>4. UNCHANGED <<tables, kind, from, page, rest, deal, pool, kid, there, swept>>
      BY <1>2 DEF ReadLinks
    <2> QED BY <2>1, <2>3, <2>4 DEF TypeOK, tables, pool, PcType
  <1>3. CASE ReadProducts(r)
    <2>1. pc' \in [Run -> PcType]
      BY <1>3, GotoType DEF ReadProducts, PcType
    <2>2. ProductsOf(links[r]) \subseteq Nat
      BY <1>0 DEF ProductsOf, Table
    <2>3. rest' \in [Run -> SUBSET Nat] /\ blind' \in [Run -> BOOLEAN]
      <3>1. rest \in [Run -> SUBSET Nat] /\ blind \in [Run -> BOOLEAN]
        BY DEF TypeOK
      <3>2. ProductsOf(links[r]) \in SUBSET Nat /\ {} \in SUBSET Nat
        BY <2>2
      <3>3. CASE rest' = [rest EXCEPT ![r] = ProductsOf(links[r])] /\ UNCHANGED blind
        BY <3>1, <3>2, <3>3
      <3>4. CASE rest' = [rest EXCEPT ![r] = {}] /\ blind' = [blind EXCEPT ![r] = TRUE]
        BY <3>1, <3>2, <3>4
      <3> QED BY <1>3, <3>3, <3>4 DEF ReadProducts
    <2>4. UNCHANGED <<tables, kind, from, page, deal, links, pool, kid, there, swept>>
      BY <1>3 DEF ReadProducts
    <2> QED BY <2>1, <2>3, <2>4 DEF TypeOK, tables, pool, PcType
  <1>4. CASE NextLinks(r)
    <2>1. pc' \in [Run -> PcType]
      BY <1>4, GotoType DEF NextLinks, PcType
    <2>2. from[r] + Size[kind[r]] \in Nat
      BY SizeAssumption DEF TypeOK
    <2>3. from' \in [Run -> Nat]
      BY <1>4, <2>2 DEF TypeOK, NextLinks
    <2>4. UNCHANGED <<tables, kind, page, rest, deal, links, pool, kid, there, swept, blind>>
      BY <1>4 DEF NextLinks
    <2> QED BY <2>1, <2>3, <2>4 DEF TypeOK, tables, pool, PcType
  <1> QED BY <1>1, <1>2, <1>3, <1>4

KidPc   == {"none", "create", "new", "fetch", "link", "commit", "end", "quit"}
KidType == [pc : KidPc, promotion : Nat, todo : SUBSET Plid, row : Nat]

LEMMA KidStep ==
  ASSUME TypeOK, NEW k \in Run \X Offer, NEW x \in KidType, kid' = [kid EXCEPT ![k] = x]
  PROVE  kid' \in [Run \X Offer -> KidType]
  BY DEF TypeOK, KidType, KidPc

LEMMA PromotionsType ==
  ASSUME TypeOK, NEW r \in Run, FetchPromotions(r) \/ Spawn(r)
  PROVE  TypeOK'
  <1>1. CASE FetchPromotions(r)
    <2>1. pc' \in [Run -> PcType]
      BY <1>1, GotoType DEF FetchPromotions, PcType
    <2> QED BY <1>1, <2>1 DEF TypeOK, FetchPromotions, tables, paging, pool, PcType
  <1>2. CASE Spawn(r)
    <2>1. pc' \in [Run -> PcType]
      BY <1>2, GotoType DEF Spawn, PcType
    <2>2. kid' \in [Run \X Offer -> KidType]
      <3>1. \A k \in Run \X Offer : kid[k] \in KidType
        BY DEF TypeOK, KidType, KidPc
      <3>2. \A x \in KidType : [x EXCEPT !.pc = "fetch"] \in KidType
        BY DEF KidType, KidPc
      <3> QED BY <1>2, <3>1, <3>2 DEF Spawn
    <2> QED BY <1>2, <2>1, <2>2 DEF TypeOK, Spawn, tables, paging, pool, PcType, KidType, KidPc
  <1> QED BY <1>1, <1>2

\* UpsertPromotion adds the offer's row, if at all, and may set the kid's ID to it.
LEMMA UpsertEffect ==
  ASSUME TypeOK, NEW k \in Run \X Offer, UpsertPromotion(k)
  PROVE  /\ promotion' = promotion \/ (IsNew(k) /\ promotion' = Append(promotion, k[2]))
         /\ \/ /\ kid' = [kid EXCEPT ![k] =
                            [NoKid EXCEPT !.pc = "new", !.promotion = ModelId(k)]]
               /\ IsNew(k) => promotion' = Append(promotion, k[2])
               /\ UNCHANGED pc
            \/ kid' = [kid EXCEPT ![k] = NoKid] /\ Goto(k[1], "quit")
         /\ UNCHANGED <<product, brands, link, visible, paging, pool, there, swept, blind>>
  <1>1. PICK ok \in BOOLEAN, stored \in BOOLEAN :
          /\ ok => stored
          /\ promotion' = IF IsNew(k) /\ stored THEN Append(promotion, k[2]) ELSE promotion
          /\ IF ok
             THEN /\ kid' = [kid EXCEPT ![k] =
                               [NoKid EXCEPT !.pc = "new", !.promotion = ModelId(k)]]
                  /\ UNCHANGED pc
             ELSE /\ kid' = [kid EXCEPT ![k] = NoKid]
                  /\ Goto(k[1], "quit")
    BY DEF UpsertPromotion
  <1> QED BY <1>1 DEF UpsertPromotion

\* Of its run, an upsert changes the program counter at most.
LEMMA UpsertSame ==
  ASSUME TypeOK, NEW r \in Run, NEW o \in Offer,
         FindPromotion(<<r, o>>) \/ UpsertPromotion(<<r, o>>)
  PROVE  /\ pc' = pc \/ Goto(r, "quit")
         /\ UNCHANGED <<product, brands, link, visible, paging, pool, there, swept, blind>>
  <1>1. <<r, o>> \in Run \X Offer /\ <<r, o>>[1] = r
    OBVIOUS
  <1>2. CASE FindPromotion(<<r, o>>)
    BY <1>2 DEF FindPromotion, tables
  <1>3. CASE UpsertPromotion(<<r, o>>)
    <2> DEFINE k == <<r, o>>
    <2>1. k \in Run \X Offer /\ k[1] = r /\ UpsertPromotion(k)
      BY <1>1, <1>3
    <2> HIDE DEF k
    <2>2. pc' = pc \/ Goto(k[1], "quit")
      BY <2>1, UpsertEffect
    <2>3. UNCHANGED <<product, brands, link, visible, paging, pool, there, swept, blind>>
      BY <2>1, UpsertEffect
    <2> QED BY <2>1, <2>2, <2>3
  <1> QED BY <1>2, <1>3

LEMMA UpsertType ==
  ASSUME TypeOK, NEW k \in Run \X Offer, FindPromotion(k) \/ UpsertPromotion(k)
  PROVE  TypeOK'
  <1>0. NoKid \in KidType
    BY DEF NoKid, KidType, KidPc
  <1>1. CASE FindPromotion(k)
    <2>1. PICK i \in 0 .. Len(promotion) :
            kid' = [kid EXCEPT ![k] = [NoKid EXCEPT !.pc = "create", !.row = i]]
      BY <1>1 DEF FindPromotion
    <2>2. i \in Nat
      BY <2>1 DEF TypeOK
    <2>3. [NoKid EXCEPT !.pc = "create", !.row = i] \in KidType
      BY <2>2 DEF NoKid, KidType, KidPc
    <2>4. kid' \in [Run \X Offer -> KidType]
      BY <2>1, <2>3, KidStep
    <2> QED BY <1>1, <2>4 DEF TypeOK, FindPromotion, tables, paging, pool, KidType, KidPc
  <1>2. CASE UpsertPromotion(k)
    <2>1. promotion' \in Seq(Offer)
      <3>1. promotion \in Seq(Offer) /\ k[2] \in Offer
        BY DEF TypeOK
      <3>2. Append(promotion, k[2]) \in Seq(Offer)
        BY <3>1
      <3> QED BY <1>2, <3>1, <3>2, UpsertEffect
    <2>2. ModelId(k) \in Nat
      BY DEF TypeOK, ModelId
    <2>3. [NoKid EXCEPT !.pc = "new", !.promotion = ModelId(k)] \in KidType
      BY <2>2 DEF NoKid, KidType, KidPc
    <2>4. kid' \in [Run \X Offer -> KidType]
      BY <1>2, <1>0, <2>3, KidStep, UpsertEffect
    <2>5. pc' \in [Run -> PcType]
      <3>1. CASE Goto(k[1], "quit")
        BY <3>1, GotoType DEF PcType
      <3>2. CASE UNCHANGED pc
        BY <3>2 DEF TypeOK, PcType
      <3> QED BY <1>2, <3>1, <3>2, UpsertEffect
    <2>6. UNCHANGED <<product, brands, link, visible, paging, pool, there, swept, blind>>
      BY <1>2, UpsertEffect
    <2> QED BY <2>1, <2>4, <2>5, <2>6 DEF TypeOK, paging, pool, PcType, KidType, KidPc
  <1> QED BY <1>1, <1>2

LEMMA PoolType ==
  ASSUME TypeOK, NEW r \in Run, NEW i \in Nat, TakeJob(r, i) \/ Clean(r, i) \/ Receive(r, i)
  PROVE  TypeOK'
  <1>0. /\ queue \in [Run -> SUBSET Nat] /\ working \in [Run -> SUBSET Nat]
        /\ sending \in [Run -> SUBSET Nat] /\ swept \in [Run -> SUBSET Nat]
    BY DEF TypeOK
  <1>1. CASE TakeJob(r, i)
    <2>1. queue' \in [Run -> SUBSET Nat] /\ working' \in [Run -> SUBSET Nat]
      BY <1>0, <1>1, IdsType DEF TakeJob
    <2> QED BY <1>1, <2>1 DEF TypeOK, TakeJob, tables, paging
  <1>2. CASE Clean(r, i)
    <2>1. /\ swept' \in [Run -> SUBSET Nat] /\ working' \in [Run -> SUBSET Nat]
          /\ sending' \in [Run -> SUBSET Nat]
      BY <1>0, <1>2, IdsType DEF Clean
    <2> QED BY <1>2, <2>1 DEF TypeOK, Clean, tables, paging
  <1>3. CASE Receive(r, i)
    <2>1. sending' \in [Run -> SUBSET Nat]
      BY <1>0, <1>3, IdsType DEF Receive
    <2>2. left' \in [Run -> Nat]
      BY <1>3 DEF TypeOK, Receive
    <2> QED BY <1>3, <2>1, <2>2 DEF TypeOK, Receive, tables, paging
  <1> QED BY <1>1, <1>2, <1>3

LEMMA KidsType ==
  ASSUME TypeOK, NEW k \in Run \X Offer,
         FetchPLIDs(k) \/ (\E p \in kid[k].todo : CreateLink(k, p))
  PROVE  TypeOK'
  <1>0. kid[k] \in KidType
    BY DEF TypeOK, KidType, KidPc
  <1>1. CASE FetchPLIDs(k)
    <2>1. OnPromotion[k[2]] \subseteq Plid
      BY OfferAssumption
    <2>2. /\ [kid[k] EXCEPT !.pc = IF OnPromotion[k[2]] = {} THEN "end" ELSE "link",
                            !.todo = OnPromotion[k[2]]] \in KidType
          /\ [kid[k] EXCEPT !.pc = "quit"] \in KidType
      BY <1>0, <2>1 DEF KidType, KidPc
    <2>3. kid' \in [Run \X Offer -> KidType]
      BY <1>1, <2>2, KidStep DEF FetchPLIDs
    <2> QED BY <1>1, <2>3 DEF TypeOK, FetchPLIDs, tables, paging, pool, KidType, KidPc
  <1>2. ASSUME NEW p \in kid[k].todo, CreateLink(k, p) PROVE TypeOK'
    <2>1. p \in Plid /\ kid[k].promotion \in Nat
      BY <1>0 DEF KidType
    <2>2. /\ link' \in Seq(LinkRow)
          /\ Len(link') = Len(link) + 1 /\ Len(link) \in Nat
      <3>1. [promotion |-> kid[k].promotion, plid |-> p, by |-> k] \in LinkRow
        BY <2>1 DEF LinkRow
      <3>2. link \in Seq(LinkRow)
        BY DEF TypeOK
      <3>3. link' = Append(link, [promotion |-> kid[k].promotion, plid |-> p, by |-> k])
        BY <1>2 DEF CreateLink
      <3> QED BY <3>1, <3>2, <3>3
    <2>3. [kid[k] EXCEPT !.pc = "commit", !.row = Len(link) + 1,
                         !.todo = kid[k].todo \ {p}] \in KidType
      <3>1. Len(link) + 1 \in Nat /\ kid[k].todo \ {p} \in SUBSET Plid
        BY <1>0, <2>2 DEF KidType
      <3> QED BY <1>0, <3>1 DEF KidType, KidPc
    <2>4. kid' \in [Run \X Offer -> KidType]
      BY <1>2, <2>3, KidStep DEF CreateLink
    <2>5. visible["link"] \subseteq 1 .. Len(link')
      BY <2>2 DEF TypeOK
    <2> QED BY <1>2, <2>2, <2>4, <2>5 DEF TypeOK, CreateLink, paging, pool, KidType, KidPc
  <1> QED BY <1>1, <1>2

LEMMA InitTypes == Init => Types
  <1> SUFFICES ASSUME Init PROVE Types
    OBVIOUS
  <1>1. TypeOK
    BY InitTypeOK
  <1>2. \A r \in Run : IsFiniteSet(page[r])
    BY FS_EmptySet DEF Init
  <1>3. \A k \in Run \X Offer : kid[k].pc # "commit"
    BY DEF Init, NoKid
  <1> QED BY <1>1, <1>2, <1>3 DEF Types

LEMMA TaskTypeOK ==
  ASSUME Types, NEW r \in Run, Task(r)
  PROVE  TypeOK'
  <1>0. TypeOK /\ rest[r] \subseteq Nat /\ sending[r] \subseteq Nat
    BY DEF Types, TypeOK
  <1>1. ASSUME NEW o \in Offer, FindPromotion(<<r, o>>) \/ UpsertPromotion(<<r, o>>) PROVE TypeOK'
    <2>1. <<r, o>> \in Run \X Offer
      OBVIOUS
    <2> QED BY <1>0, <1>1, <2>1, UpsertType
  <1>2. ASSUME NEW i \in rest[r], PublishProduct(r, i) \/ PublishBrand(r, i) \/ Submit(r, i)
        PROVE  TypeOK'
    BY <1>0, <1>2, PublishType
  <1>3. ASSUME NEW i \in sending[r], Receive(r, i) PROVE TypeOK'
    BY <1>0, <1>3, PoolType
  <1>4. CASE ReadPage(r)
    BY <1>0, <1>4, ReadPageType
  <1>5. CASE NextPage(r) \/ Submitted(r) \/ Collected(r) \/ StopPool(r)
    BY <1>0, <1>5, PagingType
  <1>6. CASE FindDeal(r) \/ ReadLinks(r) \/ ReadProducts(r) \/ NextLinks(r)
    BY <1>0, <1>6, DealsType
  <1>7. CASE FetchPromotions(r) \/ Spawn(r)
    BY <1>0, <1>7, PromotionsType
  <1> QED BY <1>1, <1>2, <1>3, <1>4, <1>5, <1>6, <1>7 DEF Task

LEMMA WorkerTypeOK ==
  ASSUME Types, NEW r \in Run, Worker(r)
  PROVE  TypeOK'
  <1>0. TypeOK /\ queue[r] \subseteq Nat /\ working[r] \subseteq Nat
    BY DEF Types, TypeOK
  <1> QED BY <1>0, PoolType DEF Worker

\* Only ReadPage turns to another page.
LEMMA PageStep ==
  ASSUME Types, NEW r \in Run, Task(r)
  PROVE  \A s \in Run : IsFiniteSet(page'[s])
  <1>1. CASE ReadPage(r)
    <2>1. PICK P \in SUBSET visible[Source(kind[r])] : page' = [page EXCEPT ![r] = P]
      BY <1>1 DEF ReadPage
    <2>2. IsFiniteSet(P)
      <3>1. IsFiniteSet(visible[Source(kind[r])])
        BY VisibleIds, SourceTable DEF Types
      <3> QED BY <3>1, FS_Subset
    <2> QED BY <2>1, <2>2 DEF Types, TypeOK
  <1>2. CASE page' = page
    BY <1>2 DEF Types
  <1>3. ReadPage(r) \/ page' = page
    BY DEF Task, NextPage, PublishProduct, PublishBrand, Submit, FindDeal, ReadLinks, ReadProducts,
           NextLinks, FetchPromotions, Spawn, FindPromotion, UpsertPromotion, Submitted, Collected,
           StopPool, Receive, paging
  <1> QED BY <1>1, <1>2, <1>3

\* A kid's change of one record, as far as the row it is about to commit goes.
RowInserted == \A k \in Run \X Offer : kid[k].pc = "commit" => kid[k].row \in 1 .. Len(link)

LEMMA RowStep ==
  ASSUME TypeOK, RowInserted, NEW k \in Run \X Offer, NEW x \in KidType, x.pc # "commit",
         kid' = [kid EXCEPT ![k] = x], link' = link
  PROVE  RowInserted'
  BY DEF TypeOK, RowInserted

LEMMA TaskRows ==
  ASSUME Types, NEW r \in Run, Task(r)
  PROVE  RowInserted'
  <1>0. TypeOK /\ RowInserted
    BY DEF Types, RowInserted
  <1>1. CASE UNCHANGED <<kid, link>>
    BY <1>0, <1>1 DEF RowInserted
  <1>2. CASE Spawn(r)
    <2>1. \A k \in Run \X Offer : kid'[k].pc = "commit" => kid'[k] = kid[k]
      BY <1>0, <1>2 DEF Spawn, TypeOK
    <2> QED BY <1>0, <1>2, <2>1 DEF RowInserted, Spawn, tables
  <1>3. ASSUME NEW o \in Offer, FindPromotion(<<r, o>>) PROVE RowInserted'
    <2> DEFINE k == <<r, o>>
    <2>1. PICK i \in 0 .. Len(promotion) :
            kid' = [kid EXCEPT ![k] = [NoKid EXCEPT !.pc = "create", !.row = i]]
      BY <1>3 DEF FindPromotion
    <2>2. [NoKid EXCEPT !.pc = "create", !.row = i] \in KidType
      <3>1. i \in Nat
        BY <1>0, <2>1 DEF TypeOK
      <3> QED BY <3>1 DEF NoKid, KidType, KidPc
    <2>3. [NoKid EXCEPT !.pc = "create", !.row = i].pc = "create"
      BY DEF NoKid
    <2> QED BY <1>0, <1>3, <2>1, <2>2, <2>3, RowStep DEF FindPromotion, tables
  <1>4. ASSUME NEW o \in Offer, UpsertPromotion(<<r, o>>) PROVE RowInserted'
    <2> DEFINE k == <<r, o>>
    <2>1. \/ kid' = [kid EXCEPT ![k] = [NoKid EXCEPT !.pc = "new", !.promotion = ModelId(k)]]
          \/ kid' = [kid EXCEPT ![k] = NoKid]
      BY <1>0, <1>4, UpsertEffect
    <2>2. link' = link /\ k \in Run \X Offer
      BY <1>0, <1>4, UpsertEffect
    <2>3. ModelId(k) \in Nat
      BY <1>0 DEF TypeOK, ModelId
    <2>4. /\ [NoKid EXCEPT !.pc = "new", !.promotion = ModelId(k)] \in KidType
          /\ [NoKid EXCEPT !.pc = "new", !.promotion = ModelId(k)].pc = "new"
          /\ NoKid \in KidType /\ NoKid.pc = "none"
      BY <2>3 DEF NoKid, KidType, KidPc
    <2> HIDE DEF k
    <2> QED BY <1>0, <2>1, <2>2, <2>4, RowStep
  <1> QED BY <1>1, <1>2, <1>3, <1>4
      DEF Task, ReadPage, NextPage, PublishProduct, PublishBrand, Submit, FindDeal, ReadLinks,
          ReadProducts, NextLinks, FetchPromotions, Submitted, Collected, StopPool, Receive, tables

LEMMA KidTypes ==
  ASSUME Types, NEW k \in Run \X Offer, Kid(k)
  PROVE  TypeOK' /\ RowInserted'
  <1>0. TypeOK /\ RowInserted /\ kid[k] \in KidType
    BY DEF Types, RowInserted, TypeOK, KidType, KidPc
  <1>1. CASE FetchPLIDs(k)
    <2>1. TypeOK'
      BY <1>0, <1>1, KidsType
    <2>2. kid'[k].pc # "commit" /\ link' = link
      BY <1>0, <1>1 DEF FetchPLIDs, TypeOK, KidType, tables
    <2>3. \A j \in Run \X Offer : j # k => kid'[j] = kid[j]
      BY <1>0, <1>1 DEF FetchPLIDs, TypeOK
    <2> QED BY <1>0, <2>1, <2>2, <2>3 DEF RowInserted
  <1>2. ASSUME NEW p \in kid[k].todo, CreateLink(k, p) PROVE TypeOK' /\ RowInserted'
    <2>1. TypeOK'
      BY <1>0, <1>2, KidsType
    <2>2. Len(link') = Len(link) + 1 /\ Len(link) \in Nat
      BY <1>0, <1>2 DEF CreateLink, TypeOK, KidType
    <2>3. kid'[k].row = Len(link) + 1
      BY <1>0, <1>2 DEF CreateLink, TypeOK, KidType
    <2>4. \A j \in Run \X Offer : j # k => kid'[j] = kid[j]
      BY <1>0, <1>2 DEF CreateLink, TypeOK
    <2> QED BY <1>0, <2>1, <2>2, <2>3, <2>4 DEF RowInserted
  <1>3. CASE CommitLink(k)
    <2>1. PICK q \in {"end", "link", "quit"} : kid' = [kid EXCEPT ![k] = [kid[k] EXCEPT !.pc = q]]
      BY <1>3 DEF CommitLink, AfterLink
    <2>2. [kid[k] EXCEPT !.pc = q] \in KidType /\ [kid[k] EXCEPT !.pc = q].pc = q
      BY <1>0 DEF KidType, KidPc
    <2>3. kid' \in [Run \X Offer -> KidType] /\ RowInserted'
      BY <1>0, <1>3, <2>1, <2>2, KidStep, RowStep DEF CommitLink
    <2>4. kid[k].row \in 1 .. Len(link)
      BY <1>0, <1>3 DEF RowInserted, CommitLink
    <2>5. \/ visible' = visible
          \/ visible' = [visible EXCEPT !["link"] = @ \cup {kid[k].row}]
      BY <1>3 DEF CommitLink
    <2>6. /\ visible' \in [Table -> SUBSET Nat]
          /\ visible'["product"] = visible["product"] /\ visible'["brand"] = visible["brand"]
          /\ visible'["link"] \subseteq 1 .. Len(link)
      BY <1>0, <2>4, <2>5 DEF TypeOK, Table
    <2>7. UNCHANGED <<product, brands, promotion, link, pc, paging, pool, there, swept, blind>>
      BY <1>3 DEF CommitLink
    <2> QED BY <1>0, <2>3, <2>6, <2>7 DEF TypeOK, paging, pool, KidType, KidPc
  <1> QED BY <1>1, <1>2, <1>3 DEF Kid

LEMMA TypesStep == Types /\ [Next]_vars => Types'
  <1> SUFFICES ASSUME Types, [Next]_vars PROVE Types'
    OBVIOUS
  <1>0. TypeOK /\ RowInserted
    BY DEF Types, RowInserted
  <1>1. ASSUME TypeOK', page' = page, RowInserted' PROVE Types'
    BY <1>1 DEF Types, RowInserted
  <1>2. CASE Handlers
    <2>1. UNCHANGED <<page, kid, link>>
      BY <1>2 DEF Handlers, NewProduct, NewBrand, Commit, paging
    <2> QED BY <1>0, <1>1, <1>2, <2>1, HandlersType DEF RowInserted
  <1>3. ASSUME NEW r \in Run, NEW k \in Kinds, Start(r, k) PROVE Types'
    <2>1. UNCHANGED <<page, kid, link>>
      BY <1>3 DEF Start, tables
    <2> QED BY <1>0, <1>1, <1>3, <2>1, StartType DEF RowInserted
  <1>4. ASSUME NEW r \in Run, Task(r) PROVE Types'
    BY <1>4, TaskTypeOK, PageStep, TaskRows DEF Types, RowInserted
  <1>5. ASSUME NEW r \in Run, Worker(r) PROVE Types'
    <2>1. UNCHANGED <<page, kid, link>>
      BY <1>5 DEF Worker, TakeJob, Clean, tables, paging
    <2> QED BY <1>0, <1>1, <1>5, <2>1, WorkerTypeOK DEF RowInserted
  <1>6. ASSUME NEW k \in Run \X Offer, Kid(k) PROVE Types'
    <2>1. page' = page
      BY <1>6 DEF Kid, FetchPLIDs, CreateLink, CommitLink, paging
    <2> QED BY <1>1, <1>6, <2>1, KidTypes
  <1>7. CASE UNCHANGED vars
    BY <1>0, <1>1, <1>7 DEF vars, tables, paging, pool, TypeOK, RowInserted
  <1> QED BY <1>2, <1>3, <1>4, <1>5, <1>6, <1>7 DEF Next

(* The variables of every run keep their types, whatever fails (scheduled_  *)
(* task_handler.go:58-267).                                                *)
THEOREM TypeCorrect == Spec => []TypeOK
  <1>1. Types => TypeOK
    BY DEF Types
  <1> QED BY InitTypes, TypesStep, <1>1, PTL DEF Spec
-----------------------------------------------------------------------------
(***************************************************************************)
(* Sweeps by id.                                                           *)
(***************************************************************************)

\* What a sweep has yet to do of its page.
Todo(r) == rest[r] \cup queue[r] \cup working[r]

\* Which calls each task makes, and when there is nothing in hand.
Places(r) ==
    /\ kind[r] \in Keyset =>
          pc[r] \in {"idle", "read", "sweep", "collect", "stop", "end", "quit"}
    /\ kind[r] = "deals" => pc[r] \in {"deal", "links", "products", "sweep", "end", "quit"}
    /\ kind[r] = "promotions" => pc[r] \in {"fetch", "upsert", "end", "quit"}
    /\ pc[r] \in {"collect", "stop"} => kind[r] = "cleanup"
    /\ pc[r] = "idle" => kind[r] = "prices" /\ swept[r] = {} /\ from[r] = 0
    /\ kind[r] \in Keyset /\ pc[r] \notin {"sweep", "quit"} => rest[r] = {}

\* The pool has the products of the page; the answers to come are counted.
Pooled(r) ==
    /\ kind[r] # "cleanup" \/ pc[r] \notin {"sweep", "collect"} =>
          queue[r] = {} /\ working[r] = {} /\ sending[r] = {}
    /\ queue[r] \cap working[r] = {} /\ queue[r] \cap sending[r] = {}
    /\ working[r] \cap sending[r] = {}
    /\ kind[r] = "cleanup" /\ pc[r] = "sweep" =>
          /\ page[r] = rest[r] \cup queue[r] \cup working[r] \cup sending[r]
          /\ rest[r] \cap (queue[r] \cup working[r] \cup sending[r]) = {}
    /\ pc[r] = "collect" =>
          /\ queue[r] \cup working[r] \cup sending[r] \subseteq page[r]
          /\ left[r] = Cardinality(queue[r] \cup working[r] \cup sending[r])

\* What was swept lies before the cursor, or on the page and is not to be done.
Once(r) == kind[r] \in Keyset =>
    /\ rest[r] \subseteq page[r]
    /\ pc[r] \in {"sweep", "collect", "stop", "quit"} => \A i \in page[r] : from[r] < i
    /\ \A i \in swept[r] :
          /\ i \notin Todo(r)
          /\ i <= from[r] \/ (i \in page[r] /\ pc[r] \in {"sweep", "collect", "stop", "quit"})

\* What was there at first was swept, is to be done, or lies behind the page.
Covered(r) == kind[r] \in Keyset /\ pc[r] # "idle" /\ ~blind[r] =>
    /\ there[r] \subseteq visible[Source(kind[r])]
    /\ \A i \in there[r] :
          /\ pc[r] = "read" /\ i <= from[r] => i \in swept[r]
          /\ pc[r] = "end" => i \in swept[r]
          /\ pc[r] \in {"sweep", "collect", "stop"} =>
                i \in swept[r] \cup Todo(r) \/ \A j \in page[r] : j < i

SweepInv(r) == Places(r) /\ Pooled(r) /\ Once(r) /\ Covered(r)

\* Tables only grow.
Grows ==
    /\ \A t \in Table : visible[t] \subseteq visible'[t]
    /\ \A i \in visible["product"] : product'[i] = product[i]
    /\ \A l \in visible["link"] : link'[l] = link[l]

\* The run's own variables stay as they are, but for rows committed ahead of it.
Same(r) ==
    /\ pc'[r] = pc[r] /\ kind'[r] = kind[r] /\ from'[r] = from[r]
    /\ page'[r] = page[r] /\ rest'[r] = rest[r] /\ deal'[r] = deal[r] /\ links'[r] = links[r]
    /\ queue'[r] = queue[r] /\ working'[r] = working[r] /\ sending'[r] = sending[r]
    /\ left'[r] = left[r] /\ swept'[r] = swept[r] /\ blind'[r] = blind[r]
    /\ \A i \in there'[r] : i \notin there[r] =>
          Ahead(r, Source(kind[r]), i) /\ i \in visible'[Source(kind[r])]

LEMMA SweepFrame ==
  ASSUME TypeOK, TypeOK', NEW r \in Run, SweepInv(r), Same(r), Grows
  PROVE  SweepInv(r)'
  <1>1. Todo(r)' = Todo(r)
    BY DEF Same, Todo
  <1>2. visible[Source(kind[r])] \subseteq visible'[Source(kind[r])]
    BY SourceTable DEF Grows
  <1>3. Source(kind[r])' = Source(kind[r])
    BY DEF Same, Source
  <1>4. Places(r)'
    BY DEF SweepInv, Places, Same
  <1>5. Pooled(r)'
    BY DEF SweepInv, Pooled, Same
  <1>6. Once(r)'
    BY <1>1 DEF SweepInv, Once, Same
  <1>7. Covered(r)'
    <2>1. \A j \in there'[r] : j \in Nat /\ from[r] \in Nat
      BY DEF TypeOK
    <2>2. ASSUME NEW j \in there'[r], j \notin there[r]
          PROVE  /\ j \in visible'[Source(kind[r])] /\ ~(j <= from[r])
                 /\ pc[r] \in {"read", "sweep", "collect", "stop"} /\ \A i \in page[r] : i < j
      BY <2>1, <2>2 DEF Same, Ahead
    <2>3. ASSUME kind[r] \in Keyset, pc[r] # "idle", ~blind[r], NEW j \in there[r]
          PROVE  /\ j \in visible'[Source(kind[r])]
                 /\ pc[r] = "read" /\ j <= from[r] => j \in swept[r]
                 /\ pc[r] = "end" => j \in swept[r]
                 /\ pc[r] \in {"sweep", "collect", "stop"} =>
                       j \in swept[r] \cup Todo(r) \/ \A i \in page[r] : i < j
      BY <1>2, <2>3 DEF SweepInv, Covered
    <2> QED BY <1>1, <1>3, <2>2, <2>3 DEF Covered, Same
  <1> QED BY <1>4, <1>5, <1>6, <1>7 DEF SweepInv

LEMMA SweepInit ==
  ASSUME Init, NEW r \in Run
  PROVE  SweepInv(r)
  BY DEF Init, SweepInv, Places, Pooled, Once, Covered, Todo, Keyset

LEMMA SweepStart ==
  ASSUME Types, NEW r \in Run, SweepInv(r), NEW k \in Kinds, Start(r, k)
  PROVE  SweepInv(r)'
  <1>0. TypeOK /\ k \in Kind
    BY OfferAssumption DEF Types
  <1>1. /\ pc[r] = "idle" /\ kind'[r] = k
        /\ pc'[r] = IF k = "promotions" THEN "fetch" ELSE IF k = "deals" THEN "deal" ELSE "read"
        /\ UNCHANGED <<tables, from, page, rest, deal, links, pool, kid, swept, blind>>
    BY <1>0 DEF Start, Goto, TypeOK
  <1>2. k \in Keyset => there'[r] \subseteq visible[Source(k)]
    BY <1>0 DEF Start, TypeOK
  <1>3. swept[r] = {} /\ from[r] = 0 /\ rest[r] = {} /\ queue[r] = {}
        /\ working[r] = {} /\ sending[r] = {}
    BY <1>1 DEF SweepInv, Places, Pooled, Keyset
  <1>4. \A i \in there'[r] : k \in Keyset => i \in Nat \ {0}
    BY <1>0, <1>2, VisibleIds, SourceTable
  <1>5. Places(r)'
    BY <1>0, <1>1, <1>3 DEF Places, Keyset, paging, Kind
  <1>6. Pooled(r)'
    BY <1>1, <1>3 DEF Pooled, pool
  <1>7. Once(r)'
    BY <1>1, <1>3 DEF Once
  <1>8. Covered(r)'
    <2> SUFFICES ASSUME k \in Keyset
                 PROVE  /\ there'[r] \subseteq visible'[Source(kind'[r])]
                        /\ \A i \in there'[r] : i <= from'[r] => i \in swept'[r]
      BY <1>1 DEF Covered, Keyset, Source
    <2>1. visible' = visible /\ from'[r] = 0
      BY <1>1, <1>3 DEF tables
    <2> QED BY <1>1, <1>2, <1>4, <2>1
  <1> QED BY <1>5, <1>6, <1>7, <1>8 DEF SweepInv

LEMMA SweepReadPage ==
  ASSUME Types, NEW r \in Run, SweepInv(r), ReadPage(r)
  PROVE  SweepInv(r)'
  <1> DEFINE V == visible[Source(kind[r])]
             S == {i \in V : i > from[r]}
  <1>0. TypeOK /\ from[r] \in Nat /\ V \subseteq Nat /\ IsFiniteSet(S)
    <2>1. TypeOK /\ IsFiniteSet(V) /\ V \subseteq Nat
      BY VisibleIds, SourceTable DEF Types
    <2> QED BY <2>1, FS_Subset DEF TypeOK
  <1>1. PICK P \in SUBSET V, failed \in BOOLEAN :
          /\ IF failed THEN "read" \in Faults /\ P = {} ELSE Oldest(P, S, Size[kind[r]])
          /\ page' = [page EXCEPT ![r] = P]
          /\ rest' = [rest EXCEPT ![r] = P]
          /\ blind' = [blind EXCEPT ![r] = @ \/ failed]
          /\ Goto(r, IF P = {} THEN "end" ELSE "sweep")
    BY DEF ReadPage
  <1>2. /\ pc[r] = "read" /\ page'[r] = P /\ rest'[r] = P
        /\ pc'[r] = IF P = {} THEN "end" ELSE "sweep"
        /\ (~blind'[r] => ~blind[r] /\ ~failed)
        /\ UNCHANGED <<tables, kind, from, deal, links, pool, kid, there, swept>>
    BY <1>0, <1>1 DEF ReadPage, Goto, TypeOK
  <1>3. P \subseteq S
    BY <1>1 DEF Oldest
  <1>4. kind[r] \in Keyset
    BY <1>0, <1>2 DEF SweepInv, Places, TypeOK, Kind
  <1>5. queue[r] = {} /\ working[r] = {} /\ sending[r] = {}
    BY <1>2 DEF SweepInv, Pooled
  <1>6. Todo(r)' = P
    BY <1>2, <1>5 DEF Todo, pool
  <1>7. \A i \in P : i \in Nat /\ from[r] < i
    BY <1>0, <1>3
  <1>8. Places(r)'
    BY <1>2, <1>4 DEF Places, Keyset, SweepInv
  <1>9. Pooled(r)'
    BY <1>2, <1>5 DEF Pooled, pool
  <1>10. \A i \in swept[r] : i \in Nat /\ i <= from[r]
    BY <1>0, <1>2, <1>4 DEF SweepInv, Once, TypeOK
  <1>11. Once(r)'
    <2>1. \A i \in swept[r] : i \notin P
      BY <1>0, <1>7, <1>10
    <2> QED BY <1>2, <1>6, <1>7, <1>10, <2>1 DEF Once
  <1>12. Covered(r)'
    <2> SUFFICES ASSUME ~blind'[r]
                 PROVE  /\ there[r] \subseteq V
                        /\ \A i \in there[r] : /\ P = {} => i \in swept[r]
                                               /\ i \in swept[r] \cup P \/ \A j \in P : j < i
      BY <1>2, <1>6 DEF Covered, tables, Source
    <2>1. there[r] \subseteq V /\ \A i \in there[r] : i <= from[r] => i \in swept[r]
      BY <1>2, <1>4 DEF SweepInv, Covered
    <2>2. Oldest(P, S, Size[kind[r]])
      BY <1>1, <1>2
    <2>3. P = {} => S = {}
      <3>1. Size[kind[r]] \in Nat \ {0}
        BY <1>0, SizeAssumption DEF TypeOK
      <3> QED BY <2>2, <3>1, FS_EmptySet DEF Oldest
    <2>4. ASSUME NEW i \in there[r]
          PROVE  /\ P = {} => i \in swept[r]
                 /\ i \in swept[r] \cup P \/ \A j \in P : j < i
      <3>1. CASE i <= from[r]
        BY <2>1, <3>1
      <3>2. CASE ~(i <= from[r])
        <4>1. i \in S
          BY <1>0, <2>1, <3>2
        <4> QED BY <2>2, <2>3, <4>1 DEF Oldest
      <3> QED BY <3>1, <3>2
    <2> QED BY <2>1, <2>4
  <1> QED BY <1>8, <1>9, <1>11, <1>12 DEF SweepInv
\* Publishing the PLID of one row, or giving up.
LEMMA SweepPublish ==
  ASSUME Types, NEW r \in Run, SweepInv(r), NEW i \in rest[r],
         PublishProduct(r, i) \/ PublishBrand(r, i)
  PROVE  SweepInv(r)'
  <1>0. TypeOK /\ pc[r] = "sweep" /\ kind[r] # "cleanup"
    BY DEF Types, PublishProduct, PublishBrand
  <1>1. UNCHANGED <<tables, kind, from, page, deal, links, pool, kid, there, blind>>
    BY DEF PublishProduct, PublishBrand
  <1>2. queue[r] = {} /\ working[r] = {} /\ sending[r] = {}
    BY <1>0 DEF SweepInv, Pooled
  <1>3. Pooled(r)'
    <2>1. pc'[r] # "collect"
      BY <1>0 DEF PublishProduct, PublishBrand, Goto, TypeOK
    <2> QED BY <1>0, <1>1, <1>2, <2>1 DEF Pooled, pool
  <1>4. CASE pc' = pc /\ swept' = [swept EXCEPT ![r] = @ \cup {i}]
                      /\ rest' = [rest EXCEPT ![r] = @ \ {i}]
    <2>1. pc'[r] = "sweep" /\ swept'[r] = swept[r] \cup {i} /\ rest'[r] = rest[r] \ {i}
      BY <1>0, <1>4 DEF TypeOK
    <2>2. Todo(r) = rest[r] /\ Todo(r)' = rest[r] \ {i}
      BY <1>1, <1>2, <2>1 DEF Todo, pool
    <2>3. Places(r)'
      BY <1>0, <1>1, <2>1 DEF SweepInv, Places, Keyset
    <2>4. Once(r)'
      BY <1>0, <1>1, <2>1, <2>2 DEF SweepInv, Once
    <2>5. Covered(r)'
      BY <1>0, <1>1, <2>1, <2>2 DEF SweepInv, Covered, tables, Source
    <2> QED BY <1>3, <2>3, <2>4, <2>5 DEF SweepInv
  <1>5. CASE Goto(r, "quit") /\ UNCHANGED <<swept, rest>>
    <2>1. pc'[r] = "quit" /\ swept' = swept /\ rest' = rest
      BY <1>0, <1>5 DEF TypeOK, Goto
    <2>2. Todo(r)' = Todo(r)
      BY <1>1, <2>1 DEF Todo, pool
    <2>3. Places(r)'
      BY <1>0, <1>1, <2>1 DEF SweepInv, Places, Keyset
    <2>4. Once(r)'
      BY <1>0, <1>1, <2>1, <2>2 DEF SweepInv, Once
    <2>5. Covered(r)'
      BY <1>0, <1>1, <2>1 DEF SweepInv, Covered, tables, Source
    <2> QED BY <1>3, <2>3, <2>4, <2>5 DEF SweepInv
  <1> QED BY <1>4, <1>5 DEF PublishProduct, PublishBrand

\* The cursor moves behind a page that is done.
LEMMA SweepAdvance ==
  ASSUME Types, NEW r \in Run, SweepInv(r), kind[r] \in Keyset, pc[r] \in {"sweep", "stop"},
         Todo(r) = {}, sending[r] = {}, Advance(r),
         UNCHANGED <<tables, kind, page, rest, deal, links, kid, there, swept, blind>>,
         queue'[r] = {}, working'[r] = {}, sending'[r] = {}
  PROVE  SweepInv(r)'
  <1>0. TypeOK
    BY DEF Types
  <1>1. PICK i \in page[r] : (\A j \in page[r] : j <= i) /\ from' = [from EXCEPT ![r] = i]
    BY DEF Advance
  <1>2. from'[r] = i /\ pc'[r] = "read" /\ from[r] \in Nat /\ i \in Nat
        /\ page[r] \subseteq Nat /\ swept[r] \subseteq Nat /\ there[r] \subseteq Nat
    BY <1>0, <1>1 DEF TypeOK, Advance, Goto
  <1>3. rest[r] = {} /\ Todo(r)' = {}
    BY DEF Todo
  <1>4. from[r] < i
    BY DEF SweepInv, Once
  <1>5. Places(r)'
    BY <1>2, <1>3 DEF Places, Keyset
  <1>6. Pooled(r)'
    BY <1>2 DEF Pooled
  <1>7. Once(r)'
    BY <1>1, <1>2, <1>3, <1>4 DEF SweepInv, Once
  <1>8. Covered(r)'
    <2> SUFFICES ASSUME ~blind[r]
                 PROVE  /\ there[r] \subseteq visible[Source(kind[r])]
                        /\ \A j \in there[r] : j <= i => j \in swept[r]
      BY <1>2 DEF Covered, tables, Source
    <2>1. /\ there[r] \subseteq visible[Source(kind[r])]
          /\ \A j \in there[r] : j \in swept[r] \/ \A l \in page[r] : l < j
      BY DEF SweepInv, Covered
    <2> QED BY <1>1, <1>2, <2>1
  <1> QED BY <1>5, <1>6, <1>7, <1>8 DEF SweepInv

LEMMA SweepNextPage ==
  ASSUME Types, NEW r \in Run, SweepInv(r), NextPage(r)
  PROVE  SweepInv(r)'
  <1>1. queue[r] = {} /\ working[r] = {} /\ sending[r] = {}
    BY DEF SweepInv, Pooled, NextPage
  <1>2. kind[r] \in Keyset /\ Todo(r) = {} /\ pc[r] = "sweep"
    BY <1>1 DEF Todo, NextPage, Keyset
  <1>3. UNCHANGED <<tables, kind, page, rest, deal, links, pool, kid, there, swept, blind>>
    BY DEF NextPage
  <1> QED BY <1>1, <1>2, <1>3, SweepAdvance DEF NextPage, pool

LEMMA SweepStopPool ==
  ASSUME Types, NEW r \in Run, SweepInv(r), StopPool(r)
  PROVE  SweepInv(r)'
  <1>1. queue[r] = {} /\ working[r] = {} /\ sending[r] = {} /\ pc[r] = "stop"
    BY DEF SweepInv, Pooled, StopPool
  <1>2. kind[r] \in Keyset /\ rest[r] = {}
    BY <1>1 DEF SweepInv, Places, Keyset
  <1>3. queue'[r] = {} /\ working'[r] = {} /\ sending'[r] = {}
    BY <1>1 DEF StopPool, Types, TypeOK
  <1> QED BY <1>1, <1>2, <1>3, SweepAdvance DEF StopPool, Todo

\* The pool: what is submitted, taken, cleaned, received.
LEMMA SweepSubmit ==
  ASSUME Types, NEW r \in Run, SweepInv(r), NEW i \in rest[r], Submit(r, i)
  PROVE  SweepInv(r)'
  <1>0. pc[r] = "sweep" /\ kind[r] = "cleanup" /\ rest'[r] = rest[r] \ {i}
        /\ queue'[r] = queue[r] \cup {i}
    BY DEF Submit, Types, TypeOK
  <1>1. UNCHANGED <<tables, pc, kind, from, page, deal, links, working, sending, left,
                    kid, there, swept, blind>>
    BY DEF Submit
  <1>2. Todo(r)' = Todo(r)
    BY <1>0, <1>1 DEF Todo
  <1>3. Places(r)'
    BY <1>0, <1>1 DEF SweepInv, Places, Keyset
  <1>4. Pooled(r)'
    BY <1>0, <1>1 DEF SweepInv, Pooled
  <1>5. Once(r)'
    BY <1>0, <1>1, <1>2 DEF SweepInv, Once
  <1>6. Covered(r)'
    BY <1>0, <1>1, <1>2 DEF SweepInv, Covered, tables, Source
  <1> QED BY <1>3, <1>4, <1>5, <1>6 DEF SweepInv

LEMMA SweepSubmitted ==
  ASSUME Types, NEW r \in Run, SweepInv(r), Submitted(r) \/ Collected(r)
  PROVE  SweepInv(r)'
  <1>0. /\ UNCHANGED <<tables, paging, queue, working, sending, kid, there, swept, blind>>
        /\ \/ pc[r] = "sweep" /\ pc'[r] = "collect" /\ kind[r] = "cleanup" /\ rest[r] = {}
              /\ left'[r] = Cardinality(page[r])
           \/ pc[r] = "collect" /\ pc'[r] = "stop" /\ left[r] = 0 /\ left' = left
    BY DEF Submitted, Collected, Goto, pool, Types, TypeOK
  <1>1. Todo(r)' = Todo(r)
    BY <1>0 DEF Todo, paging
  <1>2. Places(r)'
    BY <1>0 DEF SweepInv, Places, paging, Keyset
  <1>3. Pooled(r)'
    <2>1. CASE pc[r] = "sweep"
      <3>1. queue[r] \cup working[r] \cup sending[r] = page[r]
        BY <1>0, <2>1 DEF SweepInv, Pooled
      <3> QED BY <1>0, <2>1, <3>1 DEF SweepInv, Pooled, paging
    <2>2. CASE pc[r] = "collect"
      <3> DEFINE U == queue[r] \cup working[r] \cup sending[r]
      <3>1. IsFiniteSet(page[r]) /\ U \subseteq page[r] /\ Cardinality(U) = 0
        BY <1>0, <2>2 DEF SweepInv, Pooled, Types
      <3>2. U = {}
        BY <3>1, FS_Subset, FS_EmptySet
      <3> QED BY <1>0, <2>2, <3>2 DEF SweepInv, Pooled, paging
    <2> QED BY <1>0, <2>1, <2>2
  <1>4. Once(r)'
    BY <1>0, <1>1 DEF SweepInv, Once, paging
  <1>5. Covered(r)'
    BY <1>0, <1>1 DEF SweepInv, Covered, paging, tables, Source
  <1> QED BY <1>2, <1>3, <1>4, <1>5 DEF SweepInv

LEMMA SweepTakeJob ==
  ASSUME Types, NEW r \in Run, SweepInv(r), NEW i \in queue[r], TakeJob(r, i)
  PROVE  SweepInv(r)'
  <1>0. queue'[r] = queue[r] \ {i} /\ working'[r] = working[r] \cup {i}
    BY DEF TakeJob, Types, TypeOK
  <1>1. UNCHANGED <<tables, pc, paging, sending, left, kid, there, swept, blind>>
    BY DEF TakeJob
  <1>2. Todo(r)' = Todo(r)
        /\ queue'[r] \cup working'[r] \cup sending'[r] = queue[r] \cup working[r] \cup sending[r]
    BY <1>0, <1>1 DEF Todo, paging
  <1>3. kind[r] = "cleanup" /\ pc[r] \in {"sweep", "collect"}
    BY DEF SweepInv, Pooled
  <1>4. Places(r)'
    BY <1>1 DEF SweepInv, Places, paging
  <1>5. Pooled(r)'
    <2>1. /\ queue'[r] \cap working'[r] = {} /\ queue'[r] \cap sending'[r] = {}
          /\ working'[r] \cap sending'[r] = {}
      BY <1>0, <1>1 DEF SweepInv, Pooled
    <2>2. pc[r] = "sweep" =>
             /\ page[r] = rest[r] \cup (queue'[r] \cup working'[r] \cup sending'[r])
             /\ rest[r] \cap (queue'[r] \cup working'[r] \cup sending'[r]) = {}
      BY <1>2, <1>3 DEF SweepInv, Pooled
    <2> QED BY <1>1, <1>2, <1>3, <2>1, <2>2 DEF SweepInv, Pooled, paging
  <1>6. Once(r)'
    BY <1>1, <1>2 DEF SweepInv, Once, paging
  <1>7. Covered(r)'
    BY <1>1, <1>2 DEF SweepInv, Covered, paging, tables, Source
  <1> QED BY <1>4, <1>5, <1>6, <1>7 DEF SweepInv

LEMMA SweepClean ==
  ASSUME Types, NEW r \in Run, SweepInv(r), NEW i \in working[r], Clean(r, i)
  PROVE  SweepInv(r)'
  <1>0. working'[r] = working[r] \ {i} /\ sending'[r] = sending[r] \cup {i}
        /\ swept'[r] = swept[r] \cup {i}
    BY DEF Clean, Types, TypeOK
  <1>1. UNCHANGED <<tables, pc, paging, queue, left, kid, there, blind>>
    BY DEF Clean
  <1>2. kind[r] = "cleanup" /\ pc[r] \in {"sweep", "collect"}
    BY DEF SweepInv, Pooled
  <1>3. queue'[r] \cup working'[r] \cup sending'[r] = queue[r] \cup working[r] \cup sending[r]
    BY <1>0, <1>1
  <1>4. i \in page[r] /\ i \notin queue[r] /\ i \notin rest[r]
    BY <1>2 DEF SweepInv, Pooled, Places, Keyset
  <1>5. Todo(r)' = Todo(r) \ {i}
    BY <1>0, <1>1, <1>4 DEF Todo, paging
  <1>6. Places(r)'
    BY <1>1, <1>2 DEF SweepInv, Places, paging, Keyset
  <1>7. Pooled(r)'
    <2>1. /\ queue'[r] \cap working'[r] = {} /\ queue'[r] \cap sending'[r] = {}
          /\ working'[r] \cap sending'[r] = {}
      BY <1>0, <1>1 DEF SweepInv, Pooled
    <2>2. pc[r] = "sweep" =>
             /\ page[r] = rest[r] \cup (queue'[r] \cup working'[r] \cup sending'[r])
             /\ rest[r] \cap (queue'[r] \cup working'[r] \cup sending'[r]) = {}
      BY <1>2, <1>3 DEF SweepInv, Pooled
    <2> QED BY <1>1, <1>2, <1>3, <2>1, <2>2 DEF SweepInv, Pooled, paging
  <1>8. Once(r)'
    BY <1>0, <1>1, <1>2, <1>4, <1>5 DEF SweepInv, Once, paging
  <1>9. Covered(r)'
    BY <1>0, <1>1, <1>2, <1>5 DEF SweepInv, Covered, paging, tables, Source
  <1> QED BY <1>6, <1>7, <1>8, <1>9 DEF SweepInv

LEMMA SweepReceive ==
  ASSUME Types, NEW r \in Run, SweepInv(r), NEW i \in sending[r], Receive(r, i)
  PROVE  SweepInv(r)'
  <1> DEFINE U == queue[r] \cup working[r] \cup sending[r]
  <1>0. pc[r] = "collect" /\ sending'[r] = sending[r] \ {i} /\ left'[r] = left[r] - 1
    BY DEF Receive, Types, TypeOK
  <1>1. UNCHANGED <<tables, pc, paging, queue, working, kid, there, swept, blind>>
    BY DEF Receive
  <1>2. Todo(r)' = Todo(r)
    BY <1>1 DEF Todo, paging
  <1>3. Places(r)'
    BY <1>1 DEF SweepInv, Places, paging
  <1>4. Pooled(r)'
    <2>1. i \in U /\ queue'[r] \cup working'[r] \cup sending'[r] = U \ {i}
      BY <1>0, <1>1 DEF SweepInv, Pooled
    <2>2. IsFiniteSet(U) /\ Cardinality(U) = left[r] /\ U \subseteq page[r]
      BY <1>0, FS_Subset DEF SweepInv, Pooled, Types
    <2>3. Cardinality(U \ {i}) = left[r] - 1
      BY <2>1, <2>2, FS_RemoveElement
    <2>4. /\ queue'[r] \cap working'[r] = {} /\ queue'[r] \cap sending'[r] = {}
          /\ working'[r] \cap sending'[r] = {}
      BY <1>0, <1>1 DEF SweepInv, Pooled
    <2>5. kind[r] = "cleanup"
      BY <1>0 DEF SweepInv, Places
    <2> QED BY <1>0, <1>1, <2>1, <2>2, <2>3, <2>4, <2>5 DEF Pooled, paging
  <1>5. Once(r)'
    BY <1>1, <1>2 DEF SweepInv, Once, paging
  <1>6. Covered(r)'
    BY <1>1, <1>2 DEF SweepInv, Covered, paging, tables, Source
  <1> QED BY <1>3, <1>4, <1>5, <1>6 DEF SweepInv
\* The other tasks have no page of ids and no pool.
LEMMA SweepOther ==
  ASSUME Types, NEW r \in Run, SweepInv(r),
         \/ FindDeal(r) \/ ReadLinks(r) \/ ReadProducts(r) \/ NextLinks(r)
         \/ FetchPromotions(r) \/ Spawn(r)
         \/ \E o \in Offer : FindPromotion(<<r, o>>) \/ UpsertPromotion(<<r, o>>)
  PROVE  SweepInv(r)'
  <1>0. TypeOK
    BY DEF Types
  <1>1. kind' = kind /\ UNCHANGED pool
    BY UpsertEffect, <1>0 DEF FindDeal, ReadLinks, ReadProducts, NextLinks, FetchPromotions, Spawn,
           FindPromotion, UpsertPromotion, paging
  <1>2. \/ kind[r] = "deals" /\ pc'[r] \in {"links", "products", "sweep", "end", "quit"}
        \/ kind[r] = "promotions" /\ pc'[r] \in {"upsert", "end", "quit"}
    <2>1. ASSUME FindDeal(r) \/ ReadLinks(r) \/ ReadProducts(r) \/ NextLinks(r)
          PROVE  kind[r] = "deals" /\ pc'[r] \in {"links", "products", "sweep", "end", "quit"}
      BY <1>0, <2>1 DEF FindDeal, ReadLinks, ReadProducts, NextLinks, Goto, TypeOK, Kind, SweepInv,
           Places
    <2>2. ASSUME FetchPromotions(r) \/ Spawn(r)
          PROVE  kind[r] = "promotions" /\ pc'[r] \in {"upsert", "end", "quit"}
      BY <1>0, <2>2 DEF FetchPromotions, Spawn, Goto, TypeOK, Kind, SweepInv, Places
    <2>3. ASSUME NEW o \in Offer, FindPromotion(<<r, o>>) \/ UpsertPromotion(<<r, o>>)
          PROVE  kind[r] = "promotions" /\ pc'[r] \in {"upsert", "end", "quit"}
      <3>1. kind[r] = "promotions" /\ pc[r] = "upsert"
        BY <1>0, <2>3 DEF FindPromotion, UpsertPromotion, TypeOK, Kind, SweepInv, Places
      <3>2. pc' = pc \/ Goto(r, "quit")
        BY <1>0, <2>3, UpsertSame
      <3> QED BY <1>0, <3>1, <3>2 DEF Goto, TypeOK
    <2> QED BY <2>1, <2>2, <2>3
  <1>3. kind[r] \notin Keyset /\ pc'[r] \notin {"idle", "collect", "stop"}
    BY <1>2 DEF Keyset
  <1>4. queue[r] = {} /\ working[r] = {} /\ sending[r] = {}
    BY <1>2 DEF SweepInv, Pooled
  <1>5. Places(r)' /\ Once(r)' /\ Covered(r)'
    BY <1>1, <1>2, <1>3 DEF Places, Once, Covered, Keyset
  <1>6. Pooled(r)'
    BY <1>1, <1>2, <1>3, <1>4 DEF Pooled, pool
  <1> QED BY <1>5, <1>6 DEF SweepInv
-----------------------------------------------------------------------------
(***************************************************************************)
(* Steps of others.                                                        *)
(***************************************************************************)

LEMMA GrowsStep == Types /\ [Next]_vars => Grows
  <1> SUFFICES ASSUME Types, [Next]_vars PROVE Grows
    OBVIOUS
  <1>0. TypeOK
    BY DEF Types
  <1>1. CASE UNCHANGED <<product, link, visible>>
    BY <1>1 DEF Grows
  <1>2. ASSUME NEW p \in Plid, NewProduct(p) PROVE Grows
    <2>1. \A i \in 1 .. Len(product) : product'[i] = product[i]
      BY <1>0, <1>2 DEF NewProduct, TypeOK
    <2>2. visible' = visible /\ link' = link /\ visible["product"] \subseteq 1 .. Len(product)
      BY <1>0, <1>2 DEF NewProduct, TypeOK
    <2> QED BY <2>1, <2>2 DEF Grows
  <1>3. ASSUME NEW t \in Table, NEW i \in 1 .. (Len(product) + brands), Commit(t, i) PROVE Grows
    BY <1>0, <1>3 DEF Commit, Grows, TypeOK
  <1>4. ASSUME NEW k \in Run \X Offer, NEW p \in kid[k].todo, CreateLink(k, p) PROVE Grows
    <2>1. \A l \in 1 .. Len(link) : link'[l] = link[l]
      <3>1. link \in Seq(LinkRow)
        BY <1>0 DEF TypeOK
      <3>2. link' = Append(link, [promotion |-> kid[k].promotion, plid |-> p, by |-> k])
        BY <1>4 DEF CreateLink
      <3> QED BY <3>1, <3>2
    <2>2. visible' = visible /\ product' = product /\ visible["link"] \subseteq 1 .. Len(link)
      BY <1>0, <1>4 DEF CreateLink, TypeOK
    <2> QED BY <2>1, <2>2 DEF Grows
  <1>5. ASSUME NEW k \in Run \X Offer, CommitLink(k) PROVE Grows
    <2>1. visible' = visible \/ visible' = [visible EXCEPT !["link"] = @ \cup {kid[k].row}]
      BY <1>5 DEF CommitLink
    <2> QED BY <1>0, <1>5, <2>1 DEF CommitLink, Grows, TypeOK
  <1>6. ASSUME NEW r \in Run, Task(r) PROVE UNCHANGED <<product, link, visible>>
    BY <1>6 DEF Task, ReadPage, NextPage, PublishProduct, PublishBrand, Submit, FindDeal, ReadLinks,
           ReadProducts, NextLinks, FetchPromotions, Spawn, FindPromotion, UpsertPromotion, Submitted,
           Collected, StopPool, Receive, tables
  <1> QED BY <1>1, <1>2, <1>3, <1>4, <1>5, <1>6
      DEF Next, Handlers, NewBrand, Start, Worker, TakeJob, Clean, Kid, FetchPLIDs, vars, tables

\* A run leaves the variables of every other run alone, and handlers and kids
\* leave alone those of all runs.
LEMMA StartSame ==
  ASSUME TypeOK, NEW s \in Run, NEW k \in Kinds, Start(s, k), NEW r \in Run, r # s
  PROVE  Same(r)
  BY DEF Start, Goto, Same, TypeOK, pool

LEMMA TaskSame ==
  ASSUME TypeOK, NEW s \in Run, Task(s), NEW r \in Run, r # s
  PROVE  Same(r)
  <1>1. CASE ReadPage(s)
    BY <1>1 DEF ReadPage, Goto, Same, TypeOK, pool
  <1>2. CASE NextPage(s)
    BY <1>2 DEF NextPage, Advance, Goto, Same, TypeOK, pool
  <1>3. ASSUME NEW i \in rest[s], PublishProduct(s, i) PROVE Same(r)
    BY <1>3 DEF PublishProduct, Goto, Same, TypeOK, pool
  <1>4. ASSUME NEW i \in rest[s], PublishBrand(s, i) PROVE Same(r)
    BY <1>4 DEF PublishBrand, Goto, Same, TypeOK, pool
  <1>5. ASSUME NEW i \in rest[s], Submit(s, i) PROVE Same(r)
    BY <1>5 DEF Submit, Same, TypeOK
  <1>6. CASE FindDeal(s)
    BY <1>6 DEF FindDeal, Goto, Same, TypeOK, pool
  <1>7. CASE ReadLinks(s)
    BY <1>7 DEF ReadLinks, Goto, Same, TypeOK, pool
  <1>8. CASE ReadProducts(s)
    BY <1>8 DEF ReadProducts, Goto, Same, TypeOK, pool
  <1>9. CASE NextLinks(s)
    BY <1>9 DEF NextLinks, Goto, Same, TypeOK, pool
  <1>10. CASE FetchPromotions(s) \/ Spawn(s)
    BY <1>10 DEF FetchPromotions, Spawn, Goto, Same, TypeOK, pool, paging
  <1>11. ASSUME NEW o \in Offer, FindPromotion(<<s, o>>) \/ UpsertPromotion(<<s, o>>) PROVE Same(r)
    <2>1. pc' = pc \/ Goto(s, "quit")
      BY <1>11, UpsertSame
    <2>2. UNCHANGED <<paging, pool, there, swept, blind>>
      BY <1>11, UpsertSame
    <2> QED BY <2>1, <2>2 DEF Goto, Same, TypeOK, pool, paging
  <1>12. CASE Submitted(s)
    BY <1>12 DEF Submitted, Goto, Same, TypeOK, paging
  <1>13. CASE Collected(s)
    BY <1>13 DEF Collected, Goto, Same, TypeOK, pool, paging
  <1>14. CASE StopPool(s)
    BY <1>14 DEF StopPool, Advance, Goto, Same, TypeOK
  <1>15. ASSUME NEW i \in sending[s], Receive(s, i) PROVE Same(r)
    BY <1>15 DEF Receive, Same, TypeOK, paging
  <1> QED BY <1>1, <1>2, <1>3, <1>4, <1>5, <1>6, <1>7, <1>8, <1>9, <1>10, <1>11, <1>12, <1>13,
             <1>14, <1>15 DEF Task

LEMMA WorkerSame ==
  ASSUME TypeOK, NEW s \in Run, Worker(s), NEW r \in Run, r # s
  PROVE  Same(r)
  BY DEF Worker, TakeJob, Clean, Same, TypeOK, paging

LEMMA OtherSame ==
  ASSUME TypeOK, Handlers \/ (\E k \in Run \X Offer : Kid(k)) \/ UNCHANGED vars, NEW r \in Run
  PROVE  Same(r)
  <1>1. ASSUME NEW t \in Table, NEW i \in 1 .. (Len(product) + brands), Commit(t, i) PROVE Same(r)
    <2>1. i \in visible'[t] /\ UNCHANGED <<pc, paging, pool, swept, blind>>
      BY <1>1 DEF Commit, TypeOK
    <2>2. \A j \in there'[r] : j \notin there[r] => j = i /\ Ahead(r, t, i)
      BY <1>1 DEF Commit
    <2> QED BY <2>1, <2>2 DEF Same, Ahead, paging, pool
  <1>2. CASE UNCHANGED <<pc, paging, pool, there, swept, blind>>
    BY <1>2 DEF Same, paging, pool
  <1> QED BY <1>1, <1>2 DEF Handlers, NewProduct, NewBrand, Kid, FetchPLIDs, CreateLink, CommitLink, vars

LEMMA SweepStep ==
  ASSUME Types, [Next]_vars, NEW r \in Run, SweepInv(r)
  PROVE  SweepInv(r)'
  <1>0. TypeOK /\ TypeOK' /\ Grows
    BY TypesStep, GrowsStep DEF Types
  <1>1. CASE Same(r)
    BY <1>0, <1>1, SweepFrame
  <1>2. ASSUME NEW k \in Kinds, Start(r, k) PROVE SweepInv(r)'
    BY <1>2, SweepStart
  <1>3. CASE Task(r)
    BY <1>3, SweepReadPage, SweepPublish, SweepNextPage, SweepStopPool, SweepSubmit, SweepSubmitted,
       SweepReceive, SweepOther DEF Task
  <1>4. CASE Worker(r)
    BY <1>4, SweepTakeJob, SweepClean DEF Worker
  <1> QED BY <1>0, <1>1, <1>2, <1>3, <1>4, StartSame, TaskSame, WorkerSame, OtherSame DEF Next

(* A sweep by id does not come to a row twice, so that no task publishes a  *)
(* product again or has it cleaned by two workers (:82, 190, 262).          *)
THEOREM NoRowTwice == Spec => []SweptOnce
  <1> DEFINE IInv == Types /\ \A r \in Run : SweepInv(r)
  <1>1. Init => IInv
    BY InitTypes, SweepInit
  <1>2. IInv /\ [Next]_vars => IInv'
    BY TypesStep, SweepStep
  <1>3. IInv => SweptOnce
    BY DEF SweepInv, Once, SweptOnce, Todo
  <1> QED BY <1>1, <1>2, <1>3, PTL DEF Spec

\* A clean-up that waits for an answer has a worker that sends or cleans, or a
\* job and a worker free to take it.  When it waits for no more, and when it
\* stops the pool, all jobs are done and all workers free: Stop waits for nobody
\* and drops nothing, and no worker is left sending on a channel nobody reads.
CleanUpGoesOn ==
    \A r \in Run :
        /\ pc[r] = "collect" /\ left[r] > 0 =>
              \/ sending[r] # {}
              \/ working[r] # {}
              \/ queue[r] # {} /\ Cardinality(working[r] \cup sending[r]) < PoolSize
        /\ (pc[r] = "collect" /\ left[r] = 0) \/ pc[r] \notin {"sweep", "collect"} =>
              queue[r] = {} /\ working[r] = {} /\ sending[r] = {}

(* The clean-up, its pool and their channel without a buffer never wait for *)
(* each other: the safety half of its part of SweepEnds                     *)
(* (scheduled_task_handler.go:231-264).                                     *)
THEOREM CleanUpNeverSticks == Spec => []CleanUpGoesOn
  <1> DEFINE IInv == Types /\ \A r \in Run : SweepInv(r)
  <1>1. Init => IInv
    BY InitTypes, SweepInit
  <1>2. IInv /\ [Next]_vars => IInv'
    BY TypesStep, SweepStep
  <1>3. IInv => CleanUpGoesOn
    <2> SUFFICES ASSUME IInv, NEW r \in Run
                 PROVE  /\ pc[r] = "collect" /\ left[r] > 0 =>
                              \/ sending[r] # {}
                              \/ working[r] # {}
                              \/ queue[r] # {} /\ Cardinality(working[r] \cup sending[r]) < PoolSize
                        /\ (pc[r] = "collect" /\ left[r] = 0) \/ pc[r] \notin {"sweep", "collect"} =>
                              queue[r] = {} /\ working[r] = {} /\ sending[r] = {}
      BY DEF CleanUpGoesOn
    <2> DEFINE U == queue[r] \cup working[r] \cup sending[r]
    <2>1. Pooled(r) /\ Cardinality({}) = 0
      BY FS_EmptySet DEF SweepInv
    <2>2. ASSUME pc[r] = "collect", left[r] > 0, sending[r] = {}, working[r] = {}
          PROVE  queue[r] # {} /\ Cardinality(working[r] \cup sending[r]) < PoolSize
      <3>1. left[r] = Cardinality(U)
        BY <2>1, <2>2 DEF Pooled
      <3>2. U # {}
        BY <2>1, <2>2, <3>1
      <3>3. working[r] \cup sending[r] = {} /\ queue[r] # {}
        BY <2>2, <3>2
      <3> QED BY <2>1, <3>3, SizeAssumption
    <2>3. ASSUME pc[r] = "collect", left[r] = 0 PROVE U = {}
      <3>1. IsFiniteSet(U) /\ Cardinality(U) = 0
        BY <2>1, <2>3, FS_Subset DEF Pooled, Types
      <3> QED BY <3>1, FS_EmptySet
    <2>4. pc[r] \notin {"sweep", "collect"} => U = {}
      BY <2>1 DEF Pooled
    <2> QED BY <2>2, <2>3, <2>4
  <1> QED BY <1>1, <1>2, <1>3, PTL DEF Spec
-----------------------------------------------------------------------------
(***************************************************************************)
(* The sweep by OFFSET.  Links are read from the newest to the oldest, and *)
(* those that are inserted meanwhile are newer, so that what was there     *)
(* moves away from the pages that were read.                               *)
(***************************************************************************)

\* A link of the product lies behind the newest n ones.
Waits(r, i, n) ==
    \E l \in LinksOf(deal[r]) :
        /\ link[l].plid = product[i]
        /\ \E Q \in SUBSET LinksOf(deal[r]) :
              IsFiniteSet(Q) /\ Cardinality(Q) = n /\ \A j \in Q : l < j

\* A product of the daily deals was published, is in hand, or waits.
DealInv(r) ==
    /\ kind[r] = "promotions" => there[r] = {}
    /\ kind[r] = "deals" =>
          /\ pc[r] = "deal" => from[r] = 0
          /\ pc[r] = "products" => links[r] \subseteq visible["link"]
          /\ there[r] \subseteq visible["product"]
          /\ ~blind[r] => \A i \in there[r] \ swept[r] :
                /\ pc[r] # "end"
                /\ pc[r] = "links" => Waits(r, i, from[r])
                /\ pc[r] \in {"products", "sweep"} =>
                      \/ pc[r] = "products" /\ \E l \in links[r] : link[l].plid = product[i]
                      \/ pc[r] = "sweep" /\ i \in rest[r]
                      \/ /\ Cardinality(links[r]) = Size[kind[r]]
                         /\ Waits(r, i, from[r] + Size[kind[r]])

LEMMA WaitsFrame ==
  ASSUME NEW r \in Run, deal'[r] = deal[r], Grows, NEW i \in visible["product"],
         NEW n, Waits(r, i, n)
  PROVE  Waits(r, i, n)'
  <1>1. PICK l \in LinksOf(deal[r]) :
          /\ link[l].plid = product[i]
          /\ \E Q \in SUBSET LinksOf(deal[r]) :
                IsFiniteSet(Q) /\ Cardinality(Q) = n /\ \A j \in Q : l < j
    BY DEF Waits
  <1>2. LinksOf(deal[r]) \subseteq LinksOf(deal[r])'
    BY DEF LinksOf, Grows, Table
  <1>3. link'[l] = link[l] /\ product'[i] = product[i]
    BY DEF LinksOf, Grows
  <1>4. PICK Q \in SUBSET LinksOf(deal[r]) :
          IsFiniteSet(Q) /\ Cardinality(Q) = n /\ \A j \in Q : l < j
    BY <1>1
  <1>5. l \in LinksOf(deal[r])' /\ Q \in SUBSET (LinksOf(deal[r])') /\ link'[l].plid = product'[i]
    BY <1>1, <1>2, <1>3, <1>4
  <1> QED BY <1>4, <1>5 DEF Waits

LEMMA DealFrame ==
  ASSUME NEW r \in Run, DealInv(r), Same(r), Grows
  PROVE  DealInv(r)'
  <1>0. kind[r] \in {"promotions", "deals"} => there'[r] \subseteq there[r]
    BY DEF Same, Ahead, Keyset
  <1>1. kind'[r] = "promotions" => there'[r] = {}
    BY <1>0 DEF DealInv, Same
  <1>2. ASSUME kind[r] = "deals"
        PROVE  /\ pc'[r] = "deal" => from'[r] = 0
               /\ pc'[r] = "products" => links'[r] \subseteq visible'["link"]
               /\ there'[r] \subseteq visible'["product"]
    BY <1>0, <1>2 DEF DealInv, Same, Grows, Table
  <1>3. ASSUME kind[r] = "deals", ~blind[r], NEW i \in there[r] \ swept[r]
        PROVE  /\ pc'[r] # "end"
               /\ pc'[r] = "links" => Waits(r, i, from[r])'
               /\ pc'[r] \in {"products", "sweep"} =>
                      \/ pc'[r] = "products" /\ \E l \in links'[r] : link'[l].plid = product'[i]
                      \/ pc'[r] = "sweep" /\ i \in rest'[r]
                      \/ /\ Cardinality(links'[r]) = Size[kind'[r]]
                         /\ Waits(r, i, from[r] + Size[kind[r]])'
    <2>1. i \in visible["product"] /\ deal'[r] = deal[r]
      BY <1>3 DEF DealInv, Same
    <2>2. product'[i] = product[i]
      BY <2>1 DEF Grows
    <2>3. pc[r] = "products" => \A l \in links[r] : link'[l] = link[l]
      BY <1>3 DEF DealInv, Grows
    <2>4. pc'[r] = pc[r] /\ links'[r] = links[r] /\ rest'[r] = rest[r] /\ kind'[r] = kind[r]
      BY DEF Same
    <2>5. pc[r] # "end" /\ (pc[r] = "links" => Waits(r, i, from[r]))
      BY <1>3 DEF DealInv
    <2>6. pc[r] \in {"products", "sweep"} =>
             \/ pc[r] = "products" /\ \E l \in links[r] : link[l].plid = product[i]
             \/ pc[r] = "sweep" /\ i \in rest[r]
             \/ /\ Cardinality(links[r]) = Size[kind[r]]
                /\ Waits(r, i, from[r] + Size[kind[r]])
      BY <1>3 DEF DealInv
    <2>7. from'[r] = from[r]
      BY DEF Same
    <2>8. Waits(r, i, from[r]) => Waits(r, i, from[r])'
      <3>1. PICK n : n = from[r]
        OBVIOUS
      <3>2. Waits(r, i, n) => Waits(r, i, n)'
        BY <2>1, WaitsFrame
      <3> QED BY <3>1, <3>2, <2>7 DEF Waits
    <2>9. Waits(r, i, from[r] + Size[kind[r]]) => Waits(r, i, from[r] + Size[kind[r]])'
      <3>1. PICK n : n = from[r] + Size[kind[r]]
        OBVIOUS
      <3>2. Waits(r, i, n) => Waits(r, i, n)'
        BY <2>1, WaitsFrame
      <3> QED BY <3>1, <3>2, <2>4, <2>7 DEF Waits
    <2>10. pc'[r] \in {"products", "sweep"} =>
             \/ pc'[r] = "products" /\ \E l \in links'[r] : link'[l].plid = product'[i]
             \/ pc'[r] = "sweep" /\ i \in rest'[r]
             \/ /\ Cardinality(links'[r]) = Size[kind'[r]]
                /\ Waits(r, i, from[r] + Size[kind[r]])'
      BY <2>2, <2>3, <2>4, <2>6, <2>9
    <2> QED BY <2>4, <2>5, <2>8, <2>10
  <1>4. from'[r] = from[r] /\ kind'[r] = kind[r] /\ swept'[r] = swept[r] /\ blind'[r] = blind[r]
    BY DEF Same
  <1> QED BY <1>0, <1>1, <1>2, <1>3, <1>4 DEF DealInv

LEMMA DealInit ==
  ASSUME Init, NEW r \in Run
  PROVE  DealInv(r)
  BY DEF Init, DealInv

LEMMA DealStart ==
  ASSUME Types, NEW r \in Run, SweepInv(r), NEW k \in Kinds, Start(r, k)
  PROVE  DealInv(r)'
  <1>1. pc[r] = "idle" /\ kind'[r] = k /\ (k = "deals" => pc'[r] = "deal")
        /\ (k \notin Keyset => there'[r] = {}) /\ from' = from
    BY DEF Start, Goto, Types, TypeOK
  <1>2. from[r] = 0
    BY <1>1 DEF SweepInv, Places
  <1> QED BY <1>1, <1>2 DEF DealInv, Keyset

LEMMA DealFind ==
  ASSUME Types, NEW r \in Run, SweepInv(r), DealInv(r), FindDeal(r)
  PROVE  DealInv(r)'
  <1>0. TypeOK /\ pc[r] = "deal" /\ kind[r] = "deals" /\ kind' = kind
    BY DEF Types, FindDeal, SweepInv, Places, TypeOK, Kind
  <1>1. CASE Goto(r, "quit") /\ UNCHANGED <<deal, there>>
    <2>1. pc'[r] = "quit" /\ there' = there /\ visible' = visible
      BY <1>0, <1>1 DEF Goto, TypeOK, FindDeal, tables
    <2> QED BY <1>0, <2>1 DEF DealInv
  <1>2. ASSUME NEW d \in Deals, deal' = [deal EXCEPT ![r] = d], Goto(r, "links"),
               there' = [there EXCEPT ![r] = ProductsOf(LinksOf(d))]
        PROVE  DealInv(r)'
    <2>1. /\ pc'[r] = "links" /\ deal'[r] = d /\ there'[r] = ProductsOf(LinksOf(d))
          /\ from'[r] = 0
          /\ UNCHANGED <<product, link, visible>>
      BY <1>0, <1>2 DEF Goto, TypeOK, FindDeal, tables, DealInv
    <2>2. ProductsOf(LinksOf(d)) \subseteq visible["product"]
      BY DEF ProductsOf
    <2>3. ASSUME NEW i \in ProductsOf(LinksOf(d)) PROVE Waits(r, i, 0)'
      <3>1. PICK l \in LinksOf(d) : link[l].plid = product[i]
        BY DEF ProductsOf
      <3>2. LinksOf(deal[r])' = LinksOf(d)
        BY <2>1 DEF LinksOf
      <3>3. /\ {} \in SUBSET LinksOf(d) /\ IsFiniteSet({}) /\ Cardinality({}) = 0
            /\ \A j \in {} : l < j
        BY FS_EmptySet
      <3> QED BY <2>1, <3>1, <3>2, <3>3 DEF Waits
    <2> QED BY <1>0, <2>1, <2>2, <2>3 DEF DealInv
  <1> QED BY <1>1, <1>2 DEF FindDeal

\* What waits behind k links is on the next page of n, or waits behind k + n.
LEMMA WindowMoves ==
  ASSUME NEW L \in SUBSET Nat, IsFiniteSet(L), NEW k \in Nat, NEW n \in Nat \ {0},
         NEW P, Window(P, L, k, n), NEW l \in L, l \notin P,
         NEW Q \in SUBSET L, IsFiniteSet(Q), Cardinality(Q) = k, \A j \in Q : l < j
  PROVE  /\ Cardinality(P) = n
         /\ \E R \in SUBSET L : IsFiniteSet(R) /\ Cardinality(R) = k + n /\ \A j \in R : l < j
  <1>1. PICK N \in SUBSET L : Newest(N, L, k) /\ Newest(P, L \ N, n)
    BY DEF Window
  <1>2. IsFiniteSet(N) /\ IsFiniteSet(P) /\ P \subseteq L \ N
    BY <1>1, FS_Subset DEF Newest
  <1>3. Cardinality(N) \in Nat /\ Cardinality(P) \in Nat
    BY <1>2, FS_CardinalityType
  <1>4. l \notin N
    <2> SUFFICES ASSUME l \in N PROVE FALSE
      OBVIOUS
    <2>1. ASSUME NEW j \in Q PROVE j \in N
      <3>1. j \in Nat /\ l \in Nat /\ l < j
        OBVIOUS
      <3>2. j \in L \ N => j < l
        BY <1>1 DEF Newest
      <3> QED BY <3>1, <3>2
    <2>2. l \notin Q
      <3>1. l \in Nat /\ ~(l < l)
        OBVIOUS
      <3> QED BY <3>1
    <2>3. Cardinality(Q \cup {l}) = k + 1
      BY <2>2, FS_AddElement
    <2>4. Cardinality(Q \cup {l}) <= Cardinality(N)
      BY <1>2, <2>1, FS_Subset
    <2>5. Cardinality(N) <= k
      BY <1>1 DEF Newest
    <2> QED BY <1>3, <2>3, <2>4, <2>5
  <1>5. Cardinality(N) = k /\ Cardinality(P) = n
    BY <1>1, <1>3, <1>4 DEF Newest
  <1>6. \A j \in N \cup P : l < j
    BY <1>1, <1>4 DEF Newest
  <1>7. IsFiniteSet(N \cup P) /\ Cardinality(N \cup P) = k + n
    <2>1. N \cap P = {}
      BY <1>2
    <2>2. Cardinality(N \cap P) = 0
      BY <2>1, FS_EmptySet
    <2> QED BY <1>2, <1>5, <2>2, FS_Union
  <1> QED BY <1>2, <1>5, <1>6, <1>7

LEMMA DealReadLinks ==
  ASSUME Types, NEW r \in Run, SweepInv(r), DealInv(r), ReadLinks(r)
  PROVE  DealInv(r)'
  <1> DEFINE L == LinksOf(deal[r])
             n == Size[kind[r]]
  <1>0. TypeOK /\ pc[r] = "links" /\ kind[r] = "deals"
    BY DEF Types, ReadLinks, SweepInv, Places, TypeOK, Kind
  <1>1. PICK P \in SUBSET L, failed \in BOOLEAN :
          /\ IF failed THEN "read" \in Faults /\ P = {} ELSE Window(P, L, from[r], n)
          /\ links' = [links EXCEPT ![r] = P]
          /\ blind' = [blind EXCEPT ![r] = @ \/ failed]
    BY DEF ReadLinks
  <1>2. /\ pc'[r] = "products" /\ links'[r] = P /\ (~blind'[r] => ~blind[r] /\ ~failed)
        /\ UNCHANGED <<tables, kind, from, page, rest, deal, pool, kid, there, swept>>
    BY <1>0, <1>1 DEF ReadLinks, Goto, TypeOK
  <1>3. L \subseteq visible["link"] /\ L \in SUBSET Nat /\ IsFiniteSet(L)
    <2>1. L \subseteq visible["link"]
      BY DEF LinksOf
    <2>2. IsFiniteSet(visible["link"]) /\ visible["link"] \subseteq Nat
      BY <1>0, VisibleIds DEF Table
    <2> QED BY <2>1, <2>2, FS_Subset
  <1>4. from[r] \in Nat /\ n \in Nat \ {0}
    BY <1>0, SizeAssumption DEF TypeOK
  <1>5. ASSUME ~blind'[r], NEW i \in there[r] \ swept[r]
        PROVE  \/ \E l \in P : link[l].plid = product[i]
               \/ Cardinality(P) = n /\ Waits(r, i, from[r] + n)
    <2>1. Waits(r, i, from[r]) /\ Window(P, L, from[r], n)
      BY <1>0, <1>1, <1>2, <1>5 DEF DealInv
    <2>2. PICK l \in L :
            /\ link[l].plid = product[i]
            /\ \E Q \in SUBSET L : IsFiniteSet(Q) /\ Cardinality(Q) = from[r] /\ \A j \in Q : l < j
      BY <2>1 DEF Waits
    <2>3. CASE l \in P
      BY <2>2, <2>3
    <2>4. CASE l \notin P
      <3>1. PICK Q \in SUBSET L : IsFiniteSet(Q) /\ Cardinality(Q) = from[r] /\ \A j \in Q : l < j
        BY <2>2
      <3>2. /\ Cardinality(P) = n
            /\ \E R \in SUBSET L :
                  IsFiniteSet(R) /\ Cardinality(R) = from[r] + n /\ \A j \in R : l < j
        <4> HIDE DEF L, n
        <4> QED BY <1>3, <1>4, <2>1, <2>4, <3>1, WindowMoves
      <3> QED BY <2>2, <3>2 DEF Waits
    <2> QED BY <2>3, <2>4
  <1>6. \A i : Waits(r, i, from[r] + n)' <=> Waits(r, i, from[r] + n)
    BY <1>2 DEF Waits, LinksOf, tables
  <1>7. there[r] \subseteq visible["product"]
    BY <1>0 DEF DealInv
  <1> QED BY <1>0, <1>2, <1>3, <1>5, <1>6, <1>7 DEF DealInv, tables
LEMMA DealReadProducts ==
  ASSUME Types, NEW r \in Run, SweepInv(r), DealInv(r), ReadProducts(r)
  PROVE  DealInv(r)'
  <1>0. TypeOK /\ pc[r] = "products" /\ kind[r] = "deals"
    BY DEF Types, ReadProducts, SweepInv, Places, TypeOK, Kind
  <1>1. pc'[r] = "sweep" /\ UNCHANGED <<tables, kind, from, deal, links, there, swept>>
    BY <1>0 DEF ReadProducts, Goto, TypeOK
  <1>2. ~blind'[r] => ~blind[r] /\ rest'[r] = ProductsOf(links[r])
    BY <1>0 DEF ReadProducts, TypeOK
  <1>3. there[r] \subseteq visible["product"]
    BY <1>0 DEF DealInv
  <1>4. ASSUME ~blind'[r], NEW i \in there[r] \ swept[r]
        PROVE  \/ i \in rest'[r]
               \/ Cardinality(links[r]) = Size[kind[r]] /\ Waits(r, i, from[r] + Size[kind[r]])
    <2>1. \/ \E l \in links[r] : link[l].plid = product[i]
          \/ Cardinality(links[r]) = Size[kind[r]] /\ Waits(r, i, from[r] + Size[kind[r]])
      BY <1>0, <1>2, <1>4 DEF DealInv
    <2>2. (\E l \in links[r] : link[l].plid = product[i]) => i \in rest'[r]
      BY <1>2, <1>3, <1>4 DEF ProductsOf
    <2> QED BY <2>1, <2>2
  <1>5. \A i : Waits(r, i, from[r] + Size[kind[r]])' <=> Waits(r, i, from[r] + Size[kind[r]])
    BY <1>1 DEF Waits, LinksOf, tables
  <1> QED BY <1>0, <1>1, <1>3, <1>4, <1>5 DEF DealInv, tables

LEMMA DealPublish ==
  ASSUME Types, NEW r \in Run, SweepInv(r), DealInv(r), NEW i \in rest[r], PublishProduct(r, i)
  PROVE  DealInv(r)'
  <1>0. TypeOK /\ pc[r] = "sweep" /\ kind[r] \in {"prices", "deals"}
        /\ UNCHANGED <<tables, kind, from, page, deal, links, pool, kid, there, blind>>
    BY DEF Types, PublishProduct
  <1>1. CASE kind[r] = "prices"
    BY <1>0, <1>1 DEF DealInv
  <1>2. CASE kind[r] = "deals" /\ Goto(r, "quit")
    <2>1. pc'[r] = "quit" /\ there[r] \subseteq visible["product"]
      BY <1>0, <1>2 DEF Goto, TypeOK, DealInv
    <2> QED BY <1>0, <1>2, <2>1 DEF DealInv, tables
  <1>3. CASE kind[r] = "deals" /\ pc' = pc
             /\ swept' = [swept EXCEPT ![r] = @ \cup {i}] /\ rest' = [rest EXCEPT ![r] = @ \ {i}]
    <2>1. swept'[r] = swept[r] \cup {i} /\ rest'[r] = rest[r] \ {i} /\ pc'[r] = "sweep"
      BY <1>0, <1>3 DEF TypeOK
    <2>2. there[r] \subseteq visible["product"]
      BY <1>3 DEF DealInv
    <2>3. ASSUME ~blind[r], NEW j \in there[r] \ swept'[r]
          PROVE  \/ j \in rest'[r]
                 \/ Cardinality(links[r]) = Size[kind[r]] /\ Waits(r, j, from[r] + Size[kind[r]])
      BY <1>0, <1>3, <2>1, <2>3 DEF DealInv
    <2>4. \A j : Waits(r, j, from[r] + Size[kind[r]])' <=> Waits(r, j, from[r] + Size[kind[r]])
      BY <1>0 DEF Waits, LinksOf, tables
    <2> QED BY <1>0, <1>3, <2>1, <2>2, <2>3, <2>4 DEF DealInv, tables
  <1> QED BY <1>0, <1>1, <1>2, <1>3 DEF PublishProduct

LEMMA DealNextLinks ==
  ASSUME Types, NEW r \in Run, SweepInv(r), DealInv(r), NextLinks(r)
  PROVE  DealInv(r)'
  <1>0. TypeOK /\ pc[r] = "sweep" /\ kind[r] = "deals" /\ rest[r] = {}
        /\ UNCHANGED <<tables, kind, page, rest, deal, links, pool, kid, there, swept, blind>>
    BY DEF Types, NextLinks
  <1>1. there[r] \subseteq visible["product"]
    BY <1>0 DEF DealInv
  <1>2. ASSUME ~blind[r], NEW i \in there[r] \ swept[r]
        PROVE  Cardinality(links[r]) = Size[kind[r]] /\ Waits(r, i, from[r] + Size[kind[r]])
    BY <1>0, <1>2 DEF DealInv
  <1>3. Size[kind[r]] \in Nat
    BY <1>0, SizeAssumption DEF TypeOK
  <1>4. CASE Cardinality(links[r]) < Size[kind[r]]
    <2>1. pc'[r] = "end"
      BY <1>0, <1>4 DEF NextLinks, Goto, TypeOK
    <2>2. ~blind[r] => there[r] \ swept[r] = {}
      BY <1>2, <1>3, <1>4
    <2> QED BY <1>0, <1>1, <2>1, <2>2 DEF DealInv, tables
  <1>5. CASE ~(Cardinality(links[r]) < Size[kind[r]])
    <2>1. pc'[r] = "links" /\ from'[r] = from[r] + Size[kind[r]]
      BY <1>0, <1>5 DEF NextLinks, Goto, TypeOK
    <2>2. \A i : Waits(r, i, from[r])' <=> Waits(r, i, from[r] + Size[kind[r]])
      BY <1>0, <2>1 DEF Waits, LinksOf, tables
    <2> QED BY <1>0, <1>1, <1>2, <2>1, <2>2 DEF DealInv, tables
  <1> QED BY <1>4, <1>5

\* The tasks that do not read links.
LEMMA DealOther ==
  ASSUME Types, NEW r \in Run, SweepInv(r), DealInv(r), Task(r) \/ Worker(r),
         ~FindDeal(r), ~ReadLinks(r), ~ReadProducts(r), ~NextLinks(r),
         \A i \in rest[r] : ~PublishProduct(r, i)
  PROVE  DealInv(r)'
  <1>0. TypeOK
    BY DEF Types
  <1>1. ASSUME NEW o \in Offer, FindPromotion(<<r, o>>) \/ UpsertPromotion(<<r, o>>)
        PROVE  kind[r] = "promotions" /\ UNCHANGED <<kind, there>>
    <2>1. pc[r] = "upsert"
      BY <1>1 DEF FindPromotion, UpsertPromotion
    <2>2. kind[r] = "promotions"
      BY <1>0, <2>1 DEF SweepInv, Places, TypeOK, Kind
    <2> QED BY <1>0, <1>1, <2>2, UpsertSame DEF paging
  <1>2. CASE Worker(r)
    BY <1>2 DEF Worker, TakeJob, Clean, paging, DealInv, SweepInv, Pooled
  <1>3. CASE Task(r)
    <2>1. kind' = kind /\ there' = there
      BY <1>1, <1>3 DEF Task, ReadPage, NextPage, PublishBrand, Submit, FetchPromotions, Spawn,
         Submitted, Collected, StopPool, Receive, paging
    <2>2. kind[r] # "deals"
      BY <1>1, <1>3 DEF Task, ReadPage, NextPage, PublishBrand, Submit, FetchPromotions, Spawn,
         Submitted, Collected, StopPool, Receive, SweepInv, Places
    <2> QED BY <2>1, <2>2 DEF DealInv
  <1> QED BY <1>2, <1>3

LEMMA DealStep ==
  ASSUME Types, [Next]_vars, NEW r \in Run, SweepInv(r), DealInv(r)
  PROVE  DealInv(r)'
  <1>0. TypeOK /\ Grows
    BY GrowsStep DEF Types
  <1>1. CASE Same(r)
    BY <1>0, <1>1, DealFrame
  <1>2. ASSUME NEW k \in Kinds, Start(r, k) PROVE DealInv(r)'
    BY <1>2, DealStart
  <1>3. CASE Task(r) \/ Worker(r)
    BY <1>3, DealFind, DealReadLinks, DealReadProducts, DealNextLinks, DealPublish, DealOther
  <1> QED BY <1>0, <1>1, <1>2, <1>3, StartSame, TaskSame, WorkerSame, OtherSame DEF Next

(* A task that ran to its end has come to every product, brand or daily     *)
(* deal that was there when it began, whatever was inserted and committed   *)
(* meanwhile, unless a SELECT of its own failed (:65-83, 159-191, 207-227,  *)
(* 241-264).                                                                *)
THEOREM NothingLeftOut == Spec => []LeavesNoneOut
  <1> DEFINE IInv == Types /\ \A r \in Run : SweepInv(r) /\ DealInv(r)
  <1>1. Init => IInv
    BY InitTypes, SweepInit, DealInit
  <1>2. IInv /\ [Next]_vars => IInv'
    BY TypesStep, SweepStep, DealStep
  <1>3. IInv => LeavesNoneOut
    <2> SUFFICES ASSUME IInv, NEW r \in Run, pc[r] = "end", ~blind[r], NEW i \in there[r]
                 PROVE  i \in swept[r]
      BY DEF LeavesNoneOut
    <2>1. kind[r] \in Kind
      BY DEF Types, TypeOK
    <2>2. CASE kind[r] \in Keyset
      BY <2>2 DEF SweepInv, Covered
    <2>3. CASE kind[r] \in {"deals", "promotions"}
      BY <2>3 DEF DealInv
    <2> QED BY <2>1, <2>2, <2>3 DEF Kind
  <1> QED BY <1>1, <1>2, <1>3, PTL DEF Spec
-----------------------------------------------------------------------------
(***************************************************************************)
(* The promotions and their links.                                         *)
(***************************************************************************)

\* An id that UpsertPromotionModel answers for an offer: 0, or that of its row.
Owns(o, d) == d # 0 => d \in 1 .. Len(promotion) /\ promotion[d] = o

Record(k, p) == [promotion |-> kid[k].promotion, plid |-> p, by |-> k]

Before == {"none", "create", "new", "fetch"}

\* A goroutine links after Spawn, what it has taken off its list, each PLID once.
LinksOnce(k) ==
    /\ \A l \in 1 .. Len(link) : link[l].by = k =>
          kid[k].pc \notin Before /\ link[l].plid \notin kid[k].todo
    /\ \A l, m \in 1 .. Len(link) :
          link[l].by = k /\ link[m].by = k /\ link[l].plid = link[m].plid => l = m

\* What has been taken off the list is linked, or its link is being committed.
Linked(k, p) ==
    \/ \E l \in visible["link"] : link[l] = Record(k, p)
    \/ kid[k].pc = "commit" /\ link[kid[k].row] = Record(k, p)

KidInv(k) ==
    /\ Owns(k[2], kid[k].promotion)
    /\ kid[k].pc \in {"new", "fetch", "link", "commit", "end"} => Ids(k[2]) # {}
    /\ LinksOnce(k)
    /\ kid[k].pc = "create" => Owns(k[2], kid[k].row)
    /\ kid[k].todo \subseteq OnPromotion[k[2]]
    /\ kid[k].pc \in {"link", "commit", "end"} =>
          \A p \in OnPromotion[k[2]] \ kid[k].todo : Linked(k, p)
    /\ kid[k].pc = "end" => kid[k].todo = {}

\* Rows of promotions and links stay as they were inserted.
Kept ==
    /\ \A d \in 1 .. Len(promotion) : d \in 1 .. Len(promotion') /\ promotion'[d] = promotion[d]
    /\ \A l \in 1 .. Len(link) : l \in 1 .. Len(link') /\ link'[l] = link[l]
    /\ visible["link"] \subseteq visible'["link"]

PromotionsInv == LinksBelong /\ \A k \in Run \X Offer : KidInv(k)

\* At the start no goroutine has begun.
LEMMA PromotionsInit == Init => PromotionsInv
  BY DEF Init, PromotionsInv, LinksBelong, KidInv, Owns, NoKid, LinksOnce

\* An id stays that of its offer.
LEMMA OwnsKept == ASSUME Kept, NEW o, NEW d, Owns(o, d) PROVE Owns(o, d)'
  BY DEF Kept, Owns

\* A row stays.
LEMMA IdsKept == ASSUME Kept, NEW o PROVE Ids(o) \subseteq Ids(o)'
  BY DEF Kept, Ids

\* The links of a goroutine are none but the ones it had.
Others(k) == \A l \in 1 .. Len(link') : l \in 1 .. Len(link) \/ link'[l].by # k

\* What belongs, or is linked, does so later, for a goroutine that has not moved.
LEMMA KidFrame ==
  ASSUME Types, Kept, NEW k \in Run \X Offer, KidInv(k), kid'[k] = kid[k], Others(k)
  PROVE  KidInv(k)'
  <1>1. Owns(k[2], kid[k].promotion)' /\ (kid[k].pc = "create" => Owns(k[2], kid[k].row)')
    BY OwnsKept DEF KidInv, Owns
  <1>2. ASSUME NEW p, Linked(k, p) PROVE Linked(k, p)'
    <2>1. visible["link"] \subseteq 1 .. Len(link)
      BY DEF Types, TypeOK
    <2>2. kid[k].pc = "commit" => kid[k].row \in 1 .. Len(link)
      BY DEF Types
    <2> QED BY <1>2, <2>1, <2>2 DEF Linked, Record, Kept
  <1>3. LinksOnce(k)'
    <2>1. LinksOnce(k)
      BY DEF KidInv
    <2>2. \A l \in 1 .. Len(link') : link'[l].by = k => l \in 1 .. Len(link) /\ link'[l] = link[l]
      BY DEF Others, Kept
    <2> QED BY <2>1, <2>2 DEF LinksOnce
  <1>4. kid'[k].pc \in {"new", "fetch", "link", "commit", "end"} => Ids(k[2])' # {}
    BY IdsKept DEF KidInv
  <1> QED BY <1>1, <1>2, <1>3, <1>4 DEF KidInv, Owns

\* A goroutine whose links are the same has them once, if it puts none back on its list.
LEMMA LinksOnceKept ==
  ASSUME NEW k \in Run \X Offer, LinksOnce(k), link' = link,
         kid'[k].todo \subseteq kid[k].todo \/ kid[k].pc \in Before,
         kid'[k].pc \in Before => kid[k].pc \in Before
  PROVE  LinksOnce(k)'
  <1>1. ASSUME NEW l \in 1 .. Len(link), link[l].by = k
        PROVE  kid'[k].pc \notin Before /\ link[l].plid \notin kid'[k].todo
    BY <1>1 DEF LinksOnce
  <1>2. \A l, m \in 1 .. Len(link) :
          link[l].by = k /\ link[m].by = k /\ link[l].plid = link[m].plid => l = m
    BY DEF LinksOnce
  <1> QED BY <1>1, <1>2 DEF LinksOnce

\* The links stay linked to their promotions while none is inserted.
LEMMA LinksFrame ==
  ASSUME Types, Kept, LinksBelong, link' = link
  PROVE  LinksBelong'
  BY IdsKept DEF LinksBelong

\* One goroutine moves and no link is inserted.
LEMMA KidMoves ==
  ASSUME Types, Kept, PromotionsInv, link' = link, NEW k \in Run \X Offer, KidInv(k)',
         \A j \in Run \X Offer : j # k => kid'[j] = kid[j]
  PROVE  PromotionsInv'
  BY KidFrame, LinksFrame DEF PromotionsInv, Others

\* The steps that neither insert a link nor move a goroutine.
LEMMA OthersMove ==
  ASSUME Types, Kept, PromotionsInv, UNCHANGED <<link, kid>>
  PROVE  PromotionsInv'
  BY KidFrame, LinksFrame DEF PromotionsInv, Others

\* Neither table has changed.
LEMMA KeptIfSame ==
  ASSUME Types, UNCHANGED <<promotion, link>>, visible["link"] \subseteq visible'["link"]
  PROVE  Kept
  BY DEF Kept

\* UpsertPromotionModel finds the offer's row or inserts it.
LEMMA UpsertKeeps ==
  ASSUME Types, PromotionsInv, NEW k \in Run \X Offer, FindPromotion(k) \/ UpsertPromotion(k)
  PROVE  PromotionsInv'
  <1>0. TypeOK /\ KidInv(k) /\ kid[k] \in KidType /\ promotion \in Seq(Offer) /\ k[2] \in Offer
    BY DEF Types, TypeOK, PromotionsInv, KidType, KidPc
  <1>1. CASE FindPromotion(k)
    <2>1. PICK i \in 0 .. Len(promotion) :
             /\ i \in Ids(k[2]) \/ i = 0
             /\ kid' = [kid EXCEPT ![k] = [NoKid EXCEPT !.pc = "create", !.row = i]]
      BY <1>1 DEF FindPromotion
    <2>2. UNCHANGED <<promotion, link, visible>>
      BY <1>1 DEF FindPromotion, tables
    <2>3. /\ kid'[k] = [pc |-> "create", promotion |-> 0, todo |-> {}, row |-> i]
          /\ \A j \in Run \X Offer : j # k => kid'[j] = kid[j]
      BY <1>0, <2>1 DEF TypeOK, NoKid
    <2>4. Owns(k[2], i)
      BY <2>1 DEF Owns, Ids
    <2>5. KidInv(k)'
      <3>1. LinksOnce(k)'
        BY <1>0, <1>1, <2>2, <2>3, LinksOnceKept DEF KidInv, FindPromotion, Before
      <3> QED BY <2>2, <2>3, <2>4, <3>1 DEF KidInv, Owns
    <2> QED BY <2>2, <2>3, <2>5, KeptIfSame, KidMoves
  <1>2. CASE UpsertPromotion(k)
    <2>1. promotion' = promotion \/ (IsNew(k) /\ promotion' = Append(promotion, k[2]))
      BY <1>0, <1>2, UpsertEffect
    <2>2. UNCHANGED <<link, visible>>
      BY <1>0, <1>2, UpsertEffect
    <2>3. Kept
      <3>1. CASE promotion' = promotion
        BY <2>2, <3>1, KeptIfSame
      <3>2. CASE promotion' = Append(promotion, k[2])
        <4>1. \A d \in 1 .. Len(promotion) :
                 d \in 1 .. Len(promotion') /\ promotion'[d] = promotion[d]
          BY <1>0, <3>2
        <4> QED BY <2>2, <4>1 DEF Kept
      <3> QED BY <2>1, <3>1, <3>2
    <2>4. CASE kid' = [kid EXCEPT ![k] = NoKid]
      <3>1. kid'[k] = NoKid /\ \A j \in Run \X Offer : j # k => kid'[j] = kid[j]
        BY <1>0, <2>4 DEF TypeOK
      <3>2. LinksOnce(k)'
        BY <1>0, <1>2, <2>2, <3>1, LinksOnceKept DEF KidInv, UpsertPromotion, Before, NoKid
      <3>3. KidInv(k)'
        BY <3>1, <3>2 DEF KidInv, Owns, NoKid
      <3> QED BY <2>2, <2>3, <3>1, <3>3, KidMoves
    <2>5. CASE /\ kid' = [kid EXCEPT ![k] = [NoKid EXCEPT !.pc = "new", !.promotion = ModelId(k)]]
               /\ IsNew(k) => promotion' = Append(promotion, k[2])
      <3>1. /\ kid'[k] = [pc |-> "new", promotion |-> ModelId(k), todo |-> {}, row |-> 0]
            /\ \A j \in Run \X Offer : j # k => kid'[j] = kid[j]
        BY <1>0, <2>5 DEF TypeOK, NoKid
      <3>2. Owns(k[2], kid[k].promotion)'
        <4>1. CASE IsNew(k)
          <5>1. Len(promotion) + 1 \in 1 .. Len(promotion') /\ promotion'[Len(promotion) + 1] = k[2]
            BY <1>0, <2>5, <4>1
          <5>2. kid'[k].promotion = Len(promotion) + 1
            BY <3>1, <4>1 DEF ModelId
          <5> QED BY <5>1, <5>2, <4>1, <3>1 DEF Owns
        <4>2. CASE ~IsNew(k)
          <5>1. kid'[k].promotion = kid[k].row /\ kid[k].pc = "create"
            BY <1>2, <3>1, <4>2 DEF ModelId, UpsertPromotion
          <5>2. Owns(k[2], kid[k].row)
            BY <1>0, <5>1 DEF KidInv
          <5>3. PICK d : d = kid[k].row
            OBVIOUS
          <5>4. Owns(k[2], d)'
            BY <2>3, <5>2, <5>3, OwnsKept
          <5> QED BY <5>1, <5>3, <5>4 DEF Owns
        <4> QED BY <4>1, <4>2
      <3>3. LinksOnce(k)'
        BY <1>0, <1>2, <2>2, <3>1, LinksOnceKept DEF KidInv, UpsertPromotion, Before
      <3>4. Ids(k[2])' # {}
        <4>1. CASE IsNew(k)
          <5>1. promotion' = Append(promotion, k[2])
            BY <2>5, <4>1
          <5>2. Len(promotion) + 1 \in 1 .. Len(promotion') /\ promotion'[Len(promotion) + 1] = k[2]
            BY <1>0, <5>1
          <5> QED BY <5>2 DEF Ids
        <4>2. CASE ~IsNew(k)
          <5>1. kid[k].row # 0 => kid[k].row \in Ids(k[2])
            BY <1>0, <1>2 DEF KidInv, Owns, Ids, UpsertPromotion
          <5>2. Ids(k[2]) # {}
            BY <4>2, <5>1 DEF IsNew
          <5> QED BY <2>3, <5>2, IdsKept
        <4> QED BY <4>1, <4>2
      <3>5. KidInv(k)'
        BY <3>1, <3>2, <3>3, <3>4 DEF KidInv, Owns
      <3> QED BY <2>2, <2>3, <3>1, <3>5, KidMoves
    <2> QED BY <1>0, <1>2, <2>4, <2>5, UpsertEffect
  <1> QED BY <1>1, <1>2

\* The goroutines of a task's promotions begin.
LEMMA SpawnKeeps ==
  ASSUME Types, PromotionsInv, NEW r \in Run, Spawn(r)
  PROVE  PromotionsInv'
  <1>1. UNCHANGED <<promotion, link, visible>>
    BY DEF Spawn, tables
  <1>2. Kept
    BY <1>1, KeptIfSame
  <1>3. ASSUME NEW k \in Run \X Offer PROVE KidInv(k)'
    <2>1. CASE k[1] # r
      <3>1. kid'[k] = kid[k]
        BY <2>1 DEF Spawn
      <3> QED BY <1>1, <1>2, <3>1, KidFrame DEF PromotionsInv, Others
    <2>2. CASE k[1] = r
      <3>1. kid[k] \in KidType /\ kid'[k] = [kid[k] EXCEPT !.pc = "fetch"]
        BY <2>2 DEF Spawn, Types, TypeOK, KidType, KidPc
      <3>2. kid'[k].pc = "fetch" /\ kid'[k].promotion = kid[k].promotion /\ kid'[k].todo = kid[k].todo
        BY <3>1 DEF KidType
      <3>3. kid[k].pc = "new" /\ KidInv(k)
        <4>1. k[2] \in Offer /\ k = <<r, k[2]>>
          BY <2>2
        <4> QED BY <4>1 DEF Spawn, PromotionsInv
      <3>4. LinksOnce(k)'
        BY <1>1, <3>2, <3>3, LinksOnceKept DEF KidInv, Before
      <3>5. Ids(k[2])' # {}
        BY <1>2, <3>3, IdsKept DEF KidInv
      <3> QED BY <1>1, <3>2, <3>3, <3>4, <3>5 DEF KidInv, Owns
    <2> QED BY <2>1, <2>2
  <1> QED BY <1>1, <1>2, <1>3, LinksFrame DEF PromotionsInv

\* A goroutine gets its list, links a PLID of it, and commits.
LEMMA KidKeeps ==
  ASSUME Types, PromotionsInv, NEW k \in Run \X Offer, Kid(k)
  PROVE  PromotionsInv'
  <1>0. /\ TypeOK /\ KidInv(k) /\ kid[k] \in KidType /\ LinksBelong
        /\ link \in Seq(LinkRow)
    BY DEF Types, TypeOK, PromotionsInv, KidType, KidPc
  <1>1. CASE FetchPLIDs(k)
    <2>1. UNCHANGED <<promotion, link, visible>>
      BY <1>1 DEF FetchPLIDs, tables
    <2>2. /\ kid'[k].promotion = kid[k].promotion
          /\ \/ kid'[k].pc = "quit" /\ kid'[k].todo = kid[k].todo
             \/ /\ kid'[k].pc = IF OnPromotion[k[2]] = {} THEN "end" ELSE "link"
                /\ kid'[k].todo = OnPromotion[k[2]]
          /\ \A j \in Run \X Offer : j # k => kid'[j] = kid[j]
      <3> DEFINE x == [kid[k] EXCEPT !.pc = IF OnPromotion[k[2]] = {} THEN "end" ELSE "link",
                                     !.todo = OnPromotion[k[2]]]
                 y == [kid[k] EXCEPT !.pc = "quit"]
      <3>1. /\ x.promotion = kid[k].promotion /\ x.todo = OnPromotion[k[2]]
            /\ x.pc = IF OnPromotion[k[2]] = {} THEN "end" ELSE "link"
            /\ y.promotion = kid[k].promotion /\ y.todo = kid[k].todo /\ y.pc = "quit"
        BY <1>0 DEF KidType
      <3>2. kid' = [kid EXCEPT ![k] = x] \/ kid' = [kid EXCEPT ![k] = y]
        BY <1>1 DEF FetchPLIDs
      <3>3. kid \in [Run \X Offer -> KidType]
        BY <1>0 DEF TypeOK, KidType, KidPc
      <3> HIDE DEF x, y
      <3> QED BY <3>1, <3>2, <3>3
    <2>3. KidInv(k)'
      <3>1. LinksOnce(k)'
        BY <1>0, <1>1, <2>1, <2>2, LinksOnceKept DEF KidInv, FetchPLIDs, Before
      <3>2. kid[k].pc = "fetch" /\ Ids(k[2])' = Ids(k[2])
        BY <1>1, <2>1 DEF FetchPLIDs, Ids
      <3> QED BY <1>0, <2>1, <2>2, <3>1, <3>2 DEF KidInv, Owns
    <2> QED BY <2>1, <2>2, <2>3, KeptIfSame, KidMoves
  <1>2. ASSUME NEW p \in kid[k].todo, CreateLink(k, p) PROVE PromotionsInv'
    <2>1. /\ link' = Append(link, Record(k, p)) /\ kid[k].pc = "link"
          /\ UNCHANGED <<promotion, visible>>
      BY <1>2 DEF CreateLink, Record
    <2>2. Record(k, p) \in LinkRow
      BY <1>0 DEF Record, KidType, LinkRow
    <2>3. /\ Len(link') = Len(link) + 1 /\ Len(link) \in Nat
          /\ link'[Len(link) + 1] = Record(k, p)
          /\ \A l \in 1 .. Len(link) : l \in 1 .. Len(link') /\ link'[l] = link[l]
      BY <1>0, <2>1, <2>2
    <2>4. Kept
      BY <2>1, <2>3 DEF Kept
    <2>5. /\ kid'[k].promotion = kid[k].promotion /\ kid'[k].pc = "commit"
          /\ kid'[k].row = Len(link) + 1 /\ kid'[k].todo = kid[k].todo \ {p}
          /\ \A j \in Run \X Offer : j # k => kid'[j] = kid[j]
      BY <1>0, <1>2 DEF CreateLink, TypeOK, KidType
    <2>6. KidInv(k)'
      <3>1. ASSUME NEW q \in OnPromotion[k[2]] \ kid'[k].todo PROVE Linked(k, q)'
        <4>1. CASE q = p
          BY <2>3, <2>5, <4>1 DEF Linked, Record
        <4>2. CASE q # p
          <5>1. PICK l \in visible["link"] : link[l] = Record(k, q)
            BY <1>0, <2>1, <2>5, <4>2 DEF KidInv, Linked
          <5>2. l \in 1 .. Len(link)
            BY <1>0 DEF TypeOK
          <5> QED BY <2>1, <2>3, <2>5, <5>1, <5>2 DEF Linked, Record
        <4> QED BY <4>1, <4>2
      <3>2. LinksOnce(k)'
        <4>1. LinksOnce(k) /\ Record(k, p).plid = p
          BY <1>0 DEF KidInv, Record
        <4>2. ASSUME NEW l \in 1 .. Len(link'), link'[l].by = k
              PROVE  /\ kid'[k].pc \notin Before /\ link'[l].plid \notin kid'[k].todo
                     /\ \/ l = Len(link) + 1
                        \/ l \in 1 .. Len(link) /\ link[l].by = k /\ link'[l] = link[l] /\ link[l].plid # p
          <5>1. l \in 1 .. Len(link) \/ l = Len(link) + 1
            BY <2>3
          <5>2. CASE l \in 1 .. Len(link)
            BY <2>3, <2>5, <4>1, <4>2, <5>2 DEF LinksOnce, Before
          <5>3. CASE l = Len(link) + 1
            BY <2>3, <2>5, <4>1, <5>3 DEF Before
          <5> QED BY <5>1, <5>2, <5>3
        <4>3. ASSUME NEW l \in 1 .. Len(link'), NEW m \in 1 .. Len(link'),
                     link'[l].by = k, link'[m].by = k, link'[l].plid = link'[m].plid
              PROVE  l = m
          <5>1. CASE l \in 1 .. Len(link) /\ m \in 1 .. Len(link)
            BY <2>3, <4>1, <4>3, <5>1 DEF LinksOnce
          <5>2. CASE l = Len(link) + 1 /\ m = Len(link) + 1
            BY <5>2
          <5>3. CASE (l = Len(link) + 1) # (m = Len(link) + 1)
            <6>1. link'[Len(link) + 1].plid = p
              BY <2>3, <4>1
            <6> QED BY <2>3, <4>2, <4>3, <5>3, <6>1
          <5> QED BY <2>3, <5>1, <5>2, <5>3
        <4> QED BY <4>2, <4>3 DEF LinksOnce
      <3>3. Ids(k[2])' # {}
        BY <1>0, <2>1, <2>4, IdsKept DEF KidInv
      <3> QED BY <1>0, <2>1, <2>5, <3>1, <3>2, <3>3 DEF KidInv, Owns
    <2>7. LinksBelong'
      <3>1. ASSUME NEW l \in 1 .. Len(link')
            PROVE  /\ link'[l].plid \in OnPromotion[link'[l].by[2]]
                   /\ Ids(link'[l].by[2]) # {}
                   /\ link'[l].promotion \in Ids(link'[l].by[2]) \cup {0}
        <4>1. CASE l \in 1 .. Len(link)
          BY <1>0, <2>3, <4>1 DEF LinksBelong
        <4>2. CASE l = Len(link) + 1
          <5>1. link'[l].promotion = kid[k].promotion /\ link'[l].plid = p /\ link'[l].by = k
            BY <2>3, <4>2 DEF Record
          <5>2. p \in OnPromotion[k[2]] /\ Ids(k[2]) # {}
            BY <1>0, <2>1 DEF KidInv
          <5>3. kid[k].promotion \in Ids(k[2]) \cup {0}
            BY <1>0 DEF KidInv, Owns, Ids
          <5> QED BY <5>1, <5>2, <5>3
        <4> QED BY <2>3, <4>1, <4>2
      <3>2. \A o : Ids(o)' = Ids(o)
        BY <2>1 DEF Ids
      <3> QED BY <3>1, <3>2 DEF LinksBelong
    <2>8. ASSUME NEW j \in Run \X Offer, j # k PROVE KidInv(j)'
      <3>1. Others(j)
        <4>1. link'[Len(link) + 1].by = k
          BY <2>3 DEF Record
        <4> QED BY <2>3, <2>8, <4>1 DEF Others
      <3> QED BY <2>4, <2>5, <2>8, <3>1, KidFrame DEF PromotionsInv
    <2> QED BY <2>6, <2>7, <2>8 DEF PromotionsInv
  <1>3. CASE CommitLink(k)
    <2>1. PICK ok \in BOOLEAN, stored \in BOOLEAN :
            /\ ok => stored
            /\ visible' = IF stored THEN [visible EXCEPT !["link"] = @ \cup {kid[k].row}]
                                    ELSE visible
            /\ kid' = [kid EXCEPT ![k] =
                         [kid[k] EXCEPT !.pc = IF ok THEN AfterLink(k) ELSE "quit"]]
      BY <1>3 DEF CommitLink
    <2>2. UNCHANGED <<promotion, link>> /\ kid[k].pc = "commit"
      BY <1>3 DEF CommitLink
    <2>3. visible["link"] \subseteq visible'["link"] /\ (ok => kid[k].row \in visible'["link"])
      BY <1>0, <2>1 DEF TypeOK, Table
    <2>4. /\ kid'[k].promotion = kid[k].promotion /\ kid'[k].todo = kid[k].todo
          /\ kid'[k].pc = IF ok THEN AfterLink(k) ELSE "quit"
          /\ \A j \in Run \X Offer : j # k => kid'[j] = kid[j]
      BY <1>0, <2>1 DEF TypeOK, KidType
    <2>5. KidInv(k)'
      <3>1. ASSUME ok, NEW q \in OnPromotion[k[2]] \ kid[k].todo PROVE Linked(k, q)'
        <4>1. Linked(k, q)
          BY <1>0, <2>2, <3>1 DEF KidInv
        <4>2. Record(k, q)' = Record(k, q)
          BY <2>4 DEF Record
        <4> QED BY <2>2, <2>3, <3>1, <4>1, <4>2 DEF Linked
      <3>2. LinksOnce(k)'
        BY <1>0, <2>2, <2>4, LinksOnceKept DEF KidInv, AfterLink, Before
      <3>3. Ids(k[2])' = Ids(k[2])
        BY <2>2 DEF Ids
      <3> QED BY <1>0, <2>2, <2>4, <3>1, <3>2, <3>3 DEF KidInv, Owns, AfterLink
    <2> QED BY <2>2, <2>3, <2>4, <2>5, KeptIfSame, KidMoves
  <1> QED BY <1>1, <1>2, <1>3 DEF Kid

\* Every step keeps the links' invariant.
LEMMA PromotionsStep == Types /\ PromotionsInv /\ [Next]_vars => PromotionsInv'
  <1> SUFFICES ASSUME Types, PromotionsInv, [Next]_vars PROVE PromotionsInv'
    OBVIOUS
  <1>1. ASSUME UNCHANGED <<promotion, link, kid>>, visible["link"] \subseteq visible'["link"]
        PROVE  PromotionsInv'
    BY <1>1, KeptIfSame, OthersMove
  <1>2. CASE Handlers
    <2>1. UNCHANGED <<promotion, link, kid>>
      BY <1>2 DEF Handlers, NewProduct, NewBrand, Commit
    <2>2. visible["link"] \subseteq visible'["link"]
      BY <1>2 DEF Handlers, NewProduct, NewBrand, Commit, Types, TypeOK, Table
    <2> QED BY <1>1, <2>1, <2>2
  <1>3. ASSUME NEW r \in Run, NEW k \in Kinds, Start(r, k) PROVE PromotionsInv'
    BY <1>1, <1>3 DEF Start, tables
  <1>4. ASSUME NEW r \in Run, Task(r) PROVE PromotionsInv'
    <2>1. CASE Spawn(r)
      BY <2>1, SpawnKeeps
    <2>2. ASSUME NEW o \in Offer, FindPromotion(<<r, o>>) \/ UpsertPromotion(<<r, o>>)
          PROVE  PromotionsInv'
      <3>1. <<r, o>> \in Run \X Offer
        OBVIOUS
      <3> QED BY <2>2, <3>1, UpsertKeeps
    <2>3. CASE UNCHANGED <<promotion, link, kid, visible>>
      BY <1>1, <2>3
    <2> QED BY <1>4, <2>1, <2>2, <2>3
        DEF Task, ReadPage, NextPage, PublishProduct, PublishBrand, Submit, FindDeal, ReadLinks,
            ReadProducts, NextLinks, FetchPromotions, Submitted, Collected, StopPool, Receive, tables
  <1>5. ASSUME NEW r \in Run, Worker(r) PROVE PromotionsInv'
    BY <1>1, <1>5 DEF Worker, TakeJob, Clean, tables
  <1>6. ASSUME NEW k \in Run \X Offer, Kid(k) PROVE PromotionsInv'
    BY <1>6, KidKeeps
  <1>7. CASE UNCHANGED vars
    BY <1>1, <1>7 DEF vars, tables
  <1> QED BY <1>2, <1>3, <1>4, <1>5, <1>6, <1>7 DEF Next

(* A link is of a PLID on the offer it was made for, whose row is stored,    *)
(* and of that row or of ID 0, whatever runs race for it                    *)
(* (promotion.go:97-121, scheduled_task_handler.go:129-150).                *)
THEOREM LinksAlwaysBelong == Spec => []LinksBelong
  <1> DEFINE IInv == Types /\ PromotionsInv
  <1>1. Init => IInv
    BY InitTypes, PromotionsInit
  <1>2. IInv /\ [Next]_vars => IInv'
    BY TypesStep, PromotionsStep
  <1>3. IInv => LinksBelong
    BY DEF PromotionsInv
  <1> QED BY <1>1, <1>2, <1>3, PTL DEF Spec

(* A promotion's goroutine links no PLID twice, and has linked every one     *)
(* when it ends without an error, whatever the others link                  *)
(* (scheduled_task_handler.go:138-149).                                     *)
THEOREM PromotionsAreLinked == Spec => []PromotionsLinked
  <1> DEFINE IInv == Types /\ PromotionsInv
  <1>1. Init => IInv
    BY InitTypes, PromotionsInit
  <1>2. IInv /\ [Next]_vars => IInv'
    BY TypesStep, PromotionsStep
  <1>3. IInv => PromotionsLinked
    <2> SUFFICES ASSUME IInv, NEW k \in Run \X Offer
                 PROVE  /\ \A p \in Plid : \A l, m \in LinksBy(k, p) : l = m
                        /\ kid[k].pc = "end" => \A p \in OnPromotion[k[2]] :
                              \E l \in LinksBy(k, p) \cap visible["link"] :
                                 link[l].promotion = kid[k].promotion
      BY DEF PromotionsLinked
    <2>1. KidInv(k) /\ visible["link"] \subseteq 1 .. Len(link)
      BY DEF PromotionsInv, Types, TypeOK
    <2>2. ASSUME NEW p \in Plid, NEW l \in LinksBy(k, p), NEW m \in LinksBy(k, p) PROVE l = m
      BY <2>1 DEF KidInv, LinksOnce, LinksBy
    <2>3. ASSUME kid[k].pc = "end", NEW p \in OnPromotion[k[2]]
          PROVE  \E l \in LinksBy(k, p) \cap visible["link"] :
                    link[l].promotion = kid[k].promotion
      <3>1. PICK l \in visible["link"] : link[l] = Record(k, p)
        BY <2>1, <2>3 DEF KidInv, Linked
      <3> QED BY <2>1, <3>1 DEF LinksBy, Record
    <2> QED BY <2>2, <2>3
  <1> QED BY <1>1, <1>2, <1>3, PTL DEF Spec
-----------------------------------------------------------------------------
(***************************************************************************)
(* Sweeps come to an end: the safety half of SweepEnds.                    *)
(***************************************************************************)

\* The cursor of a sweep by id is the id of a row, and the OFFSET counts links.
CursorInv(r) ==
    /\ pc[r] = "idle" => page[r] = {} /\ from[r] = 0
    /\ kind[r] = "deals" /\ pc[r] = "deal" => from[r] = 0
    /\ kind[r] \in Keyset =>
          /\ page[r] \subseteq visible[Source(kind[r])]
          /\ from[r] = 0 \/ from[r] \in visible[Source(kind[r])]
    /\ kind[r] = "deals" =>
          /\ from[r] <= Cardinality(LinksOf(deal[r]))
          /\ pc[r] \in {"products", "sweep"} =>
                /\ Cardinality(links[r]) \in Nat
                /\ from[r] + Cardinality(links[r]) <= Cardinality(LinksOf(deal[r]))

\* No page is read again: behind a page that is done, the cursor has moved on.
CursorMoves(r) ==
    /\ from[r] <= from'[r]
    /\ pc[r] \in {"sweep", "stop"} /\ pc'[r] \in {"read", "links"} => from[r] < from'[r]

CursorInTable ==
    \A r \in Run :
        /\ kind[r] \in Keyset => from[r] = 0 \/ from[r] \in visible[Source(kind[r])]
        /\ kind[r] = "deals" => from[r] <= Cardinality(LinksOf(deal[r]))

\* The links of a promotion are finitely many, and do not become fewer.
LEMMA LinksAreFinite ==
  ASSUME TypeOK, NEW d
  PROVE  IsFiniteSet(LinksOf(d)) /\ Cardinality(LinksOf(d)) \in Nat
  <1>1. IsFiniteSet(visible["link"]) /\ LinksOf(d) \subseteq visible["link"]
    BY VisibleIds DEF Table, LinksOf
  <1> QED BY <1>1, FS_Subset, FS_CardinalityType

LEMMA LinksGrow ==
  ASSUME TypeOK, TypeOK', Grows, NEW d
  PROVE  /\ Cardinality(LinksOf(d)) \in Nat /\ Cardinality(LinksOf(d)') \in Nat
         /\ Cardinality(LinksOf(d)) <= Cardinality(LinksOf(d)')
  <1>1. LinksOf(d) \subseteq LinksOf(d)'
    BY DEF LinksOf, Grows, Table
  <1>2. IsFiniteSet(LinksOf(d)')
    <2>1. Len(link') \in Nat
      BY DEF TypeOK
    <2>2. IsFiniteSet(1 .. Len(link'))
      BY <2>1, FS_Interval
    <2>3. LinksOf(d)' \subseteq 1 .. Len(link')
      BY DEF TypeOK, LinksOf
    <2> QED BY <2>2, <2>3, FS_Subset
  <1> QED BY <1>1, <1>2, FS_Subset, FS_CardinalityType

\* Steps that turn no page.
LEMMA CursorKeeps ==
  ASSUME TypeOK, TypeOK', Grows, NEW r \in Run, CursorInv(r),
         kind'[r] = kind[r], from'[r] = from[r], page'[r] = page[r], deal'[r] = deal[r],
         links'[r] = links[r],
         pc'[r] \in {"idle", "deal"} => pc'[r] = pc[r],
         kind[r] = "deals" /\ pc'[r] \in {"products", "sweep"} => pc[r] \in {"products", "sweep"}
  PROVE  CursorInv(r)'
  <1> DEFINE n == Cardinality(LinksOf(deal[r]))
             m == Cardinality(LinksOf(deal[r])')
  <1>1. n \in Nat /\ m \in Nat /\ n <= m
    <2>1. PICK d : d = deal[r]
      OBVIOUS
    <2>2. /\ Cardinality(LinksOf(d)) \in Nat /\ Cardinality(LinksOf(d)') \in Nat
          /\ Cardinality(LinksOf(d)) <= Cardinality(LinksOf(d)')
      BY LinksGrow
    <2>3. LinksOf(deal[r])' = LinksOf(d)'
      BY <2>1 DEF LinksOf
    <2> QED BY <2>1, <2>2, <2>3
  <1>2. from[r] \in Nat
    BY DEF TypeOK
  <1>3. visible[Source(kind[r])] \subseteq visible'[Source(kind[r])] /\ Source(kind[r])' = Source(kind[r])
    BY SourceTable DEF Grows, Source
  <1>4. ASSUME kind[r] = "deals"
        PROVE  /\ from[r] <= m
               /\ pc'[r] \in {"products", "sweep"} =>
                     /\ Cardinality(links[r]) \in Nat
                     /\ from[r] + Cardinality(links[r]) <= m
    <2>1. from[r] <= n
      BY <1>4 DEF CursorInv
    <2>2. ASSUME pc'[r] \in {"products", "sweep"}
          PROVE  Cardinality(links[r]) \in Nat /\ from[r] + Cardinality(links[r]) <= m
      <3>1. Cardinality(links[r]) \in Nat /\ from[r] + Cardinality(links[r]) <= n
        BY <1>4, <2>2 DEF CursorInv
      <3> QED BY <1>1, <1>2, <3>1
    <2> QED BY <1>1, <1>2, <2>1, <2>2
  <1> QED BY <1>3, <1>4 DEF CursorInv

LEMMA CursorInit == ASSUME Init, NEW r \in Run PROVE CursorInv(r)
  BY DEF Init, CursorInv

LEMMA CursorStart ==
  ASSUME TypeOK, NEW r \in Run, CursorInv(r), NEW k \in Kinds, Start(r, k)
  PROVE  CursorInv(r)' /\ CursorMoves(r)
  <1>1. /\ pc[r] = "idle" /\ kind'[r] = k /\ page[r] = {} /\ from[r] = 0
        /\ pc'[r] \in {"fetch", "deal", "read"} /\ UNCHANGED <<tables, from, page, deal, links>>
    BY OfferAssumption DEF Start, Goto, TypeOK, CursorInv
  <1>2. Cardinality(LinksOf(deal[r])) \in Nat /\ LinksOf(deal[r])' = LinksOf(deal[r])
    BY <1>1, LinksAreFinite DEF LinksOf, tables
  <1> QED BY <1>1, <1>2 DEF CursorInv, CursorMoves

\* The next page of ids lies behind the cursor.
LEMMA CursorAdvance ==
  ASSUME TypeOK, NEW r \in Run, SweepInv(r), CursorInv(r), Advance(r), kind[r] \in Keyset,
         pc[r] \in {"sweep", "stop"}, UNCHANGED <<tables, kind, page, deal, links>>
  PROVE  CursorInv(r)' /\ CursorMoves(r)
  <1>1. PICK i \in page[r] : from' = [from EXCEPT ![r] = i]
    BY DEF Advance
  <1>2. from'[r] = i /\ pc'[r] = "read" /\ kind[r] # "deals" /\ from[r] \in Nat /\ i \in Nat
    BY <1>1 DEF Advance, Goto, TypeOK, Keyset
  <1>3. from[r] < i
    BY DEF SweepInv, Once
  <1>4. i \in visible[Source(kind[r])] /\ page[r] \subseteq visible[Source(kind[r])]
    BY DEF CursorInv
  <1>5. from[r] <= from'[r] /\ from[r] < from'[r]
    BY <1>2, <1>3
  <1> QED BY <1>2, <1>4, <1>5 DEF CursorInv, CursorMoves, Source, tables

\* A page of links lies behind those that were read.
LEMMA WindowFits ==
  ASSUME NEW L, IsFiniteSet(L), NEW k \in Nat, k <= Cardinality(L), NEW n \in Nat, NEW P,
         Window(P, L, k, n)
  PROVE  Cardinality(P) \in Nat /\ k + Cardinality(P) <= Cardinality(L)
  <1>1. PICK N \in SUBSET L : Newest(N, L, k) /\ Newest(P, L \ N, n)
    BY DEF Window
  <1>2. IsFiniteSet(N) /\ IsFiniteSet(P) /\ P \subseteq L \ N
    BY <1>1, FS_Subset DEF Newest
  <1>3. Cardinality(N) \in Nat /\ Cardinality(P) \in Nat /\ Cardinality(L) \in Nat
    BY <1>2, FS_CardinalityType
  <1>4. Cardinality(N) = k
    BY <1>1, <1>3 DEF Newest
  <1>5. Cardinality(N \cup P) = Cardinality(N) + Cardinality(P)
    <2>1. N \cap P = {}
      BY <1>2
    <2>2. Cardinality(N \cap P) = 0
      BY <2>1, FS_EmptySet
    <2>3. Cardinality(N \cup P) = Cardinality(N) + Cardinality(P) - Cardinality(N \cap P)
      BY <1>2, FS_Union
    <2> QED BY <1>3, <2>2, <2>3
  <1>6. Cardinality(N \cup P) <= Cardinality(L)
    BY <1>2, FS_Subset
  <1> QED BY <1>3, <1>4, <1>5, <1>6

LEMMA CursorReadLinks ==
  ASSUME TypeOK, NEW r \in Run, SweepInv(r), CursorInv(r), ReadLinks(r)
  PROVE  CursorInv(r)' /\ CursorMoves(r)
  <1> DEFINE L == LinksOf(deal[r])
             n == Size[kind[r]]
  <1>1. pc[r] = "links" /\ kind[r] = "deals" /\ pc'[r] = "products"
        /\ UNCHANGED <<tables, kind, from, page, deal>>
    BY DEF ReadLinks, SweepInv, Places, TypeOK, Kind, Goto
  <1>2. PICK P : /\ links' = [links EXCEPT ![r] = P]
                 /\ P = {} \/ Window(P, L, from[r], n)
    BY DEF ReadLinks
  <1>3. links'[r] = P
    BY <1>2 DEF TypeOK
  <1>4. /\ IsFiniteSet(L) /\ Cardinality(L) \in Nat /\ from[r] \in Nat /\ from[r] <= Cardinality(L)
        /\ n \in Nat
    <2>1. IsFiniteSet(L) /\ Cardinality(L) \in Nat
      BY LinksAreFinite
    <2>2. from[r] \in Nat /\ n \in Nat
      BY SizeAssumption DEF TypeOK
    <2> QED BY <1>1, <2>1, <2>2 DEF CursorInv
  <1>5. Cardinality(P) \in Nat /\ from[r] + Cardinality(P) <= Cardinality(L)
    <2>1. CASE P = {}
      BY <1>4, <2>1, FS_EmptySet
    <2>2. CASE Window(P, L, from[r], n)
      <3> HIDE DEF L, n
      <3> QED BY <1>4, <2>2, WindowFits
    <2> QED BY <1>2, <2>1, <2>2
  <1>6. LinksOf(deal[r])' = L
    BY <1>1 DEF LinksOf, tables
  <1> QED BY <1>1, <1>3, <1>4, <1>5, <1>6 DEF CursorInv, CursorMoves, Keyset

LEMMA CursorNextLinks ==
  ASSUME TypeOK, NEW r \in Run, CursorInv(r), NextLinks(r)
  PROVE  CursorInv(r)' /\ CursorMoves(r)
  <1> DEFINE n == Size[kind[r]]
             c == Cardinality(links[r])
             m == Cardinality(LinksOf(deal[r]))
  <1>1. pc[r] = "sweep" /\ kind[r] = "deals" /\ UNCHANGED <<tables, kind, page, deal, links>>
    BY DEF NextLinks
  <1>2. n \in Nat /\ n > 0 /\ from[r] \in Nat /\ c \in Nat /\ m \in Nat /\ from[r] + c <= m
    <2>1. m \in Nat
      BY LinksAreFinite
    <2>2. n \in Nat /\ n > 0 /\ from[r] \in Nat
      BY SizeAssumption DEF TypeOK
    <2>3. c \in Nat /\ from[r] + c <= m
      BY <1>1 DEF CursorInv
    <2> QED BY <2>1, <2>2, <2>3
  <1>3. LinksOf(deal[r])' = LinksOf(deal[r])
    BY <1>1 DEF LinksOf, tables
  <1>4. CASE c < n
    <2>1. pc'[r] = "end" /\ from'[r] = from[r]
      BY <1>4 DEF NextLinks, Goto, TypeOK
    <2> QED BY <1>1, <1>2, <1>3, <2>1 DEF CursorInv, CursorMoves, Keyset
  <1>5. CASE ~(c < n)
    <2>1. pc'[r] = "links" /\ from'[r] = from[r] + n
      BY <1>5 DEF NextLinks, Goto, TypeOK
    <2>2. from[r] + n <= m /\ from[r] <= from'[r] /\ from[r] < from'[r]
      BY <1>2, <1>5, <2>1
    <2> QED BY <1>1, <1>3, <2>1, <2>2 DEF CursorInv, CursorMoves, Keyset
  <1> QED BY <1>4, <1>5

LEMMA CursorFindDeal ==
  ASSUME TypeOK, NEW r \in Run, SweepInv(r), CursorInv(r), FindDeal(r)
  PROVE  CursorInv(r)' /\ CursorMoves(r)
  <1>1. pc[r] = "deal" /\ kind[r] = "deals" /\ from[r] = 0 /\ pc'[r] \in {"quit", "links"}
        /\ UNCHANGED <<tables, kind, from, page, links>>
    BY DEF FindDeal, SweepInv, Places, TypeOK, Kind, Goto, CursorInv
  <1>2. Cardinality(LinksOf(deal[r])') \in Nat
    <2>1. PICK d : d = deal'[r]
      OBVIOUS
    <2>2. LinksOf(deal[r])' = LinksOf(d)
      BY <1>1, <2>1 DEF LinksOf, tables
    <2> QED BY <2>2, LinksAreFinite
  <1> QED BY <1>1, <1>2 DEF CursorInv, CursorMoves, Keyset

LEMMA CursorReadPage ==
  ASSUME TypeOK, NEW r \in Run, SweepInv(r), CursorInv(r), ReadPage(r)
  PROVE  CursorInv(r)' /\ CursorMoves(r)
  <1>1. pc[r] = "read" /\ kind[r] \in Keyset /\ kind[r] # "deals" /\ pc'[r] \in {"end", "sweep"}
        /\ UNCHANGED <<tables, kind, from, deal, links>>
    BY DEF ReadPage, SweepInv, Places, TypeOK, Kind, Keyset, Goto
  <1>2. page'[r] \subseteq visible[Source(kind[r])]
    BY DEF ReadPage, TypeOK
  <1>3. from[r] \in Nat
    BY DEF TypeOK
  <1> QED BY <1>1, <1>2, <1>3 DEF CursorInv, CursorMoves, Source, tables

\* The calls that turn no page.
LEMMA CursorOther ==
  ASSUME TypeOK, TypeOK', Grows, NEW r \in Run, SweepInv(r), CursorInv(r), Task(r) \/ Worker(r),
         ~ReadPage(r), ~NextPage(r), ~StopPool(r), ~FindDeal(r), ~ReadLinks(r), ~NextLinks(r)
  PROVE  CursorInv(r)' /\ CursorMoves(r)
  <1>1. /\ kind'[r] = kind[r] /\ from'[r] = from[r] /\ page'[r] = page[r]
        /\ deal'[r] = deal[r] /\ links'[r] = links[r]
    <2>1. ASSUME NEW o \in Offer, FindPromotion(<<r, o>>) \/ UpsertPromotion(<<r, o>>)
          PROVE  UNCHANGED paging
      BY <2>1, UpsertSame
    <2> QED BY <2>1 DEF Task, Worker, ReadProducts, PublishProduct, PublishBrand, Submit, Submitted,
               Collected, Receive, FetchPromotions, Spawn, TakeJob, Clean, paging
  <1>2. /\ pc'[r] \in {"idle", "deal"} => pc'[r] = pc[r]
        /\ kind[r] = "deals" /\ pc'[r] \in {"products", "sweep"} => pc[r] \in {"products", "sweep"}
        /\ pc[r] \in {"sweep", "stop"} => pc'[r] \notin {"read", "links"}
    <2>1. ASSUME NEW o \in Offer, FindPromotion(<<r, o>>) \/ UpsertPromotion(<<r, o>>)
          PROVE  pc' = pc \/ Goto(r, "quit")
      BY <2>1, UpsertSame
    <2> QED BY <2>1 DEF Task, Worker, ReadProducts, PublishProduct, PublishBrand, Submit, Submitted,
               Collected, Receive, FetchPromotions, Spawn, TakeJob, Clean, Goto, TypeOK
  <1>3. from[r] \in Nat
    BY DEF TypeOK
  <1>4. CursorInv(r)'
    BY <1>1, <1>2, CursorKeeps
  <1> QED BY <1>1, <1>2, <1>3, <1>4 DEF CursorMoves

LEMMA CursorStep ==
  ASSUME Types, [Next]_vars, NEW r \in Run, SweepInv(r), CursorInv(r)
  PROVE  CursorInv(r)' /\ CursorMoves(r)
  <1>0. TypeOK /\ TypeOK' /\ Grows
    BY TypesStep, GrowsStep DEF Types
  <1>1. CASE Same(r)
    <2>1. CursorInv(r)'
      BY <1>0, <1>1, CursorKeeps DEF Same
    <2>2. from[r] \in Nat
      BY <1>0 DEF TypeOK
    <2> QED BY <1>1, <2>1, <2>2 DEF Same, CursorMoves
  <1>2. ASSUME NEW k \in Kinds, Start(r, k) PROVE CursorInv(r)' /\ CursorMoves(r)
    BY <1>0, <1>2, CursorStart
  <1>3. CASE NextPage(r) \/ StopPool(r)
    <2>1. kind[r] \in Keyset /\ pc[r] \in {"sweep", "stop"} /\ Advance(r)
          /\ UNCHANGED <<tables, kind, page, deal, links>>
      BY <1>3 DEF NextPage, StopPool, SweepInv, Places, Keyset
    <2> QED BY <1>0, <2>1, CursorAdvance
  <1>4. CASE Task(r) \/ Worker(r)
    BY <1>0, <1>3, <1>4, CursorReadPage, CursorFindDeal, CursorReadLinks, CursorNextLinks, CursorOther
  <1> QED BY <1>0, <1>1, <1>2, <1>4, StartSame, TaskSame, WorkerSame, OtherSame DEF Next

(* A page that is done is not read again, and the cursor is the id of a row *)
(* or counts links: a task turns no more pages than the table has rows      *)
(* (scheduled_task_handler.go:62-85, 155-190, 203-227, 240-263).            *)
THEOREM SweepsAdvance ==
  Spec => []CursorInTable /\ [][\A r \in Run : CursorMoves(r)]_vars
  <1> DEFINE IInv == Types /\ \A r \in Run : SweepInv(r) /\ CursorInv(r)
  <1>1. Init => IInv
    BY InitTypes, SweepInit, CursorInit
  <1>2. IInv /\ [Next]_vars => IInv' /\ \A r \in Run : CursorMoves(r)
    BY TypesStep, SweepStep, CursorStep
  <1>3. IInv => CursorInTable
    BY DEF CursorInTable, CursorInv
  <1> QED BY <1>1, <1>2, <1>3, PTL DEF Spec
===============================================================================
