----------------------------- MODULE ProductSweep -----------------------------
(***************************************************************************)
(* What the goroutines of the scheduled tasks do                           *)
(* (takealot/queue/scheduled_task_handler.go:58-267): sweeps over the      *)
(* products and the brands by id, over the links of the daily deals by     *)
(* OFFSET, the promotions and their links, and the clean-up of all         *)
(* prices by a pool of workers.                                            *)
(*                                                                         *)
(* The tables change under a sweep.  A row's id is its place in the table, *)
(* given by the INSERT; others see it from the COMMIT on, which may come   *)
(* later than that of a row with a greater id.  The handlers of new        *)
(* products insert products and brands, other runs promotions and links.   *)
(* Nothing depends on the order within a page, so it is left out.          *)
(***************************************************************************)
EXTENDS Integers, Sequences, FiniteSets

CONSTANTS
    Run,            \* goroutines, one for each task that is started
    Kinds,          \* the tasks that may be started
    Plid,           \* product-line ids
    Offer,          \* promotions of the API
    DailyDeals,     \* those displayed as "Daily Deals"
    OnPromotion,    \* the PLIDs of each of them
    Size,           \* rows of a task's pages (1000; 100 for the daily deals)
    PoolSize,       \* workers of the clean-up's pool (5)
    Faults,         \* the failures that may happen
    MaxProducts,    \* bounds of tables
    MaxBrands

Keyset == {"prices", "brands", "cleanup"}    \* tasks that page by id
Kind   == Keyset \cup {"promotions", "deals"}
Table  == {"product", "brand", "link"}

\* "read"    a SELECT fails: no rows
\* "publish" nsqd refuses a message
\* "api"     Takealot does not answer
\* "commit"  Commit returns an error, its row stored or not
AllFaults == {"read", "publish", "api", "commit"}

ASSUME SizeAssumption ==
    /\ Size \in [Kind -> Nat \ {0}]
    /\ PoolSize \in Nat \ {0}
    /\ MaxProducts \in Nat
    /\ MaxBrands \in Nat

ASSUME OfferAssumption ==
    /\ Kinds \subseteq Kind
    /\ DailyDeals \subseteq Offer
    /\ OnPromotion \in [Offer -> SUBSET Plid]
    /\ Faults \subseteq AllFaults

VARIABLES
    product,        \* table: the PLID of each product
    brands,         \* table: how many brands were inserted
    promotion,      \* table: the offer of each promotion
    link,           \* table: promotion and PLID of each link; history: the kid it is by
    visible,        \* ids of the committed rows
    pc,             \* run: its next call
    kind,           \* run: its task
    from,           \* run: greaterThanID, or the OFFSET of the page of links
    page,           \* run: the ids of the page at hand
    rest,           \* run: those of them it has not come to
    deal,           \* run: the promotion whose links it reads
    links,          \* run: the page of links at hand
    queue,          \* clean-up: products submitted to the pool
    working,        \* clean-up: those a worker cleans
    sending,        \* clean-up: those whose worker waits for its answer to be received
    left,           \* clean-up: answers the task has yet to receive
    kid,            \* createPromotionProducts: a goroutine per run and offer
    there,          \* history: what a run is about when it begins, or is committed ahead of it
    swept,          \* history: what it has published or cleaned
    blind           \* history: a SELECT of the run has failed

tables == <<product, brands, promotion, link, visible>>
paging == <<kind, from, page, rest, deal, links>>
pool   == <<queue, working, sending, left>>
vars   == <<tables, pc, paging, pool, kid, there, swept, blind>>

NoKid  == [pc |-> "none", promotion |-> 0, todo |-> {}, row |-> 0]

Source(k) == IF k = "brands" THEN "brand" ELSE "product"
UnknownBrand == 1

Init ==
    /\ product = <<>>
    /\ brands = UnknownBrand
    /\ promotion = <<>>
    /\ link = <<>>
    /\ visible = [t \in Table |-> IF t = "brand" THEN {UnknownBrand} ELSE {}]
    /\ pc = [r \in Run |-> "idle"]
    /\ kind = [r \in Run |-> "prices"]
    /\ from = [r \in Run |-> 0]
    /\ page = [r \in Run |-> {}]
    /\ rest = [r \in Run |-> {}]
    /\ deal = [r \in Run |-> 0]
    /\ links = [r \in Run |-> {}]
    /\ queue = [r \in Run |-> {}]
    /\ working = [r \in Run |-> {}]
    /\ sending = [r \in Run |-> {}]
    /\ left = [r \in Run |-> 0]
    /\ kid = [k \in Run \X Offer |-> NoKid]
    /\ there = [r \in Run |-> {}]
    /\ swept = [r \in Run |-> {}]
    /\ blind = [r \in Run |-> FALSE]

Goto(r, p) == pc' = [pc EXCEPT ![r] = p]
-----------------------------------------------------------------------------
(***************************************************************************)
(* The handlers of new products.                                           *)
(***************************************************************************)

NewProduct(p) ==
    /\ Len(product) < MaxProducts
    /\ \A i \in 1 .. Len(product) : product[i] # p
    /\ product' = Append(product, p)
    /\ UNCHANGED <<brands, promotion, link, visible, pc, paging, pool, kid, there, swept, blind>>

NewBrand ==
    /\ brands < MaxBrands
    /\ brands' = brands + 1
    /\ UNCHANGED <<product, promotion, link, visible, pc, paging, pool, kid, there, swept, blind>>

\* The run pages by id and has not come to the place of the row.
Ahead(r, t, i) ==
    /\ kind[r] \in Keyset /\ Source(kind[r]) = t
    /\ pc[r] \in {"read", "sweep", "collect", "stop"}
    /\ \A j \in page[r] \cup {from[r]} : j < i

\* The transaction that inserted the row ends; a row that is rolled back never does.
Commit(t, i) ==
    /\ t # "link"
    /\ i \in 1 .. (IF t = "product" THEN Len(product) ELSE brands)
    /\ i \notin visible[t]
    /\ visible' = [visible EXCEPT ![t] = @ \cup {i}]
    /\ there' = [r \in Run |-> IF Ahead(r, t, i) THEN there[r] \cup {i} ELSE there[r]]
    /\ UNCHANGED <<product, brands, promotion, link, pc, paging, pool, kid, swept, blind>>
-----------------------------------------------------------------------------
(***************************************************************************)
(* Pages.                                                                  *)
(***************************************************************************)

\* ORDER BY id LIMIT n
Oldest(P, S, n) ==
    /\ P \subseteq S
    /\ Cardinality(P) <= n
    /\ Cardinality(P) < n => P = S
    /\ \A i \in P, j \in S \ P : i < j

\* ORDER BY id DESC LIMIT n
Newest(P, S, n) ==
    /\ P \subseteq S
    /\ Cardinality(P) <= n
    /\ Cardinality(P) < n => P = S
    /\ \A i \in P, j \in S \ P : j < i

\* ORDER BY id DESC LIMIT n OFFSET k
Window(P, S, k, n) == \E Q \in SUBSET S : Newest(Q, S, k) /\ Newest(P, S \ Q, n)

Start(r, k) ==
    /\ pc[r] = "idle"
    /\ kind' = [kind EXCEPT ![r] = k]
    /\ Goto(r, IF k = "promotions" THEN "fetch" ELSE IF k = "deals" THEN "deal" ELSE "read")
    /\ there' = [there EXCEPT ![r] =
          IF k \in Keyset
          THEN visible[Source(k)] \ (IF k = "brands" THEN {UnknownBrand} ELSE {})
          ELSE {}]
    /\ UNCHANGED <<tables, from, page, rest, deal, links, pool, kid, swept, blind>>

\* FindProducts and FindBrands; an empty page ends the task.
ReadPage(r) ==
    /\ pc[r] = "read"
    /\ \E P \in SUBSET visible[Source(kind[r])], failed \in BOOLEAN :
          /\ IF failed THEN "read" \in Faults /\ P = {}
                       ELSE Oldest(P, {i \in visible[Source(kind[r])] : i > from[r]}, Size[kind[r]])
          /\ page' = [page EXCEPT ![r] = P]
          /\ rest' = [rest EXCEPT ![r] = P]
          /\ blind' = [blind EXCEPT ![r] = @ \/ failed]
          /\ Goto(r, IF P = {} THEN "end" ELSE "sweep")
    /\ UNCHANGED <<tables, kind, from, deal, links, pool, kid, there, swept>>

\* A product's PLID is published; the task gives up if it cannot be.
PublishProduct(r, i) ==
    /\ pc[r] = "sweep" /\ kind[r] \in {"prices", "deals"} /\ i \in rest[r]
    /\ \/ /\ swept' = [swept EXCEPT ![r] = @ \cup {i}]
          /\ rest' = [rest EXCEPT ![r] = @ \ {i}]
          /\ UNCHANGED pc
       \/ "publish" \in Faults /\ Goto(r, "quit") /\ UNCHANGED <<swept, rest>>
    /\ UNCHANGED <<tables, kind, from, page, deal, links, pool, kid, there, blind>>

\* A brand's PLIDs are fetched and published; those nsqd refuses are only logged.
PublishBrand(r, i) ==
    /\ pc[r] = "sweep" /\ kind[r] = "brands" /\ i \in rest[r]
    /\ \/ /\ swept' = [swept EXCEPT ![r] = @ \cup {i}]
          /\ rest' = [rest EXCEPT ![r] = @ \ {i}]
          /\ UNCHANGED pc
       \/ "api" \in Faults /\ i # UnknownBrand /\ Goto(r, "quit") /\ UNCHANGED <<swept, rest>>
    /\ UNCHANGED <<tables, kind, from, page, deal, links, pool, kid, there, blind>>

\* Mutant: the last row of a page is read again.
Advance_Again(r) ==
    /\ \E i \in page[r] : (\A j \in page[r] : j <= i) /\ from' = [from EXCEPT ![r] = i - 1]
    /\ Goto(r, "read")

\* greaterThanID becomes the last id of the page.
Advance(r) ==
    /\ \E i \in page[r] : (\A j \in page[r] : j <= i) /\ from' = [from EXCEPT ![r] = i]
    /\ Goto(r, "read")

NextPage(r) ==
    /\ pc[r] = "sweep" /\ kind[r] \in {"prices", "brands"} /\ rest[r] = {}
    /\ Advance(r)
    /\ UNCHANGED <<tables, kind, page, rest, deal, links, pool, kid, there, swept, blind>>
-----------------------------------------------------------------------------
(***************************************************************************)
(* The daily deals.                                                        *)
(***************************************************************************)

Deals == {d \in 1 .. Len(promotion) : promotion[d] \in DailyDeals}

\* Visible links of the promotion, visible products of some links.
LinksOf(d)     == {l \in visible["link"] : link[l].promotion = d}
ProductsOf(ls) == {i \in visible["product"] : \E l \in ls : link[l].plid = product[i]}

\* FindLatestDailyDealPromotion
FindDeal(r) ==
    /\ pc[r] = "deal"
    /\ \/ /\ Deals = {} \/ "read" \in Faults
          /\ Goto(r, "quit")
          /\ UNCHANGED <<deal, there>>
       \/ \E d \in Deals :
             /\ \A e \in Deals : e <= d
             /\ deal' = [deal EXCEPT ![r] = d]
             /\ there' = [there EXCEPT ![r] = ProductsOf(LinksOf(d))]
             /\ Goto(r, "links")
    /\ UNCHANGED <<tables, kind, from, page, rest, links, pool, kid, swept, blind>>

\* FindProductPLIDsByPromotion
ReadLinks(r) ==
    /\ pc[r] = "links"
    /\ \E P \in SUBSET LinksOf(deal[r]), failed \in BOOLEAN :
          /\ IF failed THEN "read" \in Faults /\ P = {}
                       ELSE Window(P, LinksOf(deal[r]), from[r], Size[kind[r]])
          /\ links' = [links EXCEPT ![r] = P]
          /\ blind' = [blind EXCEPT ![r] = @ \/ failed]
    /\ Goto(r, "products")
    /\ UNCHANGED <<tables, kind, from, page, rest, deal, pool, kid, there, swept>>

\* FindProductsByPromotion
ReadProducts(r) ==
    /\ pc[r] = "products"
    /\ \/ rest' = [rest EXCEPT ![r] = ProductsOf(links[r])] /\ UNCHANGED blind
       \/ /\ "read" \in Faults
          /\ rest' = [rest EXCEPT ![r] = {}]
          /\ blind' = [blind EXCEPT ![r] = TRUE]
    /\ Goto(r, "sweep")
    /\ UNCHANGED <<tables, kind, from, page, deal, links, pool, kid, there, swept>>

\* Mutant: the last page is told by its products, not by its links.
NextLinks_Products(r) ==
    /\ pc[r] = "sweep" /\ kind[r] = "deals" /\ rest[r] = {}
    /\ IF Cardinality(ProductsOf(links[r])) < Size[kind[r]]
       THEN Goto(r, "end") /\ UNCHANGED from
       ELSE Goto(r, "links") /\ from' = [from EXCEPT ![r] = @ + Size[kind[r]]]
    /\ UNCHANGED <<tables, kind, page, rest, deal, links, pool, kid, there, swept, blind>>

\* Mutant: turns the pages backwards.
NextLinks_Back(r) ==
    /\ pc[r] = "sweep" /\ kind[r] = "deals" /\ rest[r] = {}
    /\ IF Cardinality(links[r]) < Size[kind[r]]
       THEN Goto(r, "end") /\ UNCHANGED from
       ELSE Goto(r, "links") /\ from' = [from EXCEPT ![r] = @ - Size[kind[r]]]
    /\ UNCHANGED <<tables, kind, page, rest, deal, links, pool, kid, there, swept, blind>>

\* A page of links that is not full is the last one.
NextLinks(r) ==
    /\ pc[r] = "sweep" /\ kind[r] = "deals" /\ rest[r] = {}
    /\ IF Cardinality(links[r]) < Size[kind[r]]
       THEN Goto(r, "end") /\ UNCHANGED from
       ELSE Goto(r, "links") /\ from' = [from EXCEPT ![r] = @ + Size[kind[r]]]
    /\ UNCHANGED <<tables, kind, page, rest, deal, links, pool, kid, there, swept, blind>>
-----------------------------------------------------------------------------
(***************************************************************************)
(* The promotions and their links.                                         *)
(***************************************************************************)

FetchPromotions(r) ==
    /\ pc[r] = "fetch"
    /\ Goto(r, "upsert") \/ ("api" \in Faults /\ Goto(r, "quit"))
    /\ UNCHANGED <<tables, paging, pool, kid, there, swept, blind>>

Ids(o) == {i \in 1 .. Len(promotion) : promotion[i] = o}

\* UpsertPromotionModel: the SELECT ...
FindPromotion(k) ==
    /\ pc[k[1]] = "upsert" /\ kid[k].pc = "none"
    /\ \A x \in Offer : kid[<<k[1], x>>].pc # "create"
    /\ \E i \in 0 .. Len(promotion) :
          /\ i \in Ids(k[2]) \/ (i = 0 /\ (Ids(k[2]) = {} \/ "read" \in Faults))
          /\ kid' = [kid EXCEPT ![k] = [NoKid EXCEPT !.pc = "create", !.row = i]]
    /\ UNCHANGED <<tables, pc, paging, pool, there, swept, blind>>

\* There is no row of the offer; a duplicate key leaves the model's ID 0.
IsNew(k) == kid[k].row = 0 /\ Ids(k[2]) = {}
ModelId(k) == IF IsNew(k) THEN Len(promotion) + 1 ELSE kid[k].row

\* Mutant: the error of Commit is not looked at.
UpsertPromotion_Unchecked(k) ==
    /\ pc[k[1]] = "upsert" /\ kid[k].pc = "create"
    /\ \E ok \in BOOLEAN, stored \in BOOLEAN :
          /\ ok \/ "commit" \in Faults
          /\ ok => stored
          /\ promotion' = IF IsNew(k) /\ stored THEN Append(promotion, k[2]) ELSE promotion
          /\ kid' = [kid EXCEPT ![k] = [NoKid EXCEPT !.pc = "new", !.promotion = ModelId(k)]]
    /\ UNCHANGED <<product, brands, link, visible, pc, paging, pool, there, swept, blind>>

\* ... and the INSERT and Commit.
UpsertPromotion(k) ==
    /\ pc[k[1]] = "upsert" /\ kid[k].pc = "create"
    /\ \E ok \in BOOLEAN, stored \in BOOLEAN :
          /\ ok \/ "commit" \in Faults
          /\ ok => stored
          /\ promotion' = IF IsNew(k) /\ stored THEN Append(promotion, k[2]) ELSE promotion
          /\ IF ok
             THEN /\ kid' = [kid EXCEPT ![k] =
                               [NoKid EXCEPT !.pc = "new", !.promotion = ModelId(k)]]
                  /\ UNCHANGED pc
             ELSE /\ kid' = [kid EXCEPT ![k] = NoKid]
                  /\ Goto(k[1], "quit")
    /\ UNCHANGED <<product, brands, link, visible, paging, pool, there, swept, blind>>

\* go task.createPromotionProducts(promotionModel)
Spawn(r) ==
    /\ pc[r] = "upsert"
    /\ \A o \in Offer : kid[<<r, o>>].pc = "new"
    /\ kid' = [k \in Run \X Offer |-> IF k[1] = r THEN [kid[k] EXCEPT !.pc = "fetch"]
                                               ELSE kid[k]]
    /\ Goto(r, "end")
    /\ UNCHANGED <<tables, paging, pool, there, swept, blind>>

FetchPLIDs(k) ==
    /\ kid[k].pc = "fetch"
    /\ \/ kid' = [kid EXCEPT ![k] =
                     [kid[k] EXCEPT !.pc = IF OnPromotion[k[2]] = {} THEN "end" ELSE "link",
                               !.todo = OnPromotion[k[2]]]]
       \/ "api" \in Faults /\ kid' = [kid EXCEPT ![k] = [kid[k] EXCEPT !.pc = "quit"]]
    /\ UNCHANGED <<tables, pc, paging, pool, there, swept, blind>>

\* The PLID is published or not, which is only logged, and its link inserted,
\* whether there is one already or not.
CreateLink(k, p) ==
    /\ kid[k].pc = "link" /\ p \in kid[k].todo
    /\ link' = Append(link, [promotion |-> kid[k].promotion, plid |-> p, by |-> k])
    /\ kid' = [kid EXCEPT ![k] =
                  [kid[k] EXCEPT !.pc = "commit", !.row = Len(link) + 1, !.todo = kid[k].todo \ {p}]]
    /\ UNCHANGED <<product, brands, promotion, visible, pc, paging, pool, there, swept, blind>>

AfterLink(k) == IF kid[k].todo = {} THEN "end" ELSE "link"

\* Mutant: goes on after a failing Commit.
CommitLink_Unchecked(k) ==
    /\ kid[k].pc = "commit"
    /\ \E ok \in BOOLEAN, stored \in BOOLEAN :
          /\ ok \/ "commit" \in Faults
          /\ ok => stored
          /\ visible' = IF stored THEN [visible EXCEPT !["link"] = @ \cup {kid[k].row}]
                                  ELSE visible
          /\ kid' = [kid EXCEPT ![k] = [kid[k] EXCEPT !.pc = AfterLink(k)]]
    /\ UNCHANGED <<product, brands, promotion, link, pc, paging, pool, there, swept, blind>>

CommitLink(k) ==
    /\ kid[k].pc = "commit"
    /\ \E ok \in BOOLEAN, stored \in BOOLEAN :
          /\ ok \/ "commit" \in Faults
          /\ ok => stored
          /\ visible' = IF stored THEN [visible EXCEPT !["link"] = @ \cup {kid[k].row}]
                                  ELSE visible
          /\ kid' = [kid EXCEPT ![k] = [kid[k] EXCEPT !.pc = IF ok THEN AfterLink(k) ELSE "quit"]]
    /\ UNCHANGED <<product, brands, promotion, link, pc, paging, pool, there, swept, blind>>
-----------------------------------------------------------------------------
(***************************************************************************)
(* The clean-up.  A worker that has cleaned a product waits until its      *)
(* answer is received, as errChan has no buffer.                           *)
(***************************************************************************)

Submit(r, i) ==
    /\ pc[r] = "sweep" /\ kind[r] = "cleanup" /\ i \in rest[r]
    /\ rest' = [rest EXCEPT ![r] = @ \ {i}]
    /\ queue' = [queue EXCEPT ![r] = @ \cup {i}]
    /\ UNCHANGED <<tables, pc, kind, from, page, deal, links, working, sending, left>>
    /\ UNCHANGED <<kid, there, swept, blind>>

\* Mutant: waits for an answer too many.
Submitted_More(r) ==
    /\ pc[r] = "sweep" /\ kind[r] = "cleanup" /\ rest[r] = {}
    /\ left' = [left EXCEPT ![r] = Cardinality(page[r]) + 1]
    /\ Goto(r, "collect")
    /\ UNCHANGED <<tables, paging, queue, working, sending, kid, there, swept, blind>>

Submitted(r) ==
    /\ pc[r] = "sweep" /\ kind[r] = "cleanup" /\ rest[r] = {}
    /\ left' = [left EXCEPT ![r] = Cardinality(page[r])]
    /\ Goto(r, "collect")
    /\ UNCHANGED <<tables, paging, queue, working, sending, kid, there, swept, blind>>

TakeJob(r, i) ==
    /\ i \in queue[r]
    /\ Cardinality(working[r] \cup sending[r]) < PoolSize
    /\ queue' = [queue EXCEPT ![r] = @ \ {i}]
    /\ working' = [working EXCEPT ![r] = @ \cup {i}]
    /\ UNCHANGED <<tables, pc, paging, sending, left, kid, there, swept, blind>>

\* RemoveProductDuplicatePrices, see PriceHistory; an error is an answer too.
Clean(r, i) ==
    /\ i \in working[r]
    /\ swept' = [swept EXCEPT ![r] = @ \cup {i}]
    /\ working' = [working EXCEPT ![r] = @ \ {i}]
    /\ sending' = [sending EXCEPT ![r] = @ \cup {i}]
    /\ UNCHANGED <<tables, pc, paging, queue, left, kid, there, blind>>

Receive(r, i) ==
    /\ pc[r] = "collect" /\ left[r] > 0 /\ i \in sending[r]
    /\ sending' = [sending EXCEPT ![r] = @ \ {i}]
    /\ left' = [left EXCEPT ![r] = @ - 1]
    /\ UNCHANGED <<tables, pc, paging, queue, working, kid, there, swept, blind>>

Collected(r) ==
    /\ pc[r] = "collect" /\ left[r] = 0
    /\ Goto(r, "stop")
    /\ UNCHANGED <<tables, paging, pool, kid, there, swept, blind>>

\* pool.Stop waits for what is running and drops what is queued.
StopPool(r) ==
    /\ pc[r] = "stop" /\ working[r] = {} /\ sending[r] = {}
    /\ queue' = [queue EXCEPT ![r] = {}]
    /\ Advance(r)
    /\ UNCHANGED <<tables, kind, page, rest, deal, links, working, sending, left>>
    /\ UNCHANGED <<kid, there, swept, blind>>
-----------------------------------------------------------------------------
Handlers ==
    \/ \E p \in Plid : NewProduct(p)
    \/ NewBrand
    \/ \E t \in Table : \E i \in 1 .. (Len(product) + brands) : Commit(t, i)

Task(r) ==
    \/ ReadPage(r) \/ NextPage(r)
    \/ \E i \in rest[r] : PublishProduct(r, i) \/ PublishBrand(r, i) \/ Submit(r, i)
    \/ FindDeal(r) \/ ReadLinks(r) \/ ReadProducts(r) \/ NextLinks(r)
    \/ FetchPromotions(r) \/ Spawn(r)
    \/ \E o \in Offer : FindPromotion(<<r, o>>) \/ UpsertPromotion(<<r, o>>)
    \/ Submitted(r) \/ Collected(r) \/ StopPool(r)
    \/ \E i \in sending[r] : Receive(r, i)

Worker(r) ==
    \/ \E i \in queue[r] : TakeJob(r, i)
    \/ \E i \in working[r] : Clean(r, i)

Kid(k) ==
    \/ FetchPLIDs(k)
    \/ \E p \in kid[k].todo : CreateLink(k, p)
    \/ CommitLink(k)

Next ==
    \/ Handlers
    \/ \E r \in Run :
          \/ \E k \in Kinds : Start(r, k)
          \/ Task(r)
          \/ Worker(r)
    \/ \E k \in Run \X Offer : Kid(k)

Spec == Init /\ [][Next]_vars

\* Go lets every goroutine run that can; nothing is promised of the handlers.
Fairness ==
    /\ \A r \in Run : WF_vars(Task(r)) /\ WF_vars(Worker(r))
    /\ \A k \in Run \X Offer : WF_vars(Kid(k))

FairSpec == Spec /\ Fairness
-----------------------------------------------------------------------------
(***************************************************************************)
(* Properties.                                                             *)
(***************************************************************************)

LinkRow == [promotion : Nat, plid : Plid, by : Run \X Offer]

TypeOK ==
    /\ product \in Seq(Plid)
    /\ brands \in Nat
    /\ promotion \in Seq(Offer)
    /\ link \in Seq(LinkRow)
    /\ visible \in [Table -> SUBSET Nat]
    /\ visible["product"] \subseteq 1 .. Len(product)
    /\ visible["brand"] \subseteq 1 .. brands
    /\ visible["link"] \subseteq 1 .. Len(link)
    /\ pc \in [Run -> {"idle", "read", "sweep", "deal", "links", "products", "fetch",
                       "upsert", "collect", "stop", "end", "quit"}]
    /\ kind \in [Run -> Kind]
    /\ from \in [Run -> Nat]
    /\ page \in [Run -> SUBSET Nat]
    /\ rest \in [Run -> SUBSET Nat]
    /\ deal \in [Run -> Nat]
    /\ links \in [Run -> SUBSET Nat]
    /\ queue \in [Run -> SUBSET Nat]
    /\ working \in [Run -> SUBSET Nat]
    /\ sending \in [Run -> SUBSET Nat]
    /\ left \in [Run -> Nat]
    /\ kid \in [Run \X Offer -> [pc : {"none", "create", "new", "fetch", "link", "commit",
                                       "end", "quit"},
                                 promotion : Nat, todo : SUBSET Plid, row : Nat]]
    /\ there \in [Run -> SUBSET Nat]
    /\ swept \in [Run -> SUBSET Nat]
    /\ blind \in [Run -> BOOLEAN]

\* A task that ran to its end has come to every product, brand or daily deal
\* that was there when it began, and to every row committed meanwhile whose id
\* its cursor had not come to, unless a SELECT of its own failed
\* (scheduled_task_handler.go:65-83, 159-191, 207-227, 241-264).
LeavesNoneOut ==
    \A r \in Run : pc[r] = "end" /\ ~blind[r] => there[r] \subseteq swept[r]

\* A sweep by id does not come to a row twice, so that no task publishes a
\* product again or has it cleaned by two workers (:82, 190, 262).
SweptOnce ==
    \A r \in Run : kind[r] \in Keyset => (rest[r] \cup queue[r]) \cap swept[r] = {}

\* A link is of a PLID on the offer it was made for, whose row is stored, and of
\* that row or of ID 0: that one's run lost the race for the row, or could not
\* read it (promotion.go:107, :144).
LinksBelong ==
    \A l \in 1 .. Len(link) :
        LET o == link[l].by[2]
        IN  /\ link[l].plid \in OnPromotion[o]
            /\ Ids(o) # {}
            /\ link[l].promotion \in Ids(o) \cup {0}

LinksBy(k, p) == {l \in 1 .. Len(link) : link[l].by = k /\ link[l].plid = p}

\* createPromotionProducts links no PLID twice, so that a promotion has a copy of
\* a link for each run at most, and has linked every PLID when it ends without an
\* error (:121-124, 138-149).
PromotionsLinked ==
    \A k \in Run \X Offer :
        /\ \A p \in Plid : \A l, m \in LinksBy(k, p) : l = m
        /\ kid[k].pc = "end" => \A p \in OnPromotion[k[2]] :
              \E l \in LinksBy(k, p) \cap visible["link"] : link[l].promotion = kid[k].promotion

\* Every task that is started ends, with its pool and its channel, though the
\* tables grow meanwhile (:65, 159, 207, 241, 253-260).
SweepEnds == \A r \in Run : pc[r] # "idle" ~> pc[r] \in {"end", "quit"}
===============================================================================
