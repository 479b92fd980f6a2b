---------------------------- MODULE PromotionPages ----------------------------
(***************************************************************************)
(* The gateway's paged lists (gateway/rest/handler.go): all promotions, the *)
(* products of one, and those of the newest daily deals.  Pages are cut by *)
(* OFFSET from the newest row backwards, each with SELECTs of its own and  *)
(* an entry of its own in Redis, while promotions, links and products are  *)
(* inserted.  A user walks through them from the first page to the one     *)
(* that says it is the last.                                               *)
(*                                                                         *)
(* A behaviour is about one of the three lists.  The messages of a page's  *)
(* products are built as in GatewayCache; here they are the products.      *)
(***************************************************************************)
EXTENDS Integers, Sequences, FiniteSets

CONSTANTS
    Request,        \* users, each with a goroutine of the HTTP server
    Clients,        \* those that ask for each list
    Item,           \* PLIDs on promotions, or promotions
    Size,           \* rows of a page (12 in the code)
    MaxPromotions,  \* bound of the daily-deal promotions
    MaxListed,        \* bound of the rows that are inserted, for each list
    None,           \* no such entry
    MaxFailures     \* bound of the SELECTs and calls of Redis that fail

Kinds     == {"all", "promotion", "deals"}
Promotion == 1 .. MaxPromotions

ASSUME PagesAssumption ==
    /\ Size \in Nat \ {0}
    /\ Clients \in [Kinds -> SUBSET Request]
    /\ MaxPromotions \in Nat \ {0}
    /\ MaxListed \in [Kinds -> Nat]
    /\ MaxFailures \in Nat

VARIABLES
    kind,           \* the list that is asked for
    newest,         \* table: the last promotion of daily deals, or of the request
    list,           \* tables: the rows of each list in the order of their ids
    inserted,       \* how many rows that is
    stored,         \* table: the PLIDs that have a product
    cache,          \* Redis: the entry of each page
    at,             \* request: its next call
    page,           \* request: pageReq
    answer,         \* request: what it has read, and answers
    walk,           \* history: the user's walk through the pages
    failures        \* failures so far

tables    == <<kind, newest, list, inserted, stored>>
pagesVars == <<tables, cache, at, page, answer, walk, failures>>

\* Items shown, the promotion, IsLastPage, LastPageNumber; the others are history:
\* the moment of the SELECT of the page, how many rows the list had and what stood
\* behind the page, how many rows came before its COUNT, and whether no SELECT failed.
NoAnswer == [items |-> {}, of |-> 0, last |-> FALSE, pages |-> 0,
             asof |-> 0, rows |-> 0, rest |-> {}, came |-> 0, clean |-> TRUE]

\* What was there when the walk began, what it has shown, and whether its pages
\* were read one after the other from one list, the last of them at asof; if not,
\* the rest is forgotten.
NoWalk == [due |-> {}, of |-> 0, seen |-> {}, asof |-> 0, orderly |-> FALSE]

Number  == 0 .. MaxListed[kind] \div Size      \* pageReq

InitPages ==
    /\ kind \in Kinds
    /\ newest = IF kind = "all" THEN 1 ELSE 0
    /\ list = [d \in Promotion |-> <<>>] /\ inserted = 0
    /\ stored = {}
    /\ cache = [n \in Number |-> None]
    /\ at = [r \in Request |-> "idle"]
    /\ page = [r \in Request |-> 0]
    /\ answer = [r \in Request |-> NoAnswer]
    /\ walk = [r \in Request |-> NoWalk]
    /\ failures = 0

Goto(r, p) == at' = [at EXCEPT ![r] = p]

Failure == failures < MaxFailures /\ failures' = failures + 1

\* The products of a promotion's rows that exist; promotions themselves do.
Existing(S) == IF kind = "all" THEN S ELSE S \cap stored

\* What is on the list of a promotion.
Listed(d) == UNION {{list[e][k] : k \in DOMAIN list[e]} : e \in Promotion \cap {d}}

\* Tables only grow: this tells their states apart, and orders them.
Moment == newest + inserted + Cardinality(stored)
-----------------------------------------------------------------------------
(***************************************************************************)
(* What the tasks and the new-product handlers insert.                     *)
(***************************************************************************)

Promote ==
    /\ kind # "all"
    /\ newest < (IF kind = "deals" THEN MaxPromotions ELSE 1)
    /\ newest' = newest + 1
    /\ UNCHANGED <<kind, list, inserted, stored, cache, at, page, answer, walk, failures>>

\* A row is seen from its COMMIT on: others with greater ids may be there.
Insert(d, i) ==
    /\ d <= newest
    /\ inserted < MaxListed[kind]
    /\ \E k \in 0 .. Len(list[d]) :
          list' = [list EXCEPT ![d] = SubSeq(@, 1, k) \o <<i>> \o SubSeq(@, k + 1, Len(@))]
    /\ inserted' = inserted + 1
    /\ UNCHANGED <<kind, newest, stored, cache, at, page, answer, walk, failures>>

\* A link may be there before its product (product_promotion_link.go:20).
StoreProduct(i) ==
    /\ kind # "all" /\ i \notin stored
    /\ stored' = stored \cup {i}
    /\ UNCHANGED <<kind, newest, list, inserted, cache, at, page, answer, walk, failures>>

Expire(n) ==
    /\ cache[n] # None
    /\ cache' = [cache EXCEPT ![n] = None]
    /\ UNCHANGED <<tables, at, page, answer, walk, failures>>
-----------------------------------------------------------------------------
(***************************************************************************)
(* A user's walk: the first page, and the next while it is not the last.   *)
(***************************************************************************)

Begin(r) ==
    /\ at[r] = "idle" /\ r \in Clients[kind]
    /\ walk' = [walk EXCEPT ![r] =
          [due |-> Existing(Listed(newest)), of |-> newest,
           seen |-> {}, asof |-> Moment, orderly |-> TRUE]]
    /\ Goto(r, "get")
    /\ UNCHANGED <<tables, cache, page, answer, failures>>

Turn(r) ==
    /\ at[r] = "shown" /\ ~answer[r].last
    /\ page' = [page EXCEPT ![r] = @ + 1]
    /\ answer' = [answer EXCEPT ![r] = NoAnswer]
    /\ Goto(r, "get")
    /\ UNCHANGED <<tables, cache, walk, failures>>

\* The user stops, at the end, before it, or after an error.
Leave(r) ==
    /\ at[r] \in {"shown", "error"}
    /\ Goto(r, "idle")
    /\ page' = [page EXCEPT ![r] = 0]
    /\ answer' = [answer EXCEPT ![r] = NoAnswer]
    /\ walk' = [walk EXCEPT ![r] = NoWalk]
    /\ UNCHANGED <<tables, cache, failures>>

\* The page was read well, from the walk's list, after those before it.
Follows(w, a) == w.orderly /\ a.clean /\ a.of = w.of /\ w.asof <= a.asof

\* sendOK: the user sees a page.
Show(r, a) ==
    /\ Goto(r, "shown")
    /\ answer' = [answer EXCEPT ![r] = a]
    /\ walk' = [walk EXCEPT ![r] =
          IF Follows(walk[r], a)
            THEN [walk[r] EXCEPT !.seen = walk[r].seen \cup a.items, !.asof = a.asof]
            ELSE NoWalk]
-----------------------------------------------------------------------------
(***************************************************************************)
(* The handlers.                                                           *)
(***************************************************************************)

Hit(r) ==
    /\ at[r] = "get" /\ cache[page[r]] # None
    /\ Show(r, cache[page[r]])
    /\ UNCHANGED <<tables, cache, page, failures>>

Miss(r) ==
    /\ at[r] = "get"
    /\ \/ cache[page[r]] = None /\ UNCHANGED failures
       \/ cache[page[r]] # None /\ Failure
    /\ Goto(r, "find")
    /\ UNCHANGED <<tables, cache, page, answer, walk>>

\* FindPromotion, FindLatestDailyDealPromotion: none, or none could be read, is
\* an error.  GetAllPromotions has no such call.
FindPromotion(r) ==
    /\ at[r] = "find"
    /\ \/ /\ newest > 0
          /\ answer' = [answer EXCEPT ![r].of = newest]
          /\ Goto(r, "rows")
          /\ UNCHANGED failures
       \/ /\ \/ newest = 0 /\ UNCHANGED failures
             \/ newest > 0 /\ kind # "all" /\ Failure
          /\ Goto(r, "error")
          /\ UNCHANGED answer
    /\ UNCHANGED <<tables, cache, page, walk>>

\* ORDER BY id DESC LIMIT Size OFFSET n * Size
Window(s, n) ==
    {k \in DOMAIN s : n * Size <= Len(s) - k /\ Len(s) - k < (n + 1) * Size}

\* The rows from page n on.
Beyond(s, n) == {k \in DOMAIN s : n * Size <= Len(s) - k}

\* The SELECT of the page; if it fails there are no rows, and the page is the last.
FindRows(r) ==
    /\ at[r] = "rows"
    /\ \/ /\ LET s == list[answer[r].of]
             IN  answer' = [answer EXCEPT ![r] = [answer[r] EXCEPT
                    !.items = {s[k] : k \in Window(s, page[r])},
                    !.last = Cardinality(Window(s, page[r])) < Size,
                    !.asof = Moment, !.rows = Len(s),
                    !.rest = Existing({s[k] : k \in Beyond(s, page[r] + 1)})]]
          /\ UNCHANGED failures
       \/ /\ Failure
          /\ answer' = [answer EXCEPT ![r] =
                [answer[r] EXCEPT !.last = TRUE, !.clean = FALSE]]
    /\ Goto(r, "count")
    /\ UNCHANGED <<tables, cache, page, walk>>

\* Mutant: the pages that are full.
LastPage_Full(count) == count \div Size

LastPage(count) == count \div Size + 1

\* The SELECT COUNT, on its own.
CountRows(r) ==
    /\ at[r] = "count"
    /\ \/ /\ answer' = [answer EXCEPT ![r] =
                [answer[r] EXCEPT !.pages = LastPage(Len(list[answer[r].of])),
                                  !.came = Len(list[answer[r].of]) - answer[r].rows]]
          /\ UNCHANGED failures
       \/ /\ Failure
          /\ answer' = [answer EXCEPT ![r] =
                [answer[r] EXCEPT !.pages = LastPage(0), !.clean = FALSE]]
    /\ Goto(r, IF kind = "all" THEN "set" ELSE "products")
    /\ UNCHANGED <<tables, cache, page, walk>>

\* Mutant: a page with fewer products than it has room for is the last.
FindProducts_Last(r) ==
    /\ at[r] = "products"
    /\ answer' = [answer EXCEPT ![r] =
          [answer[r] EXCEPT !.items = Existing(answer[r].items),
                            !.last = Cardinality(Existing(answer[r].items)) < Size]]
    /\ Goto(r, "set")
    /\ UNCHANGED <<tables, cache, page, walk, failures>>

\* FindProductsByPromotion's SELECT of the products, and their messages.
FindProducts(r) ==
    /\ at[r] = "products"
    /\ \/ answer' = [answer EXCEPT ![r].items = Existing(answer[r].items)] /\ UNCHANGED failures
       \/ /\ Failure
          /\ answer' = [answer EXCEPT ![r] =
                [answer[r] EXCEPT !.items = {}, !.clean = FALSE]]
    /\ Goto(r, "set")
    /\ UNCHANGED <<tables, cache, page, walk>>

\* redisSet and sendOK.
Set(r) ==
    /\ at[r] = "set"
    /\ \/ cache' = [cache EXCEPT ![page[r]] = answer[r]] /\ UNCHANGED failures
       \/ Failure /\ UNCHANGED cache
    /\ Show(r, answer[r])
    /\ UNCHANGED <<tables, page>>
-----------------------------------------------------------------------------
Handle(r) ==
    \/ Hit(r) \/ Miss(r) \/ FindPromotion(r) \/ FindRows(r)
    \/ CountRows(r) \/ FindProducts(r) \/ Set(r)

NextPages ==
    \/ Promote
    \/ \E i \in Item : StoreProduct(i) \/ \E d \in Promotion : Insert(d, i)
    \/ \E n \in Number : Expire(n)
    \/ \E r \in Request : Begin(r) \/ Turn(r) \/ Leave(r) \/ Handle(r)

PagesSpec == InitPages /\ [][NextPages]_pagesVars
-----------------------------------------------------------------------------
Answer == [items : SUBSET Item, of : {0} \cup Promotion, last : BOOLEAN, pages : Nat,
           asof : Nat, rows : Nat, rest : SUBSET Item, came : Int, clean : BOOLEAN]

\* Pages are numbered from 0 and hold what their columns can; a user never comes
\* to a page beyond the first that is empty, whatever was cached when.
PagesTypeOK ==
    /\ kind \in Kinds
    /\ newest \in 0 .. MaxPromotions
    /\ list \in [Promotion -> Seq(Item)]
    /\ inserted \in 0 .. MaxListed[kind]
    /\ stored \subseteq Item
    /\ cache \in [Number -> Answer \cup {None}]
    /\ at \in [Request -> {"idle", "get", "find", "rows", "count", "products", "set",
                           "shown", "error"}]
    /\ page \in [Request -> Number]
    /\ failures \in 0 .. MaxFailures
    /\ answer \in [Request -> Answer]
    /\ walk \in [Request -> [due : SUBSET Item, of : {0} \cup Promotion, seen : SUBSET Item,
                             asof : Nat, orderly : BOOLEAN]]

\* Who turns the pages up to the last one, cached or not, has seen everything that
\* was on the list and stored when they began, whatever is inserted meanwhile, if
\* no page is of an older state of the tables than the one before, or of another
\* promotion, and no SELECT failed (product_promotion_link.go:24-60).
WalkComplete ==
    \A r \in Request :
        at[r] = "shown" /\ answer[r].last /\ walk[r].orderly => walk[r].due \subseteq walk[r].seen

\* The page numbers agree with IsLastPage: there is a next page unless the page is
\* the last, and of pages behind the last LastPageNumber tells no more than the rows
\* fill that came between the SELECT of the page and its COUNT: none if none came
\* (handler.go:190-210, promotion.go:67-95).
PageNumbers ==
    \A r \in Request :
        LET a == answer[r]
            current == page[r] + 1
        IN  at[r] = "shown" /\ a.clean =>
                IF a.last THEN (a.pages - current - 1) * Size < a.came
                          ELSE current < a.pages
===============================================================================
