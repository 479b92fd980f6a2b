# trak-gateway in TLA+

A verification development of trak-gateway, which follows the prices of
Takealot's products: TLA+ modules of its concurrent parts, configurations with
which TLC checks them on small instances, and theorems that TLAPS proves for
every instance. `src/` below is the repository.

## The system

Three programs share a MariaDB, a Redis, nsqd and a Sonic index.

    gateway  --NewProductQueue-->  worker  --digest queues-->  search
       |                           |    |                        |
    reads MariaDB, asks search     |    +-- Redis leases         +-- Sonic
    over gRPC                      +-- MariaDB, Takealot's API

Several workers run at once; one, the master, also runs the producer that
publishes scheduled tasks and pushes PLIDs (product-line ids) for the crawler.

| Component | State | Operations | Hard because |
|---|---|---|---|
| New-product handlers (`takealot/queue/new_product.go`, `connection/redis.go`) | rows of product, product_image, price, brand, category and their links; one Redis lease per PLID, brand and category; the message in hand | `HandleMessage`: fetch, lock, look up, create, unlock, images, price, brand, categories, digests | many handlers, leases that expire, messages delivered again, errors of INSERTs and SELECTs nobody reads, crashes between any two calls |
| Tables (`takealot/model`) | MariaDB rows | find, upsert, create, page | "find then insert" without a lock of its own; pages over tables that change |
| Price history (`model/price.go`) | price rows of a product | `CreatePrice`, `RemoveProductDuplicatePrices`, latest price | SELECT and DELETE see different states; clean-ups overlap |
| Scheduled task producer (`queue/scheduled_task_producer.go`, `queue/nsq.go`) | scheduled_task and crawler rows, the loop's models | `Run`, `crawlerPublishNewProductTasks`, `publishScheduledTask`, `FirstRun`, `NextRun` | crash or error between publish and update; calendar arithmetic |
| Scheduled task handlers (`queue/scheduled_task_handler.go`) | a goroutine per task | `HandleMessage`, five tasks | the message is finished before its work; tasks overlap; sweeps over changing tables |
| Sonic pools (`search/sonic.go`) | two channels of connections | `Ingest`, `IngestBulk`, `Query`, `Suggest`, `keepAlive`, `Quit` | `keepAlive` and `Quit` take all of a pool one by one |
| Digests and queries (`search/search.go`, `search/grpc.go`) | the index | three digest handlers, three gRPC searches | eventual consistency with MariaDB |
| Worker (`apps/worker/takealot/main.go`) | consumers and connections | start, stop | databases are closed under running handlers |
| Gateway (`gateway/rest`, `gateway/builder`, `apps/gateway`) | a cache of answers (10 minutes), metrics | REST queries, paged lists, `AddProduct`, statistics | nothing invalidates the cache; messages built in goroutines; pages by OFFSET of several SELECTs over growing tables; a PLID goes through a site, the tables and the queue before the user is told |
| Gateway's gRPC client (`gateway/grpc`, `gateway/response`) | a connection | three searches, error mapping | errors and their HTTP answers |
| Takealot's API (`takealot/api`) | none | HTTP and JSON | an answer is given or fails |
| Configuration, metrics, profiles, test fixtures | none that changes | | |

What makes each correct:

- handlers: no two create the same row; nothing refers to a row that is not
  there; a delivery more or less changes nothing but prices; every task is
  settled; a product that exists is complete and announced to the index;
- price history: only duplicates are removed, never below the limit, and the
  latest price stays;
- producer: a slot is published again only by a crash, none is skipped by failures, a due task is
  published in the end, the crawler leaves no PLID out;
- scheduled task handlers: a message starts its task at most twice, and the
  task runs; a sweep leaves out nothing that was there when it began;
- pools: a connection is used by one goroutine at a time, is replaced when it
  breaks, everyone who asks is served, and `Quit` ends;
- gateway: an answer shows what is stored, and all of what was there when its
  handler missed the cache; every request is answered; the cache comes to agree
  with the tables; who turns the pages of a list sees all of it, and the page
  numbers agree; the statistics are those of the newest prices; a PLID whose user
  was told it is added is not forgotten.

## Modules

| Module | What it is |
|---|---|
| `Catalog` | what the pipeline promises about the tables: rows are created once, links join existing rows and are stored once, only stored rows are announced. No queue, lock or worker. |
| `ProductIngest` | the new-product handlers, nsqd, Redis and the tables in detail |
| `MCProductIngest` | instances of it |
| `ProductIngestProofs` | its theorems |
| `PriceHistory`, `MCPriceHistory`, `PriceHistoryProofs` | the price rows of one product and their clean-up |
| `TaskScheduler`, `MCTaskScheduler`, `MCTasksLive`, `TaskSchedulerProofs` | the producer, the queue of scheduled tasks, its handlers |
| `ProductSweep`, `MCProductSweep`, `ProductSweepProofs` | what the goroutines of the scheduled tasks do, over tables that grow |
| `SonicPool`, `MCSonicPool`, `SonicPoolProofs` | the two pools of one `SonicSearch` |
| `GatewayCache`, `GatewayCacheProofs` | the gateway's queries and their cache, over tables that grow |
| `ProductRequests`, `MCProductRequests`, `ProductRequestsProofs` | how users bring products in: `AddProduct` and the search for a PLID |
| `PromotionPages`, `PromotionPagesProofs` | the paged lists: promotions, the products of one, daily deals |
| `PriceStats` | the statistics of a product, over the histories of `PriceHistory` |
| `MCGateway`, `MCGatewayReads` | instances of two modules each, side by side |

Who builds on whom: `PriceStats` extends `PriceHistory`, `ProductIngest`
implements `Catalog` (`Tables == INSTANCE Catalog WITH ...`), and what
`GatewayCache` takes the new-product handlers to do to the tables is proved of
`ProductIngest` (`Gateway(b) == INSTANCE GatewayCache WITH ...`,
`GatewaySeesTheHandlers`). The other modules meet through what they promise each
other: `ProductRequests` takes from `ProductIngest` that a handled message stores
a product or is tried again, `ProductSweep` and `PriceHistory` are the work of the
goroutines that `TaskScheduler` starts. Two modules of proofs extend an MC module
(`ProductRequestsProofs` `MCGateway`, `PromotionPagesProofs` `MCGatewayReads`), to
speak of both its parts side by side; they use none of its values.

A definition named `X_Y` with the comment "Mutant" is a wrong version of `X`,
used to see that a property notices it; no specification refers to it.

### ProductIngest

One action is one call of a handler to Redis or MariaDB. A handler's `pc` is
its next call; `job`, `pid`, `img`, `todo`, `cur` and `eid` are the message,
`productID`, the images stored so far, the names not linked yet, the name being
linked and the ID its upsert returned.

| Code (`new_product.go`) | Actions |
|---|---|
| 85-95 receive, fetch | `Deliver`, `Fetch`, `FetchFails` |
| 97-101 lock the PLID | `LockProduct` (`Obtain`, `NotObtained`) |
| 103-107 `ProductModelExistsByPLID` | `Exists` |
| `persistProduct`, `UpsertProductModel` | `FindProduct`, `CreateProduct` |
| releases | `UnlockProduct`, `UnlockEntity` (`Release`) |
| `persistImages`, `persistPrice` | `PersistImage`, `ImagesDone`, `PersistPrice` |
| `createBrand`, `createCategories` | `NextEntity`, `LockEntity`, `FindEntity`, `CreateEntity`, `LinkEntity`, `Finish` |
| `publishSonicDigest` in goroutines | `GoDigest`, `SendDigest` |
| go-nsq and nsqd | `Deliver`, `GiveUp`, `Timeout`, `Return` |

Details the code depends on and the model keeps: a failed INSERT leaves its
error in the clone that gorm's `Create` returns, so `Commit` succeeds and the
ID is 0; a SELECT that fails is "no row" for `FirstOrInit`; a `Commit` that
returns an error may have been applied; `Release` removes only the caller's own
lease; nsqd ignores the FIN or REQ of a handler whose message timed out; the
API's failure finishes a message while every other error requeues it. Product
links and brand links have no unique key, brand and category names do, and
their comparison follows the collation (`RowName`).

`Faults` names the failures a run allows: crash, lease (expires under its
holder), busy (five tries in vain), redis (TTL or release fails), commit, read,
publish, timeout.

### PriceHistory

A row's id is its index in `price`. `Select` and `Delete` are the two
statements of `RemoveProductDuplicatePrices` (price.go:34-38, 47); `keep` is
the answer of the first. `AnyRow` chooses whether GROUP BY answers the first
row of a group (what a scan of the product_id index gives, which the
repository's test relies on) or any.

### TaskScheduler

`pc`, `turn`, `stm`, `crawler` and `count` are the producer's place and
variables. The clock `now` and the stored `next` are ticks; `NextRunAt` is
`NextRun` with days and hours as parameters, and `FirstRun` is only known to be
past. The queue hands messages to nodes; `Handle` is `HandleMessage` with its
limit on attempts; a goroutine in `runs` is a task under way, whose work is
the subject of `ProductSweep`. `done` and `lost` are history: the messages whose
run has ended, and those that a crash left without one. `Faults` may hold "push" (a PLID of the crawler
is refused by nsqd), "publish" (a task is), "read", "commit" and "timeout".

### ProductSweep

A run is one goroutine of `scheduled_task_handler.go`; `kind` is its task and
`pc` its next call.

| Code (`scheduled_task_handler.go`) | Actions |
|---|---|
| 40-53 `go task.handle...` | `Start` |
| 58-84 prices, 152-192 brands: pages by id | `ReadPage`, `PublishProduct`, `PublishBrand`, `NextPage` |
| 194-230 daily deals: pages by OFFSET | `FindDeal`, `ReadLinks`, `ReadProducts`, `PublishProduct`, `NextLinks` |
| 86-127 promotions | `FetchPromotions`, `FindPromotion`, `UpsertPromotion`, `Spawn` |
| 129-150 a goroutine per promotion (`kid`) | `FetchPLIDs`, `CreateLink`, `CommitLink` |
| 232-267 clean-up: pool and channel | `ReadPage`, `Submit`, `Submitted`, `TakeJob`, `Clean`, `Receive`, `Collected`, `StopPool` |
| rows inserted by the new-product handlers | `NewProduct`, `NewBrand`, `Commit` |

A row has its id from the INSERT and is in `visible` from the COMMIT on, so a
row with a lower id may appear later than one with a greater id. `there`,
`swept` and `blind` are history: the rows a run is about (those committed when
it began), those it has published or cleaned, and whether one of its SELECTs
failed, which the code cannot tell from an empty page. A row that is committed later
with an id that a sweep's cursor has not come to is added to `there` (`Ahead`); one
behind the cursor is missed, as in the code, until the next run. A link's `by` is
history too: the goroutine that inserted it. A brand's PLIDs are
published in one step and the order within a page is left out, as no property
tells them apart. A process that ends is a run that takes no more steps.

### SonicPool

A pool's channel is `free` plus the FIFO of goroutines waiting on it.
`keepAlive` collects a whole pool, pings each connection and puts it or its
replacement back; `Quit` takes and closes one connection after the other.

### GatewayCache

A behaviour is about one kind of request (`kind`) and one key of the cache.
A request is a goroutine of the HTTP server, `pc` its next call; `child` are the
goroutines of `getProductMessages`.

| Code (`gateway/rest/handler.go`) | Actions |
|---|---|
| 41-58 `redisGet` | `Ask`, `Miss`, `Hit` |
| 687-706 `LatestHandler` | `FindLatest` |
| 555-636 brand, category | `FindBrand`, `FindListed` |
| 638-684 `GetProductById` | `FindProduct` |
| 463-552 `ProductSearch` | `Search`, `Look` |
| 708-735 `getProductMessages`, `gateway/builder` | `BuildMessage`, `Receive`, `Built` |
| 60-71 `redisSet`, `sendOK`, `sendError` | `Set`, `SendError` |
| rows, links, digests | `StoreProduct`, `StorePrice`, `StoreBrand`, `LinkBrand`, `Digest` |
| Redis's expiry | `Age` |

`base` is what there was to answer when a handler missed the cache, `clean`
whether none of its SELECTs failed: the code cannot tell an empty page from a
failed one, and caches both. A message keeps its product and price; of the
builder's other SELECTs only the panic counts that makes a message nil. Pages
other than the first are the subject of `PromotionPages`, statistics that of `PriceStats`.

### ProductRequests

A request is a goroutine of the HTTP server (`at`, `url`, `plid`). A URL is what
`plIDFromURL` sees in it (`Shape`) and the PLID that stands in it (`Named`).

| Code (`gateway/rest/handler.go`) | Actions |
|---|---|
| 73-97, 111-157 `AddProduct`, `plIDFromURL` | `Add`, `Visit` (`Refused`, `Verified`) |
| 463-483 `ProductSearch` for a "PLID..." | `SearchPlid` |
| 485-486, 503-513 known or not | `Exists`, `FindModel` |
| 97-108, 488-500 publish and answer | `Publish`, `Reply` |
| new-product handlers, go-nsq | `Store`, `Ignore`, `Retry` |
| Redis's expiry, the gateway's end | `Expire`, `Crash` |

`plIDFromURL` returns PLID 0 without an error for an answer of the site that is not
2xx and for a last segment without "PLID"; 0 is queued, the user is told OK, and
the handlers end its message. `promised` and `lost` are history: what users were
told is added, and PLIDs whose last message ended without a row.

### PromotionPages

A behaviour is about one list: all promotions, the products of one, or the newest
daily deals. Pages are numbered from 0, as in the code.

| Code | Actions |
|---|---|
| `GetAllPromotions`, `GetPromotion`, `DailyDeals`: redisGet | `Hit`, `Miss` |
| `FindPromotion`, `FindLatestDailyDealPromotion` | `FindPromotion` |
| SELECT by OFFSET, descending (`model/promotion.go`, `model/product_promotion_link.go`) | `FindRows` (`Window`) |
| SELECT COUNT and `LastPageNumber` | `CountRows` (`LastPage`) |
| SELECT of the products, messages | `FindProducts` |
| redisSet, sendOK | `Set` (`Show`) |
| rows of the tasks and handlers | `Promote`, `Insert`, `StoreProduct` |
| Redis's expiry | `Expire` |
| the user: first page, next page, enough | `Begin`, `Turn`, `Leave` |

`walk` and the last fields of an answer are history: what was on the list when
the user began, what the pages have shown, what stood behind a page when it was
read, and how many rows came between the page and the COUNT. A walk is orderly while no page is of an older moment than the one before,
of another promotion, or of a failed SELECT: cached pages of different ages may
leave rows out, as the newer page has moved them to where the older page was already seen.

### PriceStats

`FindProductLatestPrices`, `Chart` (`setChartData`), `Pass` (`setPriceMinMaxMean`)
and `Stats` (`Build`) are operators; a SELECT may come at any moment, so
`StatsHold` is an invariant of all histories that `PriceHistory` reaches. Prices are
numbers of 1/`Unit`, cut off where the code converts to uint32 and rounded where
it rounds. Without prices `MinPrice` is the uint32 of `MaxFloat64`, which Go leaves
to the implementation: nothing is said of it.

## Runs

| Run | Question | Instance |
|---|---|---|
| `ingest_leased` | locks exclude; rows resolve, are stored once and priced; a task that ended at its first delivery leaves a complete product; refinement of `Catalog` | 2 handlers, tasks of 2 products that share a brand, of which one has a category too, 2 deliveries each; crash, commit, timeout |
| `ingest_settles` | `TasksSettle`, `Announced` | 2 handlers, 2 tasks of one product with a brand, 2 deliveries; redis, busy, timeout |
| `ingest_lapse` | what is left when nothing can be relied on: `ResolveOrZero` | 3 tasks, 2 products, a brand in 2 spellings, 1 delivery; lease, read, commit |
| `gateway_reads` | clean-ups delete only duplicates, never below the limit; statistics agree with the history; `WalkComplete`, `PageNumbers` | prices: 2 clean-ups, 4 prices, 6 rows, limit 2, charts of 4; pages: 2 rows each, 2 items, up to 3 rows, 2 promotions, 2 users of one list and one of the others, 1 failure |
| `price_latest` | `LatestKept` is violated | 1 clean-up, 5 rows |
| `tasks_faults` | `NoSlotSkipped`, `CrawledAll` | a two-hourly task, 2 PLIDs in batches of 1; read, commit, publish, 1 crash |
| `tasks_live` | `DueIsPublished`, `NotFlooded`; how often a crash repeats a slot, and which runs it loses: `OncePerSlot`, `PublishedRuns` | a daily and a two-hourly task; a producer kept busy for 5 ticks without crashes, and one that crashes once in 2 ticks; timeouts |
| `sonic_pools` | one holder and no connection lost, nobody waits for ever for everybody else, `Served`, `Healed` | pools of 2, 2 ingesting clients, 1 query, keepAlive and `Quit` |
| `sonic_shutdown` | `QuitEnds` is violated | ingest pool of 2 |
| `sweep_tasks` | nothing left out, no row twice, links belong to the offer they were made for, a goroutine links no PLID twice and leaves none out, every task ends | 2 runs of any of the 5 tasks, 2 products, 2 brands, 2 promotions; all failures |
| `gateway_requests` | answers hold, sends find an open channel, `Answered`, `CacheSettles`; `NothingForgotten`, `FoundInTheEnd` | cache: 2 requests (1 for the latest products or a brand), 2 products, 2 prices each, an entry that lives 2 ticks, all failures; requests: 2 users, 1 PLID, 2 copies of 2 deliveries, 2 failures, crashes among them |
| `short_urls` | `ShortRefused` is violated | 2 users, URLs of every shape |

Bounds. `MaxAttempts` is go-nsq's limit (5 by default); two deliveries reach
each of "first", "again" and "given up". `MaxRows` bounds the prices ever
inserted: with a limit of 2 (for the code's 15), four rows make the first clean-up
and six let further inserts and a second clean-up meet it; `ChartSize` 4 (15 in the
code) leaves the oldest of them off the chart. Prices 2, 3, 5 and 9 are in halves
(`Unit` 2), so that a mean is rounded both ways and prices have fractions. `MaxTime` bounds the
clock: slots are 2 ticks (two-hourly) and 4 ticks (daily) apart, so 5 ticks
pass two slots of the daily and three of the two-hourly task. `MaxPlid`, `MaxMsgs`,
`MaxCrashes` and `MaxDeliveries` bound the crawler, the queue, the crashes and
the deliveries of `TaskScheduler`; a third delivery is the one that
`HandleMessage` turns away. `tasks_live` (`MCTasksLive`) bounds crashes,
timeouts and the clock further: a crash comes in the first two ticks, where the queue
has room for its repeat, and stops the clock there, and the message that times out is
the first. A full queue (`MaxMsgs`) answers like an nsqd that
refuses the message. Two handlers are enough for every pair of steps to meet;
symmetry is used for safety only. In `sweep_tasks` pages have one row (1000 and
100 in the code), so that each row is behind another page, and two for the
clean-up, so that its pool of one worker has a queue; two runs of the promotions
task give four links, so that the OFFSET moves while links are inserted. Two
runs are enough for the race for a promotion's row and for a sweep that meets
another run's inserts. `MaxProducts` and `MaxBrands` bound the rows that are
inserted. One of the two offers has no PLIDs, so that a link of the wrong offer
shows. `plan` chooses the tasks of the two runs beforehand, and the handlers
insert what one of them reads, as the others cannot tell.

In `gateway_requests` the page of the latest products has one row and the others two, so that
a newer product pushes one out of a page and a page has two goroutines; two
requests are enough for one to store an older answer over the other's.
`MaxPrice` bounds the prices of a product. `MaxCopies` bounds the messages of one
PLID that wait: two are one that was published while another is handled, and a full
queue lets the request wait. `MaxFailures` bounds failures and crashes together: two
drop a message after `MaxAttempts`, or fail a search and then its repair.

In `gateway_reads` pages have two rows (12 in the code) and a list up to three
(`MaxListed`), so that there is a second page and inserts move rows to it; two daily
deal promotions let the newest change during a walk; two users of the list of all
promotions share the cache. One failure (`MaxFailures`) reaches each error path once.

`gateway_requests` and `gateway_reads` run two modules side by side: a behaviour is
about one of them (`part`), and the variables of the other keep their initial
values. Their questions are separate, as neither reads what the other writes.

Deadlock is checked in `ingest_*`, `tasks_*` and `gateway_requests`, where a system at rest is a step
of its own. It is not in the price runs, `gateway_reads` and `sweep_tasks`, which stop when the
bounds are used up and all runs have ended (`SweepEnds` says that no run waits for ever),
nor in `sonic_pools` and `sonic_shutdown`, where goroutines wait for ever by the
finding below and after `Quit`.

Fairness. Go schedules every goroutine that can run (weak fairness of each
handler's `Step`, of the producer, of `keepAlive`, of digests, of each task's
run, pool and kids, of a request and of each message's goroutine), nsqd delivers queued messages, Redis expires leases nobody
renews and answers whose time is up (`Age`), the ticker ticks. Nothing is assumed of crashes, failures, of the clock
(`Pass`), of starting a task, of asking the gateway or of the handlers that
insert rows: `FoundInTheEnd` is of users who do go on asking. Where one strong
assumption would be needed for liveness it is a bound instead: `MaxAttempts`
for tasks, `MaxProducts` and `MaxBrands` for a sweep by id, which could otherwise chase a
table that grows for ever. `ingest_settles` has no crashes: a
crash loses a digest for good, as the hazards say. What a crash does to scheduled tasks
`PublishedRuns` says: it loses the runs under way, whose messages are
finished already, and a message in its second delivery, whose run the limit on
attempts refuses to start again; every other published task is run to its end.

## Theorems

`ProductIngestProofs`, for any number of workers, tasks, products and names:

- `TypeCorrect`: types and the bound on deliveries, under all failures.
- `MutualExclusion`: from "a handler between Obtain and Release has the lease"
  (`Holds`), if no lease expires under its holder.
- `RowsAlwaysResolve`, `StoredAtMostOnce`, `RecordedTasksArePriced` and
  `Refinement` (`Spec => Tables!Spec`), under `Careful`: leases outlive the
  calls they protect, SELECTs do not fail, names have one spelling. None of the
  invariants is inductive. The strengthening `IInv` says what a handler at each
  point knows of the tables (`Knows`: absent under the lock, or stored), that
  one handler at most still owes a product its rows (`Alone`), and that what it
  owes is not there yet (`Ahead`).
- `ProductsAreComplete`, under `Careful`. A handler that fails, crashes or times
  out leaves a message that is delivered again or dropped (`Spoiled`, which is
  for ever, by the queue's bookkeeping `Queues`); of a product none of whose
  tasks is spoiled, what is not stored yet is in the hands of the handler
  that created it (`Progress`). That rows are only added is taken from `Refinement`.
- `AlwaysResolveOrZero`: under all failures, with `KnowsOrZero`.
- `HandlersFinish`, under all failures, if what the API answers is finite: what
  liveness (`TasksSettle`) rests on. `StepsLeft` counts the steps a delivery may
  still take, at most 9, one for each image and six for each name; each step of
  the handler lowers it and nobody else's raises it (`Moves`). The only calls that
  wait are those for a lease, and a lease somebody waits for is free, will run
  out, or is of a handler that waits for none (`LeasesComeBack`, from `HaveLease`: who has
  a lease is between Obtain and Release of its key). Deliveries are counted (`TypeCorrect`).
- `GatewaySeesTheHandlers`, under `Careful`: from `Refinement`, each step of the
  handlers is for the gateway one row, price, link or digest as `GatewayCache` has
  them, or nothing. A price is counted once for each task, as in `Catalog`.

`PriceHistoryProofs`, for any number of clean-ups, prices and rows. Whatever row
GROUP BY answers, `TypeCorrect` and `StatisticsAgree`. The latter is about the operators of
`PriceStats` for every history: the k-th row of the page is the one with k - 1 newer
rows, which exists and is unique (an argument by cardinalities), `Chart` turns the
page round, and what `Pass` has of the first k rows is by induction a least and a
greatest price among them and a sum between k times the one and k times the
other, so that rounding keeps the mean between them. The induction is over the
set of the k for which this fails, as the naturals are well-founded. If GROUP BY
answers first rows (`~AnyRow`), `CleanUpRemovesDuplicates`,
`HistoryNeverVanishes` and `NewPriceStaysLatest`, which is where finding 1 ends: a clean-up that
saw all rows takes the latest price away only if an older row has it. The invariant says that what a clean-up chose still
stands for all rows of its snapshot (`Covers`) and has enough prices
(`Enough`). The argument for overlapping clean-ups is `OlderIsSubset`: of two,
the older snapshot's choice lies within the newer one's, so deleting for one
leaves the other what it counts on.

`SonicPoolProofs`, for pools of any size: `TypeCorrect`,
`ConnectionsAreExclusive` (none is lost: each is in a channel, held or closed)
and `PoolsNeverStick` (`NobodyStarves`): until `Quit` is called, whoever waits stands in line
(`Line`), and a connection is free or in the hands of a goroutine that waits for nobody. The
point is `keepAlive`, which holds some connections while it waits for others: if it had all of
the pool it would not wait (`Collecting`), so somebody else has one.

`ProductSweepProofs`, for any number of runs, products, brands and promotions,
any size of pages and pool, under all failures: `TypeCorrect`, `NoRowTwice`,
`NothingLeftOut`, `LinksAlwaysBelong`, `PromotionsAreLinked`, and what `SweepEnds` rests
on: `CleanUpNeverSticks` (a clean-up, its pool and their channel never wait for each
other, and `Stop` drops nothing) and `SweepsAdvance` (a cursor is the id of a row or
counts links, and moves forward with every page). The invariant of the sweeps by id (`SweepInv`) says that what was
swept lies before the cursor or on the page and is not to be done (`Once`),
that the pool holds just the rest of the page and as many answers are to come
as products are under way (`Pooled`, by cardinalities), and that what
was there, or was committed ahead of the cursor since, is swept, to be done, or behind
the page (`Covered`). That of the sweep
by OFFSET (`DealInv`) is an argument about windows: links are read from the newest
to the oldest, so every insertion pushes what was there away from the pages
already read. A product that was not published yet has a link that as many
newer links precede as the OFFSET counts (`Waits`), and `WindowMoves` shows
that such a link is on the next page or behind it. `LinksAlwaysBelong` and `PromotionsAreLinked` are about the
goroutine that inserted a link: `KidInv` ties the promotion's id in its hand to its
offer's row or to 0, and says that what is off its list is linked once by itself, or
being committed; rows stay as they were inserted (`Kept`), so the other goroutines of
the run, and of other runs, disturb neither. Links are copied by another run only.

`TaskSchedulerProofs`, for any schedule, bounds and nodes: `TypeCorrect`,
`SlotsAreNotSkipped` (the model in the producer's hand has the row's next run,
and a task about to be saved has been published after it), `RepeatsAreCrashes`,
`CrawlerLeavesNoneOut` (if nsqd takes the PLIDs, everything up to the model's PLID is published) and
`TasksDoNotFlood` (starts are counted by attempts). `RepeatsAreCrashes` is about a
producer that reads and stores its rows (`Stored`), crashes as it likes and may not
get its messages published: the messages for a slot that an earlier message was for
(`Repeats`) are at most as many as the crashes, and none without a crash. The invariant (`Slots`) adds the
tasks of which a repeat may still come (`Owing`): those whose row is before the next
run of a message, but for the one that is about to be saved. A crash adds one at
most, a publication takes one away when it is a repeat, and `NextRun` of a later
time is not earlier (`RoundKeepsOrder`), so it does not matter that the clock moves
between the publication and the saving. The hypothesis is needed: with failing SELECTs
or commits TLC finds more repeats than crashes.

`ProductRequestsProofs`, for any users, URLs, products, copies, deliveries and
failures: `RequestsTypeCorrect` and `NothingIsForgotten`. The invariant adds the
requests on their way: what `FindModel` reads is stored (`Existing`), and a PLID
whose user is about to be told "added" is accounted for like those promised (`Kept`).
What the handlers do with a message is shown to keep every PLID accounted for
(`ConsumeAccounts`), whichever PLID the message is of. `GatewayTypesCorrect` and
`GatewayKeepsItsWord` are about the behaviours of `MCGateway`: a step of one part is
a stutter of the other (`BothParts`), so each part keeps what is proved of it.

`PromotionPagesProofs`, for any users, promotions, rows and sizes of a page, under
all failures: `PagesTypeCorrect` (a user never passes the page after the last row,
as a page that is not the last was full of rows, and rows are not deleted),
`PageNumbersAgree` (on the page that is the last, `LastPageNumber` is further on by no
more than the rows fill that came between the page's SELECT and the COUNT; on any
other, it is further on) and `WalksAreComplete`. An answer carries as history what stood
behind its page (`rest`); the argument is that insertions move rows away from the
pages already read, so what stood behind a page stands behind it still, and is on
the next page or behind that one. `ReadsTypesCorrect` and `ReadsAgree` are about the
behaviours of `MCGatewayReads`, in the same way (`BothReads`).

`GatewayCacheProofs`, for any requests, products, sizes of the pages and life of
the entries, under all failures: `TypeCorrect`, `ChannelsStayOpen`,
`AnswersAreTrue` and `RequestsFinish`. The invariant ties the goroutines that build messages to the
products their request still waits for (`Owned`), says that what was read is
stored (`Known`, which rows and prices that are only added keep true), and that what
there was when the cache missed is in the answer, on the page still to be received, or
pushed out by newer products (`Whole`, `Shown`). The last is a statement about the
size of answer and page together, which stays the same with every message.
`RequestsFinish` is what `Answered` rests on: a request for a page of n products takes at
most 5 + 2n steps with its goroutines (`StepsLeft`: each product is built and
received), nobody else's step adds to them, and each message it waits for is being
built or sent.

The theorems of `ProductIngest` are about all failures that `Careful` allows,
which the runs only sample: "busy" and "redis" do not meet "crash" and "commit" in
one run, and "publish" (a digest that nsqd refuses) is in none. `AnyRow` is
FALSE in the runs of `PriceHistory`, as in its theorems.

Only model-checked: liveness (all of `TasksSettle`, `Announced`, `DueIsPublished`,
`PublishedRuns`, `Served`, `Healed`, `SweepEnds`, `Answered`, `CacheSettles`,
`FoundInTheEnd`), which is out of the prover's reach. Of `TasksSettle`, `Served`, `SweepEnds` and
`Answered` the half that is not about fairness is proved: what must end gets nearer
its end with each step of its own, and what waits is waited for by nobody it waits for
(`HandlersFinish`, `PoolsNeverStick`, `SweepsAdvance` and `CleanUpNeverSticks`, `RequestsFinish`).
Every other property of a passing run is stated by a theorem.

## Findings

1. The price clean-up deletes the latest row if its price was seen before, so
   the latest price becomes another one (`price_latest`).
2. `Quit` and `keepAlive` may each hold a part of a pool and wait for ever
   (`sonic_shutdown`).
3. A URL with too few path segments is taken, with PLID 0, if the site does not
   answer 2xx: `plIDFromURL` looks at the segments only afterwards and returns an
   error that is nil (`short_urls`).

Short of a disagreement with what the repository says of itself, but worth
knowing: `ProductModelExistsByPLID` takes a failed SELECT for "no such product",
so that a known product's images and links are stored again (what is left is
`ResolveOrZero`); a failed SELECT ends a sweep as if all were done; the loser
of a race for a promotion's row links its products to ID 0.

## Abstractions

- What Takealot answers for a PLID is fixed (`EntitiesOf`, `GallerySize`).
- The processes of one node crash one handler after the other.
- Digests are a set: how often an id is announced is left out.
- A price's INSERT and Commit are one step; a transaction that cannot begin
  shows as a failing Commit.
- A message is with a handler from its delivery; those that wait in a busy consumer
  are still queued.
- The scheduled task's `LastRun`, which nothing reads, is left out.
- In `GatewayCache` prices only grow in number (the clean-up is left out), and links
  are to stored products, as the theorems of `ProductIngest` say; the order of
  the rows in an answer is left out.
- In `ProductRequests` a search is for a PLID of 32 bits, and calls that no other
  request sees are one action.
- In `PromotionPages` a page's messages are its products, and users turn pages from the first one on: nobody
  asks for page 0, whose OFFSET is negative.
- The end of a worker is a crash; calls on a database that was closed fail.

## Not modelled

- Configuration, metrics and profiles (`takealot/env`, `gateway/metrics`, `gateway/profile`): values that
  are read once, counters nobody in the code reads, a server of its own.
- The gateway's start: routes, the download and unpacking of the UI.
- The API's JSON types and HTTP: what an answer says is fixed, whether it comes is
  a choice of every action that fetches.
- Test utilities: the fixtures of the tests.
- What Sonic answers to a query beyond "ids that were digested", and the table of
  gRPC codes and HTTP statuses, which has no state.

## Plan

Done: the pipeline, the price history and its statistics, the scheduler and its
tasks, the pools, the gateway's cache, its paged lists and its requests for
products. Next, in this order:

1. `SearchIndex`: digests against tables and queries, from `ProductIngest`'s
   `digested`.
2. `Calendar`: `FirstRun` and `NextRun` over months, against their tests.
3. Theorems: `NextRun` of the calendar, and which PLIDs are left out when nsqd
   refuses some.
