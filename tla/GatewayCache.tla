----------------------------- MODULE GatewayCache -----------------------------
(***************************************************************************)
(* The gateway's requests (gateway/rest/handler.go), the builder of        *)
(* product messages (gateway/builder) and the cache of answers in Redis,   *)
(* over tables and an index that grow meanwhile.                           *)
(*                                                                         *)
(* Four kinds of requests stand for the handlers: the latest products,     *)
(* those of a brand (as of a category or a promotion), one product, and a  *)
(* search.  A behaviour is about one of them, and one key of the cache: as *)
(* requests only read the tables, those for other keys do not matter.  Of  *)
(* a product's message the latest price is kept; the images, the brand and *)
(* the categories are read the same way.  The clean-up of prices is left   *)
(* out (PriceHistory): here the latest price is the last one stored.       *)
(***************************************************************************)
EXTENDS Integers, FiniteSets

CONSTANTS
    Request,        \* goroutines of the HTTP server
    Product,        \* ids of products
    Clients,        \* the goroutines that serve requests of each kind
    Wanted,         \* the product of a request for one
    Size,           \* products of a page of each kind (12; 20 for a search)
    Life,           \* ticks an answer is cached (10 minutes)
    Faults,         \* the failures that may happen
    None,           \* no such entry
    MaxPrice        \* bound of the prices of a product

Kinds == {"latest", "brand", "product", "search"}

\* "read"  a SELECT fails: no rows
\* "grpc"  the search service does not answer
\* "redis" Redis does not answer
AllFaults == {"read", "grpc", "redis"}

ASSUME GatewayAssumption ==
    /\ Product \subseteq Nat \ {0}
    /\ Wanted \in Product
    /\ Clients \in [Kinds -> SUBSET Request]
    /\ Size \in [Kinds -> Nat \ {0}]
    /\ Life \in Nat \ {0} /\ MaxPrice \in Nat
    /\ Faults \subseteq AllFaults

VARIABLES
    kind,           \* what the requests ask for
    rows,           \* table: the products
    price,          \* table: how many prices each has, the latest being its last
    named,          \* table: there is a row of the brand
    listed,         \* table: the products linked to the brand
    index,          \* the products in Sonic's index
    cache,          \* Redis: the entry of the requests' key
    pc,             \* request: its next call
    page,           \* request: products to look up, or messages yet to receive
    body,           \* request: its answer
    clean,          \* history: no SELECT of the answer has failed
    base,           \* history: what there was to answer when the cache missed
    child           \* the goroutines that build messages, per request and product

tables  == <<kind, rows, price, named, listed, index>>
request == <<pc, page, body, clean, base>>
vars    == <<tables, cache, request, child>>

NoChild == [pc |-> "none", price |-> 0]

Init ==
    /\ kind \in Kinds
    /\ rows = {} /\ listed = {} /\ index = {}
    /\ price = [i \in Product |-> 0]
    /\ named = FALSE
    /\ cache = None
    /\ pc = [r \in Request |-> "idle"]
    /\ page = [r \in Request |-> {}]
    /\ body = [r \in Request |-> {}]
    /\ clean = [r \in Request |-> TRUE]
    /\ base = [r \in Request |-> {}]
    /\ child = [c \in Request \X Product |-> NoChild]

Goto(r, p) == pc' = [pc EXCEPT ![r] = p]
-----------------------------------------------------------------------------
(***************************************************************************)
(* The worker's rows, the index and the clock.                             *)
(***************************************************************************)

StoreProduct(i) ==
    /\ i \notin rows
    /\ rows' = rows \cup {i}
    /\ UNCHANGED <<kind, price, named, listed, index, cache, request, child>>

StorePrice(i) ==
    /\ i \in rows /\ price[i] < MaxPrice
    /\ price' = [price EXCEPT ![i] = @ + 1]
    /\ UNCHANGED <<kind, rows, named, listed, index, cache, request, child>>

StoreBrand ==
    /\ ~named
    /\ named' = TRUE
    /\ UNCHANGED <<kind, rows, price, listed, index, cache, request, child>>

\* The new-product handlers link rows they have stored (ProductIngest, RowsResolve).
LinkBrand(i) ==
    /\ named /\ i \in rows \ listed
    /\ listed' = listed \cup {i}
    /\ UNCHANGED <<kind, rows, price, named, index, cache, request, child>>

Digest(i) ==
    /\ i \in rows \ index
    /\ index' = index \cup {i}
    /\ UNCHANGED <<kind, rows, price, named, listed, cache, request, child>>

\* A tick passes for the entry, and Redis drops it when its time is up.
Age ==
    /\ cache # None
    /\ cache' = IF cache.age + 1 < Life THEN [cache EXCEPT !.age = @ + 1] ELSE None
    /\ UNCHANGED <<tables, request, child>>
-----------------------------------------------------------------------------
\* Any n of a set, or all of it: LIMIT without an order.
Limited(P, S) ==
    /\ P \subseteq S
    /\ Cardinality(P) <= Size[kind]
    /\ Cardinality(P) < Size[kind] => P = S

\* Mutant: ORDER BY id.
Latest_Oldest(P) == Limited(P, rows) /\ \A i \in P, j \in rows \ P : i < j

\* ORDER BY id DESC LIMIT n
Latest(P) == Limited(P, rows) /\ \A i \in P, j \in rows \ P : j < i

\* What is asked for, as the tables are now.
Page(P) ==
    \/ kind = "latest" /\ Limited(P, rows) /\ \A i \in P, j \in rows \ P : j < i
    \/ kind = "brand" /\ Limited(P, listed)
    \/ kind = "product" /\ P = {Wanted} \cap rows
    \/ kind = "search" /\ Limited(P, index)

\* A search answers titles, which do not change, and the others messages.
Now(i) == [id |-> i, price |-> IF kind = "search" THEN 0 ELSE price[i]]
-----------------------------------------------------------------------------
(***************************************************************************)
(* A request.                                                              *)
(***************************************************************************)

Ask(r) ==
    /\ pc[r] = "idle" /\ r \in Clients[kind]
    /\ Goto(r, "get")
    /\ UNCHANGED <<tables, cache, page, body, clean, base, child>>

\* redisGet: no entry, or no answer; the handler goes to the tables.
Miss(r) ==
    /\ pc[r] = "get"
    /\ cache = None \/ "redis" \in Faults
    /\ \E P \in SUBSET rows : Page(P) /\ base' = [base EXCEPT ![r] = {Now(i) : i \in P}]
    /\ Goto(r, "find")
    /\ UNCHANGED <<tables, cache, page, body, clean, child>>

\* Mutant: a hit renews the entry.
Hit_Renews(r) ==
    /\ pc[r] = "get" /\ cache # None
    /\ cache' = [cache EXCEPT !.age = 0]
    /\ Goto(r, "idle")
    /\ UNCHANGED <<tables, page, body, clean, base, child>>

\* The entry is sent.
Hit(r) ==
    /\ pc[r] = "get" /\ cache # None
    /\ Goto(r, "idle")
    /\ UNCHANGED <<tables, cache, page, body, clean, base, child>>

\* The answer to a page of products: one goroutine builds each message.
Build(r, P) ==
    /\ page' = [page EXCEPT ![r] = P]
    /\ child' = [c \in Request \X Product |->
          IF c[1] = r /\ c[2] \in P THEN [NoChild EXCEPT !.pc = "read"] ELSE child[c]]
    /\ Goto(r, "build")

Spoil(r) == clean' = [clean EXCEPT ![r] = FALSE]

\* sendError: nothing is cached.
Refuse(r) ==
    /\ Goto(r, "error")
    /\ UNCHANGED <<tables, cache, page, body, base, child>>

\* FindLatestProducts; a page that could not be read is an empty one.
FindLatest(r) ==
    /\ pc[r] = "find" /\ kind = "latest"
    /\ \/ \E P \in SUBSET rows : Latest(P) /\ Build(r, P) /\ UNCHANGED clean
       \/ "read" \in Faults /\ Build(r, {}) /\ Spoil(r)
    /\ UNCHANGED <<tables, cache, body, base>>

\* FindBrandModel
FindBrand(r) ==
    /\ pc[r] = "find" /\ kind = "brand"
    /\ \/ named /\ Goto(r, "links") /\ UNCHANGED <<tables, cache, page, body, base, child, clean>>
       \/ ~named /\ Refuse(r) /\ UNCHANGED clean
       \/ "read" \in Faults /\ Refuse(r) /\ Spoil(r)

\* FindProductsByBrand: the links, and their products, which are there.
FindListed(r) ==
    /\ pc[r] = "links"
    /\ \/ \E P \in SUBSET listed : Limited(P, listed) /\ Build(r, P) /\ UNCHANGED clean
       \/ "read" \in Faults /\ Build(r, {}) /\ Spoil(r)
    /\ UNCHANGED <<tables, cache, body, base>>

\* setProductDetails, which panics if there is no product.
FindProduct(r) ==
    /\ pc[r] = "find" /\ kind = "product"
    /\ \/ /\ Wanted \in rows
          /\ Build(r, {Wanted})
          /\ UNCHANGED <<tables, cache, body, base, clean>>
       \/ Wanted \notin rows /\ Refuse(r) /\ UNCHANGED clean
       \/ "read" \in Faults /\ Refuse(r) /\ Spoil(r)

\* grpc.ProductSearch
Search(r) ==
    /\ pc[r] = "find" /\ kind = "search"
    /\ \/ \E P \in SUBSET index :
             /\ Limited(P, index)
             /\ page' = [page EXCEPT ![r] = P]
             /\ Goto(r, "look")
             /\ UNCHANGED <<tables, cache, body, base, child, clean>>
       \/ "grpc" \in Faults /\ Refuse(r) /\ Spoil(r)

\* FindProductModel: an id of the index without a row ends the search.
Look(r, i) ==
    /\ pc[r] = "look" /\ i \in page[r]
    /\ \/ /\ i \in rows
          /\ page' = [page EXCEPT ![r] = @ \ {i}]
          /\ body' = [body EXCEPT ![r] = @ \cup {Now(i)}]
          /\ UNCHANGED <<tables, cache, pc, base, child, clean>>
       \/ /\ Refuse(r)
          /\ \/ i \notin rows /\ UNCHANGED clean
             \/ "read" \in Faults /\ Spoil(r)
-----------------------------------------------------------------------------
(***************************************************************************)
(* ProductMessageBuilder.Build, in a goroutine for each product of a page. *)
(***************************************************************************)

\* Its SELECTs: setLatestPrice shows no price when its own fails, and Build
\* panics, recovers and returns nil when brand() finds neither a brand nor the
\* default one.  The other SELECTs read nothing the model tells apart.
BuildMessage(r, i) ==
    /\ child[<<r, i>>].pc = "read"
    /\ \/ /\ child' = [child EXCEPT ![<<r, i>>] = [pc |-> "send", price |-> price[i]]]
          /\ UNCHANGED clean
       \/ /\ "read" \in Faults
          /\ \/ \E p \in {0, price[i]} :
                   child' = [child EXCEPT ![<<r, i>>] = [pc |-> "send", price |-> p]]
             \/ child' = [child EXCEPT ![<<r, i>>].pc = "nil"]
          /\ Spoil(r)
    /\ UNCHANGED <<tables, cache, pc, page, body, base>>

Message(r, i) ==
    IF child[<<r, i>>].pc = "nil" THEN {} ELSE {[id |-> i, price |-> child[<<r, i>>].price]}

Sent(r, i) ==
    /\ pc[r] = "build"
    /\ child[<<r, i>>].pc \in {"send", "nil"}
    /\ child' = [child EXCEPT ![<<r, i>>] = NoChild]
    /\ body' = [body EXCEPT ![r] = @ \cup Message(r, i)]
    /\ UNCHANGED <<tables, cache, clean, base>>

\* Mutant: an error of one message ends the loop.
Receive_Stops(r, i) ==
    /\ Sent(r, i)
    /\ page' = [page EXCEPT ![r] = @ \ {i}]
    /\ IF child[<<r, i>>].pc = "nil" THEN Goto(r, "set") ELSE UNCHANGED pc

\* Mutant: waits for a message of every product.
Receive_Messages(r, i) ==
    /\ Sent(r, i)
    /\ page' = [page EXCEPT ![r] = IF child[<<r, i>>].pc = "nil" THEN @ ELSE @ \ {i}]
    /\ UNCHANGED pc

\* The channel has no buffer; the answer has the messages that are not nil.
Receive(r, i) ==
    /\ Sent(r, i)
    /\ page' = [page EXCEPT ![r] = @ \ {i}]
    /\ UNCHANGED pc

\* All are received, or all ids looked up.
Built(r) ==
    /\ pc[r] \in {"build", "look"} /\ page[r] = {}
    /\ Goto(r, IF kind = "product" /\ body[r] = {} THEN "error" ELSE "set")
    /\ UNCHANGED <<tables, cache, page, body, clean, base, child>>

Reset(r) ==
    /\ Goto(r, "idle")
    /\ page' = [page EXCEPT ![r] = {}]
    /\ body' = [body EXCEPT ![r] = {}]
    /\ clean' = [clean EXCEPT ![r] = TRUE]
    /\ base' = [base EXCEPT ![r] = {}]
    /\ UNCHANGED <<tables, child>>

\* redisSet, whose error nobody looks at, and sendOK.
Set(r) ==
    /\ pc[r] = "set"
    /\ \/ cache' = [body |-> body[r], clean |-> clean[r], age |-> 0]
       \/ "redis" \in Faults /\ UNCHANGED cache
    /\ Reset(r)

SendError(r) == pc[r] = "error" /\ Reset(r) /\ UNCHANGED cache
-----------------------------------------------------------------------------
\* The rows that requests of this kind read.
Worker ==
    \/ kind = "brand" /\ (StoreBrand \/ \E i \in Product : LinkBrand(i))
    \/ kind = "search" /\ \E i \in Product : Digest(i)
    \/ kind # "search" /\ \E i \in Product : StorePrice(i)
    \/ \E i \in Product : StoreProduct(i)

Handle(r) ==
    \/ Miss(r) \/ Hit(r)
    \/ FindLatest(r) \/ FindBrand(r) \/ FindListed(r) \/ FindProduct(r) \/ Search(r)
    \/ \E i \in Product : Look(r, i) \/ Receive(r, i)
    \/ Built(r) \/ Set(r) \/ SendError(r)

\* The goroutines that build the messages of a request.
Building(r) == \E i \in Product : BuildMessage(r, i)

Next ==
    \/ Worker
    \/ Age
    \/ \E r \in Request :
          \/ Ask(r)
          \/ Handle(r)
          \/ Building(r)

Spec == Init /\ [][Next]_vars

\* Go runs goroutines that can run, and time passes; nobody has to ask anything.
Fairness ==
    /\ \A r \in Request : WF_vars(Handle(r)) /\ WF_vars(Building(r))
    /\ WF_vars(Age)

FairSpec == Spec /\ Fairness
-----------------------------------------------------------------------------
(***************************************************************************)
(* Properties.                                                             *)
(***************************************************************************)

Body == SUBSET [id : Product, price : Nat]

TypeOK ==
    /\ kind \in Kinds
    /\ rows \subseteq Product /\ listed \subseteq rows /\ index \subseteq rows
    /\ price \in [Product -> 0 .. MaxPrice]
    /\ named \in BOOLEAN
    /\ cache \in {None} \cup [body : Body, clean : BOOLEAN, age : 0 .. Life - 1]
    /\ pc \in [Request -> {"idle", "get", "find", "links", "look", "build", "set", "error"}]
    /\ page \in [Request -> SUBSET Product]
    /\ body \in [Request -> Body]
    /\ clean \in [Request -> BOOLEAN]
    /\ base \in [Request -> Body]
    /\ child \in [Request \X Product -> [pc : {"none", "read", "send", "nil"}, price : Nat]]

\* Nothing is shown that is not stored, and of one product nothing else.
Stored(B) ==
    /\ \A m \in B : m.id \in rows /\ m.price <= price[m.id]
    /\ kind = "product" => {m.id : m \in B} = {Wanted}

\* An answer whose SELECTs did not fail, cached or not, shows what is stored,
\* and what there was when its handler missed the cache, with prices at least as
\* new, unless newer products fill the page.  It is an error only if there was
\* nothing then (handler.go:463-735).
AnswersHold ==
    /\ cache # None /\ cache.clean => Stored(cache.body)
    /\ \A r \in Request : clean[r] =>
          /\ pc[r] = "error" => base[r] = {} /\ kind # "search"
          /\ pc[r] = "set" =>
                /\ Stored(body[r])
                /\ \A b \in base[r] :
                      \/ \E m \in body[r] : m.id = b.id /\ b.price <= m.price
                      \/ /\ Cardinality(body[r]) = Size[kind]
                         /\ kind = "latest" => \A m \in body[r] : b.id < m.id

\* No goroutine sends on the channel of messages after it is closed, which
\* would end the gateway (handler.go:711, 723).
OpenForSends == \A c \in Request \X Product : child[c].pc # "none" => pc[c[1]] = "build"

\* Every request is answered, whatever fails: the loop over the channel gets a
\* message, or nil, for each product (handler.go:713-732).
Answered == \A r \in Request : pc[r] = "get" ~> pc[r] = "idle"

\* Though handlers may store an older answer over a newer one and nothing is
\* invalidated, the entry comes to show the tables when these are at rest, but
\* for failed SELECTs (handler.go:41-71).
CacheSettles ==
    <>[](cache # None /\ cache.clean =>
            \E P \in SUBSET rows : Page(P) /\ cache.body = {Now(i) : i \in P})
===============================================================================
