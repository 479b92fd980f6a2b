-------------------------- MODULE GatewayCacheProofs --------------------------
(***************************************************************************)
(* Theorems of GatewayCache, for any number of requests and products, any  *)
(* size of the pages, any life of the cached answers, under all failures.  *)
(***************************************************************************)
EXTENDS GatewayCache, FiniteSetTheorems, TLAPS

USE GatewayAssumption DEF Kinds

Entry == [id : Product, price : Nat]

\* Only a named brand has products, and there are finitely many rows.
Tables == IsFiniteSet(rows) /\ (listed # {} => named)

\* The goroutines of a request are those whose messages it still has to receive.
Owned(r) ==
    \A i \in Product : child[<<r, i>>].pc # "none" <=> (pc[r] = "build" /\ i \in page[r])

\* Each call belongs to the kind of request, and before the tables are read there
\* is nothing to answer.
Placed(r) ==
    /\ pc[r] = "links" => kind = "brand"
    /\ pc[r] = "look" => kind = "search"
    /\ pc[r] \in {"idle", "get", "find", "links"} => page[r] = {} /\ body[r] = {}

\* What it has read and what there was when it began is stored, and no message is
\* received twice.
Known(r) ==
    /\ page[r] \subseteq rows /\ IsFiniteSet(body[r])
    /\ \A m \in body[r] : m.id \in rows /\ m.price <= price[m.id] /\ m.id \notin page[r]
    /\ \A i \in Product : child[<<r, i>>].pc = "send" => child[<<r, i>>].price <= price[i]

Begun(r) ==
    \A b \in base[r] :
        /\ b.id \in rows /\ b.price <= price[b.id]
        /\ kind = "brand" => b.id \in listed
        /\ kind = "product" => b.id = Wanted
        /\ kind = "search" => b.id \in index /\ b.price = 0

\* Newer products fill the page, as far as it is read and still to be read.
Full(r, b) ==
    /\ Cardinality(body[r]) + Cardinality(page[r]) = Size[kind]
    /\ kind = "latest" =>
          (\A i \in page[r] : b.id < i) /\ (\A m \in body[r] : b.id < m.id)

\* What there was at the beginning is on the page, answered, or pushed out.
Shown(r, b) ==
    \/ b.id \in page[r]
    \/ \E m \in body[r] : m.id = b.id /\ b.price <= m.price
    \/ Full(r, b)

\* No message is missing, if no SELECT failed.
Whole(r) ==
    clean[r] =>
        /\ \A i \in Product :
              /\ child[<<r, i>>].pc # "nil"
              /\ child[<<r, i>>].pc = "send" =>
                    \A b \in base[r] : b.id = i => b.price <= child[<<r, i>>].price
        /\ pc[r] = "error" => base[r] = {} /\ kind # "search"
        /\ pc[r] \in {"look", "build", "set"} =>
              /\ kind = "product" => {m.id : m \in body[r]} \cup page[r] = {Wanted}
              /\ \A b \in base[r] : Shown(r, b)
        /\ pc[r] = "set" => page[r] = {}

Sound(r) == Owned(r) /\ Placed(r) /\ Known(r) /\ Begun(r) /\ Whole(r)

\* What is cached stays true, as rows and prices are only added.
Cached == cache # None /\ cache.clean => Stored(cache.body)

\* The inductive invariant.
IInv == TypeOK /\ Tables /\ Cached /\ \A r \in Request : Sound(r)
-----------------------------------------------------------------------------
\* What a request reads of a product now is of its type, and as new as the tables.
LEMMA NowFacts ==
  ASSUME TypeOK, NEW i \in Product
  PROVE  /\ Now(i) \in Entry /\ Now(i).id = i
         /\ Now(i).price <= price[i]
         /\ kind = "search" => Now(i).price = 0
  BY DEF Now, TypeOK, Entry

\* A page is of stored products.
LEMMA PageFacts ==
  ASSUME TypeOK, NEW P \in SUBSET Product, Page(P)
  PROVE  /\ P \subseteq rows
         /\ kind = "brand" => P \subseteq listed
         /\ kind = "product" => P \subseteq {Wanted}
         /\ kind = "search" => P \subseteq index
  BY DEF TypeOK, Page, Limited

\* What was at most a price is at most a later one.
LEMMA Raised ==
  ASSUME TypeOK, TypeOK', NEW i \in Product, price[i] <= price'[i],
         NEW n \in Nat, n <= price[i]
  PROVE  n <= price'[i]
<1>1. price[i] \in Nat /\ price'[i] \in Nat
  BY DEF TypeOK
<1> QED BY <1>1

\* Rows and prices that are added break nothing a request knows, if it does not
\* move itself.
LEMMA Frame ==
  ASSUME NEW q \in Request, TypeOK, TypeOK', Sound(q), kind' = kind,
         rows \subseteq rows', listed \subseteq listed', index \subseteq index',
         \A i \in Product : price[i] <= price'[i],
         pc'[q] = pc[q], page'[q] = page[q], body'[q] = body[q],
         clean'[q] = clean[q], base'[q] = base[q],
         \A i \in Product : child'[<<q, i>>] = child[<<q, i>>]
  PROVE  Sound(q)'
<1>1. Owned(q)' /\ Placed(q)'
  BY DEF Sound, Owned, Placed
<1>2. Known(q)'
  <2>1. ASSUME NEW m \in body'[q]
        PROVE  m.id \in rows' /\ m.price <= price'[m.id] /\ m.id \notin page'[q]
    <3>1. m.id \in Product /\ m.price \in Nat
      BY DEF TypeOK, Body
    <3>2. m.id \in rows /\ m.price <= price[m.id] /\ m.id \notin page[q]
      BY DEF Sound, Known
    <3>3. m.price <= price'[m.id]
      BY <3>1, <3>2, Raised
    <3> QED BY <3>2, <3>3
  <2>2. ASSUME NEW i \in Product, child'[<<q, i>>].pc = "send"
        PROVE  child'[<<q, i>>].price <= price'[i]
    <3>1. child[<<q, i>>].price \in Nat /\ child[<<q, i>>].price <= price[i]
      BY <2>2 DEF TypeOK, Sound, Known
    <3> QED BY <3>1 DEF TypeOK
  <2>3. page'[q] \subseteq rows' /\ IsFiniteSet(body'[q])
    BY DEF Sound, Known
  <2> QED BY <2>1, <2>2, <2>3 DEF Known
<1>3. Begun(q)'
  <2> SUFFICES ASSUME NEW b \in base[q]
               PROVE  /\ b.id \in rows' /\ b.price <= price'[b.id]
                      /\ kind = "brand" => b.id \in listed'
                      /\ kind = "product" => b.id = Wanted
                      /\ kind = "search" => b.id \in index' /\ b.price = 0
    BY DEF Begun
  <2>1. b.id \in Product /\ b.price \in Nat
    BY DEF TypeOK, Body
  <2>2. /\ b.id \in rows /\ b.price <= price[b.id]
        /\ kind = "brand" => b.id \in listed
        /\ kind = "product" => b.id = Wanted
        /\ kind = "search" => b.id \in index /\ b.price = 0
    BY DEF Sound, Begun
  <2>3. b.price <= price'[b.id]
    BY <2>1, <2>2, Raised
  <2> QED BY <2>2, <2>3
<1>4. Whole(q)'
  BY DEF Sound, Whole, Shown, Full
<1> QED BY <1>1, <1>2, <1>3, <1>4 DEF Sound

\* What is cached stays true while rows and prices are added.
LEMMA CachedStays ==
  ASSUME TypeOK, TypeOK', Cached, UNCHANGED <<cache, kind>>, rows \subseteq rows',
         \A i \in Product : price[i] <= price'[i]
  PROVE  Cached'
<1> SUFFICES ASSUME cache # None, cache.clean PROVE Stored(cache.body)'
  BY DEF Cached
<1>1. cache.body \in Body
  BY DEF TypeOK
<1>2. \A m \in cache.body : m.id \in Product /\ m.price \in Nat
  BY <1>1 DEF Body
<1>3. ASSUME NEW m \in cache.body PROVE m.id \in rows' /\ m.price <= price'[m.id]
  <2>1. m.id \in rows /\ m.price <= price[m.id]
    BY DEF Cached, Stored
  <2>2. m.price <= price'[m.id]
    BY <1>2, <2>1, Raised
  <2> QED BY <2>1, <2>2
<1> QED BY <1>3 DEF Cached, Stored
-----------------------------------------------------------------------------
\* Nothing is stored, asked or cached.
LEMMA InitIInv == Init => IInv
<1> SUFFICES ASSUME Init PROVE IInv
  OBVIOUS
<1>1. TypeOK
  <2>1. child \in [Request \X Product -> [pc : {"none", "read", "send", "nil"}, price : Nat]]
    BY DEF Init, NoChild
  <2>2. base \in [Request -> Body] /\ body \in [Request -> Body]
    BY DEF Init, Body
  <2>3. /\ pc \in [Request -> {"idle", "get", "find", "links", "look", "build", "set", "error"}]
        /\ page \in [Request -> SUBSET Product] /\ clean \in [Request -> BOOLEAN]
        /\ price \in [Product -> 0 .. MaxPrice]
    BY DEF Init
  <2> QED BY <2>1, <2>2, <2>3 DEF Init, TypeOK
<1>2. Tables /\ Cached
  BY FS_EmptySet DEF Init, Tables, Cached
<1>3. ASSUME NEW r \in Request PROVE Sound(r)
  BY FS_EmptySet DEF Init, NoChild, Sound, Owned, Placed, Known, Begun, Whole
<1> QED BY <1>1, <1>2, <1>3 DEF IInv

\* The rows the worker and the index add.
LEMMA WorkerKeeps == ASSUME IInv, Worker PROVE IInv'
<1> USE DEF IInv
<1>1. /\ UNCHANGED <<kind, cache, request, child>>
      /\ rows \subseteq rows' /\ listed \subseteq listed' /\ index \subseteq index'
      /\ \A i \in Product : price[i] <= price'[i]
  BY DEF Worker, StoreProduct, StorePrice, StoreBrand, LinkBrand, Digest, TypeOK
<1>2. TypeOK'
  <2>1. /\ rows' \subseteq Product /\ listed' \subseteq rows' /\ index' \subseteq rows'
        /\ named' \in BOOLEAN
    BY DEF Worker, StoreProduct, StorePrice, StoreBrand, LinkBrand, Digest, TypeOK
  <2>2. price' \in [Product -> 0 .. MaxPrice]
    BY DEF Worker, StoreProduct, StorePrice, StoreBrand, LinkBrand, Digest, TypeOK
  <2> QED BY <1>1, <2>1, <2>2 DEF TypeOK, request
<1>3. Tables'
  BY FS_AddElement DEF Worker, StoreProduct, StorePrice, StoreBrand, LinkBrand, Digest, Tables
<1>4. Cached'
  BY <1>1, <1>2, CachedStays
<1>5. ASSUME NEW q \in Request PROVE Sound(q)'
  BY <1>1, <1>2, Frame DEF request
<1> QED BY <1>2, <1>3, <1>4, <1>5

\* The entry gets older.
LEMMA AgeKeeps == ASSUME IInv, Age PROVE IInv'
<1> USE DEF IInv
<1>1. TypeOK'
  BY DEF Age, TypeOK, tables, request
<1>2. Tables' /\ Cached'
  BY DEF Age, Tables, Cached, Stored, TypeOK, tables
<1>3. ASSUME NEW q \in Request PROVE Sound(q)'
  BY <1>1, Frame DEF Age, tables, request, TypeOK
<1> QED BY <1>1, <1>2, <1>3
-----------------------------------------------------------------------------
\* A step of r leaves the tables and the other requests alone; it remains to show
\* the types, and what holds of r.
LEMMA Step ==
  ASSUME IInv, NEW r \in Request, UNCHANGED tables, TypeOK', Cached', Sound(r)',
         \A q \in Request \ {r} :
            /\ pc'[q] = pc[q] /\ page'[q] = page[q] /\ body'[q] = body[q]
            /\ clean'[q] = clean[q] /\ base'[q] = base[q]
            /\ \A i \in Product : child'[<<q, i>>] = child[<<q, i>>]
  PROVE  IInv'
<1> USE DEF IInv, tables
<1>1. ASSUME NEW q \in Request \ {r} PROVE Sound(q)'
  <2>1. \A i \in Product : price[i] <= price'[i]
    BY DEF TypeOK
  <2> QED BY <2>1, Frame
<1>2. Tables'
  BY DEF Tables
<1> QED BY <1>1, <1>2
-----------------------------------------------------------------------------
\* The cache is asked.
LEMMA AskKeeps == ASSUME IInv, NEW r \in Request, Ask(r) PROVE IInv'
<1> USE DEF IInv, Ask, Goto
<1>1. TypeOK'
  BY DEF TypeOK, tables
<1>2. Cached'
  BY DEF Cached, Stored, tables
<1>3. Sound(r)'
  <2>1. Owned(r)' /\ Placed(r)'
    BY DEF Sound, Owned, Placed, TypeOK, tables
  <2>2. Known(r)' /\ Begun(r)'
    BY DEF Sound, Known, Begun, tables
  <2>3. Whole(r)'
    BY DEF Sound, Whole, TypeOK
  <2> QED BY <2>1, <2>2, <2>3 DEF Sound
<1>4. \A q \in Request \ {r} : pc'[q] = pc[q]
  BY DEF TypeOK
<1> QED BY <1>1, <1>2, <1>3, <1>4, Step

\* It has no answer: the history notes what there is now.
LEMMA MissKeeps == ASSUME IInv, NEW r \in Request, Miss(r) PROVE IInv'
<1> USE DEF IInv
<1>1. PICK P \in SUBSET rows : Page(P) /\ base' = [base EXCEPT ![r] = {Now(i) : i \in P}]
  BY DEF Miss
<1>2. /\ UNCHANGED <<tables, cache, page, body, clean, child>>
      /\ pc[r] = "get" /\ pc' = [pc EXCEPT ![r] = "find"]
  BY DEF Miss, Goto
<1>3. P \subseteq Product
  BY DEF TypeOK
<1>4. \A i \in P : /\ Now(i) \in Entry /\ Now(i).id = i /\ Now(i).price <= price[i]
                   /\ kind = "search" => Now(i).price = 0
  BY <1>3, NowFacts
<1>5. /\ base'[r] = {Now(i) : i \in P}
      /\ \A q \in Request \ {r} : base'[q] = base[q] /\ pc'[q] = pc[q]
  BY <1>1, <1>2 DEF TypeOK
<1>6. TypeOK'
  <2>1. {Now(i) : i \in P} \in Body
    BY <1>4 DEF Body, Entry
  <2> QED BY <1>1, <1>2, <2>1 DEF TypeOK, tables
<1>7. Cached'
  BY <1>2 DEF Cached, Stored, tables
<1>8. Sound(r)'
  <2>1. Owned(r)' /\ Placed(r)'
    BY <1>2 DEF Sound, Owned, Placed, TypeOK, tables
  <2>2. Known(r)'
    BY <1>2 DEF Sound, Known, tables
  <2>3. Begun(r)'
    BY <1>1, <1>2, <1>3, <1>4, <1>5, PageFacts DEF Begun, tables
  <2>4. Whole(r)'
    <3>1. \A i \in Product : child[<<r, i>>].pc = "none"
      BY <1>2 DEF Sound, Owned, TypeOK
    <3> QED BY <1>2, <3>1 DEF Whole, TypeOK
  <2> QED BY <2>1, <2>2, <2>3, <2>4 DEF Sound
<1> QED BY <1>2, <1>5, <1>6, <1>7, <1>8, Step

\* It has one, which is sent.
LEMMA HitKeeps == ASSUME IInv, NEW r \in Request, Hit(r) PROVE IInv'
<1> USE DEF IInv, Hit, Goto
<1>1. TypeOK'
  BY DEF TypeOK, tables
<1>2. Cached'
  BY DEF Cached, Stored, tables
<1>3. Sound(r)'
  <2>1. Owned(r)' /\ Placed(r)'
    BY DEF Sound, Owned, Placed, TypeOK, tables
  <2>2. Known(r)' /\ Begun(r)'
    BY DEF Sound, Known, Begun, tables
  <2>3. Whole(r)'
    BY DEF Sound, Whole, TypeOK
  <2> QED BY <2>1, <2>2, <2>3 DEF Sound
<1>4. \A q \in Request \ {r} : pc'[q] = pc[q]
  BY DEF TypeOK
<1> QED BY <1>1, <1>2, <1>3, <1>4, Step
-----------------------------------------------------------------------------
\* A page was read that holds what there was, or is full of newer products.
LEMMA BuildKeeps ==
  ASSUME IInv, NEW r \in Request, NEW P \in SUBSET rows, Build(r, P),
         pc[r] \in {"find", "links"}, UNCHANGED <<tables, cache, body, base>>,
         clean' \in {clean, [clean EXCEPT ![r] = FALSE]},
         clean'[r] =>
            /\ kind = "product" => P = {Wanted}
            /\ \A b \in base[r] :
                  \/ b.id \in P
                  \/ /\ Cardinality(P) = Size[kind]
                     /\ kind = "latest" => \A i \in P : b.id < i
  PROVE  IInv'
<1> USE DEF IInv
<1>1. /\ page' = [page EXCEPT ![r] = P] /\ pc' = [pc EXCEPT ![r] = "build"]
      /\ child' = [c \in Request \X Product |->
            IF c[1] = r /\ c[2] \in P THEN [NoChild EXCEPT !.pc = "read"] ELSE child[c]]
  BY DEF Build, Goto
<1>2. P \subseteq Product
  BY DEF TypeOK
<1>3. body[r] = {} /\ \A i \in Product : child[<<r, i>>].pc = "none"
  BY DEF Sound, Placed, Owned
<1>4. /\ pc'[r] = "build" /\ page'[r] = P
      /\ \A i \in P : child'[<<r, i>>].pc = "read"
      /\ \A i \in Product \ P : child'[<<r, i>>] = child[<<r, i>>]
  BY <1>1, <1>2 DEF TypeOK, NoChild
<1>5. \A q \in Request \ {r} :
         /\ pc'[q] = pc[q] /\ page'[q] = page[q] /\ clean'[q] = clean[q]
         /\ \A i \in Product : child'[<<q, i>>] = child[<<q, i>>]
  BY <1>1 DEF TypeOK
<1>6. TypeOK'
  <2>1. child' \in [Request \X Product -> [pc : {"none", "read", "send", "nil"}, price : Nat]]
    BY <1>1 DEF TypeOK, NoChild
  <2>2. clean' \in [Request -> BOOLEAN]
    BY DEF TypeOK
  <2> QED BY <1>1, <1>2, <2>1, <2>2 DEF TypeOK, tables
<1>7. Cached'
  BY DEF Cached, Stored, tables
<1>8. Sound(r)'
  <2>1. Owned(r)'
    BY <1>2, <1>3, <1>4 DEF Owned
  <2>2. Placed(r)'
    BY <1>4 DEF Placed
  <2>3. Known(r)'
    <3>1. \A i \in Product : child'[<<r, i>>].pc # "send"
      BY <1>3, <1>4
    <3> QED BY <1>3, <1>4, <3>1, FS_EmptySet DEF Known, tables
  <2>4. Begun(r)'
    BY DEF Sound, Begun, tables
  <2>5. Whole(r)'
    <3> SUFFICES ASSUME clean'[r] PROVE Whole(r)'
      BY DEF Whole
    <3>1. \A i \in Product : child'[<<r, i>>].pc \notin {"nil", "send"}
      BY <1>3, <1>4
    <3>2. kind = "product" => {m.id : m \in body[r]} \cup P = {Wanted}
      BY <1>3
    <3>3. ASSUME NEW b \in base[r] PROVE Shown(r, b)'
      <4>1. CASE b.id \in P
        BY <4>1, <1>4 DEF Shown
      <4>2. CASE /\ Cardinality(P) = Size[kind]
                 /\ kind = "latest" => \A i \in P : b.id < i
        <5>1. Size[kind] \in Nat /\ Cardinality({}) = 0
          BY FS_EmptySet DEF TypeOK
        <5>2. Cardinality(body[r]) + Cardinality(P) = Size[kind]
          BY <1>3, <4>2, <5>1
        <5>3. Full(r, b)'
          BY <1>3, <1>4, <4>2, <5>2 DEF Full, tables
        <5> QED BY <5>3 DEF Shown
      <4> QED BY <4>1, <4>2
    <3> QED BY <1>4, <3>1, <3>2, <3>3 DEF Whole, tables
  <2> QED BY <2>1, <2>2, <2>3, <2>4, <2>5 DEF Sound
<1> QED BY <1>5, <1>6, <1>7, <1>8, Step

\* A page that was read: it is all there is, or full.
LEMMA LimitedFacts ==
  ASSUME NEW P, NEW S, Limited(P, S), NEW i \in S, i \notin P,
         IsFiniteSet(S), Size[kind] \in Nat
  PROVE  Cardinality(P) = Size[kind]
<1>1. P \subseteq S /\ Cardinality(P) <= Size[kind]
  BY DEF Limited
<1>2. ~(Cardinality(P) < Size[kind])
  BY DEF Limited
<1>3. Cardinality(P) \in Nat
  BY <1>1, FS_Subset, FS_CardinalityType
<1> QED BY <1>1, <1>2, <1>3

\* An error, after which nothing is built or cached.
LEMMA RefuseKeeps ==
  ASSUME IInv, NEW r \in Request, Refuse(r), pc[r] \in {"find", "links", "look"},
         clean' \in {clean, [clean EXCEPT ![r] = FALSE]},
         clean'[r] => base[r] = {} /\ kind # "search"
  PROVE  IInv'
<1> USE DEF IInv
<1>1. /\ UNCHANGED <<tables, cache, page, body, base, child>>
      /\ pc' = [pc EXCEPT ![r] = "error"]
  BY DEF Refuse, Goto
<1>2. pc'[r] = "error" /\ \A q \in Request \ {r} : pc'[q] = pc[q] /\ clean'[q] = clean[q]
  BY <1>1 DEF TypeOK
<1>3. TypeOK'
  <2>1. clean' \in [Request -> BOOLEAN]
    BY DEF TypeOK
  <2> QED BY <1>1, <2>1 DEF TypeOK, tables
<1>4. Cached'
  BY <1>1 DEF Cached, Stored, tables
<1>5. \A i \in Product : child[<<r, i>>].pc = "none"
  BY DEF Sound, Owned
<1>6. Sound(r)'
  <2>1. Owned(r)' /\ Placed(r)'
    BY <1>1, <1>2, <1>5 DEF Owned, Placed
  <2>2. Known(r)' /\ Begun(r)'
    BY <1>1 DEF Sound, Known, Begun, tables
  <2>3. Whole(r)'
    BY <1>1, <1>2, <1>5 DEF Whole, tables
  <2> QED BY <2>1, <2>2, <2>3 DEF Sound
<1> QED BY <1>1, <1>2, <1>3, <1>4, <1>6, Step
-----------------------------------------------------------------------------
\* What the handlers read first.
LEMMA FindLatestKeeps == ASSUME IInv, NEW r \in Request, FindLatest(r) PROVE IInv'
<1> USE DEF IInv
<1>1. /\ pc[r] = "find" /\ kind = "latest" /\ UNCHANGED <<tables, cache, body, base>>
      /\ r \in Request
  BY DEF FindLatest
<1>2. CASE \E P \in SUBSET rows : Latest(P) /\ Build(r, P) /\ UNCHANGED clean
  <2>1. PICK P \in SUBSET rows : Latest(P) /\ Build(r, P) /\ UNCHANGED clean
    BY <1>2
  <2>2. ASSUME NEW b \in base[r], b.id \notin P
        PROVE  Cardinality(P) = Size[kind] /\ \A i \in P : b.id < i
    <3>1. b.id \in rows
      BY DEF Sound, Begun
    <3>2. Size[kind] \in Nat /\ IsFiniteSet(rows) /\ Limited(P, rows)
      BY <2>1 DEF TypeOK, Tables, Latest
    <3>3. Cardinality(P) = Size[kind]
      BY <2>2, <3>1, <3>2, LimitedFacts
    <3> QED BY <2>1, <2>2, <3>1, <3>3 DEF Latest
  <2> QED BY <1>1, <2>1, <2>2, BuildKeeps
<1>3. CASE "read" \in Faults /\ Build(r, {}) /\ Spoil(r)
  <2>1. clean' = [clean EXCEPT ![r] = FALSE] /\ ~clean'[r]
    BY <1>3 DEF Spoil, TypeOK
  <2> QED BY <1>1, <1>3, <2>1, BuildKeeps
<1> QED BY <1>2, <1>3 DEF FindLatest

\* The row of the brand, without which nothing is listed.
LEMMA FindBrandKeeps == ASSUME IInv, NEW r \in Request, FindBrand(r) PROVE IInv'
<1> USE DEF IInv
<1>1. pc[r] = "find" /\ kind = "brand"
  BY DEF FindBrand
<1>2. CASE named /\ Goto(r, "links") /\ UNCHANGED <<tables, cache, page, body, base, child, clean>>
  <2> USE <1>1, <1>2 DEF Goto
  <2>1. TypeOK'
    BY DEF TypeOK, tables
  <2>2. Cached'
    BY DEF Cached, Stored, tables
  <2>3. Sound(r)'
    <3>1. Owned(r)' /\ Placed(r)'
      BY DEF Sound, Owned, Placed, TypeOK, tables
    <3>2. Known(r)' /\ Begun(r)'
      BY DEF Sound, Known, Begun, tables
    <3>3. Whole(r)'
      BY DEF Sound, Whole, TypeOK
    <3> QED BY <3>1, <3>2, <3>3 DEF Sound
  <2>4. \A q \in Request \ {r} : pc'[q] = pc[q]
    BY DEF TypeOK
  <2> QED BY <2>1, <2>2, <2>3, <2>4, Step
<1>3. CASE ~named /\ Refuse(r) /\ UNCHANGED clean
  <2>1. base[r] = {}
    BY <1>1, <1>3 DEF Sound, Begun, Tables
  <2> QED BY <1>1, <1>3, <2>1, RefuseKeeps
<1>4. CASE "read" \in Faults /\ Refuse(r) /\ Spoil(r)
  <2>1. clean' = [clean EXCEPT ![r] = FALSE] /\ ~clean'[r]
    BY <1>4 DEF Spoil, TypeOK
  <2> QED BY <1>1, <1>4, <2>1, RefuseKeeps
<1> QED BY <1>2, <1>3, <1>4 DEF FindBrand

\* The links of the brand.
LEMMA FindListedKeeps == ASSUME IInv, NEW r \in Request, FindListed(r) PROVE IInv'
<1> USE DEF IInv
<1>1. pc[r] = "links" /\ kind = "brand" /\ UNCHANGED <<tables, cache, body, base>>
  BY DEF FindListed, Sound, Placed
<1>2. CASE \E P \in SUBSET listed : Limited(P, listed) /\ Build(r, P) /\ UNCHANGED clean
  <2>1. PICK P \in SUBSET listed : Limited(P, listed) /\ Build(r, P) /\ UNCHANGED clean
    BY <1>2
  <2>2. P \in SUBSET rows /\ IsFiniteSet(listed)
    BY FS_Subset DEF TypeOK, Tables
  <2>3. ASSUME NEW b \in base[r], b.id \notin P PROVE Cardinality(P) = Size[kind]
    <3>1. b.id \in listed /\ Size[kind] \in Nat
      BY <1>1 DEF Sound, Begun, TypeOK
    <3> QED BY <2>1, <2>2, <2>3, <3>1, LimitedFacts
  <2> QED BY <1>1, <2>1, <2>2, <2>3, BuildKeeps
<1>3. CASE "read" \in Faults /\ Build(r, {}) /\ Spoil(r)
  <2>1. clean' = [clean EXCEPT ![r] = FALSE] /\ ~clean'[r]
    BY <1>3 DEF Spoil, TypeOK
  <2> QED BY <1>1, <1>3, <2>1, BuildKeeps
<1> QED BY <1>2, <1>3 DEF FindListed

\* The one product asked for.
LEMMA FindProductKeeps == ASSUME IInv, NEW r \in Request, FindProduct(r) PROVE IInv'
<1> USE DEF IInv
<1>1. pc[r] = "find" /\ kind = "product"
  BY DEF FindProduct
<1>2. \A b \in base[r] : b.id = Wanted /\ b.id \in rows
  BY <1>1 DEF Sound, Begun
<1>3. CASE Wanted \in rows /\ Build(r, {Wanted}) /\ UNCHANGED <<tables, cache, body, base, clean>>
  BY <1>1, <1>2, <1>3, BuildKeeps
<1>4. CASE Wanted \notin rows /\ Refuse(r) /\ UNCHANGED clean
  BY <1>1, <1>2, <1>4, RefuseKeeps
<1>5. CASE "read" \in Faults /\ Refuse(r) /\ Spoil(r)
  <2>1. clean' = [clean EXCEPT ![r] = FALSE] /\ ~clean'[r]
    BY <1>5 DEF Spoil, TypeOK
  <2> QED BY <1>1, <1>5, <2>1, RefuseKeeps
<1> QED BY <1>3, <1>4, <1>5 DEF FindProduct

\* The ids of the index.
LEMMA SearchKeeps == ASSUME IInv, NEW r \in Request, Search(r) PROVE IInv'
<1> USE DEF IInv
<1>1. pc[r] = "find" /\ kind = "search"
  BY DEF Search
<1>2. CASE "grpc" \in Faults /\ Refuse(r) /\ Spoil(r)
  <2>1. clean' = [clean EXCEPT ![r] = FALSE] /\ ~clean'[r]
    BY <1>2 DEF Spoil, TypeOK
  <2> QED BY <1>1, <1>2, <2>1, RefuseKeeps
<1>3. ASSUME NEW P \in SUBSET index, Limited(P, index),
             page' = [page EXCEPT ![r] = P], Goto(r, "look"),
             UNCHANGED <<tables, cache, body, base, child, clean>>
      PROVE  IInv'
  <2>1. P \subseteq rows /\ P \subseteq Product
    BY DEF TypeOK
  <2>2. pc' = [pc EXCEPT ![r] = "look"]
    BY <1>3 DEF Goto
  <2>3. /\ page'[r] = P /\ pc'[r] = "look"
        /\ \A q \in Request \ {r} : page'[q] = page[q] /\ pc'[q] = pc[q]
    BY <1>3, <2>2 DEF TypeOK
  <2>4. TypeOK'
    BY <1>3, <2>1, <2>2 DEF TypeOK, tables
  <2>5. Cached'
    BY <1>3 DEF Cached, Stored, tables
  <2>6. body[r] = {} /\ \A i \in Product : child[<<r, i>>].pc = "none"
    BY <1>1 DEF Sound, Placed, Owned
  <2>7. Owned(r)' /\ Placed(r)'
    BY <1>1, <1>3, <2>3, <2>6 DEF Owned, Placed, tables
  <2>8. Known(r)' /\ Begun(r)'
    BY <1>3, <2>1, <2>3, <2>6 DEF Sound, Known, Begun, tables
  <2>9. ASSUME NEW b \in base[r] PROVE Shown(r, b)'
    <3>1. CASE b.id \in P
      BY <3>1, <2>3 DEF Shown
    <3>2. CASE b.id \notin P
      <4>1. b.id \in index /\ Size[kind] \in Nat /\ IsFiniteSet(index)
        BY <1>1, FS_Subset DEF Sound, Begun, TypeOK, Tables
      <4>2. Cardinality(P) = Size[kind]
        BY <1>3, <3>2, <4>1, LimitedFacts
      <4>3. Cardinality(body[r]) + Cardinality(P) = Size[kind]
        BY <2>6, <4>1, <4>2, FS_EmptySet
      <4> QED BY <1>1, <1>3, <2>3, <4>3 DEF Shown, Full, tables
    <3> QED BY <3>1, <3>2
  <2>10. Whole(r)'
    BY <1>1, <1>3, <2>3, <2>6, <2>9 DEF Whole, tables
  <2>11. Sound(r)'
    BY <2>7, <2>8, <2>10 DEF Sound
  <2> QED BY <1>3, <2>3, <2>4, <2>5, <2>11, Step
<1> QED BY <1>2, <1>3 DEF Search
-----------------------------------------------------------------------------
\* A set without one of its elements has one less.
LEMMA OneLess ==
  ASSUME NEW S, IsFiniteSet(S), NEW x \in S, NEW n \in Nat, Cardinality(S) = n
  PROVE  Cardinality(S \ {x}) = n - 1
BY FS_RemoveElement

\* A product of the page goes over to the answer, if it has one.
LEMMA TakeKnown ==
  ASSUME IInv, NEW r \in Request, NEW i \in page[r], NEW M \in SUBSET Entry,
         IsFiniteSet(M), \A m \in M : m.id = i /\ m.price <= price[i],
         UNCHANGED tables,
         page'[r] = page[r] \ {i}, body'[r] = body[r] \cup M,
         \A j \in Product : child'[<<r, j>>].pc = "send" => child'[<<r, j>>] = child[<<r, j>>]
  PROVE  Known(r)'
<1> USE DEF IInv, tables
<1>1. Known(r)
  BY DEF Sound
<1>2. page'[r] \subseteq rows'
  BY <1>1 DEF Known
<1>3. IsFiniteSet(body'[r])
  <2>1. IsFiniteSet(body[r])
    BY <1>1 DEF Known
  <2>2. IsFiniteSet(body[r] \cup M)
    BY <2>1, FS_Union
  <2> QED BY <2>2
<1>4. ASSUME NEW m \in body'[r]
      PROVE  m.id \in rows' /\ m.price <= price'[m.id] /\ m.id \notin page'[r]
  <2>1. CASE m \in body[r]
    BY <1>1, <2>1 DEF Known
  <2>2. CASE m \in M
    BY <1>1, <2>2 DEF Known
  <2> QED BY <2>1, <2>2
<1>5. ASSUME NEW j \in Product, child'[<<r, j>>].pc = "send"
      PROVE  child'[<<r, j>>].price <= price'[j]
  BY <1>1, <1>5 DEF Known
<1> QED BY <1>2, <1>3, <1>4, <1>5 DEF Known

\* If it has a message as new as the tables were, no message gets missing: page and
\* answer together stay as many.
LEMMA TakeShown ==
  ASSUME IInv, NEW r \in Request, NEW i \in page[r], NEW m \in Entry, m.id = i,
         clean[r], pc[r] \in {"look", "build"},
         \A b \in base[r] : b.id = i => b.price <= m.price,
         UNCHANGED <<kind, base>>,
         page'[r] = page[r] \ {i}, body'[r] = body[r] \cup {m}
  PROVE  /\ kind = "product" => {n.id : n \in body'[r]} \cup page'[r] = {Wanted}
         /\ \A b \in base[r] : Shown(r, b)'
<1> USE DEF IInv
<1>1. /\ kind = "product" => {n.id : n \in body[r]} \cup page[r] = {Wanted}
      /\ \A b \in base[r] : Shown(r, b)
  BY DEF Sound, Whole
<1>2. ASSUME kind = "product" PROVE {n.id : n \in body'[r]} \cup page'[r] = {Wanted}
  <2>1. {n.id : n \in body'[r]} = {n.id : n \in body[r]} \cup {i}
    OBVIOUS
  <2> QED BY <1>1, <1>2, <2>1
<1>3. ASSUME NEW b \in base[r] PROVE Shown(r, b)'
  <2>1. CASE b.id \in page[r]
    <3>1. CASE b.id = i
      BY <3>1 DEF Shown
    <3>2. CASE b.id # i
      BY <2>1, <3>2 DEF Shown
    <3> QED BY <3>1, <3>2
  <2>2. CASE \E n \in body[r] : n.id = b.id /\ b.price <= n.price
    BY <2>2 DEF Shown
  <2>3. CASE Full(r, b)
    <3>1. m \notin body[r] /\ IsFiniteSet(body[r]) /\ IsFiniteSet(page[r])
      BY FS_Subset DEF Sound, Known, Tables
    <3>2. /\ Cardinality(body'[r]) = Cardinality(body[r]) + 1
          /\ Cardinality(page'[r]) = Cardinality(page[r]) - 1
      <4>1. Cardinality(body[r] \cup {m}) = Cardinality(body[r]) + 1
        BY <3>1, FS_AddElement
      <4>2. Cardinality(page[r] \ {i}) = Cardinality(page[r]) - 1
        <5>1. i \in page[r] /\ IsFiniteSet(page[r]) /\ Cardinality(page[r]) \in Nat
          BY <3>1, FS_CardinalityType
        <5> QED BY <5>1, OneLess
      <4> QED BY <4>1, <4>2
    <3>3. Cardinality(body[r]) \in Nat /\ Cardinality(page[r]) \in Nat
      BY <3>1, FS_CardinalityType
    <3>4. Cardinality(body'[r]) + Cardinality(page'[r]) = Size[kind]
      <4>1. Cardinality(body[r]) + Cardinality(page[r]) = Size[kind]
        BY <2>3 DEF Full
      <4> QED BY <3>2, <3>3, <4>1
    <3>5. ASSUME kind = "latest"
          PROVE  (\A j \in page'[r] : b.id < j) /\ (\A n \in body'[r] : b.id < n.id)
      BY <2>3, <3>5 DEF Full
    <3>6. Full(r, b)'
      BY <3>4, <3>5 DEF Full
    <3> QED BY <3>6 DEF Shown
  <2> QED BY <1>1, <2>1, <2>2, <2>3 DEF Shown
<1> QED BY <1>2, <1>3

\* A title of the index is looked up.
LEMMA LookKeeps == ASSUME IInv, NEW r \in Request, NEW i \in Product, Look(r, i) PROVE IInv'
<1> USE DEF IInv
<1>1. pc[r] = "look" /\ i \in page[r] /\ kind = "search" /\ i \in rows
  BY DEF Look, Sound, Placed, Known
<1>2. CASE Refuse(r) /\ "read" \in Faults /\ Spoil(r)
  <2>1. clean' = [clean EXCEPT ![r] = FALSE] /\ ~clean'[r]
    BY <1>2 DEF Spoil, TypeOK
  <2> QED BY <1>1, <1>2, <2>1, RefuseKeeps
<1>3. CASE /\ page' = [page EXCEPT ![r] = @ \ {i}]
           /\ body' = [body EXCEPT ![r] = @ \cup {Now(i)}]
           /\ UNCHANGED <<tables, cache, pc, base, child, clean>>
  <2>1. /\ page'[r] = page[r] \ {i} /\ body'[r] = body[r] \cup {Now(i)}
        /\ \A q \in Request \ {r} : page'[q] = page[q] /\ body'[q] = body[q]
    BY <1>3 DEF TypeOK
  <2>2. Now(i) \in Entry /\ Now(i).id = i /\ Now(i).price <= price[i]
    BY NowFacts
  <2>3. TypeOK'
    <3>1. page' \in [Request -> SUBSET Product]
      BY <1>3 DEF TypeOK
    <3>2. body[r] \cup {Now(i)} \in Body
      BY <2>2 DEF TypeOK, Body, Entry
    <3>3. body' \in [Request -> Body]
      BY <1>3, <3>2 DEF TypeOK
    <3> QED BY <1>3, <3>1, <3>3 DEF TypeOK, tables
  <2>4. Cached'
    BY <1>3 DEF Cached, Stored, tables
  <2>5. \A j \in Product : child'[<<r, j>>].pc = "none"
    BY <1>1, <1>3 DEF Sound, Owned
  <2>6. Owned(r)' /\ Placed(r)'
    BY <1>1, <1>3, <2>5 DEF Owned, Placed, tables
  <2>7. Known(r)'
    <3> DEFINE M == {Now(i)}
    <3>1. M \in SUBSET Entry /\ \A m \in M : m.id = i /\ m.price <= price[i]
      BY <2>2
    <3>2. IsFiniteSet(M)
      BY FS_Singleton
    <3>3. body'[r] = body[r] \cup M
      BY <2>1
    <3> HIDE DEF M
    <3> QED BY <1>1, <1>3, <2>1, <2>5, <3>1, <3>2, <3>3, TakeKnown
  <2>8. Begun(r)'
    BY <1>3 DEF Sound, Begun, tables
  <2>9. Whole(r)'
    <3> SUFFICES ASSUME clean[r] PROVE Whole(r)'
      BY <1>3 DEF Whole
    <3>1. \A b \in base[r] : b.id = i => b.price <= Now(i).price
      BY <1>1 DEF Sound, Begun, Now
    <3>2. \A b \in base[r] : Shown(r, b)'
      BY <1>1, <1>3, <2>1, <2>2, <3>1, TakeShown DEF tables
    <3> QED BY <1>1, <1>3, <2>5, <3>2 DEF Whole, tables
  <2>10. Sound(r)'
    BY <2>6, <2>7, <2>8, <2>9 DEF Sound
  <2> QED BY <1>3, <2>1, <2>3, <2>4, <2>10, Step
<1> QED BY <1>1, <1>2, <1>3 DEF Look
-----------------------------------------------------------------------------
\* A message is built, or nil.
LEMMA BuildMessageKeeps ==
  ASSUME IInv, NEW r \in Request, NEW i \in Product, BuildMessage(r, i) PROVE IInv'
<1> USE DEF IInv
<1>1. /\ child[<<r, i>>].pc = "read"
      /\ UNCHANGED <<tables, cache, pc, page, body, base>>
  BY DEF BuildMessage
<1>2. PICK e \in [pc : {"send", "nil"}, price : Nat] :
         /\ child' = [child EXCEPT ![<<r, i>>] = e]
         /\ e.pc = "send" => e.price <= price[i]
         /\ \/ clean' = clean /\ e.pc = "send" /\ e.price = price[i]
            \/ clean' = [clean EXCEPT ![r] = FALSE]
  <2>1. CASE /\ child' = [child EXCEPT ![<<r, i>>] = [pc |-> "send", price |-> price[i]]]
             /\ UNCHANGED clean
    <3> DEFINE f == [pc |-> "send", price |-> price[i]]
    <3>1. price[i] \in Nat
      BY DEF TypeOK
    <3>2. f \in [pc : {"send", "nil"}, price : Nat] /\ f.pc = "send" /\ f.price = price[i]
      BY <3>1
    <3>3. child' = [child EXCEPT ![<<r, i>>] = f]
      BY <2>1
    <3>4. f.price <= price[i] /\ UNCHANGED clean
      BY <2>1, <3>1, <3>2
    <3> HIDE DEF f
    <3> QED BY <3>2, <3>3, <3>4
  <2>2. CASE /\ \E p \in {0, price[i]} :
                   child' = [child EXCEPT ![<<r, i>>] = [pc |-> "send", price |-> p]]
             /\ Spoil(r)
    <3>1. PICK p \in {0, price[i]} :
                   child' = [child EXCEPT ![<<r, i>>] = [pc |-> "send", price |-> p]]
      BY <2>2
    <3>2. p \in Nat /\ p <= price[i]
      BY DEF TypeOK
    <3>3. [pc |-> "send", price |-> p] \in [pc : {"send", "nil"}, price : Nat]
      BY <3>2
    <3> QED BY <2>2, <3>1, <3>2, <3>3 DEF Spoil
  <2>3. CASE child' = [child EXCEPT ![<<r, i>>].pc = "nil"] /\ Spoil(r)
    <3> DEFINE c == child[<<r, i>>]
    <3>1. c \in [pc : {"none", "read", "send", "nil"}, price : Nat]
      BY DEF TypeOK
    <3>2. [c EXCEPT !.pc = "nil"] \in [pc : {"send", "nil"}, price : Nat]
      BY <3>1
    <3>3. [c EXCEPT !.pc = "nil"].pc # "send"
      BY <3>1
    <3>4. child' = [child EXCEPT ![<<r, i>>] = [c EXCEPT !.pc = "nil"]]
      BY <2>3
    <3> HIDE DEF c
    <3> QED BY <2>3, <3>2, <3>3, <3>4 DEF Spoil
  <2> QED BY <2>1, <2>2, <2>3 DEF BuildMessage
<1>3. pc[r] = "build" /\ i \in page[r]
  BY <1>1 DEF Sound, Owned
<1>4. /\ child'[<<r, i>>] = e
      /\ \A j \in Product \ {i} : child'[<<r, j>>] = child[<<r, j>>]
  BY <1>2 DEF TypeOK
<1>5. \A q \in Request \ {r} :
         /\ clean'[q] = clean[q]
         /\ \A j \in Product : child'[<<q, j>>] = child[<<q, j>>]
  BY <1>2 DEF TypeOK
<1>6. TypeOK'
  <2>1. child' \in [Request \X Product -> [pc : {"none", "read", "send", "nil"}, price : Nat]]
    BY <1>2 DEF TypeOK
  <2>2. clean' \in [Request -> BOOLEAN]
    BY <1>2 DEF TypeOK
  <2> QED BY <1>1, <2>1, <2>2 DEF TypeOK, tables
<1>7. Cached'
  BY <1>1 DEF Cached, Stored, tables
<1>8. Sound(r)'
  <2>1. Owned(r)'
    BY <1>1, <1>3, <1>4 DEF Sound, Owned
  <2>2. Placed(r)' /\ Begun(r)'
    BY <1>1 DEF Sound, Placed, Begun, tables
  <2>3. Known(r)'
    <3>1. \A j \in Product : child'[<<r, j>>].pc = "send" => child'[<<r, j>>].price <= price[j]
      BY <1>2, <1>4 DEF Sound, Known
    <3> QED BY <1>1, <3>1 DEF Sound, Known, tables
  <2>4. Whole(r)'
    <3> SUFFICES ASSUME clean'[r] PROVE Whole(r)'
      BY DEF Whole
    <3>1. clean[r] /\ e.pc = "send" /\ e.price = price[i]
      BY <1>2 DEF TypeOK
    <3>2. \A b \in base[r] : b.id = i => b.price <= e.price
      BY <3>1 DEF Sound, Begun
    <3>3. \A j \in Product :
             /\ child'[<<r, j>>].pc # "nil"
             /\ child'[<<r, j>>].pc = "send" =>
                   \A b \in base[r] : b.id = j => b.price <= child'[<<r, j>>].price
      BY <1>4, <3>1, <3>2 DEF Sound, Whole
    <3>4. \A b \in base[r] : Shown(r, b) => Shown(r, b)'
      BY <1>1 DEF Shown, Full, tables
    <3> QED BY <1>1, <1>3, <3>1, <3>3, <3>4 DEF Sound, Whole, tables
  <2> QED BY <2>1, <2>2, <2>3, <2>4 DEF Sound
<1> QED BY <1>1, <1>5, <1>6, <1>7, <1>8, Step

\* A message, or nil, is received.
LEMMA ReceiveKeeps == ASSUME IInv, NEW r \in Request, NEW i \in Product, Receive(r, i) PROVE IInv'
<1> USE DEF IInv
<1>1. /\ pc[r] = "build" /\ child[<<r, i>>].pc \in {"send", "nil"}
      /\ child' = [child EXCEPT ![<<r, i>>] = NoChild]
      /\ body' = [body EXCEPT ![r] = @ \cup Message(r, i)]
      /\ page' = [page EXCEPT ![r] = @ \ {i}]
      /\ UNCHANGED <<tables, cache, clean, base, pc>>
  BY DEF Receive, Sent
<1>2. i \in page[r]
  BY <1>1 DEF Sound, Owned
<1>3. /\ page'[r] = page[r] \ {i} /\ body'[r] = body[r] \cup Message(r, i)
      /\ child'[<<r, i>>].pc = "none"
      /\ \A j \in Product \ {i} : child'[<<r, j>>] = child[<<r, j>>]
  BY <1>1 DEF TypeOK, NoChild
<1>4. \A q \in Request \ {r} :
         /\ page'[q] = page[q] /\ body'[q] = body[q]
         /\ \A j \in Product : child'[<<q, j>>] = child[<<q, j>>]
  BY <1>1 DEF TypeOK
<1>5. /\ Message(r, i) \in SUBSET Entry /\ IsFiniteSet(Message(r, i))
      /\ \A m \in Message(r, i) : m.id = i /\ m.price <= price[i]
  <2>1. CASE child[<<r, i>>].pc = "nil"
    BY <2>1, FS_EmptySet DEF Message
  <2>2. CASE child[<<r, i>>].pc = "send"
    <3>1. child[<<r, i>>].price \in Nat /\ child[<<r, i>>].price <= price[i]
      BY <2>2 DEF TypeOK, Sound, Known
    <3> DEFINE m == [id |-> i, price |-> child[<<r, i>>].price]
    <3>2. m \in Entry /\ m.id = i /\ m.price <= price[i]
      BY <3>1 DEF Entry
    <3>3. Message(r, i) = {m}
      BY <2>2 DEF Message
    <3> HIDE DEF m
    <3>4. IsFiniteSet({m})
      BY FS_Singleton
    <3> QED BY <3>2, <3>3, <3>4
  <2> QED BY <1>1, <2>1, <2>2
<1>6. TypeOK'
  <2>1. child' \in [Request \X Product -> [pc : {"none", "read", "send", "nil"}, price : Nat]]
    BY <1>1 DEF TypeOK, NoChild
  <2>2. page' \in [Request -> SUBSET Product]
    BY <1>1 DEF TypeOK
  <2>3. body[r] \cup Message(r, i) \in Body
    BY <1>5 DEF TypeOK, Body, Entry
  <2>4. body' \in [Request -> Body]
    BY <1>1, <2>3 DEF TypeOK
  <2> QED BY <1>1, <2>1, <2>2, <2>4 DEF TypeOK, tables
<1>7. Cached'
  BY <1>1 DEF Cached, Stored, tables
<1>8. Sound(r)'
  <2>1. Owned(r)'
    <3>1. \A j \in Product : child'[<<r, j>>].pc # "none" <=> (pc'[r] = "build" /\ j \in page'[r])
      BY <1>1, <1>3 DEF Sound, Owned
    <3> QED BY <3>1 DEF Owned
  <2>2. Placed(r)' /\ Begun(r)'
    BY <1>1 DEF Sound, Placed, Begun, tables
  <2>3. Known(r)'
    <3>1. \A j \in Product : child'[<<r, j>>].pc = "send" => child'[<<r, j>>] = child[<<r, j>>]
      BY <1>3
    <3> QED BY <1>1, <1>2, <1>3, <1>5, <3>1, TakeKnown
  <2>4. Whole(r)'
    <3> SUFFICES ASSUME clean[r] PROVE Whole(r)'
      BY <1>1 DEF Whole
    <3>1. child[<<r, i>>].pc = "send"
      BY <1>1 DEF Sound, Whole
    <3> DEFINE m == [id |-> i, price |-> child[<<r, i>>].price]
    <3>2. Message(r, i) = {m} /\ m \in Entry /\ m.id = i
      BY <1>5, <3>1 DEF Message
    <3>3. \A b \in base[r] : b.id = i => b.price <= m.price
      BY <3>1 DEF Sound, Whole
    <3> HIDE DEF m
    <3>4. /\ kind = "product" => {n.id : n \in body'[r]} \cup page'[r] = {Wanted}
          /\ \A b \in base[r] : Shown(r, b)'
      BY <1>1, <1>2, <1>3, <3>2, <3>3, TakeShown DEF tables
    <3>5. \A j \in Product :
             /\ child'[<<r, j>>].pc # "nil"
             /\ child'[<<r, j>>].pc = "send" =>
                   \A b \in base[r] : b.id = j => b.price <= child'[<<r, j>>].price
      BY <1>3 DEF Sound, Whole
    <3> QED BY <1>1, <3>4, <3>5 DEF Whole, tables
  <2> QED BY <2>1, <2>2, <2>3, <2>4 DEF Sound
<1> QED BY <1>1, <1>4, <1>6, <1>7, <1>8, Step
-----------------------------------------------------------------------------
\* The answer is complete.
LEMMA BuiltKeeps == ASSUME IInv, NEW r \in Request, Built(r) PROVE IInv'
<1> USE DEF IInv
<1>1. /\ pc[r] \in {"build", "look"} /\ page[r] = {}
      /\ pc' = [pc EXCEPT ![r] = IF kind = "product" /\ body[r] = {} THEN "error" ELSE "set"]
      /\ UNCHANGED <<tables, cache, page, body, clean, base, child>>
  BY DEF Built, Goto
<1>2. /\ pc'[r] = IF kind = "product" /\ body[r] = {} THEN "error" ELSE "set"
      /\ \A q \in Request \ {r} : pc'[q] = pc[q]
  BY <1>1 DEF TypeOK
<1>3. TypeOK'
  BY <1>1 DEF TypeOK, tables
<1>4. Cached'
  BY <1>1 DEF Cached, Stored, tables
<1>5. \A i \in Product : child[<<r, i>>].pc = "none"
  BY <1>1 DEF Sound, Owned
<1>6. Sound(r)'
  <2>1. Owned(r)' /\ Placed(r)'
    BY <1>1, <1>2, <1>5 DEF Owned, Placed
  <2>2. Known(r)' /\ Begun(r)'
    BY <1>1 DEF Sound, Known, Begun, tables
  <2>3. Whole(r)'
    <3> SUFFICES ASSUME clean[r] PROVE Whole(r)'
      BY <1>1 DEF Whole
    <3>1. /\ kind = "product" => {m.id : m \in body[r]} \cup page[r] = {Wanted}
          /\ \A b \in base[r] : Shown(r, b)
      BY <1>1 DEF Sound, Whole
    <3>2. ~(kind = "product" /\ body[r] = {})
      BY <1>1, <3>1
    <3>3. \A b \in base[r] : Shown(r, b)'
      BY <1>1, <3>1 DEF Shown, Full, tables
    <3> QED BY <1>1, <1>2, <1>5, <3>1, <3>2, <3>3 DEF Whole, tables
  <2> QED BY <2>1, <2>2, <2>3 DEF Sound
<1> QED BY <1>1, <1>2, <1>3, <1>4, <1>6, Step

\* The request ends.
LEMMA ResetKeeps ==
  ASSUME IInv, NEW r \in Request, Reset(r), pc[r] \in {"set", "error"},
         cache' \in {None} \cup [body : Body, clean : BOOLEAN, age : 0 .. Life - 1], Cached'
  PROVE  IInv'
<1> USE DEF IInv
<1>1. /\ pc' = [pc EXCEPT ![r] = "idle"] /\ page' = [page EXCEPT ![r] = {}]
      /\ body' = [body EXCEPT ![r] = {}] /\ clean' = [clean EXCEPT ![r] = TRUE]
      /\ base' = [base EXCEPT ![r] = {}] /\ UNCHANGED <<tables, child>>
  BY DEF Reset, Goto
<1>2. /\ pc'[r] = "idle" /\ page'[r] = {} /\ body'[r] = {} /\ base'[r] = {}
      /\ \A q \in Request \ {r} :
            /\ pc'[q] = pc[q] /\ page'[q] = page[q] /\ body'[q] = body[q]
            /\ clean'[q] = clean[q] /\ base'[q] = base[q]
  BY <1>1 DEF TypeOK
<1>3. TypeOK'
  <2>1. {} \in Body
    BY DEF Body
  <2> QED BY <1>1, <2>1 DEF TypeOK, tables
<1>4. \A i \in Product : child'[<<r, i>>].pc = "none"
  BY <1>1 DEF Sound, Owned
<1>5. Sound(r)'
  <2>1. Owned(r)' /\ Placed(r)' /\ Begun(r)'
    BY <1>2, <1>4 DEF Owned, Placed, Begun
  <2>2. Known(r)' /\ Whole(r)'
    BY <1>2, <1>4, FS_EmptySet DEF Known, Whole
  <2> QED BY <2>1, <2>2 DEF Sound
<1> QED BY <1>1, <1>2, <1>3, <1>5, Step

\* The answer is cached and sent.
LEMMA SetKeeps == ASSUME IInv, NEW r \in Request, Set(r) PROVE IInv'
<1> USE DEF IInv
<1>1. pc[r] = "set" /\ Reset(r) /\ UNCHANGED tables
  BY DEF Set, Reset
<1>2. CASE cache' = [body |-> body[r], clean |-> clean[r], age |-> 0]
  <2>1. cache' \in [body : Body, clean : BOOLEAN, age : 0 .. Life - 1]
    BY <1>2 DEF TypeOK
  <2>2. ASSUME clean[r] PROVE Stored(body[r])
    <3>1. \A m \in body[r] : m.id \in rows /\ m.price <= price[m.id]
      BY DEF Sound, Known
    <3>2. page[r] = {} /\ (kind = "product" => {m.id : m \in body[r]} \cup page[r] = {Wanted})
      BY <1>1, <2>2 DEF Sound, Whole
    <3> QED BY <3>1, <3>2 DEF Stored
  <2>3. Cached'
    BY <1>1, <1>2, <2>2 DEF Cached, Stored, tables
  <2> QED BY <1>1, <2>1, <2>3, ResetKeeps
<1>3. CASE UNCHANGED cache
  <2>1. Cached'
    BY <1>1, <1>3 DEF Cached, Stored, tables
  <2> QED BY <1>1, <1>3, <2>1, ResetKeeps DEF TypeOK
<1> QED BY <1>2, <1>3 DEF Set

\* The error is sent.
LEMMA SendErrorKeeps == ASSUME IInv, NEW r \in Request, SendError(r) PROVE IInv'
<1> USE DEF IInv
<1>1. pc[r] = "error" /\ Reset(r) /\ UNCHANGED cache /\ UNCHANGED tables
  BY DEF SendError, Reset
<1>2. Cached'
  BY <1>1 DEF Cached, Stored, tables
<1> QED BY <1>1, <1>2, ResetKeeps DEF TypeOK
-----------------------------------------------------------------------------
\* Every step of the handlers, their goroutines, the worker and the clock keeps the
\* invariant.
LEMMA Inductive == IInv /\ [Next]_vars => IInv'
<1> SUFFICES ASSUME IInv, [Next]_vars PROVE IInv'
  OBVIOUS
<1>1. CASE Worker
  BY <1>1, WorkerKeeps
<1>2. CASE Age
  BY <1>2, AgeKeeps
<1>3. ASSUME NEW r \in Request, Ask(r) PROVE IInv'
  BY <1>3, AskKeeps
<1>4. ASSUME NEW r \in Request, Handle(r) PROVE IInv'
  <2>1. ASSUME NEW i \in Product, Look(r, i) \/ Receive(r, i) PROVE IInv'
    BY <2>1, LookKeeps, ReceiveKeeps
  <2>2. CASE FindLatest(r) \/ FindBrand(r) \/ FindListed(r) \/ FindProduct(r) \/ Search(r)
    BY <2>2, FindLatestKeeps, FindBrandKeeps, FindListedKeeps, FindProductKeeps, SearchKeeps
  <2>3. CASE Miss(r) \/ Hit(r) \/ Built(r) \/ Set(r) \/ SendError(r)
    BY <2>3, MissKeeps, HitKeeps, BuiltKeeps, SetKeeps, SendErrorKeeps
  <2> QED BY <1>4, <2>1, <2>2, <2>3 DEF Handle
<1>5. ASSUME NEW r \in Request, Building(r) PROVE IInv'
  BY <1>5, BuildMessageKeeps DEF Building
<1>6. CASE UNCHANGED vars
  <2> USE <1>6 DEF IInv, vars, tables, request
  <2>1. TypeOK'
    BY DEF TypeOK
  <2>2. Tables' /\ Cached'
    BY DEF Tables, Cached, Stored
  <2>3. \A i \in Product : price[i] <= price'[i]
    BY DEF TypeOK
  <2>4. ASSUME NEW q \in Request PROVE Sound(q)'
    BY <2>1, <2>3, Frame
  <2> QED BY <2>1, <2>2, <2>4
<1> QED BY <1>1, <1>2, <1>3, <1>4, <1>5, <1>6 DEF Next

\* It holds at all times.
LEMMA Invariant == Spec => []IInv
<1> QED BY InitIInv, Inductive, PTL DEF Spec

\* Types of the tables, the requests, their goroutines and the cache, under all
\* failures (handler.go, builder.go).
THEOREM TypeCorrect == Spec => []TypeOK
<1>1. IInv => TypeOK
  BY DEF IInv
<1> QED BY <1>1, Invariant, PTL

\* A goroutine that builds a message belongs to a request that still receives: the
\* channel is closed when as many messages came as goroutines were started
\* (handler.go:711-732).
THEOREM ChannelsStayOpen == Spec => []OpenForSends
<1>1. IInv => OpenForSends
  <2> SUFFICES ASSUME IInv, NEW c \in Request \X Product, child[c].pc # "none"
               PROVE  pc[c[1]] = "build"
    BY DEF OpenForSends
  <2>1. c[1] \in Request /\ c[2] \in Product /\ c = <<c[1], c[2]>>
    OBVIOUS
  <2>2. Owned(c[1])
    BY <2>1 DEF IInv, Sound
  <2> QED BY <2>1, <2>2 DEF Owned
<1> QED BY <1>1, Invariant, PTL

\* An answer whose SELECTs did not fail shows what is stored, and what was there
\* when its request missed the cache, unless newer products fill the page
\* (handler.go:463-735).
THEOREM AnswersAreTrue == Spec => []AnswersHold
<1>1. IInv => AnswersHold
  <2> SUFFICES ASSUME IInv PROVE AnswersHold
    OBVIOUS
  <2> USE DEF IInv
  <2>1. ASSUME NEW r \in Request, clean[r], pc[r] = "error" PROVE base[r] = {} /\ kind # "search"
    BY <2>1 DEF Sound, Whole
  <2>2. ASSUME NEW r \in Request, clean[r], pc[r] = "set" PROVE Stored(body[r])
    <3>1. page[r] = {} /\ (kind = "product" => {m.id : m \in body[r]} \cup page[r] = {Wanted})
      BY <2>2 DEF Sound, Whole
    <3>2. \A m \in body[r] : m.id \in rows /\ m.price <= price[m.id]
      BY DEF Sound, Known
    <3> QED BY <3>1, <3>2 DEF Stored
  <2>3. ASSUME NEW r \in Request, clean[r], pc[r] = "set", NEW b \in base[r]
        PROVE  \/ \E m \in body[r] : m.id = b.id /\ b.price <= m.price
               \/ /\ Cardinality(body[r]) = Size[kind]
                  /\ kind = "latest" => \A m \in body[r] : b.id < m.id
    <3>1. page[r] = {} /\ Shown(r, b)
      BY <2>3 DEF Sound, Whole
    <3>2. Cardinality(page[r]) = 0 /\ Cardinality(body[r]) \in Nat
      BY <3>1, FS_EmptySet, FS_CardinalityType DEF Sound, Known
    <3> QED BY <3>1, <3>2 DEF Shown, Full
  <2> QED BY <2>1, <2>2, <2>3 DEF AnswersHold, Cached
<1> QED BY <1>1, Invariant, PTL
-----------------------------------------------------------------------------
(***************************************************************************)
(* A request comes to its end: what liveness (Answered) rests on.          *)
(***************************************************************************)

\* The goroutines of a request that have not built their message.
Reading(r) == {i \in Product : child[<<r, i>>].pc = "read"}

\* How many steps a request and its goroutines may still take.
StepsLeft(r) ==
    CASE pc[r] = "idle"              -> 0
      [] pc[r] \in {"set", "error"}  -> 1
      [] pc[r] \in {"look", "build"} -> 2 + Cardinality(page[r]) + Cardinality(Reading(r))
      [] pc[r] = "links"             -> 3 + 2 * Size[kind]
      [] pc[r] = "find"              -> 4 + 2 * Size[kind]
      [] pc[r] = "get"               -> 5 + 2 * Size[kind]

\* Its own steps use them up, and nobody else's add to them.
Moves(r) ==
    /\ Ask(r) \/ StepsLeft(r)' <= StepsLeft(r)
    /\ Handle(r) \/ Building(r) => StepsLeft(r)' < StepsLeft(r)

Counts == {"look", "build"}

LEMMA Counted ==
  ASSUME IInv, NEW r \in Request
  PROVE  /\ Size[kind] \in Nat /\ Size[kind] > 0
         /\ IsFiniteSet(page[r]) /\ Cardinality(page[r]) \in Nat
         /\ IsFiniteSet(Reading(r)) /\ Cardinality(Reading(r)) \in Nat
         /\ Reading(r) \subseteq page[r]
         /\ pc[r] # "build" => Reading(r) = {}
         /\ StepsLeft(r) \in Nat
<1>1. Size[kind] \in Nat /\ Size[kind] > 0
  BY DEF IInv, TypeOK
<1>2. IsFiniteSet(page[r])
  BY FS_Subset DEF IInv, Tables, Sound, Known
<1>3. Reading(r) \subseteq page[r] /\ (pc[r] # "build" => Reading(r) = {})
  BY DEF IInv, Sound, Owned, Reading
<1>4. IsFiniteSet(Reading(r))
  BY <1>2, <1>3, FS_Subset
<1>5. Cardinality(page[r]) \in Nat /\ Cardinality(Reading(r)) \in Nat
  BY <1>2, <1>4, FS_CardinalityType
<1>6. pc[r] \in {"idle", "get", "find", "links", "look", "build", "set", "error"}
  BY DEF IInv, TypeOK
<1>7. StepsLeft(r) \in Nat
  BY <1>1, <1>5, <1>6 DEF StepsLeft
<1> QED BY <1>1, <1>2, <1>3, <1>4, <1>5, <1>7

\* Whoever neither moves nor is served has as much to do as before.
LEMMA SameSteps ==
  ASSUME NEW r \in Request, kind' = kind, pc'[r] = pc[r], page'[r] = page[r],
         \A i \in Product : child'[<<r, i>>] = child[<<r, i>>]
  PROVE  StepsLeft(r)' = StepsLeft(r)
<1>1. Reading(r)' = Reading(r)
  BY DEF Reading
<1> QED BY <1>1 DEF StepsLeft

\* A page has at most Size products, and each is read and received.
LEMMA BuildSteps ==
  ASSUME IInv, NEW r \in Request, NEW P \in SUBSET rows, Build(r, P), kind' = kind,
         Cardinality(P) <= Size[kind], pc[r] \in {"find", "links"}
  PROVE  StepsLeft(r)' < StepsLeft(r)
<1>1. pc'[r] = "build" /\ page'[r] = P
  BY DEF Build, Goto, IInv, TypeOK
<1>2. Reading(r)' = P
  <2>1. /\ \A i \in Product : child[<<r, i>>].pc = "none"
        /\ P \subseteq Product
    BY DEF IInv, TypeOK, Sound, Owned
  <2>2. \A i \in Product : child'[<<r, i>>].pc = "read" <=> i \in P
    BY <2>1 DEF Build, NoChild
  <2> QED BY <2>1, <2>2 DEF Reading
<1>3. Size[kind] \in Nat /\ Cardinality(P) \in Nat
  BY Counted, FS_Subset, FS_CardinalityType DEF IInv, Tables
<1>4. StepsLeft(r)' = 2 + Cardinality(P) + Cardinality(P)
  BY <1>1, <1>2 DEF StepsLeft
<1>5. StepsLeft(r) = 3 + 2 * Size[kind] \/ StepsLeft(r) = 4 + 2 * Size[kind]
  BY DEF StepsLeft
<1> QED BY <1>3, <1>4, <1>5

\* A message is received, or an id looked up.
LEMMA TakeSteps ==
  ASSUME IInv, NEW r \in Request, NEW i \in page[r], pc[r] \in Counts, pc' = pc,
         page'[r] = page[r] \ {i}, Reading(r)' = Reading(r)
  PROVE  StepsLeft(r)' < StepsLeft(r)
<1>1. Cardinality(page'[r]) = Cardinality(page[r]) - 1
  <2>1. IsFiniteSet(page[r])
    BY Counted
  <2>2. Cardinality(page[r] \ {i}) = Cardinality(page[r]) - 1
    BY <2>1, FS_RemoveElement
  <2> QED BY <2>2
<1>2. StepsLeft(r)' = 2 + Cardinality(page'[r]) + Cardinality(Reading(r))
  BY DEF StepsLeft, Counts
<1>3. StepsLeft(r) = 2 + Cardinality(page[r]) + Cardinality(Reading(r))
  BY DEF StepsLeft, Counts
<1> QED BY <1>1, <1>2, <1>3, Counted

\* Each step of a request or of its goroutines is one of those it had left.
LEMMA OwnSteps ==
  ASSUME IInv, NEW r \in Request, Handle(r) \/ Building(r)
  PROVE  StepsLeft(r)' < StepsLeft(r)
<1> DEFINE n == Size[kind]
<1>0. n \in Nat /\ n > 0
  BY Counted
<1>1. CASE Miss(r)
  <2>1. pc[r] = "get" /\ pc'[r] = "find" /\ kind' = kind
    BY <1>1 DEF Miss, Goto, IInv, TypeOK, tables
  <2>2. StepsLeft(r) = 5 + 2 * n /\ StepsLeft(r)' = 4 + 2 * n
    BY <2>1 DEF StepsLeft
  <2> QED BY <1>0, <2>2
<1>2. CASE Hit(r)
  <2>1. pc[r] = "get" /\ pc'[r] = "idle" /\ kind' = kind
    BY <1>2 DEF Hit, Goto, IInv, TypeOK, tables
  <2>2. StepsLeft(r) = 5 + 2 * n /\ StepsLeft(r)' = 0
    BY <2>1 DEF StepsLeft
  <2> QED BY <1>0, <2>2
<1>3. ASSUME Refuse(r), pc[r] \in {"find", "links", "look"} PROVE StepsLeft(r)' < StepsLeft(r)
  <2>1. StepsLeft(r)' = 1
    BY <1>3 DEF Refuse, Goto, IInv, TypeOK, StepsLeft
  <2>2. StepsLeft(r) >= 2
    BY <1>0, <1>3, Counted DEF StepsLeft
  <2> QED BY <2>1, <2>2, Counted
<1>4. Cardinality({}) = 0 /\ {} \in SUBSET rows
  BY FS_EmptySet
<1>5. CASE FindLatest(r)
  BY <1>0, <1>4, <1>5, BuildSteps DEF FindLatest, Latest, Limited, tables
<1>6. CASE FindListed(r)
  BY <1>0, <1>4, <1>6, BuildSteps DEF FindListed, Limited, tables, IInv, TypeOK
<1>7. CASE FindProduct(r)
  <2>1. ASSUME Wanted \in rows, Build(r, {Wanted}), UNCHANGED tables
        PROVE  StepsLeft(r)' < StepsLeft(r)
    <3>1. Cardinality({Wanted}) = 1
      BY FS_Singleton
    <3> QED BY <1>0, <1>7, <2>1, <3>1, BuildSteps DEF FindProduct, tables
  <2> QED BY <1>3, <1>7, <2>1 DEF FindProduct
<1>8. CASE FindBrand(r)
  <2>1. ASSUME pc[r] = "find", Goto(r, "links"), UNCHANGED tables
        PROVE  StepsLeft(r)' < StepsLeft(r)
    <3>1. pc'[r] = "links" /\ kind' = kind
      BY <2>1 DEF Goto, IInv, TypeOK, tables
    <3>2. StepsLeft(r) = 4 + 2 * n /\ StepsLeft(r)' = 3 + 2 * n
      BY <2>1, <3>1 DEF StepsLeft
    <3> QED BY <1>0, <3>2
  <2> QED BY <1>3, <1>8, <2>1 DEF FindBrand
<1>9. CASE Search(r)
  <2>1. ASSUME NEW P \in SUBSET index, Limited(P, index), page' = [page EXCEPT ![r] = P],
               pc[r] = "find", Goto(r, "look"), UNCHANGED <<tables, child>>
        PROVE  StepsLeft(r)' < StepsLeft(r)
    <3>1. pc'[r] = "look" /\ page'[r] = P /\ kind' = kind
      BY <2>1 DEF Goto, IInv, TypeOK, tables
    <3>2. Reading(r)' = {} /\ Cardinality({}) = 0
      BY <2>1, Counted, FS_EmptySet DEF Reading
    <3>3. Cardinality(P) \in Nat /\ Cardinality(P) <= n
      BY <2>1, FS_Subset, FS_CardinalityType DEF Limited, IInv, TypeOK, Tables
    <3>4. StepsLeft(r) = 4 + 2 * n /\ StepsLeft(r)' = 2 + Cardinality(P) + 0
      BY <2>1, <3>1, <3>2 DEF StepsLeft
    <3> QED BY <1>0, <3>3, <3>4
  <2> QED BY <1>3, <1>9, <2>1 DEF Search
<1>10. ASSUME NEW i \in Product, Look(r, i) PROVE StepsLeft(r)' < StepsLeft(r)
  <2>1. ASSUME page' = [page EXCEPT ![r] = @ \ {i}], UNCHANGED <<tables, pc, child>>
        PROVE  StepsLeft(r)' < StepsLeft(r)
    <3>1. page'[r] = page[r] \ {i} /\ Reading(r)' = Reading(r) /\ pc[r] \in Counts /\ i \in page[r]
      BY <1>10, <2>1 DEF Look, IInv, TypeOK, Reading, Counts
    <3> QED BY <2>1, <3>1, TakeSteps
  <2> QED BY <1>3, <1>10, <2>1 DEF Look
<1>11. ASSUME NEW i \in Product, Receive(r, i) PROVE StepsLeft(r)' < StepsLeft(r)
  <2>1. /\ pc[r] = "build" /\ child[<<r, i>>].pc \in {"send", "nil"} /\ pc' = pc
        /\ child' = [child EXCEPT ![<<r, i>>] = NoChild]
        /\ page' = [page EXCEPT ![r] = @ \ {i}]
    BY <1>11 DEF Receive, Sent
  <2>2. i \in page[r] /\ page'[r] = page[r] \ {i}
    BY <2>1 DEF IInv, TypeOK, Sound, Owned
  <2>3. \A j \in Product : child'[<<r, j>>].pc = "read" <=> child[<<r, j>>].pc = "read"
    BY <2>1 DEF IInv, TypeOK, NoChild
  <2>4. Reading(r)' = Reading(r)
    BY <2>3 DEF Reading
  <2> QED BY <2>1, <2>2, <2>4, TakeSteps DEF Counts
<1>12. CASE Built(r)
  <2>1. StepsLeft(r)' = 1
    BY <1>12 DEF Built, Goto, IInv, TypeOK, StepsLeft
  <2>2. StepsLeft(r) = 2 + Cardinality(page[r]) + Cardinality(Reading(r))
    BY <1>12 DEF Built, StepsLeft
  <2> QED BY <2>1, <2>2, Counted
<1>13. CASE Set(r) \/ SendError(r)
  <2>1. pc'[r] = "idle" /\ pc[r] \in {"set", "error"}
    BY <1>13 DEF Set, SendError, Reset, Goto, IInv, TypeOK
  <2> QED BY <2>1 DEF StepsLeft
<1>14. ASSUME NEW i \in Product, BuildMessage(r, i) PROVE StepsLeft(r)' < StepsLeft(r)
  <2>1. /\ child[<<r, i>>].pc = "read" /\ child'[<<r, i>>].pc # "read"
        /\ \A j \in Product \ {i} : child'[<<r, j>>] = child[<<r, j>>]
        /\ UNCHANGED <<tables, pc, page>>
    BY <1>14 DEF BuildMessage, IInv, TypeOK
  <2>2. i \in Reading(r) /\ Reading(r)' = Reading(r) \ {i} /\ pc[r] = "build"
    BY <2>1, Counted DEF Reading
  <2>3. Cardinality(Reading(r)') = Cardinality(Reading(r)) - 1
    BY <2>2, Counted, FS_RemoveElement
  <2>4. /\ StepsLeft(r) = 2 + Cardinality(page[r]) + Cardinality(Reading(r))
        /\ StepsLeft(r)' = 2 + Cardinality(page[r]) + Cardinality(Reading(r)')
    BY <2>1, <2>2 DEF StepsLeft
  <2> QED BY <2>3, <2>4, Counted
<1> QED
  BY <1>1, <1>2, <1>5, <1>6, <1>7, <1>8, <1>9, <1>10, <1>11, <1>12, <1>13, <1>14
  DEF Handle, Building

\* A step of another goroutine leaves a request where it is.
LEMMA OthersSteps ==
  ASSUME IInv, [Next]_vars, NEW r \in Request, ~Ask(r), ~Handle(r), ~Building(r)
  PROVE  StepsLeft(r)' = StepsLeft(r)
<1> SUFFICES /\ kind' = kind /\ pc'[r] = pc[r] /\ page'[r] = page[r]
             /\ \A i \in Product : child'[<<r, i>>] = child[<<r, i>>]
  BY SameSteps
<1> USE DEF IInv, TypeOK
<1>1. CASE Worker \/ Age \/ UNCHANGED vars
  BY <1>1 DEF Worker, StoreBrand, LinkBrand, Digest, StorePrice, StoreProduct, Age, vars, tables,
              request
<1>2. ASSUME NEW q \in Request \ {r}, Ask(q)
      PROVE  /\ kind' = kind /\ pc'[r] = pc[r] /\ page'[r] = page[r]
             /\ \A i \in Product : child'[<<r, i>>] = child[<<r, i>>]
  BY <1>2 DEF Ask, Goto, tables
<1>3. ASSUME NEW q \in Request \ {r}, Building(q)
      PROVE  /\ kind' = kind /\ pc'[r] = pc[r] /\ page'[r] = page[r]
             /\ \A i \in Product : child'[<<r, i>>] = child[<<r, i>>]
  BY <1>3 DEF Building, BuildMessage, tables
<1>4. ASSUME NEW q \in Request \ {r}, Handle(q)
      PROVE  /\ kind' = kind /\ pc'[r] = pc[r] /\ page'[r] = page[r]
             /\ \A i \in Product : child'[<<r, i>>] = child[<<r, i>>]
  <2>1. CASE Miss(q) \/ Hit(q) \/ Built(q)
    BY <1>4, <2>1 DEF Miss, Hit, Built, Goto, tables
  <2>2. CASE FindLatest(q) \/ FindListed(q)
    BY <1>4, <2>2 DEF FindLatest, FindListed, Build, Goto, tables
  <2>3. CASE FindBrand(q) \/ FindProduct(q)
    BY <1>4, <2>3 DEF FindBrand, FindProduct, Build, Refuse, Goto, tables
  <2>4. CASE Search(q)
    BY <1>4, <2>4 DEF Search, Refuse, Goto, tables
  <2>5. ASSUME NEW i \in Product, Look(q, i) \/ Receive(q, i)
        PROVE  /\ kind' = kind /\ pc'[r] = pc[r] /\ page'[r] = page[r]
               /\ \A j \in Product : child'[<<r, j>>] = child[<<r, j>>]
    BY <1>4, <2>5 DEF Look, Receive, Sent, Refuse, Goto, tables
  <2>6. CASE Set(q) \/ SendError(q)
    BY <1>4, <2>6 DEF Set, SendError, Reset, Goto, tables
  <2> QED BY <1>4, <2>1, <2>2, <2>3, <2>4, <2>5, <2>6 DEF Handle
<1> QED BY <1>1, <1>2, <1>3, <1>4 DEF Next

\* What the requests ask for never changes.
LEMMA KindStays == [Next]_vars => kind' = kind
<1> SUFFICES ASSUME [Next]_vars PROVE kind' = kind
  OBVIOUS
<1>1. CASE Worker \/ Age \/ UNCHANGED vars
  BY <1>1 DEF Worker, StoreBrand, LinkBrand, Digest, StorePrice, StoreProduct, Age, vars, tables
<1>2. ASSUME NEW r \in Request, Ask(r) \/ Building(r) PROVE kind' = kind
  BY <1>2 DEF Ask, Building, BuildMessage, tables
<1>3. ASSUME NEW r \in Request, Handle(r) PROVE kind' = kind
  BY <1>3 DEF Handle, Miss, Hit, FindLatest, FindBrand, FindListed, FindProduct, Search, Look,
              Receive, Sent, Built, Set, SendError, Reset, Refuse, tables
<1> QED BY <1>1, <1>2, <1>3 DEF Next

\* A request for a page of n products takes at most 5 + 2n steps with its
\* goroutines, whatever fails and whoever else asks.
Bounded == \A r \in Request : StepsLeft(r) \in 0 .. 5 + 2 * Size[kind]

\* While it waits for messages, each of them is still built or waits for it.
Served == \A r \in Request : pc[r] = "build" =>
             \A i \in page[r] : i \in Reading(r) \/ child[<<r, i>>].pc \in {"send", "nil"}

LEMMA StepsAreNumbers == IInv => \A r \in Request : StepsLeft(r) \in Nat
  BY Counted

\* No request goes on for ever or waits for a message that nobody sends, and
\* none is delayed by another: with fair goroutines it is answered (Answered;
\* handler.go:41-71, 711-732).
THEOREM RequestsFinish ==
  Spec => [](Bounded /\ Served) /\ [][\A r \in Request : Moves(r)]_vars
<1>1. IInv' => (\A r \in Request : StepsLeft(r) \in Nat)'
  BY StepsAreNumbers, PTL
<1>2. IInv /\ [Next]_vars => \A r \in Request : Moves(r)
  <2> SUFFICES ASSUME IInv, [Next]_vars, NEW r \in Request PROVE Moves(r)
    OBVIOUS
  <2>1. StepsLeft(r) \in Nat /\ StepsLeft(r)' \in Nat
    BY <1>1, Inductive, StepsAreNumbers
  <2>2. CASE Handle(r) \/ Building(r)
    <3>1. StepsLeft(r)' < StepsLeft(r)
      BY <2>2, OwnSteps
    <3>2. StepsLeft(r)' <= StepsLeft(r)
      BY <2>1, <3>1
    <3> QED BY <3>1, <3>2 DEF Moves
  <2>3. CASE ~Ask(r) /\ ~Handle(r) /\ ~Building(r)
    <3>1. StepsLeft(r)' <= StepsLeft(r)
      BY <2>1, <2>3, OthersSteps
    <3> QED BY <2>3, <3>1 DEF Moves
  <2> QED BY <2>2, <2>3 DEF Moves
<1>3. Init => Bounded
  <2> SUFFICES ASSUME Init, NEW r \in Request PROVE StepsLeft(r) \in 0 .. 5 + 2 * Size[kind]
    BY DEF Bounded
  <2>1. StepsLeft(r) = 0 /\ Size[kind] \in Nat
    BY DEF Init, StepsLeft
  <2> QED BY <2>1
<1>4. IInv /\ Bounded /\ [Next]_vars => Bounded'
  <2> SUFFICES ASSUME IInv, Bounded, [Next]_vars, NEW r \in Request
               PROVE  StepsLeft(r)' \in 0 .. 5 + 2 * Size'[kind']
    BY DEF Bounded
  <2> DEFINE n == Size[kind]
             most == 5 + 2 * n
  <2>1. kind' = kind /\ n \in Nat /\ Moves(r)
    BY <1>2, KindStays, Counted
  <2>2. StepsLeft(r)' \in Nat /\ StepsLeft(r) \in 0 .. most
    BY <1>1, Inductive DEF Bounded
  <2>3. CASE Ask(r)
    <3>1. pc'[r] = "get"
      BY <2>3 DEF Ask, Goto, IInv, TypeOK
    <3>2. StepsLeft(r)' = most
      BY <2>1, <3>1 DEF StepsLeft
    <3> QED BY <2>1, <2>2, <3>2
  <2>4. CASE StepsLeft(r)' <= StepsLeft(r)
    BY <2>1, <2>2, <2>4
  <2> QED BY <2>1, <2>3, <2>4 DEF Moves
<1>5. IInv => Served
  <2> SUFFICES ASSUME IInv, NEW r \in Request, pc[r] = "build", NEW i \in page[r]
               PROVE  i \in Reading(r) \/ child[<<r, i>>].pc \in {"send", "nil"}
    BY DEF Served
  <2>1. i \in Product /\ child[<<r, i>>].pc \in {"read", "send", "nil"}
    BY DEF IInv, TypeOK, Sound, Owned
  <2> QED BY <2>1 DEF Reading
<1> QED BY <1>2, <1>3, <1>4, <1>5, Invariant, PTL DEF Spec
===============================================================================
