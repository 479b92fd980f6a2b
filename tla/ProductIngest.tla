---------------------------- MODULE ProductIngest ----------------------------
(***************************************************************************)
(* The consumers of the new-product queue (takealot/queue/new_product.go): *)
(* concurrent handlers that take a task from NSQ, fetch the product, and   *)
(* write product, images, price, brand and categories to MariaDB under     *)
(* Redis leases, starting a goroutine per row that announces it to the     *)
(* search index.                                                           *)
(*                                                                         *)
(* One action is one interaction of a handler with Redis or MariaDB: what  *)
(* another handler can come between.  Faults switches on the failures a    *)
(* run allows, so that a property is checked under exactly the failures it *)
(* survives.                                                               *)
(***************************************************************************)
EXTENDS Naturals

CONSTANTS
    Worker,         \* handler goroutines of all nodes, one task each
    Msg,            \* new-product tasks
    Plid,           \* Takealot product-line ids
    Brand,          \* brand names, the key of a brand lock
    Category,       \* upper-cased category names
    PlidOf,         \* the PLID a task carries
    EntitiesOf,     \* what the API answers: a product's brand and categories
    RowName,        \* how the database's collation reads a name
    GallerySize,    \* images of a product
    MaxAttempts,    \* go-nsq's limit on deliveries of one message
    Faults,         \* the failures that may happen
    Zero,           \* gorm's ID of a row that was not inserted
    NoEntity,       \* no brand or category in hand
    NoWorker,       \* nobody owns the message
    NoMsg,          \* no message in hand
    Free, Orphan    \* a lease nobody has, a lease nobody will release

Entity == Brand \cup Category
Key    == Plid \cup Entity          \* one Redis key per PLID, brand, category
Row    == (Plid \cup {Zero}) \X (Entity \cup {Zero})

\* "crash"   a process ends, log.Fatalln included
\* "lease"   a lease runs out while its holder works on
\* "busy"    Obtain gives up after its five tries
\* "redis"   a TTL or a release call fails
\* "commit"  Commit returns an error, its rows stored or not
\* "read"    a SELECT fails, which FirstOrInit turns into "no row"
\* "publish" nsqd refuses a digest
\* "timeout" nsqd requeues a message that is still being handled
AllFaults == {"crash", "lease", "busy", "redis", "commit", "read",
              "publish", "timeout"}

ASSUME TasksAssumption ==
    /\ PlidOf \in [Msg -> Plid]
    /\ EntitiesOf \in [Plid -> SUBSET Entity]
    /\ RowName \in [Entity -> Entity]
    /\ GallerySize \in Nat
    /\ MaxAttempts \in Nat
    /\ Faults \subseteq AllFaults

ASSUME NamesAssumption ==
    /\ Plid \cap Entity = {}
    /\ Zero \notin Key
    /\ NoEntity \notin Key
    /\ NoWorker \notin Worker
    /\ NoMsg \notin Msg
    /\ Free \notin Worker
    /\ Orphan \notin Worker
    /\ Free # Orphan

VARIABLES
    status,         \* nsqd: where each message is
    owner,          \* nsqd: the worker whose FIN or REQ counts
    attempts,       \* nsqd: deliveries of each message
    lock,           \* Redis: who has the lease of each key
    product, entity, images, priced, link,      \* MariaDB, see Catalog
    pending,        \* digests whose goroutine has not published yet
    digested,       \* ids published for the search index
    pc,             \* handler: its next call
    job,            \* handler: the message it works on
    pid,            \* handler: productID
    img,            \* handler: images stored by this call
    todo,           \* handler: brand and categories not yet linked
    cur,            \* handler: the brand or category being linked
    eid             \* handler: its row's ID

nsq    == <<status, owner, attempts>>
db     == <<product, entity, images, priced, link>>
digest == <<pending, digested>>
local  == <<job, pid, img, todo, cur, eid>>
vars   == <<nsq, lock, db, digest, pc, local>>

Plids(w) == PlidOf[job[w]]          \* the PLID worker w works on

\* Mutant: brands and categories are locked under the product's key.
KeyOf_Product(w) == Plids(w)

\* The Redis key the worker locks or has locked.
KeyOf(w) == IF cur[w] = NoEntity THEN Plids(w) ELSE cur[w]

InProduct  == {"exists", "find", "create", "unlockSeen", "unlockNew", "unlockFail"}
InEntity   == {"entFind", "entCreate", "entLink", "entUnlock", "entFail"}
Section    == InProduct \cup InEntity           \* between Obtain and Release
Outside    == {"idle", "fetch", "lock", "images", "price", "entities", "entLock"}

Init ==
    /\ status = [m \in Msg |-> "queued"]
    /\ owner = [m \in Msg |-> NoWorker]
    /\ attempts = [m \in Msg |-> 0]
    /\ lock = [k \in Key |-> Free]
    /\ product = {}
    /\ entity = {}
    /\ images = [p \in Plid |-> 0]
    /\ priced = {}
    /\ link = [r \in Row |-> 0]
    /\ pending = [w \in Worker |-> {}]
    /\ digested = {}
    /\ pc = [w \in Worker |-> "idle"]
    /\ job = [w \in Worker |-> NoMsg]
    /\ pid = [w \in Worker |-> Zero]
    /\ img = [w \in Worker |-> 0]
    /\ todo = [w \in Worker |-> {}]
    /\ cur = [w \in Worker |-> NoEntity]
    /\ eid = [w \in Worker |-> Zero]
-----------------------------------------------------------------------------
(***************************************************************************)
(* NSQ.                                                                    *)
(***************************************************************************)

\* Mutant: one delivery too many.
Deliver_Late(w, m) ==
    /\ pc[w] = "idle"
    /\ status[m] = "queued"
    /\ attempts[m] <= MaxAttempts
    /\ status' = [status EXCEPT ![m] = "inflight"]
    /\ owner' = [owner EXCEPT ![m] = w]
    /\ attempts' = [attempts EXCEPT ![m] = @ + 1]
    /\ pc' = [pc EXCEPT ![w] = "fetch"]
    /\ job' = [job EXCEPT ![w] = m]
    /\ UNCHANGED <<lock, db, digest, pid, img, todo, cur, eid>>

\* A free handler is given a queued message.
Deliver(w, m) ==
    /\ pc[w] = "idle"
    /\ status[m] = "queued"
    /\ attempts[m] < MaxAttempts
    /\ status' = [status EXCEPT ![m] = "inflight"]
    /\ owner' = [owner EXCEPT ![m] = w]
    /\ attempts' = [attempts EXCEPT ![m] = @ + 1]
    /\ pc' = [pc EXCEPT ![w] = "fetch"]
    /\ job' = [job EXCEPT ![w] = m]
    /\ UNCHANGED <<lock, db, digest, pid, img, todo, cur, eid>>

\* Mutant: a message that came too often is published again.
GiveUp_Requeue(w, m) ==
    /\ pc[w] = "idle"
    /\ status[m] = "queued"
    /\ attempts[m] = MaxAttempts
    /\ attempts' = [attempts EXCEPT ![m] = 0]
    /\ UNCHANGED <<status, owner, lock, db, digest, pc, local>>

\* go-nsq finishes a message that came too often, without calling the handler.
GiveUp(w, m) ==
    /\ pc[w] = "idle"
    /\ status[m] = "queued"
    /\ attempts[m] = MaxAttempts
    /\ status' = [status EXCEPT ![m] = "dropped"]
    /\ UNCHANGED <<owner, attempts, lock, db, digest, pc, local>>

\* nsqd's message timeout: the message is queued again, its handler goes on.
Timeout(m) ==
    /\ "timeout" \in Faults
    /\ status[m] = "inflight"
    /\ status' = [status EXCEPT ![m] = "queued"]
    /\ owner' = [owner EXCEPT ![m] = NoWorker]
    /\ UNCHANGED <<attempts, lock, db, digest, pc, local>>

\* The handler returns: FIN or REQ, which nsqd ignores from a former owner.
Return(w, answer) ==
    /\ IF owner[job[w]] = w
         THEN /\ status' = [status EXCEPT ![job[w]] = answer]
              /\ owner' = [owner EXCEPT ![job[w]] = NoWorker]
         ELSE UNCHANGED <<status, owner>>
    /\ pc' = [pc EXCEPT ![w] = "idle"]
    /\ job' = [job EXCEPT ![w] = NoMsg]
    /\ pid' = [pid EXCEPT ![w] = Zero]
    /\ img' = [img EXCEPT ![w] = 0]
    /\ todo' = [todo EXCEPT ![w] = {}]
    /\ cur' = [cur EXCEPT ![w] = NoEntity]
    /\ eid' = [eid EXCEPT ![w] = Zero]
    /\ UNCHANGED attempts

\* Mutant: errors are logged and nil is returned.
Fail_Finished(w) == Return(w, "recorded")

\* The handler returns an error.
Fail(w) == Return(w, "queued")

-----------------------------------------------------------------------------
(***************************************************************************)
(* Redis leases and the outcome of Commit.                                 *)
(***************************************************************************)

\* Mutant: the answer that the lock is taken is not looked at.
Obtain_Unlocked(w, next) ==
    /\ lock' = [lock EXCEPT ![KeyOf(w)] = w]
    /\ pc' = [pc EXCEPT ![w] = next]
    /\ UNCHANGED <<nsq, db, digest, local>>

\* Obtain succeeds and so does the TTL call that follows it.
Obtain(w, next) ==
    /\ lock[KeyOf(w)] = Free
    /\ lock' = [lock EXCEPT ![KeyOf(w)] = w]
    /\ pc' = [pc EXCEPT ![w] = next]
    /\ UNCHANGED <<nsq, db, digest, local>>

\* Obtain gives up, or the TTL call fails and the lease is left behind.
NotObtained(w) ==
    /\ \/ /\ "busy" \in Faults
          /\ lock[KeyOf(w)] # Free
          /\ UNCHANGED lock
       \/ /\ "redis" \in Faults
          /\ lock[KeyOf(w)] = Free
          /\ lock' = [lock EXCEPT ![KeyOf(w)] = Orphan]
    /\ Fail(w)
    /\ UNCHANGED <<db, digest>>

\* Release removes the caller's own lease only; an error is logged.
Release(w) ==
    \/ lock' = [lock EXCEPT ![KeyOf(w)] = IF @ = w THEN Free ELSE @]
    \/ /\ "redis" \in Faults
       /\ lock' = [lock EXCEPT ![KeyOf(w)] = IF @ = w THEN Orphan ELSE @]

\* A lease runs out: at any time once orphaned, else as Faults allows.
LeaseLapse(k) ==
    /\ \/ lock[k] = Orphan
       \/ "lease" \in Faults /\ lock[k] \in Worker
    /\ lock' = [lock EXCEPT ![k] = Free]
    /\ UNCHANGED <<nsq, db, digest, pc, local>>

\* Mutant: a failed Commit of a brand or category is not noticed.
Rollback_Ignored(w, next) ==
    /\ "commit" \in Faults
    /\ pc' = [pc EXCEPT ![w] = IF next = "entFail" THEN "entLink" ELSE next]
    /\ eid' = [eid EXCEPT ![w] = IF next = "entFail" THEN RowName[cur[w]] ELSE @]
    /\ UNCHANGED <<nsq, lock, db, digest, job, pid, img, todo, cur>>

\* Commit fails and the transaction has no effect.
Rollback(w, next) ==
    /\ "commit" \in Faults
    /\ pc' = [pc EXCEPT ![w] = next]
    /\ UNCHANGED <<nsq, lock, db, digest, local>>

\* Mutant: one goroutine, whose argument a second call overwrites.
GoDigest_Last(w, id) ==
    /\ pending' = [pending EXCEPT ![w] = {id}]
    /\ UNCHANGED digested

\* go publishSonicDigest(id, ...)
GoDigest(w, id) ==
    /\ pending' = [pending EXCEPT ![w] = @ \cup {id}]
    /\ UNCHANGED digested

-----------------------------------------------------------------------------
(***************************************************************************)
(* HandleMessage up to the release of the product lock.                    *)
(***************************************************************************)

Fetch(w) ==
    /\ pc[w] = "fetch"
    /\ pc' = [pc EXCEPT ![w] = "lock"]
    /\ UNCHANGED <<nsq, lock, db, digest, local>>

\* The API fails: the task is finished, not retried.
FetchFails(w) ==
    /\ pc[w] = "fetch"
    /\ Return(w, "ignored")
    /\ UNCHANGED <<lock, db, digest>>

LockProduct(w) ==
    /\ pc[w] = "lock"
    /\ Obtain(w, "exists") \/ NotObtained(w)

\* Mutant: no early return for a product that exists.
Exists_Never(w) ==
    /\ pc[w] = "exists"
    /\ pc' = [pc EXCEPT ![w] = "find"]
    /\ UNCHANGED <<nsq, lock, db, digest, local>>

\* ProductModelExistsByPLID
Exists(w) ==
    /\ pc[w] = "exists"
    /\ \/ /\ Plids(w) \in product
          /\ pid' = [pid EXCEPT ![w] = Plids(w)]
          /\ pc' = [pc EXCEPT ![w] = "unlockSeen"]
       \/ /\ Plids(w) \notin product \/ "read" \in Faults
          /\ pc' = [pc EXCEPT ![w] = "find"]
          /\ UNCHANGED pid
    /\ UNCHANGED <<nsq, lock, db, digest, job, img, todo, cur, eid>>

\* The product's ID is known: what persistProduct and its caller do next.
HaveProduct(w, id) ==
    /\ pid' = [pid EXCEPT ![w] = id]
    /\ todo' = [todo EXCEPT ![w] = EntitiesOf[Plids(w)]]
    /\ pc' = [pc EXCEPT ![w] = "unlockNew"]
    /\ GoDigest(w, id)
    /\ UNCHANGED <<job, img, cur, eid>>

\* UpsertProductModel: the SELECT and, if it finds a row, the Commit.
FindProduct(w) ==
    /\ pc[w] = "find"
    /\ \/ /\ Plids(w) \in product
          /\ HaveProduct(w, Plids(w))
          /\ UNCHANGED <<nsq, lock, db>>
       \/ /\ Plids(w) \notin product \/ "read" \in Faults
          /\ pc' = [pc EXCEPT ![w] = "create"]
          /\ UNCHANGED <<nsq, lock, db, digest, local>>
       \/ Rollback(w, "unlockFail")

\* UpsertProductModel: the INSERT and the Commit.  A duplicate key is an
\* error of Create, which nobody reads: Commit succeeds and the ID stays 0.
CreateProduct(w) ==
    /\ pc[w] = "create"
    /\ \/ /\ product' = product \cup {Plids(w)}
          /\ HaveProduct(w, IF Plids(w) \in product THEN Zero ELSE Plids(w))
          /\ UNCHANGED <<nsq, lock, entity, images, priced, link>>
       \/ /\ "commit" \in Faults        \* applied, yet an error is returned
          /\ product' = product \cup {Plids(w)}
          /\ pc' = [pc EXCEPT ![w] = "unlockFail"]
          /\ UNCHANGED <<nsq, lock, entity, images, priced, link, digest, local>>
       \/ Rollback(w, "unlockFail")

UnlockProduct(w) ==
    \/ /\ pc[w] \in {"unlockSeen", "unlockNew"}
       /\ Release(w)
       /\ pc' = [pc EXCEPT ![w] = IF @ = "unlockSeen" THEN "price" ELSE "images"]
       /\ UNCHANGED <<nsq, db, digest, local>>
    \/ /\ pc[w] = "unlockFail"
       /\ Release(w)
       /\ Fail(w)
       /\ UNCHANGED <<db, digest>>

-----------------------------------------------------------------------------
(***************************************************************************)
(* persistImages and persistPrice.  A row whose product_id is 0 breaks the *)
(* foreign key: Create fails, and Commit succeeds all the same.            *)
(***************************************************************************)

InsertImage(w) ==
    images' = IF pid[w] = Zero THEN images
                               ELSE [images EXCEPT ![pid[w]] = @ + 1]

PersistImage(w) ==
    /\ pc[w] = "images"
    /\ img[w] < GallerySize
    /\ \/ /\ InsertImage(w)
          /\ img' = [img EXCEPT ![w] = @ + 1]
          /\ UNCHANGED <<nsq, pc, job, pid, todo, cur, eid>>
       \/ /\ "commit" \in Faults
          /\ InsertImage(w) \/ UNCHANGED images
          /\ Fail(w)
    /\ UNCHANGED <<lock, product, entity, priced, link, digest>>

ImagesDone(w) ==
    /\ pc[w] = "images"
    /\ img[w] = GallerySize
    /\ pc' = [pc EXCEPT ![w] = "price"]
    /\ UNCHANGED <<nsq, lock, db, digest, local>>

InsertPrice(w) ==
    priced' = IF pid[w] = Zero THEN priced ELSE priced \cup {job[w]}

PersistPrice(w) ==
    /\ pc[w] = "price"
    /\ \/ /\ InsertPrice(w)
          /\ pc' = [pc EXCEPT ![w] = "entities"]
          /\ UNCHANGED <<nsq, local>>
       \/ /\ "commit" \in Faults
          /\ InsertPrice(w) \/ UNCHANGED priced
          /\ Fail(w)
    /\ UNCHANGED <<lock, product, entity, images, link, digest>>

-----------------------------------------------------------------------------
(***************************************************************************)
(* createBrand and createCategories: the brand first, then the categories  *)
(* in the order of a map, that is in any order.                            *)
(***************************************************************************)

\* Mutant: categories are left for later.
Finish_Early(w) ==
    /\ pc[w] = "entities"
    /\ todo[w] \cap Brand = {}
    /\ Return(w, "recorded")
    /\ UNCHANGED <<lock, db, digest>>

\* Nothing is left to link: HandleMessage returns nil.
Finish(w) ==
    /\ pc[w] = "entities"
    /\ todo[w] = {}
    /\ Return(w, "recorded")
    /\ UNCHANGED <<lock, db, digest>>

NextEntity(w, e) ==
    /\ pc[w] = "entities"
    /\ e \in todo[w]
    /\ e \in Brand \/ todo[w] \cap Brand = {}
    /\ cur' = [cur EXCEPT ![w] = e]
    /\ todo' = [todo EXCEPT ![w] = @ \ {e}]
    /\ pc' = [pc EXCEPT ![w] = "entLock"]
    /\ UNCHANGED <<nsq, lock, db, digest, job, pid, img, eid>>

LockEntity(w) ==
    /\ pc[w] = "entLock"
    /\ Obtain(w, "entFind") \/ NotObtained(w)

\* UpsertBrandModel, UpsertCategoryModel: the SELECT, and the Commit if it
\* finds a row.
FindEntity(w) ==
    /\ pc[w] = "entFind"
    /\ \/ /\ RowName[cur[w]] \in entity
          /\ eid' = [eid EXCEPT ![w] = RowName[cur[w]]]
          /\ pc' = [pc EXCEPT ![w] = "entLink"]
          /\ UNCHANGED <<nsq, lock, db, digest, job, pid, img, todo, cur>>
       \/ /\ RowName[cur[w]] \notin entity \/ "read" \in Faults
          /\ pc' = [pc EXCEPT ![w] = "entCreate"]
          /\ UNCHANGED <<nsq, lock, db, digest, local>>
       \/ Rollback(w, "entFail")

\* The INSERT and the Commit; a duplicate name leaves the ID 0.
CreateEntity(w) ==
    /\ pc[w] = "entCreate"
    /\ \/ /\ entity' = entity \cup {RowName[cur[w]]}
          /\ eid' = [eid EXCEPT ![w] =
                       IF RowName[cur[w]] \in entity THEN Zero ELSE RowName[cur[w]]]
          /\ pc' = [pc EXCEPT ![w] = "entLink"]
          /\ UNCHANGED <<nsq, lock, product, images, priced, link, digest,
                         job, pid, img, todo, cur>>
       \/ /\ "commit" \in Faults        \* applied, yet an error is returned
          /\ entity' = entity \cup {RowName[cur[w]]}
          /\ pc' = [pc EXCEPT ![w] = "entFail"]
          /\ UNCHANGED <<nsq, lock, product, images, priced, link, digest, local>>
       \/ Rollback(w, "entFail")

\* Create...LinkModel: the link tables have no unique and no foreign key.
LinkEntity(w) ==
    /\ pc[w] = "entLink"
    /\ \/ /\ link' = [link EXCEPT ![<<pid[w], eid[w]>>] = @ + 1]
          /\ \/ /\ pc' = [pc EXCEPT ![w] = "entUnlock"]
                /\ GoDigest(w, eid[w])
             \/ /\ "commit" \in Faults  \* applied, yet an error is returned
                /\ pc' = [pc EXCEPT ![w] = "entFail"]
                /\ UNCHANGED digest
          /\ UNCHANGED <<nsq, lock, product, entity, images, priced, local>>
       \/ Rollback(w, "entFail")

UnlockEntity(w) ==
    \/ /\ pc[w] = "entUnlock"
       /\ Release(w)
       /\ pc' = [pc EXCEPT ![w] = "entities"]
       /\ cur' = [cur EXCEPT ![w] = NoEntity]
       /\ eid' = [eid EXCEPT ![w] = Zero]
       /\ UNCHANGED <<nsq, db, digest, job, pid, img, todo>>
    \/ /\ pc[w] = "entFail"
       /\ Release(w)
       /\ Fail(w)
       /\ UNCHANGED <<db, digest>>

-----------------------------------------------------------------------------
(***************************************************************************)
(* publishSonicDigest in its goroutine, and the end of a process.          *)
(***************************************************************************)

SendDigest(w, id) ==
    /\ id \in pending[w]
    /\ pending' = [pending EXCEPT ![w] = @ \ {id}]
    /\ \/ digested' = digested \cup {id}
       \/ "publish" \in Faults /\ UNCHANGED digested
    /\ UNCHANGED <<nsq, lock, db, pc, local>>

\* The process of w ends: its goroutines are gone, its lease stays until it
\* lapses, and nsqd queues the message again.  The workers of one process
\* crash one after the other with nothing in between.
Crash(w) ==
    /\ "crash" \in Faults
    /\ pc[w] # "idle" \/ pending[w] # {}
    /\ IF pc[w] = "idle" THEN UNCHANGED <<nsq, pc, local>> ELSE Fail(w)
    /\ lock' = [k \in Key |-> IF lock[k] = w THEN Orphan ELSE lock[k]]
    /\ pending' = [pending EXCEPT ![w] = {}]
    /\ UNCHANGED <<db, digested>>

Step(w) ==
    \/ Fetch(w) \/ FetchFails(w) \/ LockProduct(w) \/ Exists(w)
    \/ FindProduct(w) \/ CreateProduct(w) \/ UnlockProduct(w)
    \/ PersistImage(w) \/ ImagesDone(w) \/ PersistPrice(w) \/ Finish(w)
    \/ \E e \in Entity : NextEntity(w, e)
    \/ LockEntity(w) \/ FindEntity(w) \/ CreateEntity(w) \/ LinkEntity(w)
    \/ UnlockEntity(w)

Final == {"recorded", "ignored", "dropped"}

\* Every task is settled and every goroutine has ended: not a deadlock.
Quiet ==
    /\ \A m \in Msg : status[m] \in Final
    /\ \A w \in Worker : pc[w] = "idle" /\ pending[w] = {}
    /\ \A k \in Key : lock[k] = Free
    /\ UNCHANGED vars

Next ==
    \/ \E w \in Worker :
          \/ Step(w)
          \/ \E m \in Msg : Deliver(w, m) \/ GiveUp(w, m)
          \/ \E id \in Key \cup {Zero} : SendDigest(w, id)
          \/ Crash(w)
    \/ \E m \in Msg : Timeout(m)
    \/ \E k \in Key : LeaseLapse(k)
    \/ Quiet

Spec == Init /\ [][Next]_vars

\* Goroutines are scheduled, nsqd delivers, Redis expires orphaned leases.
Fairness ==
    /\ \A w \in Worker :
          /\ WF_vars(Step(w))
          /\ WF_vars(\E m \in Msg : Deliver(w, m) \/ GiveUp(w, m))
          /\ WF_vars(\E id \in Key \cup {Zero} : SendDigest(w, id))
    /\ \A k \in Key : WF_vars(lock[k] = Orphan /\ LeaseLapse(k))

FairSpec == Spec /\ Fairness

-----------------------------------------------------------------------------
(***************************************************************************)
(* Properties.                                                             *)
(***************************************************************************)

\* The queue's bookkeeping; nothing is delivered more than MaxAttempts times.
NsqTypeOK ==
    /\ status \in [Msg -> {"queued", "inflight"} \cup Final]
    /\ owner \in [Msg -> Worker \cup {NoWorker}]
    /\ attempts \in [Msg -> 0 .. MaxAttempts]

StoreTypeOK ==
    /\ lock \in [Key -> Worker \cup {Free, Orphan}]
    /\ product \subseteq Plid
    /\ entity \subseteq Entity
    /\ images \in [Plid -> Nat]
    /\ priced \subseteq Msg
    /\ link \in [Row -> Nat]
    /\ pending \in [Worker -> SUBSET (Key \cup {Zero})]
    /\ digested \subseteq Key \cup {Zero}

HandlerTypeOK ==
    /\ pc \in [Worker -> Section \cup Outside]
    /\ job \in [Worker -> Msg \cup {NoMsg}]
    /\ pid \in [Worker -> Plid \cup {Zero}]
    /\ img \in [Worker -> 0 .. GallerySize]
    /\ todo \in [Worker -> SUBSET Entity]
    /\ cur \in [Worker -> Entity \cup {NoEntity}]
    /\ eid \in [Worker -> Entity \cup {Zero}]

\* Every variable has the values its column, key or field can have.
TypeOK == NsqTypeOK /\ StoreTypeOK /\ HandlerTypeOK

\* Two handlers are never between Obtain and Release of the same PLID, brand
\* or category: no two find a row absent and both insert it
\* (new_product.go:97-118, 68-75, 220-227).
LocksExclude ==
    \A v, w \in Worker :
        pc[v] \in Section /\ pc[w] \in Section /\ KeyOf(v) = KeyOf(w) => v = w

\* Every id in the link tables and every id announced to the index is that of
\* a stored row: an insert whose error nobody read (ID 0) never reaches them.
RowsResolve ==
    /\ \A p \in Plid \cup {Zero}, e \in Entity \cup {Zero} :
           link[<<p, e>>] > 0 => p \in product /\ e \in entity
    /\ digested \subseteq product \cup entity

\* However often a task is delivered, a product's images and links are stored
\* once: only the handler that created the row writes them.
StoredOnce ==
    /\ \A p \in Plid : images[p] <= GallerySize
    /\ \A r \in Row : link[r] <= 1

\* A task that was finished without an error has left a price of its product
\* (persistPrice on both paths of HandleMessage).
RecordedIsPriced ==
    \A m \in Msg : status[m] = "recorded" => m \in priced /\ PlidOf[m] \in product

\* A product whose tasks were each finished at the first delivery, without an
\* error or before they came to the tables, has its images and each of its
\* links once, whichever of them created the row (new_product.go:103-171).
Complete ==
    \A m \in Msg :
        LET p == PlidOf[m]
        IN  /\ status[m] = "recorded"
            /\ \A n \in Msg : PlidOf[n] = p =>
                  status[n] \in {"recorded", "ignored"} /\ attempts[n] = 1
            => /\ images[p] = GallerySize
               /\ \A e \in EntitiesOf[p] : link[<<p, RowName[e]>>] = 1

\* What is left when leases run out, reads fail and spellings collide: a row
\* refers to a stored row or to ID 0, prices (which have a foreign key) only
\* to stored products, and images to no product that is absent.
ResolveOrZero ==
    /\ \A p \in Plid \cup {Zero}, e \in Entity \cup {Zero} :
           link[<<p, e>>] > 0 => /\ p \in product \cup {Zero}
                                /\ e \in entity \cup {Zero}
    /\ \A m \in priced : PlidOf[m] \in product
    /\ \A p \in Plid : images[p] > 0 => p \in product
    /\ digested \subseteq product \cup entity \cup {Zero}

\* Every task is settled in the end: no lease that was left behind, no crash
\* and no lost FIN keeps it in the queue for ever.
TasksSettle == \A m \in Msg : <>(status[m] \in Final)

\* Without crashes and lost publishes every product and every name that is
\* linked is announced to the index.
Announced ==
    /\ \A p \in Plid : p \in product ~> p \in digested
    /\ \A p \in Plid, e \in Entity : link[<<p, e>>] > 0 ~> e \in digested

Tables == INSTANCE Catalog WITH
    Msg <- Msg, Plid <- Plid, Entity <- Entity, Zero <- Zero, PlidOf <- PlidOf,
    EntitiesOf <- EntitiesOf, GallerySize <- GallerySize,
    product <- product, entity <- entity, images <- images, priced <- priced,
    link <- link, digested <- digested

\* The pipeline does to the tables what Catalog allows.
ImplementsCatalog == Tables!Spec
==============================================================================
