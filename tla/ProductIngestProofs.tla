------------------------- MODULE ProductIngestProofs -------------------------
(***************************************************************************)
(* Theorems of ProductIngest, for any number of workers, tasks, products   *)
(* and names, and for every failure but the three of Careful.              *)
(***************************************************************************)
EXTENDS ProductIngest, FiniteSetTheorems, TLAPS

\* Leases outlive the calls they protect, SELECTs do not fail, and a name is
\* spelled in one way.
Careful ==
    /\ "lease" \notin Faults
    /\ "read" \notin Faults
    /\ \A e \in Entity : RowName[e] = e

AtEntity == {"entLock"} \cup InEntity
Early == {"idle", "fetch", "lock", "exists", "find", "create", "unlockFail"}
HasRow == {"unlockSeen", "unlockNew", "images", "price", "entities"} \cup AtEntity

\* Which local variables are set at which point of the handler.
Shape ==
    \A w \in Worker :
        /\ pc[w] # "idle" => job[w] \in Msg
        /\ cur[w] # NoEntity <=> pc[w] \in AtEntity
        /\ pc[w] \in Early \cup {"unlockSeen"} => todo[w] = {}
        /\ pc[w] \in Early \cup {"unlockNew"} => img[w] = 0

Control == TypeOK /\ Shape

\* A handler between Obtain and Release has the lease.
Holds == \A w \in Worker : pc[w] \in Section => lock[KeyOf(w)] = w

\* What a handler knows of the rows: absent under the lock, or stored.
Knows ==
    \A w \in Worker :
        /\ pc[w] \in {"find", "create"} => Plids(w) \notin product
        /\ pc[w] \in HasRow => pid[w] = Plids(w) /\ pid[w] \in product
        /\ pc[w] = "entCreate" => cur[w] \notin entity
        /\ pc[w] = "entLink" => eid[w] = cur[w] /\ cur[w] \in entity
        /\ pc[w] \in {"entities"} \cup AtEntity => job[w] \in priced

\* Prices and digests name stored rows, and a recorded task has a price.
Stored ==
    /\ \A m \in priced : PlidOf[m] \in product
    /\ \A m \in Msg : status[m] = "recorded" => m \in priced
    /\ \A w \in Worker : pending[w] \subseteq product \cup entity
    /\ digested \subseteq product \cup entity

\* The handler that created a product still has rows of its own to write.
Owes(w) == pc[w] \in {"unlockNew", "images"} \cup AtEntity \/ todo[w] # {}

\* There is one such handler for a product.
Alone ==
    \A v, w \in Worker : Owes(v) /\ Owes(w) /\ pid[v] = pid[w] => v = w

\* What it has still to write is not there yet.
Ahead ==
    \A w \in Worker :
        /\ pc[w] \in {"unlockNew", "images"} => images[pid[w]] = img[w]
        /\ pc[w] \in HasRow => todo[w] \subseteq EntitiesOf[pid[w]]
        /\ \A e \in todo[w] : link[<<pid[w], e>>] = 0
        /\ pc[w] \in AtEntity => cur[w] \notin todo[w]
        /\ pc[w] \in {"entLock", "entFind", "entCreate", "entLink"} =>
              /\ cur[w] \in EntitiesOf[pid[w]]
              /\ link[<<pid[w], cur[w]>>] = 0

\* The rows that depend on a product or a name.
Depends ==
    /\ \A p \in Plid : p \notin product => images[p] = 0
    /\ \A p \in Plid : images[p] <= GallerySize
    /\ \A r \in Row : link[r] <= 1
    /\ \A r \in Row : link[r] > 0 => r[1] \in product /\ r[2] \in entity

\* What survives every failure: ids are those of stored rows, or 0.
KnowsOrZero ==
    \A w \in Worker :
        /\ pc[w] \in HasRow => pid[w] \in {Plids(w), Zero} /\ pid[w] \in product \cup {Zero}
        /\ pc[w] = "entLink" => eid[w] \in entity \cup {Zero}
        /\ pending[w] \subseteq product \cup entity \cup {Zero}

IInv == Control /\ Holds /\ Knows /\ Stored /\ Alone /\ Ahead /\ Depends

USE DEF Entity, Key
-----------------------------------------------------------------------------
\* Types and the shape of the local variables: each action sets what it should.
LEMMA ControlStep == Control /\ [Next]_vars => Control'
<1> SUFFICES ASSUME Control, [Next]_vars PROVE Control'
  OBVIOUS
<1> USE TasksAssumption, NamesAssumption
    DEF Control, Obtain, NotObtained, Release, Fail, Return, Rollback,
        HaveProduct, GoDigest, InsertImage, InsertPrice, Plids, TypeOK, AtEntity,
        Early, HasRow, Section, Outside, InProduct, InEntity, Final, Row, vars,
        nsq, db, digest, local
<1>1. ASSUME NEW w \in Worker, Fetch(w) PROVE Control'
  <2>1. NsqTypeOK' BY <1>1 DEF Shape, NsqTypeOK, HandlerTypeOK, Fetch
  <2>2. StoreTypeOK' BY <1>1 DEF Shape, StoreTypeOK, HandlerTypeOK, Fetch
  <2>3. HandlerTypeOK' BY <1>1 DEF Shape, HandlerTypeOK, Fetch
  <2>4. Shape' BY <1>1 DEF Shape, HandlerTypeOK, Fetch
  <2> QED BY <2>1, <2>2, <2>3, <2>4 DEF TypeOK
<1>2. ASSUME NEW w \in Worker, FetchFails(w) PROVE Control'
  <2>1. NsqTypeOK' BY <1>2 DEF Shape, NsqTypeOK, HandlerTypeOK, FetchFails
  <2>2. StoreTypeOK' BY <1>2 DEF Shape, StoreTypeOK, HandlerTypeOK, FetchFails
  <2>3. HandlerTypeOK' BY <1>2 DEF Shape, HandlerTypeOK, FetchFails
  <2>4. Shape' BY <1>2 DEF Shape, HandlerTypeOK, FetchFails
  <2> QED BY <2>1, <2>2, <2>3, <2>4 DEF TypeOK
<1>3. ASSUME NEW w \in Worker, LockProduct(w) PROVE Control'
  <2>1. NsqTypeOK' BY <1>3 DEF Shape, NsqTypeOK, HandlerTypeOK, LockProduct
  <2>2. StoreTypeOK'
    <3>1. UNCHANGED <<db, digest>>
      BY <1>3 DEF LockProduct
    <3>2. lock' \in [Key -> Worker \cup {Free, Orphan}]
      BY <1>3 DEF StoreTypeOK, LockProduct
    <3> QED BY <3>1, <3>2 DEF StoreTypeOK
  <2>3. HandlerTypeOK' BY <1>3 DEF Shape, HandlerTypeOK, LockProduct
  <2>4. Shape' BY <1>3 DEF Shape, HandlerTypeOK, LockProduct
  <2> QED BY <2>1, <2>2, <2>3, <2>4 DEF TypeOK
<1>4. ASSUME NEW w \in Worker, Exists(w) PROVE Control'
  <2>1. NsqTypeOK' BY <1>4 DEF Shape, NsqTypeOK, HandlerTypeOK, Exists
  <2>2. StoreTypeOK' BY <1>4 DEF Shape, StoreTypeOK, HandlerTypeOK, Exists
  <2>3. HandlerTypeOK' BY <1>4 DEF Shape, HandlerTypeOK, Exists
  <2>4. Shape' BY <1>4 DEF Shape, HandlerTypeOK, Exists
  <2> QED BY <2>1, <2>2, <2>3, <2>4 DEF TypeOK
<1>5. ASSUME NEW w \in Worker, FindProduct(w) PROVE Control'
  <2>1. NsqTypeOK' BY <1>5 DEF Shape, NsqTypeOK, HandlerTypeOK, FindProduct
  <2>2. StoreTypeOK' BY <1>5 DEF Shape, StoreTypeOK, HandlerTypeOK, FindProduct
  <2>3. HandlerTypeOK' BY <1>5 DEF Shape, HandlerTypeOK, FindProduct
  <2>4. Shape' BY <1>5 DEF Shape, HandlerTypeOK, FindProduct
  <2> QED BY <2>1, <2>2, <2>3, <2>4 DEF TypeOK
<1>6. ASSUME NEW w \in Worker, CreateProduct(w) PROVE Control'
  <2>1. NsqTypeOK' BY <1>6 DEF Shape, NsqTypeOK, HandlerTypeOK, CreateProduct
  <2>2. StoreTypeOK' BY <1>6 DEF Shape, StoreTypeOK, HandlerTypeOK, CreateProduct
  <2>3. HandlerTypeOK' BY <1>6 DEF Shape, HandlerTypeOK, CreateProduct
  <2>4. Shape' BY <1>6 DEF Shape, HandlerTypeOK, CreateProduct
  <2> QED BY <2>1, <2>2, <2>3, <2>4 DEF TypeOK
<1>7. ASSUME NEW w \in Worker, UnlockProduct(w) PROVE Control'
  <2>1. NsqTypeOK' BY <1>7 DEF Shape, NsqTypeOK, HandlerTypeOK, UnlockProduct
  <2>2. StoreTypeOK' BY <1>7 DEF Shape, StoreTypeOK, HandlerTypeOK, UnlockProduct
  <2>3. HandlerTypeOK' BY <1>7 DEF Shape, HandlerTypeOK, UnlockProduct
  <2>4. Shape' BY <1>7 DEF Shape, HandlerTypeOK, UnlockProduct
  <2> QED BY <2>1, <2>2, <2>3, <2>4 DEF TypeOK
<1>8. ASSUME NEW w \in Worker, PersistImage(w) PROVE Control'
  <2>1. NsqTypeOK' BY <1>8 DEF Shape, NsqTypeOK, HandlerTypeOK, PersistImage
  <2>2. StoreTypeOK'
    <3>1. images' \in [Plid -> Nat]
      <4>1. \A p \in Plid : images[p] + 1 \in Nat
        BY DEF StoreTypeOK
      <4> QED BY <1>8, <4>1 DEF StoreTypeOK, PersistImage
    <3> QED BY <1>8, <3>1 DEF StoreTypeOK, PersistImage
  <2>3. HandlerTypeOK'
    <3>1. img[w] + 1 \in 0 .. GallerySize
      BY <1>8 DEF HandlerTypeOK, PersistImage
    <3> QED BY <1>8, <3>1 DEF HandlerTypeOK, PersistImage
  <2>4. Shape' BY <1>8 DEF Shape, HandlerTypeOK, PersistImage
  <2> QED BY <2>1, <2>2, <2>3, <2>4 DEF TypeOK
<1>9. ASSUME NEW w \in Worker, ImagesDone(w) PROVE Control'
  <2>1. NsqTypeOK' BY <1>9 DEF Shape, NsqTypeOK, HandlerTypeOK, ImagesDone
  <2>2. StoreTypeOK' BY <1>9 DEF Shape, StoreTypeOK, HandlerTypeOK, ImagesDone
  <2>3. HandlerTypeOK' BY <1>9 DEF Shape, HandlerTypeOK, ImagesDone
  <2>4. Shape' BY <1>9 DEF Shape, HandlerTypeOK, ImagesDone
  <2> QED BY <2>1, <2>2, <2>3, <2>4 DEF TypeOK
<1>10. ASSUME NEW w \in Worker, PersistPrice(w) PROVE Control'
  <2>1. NsqTypeOK'
    BY <1>10, SMTT(60) DEF Shape, NsqTypeOK, HandlerTypeOK, PersistPrice
  <2>2. StoreTypeOK' BY <1>10 DEF Shape, StoreTypeOK, HandlerTypeOK, PersistPrice
  <2>3. HandlerTypeOK' BY <1>10 DEF Shape, HandlerTypeOK, PersistPrice
  <2>4. Shape' BY <1>10 DEF Shape, HandlerTypeOK, PersistPrice
  <2> QED BY <2>1, <2>2, <2>3, <2>4 DEF TypeOK
<1>11. ASSUME NEW w \in Worker, Finish(w) PROVE Control'
  <2>1. NsqTypeOK' BY <1>11 DEF Shape, NsqTypeOK, HandlerTypeOK, Finish
  <2>2. StoreTypeOK' BY <1>11 DEF Shape, StoreTypeOK, HandlerTypeOK, Finish
  <2>3. HandlerTypeOK' BY <1>11 DEF Shape, HandlerTypeOK, Finish
  <2>4. Shape' BY <1>11 DEF Shape, HandlerTypeOK, Finish
  <2> QED BY <2>1, <2>2, <2>3, <2>4 DEF TypeOK
<1>12. ASSUME NEW w \in Worker, NEW e \in Entity, NextEntity(w, e) PROVE Control'
  <2>1. NsqTypeOK' BY <1>12 DEF Shape, NsqTypeOK, HandlerTypeOK, NextEntity
  <2>2. StoreTypeOK' BY <1>12 DEF Shape, StoreTypeOK, HandlerTypeOK, NextEntity
  <2>3. HandlerTypeOK' BY <1>12 DEF Shape, HandlerTypeOK, NextEntity
  <2>4. Shape' BY <1>12 DEF Shape, HandlerTypeOK, NextEntity
  <2> QED BY <2>1, <2>2, <2>3, <2>4 DEF TypeOK
<1>13. ASSUME NEW w \in Worker, LockEntity(w) PROVE Control'
  <2>1. NsqTypeOK' BY <1>13 DEF Shape, NsqTypeOK, HandlerTypeOK, LockEntity
  <2>2. StoreTypeOK' BY <1>13 DEF Shape, StoreTypeOK, HandlerTypeOK, LockEntity
  <2>3. HandlerTypeOK' BY <1>13 DEF Shape, HandlerTypeOK, LockEntity
  <2>4. Shape' BY <1>13 DEF Shape, HandlerTypeOK, LockEntity
  <2> QED BY <2>1, <2>2, <2>3, <2>4 DEF TypeOK
<1>14. ASSUME NEW w \in Worker, FindEntity(w) PROVE Control'
  <2>1. NsqTypeOK' BY <1>14 DEF Shape, NsqTypeOK, HandlerTypeOK, FindEntity
  <2>2. StoreTypeOK' BY <1>14 DEF Shape, StoreTypeOK, HandlerTypeOK, FindEntity
  <2>3. HandlerTypeOK' BY <1>14 DEF Shape, HandlerTypeOK, FindEntity
  <2>4. Shape' BY <1>14 DEF Shape, HandlerTypeOK, FindEntity
  <2> QED BY <2>1, <2>2, <2>3, <2>4 DEF TypeOK
<1>15. ASSUME NEW w \in Worker, CreateEntity(w) PROVE Control'
  <2>1. NsqTypeOK' BY <1>15 DEF Shape, NsqTypeOK, HandlerTypeOK, CreateEntity
  <2>2. StoreTypeOK' BY <1>15 DEF Shape, StoreTypeOK, HandlerTypeOK, CreateEntity
  <2>3. HandlerTypeOK' BY <1>15 DEF Shape, HandlerTypeOK, CreateEntity
  <2>4. Shape' BY <1>15 DEF Shape, HandlerTypeOK, CreateEntity
  <2> QED BY <2>1, <2>2, <2>3, <2>4 DEF TypeOK
<1>16. ASSUME NEW w \in Worker, LinkEntity(w) PROVE Control'
  <2>1. NsqTypeOK' BY <1>16 DEF Shape, NsqTypeOK, HandlerTypeOK, LinkEntity
  <2>2. StoreTypeOK'
    BY <1>16, SMTT(60) DEF Shape, StoreTypeOK, HandlerTypeOK, LinkEntity
  <2>3. HandlerTypeOK' BY <1>16 DEF Shape, HandlerTypeOK, LinkEntity
  <2>4. Shape' BY <1>16 DEF Shape, HandlerTypeOK, LinkEntity
  <2> QED BY <2>1, <2>2, <2>3, <2>4 DEF TypeOK
<1>17. ASSUME NEW w \in Worker, UnlockEntity(w) PROVE Control'
  <2>1. NsqTypeOK' BY <1>17 DEF Shape, NsqTypeOK, HandlerTypeOK, UnlockEntity
  <2>2. StoreTypeOK' BY <1>17 DEF Shape, StoreTypeOK, HandlerTypeOK, UnlockEntity
  <2>3. HandlerTypeOK' BY <1>17 DEF Shape, HandlerTypeOK, UnlockEntity
  <2>4. Shape' BY <1>17 DEF Shape, HandlerTypeOK, UnlockEntity
  <2> QED BY <2>1, <2>2, <2>3, <2>4 DEF TypeOK
<1>18. ASSUME NEW w \in Worker, NEW m \in Msg, Deliver(w, m) PROVE Control'
  <2>1. NsqTypeOK' BY <1>18 DEF Shape, NsqTypeOK, HandlerTypeOK, Deliver
  <2>2. StoreTypeOK' BY <1>18 DEF Shape, StoreTypeOK, HandlerTypeOK, Deliver
  <2>3. HandlerTypeOK' BY <1>18 DEF Shape, HandlerTypeOK, Deliver
  <2>4. Shape' BY <1>18 DEF Shape, HandlerTypeOK, Deliver
  <2> QED BY <2>1, <2>2, <2>3, <2>4 DEF TypeOK
<1>19. ASSUME NEW w \in Worker, NEW m \in Msg, GiveUp(w, m) PROVE Control'
  <2>1. NsqTypeOK' BY <1>19 DEF Shape, NsqTypeOK, HandlerTypeOK, GiveUp
  <2>2. StoreTypeOK' BY <1>19 DEF Shape, StoreTypeOK, HandlerTypeOK, GiveUp
  <2>3. HandlerTypeOK' BY <1>19 DEF Shape, HandlerTypeOK, GiveUp
  <2>4. Shape' BY <1>19 DEF Shape, HandlerTypeOK, GiveUp
  <2> QED BY <2>1, <2>2, <2>3, <2>4 DEF TypeOK
<1>20. ASSUME NEW w \in Worker, NEW id \in Key \cup {Zero}, SendDigest(w, id)
      PROVE Control'
  <2>1. NsqTypeOK' BY <1>20 DEF Shape, NsqTypeOK, HandlerTypeOK, SendDigest
  <2>2. StoreTypeOK' BY <1>20 DEF Shape, StoreTypeOK, HandlerTypeOK, SendDigest
  <2>3. HandlerTypeOK' BY <1>20 DEF Shape, HandlerTypeOK, SendDigest
  <2>4. Shape' BY <1>20 DEF Shape, HandlerTypeOK, SendDigest
  <2> QED BY <2>1, <2>2, <2>3, <2>4 DEF TypeOK
<1>21. ASSUME NEW w \in Worker, Crash(w) PROVE Control'
  <2>1. NsqTypeOK' BY <1>21 DEF Shape, NsqTypeOK, HandlerTypeOK, Crash
  <2>2. StoreTypeOK' BY <1>21 DEF Shape, StoreTypeOK, HandlerTypeOK, Crash
  <2>3. HandlerTypeOK' BY <1>21 DEF Shape, HandlerTypeOK, Crash
  <2>4. Shape' BY <1>21 DEF Shape, HandlerTypeOK, Crash
  <2> QED BY <2>1, <2>2, <2>3, <2>4 DEF TypeOK
<1>22. ASSUME NEW m \in Msg, Timeout(m) PROVE Control'
  <2>1. NsqTypeOK' BY <1>22 DEF Shape, NsqTypeOK, HandlerTypeOK, Timeout
  <2>2. StoreTypeOK' BY <1>22 DEF Shape, StoreTypeOK, HandlerTypeOK, Timeout
  <2>3. HandlerTypeOK' BY <1>22 DEF Shape, HandlerTypeOK, Timeout
  <2>4. Shape' BY <1>22 DEF Shape, HandlerTypeOK, Timeout
  <2> QED BY <2>1, <2>2, <2>3, <2>4 DEF TypeOK
<1>23. ASSUME NEW k \in Key, LeaseLapse(k) PROVE Control'
  <2>1. NsqTypeOK' BY <1>23 DEF Shape, NsqTypeOK, HandlerTypeOK, LeaseLapse
  <2>2. StoreTypeOK' BY <1>23 DEF Shape, StoreTypeOK, HandlerTypeOK, LeaseLapse
  <2>3. HandlerTypeOK' BY <1>23 DEF Shape, HandlerTypeOK, LeaseLapse
  <2>4. Shape' BY <1>23 DEF Shape, HandlerTypeOK, LeaseLapse
  <2> QED BY <2>1, <2>2, <2>3, <2>4 DEF TypeOK
<1>24. CASE UNCHANGED vars
  BY <1>24 DEF NsqTypeOK, StoreTypeOK, HandlerTypeOK, Shape
<1> QED
  BY <1>1, <1>2, <1>3, <1>4, <1>5, <1>6, <1>7, <1>8, <1>9, <1>10, <1>11, <1>12,
     <1>13, <1>14, <1>15, <1>16, <1>17, <1>18, <1>19, <1>20, <1>21, <1>22, <1>23,
     <1>24 DEF Next, Step, Quiet

\* The lock discipline: Obtain needs a free key, Release and Crash touch only the
\* caller's own lease, and a lapse only an orphan's.
LEMMA HoldsStep == "lease" \notin Faults /\ Control /\ Holds /\ [Next]_vars => Holds'
<1> SUFFICES ASSUME "lease" \notin Faults, Control, Holds, [Next]_vars PROVE Holds'
  OBVIOUS
<1> USE TasksAssumption, NamesAssumption
    DEF Control, Obtain, NotObtained, Release, Fail, Return, Rollback,
        HaveProduct, GoDigest, InsertImage, InsertPrice, Plids, TypeOK,
        StoreTypeOK, HandlerTypeOK, Shape, Holds, KeyOf, AtEntity, Section,
        Outside, InProduct, InEntity, vars, nsq, db, digest, local
<1>1. ASSUME NEW w \in Worker, Fetch(w) PROVE Holds'
  BY <1>1 DEF Fetch
<1>2. ASSUME NEW w \in Worker, FetchFails(w) PROVE Holds'
  BY <1>2 DEF FetchFails
<1>3. ASSUME NEW w \in Worker, LockProduct(w) PROVE Holds'
  BY <1>3 DEF LockProduct
<1>4. ASSUME NEW w \in Worker, Exists(w) PROVE Holds'
  BY <1>4 DEF Exists
<1>5. ASSUME NEW w \in Worker, FindProduct(w) PROVE Holds'
  BY <1>5 DEF FindProduct
<1>6. ASSUME NEW w \in Worker, CreateProduct(w) PROVE Holds'
  BY <1>6 DEF CreateProduct
<1>7. ASSUME NEW w \in Worker, UnlockProduct(w) PROVE Holds'
  BY <1>7 DEF UnlockProduct
<1>8. ASSUME NEW w \in Worker, PersistImage(w) PROVE Holds'
  BY <1>8 DEF PersistImage
<1>9. ASSUME NEW w \in Worker, ImagesDone(w) PROVE Holds'
  BY <1>9 DEF ImagesDone
<1>10. ASSUME NEW w \in Worker, PersistPrice(w) PROVE Holds'
  BY <1>10 DEF PersistPrice
<1>11. ASSUME NEW w \in Worker, Finish(w) PROVE Holds'
  BY <1>11 DEF Finish
<1>12. ASSUME NEW w \in Worker, NEW e \in Entity, NextEntity(w, e) PROVE Holds'
  BY <1>12 DEF NextEntity
<1>13. ASSUME NEW w \in Worker, LockEntity(w) PROVE Holds'
  BY <1>13 DEF LockEntity
<1>14. ASSUME NEW w \in Worker, FindEntity(w) PROVE Holds'
  BY <1>14 DEF FindEntity
<1>15. ASSUME NEW w \in Worker, CreateEntity(w) PROVE Holds'
  BY <1>15 DEF CreateEntity
<1>16. ASSUME NEW w \in Worker, LinkEntity(w) PROVE Holds'
  BY <1>16 DEF LinkEntity
<1>17. ASSUME NEW w \in Worker, UnlockEntity(w) PROVE Holds'
  BY <1>17 DEF UnlockEntity
<1>18. ASSUME NEW w \in Worker, NEW m \in Msg, Deliver(w, m) PROVE Holds'
  BY <1>18 DEF Deliver
<1>19. ASSUME NEW w \in Worker, NEW m \in Msg, GiveUp(w, m) PROVE Holds'
  BY <1>19 DEF GiveUp
<1>20. ASSUME NEW w \in Worker, NEW id \in Key \cup {Zero}, SendDigest(w, id)
      PROVE Holds'
  BY <1>20 DEF SendDigest
<1>21. ASSUME NEW w \in Worker, Crash(w) PROVE Holds'
  BY <1>21 DEF Crash
<1>22. ASSUME NEW m \in Msg, Timeout(m) PROVE Holds'
  BY <1>22 DEF Timeout
<1>23. ASSUME NEW k \in Key, LeaseLapse(k) PROVE Holds'
  BY <1>23 DEF LeaseLapse
<1>24. CASE UNCHANGED vars
  BY <1>24
<1> QED
  BY <1>1, <1>2, <1>3, <1>4, <1>5, <1>6, <1>7, <1>8, <1>9, <1>10, <1>11, <1>12,
     <1>13, <1>14, <1>15, <1>16, <1>17, <1>18, <1>19, <1>20, <1>21, <1>22, <1>23,
     <1>24 DEF Next, Step, Quiet

\* What a handler has read stays true because the key is locked: nobody else
\* inserts the row it saw absent, and rows are never deleted.
LEMMA KnowsStep ==
    Careful /\ Control /\ Holds /\ Knows /\ Stored /\ [Next]_vars => Knows' /\ Stored'
<1> SUFFICES ASSUME Careful, Control, Holds, Knows, Stored, [Next]_vars
             PROVE  Knows' /\ Stored'
  OBVIOUS
<1> USE TasksAssumption, NamesAssumption
    DEF Careful, Control, Obtain, NotObtained, Release, Fail, Return, Rollback,
        HaveProduct, GoDigest, InsertImage, InsertPrice, Plids, TypeOK, NsqTypeOK,
        StoreTypeOK, HandlerTypeOK, Shape, Holds, KeyOf, AtEntity, HasRow,
        Section, Outside, InProduct, InEntity, Final, vars, nsq, db, digest, local
<1>1. ASSUME NEW w \in Worker, Fetch(w) PROVE Knows' /\ Stored'
  <2>1. Knows' BY <1>1 DEF Knows, Fetch
  <2>2. Stored' BY <1>1 DEF Knows, Stored, Fetch
  <2> QED BY <2>1, <2>2
<1>2. ASSUME NEW w \in Worker, FetchFails(w) PROVE Knows' /\ Stored'
  <2>1. Knows' BY <1>2 DEF Knows, FetchFails
  <2>2. Stored' BY <1>2 DEF Knows, Stored, FetchFails
  <2> QED BY <2>1, <2>2
<1>3. ASSUME NEW w \in Worker, LockProduct(w) PROVE Knows' /\ Stored'
  <2>1. Knows' BY <1>3 DEF Knows, LockProduct
  <2>2. Stored' BY <1>3 DEF Knows, Stored, LockProduct
  <2> QED BY <2>1, <2>2
<1>4. ASSUME NEW w \in Worker, Exists(w) PROVE Knows' /\ Stored'
  <2>1. Knows' BY <1>4 DEF Knows, Exists
  <2>2. Stored' BY <1>4 DEF Knows, Stored, Exists
  <2> QED BY <2>1, <2>2
<1>5. ASSUME NEW w \in Worker, FindProduct(w) PROVE Knows' /\ Stored'
  <2>1. Knows' BY <1>5 DEF Knows, FindProduct
  <2>2. Stored' BY <1>5 DEF Knows, Stored, FindProduct
  <2> QED BY <2>1, <2>2
<1>6. ASSUME NEW w \in Worker, CreateProduct(w) PROVE Knows' /\ Stored'
  <2>1. Knows' BY <1>6 DEF Knows, CreateProduct
  <2>2. Stored' BY <1>6 DEF Knows, Stored, CreateProduct
  <2> QED BY <2>1, <2>2
<1>7. ASSUME NEW w \in Worker, UnlockProduct(w) PROVE Knows' /\ Stored'
  <2>1. Knows' BY <1>7 DEF Knows, UnlockProduct
  <2>2. Stored' BY <1>7 DEF Knows, Stored, UnlockProduct
  <2> QED BY <2>1, <2>2
<1>8. ASSUME NEW w \in Worker, PersistImage(w) PROVE Knows' /\ Stored'
  <2>1. Knows' BY <1>8 DEF Knows, PersistImage
  <2>2. Stored' BY <1>8 DEF Knows, Stored, PersistImage
  <2> QED BY <2>1, <2>2
<1>9. ASSUME NEW w \in Worker, ImagesDone(w) PROVE Knows' /\ Stored'
  <2>1. Knows' BY <1>9 DEF Knows, ImagesDone
  <2>2. Stored' BY <1>9 DEF Knows, Stored, ImagesDone
  <2> QED BY <2>1, <2>2
<1>10. ASSUME NEW w \in Worker, PersistPrice(w) PROVE Knows' /\ Stored'
  <2>1. Knows' BY <1>10 DEF Knows, PersistPrice
  <2>2. Stored' BY <1>10 DEF Knows, Stored, PersistPrice
  <2> QED BY <2>1, <2>2
<1>11. ASSUME NEW w \in Worker, Finish(w) PROVE Knows' /\ Stored'
  <2>1. Knows' BY <1>11 DEF Knows, Finish
  <2>2. Stored' BY <1>11 DEF Knows, Stored, Finish
  <2> QED BY <2>1, <2>2
<1>12. ASSUME NEW w \in Worker, NEW e \in Entity, NextEntity(w, e)
      PROVE Knows' /\ Stored'
  <2>1. Knows' BY <1>12 DEF Knows, NextEntity
  <2>2. Stored' BY <1>12 DEF Knows, Stored, NextEntity
  <2> QED BY <2>1, <2>2
<1>13. ASSUME NEW w \in Worker, LockEntity(w) PROVE Knows' /\ Stored'
  <2>1. Knows' BY <1>13 DEF Knows, LockEntity
  <2>2. Stored' BY <1>13 DEF Knows, Stored, LockEntity
  <2> QED BY <2>1, <2>2
<1>14. ASSUME NEW w \in Worker, FindEntity(w) PROVE Knows' /\ Stored'
  <2>1. Knows' BY <1>14 DEF Knows, FindEntity
  <2>2. Stored' BY <1>14 DEF Knows, Stored, FindEntity
  <2> QED BY <2>1, <2>2
<1>15. ASSUME NEW w \in Worker, CreateEntity(w) PROVE Knows' /\ Stored'
  <2>1. Knows' BY <1>15 DEF Knows, CreateEntity
  <2>2. Stored' BY <1>15 DEF Knows, Stored, CreateEntity
  <2> QED BY <2>1, <2>2
<1>16. ASSUME NEW w \in Worker, LinkEntity(w) PROVE Knows' /\ Stored'
  <2>1. Knows' BY <1>16 DEF Knows, LinkEntity
  <2>2. Stored' BY <1>16 DEF Knows, Stored, LinkEntity
  <2> QED BY <2>1, <2>2
<1>17. ASSUME NEW w \in Worker, UnlockEntity(w) PROVE Knows' /\ Stored'
  <2>1. Knows' BY <1>17 DEF Knows, UnlockEntity
  <2>2. Stored' BY <1>17 DEF Knows, Stored, UnlockEntity
  <2> QED BY <2>1, <2>2
<1>18. ASSUME NEW w \in Worker, NEW m \in Msg, Deliver(w, m) PROVE Knows' /\ Stored'
  <2>1. Knows' BY <1>18 DEF Knows, Deliver
  <2>2. Stored' BY <1>18 DEF Knows, Stored, Deliver
  <2> QED BY <2>1, <2>2
<1>19. ASSUME NEW w \in Worker, NEW m \in Msg, GiveUp(w, m) PROVE Knows' /\ Stored'
  <2>1. Knows' BY <1>19 DEF Knows, GiveUp
  <2>2. Stored' BY <1>19 DEF Knows, Stored, GiveUp
  <2> QED BY <2>1, <2>2
<1>20. ASSUME NEW w \in Worker, NEW id \in Key \cup {Zero}, SendDigest(w, id)
      PROVE Knows' /\ Stored'
  <2>1. Knows' BY <1>20 DEF Knows, SendDigest
  <2>2. Stored' BY <1>20 DEF Knows, Stored, SendDigest
  <2> QED BY <2>1, <2>2
<1>21. ASSUME NEW w \in Worker, Crash(w) PROVE Knows' /\ Stored'
  <2>1. Knows' BY <1>21 DEF Knows, Crash
  <2>2. Stored' BY <1>21 DEF Knows, Stored, Crash
  <2> QED BY <2>1, <2>2
<1>22. ASSUME NEW m \in Msg, Timeout(m) PROVE Knows' /\ Stored'
  <2>1. Knows' BY <1>22 DEF Knows, Timeout
  <2>2. Stored' BY <1>22 DEF Knows, Stored, Timeout
  <2> QED BY <2>1, <2>2
<1>23. ASSUME NEW k \in Key, LeaseLapse(k) PROVE Knows' /\ Stored'
  <2>1. Knows' BY <1>23 DEF Knows, LeaseLapse
  <2>2. Stored' BY <1>23 DEF Knows, Stored, LeaseLapse
  <2> QED BY <2>1, <2>2
<1>24. CASE UNCHANGED vars
  BY <1>24 DEF Knows, Stored
<1> QED
  BY <1>1, <1>2, <1>3, <1>4, <1>5, <1>6, <1>7, <1>8, <1>9, <1>10, <1>11, <1>12,
     <1>13, <1>14, <1>15, <1>16, <1>17, <1>18, <1>19, <1>20, <1>21, <1>22, <1>23,
     <1>24 DEF Next, Step, Quiet

\* One creator for a product, whose rows are not written before it writes them.
LEMMA CreatesStep ==
    Careful /\ IInv /\ [Next]_vars => Alone' /\ Ahead' /\ Depends'
<1> SUFFICES ASSUME Careful, IInv, [Next]_vars
             PROVE  Alone' /\ Ahead' /\ Depends'
  OBVIOUS
<1> USE TasksAssumption, NamesAssumption
    DEF Careful, IInv, Control, Obtain, NotObtained, Release, Fail, Return,
        Rollback, HaveProduct, GoDigest, InsertImage, InsertPrice, Plids, TypeOK,
        StoreTypeOK, HandlerTypeOK, Shape, Knows, Holds, KeyOf, AtEntity, HasRow,
        Early, Section, Outside, InProduct, InEntity, Row, vars, nsq, db, digest,
        local
<1>1. ASSUME NEW w \in Worker, Fetch(w) PROVE Alone' /\ Ahead' /\ Depends'
  <2>1. Alone' BY <1>1 DEF Alone, Owes, Fetch
  <2>2. Ahead' BY <1>1 DEF Alone, Ahead, Owes, Depends, Fetch
  <2>3. Depends' BY <1>1 DEF Ahead, Depends, Fetch
  <2> QED BY <2>1, <2>2, <2>3
<1>2. ASSUME NEW w \in Worker, FetchFails(w) PROVE Alone' /\ Ahead' /\ Depends'
  <2>1. Alone' BY <1>2 DEF Alone, Owes, FetchFails
  <2>2. Ahead' BY <1>2 DEF Alone, Ahead, Owes, Depends, FetchFails
  <2>3. Depends' BY <1>2 DEF Ahead, Depends, FetchFails
  <2> QED BY <2>1, <2>2, <2>3
<1>3. ASSUME NEW w \in Worker, LockProduct(w) PROVE Alone' /\ Ahead' /\ Depends'
  <2>1. Alone' BY <1>3 DEF Alone, Owes, LockProduct
  <2>2. Ahead' BY <1>3 DEF Alone, Ahead, Owes, Depends, LockProduct
  <2>3. Depends' BY <1>3 DEF Ahead, Depends, LockProduct
  <2> QED BY <2>1, <2>2, <2>3
<1>4. ASSUME NEW w \in Worker, Exists(w) PROVE Alone' /\ Ahead' /\ Depends'
  <2>1. Alone' BY <1>4 DEF Alone, Owes, Exists
  <2>2. Ahead' BY <1>4 DEF Alone, Ahead, Owes, Depends, Exists
  <2>3. Depends' BY <1>4 DEF Ahead, Depends, Exists
  <2> QED BY <2>1, <2>2, <2>3
<1>5. ASSUME NEW w \in Worker, FindProduct(w) PROVE Alone' /\ Ahead' /\ Depends'
  <2>1. Alone' BY <1>5 DEF Alone, Owes, FindProduct
  <2>2. Ahead' BY <1>5 DEF Alone, Ahead, Owes, Depends, FindProduct
  <2>3. Depends' BY <1>5 DEF Ahead, Depends, FindProduct
  <2> QED BY <2>1, <2>2, <2>3
<1>6. ASSUME NEW w \in Worker, CreateProduct(w) PROVE Alone' /\ Ahead' /\ Depends'
  <2>1. Alone' BY <1>6 DEF Alone, Owes, CreateProduct
  <2>2. Ahead' BY <1>6 DEF Alone, Ahead, Owes, Depends, CreateProduct
  <2>3. Depends' BY <1>6 DEF Ahead, Depends, CreateProduct
  <2> QED BY <2>1, <2>2, <2>3
<1>7. ASSUME NEW w \in Worker, UnlockProduct(w) PROVE Alone' /\ Ahead' /\ Depends'
  <2>1. Alone' BY <1>7 DEF Alone, Owes, UnlockProduct
  <2>2. Ahead' BY <1>7 DEF Alone, Ahead, Owes, Depends, UnlockProduct
  <2>3. Depends' BY <1>7 DEF Ahead, Depends, UnlockProduct
  <2> QED BY <2>1, <2>2, <2>3
<1>8. ASSUME NEW w \in Worker, PersistImage(w) PROVE Alone' /\ Ahead' /\ Depends'
  <2>1. Alone' BY <1>8 DEF Alone, Owes, PersistImage
  <2>2. Ahead' BY <1>8 DEF Alone, Ahead, Owes, Depends, PersistImage
  <2>3. Depends'
    <3>1. pid[w] \in product /\ images[pid[w]] < GallerySize
      BY <1>8 DEF PersistImage, Ahead
    <3>2. UNCHANGED <<product, entity, link>>
      BY <1>8 DEF PersistImage
    <3>3. images' = images \/ images' = [images EXCEPT ![pid[w]] = @ + 1]
      BY <1>8 DEF PersistImage
    <3> QED BY <3>1, <3>2, <3>3, SMTT(30) DEF Depends
  <2> QED BY <2>1, <2>2, <2>3
<1>9. ASSUME NEW w \in Worker, ImagesDone(w) PROVE Alone' /\ Ahead' /\ Depends'
  <2>1. Alone' BY <1>9 DEF Alone, Owes, ImagesDone
  <2>2. Ahead' BY <1>9 DEF Alone, Ahead, Owes, Depends, ImagesDone
  <2>3. Depends' BY <1>9 DEF Ahead, Depends, ImagesDone
  <2> QED BY <2>1, <2>2, <2>3
<1>10. ASSUME NEW w \in Worker, PersistPrice(w) PROVE Alone' /\ Ahead' /\ Depends'
  <2>1. Alone' BY <1>10 DEF Alone, Owes, PersistPrice
  <2>2. Ahead' BY <1>10 DEF Alone, Ahead, Owes, Depends, PersistPrice
  <2>3. Depends' BY <1>10 DEF Ahead, Depends, PersistPrice
  <2> QED BY <2>1, <2>2, <2>3
<1>11. ASSUME NEW w \in Worker, Finish(w) PROVE Alone' /\ Ahead' /\ Depends'
  <2>1. Alone' BY <1>11 DEF Alone, Owes, Finish
  <2>2. Ahead' BY <1>11 DEF Alone, Ahead, Owes, Depends, Finish
  <2>3. Depends' BY <1>11 DEF Ahead, Depends, Finish
  <2> QED BY <2>1, <2>2, <2>3
<1>12. ASSUME NEW w \in Worker, NEW e \in Entity, NextEntity(w, e)
      PROVE Alone' /\ Ahead' /\ Depends'
  <2>1. Alone' BY <1>12 DEF Alone, Owes, NextEntity
  <2>2. Ahead' BY <1>12 DEF Alone, Ahead, Owes, Depends, NextEntity
  <2>3. Depends' BY <1>12 DEF Ahead, Depends, NextEntity
  <2> QED BY <2>1, <2>2, <2>3
<1>13. ASSUME NEW w \in Worker, LockEntity(w) PROVE Alone' /\ Ahead' /\ Depends'
  <2>1. Alone' BY <1>13 DEF Alone, Owes, LockEntity
  <2>2. Ahead' BY <1>13 DEF Alone, Ahead, Owes, Depends, LockEntity
  <2>3. Depends' BY <1>13 DEF Ahead, Depends, LockEntity
  <2> QED BY <2>1, <2>2, <2>3
<1>14. ASSUME NEW w \in Worker, FindEntity(w) PROVE Alone' /\ Ahead' /\ Depends'
  <2>1. Alone' BY <1>14 DEF Alone, Owes, FindEntity
  <2>2. Ahead' BY <1>14 DEF Alone, Ahead, Owes, Depends, FindEntity
  <2>3. Depends' BY <1>14 DEF Ahead, Depends, FindEntity
  <2> QED BY <2>1, <2>2, <2>3
<1>15. ASSUME NEW w \in Worker, CreateEntity(w) PROVE Alone' /\ Ahead' /\ Depends'
  <2>1. Alone' BY <1>15 DEF Alone, Owes, CreateEntity
  <2>2. Ahead' BY <1>15 DEF Alone, Ahead, Owes, Depends, CreateEntity
  <2>3. Depends' BY <1>15 DEF Ahead, Depends, CreateEntity
  <2> QED BY <2>1, <2>2, <2>3
<1>16. ASSUME NEW w \in Worker, LinkEntity(w) PROVE Alone' /\ Ahead' /\ Depends'
  <2>1. Alone' BY <1>16 DEF Alone, Owes, LinkEntity
  <2>2. Ahead' BY <1>16 DEF Alone, Ahead, Owes, Depends, LinkEntity
  <2>3. Depends'
    <3> DEFINE r == <<pid[w], cur[w]>>
    <3>1. /\ r \in Row /\ link[r] = 0 /\ eid[w] = cur[w]
          /\ r[1] \in product /\ r[2] \in entity
      BY <1>16 DEF LinkEntity, Ahead
    <3>2. UNCHANGED <<product, entity, images>>
      BY <1>16 DEF LinkEntity
    <3>3. link' = link \/ link' = [link EXCEPT ![r] = 1]
      BY <1>16, <3>1 DEF LinkEntity
    <3> HIDE DEF r
    <3> QED BY <3>1, <3>2, <3>3, SMTT(30) DEF Depends
  <2> QED BY <2>1, <2>2, <2>3
<1>17. ASSUME NEW w \in Worker, UnlockEntity(w) PROVE Alone' /\ Ahead' /\ Depends'
  <2>1. Alone' BY <1>17 DEF Alone, Owes, UnlockEntity
  <2>2. Ahead'
    <3>1. UNCHANGED <<product, images, link>>
      BY <1>17 DEF UnlockEntity
    <3>2. \A v \in Worker : v # w =>
            pc'[v] = pc[v] /\ pid'[v] = pid[v] /\ img'[v] = img[v]
            /\ todo'[v] = todo[v] /\ cur'[v] = cur[v]
      BY <1>17 DEF UnlockEntity
    <3>3. CASE pc[w] = "entUnlock"
      <4>1. pc'[w] = "entities" /\ UNCHANGED <<todo, pid, img>>
        BY <1>17, <3>3 DEF UnlockEntity
      <4>2. SUFFICES ASSUME NEW v \in Worker PROVE Ahead!(v)'
        BY DEF Ahead
      <4>3. CASE v = w
        <5>1. /\ todo[w] \subseteq EntitiesOf[pid[w]]
              /\ \A e \in todo[w] : link[<<pid[w], e>>] = 0
          BY <3>3 DEF Ahead
        <5> QED BY ONLY <3>1, <4>1, <4>3, <5>1 DEF AtEntity, HasRow, InEntity
      <4>4. CASE v # w
        BY <3>1, <3>2, <4>4 DEF Ahead
      <4> QED BY <4>3, <4>4
    <3>4. CASE pc[w] = "entFail"
      BY <1>17, <3>1, <3>2, <3>4, SMTT(30) DEF Ahead, UnlockEntity
    <3> QED BY <1>17, <3>3, <3>4 DEF UnlockEntity
  <2>3. Depends' BY <1>17 DEF Ahead, Depends, UnlockEntity
  <2> QED BY <2>1, <2>2, <2>3
<1>18. ASSUME NEW w \in Worker, NEW m \in Msg, Deliver(w, m)
      PROVE Alone' /\ Ahead' /\ Depends'
  <2>1. Alone' BY <1>18 DEF Alone, Owes, Deliver
  <2>2. Ahead' BY <1>18 DEF Alone, Ahead, Owes, Depends, Deliver
  <2>3. Depends' BY <1>18 DEF Ahead, Depends, Deliver
  <2> QED BY <2>1, <2>2, <2>3
<1>19. ASSUME NEW w \in Worker, NEW m \in Msg, GiveUp(w, m)
      PROVE Alone' /\ Ahead' /\ Depends'
  <2>1. Alone' BY <1>19 DEF Alone, Owes, GiveUp
  <2>2. Ahead' BY <1>19 DEF Alone, Ahead, Owes, Depends, GiveUp
  <2>3. Depends' BY <1>19 DEF Ahead, Depends, GiveUp
  <2> QED BY <2>1, <2>2, <2>3
<1>20. ASSUME NEW w \in Worker, NEW id \in Key \cup {Zero}, SendDigest(w, id)
      PROVE Alone' /\ Ahead' /\ Depends'
  <2>1. Alone' BY <1>20 DEF Alone, Owes, SendDigest
  <2>2. Ahead' BY <1>20 DEF Alone, Ahead, Owes, Depends, SendDigest
  <2>3. Depends' BY <1>20 DEF Ahead, Depends, SendDigest
  <2> QED BY <2>1, <2>2, <2>3
<1>21. ASSUME NEW w \in Worker, Crash(w) PROVE Alone' /\ Ahead' /\ Depends'
  <2>1. Alone' BY <1>21 DEF Alone, Owes, Crash
  <2>2. Ahead' BY <1>21 DEF Alone, Ahead, Owes, Depends, Crash
  <2>3. Depends' BY <1>21 DEF Ahead, Depends, Crash
  <2> QED BY <2>1, <2>2, <2>3
<1>22. ASSUME NEW m \in Msg, Timeout(m) PROVE Alone' /\ Ahead' /\ Depends'
  <2>1. Alone' BY <1>22 DEF Alone, Owes, Timeout
  <2>2. Ahead' BY <1>22 DEF Alone, Ahead, Owes, Depends, Timeout
  <2>3. Depends' BY <1>22 DEF Ahead, Depends, Timeout
  <2> QED BY <2>1, <2>2, <2>3
<1>23. ASSUME NEW k \in Key, LeaseLapse(k) PROVE Alone' /\ Ahead' /\ Depends'
  <2>1. Alone' BY <1>23 DEF Alone, Owes, LeaseLapse
  <2>2. Ahead' BY <1>23 DEF Alone, Ahead, Owes, Depends, LeaseLapse
  <2>3. Depends' BY <1>23 DEF Ahead, Depends, LeaseLapse
  <2> QED BY <2>1, <2>2, <2>3
<1>24. CASE UNCHANGED vars
  BY <1>24 DEF Alone, Ahead, Depends, Owes
<1> QED
  BY <1>1, <1>2, <1>3, <1>4, <1>5, <1>6, <1>7, <1>8, <1>9, <1>10, <1>11, <1>12,
     <1>13, <1>14, <1>15, <1>16, <1>17, <1>18, <1>19, <1>20, <1>21, <1>22, <1>23,
     <1>24 DEF Next, Step, Quiet

\* Without any assumption on the failures: ids are good or 0.
LEMMA ZeroStep ==
    Control /\ KnowsOrZero /\ ResolveOrZero /\ [Next]_vars => KnowsOrZero' /\ ResolveOrZero'
<1> SUFFICES ASSUME Control, KnowsOrZero, ResolveOrZero, [Next]_vars
             PROVE  KnowsOrZero' /\ ResolveOrZero'
  OBVIOUS
<1> USE TasksAssumption, NamesAssumption
    DEF Control, Obtain, NotObtained, Release, Fail, Return, Rollback,
        HaveProduct, GoDigest, InsertImage, InsertPrice, Plids, TypeOK,
        StoreTypeOK, HandlerTypeOK, Shape, KnowsOrZero, ResolveOrZero, KeyOf,
        AtEntity, HasRow, Early, Section, Outside, InProduct, InEntity, Row, vars,
        nsq, db, digest, local
<1>1. ASSUME NEW w \in Worker, Fetch(w) PROVE KnowsOrZero' /\ ResolveOrZero'
  <2>1. KnowsOrZero' BY <1>1 DEF Fetch
  <2>2. ResolveOrZero' BY <1>1 DEF Fetch
  <2> QED BY <2>1, <2>2
<1>2. ASSUME NEW w \in Worker, FetchFails(w) PROVE KnowsOrZero' /\ ResolveOrZero'
  <2>1. KnowsOrZero' BY <1>2 DEF FetchFails
  <2>2. ResolveOrZero' BY <1>2 DEF FetchFails
  <2> QED BY <2>1, <2>2
<1>3. ASSUME NEW w \in Worker, LockProduct(w) PROVE KnowsOrZero' /\ ResolveOrZero'
  <2>1. KnowsOrZero' BY <1>3 DEF LockProduct
  <2>2. ResolveOrZero' BY <1>3 DEF LockProduct
  <2> QED BY <2>1, <2>2
<1>4. ASSUME NEW w \in Worker, Exists(w) PROVE KnowsOrZero' /\ ResolveOrZero'
  <2>1. KnowsOrZero' BY <1>4 DEF Exists
  <2>2. ResolveOrZero' BY <1>4 DEF Exists
  <2> QED BY <2>1, <2>2
<1>5. ASSUME NEW w \in Worker, FindProduct(w) PROVE KnowsOrZero' /\ ResolveOrZero'
  <2>1. KnowsOrZero' BY <1>5 DEF FindProduct
  <2>2. ResolveOrZero' BY <1>5 DEF FindProduct
  <2> QED BY <2>1, <2>2
<1>6. ASSUME NEW w \in Worker, CreateProduct(w) PROVE KnowsOrZero' /\ ResolveOrZero'
  <2>1. KnowsOrZero' BY <1>6 DEF CreateProduct
  <2>2. ResolveOrZero' BY <1>6 DEF CreateProduct
  <2> QED BY <2>1, <2>2
<1>7. ASSUME NEW w \in Worker, UnlockProduct(w) PROVE KnowsOrZero' /\ ResolveOrZero'
  <2>1. KnowsOrZero' BY <1>7 DEF UnlockProduct
  <2>2. ResolveOrZero' BY <1>7 DEF UnlockProduct
  <2> QED BY <2>1, <2>2
<1>8. ASSUME NEW w \in Worker, PersistImage(w) PROVE KnowsOrZero' /\ ResolveOrZero'
  <2>1. KnowsOrZero' BY <1>8 DEF PersistImage
  <2>2. ResolveOrZero' BY <1>8, SMTT(60) DEF PersistImage
  <2> QED BY <2>1, <2>2
<1>9. ASSUME NEW w \in Worker, ImagesDone(w) PROVE KnowsOrZero' /\ ResolveOrZero'
  <2>1. KnowsOrZero' BY <1>9 DEF ImagesDone
  <2>2. ResolveOrZero' BY <1>9 DEF ImagesDone
  <2> QED BY <2>1, <2>2
<1>10. ASSUME NEW w \in Worker, PersistPrice(w) PROVE KnowsOrZero' /\ ResolveOrZero'
  <2>1. KnowsOrZero' BY <1>10 DEF PersistPrice
  <2>2. ResolveOrZero' BY <1>10 DEF PersistPrice
  <2> QED BY <2>1, <2>2
<1>11. ASSUME NEW w \in Worker, Finish(w) PROVE KnowsOrZero' /\ ResolveOrZero'
  <2>1. KnowsOrZero' BY <1>11 DEF Finish
  <2>2. ResolveOrZero' BY <1>11 DEF Finish
  <2> QED BY <2>1, <2>2
<1>12. ASSUME NEW w \in Worker, NEW e \in Entity, NextEntity(w, e)
      PROVE KnowsOrZero' /\ ResolveOrZero'
  <2>1. KnowsOrZero' BY <1>12 DEF NextEntity
  <2>2. ResolveOrZero' BY <1>12 DEF NextEntity
  <2> QED BY <2>1, <2>2
<1>13. ASSUME NEW w \in Worker, LockEntity(w) PROVE KnowsOrZero' /\ ResolveOrZero'
  <2>1. KnowsOrZero' BY <1>13 DEF LockEntity
  <2>2. ResolveOrZero' BY <1>13 DEF LockEntity
  <2> QED BY <2>1, <2>2
<1>14. ASSUME NEW w \in Worker, FindEntity(w) PROVE KnowsOrZero' /\ ResolveOrZero'
  <2>1. KnowsOrZero' BY <1>14 DEF FindEntity
  <2>2. ResolveOrZero' BY <1>14 DEF FindEntity
  <2> QED BY <2>1, <2>2
<1>15. ASSUME NEW w \in Worker, CreateEntity(w) PROVE KnowsOrZero' /\ ResolveOrZero'
  <2>1. KnowsOrZero' BY <1>15 DEF CreateEntity
  <2>2. ResolveOrZero' BY <1>15 DEF CreateEntity
  <2> QED BY <2>1, <2>2
<1>16. ASSUME NEW w \in Worker, LinkEntity(w) PROVE KnowsOrZero' /\ ResolveOrZero'
  <2>1. KnowsOrZero' BY <1>16 DEF LinkEntity
  <2>2. ResolveOrZero' BY <1>16 DEF LinkEntity
  <2> QED BY <2>1, <2>2
<1>17. ASSUME NEW w \in Worker, UnlockEntity(w) PROVE KnowsOrZero' /\ ResolveOrZero'
  <2>1. KnowsOrZero' BY <1>17 DEF UnlockEntity
  <2>2. ResolveOrZero' BY <1>17 DEF UnlockEntity
  <2> QED BY <2>1, <2>2
<1>18. ASSUME NEW w \in Worker, NEW m \in Msg, Deliver(w, m)
      PROVE KnowsOrZero' /\ ResolveOrZero'
  <2>1. KnowsOrZero' BY <1>18 DEF Deliver
  <2>2. ResolveOrZero' BY <1>18 DEF Deliver
  <2> QED BY <2>1, <2>2
<1>19. ASSUME NEW w \in Worker, NEW m \in Msg, GiveUp(w, m)
      PROVE KnowsOrZero' /\ ResolveOrZero'
  <2>1. KnowsOrZero' BY <1>19 DEF GiveUp
  <2>2. ResolveOrZero' BY <1>19 DEF GiveUp
  <2> QED BY <2>1, <2>2
<1>20. ASSUME NEW w \in Worker, NEW id \in Key \cup {Zero}, SendDigest(w, id)
      PROVE KnowsOrZero' /\ ResolveOrZero'
  <2>1. KnowsOrZero' BY <1>20 DEF SendDigest
  <2>2. ResolveOrZero' BY <1>20 DEF SendDigest
  <2> QED BY <2>1, <2>2
<1>21. ASSUME NEW w \in Worker, Crash(w) PROVE KnowsOrZero' /\ ResolveOrZero'
  <2>1. KnowsOrZero' BY <1>21 DEF Crash
  <2>2. ResolveOrZero' BY <1>21 DEF Crash
  <2> QED BY <2>1, <2>2
<1>22. ASSUME NEW m \in Msg, Timeout(m) PROVE KnowsOrZero' /\ ResolveOrZero'
  <2>1. KnowsOrZero' BY <1>22 DEF Timeout
  <2>2. ResolveOrZero' BY <1>22 DEF Timeout
  <2> QED BY <2>1, <2>2
<1>23. ASSUME NEW k \in Key, LeaseLapse(k) PROVE KnowsOrZero' /\ ResolveOrZero'
  <2>1. KnowsOrZero' BY <1>23 DEF LeaseLapse
  <2>2. ResolveOrZero' BY <1>23 DEF LeaseLapse
  <2> QED BY <2>1, <2>2
<1>24. CASE UNCHANGED vars
  BY <1>24
<1> QED
  BY <1>1, <1>2, <1>3, <1>4, <1>5, <1>6, <1>7, <1>8, <1>9, <1>10, <1>11, <1>12,
     <1>13, <1>14, <1>15, <1>16, <1>17, <1>18, <1>19, <1>20, <1>21, <1>22, <1>23,
     <1>24 DEF Next, Step, Quiet

\* Every step of a handler is a step of Catalog or changes no table.
LEMMA RefinementStep ==
    Careful /\ IInv /\ [Next]_vars => [Tables!Next]_(Tables!cvars)
<1> SUFFICES ASSUME Careful, IInv, [Next]_vars
             PROVE  [Tables!Next]_(Tables!cvars)
  OBVIOUS
<1> USE TasksAssumption, NamesAssumption
    DEF Careful, IInv, Control, Obtain, NotObtained, Release, Fail, Return,
        Rollback, HaveProduct, GoDigest, InsertImage, InsertPrice, Plids, TypeOK,
        StoreTypeOK, HandlerTypeOK, Shape, Knows, Stored, Ahead, AtEntity, HasRow,
        InProduct, InEntity, vars, nsq, db, digest, local, Tables!Next,
        Tables!cvars, Tables!AddProduct, Tables!AddImage, Tables!AddPrice,
        Tables!AddEntity, Tables!AddLink, Tables!Digest
<1>1. ASSUME NEW w \in Worker, Fetch(w) PROVE [Tables!Next]_(Tables!cvars)
  BY <1>1 DEF Fetch
<1>2. ASSUME NEW w \in Worker, FetchFails(w) PROVE [Tables!Next]_(Tables!cvars)
  BY <1>2 DEF FetchFails
<1>3. ASSUME NEW w \in Worker, LockProduct(w) PROVE [Tables!Next]_(Tables!cvars)
  BY <1>3 DEF LockProduct
<1>4. ASSUME NEW w \in Worker, Exists(w) PROVE [Tables!Next]_(Tables!cvars)
  BY <1>4 DEF Exists
<1>5. ASSUME NEW w \in Worker, FindProduct(w) PROVE [Tables!Next]_(Tables!cvars)
  BY <1>5 DEF FindProduct
<1>6. ASSUME NEW w \in Worker, CreateProduct(w) PROVE [Tables!Next]_(Tables!cvars)
  <2>1. Plids(w) \in Plid /\ Plids(w) \notin product
    BY <1>6 DEF CreateProduct
  <2>2. UNCHANGED <<entity, images, priced, link, digested>>
    BY <1>6 DEF CreateProduct
  <2>3. product' = product \/ product' = product \cup {Plids(w)}
    BY <1>6 DEF CreateProduct
  <2> QED BY ONLY <2>1, <2>2, <2>3
          DEF Tables!Next, Tables!cvars, Tables!AddProduct
<1>7. ASSUME NEW w \in Worker, UnlockProduct(w) PROVE [Tables!Next]_(Tables!cvars)
  BY <1>7 DEF UnlockProduct
<1>8. ASSUME NEW w \in Worker, PersistImage(w) PROVE [Tables!Next]_(Tables!cvars)
  <2>1. pid[w] \in Plid /\ pid[w] \in product /\ images[pid[w]] < GallerySize
    BY <1>8 DEF PersistImage
  <2>2. UNCHANGED <<product, entity, priced, link, digested>>
    BY <1>8 DEF PersistImage
  <2>3. images' = images \/ images' = [images EXCEPT ![pid[w]] = @ + 1]
    BY <1>8 DEF PersistImage
  <2> QED BY ONLY <2>1, <2>2, <2>3
          DEF Tables!Next, Tables!cvars, Tables!AddImage
<1>9. ASSUME NEW w \in Worker, ImagesDone(w) PROVE [Tables!Next]_(Tables!cvars)
  BY <1>9 DEF ImagesDone
<1>10. ASSUME NEW w \in Worker, PersistPrice(w) PROVE [Tables!Next]_(Tables!cvars)
  BY <1>10 DEF PersistPrice
<1>11. ASSUME NEW w \in Worker, Finish(w) PROVE [Tables!Next]_(Tables!cvars)
  BY <1>11 DEF Finish
<1>12. ASSUME NEW w \in Worker, NEW e \in Entity, NextEntity(w, e)
      PROVE [Tables!Next]_(Tables!cvars)
  BY <1>12 DEF NextEntity
<1>13. ASSUME NEW w \in Worker, LockEntity(w) PROVE [Tables!Next]_(Tables!cvars)
  BY <1>13 DEF LockEntity
<1>14. ASSUME NEW w \in Worker, FindEntity(w) PROVE [Tables!Next]_(Tables!cvars)
  BY <1>14 DEF FindEntity
<1>15. ASSUME NEW w \in Worker, CreateEntity(w) PROVE [Tables!Next]_(Tables!cvars)
  BY <1>15 DEF CreateEntity
<1>16. ASSUME NEW w \in Worker, LinkEntity(w) PROVE [Tables!Next]_(Tables!cvars)
  <2>1. /\ pid[w] \in Plid /\ pid[w] \in product /\ eid[w] = cur[w]
        /\ cur[w] \in Entity /\ cur[w] \in EntitiesOf[pid[w]] \cap entity
        /\ link[<<pid[w], cur[w]>>] = 0
    BY <1>16 DEF LinkEntity
  <2>2. UNCHANGED <<product, entity, images, priced, digested>>
    BY <1>16 DEF LinkEntity
  <2>3. link' = link \/ link' = [link EXCEPT ![<<pid[w], cur[w]>>] = 1]
    BY <1>16, <2>1 DEF LinkEntity
  <2> QED BY ONLY <2>1, <2>2, <2>3
          DEF Tables!Next, Tables!cvars, Tables!AddLink, Entity
<1>17. ASSUME NEW w \in Worker, UnlockEntity(w) PROVE [Tables!Next]_(Tables!cvars)
  BY <1>17 DEF UnlockEntity
<1>18. ASSUME NEW w \in Worker, NEW m \in Msg, Deliver(w, m)
      PROVE [Tables!Next]_(Tables!cvars)
  BY <1>18 DEF Deliver
<1>19. ASSUME NEW w \in Worker, NEW m \in Msg, GiveUp(w, m)
      PROVE [Tables!Next]_(Tables!cvars)
  BY <1>19 DEF GiveUp
<1>20. ASSUME NEW w \in Worker, NEW id \in Key \cup {Zero}, SendDigest(w, id)
      PROVE [Tables!Next]_(Tables!cvars)
  BY <1>20 DEF SendDigest
<1>21. ASSUME NEW w \in Worker, Crash(w) PROVE [Tables!Next]_(Tables!cvars)
  BY <1>21 DEF Crash
<1>22. ASSUME NEW m \in Msg, Timeout(m) PROVE [Tables!Next]_(Tables!cvars)
  BY <1>22 DEF Timeout
<1>23. ASSUME NEW k \in Key, LeaseLapse(k) PROVE [Tables!Next]_(Tables!cvars)
  BY <1>23 DEF LeaseLapse
<1>24. CASE UNCHANGED vars
  BY <1>24
<1> QED
  BY <1>1, <1>2, <1>3, <1>4, <1>5, <1>6, <1>7, <1>8, <1>9, <1>10, <1>11, <1>12,
     <1>13, <1>14, <1>15, <1>16, <1>17, <1>18, <1>19, <1>20, <1>21, <1>22, <1>23,
     <1>24 DEF Next, Step, Quiet
-----------------------------------------------------------------------------
\* Nothing is stored and nobody works.
LEMMA InitIInv == Init => IInv /\ KnowsOrZero /\ ResolveOrZero
<1> SUFFICES ASSUME Init PROVE IInv /\ KnowsOrZero /\ ResolveOrZero
  OBVIOUS
<1> USE TasksAssumption, NamesAssumption
    DEF Init, AtEntity, HasRow, Early, Section, Outside, InProduct, InEntity, Final, Row
<1>1. Control
  BY DEF Control, TypeOK, NsqTypeOK, StoreTypeOK, HandlerTypeOK, Shape
<1>2. Holds /\ Knows /\ Stored
  BY DEF Holds, Knows, Stored
<1>3. Alone /\ Ahead /\ Depends
  BY DEF Alone, Ahead, Depends, Owes
<1>4. KnowsOrZero /\ ResolveOrZero
  BY DEF KnowsOrZero, ResolveOrZero
<1> QED BY <1>1, <1>2, <1>3, <1>4 DEF IInv

\* The layers together.
LEMMA Inductive == Careful /\ IInv /\ [Next]_vars => IInv'
  BY ControlStep, HoldsStep, KnowsStep, CreatesStep DEF IInv, Careful

\* Whatever fails, every variable keeps its type and no task is delivered more
\* often than go-nsq allows.
THEOREM TypeCorrect == Spec => []TypeOK
<1>1. Init => Control
  BY InitIInv DEF IInv
<1>2. Control /\ [Next]_vars => Control'
  BY ControlStep
<1> QED BY <1>1, <1>2, PTL DEF Spec, Control

\* As long as no lease runs out under its holder, two handlers are never
\* between Obtain and Release of one key, crashes and leaked leases included.
THEOREM MutualExclusion ==
    ASSUME "lease" \notin Faults
    PROVE  Spec => []LocksExclude
<1>1. Init => Control /\ Holds
  BY InitIInv DEF IInv
<1>2. Control /\ Holds /\ [Next]_vars => (Control /\ Holds)'
  BY ControlStep, HoldsStep
<1>3. Control /\ Holds => LocksExclude
  BY DEF Holds, LocksExclude
<1> QED BY <1>1, <1>2, <1>3, PTL DEF Spec

\* The inductive invariant holds in every reachable state.
LEMMA Invariance == ASSUME Careful PROVE Spec => []IInv
<1>1. Init => IInv
  BY InitIInv
<1>2. IInv /\ [Next]_vars => IInv'
  BY Inductive
<1> QED BY <1>1, <1>2, PTL DEF Spec

\* No link and no digest ever carries the id of a row that is not stored.
THEOREM RowsAlwaysResolve == ASSUME Careful PROVE Spec => []RowsResolve
<1>1. IInv => RowsResolve
  BY DEF IInv, Stored, Depends, RowsResolve, Row
<1> QED BY <1>1, Invariance, PTL

\* Images and links are stored once however often a task is delivered.
THEOREM StoredAtMostOnce == ASSUME Careful PROVE Spec => []StoredOnce
<1>1. IInv => StoredOnce
  BY DEF IInv, Depends, StoredOnce
<1> QED BY <1>1, Invariance, PTL

\* A task finished without an error has left a price.
THEOREM RecordedTasksArePriced == ASSUME Careful PROVE Spec => []RecordedIsPriced
<1>1. IInv => RecordedIsPriced
  BY DEF IInv, Stored, RecordedIsPriced
<1> QED BY <1>1, Invariance, PTL

\* Even when leases run out, SELECTs fail and spellings collide, what is stored
\* refers to stored rows or to ID 0, and prices and images to stored products.
THEOREM AlwaysResolveOrZero == Spec => []ResolveOrZero
<1>1. Init => Control /\ KnowsOrZero /\ ResolveOrZero
  BY InitIInv DEF IInv
<1>2. Control /\ KnowsOrZero /\ ResolveOrZero /\ [Next]_vars
        => (Control /\ KnowsOrZero /\ ResolveOrZero)'
  BY ControlStep, ZeroStep
<1> QED BY <1>1, <1>2, PTL DEF Spec

\* The handlers, their locks and retries do to the tables what Catalog allows.
THEOREM Refinement == ASSUME Careful PROVE Spec => ImplementsCatalog
<1>1. Init => Tables!Init
  BY DEF Init, Tables!Init, Row, Tables!Row
<1>2. IInv /\ [Next]_vars => [Tables!Next]_(Tables!cvars)
  BY RefinementStep
<1> QED BY <1>1, <1>2, Invariance, PTL DEF Spec, Tables!Spec, ImplementsCatalog
-----------------------------------------------------------------------------
(***************************************************************************)
(* What is left of a product whose tasks were each delivered once.         *)
(***************************************************************************)

\* A task that fails, times out or is dropped will not be one that was finished
\* at the first delivery.
Spoiled(m) ==
    \/ attempts[m] >= 2
    \/ attempts[m] >= 1 /\ status[m] = "queued"
    \/ status[m] = "dropped"

\* A message in flight is that of the worker whose answer counts; any other
\* worker's has been delivered again, or will be.
Queues ==
    /\ \A m \in Msg : status[m] = "inflight" <=> owner[m] \in Worker
    /\ \A m \in Msg : owner[m] \in Worker => job[owner[m]] = m
    /\ \A w \in Worker : pc[w] = "idle" => job[w] = NoMsg
    /\ \A w \in Worker, m \in Msg : job[w] = m =>
          attempts[m] >= 1 /\ (owner[m] = w \/ Spoiled(m))

\* The product's gallery and links are stored.
Done(p) ==
    /\ images[p] = GallerySize
    /\ \A e \in EntitiesOf[p] : link[<<p, e>>] = 1

\* The handler that created the product has yet to write what is missing, or
\* to return the error that keeps it from doing so.
Creating(w, p) ==
    /\ pc[w] \in HasRow \ {"unlockSeen"}
    /\ pc[w] \in {"unlockNew", "images"} \/ images[p] = GallerySize
    /\ \A e \in EntitiesOf[p] :
          \/ e \in todo[w]
          \/ link[<<p, e>>] = 1
          \/ cur[w] = e /\ pc[w] \in {"entLock", "entFind", "entCreate", "entLink", "entFail"}

Pending(w, p) ==
    /\ job[w] \in Msg /\ Plids(w) = p
    /\ pc[w] = "unlockFail" \/ Creating(w, p)

Unspoiled(p) == \A m \in Msg : PlidOf[m] = p => ~Spoiled(m)

Progress ==
    \A p \in product : Unspoiled(p) => Done(p) \/ \E w \in Worker : Pending(w, p)

\* What a step may do to the queue: one of NSQ's, or a handler's answer.
LEMMA QueueMoves ==
  ASSUME Control, [Next]_vars
  PROVE  \/ UNCHANGED <<nsq, job>> /\ \A w \in Worker : pc'[w] = "idle" <=> pc[w] = "idle"
         \/ \E w \in Worker, m \in Msg : Deliver(w, m) \/ GiveUp(w, m)
         \/ \E m \in Msg : Timeout(m)
         \/ \E w \in Worker : \E a \in {"queued", "recorded", "ignored"} :
               pc[w] # "idle" /\ Return(w, a)
  <1> DEFINE Same == UNCHANGED <<nsq, job>> /\ \A w \in Worker : pc'[w] = "idle" <=> pc[w] = "idle"
             Answers(w) == \E a \in {"queued", "recorded", "ignored"} :
                              pc[w] # "idle" /\ Return(w, a)
  <1>0. pc \in [Worker -> Section \cup Outside] /\ "idle" \notin Section
    BY DEF Control, TypeOK, HandlerTypeOK, Section, InProduct, InEntity
  <1>1. ASSUME NEW w \in Worker, Step(w) PROVE Same \/ Answers(w)
    <2>1. CASE Fetch(w)
      BY <1>0, <2>1 DEF Fetch, local
    <2>7. CASE FetchFails(w)
      BY <2>7 DEF FetchFails
    <2>2. CASE LockProduct(w) \/ LockEntity(w)
      BY <1>0, <2>2 DEF LockProduct, LockEntity, Obtain, NotObtained, Fail, local
    <2>3. CASE Exists(w) \/ FindProduct(w) \/ CreateProduct(w)
      BY <1>0, <2>3 DEF Exists, FindProduct, CreateProduct, HaveProduct, Rollback, local
    <2>4. CASE UnlockProduct(w) \/ UnlockEntity(w)
      BY <1>0, <2>4 DEF UnlockProduct, UnlockEntity, Fail, local
    <2>5. CASE PersistImage(w) \/ ImagesDone(w) \/ PersistPrice(w) \/ Finish(w)
      BY <1>0, <2>5 DEF PersistImage, ImagesDone, PersistPrice, Finish, Fail, nsq, local
    <2>6. CASE (\E e \in Entity : NextEntity(w, e)) \/ FindEntity(w) \/ CreateEntity(w) \/ LinkEntity(w)
      BY <1>0, <2>6 DEF NextEntity, FindEntity, CreateEntity, LinkEntity, Rollback, local
    <2> QED BY <1>1, <2>1, <2>2, <2>3, <2>4, <2>5, <2>6, <2>7 DEF Step
  <1>2. ASSUME NEW w \in Worker, NEW id \in Key \cup {Zero}, SendDigest(w, id) PROVE Same
    BY <1>2 DEF SendDigest, local
  <1>3. ASSUME NEW w \in Worker, Crash(w) PROVE Same \/ Answers(w)
    BY <1>3 DEF Crash, Fail, local
  <1>4. ASSUME NEW k \in Key, LeaseLapse(k) PROVE Same
    BY <1>4 DEF LeaseLapse, local
  <1>5. ASSUME UNCHANGED vars PROVE Same
    BY <1>5 DEF vars, local
  <1> HIDE DEF Same, Answers
  <1>6. \/ Same
        \/ \E w \in Worker, m \in Msg : Deliver(w, m) \/ GiveUp(w, m)
        \/ \E m \in Msg : Timeout(m)
        \/ \E w \in Worker : Answers(w)
    BY <1>1, <1>2, <1>3, <1>4, <1>5 DEF Next, Quiet
  <1> QED BY <1>6 DEF Same, Answers

\* The queue keeps its order, and what is spoiled stays so.
LEMMA QueuesStep ==
  ASSUME Control, Queues, [Next]_vars
  PROVE  Queues' /\ \A m \in Msg : Spoiled(m) => Spoiled(m)'
  <1> USE TasksAssumption, NamesAssumption
  <1>0. /\ status \in [Msg -> {"queued", "inflight"} \cup Final]
        /\ owner \in [Msg -> Worker \cup {NoWorker}]
        /\ attempts \in [Msg -> Nat]
        /\ pc \in [Worker -> Section \cup Outside]
        /\ job \in [Worker -> Msg \cup {NoMsg}]
        /\ \A w \in Worker : pc[w] # "idle" => job[w] \in Msg
    BY DEF Control, TypeOK, NsqTypeOK, HandlerTypeOK, Shape
  <1>1. CASE UNCHANGED <<nsq, job>> /\ \A w \in Worker : pc'[w] = "idle" <=> pc[w] = "idle"
    BY <1>1 DEF Queues, Spoiled, nsq
  <1>2. ASSUME NEW w \in Worker, NEW m \in Msg, Deliver(w, m)
        PROVE  Queues' /\ \A n \in Msg : Spoiled(n) => Spoiled(n)'
    <2>1. /\ status' = [status EXCEPT ![m] = "inflight"]
          /\ owner' = [owner EXCEPT ![m] = w]
          /\ attempts' = [attempts EXCEPT ![m] = attempts[m] + 1]
          /\ pc' = [pc EXCEPT ![w] = "fetch"]
          /\ job' = [job EXCEPT ![w] = m]
          /\ status[m] = "queued" /\ pc[w] = "idle" /\ job[w] = NoMsg
      BY <1>2 DEF Deliver, Queues
    <2>2. ASSUME NEW n \in Msg, Spoiled(n) PROVE Spoiled(n)'
      BY <1>0, <2>1, <2>2 DEF Spoiled
    <2>3. \A n \in Msg : owner[n] # w
      BY <1>0, <2>1 DEF Queues
    <2>4. ASSUME NEW v \in Worker, NEW n \in Msg, job'[v] = n
          PROVE  attempts'[n] >= 1 /\ (owner'[n] = v \/ Spoiled(n)')
      <3>1. CASE v = w
        BY <1>0, <2>1, <2>4, <3>1
      <3>2. CASE v # w
        <4>1. job[v] = n /\ attempts[n] >= 1 /\ (owner[n] = v \/ Spoiled(n))
          BY <1>0, <2>1, <2>4, <3>2 DEF Queues
        <4>2. CASE n = m
          BY <1>0, <2>1, <4>1, <4>2 DEF Spoiled
        <4>3. CASE n # m
          BY <1>0, <2>1, <2>2, <4>1, <4>3
        <4> QED BY <4>2, <4>3
      <3> QED BY <3>1, <3>2
    <2>5. \A n \in Msg : status'[n] = "inflight" <=> owner'[n] \in Worker
      BY <1>0, <2>1 DEF Queues
    <2>6. \A n \in Msg : owner'[n] \in Worker => job'[owner'[n]] = n
      BY <1>0, <2>1, <2>3 DEF Queues
    <2>7. \A v \in Worker : pc'[v] = "idle" => job'[v] = NoMsg
      BY <1>0, <2>1 DEF Queues
    <2> QED BY <2>2, <2>4, <2>5, <2>6, <2>7 DEF Queues
  <1>3. ASSUME NEW w \in Worker, NEW m \in Msg, GiveUp(w, m)
        PROVE  Queues' /\ \A n \in Msg : Spoiled(n) => Spoiled(n)'
    <2>1. /\ status' = [status EXCEPT ![m] = "dropped"] /\ status[m] = "queued"
          /\ UNCHANGED <<owner, attempts, pc, job>>
      BY <1>3 DEF GiveUp, local
    <2>2. \A n \in Msg : Spoiled(n) => Spoiled(n)'
      BY <1>0, <2>1 DEF Spoiled
    <2> QED BY <1>0, <2>1, <2>2 DEF Queues
  <1>4. ASSUME NEW m \in Msg, Timeout(m)
        PROVE  Queues' /\ \A n \in Msg : Spoiled(n) => Spoiled(n)'
    <2>1. /\ status' = [status EXCEPT ![m] = "queued"] /\ status[m] = "inflight"
          /\ owner' = [owner EXCEPT ![m] = NoWorker]
          /\ UNCHANGED <<attempts, pc, job>>
      BY <1>4 DEF Timeout, local
    <2>2. \A n \in Msg : Spoiled(n) => Spoiled(n)'
      BY <1>0, <2>1 DEF Spoiled
    <2>3. attempts[m] >= 1
      BY <1>0, <2>1 DEF Queues
    <2>4. ASSUME NEW v \in Worker, NEW n \in Msg, job[v] = n
          PROVE  attempts[n] >= 1 /\ (owner'[n] = v \/ Spoiled(n)')
      <3>1. CASE n = m
        BY <1>0, <2>1, <2>3, <3>1 DEF Spoiled
      <3>2. CASE n # m
        BY <1>0, <2>1, <2>2, <2>4, <3>2 DEF Queues
      <3> QED BY <3>1, <3>2
    <2> QED BY <1>0, <2>1, <2>2, <2>4 DEF Queues
  <1>5. ASSUME NEW w \in Worker, NEW a \in {"queued", "recorded", "ignored"},
               pc[w] # "idle", Return(w, a)
        PROVE  Queues' /\ \A n \in Msg : Spoiled(n) => Spoiled(n)'
    <2>1. /\ job[w] \in Msg /\ job' = [job EXCEPT ![w] = NoMsg]
          /\ pc' = [pc EXCEPT ![w] = "idle"] /\ UNCHANGED attempts
          /\ \/ /\ owner[job[w]] = w
                /\ status' = [status EXCEPT ![job[w]] = a]
                /\ owner' = [owner EXCEPT ![job[w]] = NoWorker]
             \/ owner[job[w]] # w /\ UNCHANGED <<status, owner>>
      BY <1>0, <1>5 DEF Return
    <2>2. ASSUME NEW n \in Msg, Spoiled(n) PROVE Spoiled(n)'
      BY <1>0, <2>1, <2>2 DEF Spoiled, Queues
    <2>3. ASSUME NEW v \in Worker, NEW n \in Msg, job'[v] = n
          PROVE  attempts'[n] >= 1 /\ (owner'[n] = v \/ Spoiled(n)')
      <3>1. v # w /\ job[v] = n
        BY <1>0, <2>1, <2>3
      <3>2. attempts[n] >= 1 /\ (owner[n] = v \/ Spoiled(n))
        BY <3>1 DEF Queues
      <3>3. owner[n] = v => owner'[n] = v
        BY <1>0, <2>1, <3>1
      <3> QED BY <2>1, <2>2, <3>2, <3>3
    <2>4. \A n \in Msg : status'[n] = "inflight" <=> owner'[n] \in Worker
      BY <1>0, <2>1 DEF Queues
    <2>5. \A n \in Msg : owner'[n] \in Worker => job'[owner'[n]] = n
      BY <1>0, <2>1 DEF Queues
    <2>6. \A v \in Worker : pc'[v] = "idle" => job'[v] = NoMsg
      BY <1>0, <2>1 DEF Queues
    <2> QED BY <2>2, <2>3, <2>4, <2>5, <2>6 DEF Queues
  <1> QED BY <1>1, <1>2, <1>3, <1>4, <1>5, QueueMoves

\* A handler that returns an error spoils its task.
LEMMA FailSpoils ==
  ASSUME Control, Queues, [Next]_vars, NEW w \in Worker, pc[w] # "idle", Fail(w)
  PROVE  job[w] \in Msg /\ \A m \in Msg : job[w] = m => Spoiled(m)'
  <1>1. /\ job[w] \in Msg /\ attempts \in [Msg -> Nat]
        /\ status \in [Msg -> {"queued", "inflight"} \cup Final]
    BY TasksAssumption DEF Control, TypeOK, NsqTypeOK, Shape
  <1>2. ASSUME NEW m \in Msg, job[w] = m PROVE Spoiled(m)'
    <2>1. attempts[m] >= 1
      BY <1>2 DEF Queues
    <2>2. CASE owner[m] = w
      <3>1. status' = [status EXCEPT ![m] = "queued"] /\ attempts' = attempts
        BY <1>2, <2>2 DEF Fail, Return
      <3> QED BY <1>1, <2>1, <3>1 DEF Spoiled
    <2>3. CASE owner[m] # w
      <3>1. Spoiled(m)
        BY <1>2, <2>3 DEF Queues
      <3> QED BY <3>1, QueuesStep
    <2> QED BY <2>2, <2>3
  <1> QED BY <1>1, <1>2

\* Catalog's steps add rows and never one too many, so what is done stays done.
LEMMA TablesGrow ==
  ASSUME Careful, IInv, [Next]_vars, NEW p \in Plid
  PROVE  /\ p \in product => p \in product'
         /\ images[p] = GallerySize => images'[p] = GallerySize
         /\ \A e \in EntitiesOf[p] : link[<<p, e>>] = 1 => link'[<<p, e>>] = 1
         /\ Done(p) => Done(p)'
  <1>1. [Tables!Next]_(Tables!cvars)
    BY RefinementStep
  <1>2. /\ images \in [Plid -> Nat] /\ link \in [Row -> Nat] /\ GallerySize \in Nat
        /\ EntitiesOf[p] \subseteq Entity /\ \A e \in EntitiesOf[p] : <<p, e>> \in Row
    BY TasksAssumption DEF IInv, Control, TypeOK, StoreTypeOK, Row
  <1>3. p \in product => p \in product'
    BY <1>1 DEF Tables!Next, Tables!cvars, Tables!AddProduct, Tables!AddImage, Tables!AddPrice,
                Tables!AddEntity, Tables!AddLink, Tables!Digest
  <1>4. images[p] = GallerySize => images'[p] = GallerySize
    <2>1. \/ images' = images
          \/ \E q \in Plid : images[q] < GallerySize /\ images' = [images EXCEPT ![q] = @ + 1]
      BY <1>1 DEF Tables!Next, Tables!cvars, Tables!AddProduct, Tables!AddImage,
                  Tables!AddPrice, Tables!AddEntity, Tables!AddLink, Tables!Digest
    <2> QED BY <1>2, <2>1
  <1>5. \A e \in EntitiesOf[p] : link[<<p, e>>] = 1 => link'[<<p, e>>] = 1
    <2>1. \/ link' = link
          \/ \E q \in Plid, f \in Entity : link[<<q, f>>] = 0 /\ link' = [link EXCEPT ![<<q, f>>] = 1]
      BY <1>1 DEF Tables!Next, Tables!cvars, Tables!AddProduct, Tables!AddImage,
                  Tables!AddPrice, Tables!AddEntity, Tables!AddLink, Tables!Digest
    <2> QED BY <1>2, <2>1
  <1> QED BY <1>3, <1>4, <1>5 DEF Done

\* A worker whose variables do not change has as much to write as before, or less.
LEMMA PendingFrame ==
  ASSUME Careful, IInv, [Next]_vars, NEW p \in Plid, NEW w \in Worker, Pending(w, p),
         pc'[w] = pc[w], job'[w] = job[w], todo'[w] = todo[w], cur'[w] = cur[w]
  PROVE  Pending(w, p)'
  BY TablesGrow DEF Pending, Creating, Plids

\* Only worker w moves: its product, and that of no other, may come to be, and
\* what w had to write is written, or still to be written, or its task is spoiled.
LEMMA ProgressMoves ==
  ASSUME Careful, IInv, Queues, Progress, [Next]_vars, NEW w \in Worker,
         \A v \in Worker : v # w =>
            /\ pc'[v] = pc[v] /\ job'[v] = job[v]
            /\ todo'[v] = todo[v] /\ cur'[v] = cur[v],
         \A p \in product' : p \in product \/ Pending(w, p)',
         \A p \in product : Pending(w, p) => Pending(w, p)' \/ Done(p)' \/ ~Unspoiled(p)'
  PROVE  Progress'
  <1> SUFFICES ASSUME NEW p \in product', Unspoiled(p)'
               PROVE  Done(p)' \/ \E v \in Worker : Pending(v, p)'
    BY DEF Progress
  <1>1. p \in Plid /\ (p \in product \/ Pending(w, p)')
    BY Inductive DEF IInv, Control, TypeOK, StoreTypeOK
  <1>2. CASE p \in product
    <2>1. Unspoiled(p)
      BY QueuesStep DEF Unspoiled, IInv
    <2>2. CASE Done(p)
      BY <1>1, <2>2, TablesGrow
    <2>3. ASSUME NEW v \in Worker, Pending(v, p)
          PROVE  Done(p)' \/ \E x \in Worker : Pending(x, p)'
      <3>1. CASE v = w
        BY <1>2, <2>3, <3>1
      <3>2. CASE v # w
        BY <1>1, <2>3, <3>2, PendingFrame
      <3> QED BY <3>1, <3>2
    <2> QED BY <1>2, <2>1, <2>2, <2>3 DEF Progress
  <1> QED BY <1>1, <1>2

\* The steps of the handler that move it without a table or an answer.
LEMMA ProgressStays ==
  ASSUME Careful, IInv, Queues, Progress, [Next]_vars, UNCHANGED <<product, job, todo, cur, pc>>
  PROVE  Progress'
  <1> SUFFICES ASSUME NEW p \in product', Unspoiled(p)'
               PROVE  Done(p)' \/ \E v \in Worker : Pending(v, p)'
    BY DEF Progress
  <1>1. p \in Plid /\ p \in product
    BY DEF IInv, Control, TypeOK, StoreTypeOK
  <1>2. Unspoiled(p)
    BY QueuesStep DEF Unspoiled, IInv
  <1>3. CASE Done(p)
    BY <1>1, <1>3, TablesGrow
  <1>4. ASSUME NEW v \in Worker, Pending(v, p) PROVE Pending(v, p)'
    BY <1>1, <1>4, PendingFrame
  <1> QED BY <1>1, <1>2, <1>3, <1>4 DEF Progress

\* A handler that fails leaves its task spoiled.
LEMMA ProgressFails ==
  ASSUME Careful, IInv, Queues, Progress, [Next]_vars, NEW w \in Worker, pc[w] # "idle", Fail(w),
         product' = product
  PROVE  Progress'
  <1>0. /\ pc \in [Worker -> Section \cup Outside] /\ job \in [Worker -> Msg \cup {NoMsg}]
        /\ todo \in [Worker -> SUBSET Entity] /\ cur \in [Worker -> Entity \cup {NoEntity}]
    BY DEF IInv, Control, TypeOK, HandlerTypeOK
  <1>1. \A v \in Worker : v # w =>
            /\ pc'[v] = pc[v] /\ job'[v] = job[v]
            /\ todo'[v] = todo[v] /\ cur'[v] = cur[v]
    BY <1>0 DEF Fail, Return
  <1>2. job[w] \in Msg /\ \A m \in Msg : job[w] = m => Spoiled(m)'
    BY FailSpoils DEF IInv
  <1>3. \A p \in product : Pending(w, p) => ~Unspoiled(p)'
    BY <1>2 DEF Pending, Plids, Unspoiled
  <1> QED BY <1>1, <1>3, ProgressMoves

\* Each step of a handler brings its product's rows nearer, or spoils its task.
LEMMA ProgressStep ==
  Careful /\ IInv /\ Queues /\ Progress /\ [Next]_vars => Progress'
  <1> SUFFICES ASSUME Careful, IInv, Queues, Progress, [Next]_vars PROVE Progress'
    OBVIOUS
  <1>0. /\ pc \in [Worker -> Section \cup Outside] /\ job \in [Worker -> Msg \cup {NoMsg}]
        /\ todo \in [Worker -> SUBSET Entity] /\ cur \in [Worker -> Entity \cup {NoEntity}]
        /\ product \subseteq Plid /\ PlidOf \in [Msg -> Plid]
        /\ images \in [Plid -> Nat] /\ link \in [Row -> Nat]
        /\ \A w \in Worker : pc[w] # "idle" => job[w] \in Msg
    BY TasksAssumption DEF IInv, Control, TypeOK, StoreTypeOK, HandlerTypeOK, Shape
  <1> DEFINE Others(w) == \A v \in Worker : v # w =>
                 /\ pc'[v] = pc[v] /\ job'[v] = job[v]
                 /\ todo'[v] = todo[v] /\ cur'[v] = cur[v]
             Nearer(w) == \A p \in product : Pending(w, p) =>
                 Pending(w, p)' \/ Done(p)' \/ ~Unspoiled(p)'
  <1>1. ASSUME NEW w \in Worker, Others(w), Nearer(w), product' = product PROVE Progress'
    BY <1>1, ProgressMoves
  <1>2. ASSUME NEW w \in Worker, pc[w] \in (Early \ {"unlockFail"}) \cup {"unlockSeen"},
               Others(w), product' = product
        PROVE  Progress'
    <2>1. Nearer(w)
      BY <1>2 DEF Pending, Creating, Early, HasRow, AtEntity, InEntity
    <2> QED BY <1>1, <1>2, <2>1
  <1>3. ASSUME NEW w \in Worker, Fetch(w) \/ FetchFails(w) \/ LockProduct(w) \/ Exists(w)
        PROVE  Progress'
    <2>1. pc[w] \in Early /\ pc[w] # "unlockFail" /\ product' = product
      BY <1>3 DEF Fetch, FetchFails, LockProduct, Exists, Obtain, NotObtained, Early, db
    <2>2. Others(w)
      BY <1>0, <1>3 DEF Fetch, FetchFails, LockProduct, Exists, Obtain, NotObtained, Fail, Return, local
    <2> QED BY <1>2, <2>1, <2>2
  <1>4. ASSUME NEW w \in Worker, FindProduct(w) PROVE Progress'
    <2>1. pc[w] = "find" /\ product' = product
      BY <1>4 DEF FindProduct, Rollback, db
    <2>2. Others(w)
      BY <1>0, <1>4 DEF FindProduct, HaveProduct, Rollback, local
    <2> QED BY <1>2, <2>1, <2>2 DEF Early
  <1>5. ASSUME NEW w \in Worker, CreateProduct(w) PROVE Progress'
    <2>1. pc[w] = "create" /\ Others(w) /\ job' = job /\ Plids(w) \notin product
      BY <1>0, <1>5 DEF CreateProduct, HaveProduct, Rollback, local, IInv, Knows
    <2>2. \/ product' = product
          \/ /\ product' = product \cup {Plids(w)}
             /\ \/ pc'[w] = "unlockFail"
                \/ pc'[w] = "unlockNew" /\ todo'[w] = EntitiesOf[Plids(w)]
      BY <1>0, <1>5 DEF CreateProduct, HaveProduct, Rollback, db
    <2>3. Nearer(w)
      BY <2>1 DEF Pending, Creating, HasRow, AtEntity, InEntity
    <2>4. \A p \in product' : p \in product \/ Pending(w, p)'
      BY <1>0, <2>1, <2>2 DEF Pending, Creating, Plids, HasRow
    <2> QED BY <2>1, <2>3, <2>4, ProgressMoves
  <1>6. ASSUME NEW w \in Worker, UnlockProduct(w) PROVE Progress'
    <2>1. CASE pc[w] = "unlockFail"
      <3>1. Fail(w) /\ product' = product
        BY <1>6, <2>1 DEF UnlockProduct, db
      <3> QED BY <2>1, <3>1, ProgressFails
    <2>2. CASE pc[w] \in {"unlockSeen", "unlockNew"}
      <3>1. /\ Others(w) /\ UNCHANGED <<product, images, link, job, todo, cur>>
            /\ pc'[w] = IF pc[w] = "unlockSeen" THEN "price" ELSE "images"
        BY <1>0, <1>6, <2>2 DEF UnlockProduct, local, db
      <3>2. CASE pc[w] = "unlockSeen"
        BY <1>2, <3>1, <3>2
      <3>3. CASE pc[w] = "unlockNew"
        <4>1. Nearer(w)
          BY <3>1, <3>3 DEF Pending, Creating, Plids, HasRow
        <4> QED BY <1>1, <3>1, <4>1
      <3> QED BY <2>2, <3>2, <3>3
    <2> QED BY <1>6, <2>1, <2>2 DEF UnlockProduct
  <1>7. ASSUME NEW w \in Worker, PersistImage(w) PROVE Progress'
    <2>1. UNCHANGED product /\ pc[w] = "images" /\ (Fail(w) \/ UNCHANGED <<pc, job, todo, cur>>)
      BY <1>7 DEF PersistImage
    <2>2. CASE Fail(w)
      BY <2>1, <2>2, ProgressFails
    <2>3. CASE UNCHANGED <<pc, job, todo, cur>>
      BY <2>1, <2>3, ProgressStays
    <2> QED BY <2>1, <2>2, <2>3
  <1>8. ASSUME NEW w \in Worker, ImagesDone(w) PROVE Progress'
    <2>1. /\ pc[w] = "images" /\ img[w] = GallerySize /\ pc'[w] = "price"
          /\ Others(w) /\ UNCHANGED <<product, images, link, job, todo, cur>>
      BY <1>0, <1>8 DEF ImagesDone, local, db
    <2>2. pid[w] = Plids(w) /\ images[Plids(w)] = GallerySize
      BY <2>1 DEF IInv, Knows, Ahead, HasRow
    <2>3. Nearer(w)
      BY <2>1, <2>2 DEF Pending, Creating, Plids, HasRow
    <2> QED BY <1>1, <2>1, <2>3
  <1>9. ASSUME NEW w \in Worker, PersistPrice(w) PROVE Progress'
    <2>1. CASE Fail(w)
      BY <1>9, <2>1, ProgressFails DEF PersistPrice
    <2>2. CASE pc' = [pc EXCEPT ![w] = "entities"] /\ UNCHANGED local
      <3>1. /\ pc[w] = "price" /\ pc'[w] = "entities"
            /\ Others(w) /\ UNCHANGED <<product, images, link, job, todo, cur>>
        BY <1>0, <1>9, <2>2 DEF PersistPrice, local
      <3>2. Nearer(w)
        BY <3>1 DEF Pending, Creating, Plids, HasRow
      <3> QED BY <1>1, <3>1, <3>2
    <2> QED BY <1>9, <2>1, <2>2 DEF PersistPrice
  <1>10. ASSUME NEW w \in Worker, Finish(w) PROVE Progress'
    <2>1. /\ pc[w] = "entities" /\ todo[w] = {} /\ Others(w)
          /\ UNCHANGED <<product, images, link>>
      BY <1>0, <1>10 DEF Finish, Return, db
    <2>2. Nearer(w)
      BY <2>1 DEF Pending, Creating, Done
    <2> QED BY <1>1, <2>1, <2>2
  <1>11. ASSUME NEW w \in Worker, NEW e \in Entity, NextEntity(w, e) PROVE Progress'
    <2>1. /\ pc[w] = "entities" /\ pc'[w] = "entLock" /\ cur'[w] = e /\ todo'[w] = todo[w] \ {e}
          /\ Others(w) /\ UNCHANGED <<product, images, link, job>>
      BY <1>0, <1>11 DEF NextEntity, db
    <2>2. Nearer(w)
      BY <2>1 DEF Pending, Creating, Plids, HasRow, AtEntity
    <2> QED BY <1>1, <2>1, <2>2
  <1>12. ASSUME NEW w \in Worker, LockEntity(w) PROVE Progress'
    <2>1. CASE NotObtained(w)
      BY <1>12, <2>1, ProgressFails DEF LockEntity, NotObtained, db
    <2>2. CASE Obtain(w, "entFind")
      <3>1. /\ pc[w] = "entLock" /\ pc'[w] = "entFind"
            /\ Others(w) /\ UNCHANGED <<product, images, link, job, todo, cur>>
        BY <1>0, <1>12, <2>2 DEF LockEntity, Obtain, local, db
      <3>2. Nearer(w)
        BY <3>1 DEF Pending, Creating, Plids, HasRow, AtEntity, InEntity
      <3> QED BY <1>1, <3>1, <3>2
    <2> QED BY <1>12, <2>1, <2>2 DEF LockEntity
  <1>13. ASSUME NEW w \in Worker, FindEntity(w) \/ CreateEntity(w) PROVE Progress'
    <2>1. /\ pc[w] \in {"entFind", "entCreate"} /\ pc'[w] \in {"entCreate", "entLink", "entFail"}
          /\ Others(w) /\ UNCHANGED <<product, images, link, job, todo, cur>>
      BY <1>0, <1>13 DEF FindEntity, CreateEntity, Rollback, local, db
    <2>2. Nearer(w)
      BY <2>1 DEF Pending, Creating, Plids, HasRow, AtEntity, InEntity
    <2> QED BY <1>1, <2>1, <2>2
  <1>14. ASSUME NEW w \in Worker, LinkEntity(w) PROVE Progress'
    <2>1. /\ pc[w] = "entLink" /\ Others(w) /\ UNCHANGED <<product, images, job, todo, cur>>
          /\ \/ pc'[w] = "entFail"
             \/ pc'[w] = "entUnlock" /\ link' = [link EXCEPT ![<<pid[w], eid[w]>>] = @ + 1]
      BY <1>0, <1>14 DEF LinkEntity, Rollback, local, db
    <2>2. /\ pid[w] = Plids(w) /\ eid[w] = cur[w] /\ link[<<pid[w], cur[w]>>] = 0
          /\ <<pid[w], eid[w]>> \in Row
      BY <2>1 DEF IInv, Control, TypeOK, HandlerTypeOK, Knows, Ahead, HasRow, AtEntity, InEntity, Row
    <2>3. pc'[w] = "entUnlock" => link'[<<Plids(w), cur[w]>>] = 1
      BY <1>0, <2>1, <2>2
    <2>4. ASSUME NEW p \in product, Pending(w, p) PROVE Pending(w, p)'
      <3>1. p \in Plid /\ Creating(w, p) /\ Plids(w) = p /\ Plids(w)' = p
        BY <1>0, <2>1, <2>4 DEF Pending, Plids
      <3>2. images'[p] = GallerySize
        BY <2>1, <3>1 DEF Creating
      <3>3. \A e \in EntitiesOf[p] : link[<<p, e>>] = 1 => link'[<<p, e>>] = 1
        BY <3>1, TablesGrow
      <3>4. \A e \in EntitiesOf[p] :
              e \in todo'[w] \/ link'[<<p, e>>] = 1 \/ (cur'[w] = e /\ pc'[w] = "entFail")
        BY <2>1, <2>3, <3>1, <3>3 DEF Creating
      <3> QED BY <2>1, <2>4, <3>1, <3>2, <3>4 DEF Pending, Creating, HasRow, AtEntity, InEntity
    <2> QED BY <1>1, <2>1, <2>4
  <1>15. ASSUME NEW w \in Worker, UnlockEntity(w) PROVE Progress'
    <2>1. CASE pc[w] = "entFail"
      BY <1>15, <2>1, ProgressFails DEF UnlockEntity, db
    <2>2. CASE pc[w] = "entUnlock"
      <3>1. /\ pc'[w] = "entities" /\ Others(w)
            /\ UNCHANGED <<product, images, link, job, todo>>
        BY <1>0, <1>15, <2>2 DEF UnlockEntity, db
      <3>2. Nearer(w)
        BY <2>2, <3>1 DEF Pending, Creating, Plids, HasRow
      <3> QED BY <1>1, <3>1, <3>2
    <2> QED BY <1>15, <2>1, <2>2 DEF UnlockEntity
  <1>16. ASSUME NEW w \in Worker, NEW m \in Msg, Deliver(w, m) PROVE Progress'
    <2>1. pc[w] \in Early /\ pc[w] # "unlockFail" /\ product' = product /\ Others(w)
      BY <1>0, <1>16 DEF Deliver, Early, db
    <2> QED BY <1>2, <2>1
  <1>17. ASSUME NEW w \in Worker, Crash(w) PROVE Progress'
    <2>1. CASE pc[w] # "idle"
      BY <1>17, <2>1, ProgressFails DEF Crash, db
    <2>2. CASE pc[w] = "idle"
      BY <1>17, <2>2, ProgressStays DEF Crash, db, local
    <2> QED BY <2>1, <2>2
  <1>18. CASE \/ \E w \in Worker, m \in Msg : GiveUp(w, m)
              \/ \E w \in Worker, id \in Key \cup {Zero} : SendDigest(w, id)
              \/ \E m \in Msg : Timeout(m)
              \/ \E k \in Key : LeaseLapse(k)
              \/ UNCHANGED vars
    BY <1>18, ProgressStays DEF GiveUp, SendDigest, Timeout, LeaseLapse, vars, db, local
  <1> HIDE DEF Others, Nearer
  <1> QED
    BY <1>3, <1>4, <1>5, <1>6, <1>7, <1>8, <1>9, <1>10, <1>11, <1>12, <1>13, <1>14, <1>15,
       <1>16, <1>17, <1>18 DEF Next, Step, Quiet

\* A product whose tasks were all finished at the first delivery has its gallery
\* and its links, whichever handler created it and whoever came between; a
\* Commit that fails, a crash or a timeout shows as a second delivery.
THEOREM ProductsAreComplete == ASSUME Careful PROVE Spec => []Complete
<1> DEFINE Inv == IInv /\ Queues /\ Progress
<1>1. Init => Inv
  <2>1. Init => Queues /\ Progress
    BY NamesAssumption DEF Init, Queues, Progress
  <2> QED BY <2>1, InitIInv
<1>2. Inv /\ [Next]_vars => Inv'
  BY Inductive, QueuesStep, ProgressStep DEF IInv
<1>3. Inv => Complete
  <2> SUFFICES ASSUME Inv, NEW m \in Msg, status[m] = "recorded",
                      \A n \in Msg : PlidOf[n] = PlidOf[m] =>
                         status[n] \in {"recorded", "ignored"} /\ attempts[n] = 1
               PROVE  /\ images[PlidOf[m]] = GallerySize
                      /\ \A e \in EntitiesOf[PlidOf[m]] : link[<<PlidOf[m], RowName[e]>>] = 1
    BY DEF Complete
  <2>1. PlidOf[m] \in product /\ Unspoiled(PlidOf[m])
    BY DEF IInv, Stored, Unspoiled, Spoiled
  <2>2. ASSUME NEW w \in Worker, Pending(w, PlidOf[m]) PROVE FALSE
    <3>1. PICK n \in Msg : n = job[w]
      BY <2>2 DEF Pending
    <3>2. PlidOf[n] = PlidOf[m]
      BY <2>2, <3>1 DEF Pending, Plids
    <3>3. status[n] \in {"recorded", "ignored"} /\ attempts[n] = 1 /\ ~Spoiled(n)
      BY <2>1, <3>2 DEF Unspoiled
    <3>4. owner[n] = w
      BY <3>1, <3>3 DEF Queues
    <3> QED BY <3>3, <3>4 DEF Queues
  <2>3. Done(PlidOf[m])
    BY <2>1, <2>2 DEF Progress
  <2>4. \A e \in EntitiesOf[PlidOf[m]] : RowName[e] = e
    BY TasksAssumption DEF Careful
  <2> QED BY <2>3, <2>4 DEF Done
<1> QED BY <1>1, <1>2, <1>3, PTL DEF Spec

-----------------------------------------------------------------------------
(***************************************************************************)
(* A handler comes to its end: what liveness (TasksSettle) rests on.       *)
(***************************************************************************)

\* What the API answers is a list.
Finite == \A p \in Plid : IsFiniteSet(EntitiesOf[p])

\* A handler has still to link names of its product only.
Names == \A w \in Worker : pc[w] # "idle" => todo[w] \subseteq EntitiesOf[Plids(w)]

\* The handler is between Obtain and Release of k.
AtKey(w, k) == pc[w] \in Section /\ KeyOf(w) = k

\* A lease is of a handler that is between Obtain and Release of its key, or
\* of nobody: who waits for a lease has none.
HaveLease ==
    \A k \in Key, w \in Worker : lock[k] = w => AtKey(w, k)

\* How many steps are left from the first name on, of those still to link and
\* of all: six for a name, and the return.
Linking(w)    == 1 + 6 * Cardinality(todo[w])
LinkingAll(w) == 1 + 6 * Cardinality(EntitiesOf[Plids(w)])

\* How many steps a handler may still take.
StepsLeft(w) ==
    CASE pc[w] = "idle"       -> 0
      [] pc[w] \in {"unlockFail", "entFail"} -> 1
      [] pc[w] = "entities"   -> Linking(w)
      [] pc[w] = "entUnlock"  -> Linking(w) + 1
      [] pc[w] = "entLink"    -> Linking(w) + 2
      [] pc[w] = "entCreate"  -> Linking(w) + 3
      [] pc[w] = "entFind"    -> Linking(w) + 4
      [] pc[w] = "entLock"    -> Linking(w) + 5
      [] pc[w] = "price"      -> Linking(w) + 1
      [] pc[w] = "unlockSeen" -> Linking(w) + 2
      [] pc[w] = "images"     -> Linking(w) + 2 + GallerySize - img[w]
      [] pc[w] = "unlockNew"  -> Linking(w) + 3 + GallerySize - img[w]
      [] pc[w] = "create"     -> LinkingAll(w) + 4 + GallerySize
      [] pc[w] = "find"       -> LinkingAll(w) + 5 + GallerySize
      [] pc[w] = "exists"     -> LinkingAll(w) + 6 + GallerySize
      [] pc[w] = "lock"       -> LinkingAll(w) + 7 + GallerySize
      [] pc[w] = "fetch"      -> LinkingAll(w) + 8 + GallerySize

\* Its own steps use them up, and nobody else's add to them.
Moves(w) ==
    /\ (\E m \in Msg : Deliver(w, m)) \/ StepsLeft(w)' <= StepsLeft(w)
    /\ Step(w) => StepsLeft(w)' < StepsLeft(w)

\* A delivery of a product with n names takes at most 9 + 6n steps and one for
\* each image.
Bounded ==
    \A w \in Worker : pc[w] # "idle" =>
        StepsLeft(w) \in 0 .. LinkingAll(w) + 8 + GallerySize

\* A lease somebody waits for is free, or will run out, or is of a handler that
\* waits for none.
LeasesComeBack ==
    \A w \in Worker : pc[w] \in {"lock", "entLock"} =>
        \/ lock[KeyOf(w)] \in {Free, Orphan}
        \/ \E v \in Worker \ {w} :
              lock[KeyOf(w)] = v /\ pc[v] \in Section /\ KeyOf(v) = KeyOf(w)

LEMMA NamesStep == Control /\ Names /\ [Next]_vars => Names'
<1> SUFFICES ASSUME Control, Names, [Next]_vars, NEW w \in Worker, pc'[w] # "idle"
             PROVE  todo'[w] \subseteq EntitiesOf[PlidOf[job'[w]]]
  BY DEF Names, Plids
<1>0. /\ pc \in [Worker -> Section \cup Outside] /\ job \in [Worker -> Msg \cup {NoMsg}]
      /\ todo \in [Worker -> SUBSET Entity]
      /\ pc[w] # "idle" => todo[w] \subseteq EntitiesOf[PlidOf[job[w]]]
      /\ pc[w] = "idle" => todo[w] = {}
  BY DEF Control, TypeOK, HandlerTypeOK, Names, Plids, Shape, Early
<1> USE <1>0 DEF Return, Fail, NotObtained, Obtain, Rollback, HaveProduct, Plids, local
<1>1. ASSUME UNCHANGED <<pc, job, todo>> PROVE todo'[w] \subseteq EntitiesOf[PlidOf[job'[w]]]
  BY <1>1
<1>2. ASSUME NEW v \in Worker, Fetch(v) \/ FetchFails(v) \/ LockProduct(v) \/ Exists(v)
      PROVE  todo'[w] \subseteq EntitiesOf[PlidOf[job'[w]]]
  BY <1>2 DEF Fetch, FetchFails, LockProduct, Exists
<1>3. ASSUME NEW v \in Worker, FindProduct(v) \/ CreateProduct(v) \/ UnlockProduct(v)
      PROVE  todo'[w] \subseteq EntitiesOf[PlidOf[job'[w]]]
  BY <1>3 DEF FindProduct, CreateProduct, UnlockProduct
<1>4. ASSUME NEW v \in Worker, PersistImage(v) \/ ImagesDone(v) \/ PersistPrice(v) \/ Finish(v)
      PROVE  todo'[w] \subseteq EntitiesOf[PlidOf[job'[w]]]
  BY <1>4 DEF PersistImage, ImagesDone, PersistPrice, Finish
<1>5. ASSUME NEW v \in Worker, NEW e \in Entity, NextEntity(v, e)
      PROVE  todo'[w] \subseteq EntitiesOf[PlidOf[job'[w]]]
  BY <1>5 DEF NextEntity
<1>6. ASSUME NEW v \in Worker, LockEntity(v) \/ FindEntity(v) \/ CreateEntity(v)
      PROVE  todo'[w] \subseteq EntitiesOf[PlidOf[job'[w]]]
  BY <1>6 DEF LockEntity, FindEntity, CreateEntity
<1>7. ASSUME NEW v \in Worker, LinkEntity(v) \/ UnlockEntity(v)
      PROVE  todo'[w] \subseteq EntitiesOf[PlidOf[job'[w]]]
  BY <1>7 DEF LinkEntity, UnlockEntity
<1>8. ASSUME NEW v \in Worker, NEW m \in Msg, Deliver(v, m)
      PROVE  todo'[w] \subseteq EntitiesOf[PlidOf[job'[w]]]
  BY <1>8 DEF Deliver
<1>9. ASSUME NEW v \in Worker, Crash(v)
      PROVE  todo'[w] \subseteq EntitiesOf[PlidOf[job'[w]]]
  BY <1>9 DEF Crash
<1>10. CASE \/ \E v \in Worker : \/ \E m \in Msg : GiveUp(v, m)
                                 \/ \E id \in Key \cup {Zero} : SendDigest(v, id)
            \/ \E m \in Msg : Timeout(m)
            \/ \E k \in Key : LeaseLapse(k)
            \/ Quiet \/ UNCHANGED vars
  BY <1>1, <1>10 DEF GiveUp, SendDigest, Timeout, LeaseLapse, Quiet, vars
<1> QED BY <1>2, <1>3, <1>4, <1>5, <1>6, <1>7, <1>8, <1>9, <1>10 DEF Next, Step

LEMMA HaveLeaseStep == Control /\ HaveLease /\ [Next]_vars => HaveLease'
<1> SUFFICES ASSUME Control, HaveLease, [Next]_vars, NEW k \in Key, NEW w \in Worker, lock'[k] = w
             PROVE  AtKey(w, k)'
  BY DEF HaveLease
<1>0. /\ pc \in [Worker -> Section \cup Outside] /\ job \in [Worker -> Msg \cup {NoMsg}]
      /\ cur \in [Worker -> Entity \cup {NoEntity}]
      /\ lock \in [Key -> Worker \cup {Free, Orphan}]
      /\ \A v \in Worker : pc[v] # "idle" => KeyOf(v) \in Key
      /\ \A v \in Worker : cur[v] # NoEntity <=> pc[v] \in AtEntity
      /\ lock[k] = w => AtKey(w, k)
      /\ Free \notin Worker /\ Orphan \notin Worker
  <2>1. /\ pc \in [Worker -> Section \cup Outside] /\ job \in [Worker -> Msg \cup {NoMsg}]
        /\ cur \in [Worker -> Entity \cup {NoEntity}]
        /\ lock \in [Key -> Worker \cup {Free, Orphan}]
    BY DEF Control, TypeOK, HandlerTypeOK, StoreTypeOK
  <2>2. \A v \in Worker : /\ pc[v] # "idle" => job[v] \in Msg
                          /\ cur[v] # NoEntity <=> pc[v] \in AtEntity
    BY DEF Control, Shape
  <2>3. \A v \in Worker : pc[v] # "idle" => KeyOf(v) \in Key
    BY <2>1, <2>2, TasksAssumption DEF KeyOf, Plids
  <2> QED BY <2>1, <2>2, <2>3, NamesAssumption DEF HaveLease
<1> USE <1>0 DEF Return, Fail, AtKey, KeyOf, Plids, local, nsq, Section, InProduct, InEntity, AtEntity
\* Who keeps its place, its message and its name keeps its leases.
<1>1. ASSUME lock'[k] = lock[k], pc'[w] = pc[w], UNCHANGED <<job, cur>> PROVE AtKey(w, k)'
  BY <1>1
<1>2. ASSUME NEW v \in Worker, UNCHANGED <<lock, job, cur>>,
             \A u \in Worker \ {v} : pc'[u] = pc[u],
             pc[v] \in Section => pc'[v] \in Section
      PROVE  AtKey(w, k)'
  BY <1>2
<1>3. ASSUME NEW v \in Worker, pc[v] \notin Section, UNCHANGED <<lock>>,
             \A u \in Worker \ {v} : pc'[u] = pc[u] /\ job'[u] = job[u] /\ cur'[u] = cur[u]
      PROVE  AtKey(w, k)'
  BY <1>3
<1>4. ASSUME NEW v \in Worker, pc[v] \in Section, Release(v),
             \A u \in Worker \ {v} : pc'[u] = pc[u] /\ job'[u] = job[u] /\ cur'[u] = cur[u]
      PROVE  AtKey(w, k)'
  BY <1>4 DEF Release
<1>5. ASSUME NEW v \in Worker, NEW next \in Section, Obtain(v, next) PROVE AtKey(w, k)'
  BY <1>5 DEF Obtain
<1>6. ASSUME NEW v \in Worker, pc[v] \notin Section, NotObtained(v) PROVE AtKey(w, k)'
  BY <1>6 DEF NotObtained
<1> HIDE DEF AtKey
<1>7. ASSUME NEW v \in Worker, Step(v) PROVE AtKey(w, k)'
  <2> USE DEF HaveProduct, Rollback
  <2>1. CASE Fetch(v) \/ FetchFails(v)
    BY <1>3, <2>1 DEF Fetch, FetchFails
  <2>2. CASE LockProduct(v) \/ LockEntity(v)
    BY <1>5, <1>6, <2>2 DEF LockProduct, LockEntity
  <2>3. CASE Exists(v) \/ FindProduct(v) \/ CreateProduct(v)
    BY <1>2, <2>3 DEF Exists, FindProduct, CreateProduct
  <2>4. CASE UnlockProduct(v)
    BY <1>4, <2>4 DEF UnlockProduct
  <2>5. CASE PersistImage(v) \/ ImagesDone(v) \/ PersistPrice(v) \/ Finish(v)
    BY <1>3, <2>5 DEF PersistImage, ImagesDone, PersistPrice, Finish
  <2>6. ASSUME NEW e \in Entity, NextEntity(v, e) PROVE AtKey(w, k)'
    BY <1>3, <2>6 DEF NextEntity
  <2>7. CASE FindEntity(v) \/ CreateEntity(v) \/ LinkEntity(v)
    BY <1>2, <2>7 DEF FindEntity, CreateEntity, LinkEntity
  <2>8. CASE UnlockEntity(v)
    BY <1>4, <2>8 DEF UnlockEntity
  <2> QED BY <1>7, <2>1, <2>2, <2>3, <2>4, <2>5, <2>6, <2>7, <2>8 DEF Step
<1>8. ASSUME NEW v \in Worker, NEW m \in Msg, Deliver(v, m) PROVE AtKey(w, k)'
  BY <1>3, <1>8 DEF Deliver
<1>9. ASSUME NEW v \in Worker, Crash(v) PROVE AtKey(w, k)'
  <2>1. lock'[k] = lock[k] /\ lock[k] # v
    BY <1>9 DEF Crash
  <2>2. \A u \in Worker \ {v} : pc'[u] = pc[u] /\ job'[u] = job[u] /\ cur'[u] = cur[u]
    BY <1>9 DEF Crash
  <2> QED BY <2>1, <2>2 DEF AtKey
<1>10. ASSUME NEW j \in Key, LeaseLapse(j) PROVE AtKey(w, k)'
  <2>1. lock'[k] = lock[k] /\ UNCHANGED <<pc, job, cur>>
    BY <1>10 DEF LeaseLapse
  <2> QED BY <1>1, <2>1
<1>11. ASSUME NEW v \in Worker,
              (\E m \in Msg : GiveUp(v, m)) \/ (\E id \in Key \cup {Zero} : SendDigest(v, id))
       PROVE  AtKey(w, k)'
  <2>1. lock'[k] = lock[k] /\ UNCHANGED <<pc, job, cur>>
    BY <1>11 DEF GiveUp, SendDigest
  <2> QED BY <1>1, <2>1
<1>12. CASE (\E m \in Msg : Timeout(m)) \/ Quiet \/ UNCHANGED vars
  <2>1. lock'[k] = lock[k] /\ UNCHANGED <<pc, job, cur>>
    BY <1>12 DEF Timeout, Quiet, vars
  <2> QED BY <1>1, <2>1
<1> QED BY <1>7, <1>8, <1>9, <1>10, <1>11, <1>12 DEF Next

\* The numbers that StepsLeft counts with.
LEMMA Counted ==
  ASSUME Finite, Control, Names, NEW w \in Worker
  PROVE  /\ GallerySize \in Nat /\ img[w] \in 0 .. GallerySize
         /\ IsFiniteSet(todo[w]) /\ Cardinality(todo[w]) \in Nat
         /\ pc[w] # "idle" => /\ Cardinality(EntitiesOf[Plids(w)]) \in Nat
                              /\ Cardinality(todo[w]) <= Cardinality(EntitiesOf[Plids(w)])
         /\ StepsLeft(w) \in Nat
<1>1. GallerySize \in Nat /\ img[w] \in 0 .. GallerySize
  BY TasksAssumption DEF Control, TypeOK, HandlerTypeOK
<1>2. CASE pc[w] = "idle"
  <2>1. todo[w] = {} /\ IsFiniteSet({}) /\ Cardinality({}) = 0
    BY <1>2, FS_EmptySet DEF Control, Shape, Early
  <2>2. StepsLeft(w) = 0
    BY <1>2 DEF StepsLeft
  <2> QED BY <1>1, <1>2, <2>1, <2>2
<1>3. CASE pc[w] # "idle"
  <2>1. Plids(w) \in Plid
    BY <1>3, TasksAssumption DEF Control, Shape, Plids
  <2>2. IsFiniteSet(EntitiesOf[Plids(w)]) /\ todo[w] \subseteq EntitiesOf[Plids(w)]
    BY <1>3, <2>1 DEF Finite, Names
  <2>3. /\ IsFiniteSet(todo[w])
        /\ Cardinality(todo[w]) <= Cardinality(EntitiesOf[Plids(w)])
    BY <2>2, FS_Subset
  <2>4. Cardinality(todo[w]) \in Nat /\ Cardinality(EntitiesOf[Plids(w)]) \in Nat
    BY <2>2, <2>3, FS_CardinalityType
  <2>5. pc[w] \in Section \cup Outside
    BY DEF Control, TypeOK, HandlerTypeOK
  <2>6. StepsLeft(w) \in Nat
    BY <1>1, <2>4, <2>5
    DEF StepsLeft, Linking, LinkingAll, Section, InProduct, InEntity, Outside
  <2> QED BY <1>1, <2>3, <2>4, <2>6
<1> QED BY <1>2, <1>3

\* Who stays where it is has as much to do as before.
LEMMA SameSteps ==
  ASSUME NEW w \in Worker, pc'[w] = pc[w], job'[w] = job[w], img'[w] = img[w],
         todo'[w] = todo[w]
  PROVE  StepsLeft(w)' = StepsLeft(w)
BY DEF StepsLeft, Linking, LinkingAll, Plids

\* A handler that returns has nothing left.
LEMMA NoSteps ==
  ASSUME Finite, Control, Names, NEW w \in Worker, pc[w] # "idle", pc'[w] = "idle"
  PROVE  StepsLeft(w)' < StepsLeft(w)
<1>1. StepsLeft(w)' = 0
  BY DEF StepsLeft
<1>2. pc[w] \in (Section \cup Outside) \ {"idle"}
  BY DEF Control, TypeOK, HandlerTypeOK
<1>3. StepsLeft(w) > 0
  BY <1>2, Counted DEF StepsLeft, Linking, LinkingAll, Section, InProduct, InEntity, Outside
<1> QED BY <1>1, <1>3

\* Each step of a handler is one of those it had left.
LEMMA OwnSteps ==
  ASSUME Finite, Control, Names, NEW w \in Worker, Step(w)
  PROVE  StepsLeft(w)' < StepsLeft(w)
<1> DEFINE n == Cardinality(todo[w])
           all == Cardinality(EntitiesOf[Plids(w)])
           g == GallerySize
           i == img[w]
<1>0. /\ n \in Nat /\ g \in Nat /\ i \in 0 .. g
      /\ pc[w] # "idle" => all \in Nat /\ n <= all
  BY Counted
<1>T. /\ pc \in [Worker -> Section \cup Outside] /\ img \in [Worker -> 0 .. GallerySize]
      /\ todo \in [Worker -> SUBSET Entity]
      /\ pc[w] \in Early \cup {"unlockSeen"} => todo[w] = {}
      /\ pc[w] \in Early \cup {"unlockNew"} => img[w] = 0
  BY DEF Control, TypeOK, HandlerTypeOK, Shape
<1>E. Cardinality({}) = 0
  BY FS_EmptySet
<1> HIDE DEF n, all, g, i
<1> DEFINE Stays == job'[w] = job[w] /\ img'[w] = img[w] /\ todo'[w] = todo[w]
<1>1. ASSUME pc[w] # "idle", pc'[w] = "idle" PROVE StepsLeft(w)' < StepsLeft(w)
  BY <1>1, NoSteps
\* One call further with the same names and images.
<1>2. ASSUME Stays, pc[w] # "idle",
             <<pc[w], pc'[w]>> \in
                {<<"fetch", "lock">>, <<"lock", "exists">>, <<"exists", "find">>,
                 <<"find", "create">>, <<"unlockSeen", "price">>, <<"unlockNew", "images">>,
                 <<"price", "entities">>, <<"entLock", "entFind">>, <<"entFind", "entLink">>,
                 <<"entFind", "entCreate">>, <<"entCreate", "entLink">>,
                 <<"entLink", "entUnlock">>, <<"entUnlock", "entities">>}
      PROVE  StepsLeft(w)' < StepsLeft(w)
  BY <1>0, <1>2 DEF StepsLeft, Linking, LinkingAll, Plids, n, all, g, i
\* A Commit fails: the lease is released and the task returned.
<1>3. ASSUME <<pc[w], pc'[w]>> \in
                {<<"find", "unlockFail">>, <<"create", "unlockFail">>, <<"entFind", "entFail">>,
                 <<"entCreate", "entFail">>, <<"entLink", "entFail">>}
      PROVE  StepsLeft(w)' < StepsLeft(w)
  BY <1>0, <1>3 DEF StepsLeft, Linking, LinkingAll, n, all, g, i
\* The product is there, its names are still to link.
<1>4. ASSUME NEW id, HaveProduct(w, id), pc[w] \in {"find", "create"}
      PROVE  StepsLeft(w)' < StepsLeft(w)
  <2>1. pc'[w] = "unlockNew" /\ todo'[w] = EntitiesOf[Plids(w)] /\ img'[w] = 0
    BY <1>4, <1>T DEF HaveProduct, Early
  <2>2. StepsLeft(w)' = 1 + 6 * all + 3 + g - 0
    BY <2>1 DEF StepsLeft, Linking, all, g
  <2>3. StepsLeft(w) \in {1 + 6 * all + 4 + g, 1 + 6 * all + 5 + g}
    BY <1>4 DEF StepsLeft, LinkingAll, all, g
  <2> QED BY <1>0, <1>4, <2>2, <2>3
<1> USE DEF Return, Fail, Rollback, local
<1>5. CASE Fetch(w) \/ FetchFails(w)
  BY <1>1, <1>2, <1>5, <1>T DEF Fetch, FetchFails
<1>6. CASE LockProduct(w) \/ LockEntity(w)
  BY <1>1, <1>2, <1>6, <1>T DEF LockProduct, LockEntity, Obtain, NotObtained
<1>7. CASE Exists(w)
  <2>1. CASE pc'[w] = "find"
    BY <1>2, <1>7, <2>1 DEF Exists
  <2>2. CASE pc'[w] = "unlockSeen"
    <3>1. todo'[w] = {} /\ pc[w] = "exists"
      BY <1>7, <1>T DEF Exists, Early
    <3>2. StepsLeft(w)' = 1 + 6 * 0 + 2
      BY <1>E, <2>2, <3>1 DEF StepsLeft, Linking
    <3>3. StepsLeft(w) = 1 + 6 * all + 6 + g
      BY <3>1 DEF StepsLeft, LinkingAll, all, g
    <3> QED BY <1>0, <3>1, <3>2, <3>3
  <2> QED BY <1>7, <1>T, <2>1, <2>2 DEF Exists
<1>8. CASE FindProduct(w)
  BY <1>2, <1>3, <1>4, <1>8, <1>T DEF FindProduct
<1>9. CASE CreateProduct(w)
  BY <1>3, <1>4, <1>9, <1>T DEF CreateProduct
<1>10. CASE UnlockProduct(w)
  BY <1>1, <1>2, <1>10, <1>T DEF UnlockProduct
<1>11. CASE PersistImage(w)
  <2>1. CASE pc'[w] = "idle"
    BY <1>1, <1>11, <2>1 DEF PersistImage
  <2>2. CASE pc'[w] = pc[w]
    <3>1. pc[w] = "images" /\ img'[w] = i + 1 /\ todo'[w] = todo[w]
      BY <1>11, <1>T, <2>2 DEF PersistImage, i
    <3>2. StepsLeft(w) = 1 + 6 * n + 2 + g - i
      BY <3>1 DEF StepsLeft, Linking, n, g, i
    <3>3. StepsLeft(w)' = 1 + 6 * n + 2 + g - (i + 1)
      BY <2>2, <3>1 DEF StepsLeft, Linking, n, g
    <3> QED BY <1>0, <3>2, <3>3
  <2> QED BY <1>11, <1>T, <2>1, <2>2 DEF PersistImage
<1>12. CASE ImagesDone(w)
  <2>1. /\ pc[w] = "images" /\ pc'[w] = "price" /\ i = g /\ todo'[w] = todo[w]
    BY <1>12, <1>T DEF ImagesDone, i, g
  <2>2. StepsLeft(w) = 1 + 6 * n + 2 + g - i /\ StepsLeft(w)' = 1 + 6 * n + 1
    BY <2>1 DEF StepsLeft, Linking, n, g, i
  <2> QED BY <1>0, <2>1, <2>2
<1>13. CASE PersistPrice(w) \/ Finish(w)
  BY <1>1, <1>2, <1>13, <1>T DEF PersistPrice, Finish
<1>14. ASSUME NEW e \in Entity, NextEntity(w, e) PROVE StepsLeft(w)' < StepsLeft(w)
  <2>1. /\ pc[w] = "entities" /\ pc'[w] = "entLock"
        /\ e \in todo[w] /\ todo'[w] = todo[w] \ {e}
    BY <1>14, <1>T DEF NextEntity
  <2>2. Cardinality(todo[w] \ {e}) = n - 1
    BY <2>1, Counted, FS_RemoveElement DEF n
  <2>3. StepsLeft(w) = 1 + 6 * n
    BY <2>1 DEF StepsLeft, Linking, n
  <2>4. StepsLeft(w)' = 1 + 6 * (n - 1) + 5
    BY <2>1, <2>2 DEF StepsLeft, Linking
  <2> QED BY <1>0, <2>3, <2>4
<1>15. CASE FindEntity(w) \/ CreateEntity(w) \/ LinkEntity(w)
  BY <1>2, <1>3, <1>15, <1>T DEF FindEntity, CreateEntity, LinkEntity
<1>16. CASE UnlockEntity(w)
  BY <1>1, <1>2, <1>16, <1>T DEF UnlockEntity
<1> QED
  BY <1>5, <1>6, <1>7, <1>8, <1>9, <1>10, <1>11, <1>12, <1>13, <1>14, <1>15, <1>16 DEF Step

\* A step of anybody else leaves a handler what it has to do, or ends it.
LEMMA OthersSteps ==
  ASSUME Finite, Control, Names, [Next]_vars, NEW w \in Worker, ~Step(w),
         ~\E m \in Msg : Deliver(w, m)
  PROVE  StepsLeft(w)' <= StepsLeft(w)
<1>T. /\ pc \in [Worker -> Section \cup Outside] /\ job \in [Worker -> Msg \cup {NoMsg}]
      /\ img \in [Worker -> 0 .. GallerySize] /\ todo \in [Worker -> SUBSET Entity]
      /\ StepsLeft(w) \in Nat
  BY Counted DEF Control, TypeOK, HandlerTypeOK
<1>1. ASSUME pc'[w] = pc[w], job'[w] = job[w], img'[w] = img[w], todo'[w] = todo[w]
      PROVE  StepsLeft(w)' <= StepsLeft(w)
  BY <1>1, <1>T, SameSteps
<1>2. ASSUME pc[w] # "idle", pc'[w] = "idle" PROVE StepsLeft(w)' <= StepsLeft(w)
  <2>1. StepsLeft(w)' = 0
    BY <1>2 DEF StepsLeft
  <2> QED BY <2>1, <1>T
<1> USE DEF Return, Fail, NotObtained, Obtain, Rollback, HaveProduct, local
<1> DEFINE Same == pc'[w] = pc[w] /\ job'[w] = job[w] /\ img'[w] = img[w] /\ todo'[w] = todo[w]
<1>3. ASSUME NEW v \in Worker \ {w}, Step(v) PROVE Same
  <2>1. ASSUME Fetch(v) \/ FetchFails(v) \/ LockProduct(v) \/ Exists(v) PROVE Same
    BY <1>T, <2>1 DEF Fetch, FetchFails, LockProduct, Exists
  <2>2. ASSUME FindProduct(v) \/ CreateProduct(v) \/ UnlockProduct(v) PROVE Same
    BY <1>T, <2>2 DEF FindProduct, CreateProduct, UnlockProduct
  <2>3. ASSUME PersistImage(v) \/ ImagesDone(v) \/ PersistPrice(v) \/ Finish(v) PROVE Same
    BY <1>T, <2>3 DEF PersistImage, ImagesDone, PersistPrice, Finish
  <2>4. ASSUME NEW e \in Entity, NextEntity(v, e) PROVE Same
    BY <1>T, <2>4 DEF NextEntity
  <2>5. ASSUME LockEntity(v) \/ FindEntity(v) \/ CreateEntity(v) PROVE Same
    BY <1>T, <2>5 DEF LockEntity, FindEntity, CreateEntity
  <2>6. ASSUME LinkEntity(v) \/ UnlockEntity(v) PROVE Same
    BY <1>T, <2>6 DEF LinkEntity, UnlockEntity
  <2> QED BY <1>3, <2>1, <2>2, <2>3, <2>4, <2>5, <2>6 DEF Step
<1>4. ASSUME NEW v \in Worker \ {w}, NEW m \in Msg, Deliver(v, m)
      PROVE  StepsLeft(w)' <= StepsLeft(w)
  BY <1>1, <1>4 DEF Deliver
<1>5. ASSUME NEW v \in Worker, Crash(v) PROVE StepsLeft(w)' <= StepsLeft(w)
  BY <1>1, <1>2, <1>5, <1>T DEF Crash
<1>6. ASSUME NEW v \in Worker, NEW id \in Key \cup {Zero}, SendDigest(v, id)
      PROVE  StepsLeft(w)' <= StepsLeft(w)
  BY <1>1, <1>6 DEF SendDigest
<1>7. ASSUME NEW v \in Worker, NEW m \in Msg, GiveUp(v, m) \/ Timeout(m)
      PROVE  StepsLeft(w)' <= StepsLeft(w)
  BY <1>1, <1>7 DEF GiveUp, Timeout
<1>8. ASSUME NEW k \in Key, LeaseLapse(k) PROVE StepsLeft(w)' <= StepsLeft(w)
  BY <1>1, <1>8 DEF LeaseLapse
<1>9. CASE Quiet \/ UNCHANGED vars
  BY <1>1, <1>9 DEF Quiet, vars
<1> HIDE DEF Return, Fail, NotObtained, Obtain, Rollback, HaveProduct, local
<1> QED BY <1>1, <1>3, <1>4, <1>5, <1>6, <1>7, <1>8, <1>9 DEF Next

LEMMA StepsAreNumbers ==
  ASSUME Finite PROVE Control /\ Names => \A w \in Worker : StepsLeft(w) \in Nat
BY Counted

\* No handler goes on for ever or waits for a lease that nobody gives back,
\* whatever fails, and none is delayed by another but for its leases: with fair
\* goroutines, and deliveries that are counted (TypeCorrect), every task is
\* settled (TasksSettle; new_product.go:85-171, connection/redis.go:20-48).
THEOREM HandlersFinish ==
  ASSUME Finite
  PROVE  Spec => /\ [](Bounded /\ LeasesComeBack)
                 /\ [][\A w \in Worker : Moves(w)]_vars
<1> DEFINE Inv == Control /\ Names /\ HaveLease
<1>1. Init => Inv
  <2>1. Init => Names /\ HaveLease
    BY NamesAssumption DEF Init, Names, HaveLease
  <2> QED BY <2>1, InitIInv DEF IInv
<1>2. Inv /\ [Next]_vars => Inv'
  BY ControlStep, NamesStep, HaveLeaseStep
<1>3. Inv => Bounded
  <2> SUFFICES ASSUME Inv, NEW w \in Worker, pc[w] # "idle"
               PROVE  StepsLeft(w) \in 0 .. LinkingAll(w) + 8 + GallerySize
    BY DEF Bounded
  <2>1. pc[w] \in Section \cup Outside
    BY DEF Control, TypeOK, HandlerTypeOK
  <2>2. StepsLeft(w) <= LinkingAll(w) + 8 + GallerySize
    BY <2>1, Counted
    DEF StepsLeft, Linking, LinkingAll, Section, InProduct, InEntity, Outside
  <2>3. LinkingAll(w) + 8 + GallerySize \in Nat
    BY Counted DEF LinkingAll
  <2> QED BY <2>2, <2>3, Counted
<1>4. Inv => LeasesComeBack
  <2> SUFFICES ASSUME Inv, NEW w \in Worker, pc[w] \in {"lock", "entLock"},
                      lock[KeyOf(w)] \notin {Free, Orphan}
               PROVE  \E v \in Worker \ {w} :
                         lock[KeyOf(w)] = v /\ pc[v] \in Section /\ KeyOf(v) = KeyOf(w)
    BY DEF LeasesComeBack
  <2>1. KeyOf(w) \in Key
    BY TasksAssumption DEF Control, TypeOK, HandlerTypeOK, Shape, KeyOf, Plids
  <2>2. PICK v \in Worker : lock[KeyOf(w)] = v
    BY <2>1 DEF Control, TypeOK, StoreTypeOK
  <2>3. pc[v] \in Section /\ KeyOf(v) = KeyOf(w)
    BY <2>1, <2>2 DEF HaveLease, AtKey
  <2> QED BY <2>2, <2>3 DEF Section, InProduct, InEntity
<1>5. (Control /\ Names)' => (\A w \in Worker : StepsLeft(w) \in Nat)'
  BY StepsAreNumbers, PTL
<1>6. Inv /\ [Next]_vars => \A w \in Worker : Moves(w)
  <2> SUFFICES ASSUME Inv, [Next]_vars, NEW w \in Worker PROVE Moves(w)
    OBVIOUS
  <2>1. StepsLeft(w) \in Nat /\ StepsLeft(w)' \in Nat
    BY <1>2, <1>5, Counted
  <2>2. CASE Step(w)
    <3>1. StepsLeft(w)' < StepsLeft(w)
      BY <2>2, OwnSteps
    <3>2. StepsLeft(w)' <= StepsLeft(w)
      BY <2>1, <3>1
    <3> QED BY <3>1, <3>2 DEF Moves
  <2>3. CASE ~Step(w)
    BY <2>3, OthersSteps DEF Moves
  <2> QED BY <2>2, <2>3
<1> QED BY <1>1, <1>2, <1>3, <1>4, <1>6, PTL DEF Spec
-----------------------------------------------------------------------------
(***************************************************************************)
(* The tables as the gateway sees them.                                    *)
(***************************************************************************)

\* The tasks that have stored a price of a product.
PricesOf(p) == {m \in priced : PlidOf[m] = p}

\* GatewayCache over these tables, for requests of brand b.  Its requests and
\* their cache are not there: only what it takes the handlers to do matters.
Gateway(b) == INSTANCE GatewayCache WITH
    Product <- Plid, MaxPrice <- Cardinality(Msg),
    rows <- product, price <- [p \in Plid |-> Cardinality(PricesOf(p))],
    named <- (b \in entity), listed <- {p \in Plid : link[<<p, b>>] > 0},
    index <- digested \cap Plid,
    kind <- "brand", Request <- {}, Clients <- <<>>, Wanted <- Zero, Size <- <<>>,
    Life <- 1, Faults <- {}, None <- NoMsg, cache <- NoMsg, pc <- <<>>, page <- <<>>,
    body <- <<>>, clean <- <<>>, base <- <<>>, child <- <<>>

\* What GatewayCache takes the handlers to do, for requests of any kind.
GatewayStores(b) ==
    \/ Gateway(b)!StoreBrand
    \/ \E p \in Plid : \/ Gateway(b)!StoreProduct(p) \/ Gateway(b)!StorePrice(p)
                       \/ Gateway(b)!LinkBrand(p) \/ Gateway(b)!Digest(p)

\* A task more has stored a price.
LEMMA OnePriceMore ==
  ASSUME IsFiniteSet(Msg), priced \subseteq Msg, NEW m \in Msg \ priced,
         priced' = priced \cup {m}
  PROVE  /\ Cardinality(PricesOf(PlidOf[m])') = Cardinality(PricesOf(PlidOf[m])) + 1
         /\ Cardinality(PricesOf(PlidOf[m])) < Cardinality(Msg)
         /\ \A p \in Plid \ {PlidOf[m]} : PricesOf(p)' = PricesOf(p)
<1> DEFINE old == PricesOf(PlidOf[m])
<1>1. /\ PricesOf(PlidOf[m])' = old \cup {m} /\ m \notin old
      /\ old \cup {m} \subseteq Msg
      /\ \A p \in Plid \ {PlidOf[m]} : PricesOf(p)' = PricesOf(p)
  BY DEF PricesOf
<1>2. IsFiniteSet(old)
  BY <1>1, FS_Subset
<1>3. Cardinality(old \cup {m}) = Cardinality(old) + 1
  BY <1>1, <1>2, FS_AddElement
<1>4. Cardinality(old \cup {m}) <= Cardinality(Msg)
  BY <1>1, FS_Subset
<1>5. Cardinality(old) \in Nat /\ Cardinality(Msg) \in Nat
  BY <1>2, FS_CardinalityType
<1>6. Cardinality(old) < Cardinality(Msg)
  BY <1>3, <1>4, <1>5
<1> QED BY <1>1, <1>3, <1>6

LEMMA GatewayStep ==
  ASSUME IsFiniteSet(Msg), NEW b \in Brand, IInv, [Tables!Next]_(Tables!cvars)
  PROVE  [GatewayStores(b)]_(Gateway(b)!tables)
<1> DEFINE Goal == [GatewayStores(b)]_(Gateway(b)!tables)
<1> USE DEF Gateway!tables, Gateway!request
<1>0. /\ product \subseteq Plid /\ entity \subseteq Entity /\ b \in Entity /\ priced \subseteq Msg
      /\ link \in [Row -> Nat] /\ Plid \cap Entity = {}
      /\ \A p \in Plid : <<p, b>> \in Row
  BY NamesAssumption DEF IInv, Control, TypeOK, StoreTypeOK, Row
<1>1. ASSUME NEW p \in Plid, Tables!AddProduct(p) PROVE Goal
  <2>1. Gateway(b)!StoreProduct(p)
    BY <1>1 DEF Tables!AddProduct, Gateway!StoreProduct, PricesOf
  <2> QED BY <2>1 DEF GatewayStores
<1>2. ASSUME NEW p \in Plid, Tables!AddImage(p) PROVE Goal
  BY <1>2 DEF Tables!AddImage, PricesOf
<1>3. ASSUME NEW m \in Msg, Tables!AddPrice(m) PROVE Goal
  <2>1. CASE m \in priced
    BY <1>3, <2>1 DEF Tables!AddPrice, PricesOf
  <2>2. CASE m \notin priced
    <3>1. PlidOf[m] \in Plid /\ priced' = priced \cup {m}
      BY <1>3, TasksAssumption DEF Tables!AddPrice
    <3>2. /\ Cardinality(PricesOf(PlidOf[m])') = Cardinality(PricesOf(PlidOf[m])) + 1
          /\ Cardinality(PricesOf(PlidOf[m])) < Cardinality(Msg)
          /\ \A p \in Plid \ {PlidOf[m]} : PricesOf(p)' = PricesOf(p)
      BY <1>0, <2>2, <3>1, OnePriceMore
    <3>3. [p \in Plid |-> Cardinality(PricesOf(p))]'
            = [[p \in Plid |-> Cardinality(PricesOf(p))] EXCEPT ![PlidOf[m]] = @ + 1]
      BY <3>1, <3>2
    <3>4. Gateway(b)!StorePrice(PlidOf[m])
      BY <1>3, <3>1, <3>2, <3>3 DEF Tables!AddPrice, Gateway!StorePrice
    <3> QED BY <3>1, <3>4 DEF GatewayStores
  <2> QED BY <2>1, <2>2
<1>4. ASSUME NEW e \in Entity, Tables!AddEntity(e) PROVE Goal
  <2>1. CASE e = b
    <3>1. Gateway(b)!StoreBrand
      BY <1>4, <2>1 DEF Tables!AddEntity, Gateway!StoreBrand, PricesOf
    <3> QED BY <3>1 DEF GatewayStores
  <2>2. CASE e # b
    BY <1>4, <2>2 DEF Tables!AddEntity, PricesOf
  <2> QED BY <2>1, <2>2
<1>5. ASSUME NEW p \in Plid, NEW e \in Entity, Tables!AddLink(p, e) PROVE Goal
  <2>1. CASE e = b
    <3>1. Gateway(b)!LinkBrand(p)
      BY <1>0, <1>5, <2>1 DEF Tables!AddLink, Gateway!LinkBrand, PricesOf
    <3> QED BY <3>1 DEF GatewayStores
  <2>2. CASE e # b
    <3>1. \A q \in Plid : link'[<<q, b>>] = link[<<q, b>>]
      BY <1>0, <1>5, <2>2 DEF Tables!AddLink
    <3> QED BY <1>5, <3>1 DEF Tables!AddLink, PricesOf
  <2> QED BY <2>1, <2>2
<1>6. ASSUME NEW x \in Plid \cup Entity, Tables!Digest(x) PROVE Goal
  <2>1. CASE x \in Plid \ digested
    <3>1. x \in product \ (digested \cap Plid)
      BY <1>0, <1>6, <2>1 DEF Tables!Digest
    <3>2. digested' \cap Plid = (digested \cap Plid) \cup {x}
      BY <1>6, <2>1 DEF Tables!Digest
    <3>3. Gateway(b)!Digest(x)
      BY <1>6, <3>1, <3>2 DEF Tables!Digest, Gateway!Digest, PricesOf
    <3> QED BY <2>1, <3>3 DEF GatewayStores
  <2>2. CASE x \notin Plid \/ x \in digested
    BY <1>6, <2>2 DEF Tables!Digest, PricesOf
  <2> QED BY <2>1, <2>2
<1>7. CASE UNCHANGED Tables!cvars
  BY <1>7 DEF Tables!cvars, PricesOf
<1> QED BY <1>1, <1>2, <1>3, <1>4, <1>5, <1>6, <1>7 DEF Tables!Next

\* What the requests of GatewayCache are checked and proved over is what the
\* handlers do to the tables and to the index: from empty tables, each row, price,
\* link and digest by itself, links only of stored products to a stored brand,
\* prices and digests only of stored products (new_product.go:120-171).
THEOREM GatewaySeesTheHandlers ==
  ASSUME Careful, IsFiniteSet(Msg), NEW b \in Brand
  PROVE  Spec => Gateway(b)!Init /\ [][GatewayStores(b)]_(Gateway(b)!tables)
<1>1. Init => Gateway(b)!Init
  <2> SUFFICES ASSUME Init PROVE Gateway(b)!Init
    OBVIOUS
  <2>1. /\ product = {} /\ b \notin entity /\ digested \cap Plid = {}
        /\ {p \in Plid : link[<<p, b>>] > 0} = {}
    BY DEF Init, Row
  <2>2. [p \in Plid |-> Cardinality(PricesOf(p))] = [p \in Plid |-> 0]
    BY FS_EmptySet DEF Init, PricesOf
  <2>3. \A x : <<>> = [r \in {} |-> x]
    OBVIOUS
  <2>4. {} \X Plid = {}
    OBVIOUS
  <2> QED BY <2>1, <2>2, <2>3, <2>4 DEF Gateway!Init, Gateway!Kinds, Gateway!NoChild
<1>2. IInv /\ [Next]_vars => [GatewayStores(b)]_(Gateway(b)!tables)
  BY RefinementStep, GatewayStep
<1> QED BY <1>1, <1>2, Invariance, PTL DEF Spec
==============================================================================
