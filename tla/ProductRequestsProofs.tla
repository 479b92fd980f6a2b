------------------------- MODULE ProductRequestsProofs -------------------------
(***************************************************************************)
(* Theorems of ProductRequests, for any number of users, products, URLs,   *)
(* messages and failures, and of the gateway's two parts side by side.     *)
(***************************************************************************)
EXTENDS MCGateway, GatewayCacheProofs, TLAPS

\* A PLID is stored, in the queue, or known to be lost.
Accounted(p) == p \in stored \/ Waiting(p) \/ p \in lost

\* ProductSearch reads the model of a product it has found.
Existing == \A r \in User : at[r] = "model" => plid[r] \in stored

\* What is told to users, and what is about to be told, is accounted for.
Kept ==
    /\ \A p \in promised : Accounted(p)
    /\ \A r \in User : at[r] = "added" => Accounted(plid[r])

\* The inductive invariant.
RequestsIInv == RequestsTypeOK /\ Existing /\ Kept

USE RequestsAssumption

\* There are numbers of tries, and users' PLIDs can be queued.
LEMMA Tries == 0 \in Try /\ Plid \subseteq Queued /\ Offered \subseteq Queued /\ 0 \in Queued
  BY DEF Try, Queued

\* Nothing is queued, promised or under way.
LEMMA InitRequestsIInv == InitRequests => RequestsIInv
  BY Tries DEF InitRequests, RequestsIInv, RequestsTypeOK, Existing, Kept, Msg

\* A step of a request that leaves the queue, the tables and the promises alone
\* keeps what is accounted for.
LEMMA QuietStep ==
  ASSUME Kept, UNCHANGED <<queue, stored, promised, lost>>,
         \A r \in User : at'[r] = "added" => at[r] = "added" /\ plid'[r] = plid[r]
  PROVE  Kept'
  BY DEF Kept, Accounted, Waiting

\* A new message accounts for its PLID, and for the others nothing changes.
LEMMA PushAccounts ==
  ASSUME RequestsTypeOK, NEW p \in Queued, Push(p), UNCHANGED stored
  PROVE  /\ queue' \in [Msg -> Nat] /\ lost' \subseteq Queued
         /\ Accounted(p)'
         /\ \A q \in Queued : Accounted(q) => Accounted(q)'
<1>1. <<p, 0>> \in Msg
  BY Tries DEF Msg
<1>2. queue' = [queue EXCEPT ![<<p, 0>>] = queue[<<p, 0>>] + 1] /\ lost' = lost \ {p}
  BY DEF Push
<1>3. queue' \in [Msg -> Nat] /\ queue'[<<p, 0>>] > 0
  BY <1>1, <1>2 DEF RequestsTypeOK
<1>4. Accounted(p)'
  BY <1>3, Tries DEF Accounted, Waiting
<1>5. ASSUME NEW q \in Queued, q # p, Accounted(q) PROVE Accounted(q)'
  <2>1. CASE Waiting(q)
    <3>1. PICK t \in Try : queue[<<q, t>>] > 0
      BY <2>1 DEF Waiting
    <3>2. queue'[<<q, t>>] = queue[<<q, t>>]
      BY <1>2, <1>5, <1>1 DEF RequestsTypeOK
    <3> QED BY <3>1, <3>2 DEF Accounted, Waiting
  <2>2. CASE q \in stored \/ q \in lost
    BY <2>2, <1>2, <1>5 DEF Accounted
  <2> QED BY <1>5, <2>1, <2>2 DEF Accounted
<1> QED BY <1>2, <1>3, <1>4, <1>5 DEF RequestsTypeOK

\* Whatever a handler does with a message of p, p stays accounted for, and so do
\* the others.
LEMMA ConsumeAccounts ==
  ASSUME RequestsTypeOK, NEW p \in Queued, NEW t \in Try,
         Store(p, t) \/ Ignore(p, t) \/ Retry(p, t)
  PROVE  /\ RequestsTypeOK' /\ stored \subseteq stored'
         /\ \A q \in Queued : Accounted(q) => Accounted(q)'
<1>1. <<p, t>> \in Msg /\ queue[<<p, t>>] \in Nat /\ queue[<<p, t>>] > 0
  BY DEF Msg, RequestsTypeOK, Store, Ignore, Retry
<1>2. lost \subseteq lost' /\ lost' \subseteq Queued
  BY DEF RequestsTypeOK, Store, Ignore, Retry
<1>3. /\ stored \subseteq stored' /\ stored' \subseteq Offered
      /\ UNCHANGED <<cached, at, url, plid, promised>>
      /\ failures' \in 0 .. MaxFailures
  <2>1. CASE Store(p, t) BY <2>1 DEF RequestsTypeOK, Store
  <2>2. CASE Ignore(p, t) BY <2>2 DEF RequestsTypeOK, Ignore, Failure
  <2>3. CASE Retry(p, t)
    <3>1. p \in Offered /\ stored' \in {stored, stored \cup {p}} /\ Failure
      BY <2>3 DEF Retry
    <3>2. UNCHANGED <<cached, at, url, plid, promised>>
      BY <2>3 DEF Retry
    <3> QED BY <3>1, <3>2 DEF RequestsTypeOK, Failure
  <2> QED BY <2>1, <2>2, <2>3
<1>4. /\ queue' \in [Msg -> Nat]
      /\ \A q \in Queued, s \in Try : q # p => queue'[<<q, s>>] = queue[<<q, s>>]
      /\ p \in stored' \/ p \in lost' \/ \E s \in Try : queue'[<<p, s>>] > 0
  <2>1. CASE queue' = [queue EXCEPT ![<<p, t>>] = @ - 1] /\ (p \in stored' \/ p \in lost')
    BY <2>1, <1>1 DEF RequestsTypeOK
  <2>2. CASE /\ t + 1 \in Try
             /\ queue' = [queue EXCEPT ![<<p, t>>] = @ - 1, ![<<p, t + 1>>] = @ + 1]
    <3>1. <<p, t + 1>> \in Msg /\ <<p, t + 1>> # <<p, t>>
      BY <2>2 DEF Msg, Try
    <3>2. queue[<<p, t + 1>>] \in Nat
      BY <3>1 DEF RequestsTypeOK
    <3>3. queue' \in [Msg -> Nat]
      BY <2>2, <3>1, <3>2, <1>1 DEF RequestsTypeOK
    <3>4. queue'[<<p, t + 1>>] > 0
      BY <2>2, <3>1, <3>2, <1>1 DEF RequestsTypeOK
    <3>5. ASSUME NEW q \in Queued, NEW s \in Try, q # p
          PROVE  queue'[<<q, s>>] = queue[<<q, s>>]
      <4>1. <<q, s>> \in Msg /\ <<q, s>> # <<p, t>> /\ <<q, s>> # <<p, t + 1>>
        BY <3>5 DEF Msg
      <4> QED BY <2>2, <4>1 DEF RequestsTypeOK
    <3> QED BY <2>2, <3>3, <3>4, <3>5
  <2> QED BY <2>1, <2>2 DEF Store, Ignore, Retry
<1>5. RequestsTypeOK'
  BY <1>2, <1>3, <1>4 DEF RequestsTypeOK
<1>6. ASSUME NEW q \in Queued, Accounted(q) PROVE Accounted(q)'
  BY <1>2, <1>3, <1>4, <1>6 DEF Accounted, Waiting
<1> QED BY <1>3, <1>5, <1>6

\* No step breaks the inductive invariant.
LEMMA RequestsInductive == RequestsIInv /\ [NextRequest]_requestsVars => RequestsIInv'
<1> SUFFICES ASSUME RequestsIInv, [NextRequest]_requestsVars PROVE RequestsIInv'
  OBVIOUS
<1> USE DEF RequestsIInv
<1>1. ASSUME NEW r \in User, NEW u \in Url, Add(r, u) PROVE RequestsIInv'
  <2>1. RequestsTypeOK' BY <1>1 DEF RequestsTypeOK, Add, Proceed
  <2>2. Existing' BY <1>1 DEF RequestsTypeOK, Existing, Add, Proceed
  <2>3. Kept' BY <1>1, QuietStep DEF RequestsTypeOK, Add, Proceed
  <2> QED BY <2>1, <2>2, <2>3
<1>2. ASSUME NEW r \in User, NEW p \in Plid, SearchPlid(r, p) PROVE RequestsIInv'
  <2>1. RequestsTypeOK' BY <1>2, Tries DEF RequestsTypeOK, SearchPlid, Proceed, Failure
  <2>2. Existing' BY <1>2 DEF RequestsTypeOK, Existing, SearchPlid, Proceed
  <2>3. Kept' BY <1>2, QuietStep DEF RequestsTypeOK, SearchPlid, Proceed
  <2> QED BY <2>1, <2>2, <2>3
<1>3. ASSUME NEW r \in User, Visit(r) PROVE RequestsIInv'
  <2>1. RequestsTypeOK'
    <3>1. \A u \in url[r], a \in {"2xx", "other", "none"} : Verified(u, a) \in Queued
      BY Tries DEF Verified, RequestsTypeOK
    <3> QED BY <1>3, <3>1 DEF RequestsTypeOK, Visit, Proceed
  <2>2. Existing' BY <1>3 DEF RequestsTypeOK, Existing, Visit, Proceed
  <2>3. Kept' BY <1>3, QuietStep DEF RequestsTypeOK, Visit, Proceed
  <2> QED BY <2>1, <2>2, <2>3
<1>4. ASSUME NEW r \in User, Exists(r) PROVE RequestsIInv'
  <2>1. RequestsTypeOK' BY <1>4 DEF RequestsTypeOK, Exists, Proceed, Failure
  <2>2. Existing' BY <1>4 DEF RequestsTypeOK, Existing, Exists, Proceed
  <2>3. Kept' BY <1>4, QuietStep DEF RequestsTypeOK, Exists, Proceed
  <2> QED BY <2>1, <2>2, <2>3
<1>5. ASSUME NEW r \in User, FindModel(r) PROVE RequestsIInv'
  <2>1. RequestsTypeOK'
    <3>1. cached' \subseteq stored'
      BY <1>5 DEF RequestsTypeOK, Existing, FindModel
    <3>2. plid' \in [User -> Queued] /\ failures' \in 0 .. MaxFailures
      BY <1>5, Tries DEF RequestsTypeOK, FindModel, Failure
    <3> QED BY <1>5, <3>1, <3>2 DEF RequestsTypeOK, FindModel, Proceed
  <2>2. Existing' BY <1>5 DEF RequestsTypeOK, Existing, FindModel, Proceed
  <2>3. Kept' BY <1>5, QuietStep DEF RequestsTypeOK, FindModel, Proceed
  <2> QED BY <2>1, <2>2, <2>3
<1>6. ASSUME NEW r \in User, Publish(r) PROVE RequestsIInv'
  <2> DEFINE p == plid[r]
  <2>0. p \in Queued /\ UNCHANGED <<stored, cached, url, plid, promised>>
    BY <1>6 DEF RequestsTypeOK, Publish
  <2>1. CASE Push(p) /\ Proceed(r, "added") /\ UNCHANGED failures
    <3>1. /\ queue' \in [Msg -> Nat] /\ lost' \subseteq Queued
          /\ Accounted(p)' /\ \A q \in Queued : Accounted(q) => Accounted(q)'
      BY <2>0, <2>1, PushAccounts
    <3>2. RequestsTypeOK' BY <2>0, <2>1, <3>1 DEF RequestsTypeOK, Proceed
    <3>3. Existing' BY <2>0, <2>1 DEF RequestsTypeOK, Existing, Proceed
    <3>4. Kept' BY <2>0, <2>1, <3>1 DEF RequestsTypeOK, Kept, Proceed
    <3> QED BY <3>2, <3>3, <3>4
  <2>2. CASE Failure /\ Proceed(r, "error") /\ UNCHANGED <<queue, lost>>
    <3>1. RequestsTypeOK' BY <2>0, <2>2 DEF RequestsTypeOK, Proceed, Failure
    <3>2. Existing' BY <2>0, <2>2 DEF RequestsTypeOK, Existing, Proceed
    <3>3. Kept' BY <2>0, <2>2, QuietStep DEF RequestsTypeOK, Proceed
    <3> QED BY <3>1, <3>2, <3>3
  <2> QED BY <1>6, <2>1, <2>2 DEF Publish
<1>7. ASSUME NEW r \in User, Reply(r) PROVE RequestsIInv'
  <2>1. RequestsTypeOK' BY <1>7, Tries DEF RequestsTypeOK, Reply, Proceed
  <2>2. Existing' BY <1>7 DEF RequestsTypeOK, Existing, Reply, Proceed
  <2>3. Kept' BY <1>7 DEF RequestsTypeOK, Kept, Accounted, Waiting, Reply, Proceed
  <2> QED BY <2>1, <2>2, <2>3
<1>8. ASSUME NEW p \in Queued, Consume(p) PROVE RequestsIInv'
  <2>1. PICK t \in Try : Store(p, t) \/ Ignore(p, t) \/ Retry(p, t)
    BY <1>8 DEF Consume
  <2>2. /\ RequestsTypeOK' /\ stored \subseteq stored'
        /\ \A q \in Queued : Accounted(q) => Accounted(q)'
    BY <2>1, ConsumeAccounts
  <2>3. UNCHANGED <<at, plid, promised>>
    BY <2>1 DEF Store, Ignore, Retry
  <2>4. Existing' BY <2>2, <2>3 DEF Existing
  <2>5. Kept' BY <2>2, <2>3 DEF RequestsTypeOK, Kept
  <2> QED BY <2>2, <2>4, <2>5
<1>9. ASSUME NEW p \in Plid, Expire(p) PROVE RequestsIInv'
  <2>1. RequestsTypeOK' BY <1>9 DEF RequestsTypeOK, Expire
  <2>2. Existing' BY <1>9 DEF Existing, Expire
  <2>3. Kept' BY <1>9, QuietStep DEF Expire
  <2> QED BY <2>1, <2>2, <2>3
<1>10. ASSUME Crash PROVE RequestsIInv'
  <2>1. RequestsTypeOK' BY <1>10, Tries DEF RequestsTypeOK, Crash, Failure
  <2>2. Existing' BY <1>10 DEF Existing, Crash
  <2>3. Kept' BY <1>10, QuietStep DEF Crash
  <2> QED BY <2>1, <2>2, <2>3
<1>11. CASE UNCHANGED requestsVars
  <2>1. RequestsTypeOK' BY <1>11 DEF RequestsTypeOK, requestsVars
  <2>2. Existing' BY <1>11 DEF Existing, requestsVars
  <2>3. Kept' BY <1>11, QuietStep DEF requestsVars
  <2> QED BY <2>1, <2>2, <2>3
<1> QED
  BY <1>1, <1>2, <1>3, <1>4, <1>5, <1>6, <1>7, <1>8, <1>9, <1>10, <1>11 DEF NextRequest, HandleRequest

\* The inductive invariant holds.
LEMMA RequestsInvariant == RequestsSpec => []RequestsIInv
  BY InitRequestsIInv, RequestsInductive, PTL DEF RequestsSpec

\* The variables keep their types, and only products that are stored are cached
\* (handler.go:73-157, 463-515).
THEOREM RequestsTypeCorrect == RequestsSpec => []RequestsTypeOK
<1>1. RequestsIInv => RequestsTypeOK BY DEF RequestsIInv
<1> QED BY <1>1, RequestsInvariant, PTL

\* Whatever fails and however requests and handlers interleave, what users were
\* told is added is stored, queued, or ended by the handlers without a row
\* (handler.go:98-108, 485-500).
THEOREM NothingIsForgotten == RequestsSpec => []NothingForgotten
<1>1. RequestsIInv => NothingForgotten BY DEF RequestsIInv, Kept, Accounted, NothingForgotten
<1> QED BY <1>1, RequestsInvariant, PTL
-----------------------------------------------------------------------------
(***************************************************************************)
(* Queries and requests side by side.                                      *)
(***************************************************************************)

\* A behaviour of the two is one of each: a step of one part is a stutter of
\* the other.
LEMMA BothParts == MCSpec => Spec /\ RequestsSpec
<1>1. MCInit => Init /\ InitRequests
  BY DEF MCInit
<1>2. [MCNext]_<<part, vars, requestsVars>> => [Next]_vars /\ [NextRequest]_requestsVars
  BY DEF MCNext
<1> QED BY <1>1, <1>2, PTL DEF MCSpec, Spec, RequestsSpec

\* Both parts keep their types whatever the other does.
THEOREM GatewayTypesCorrect == MCSpec => []TypesOK
<1>1. TypeOK /\ RequestsTypeOK => TypesOK
  BY DEF TypesOK
<1> QED BY <1>1, BothParts, TypeCorrect, RequestsTypeCorrect, PTL

\* The gateway as a whole: answers are true, no goroutine sends on a closed
\* channel, and no PLID is forgotten (gateway/rest/handler.go).
THEOREM GatewayKeepsItsWord == MCSpec => [](AnswersHold /\ OpenForSends /\ NothingForgotten)
  BY BothParts, AnswersAreTrue, ChannelsStayOpen, NothingIsForgotten, PTL
===============================================================================
