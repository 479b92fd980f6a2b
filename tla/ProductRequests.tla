--------------------------- MODULE ProductRequests ---------------------------
(***************************************************************************)
(* How users bring products into trak (gateway/rest/handler.go): AddProduct *)
(* takes the URL of a product's page, ProductSearch a "PLID...", and both  *)
(* publish the PLID for the new-product handlers and tell the user so.     *)
(*                                                                         *)
(* The new-product handlers appear as what ProductIngest shows of them: a  *)
(* message is handled, its product stored or not, and tried again after an *)
(* error.  Sequences of calls that no other request sees are one action.   *)
(***************************************************************************)
EXTENDS Integers, FiniteSets

CONSTANTS
    User,           \* goroutines of the HTTP server
    Plid,           \* PLIDs users ask for
    Offered,        \* those the API answers a product for, not a book
    Url,            \* the URLs users send to AddProduct
    Shape,          \* what plIDFromURL sees in a URL
    Named,          \* the PLID that stands in a URL
    MaxCopies,      \* bound of the messages of one PLID that nobody handled yet
    MaxAttempts,    \* go-nsq's limit on deliveries of one message
    MaxFailures     \* bound of the failures, but those of the site

\* "foreign"  no URL, another host, or no "PLID" in it
\* "short"    two path segments, the last "PLID<number>"
\* "query"    more, the last without the prefix "PLID", which stands elsewhere
\* "odd"      more, "PLID" and then no number of 32 bits
\* "page"     more, the last "PLID<number>"
Shapes == {"foreign", "short", "query", "odd", "page"}

ASSUME RequestsAssumption ==
    /\ Plid \subseteq Nat \ {0}
    /\ Offered \subseteq Plid
    /\ Shape \in [Url -> Shapes]
    /\ Named \in [Url -> Plid]
    /\ MaxCopies \in Nat /\ MaxAttempts \in Nat \ {0} /\ MaxFailures \in Nat

Try     == 0 .. MaxAttempts - 1     \* deliveries that failed
Queued  == Plid \cup {0}            \* plIDFromURL may answer 0
Msg     == Queued \X Try

VARIABLES
    queue,          \* nsqd: how many messages of each kind it holds
    stored,         \* table: the products
    cached,         \* Redis: PLIDs whose search has an answer
    at,             \* request: its next call, or its answer
    url,            \* request: the URLs it came with, one or none
    plid,           \* request: the PLID it is about
    failures,       \* failures so far
    promised,       \* history: PLIDs whose user was told they are added
    lost            \* history: PLIDs whose last message ended without a row

requestsVars == <<queue, stored, cached, at, url, plid, failures, promised, lost>>

InitRequests ==
    /\ queue = [m \in Msg |-> 0]
    /\ stored = {}
    /\ cached = {}
    /\ at = [r \in User |-> "idle"]
    /\ url = [r \in User |-> {}]
    /\ plid = [r \in User |-> 0]
    /\ failures = 0
    /\ promised = {} /\ lost = {}

Proceed(r, p) == at' = [at EXCEPT ![r] = p]

Failure == failures < MaxFailures /\ failures' = failures + 1
-----------------------------------------------------------------------------
(***************************************************************************)
(* AddProduct.                                                             *)
(***************************************************************************)

Add(r, u) ==
    /\ at[r] = "idle"
    /\ Proceed(r, "verify")
    /\ url' = [url EXCEPT ![r] = {u}]
    /\ UNCHANGED <<queue, stored, cached, plid, failures, promised, lost>>

\* The URL is not looked at before the site is asked, but for its host and "PLID".
Refused(u, answer) ==
    \/ Shape[u] = "foreign"
    \/ answer = "none"
    \/ answer = "2xx" /\ Shape[u] \in {"short", "odd"}

\* What else plIDFromURL answers: for an answer of the site other than 2xx and
\* for a last segment without "PLID" the error it returns is nil, and the PLID 0.
Verified(u, answer) == IF answer = "2xx" /\ Shape[u] = "page" THEN Named[u] ELSE 0

\* The site gives an answer, of any status, or none in ten seconds.
Visit(r) ==
    /\ at[r] = "verify"
    /\ \E u \in url[r], answer \in {"2xx", "other", "none"} :
          \/ /\ Refused(u, answer)
             /\ Proceed(r, "error")
             /\ UNCHANGED plid
          \/ /\ ~Refused(u, answer)
             /\ plid' = [plid EXCEPT ![r] = Verified(u, answer)]
             /\ Proceed(r, "publish")
    /\ UNCHANGED <<queue, stored, cached, url, failures, promised, lost>>
-----------------------------------------------------------------------------
(***************************************************************************)
(* ProductSearch for a PLID; what follows is for both handlers.            *)
(***************************************************************************)

\* redisGet: an entry, none, or no answer.
SearchPlid(r, p) ==
    /\ at[r] = "idle"
    /\ plid' = [plid EXCEPT ![r] = p]
    /\ \/ Proceed(r, IF p \in cached THEN "found" ELSE "exists") /\ UNCHANGED failures
       \/ Failure /\ Proceed(r, "exists")
    /\ UNCHANGED <<queue, stored, cached, url, promised, lost>>

\* Mutant: ok is not looked at, and the model of a product without a row is cached.
Exists_Assumed(r) ==
    /\ at[r] = "exists"
    /\ Proceed(r, "model")
    /\ UNCHANGED <<queue, stored, cached, url, plid, failures, promised, lost>>

\* ProductModelExistsByPLID; a SELECT that fails finds nothing.
Exists(r) ==
    /\ at[r] = "exists"
    /\ \/ /\ Proceed(r, IF plid[r] \in stored THEN "model" ELSE "publish")
          /\ UNCHANGED failures
       \/ Failure /\ Proceed(r, "publish")
    /\ UNCHANGED <<queue, stored, cached, url, plid, promised, lost>>

\* FindProductModel and redisSet, whose error nobody looks at.  If the SELECT fails
\* the model is nil, its use panics, and net/http closes the connection unanswered.
FindModel(r) ==
    /\ at[r] = "model"
    /\ \/ /\ cached' = cached \cup {plid[r]}
          /\ Proceed(r, "found")
          /\ UNCHANGED <<plid, failures>>
       \/ Failure /\ Proceed(r, "found") /\ UNCHANGED <<cached, plid>>
       \/ /\ Failure
          /\ Proceed(r, "idle") /\ plid' = [plid EXCEPT ![r] = 0]
          /\ UNCHANGED cached
    /\ UNCHANGED <<queue, stored, url, promised, lost>>

\* A PLID is queued: a new message for it.
Push(p) ==
    /\ queue[<<p, 0>>] < MaxCopies
    /\ queue' = [queue EXCEPT ![<<p, 0>>] = @ + 1]
    /\ lost' = lost \ {p}

\* Mutant: the error of Publish is logged and nothing else.
Publish_Unchecked(r) ==
    /\ at[r] = "publish"
    /\ \/ Push(plid[r]) /\ UNCHANGED failures
       \/ Failure /\ UNCHANGED <<queue, lost>>
    /\ Proceed(r, "added")
    /\ UNCHANGED <<stored, cached, url, plid, promised>>

\* Mutant: a PLID users were promised is not published a second time.
Publish_Once(r) ==
    /\ at[r] = "publish"
    /\ IF plid[r] \in promised THEN UNCHANGED <<queue, lost>> ELSE Push(plid[r])
    /\ Proceed(r, "added")
    /\ UNCHANGED <<stored, cached, url, plid, failures, promised>>

\* producer.Publish
Publish(r) ==
    /\ at[r] = "publish"
    /\ \/ Push(plid[r]) /\ Proceed(r, "added") /\ UNCHANGED failures
       \/ Failure /\ Proceed(r, "error") /\ UNCHANGED <<queue, lost>>
    /\ UNCHANGED <<stored, cached, url, plid, promised>>

\* sendOK, sendError: AddProduct answers OK and ProductSearch "we have added this
\* product now, check back later".
Reply(r) ==
    /\ at[r] \in {"added", "found", "error"}
    /\ promised' = promised \cup IF at[r] = "added" THEN {plid[r]} ELSE {}
    /\ Proceed(r, "idle")
    /\ url' = [url EXCEPT ![r] = {}]
    /\ plid' = [plid EXCEPT ![r] = 0]
    /\ UNCHANGED <<queue, stored, cached, failures, lost>>

\* The gateway ends: nobody answers.
Crash ==
    /\ Failure
    /\ at' = [r \in User |-> "idle"]
    /\ url' = [r \in User |-> {}]
    /\ plid' = [r \in User |-> 0]
    /\ UNCHANGED <<queue, stored, cached, promised, lost>>
-----------------------------------------------------------------------------
(***************************************************************************)
(* The new-product handlers, and Redis.                                    *)
(***************************************************************************)

\* Handled: the product is stored, if it was not.
Store(p, t) ==
    /\ queue[<<p, t>>] > 0 /\ p \in Offered
    /\ stored' = stored \cup {p}
    /\ queue' = [queue EXCEPT ![<<p, t>>] = @ - 1]
    /\ UNCHANGED <<cached, at, url, plid, failures, promised, lost>>

\* FetchProduct answers an error, for its own reasons or because there is no
\* such product or it is a book: the message is finished.
Ignore(p, t) ==
    /\ queue[<<p, t>>] > 0
    /\ \/ p \notin Offered /\ UNCHANGED failures
       \/ p \in Offered /\ Failure
    /\ queue' = [queue EXCEPT ![<<p, t>>] = @ - 1]
    /\ lost' = lost \cup {p}
    /\ UNCHANGED <<stored, cached, at, url, plid, promised>>

\* The handler returns an error, its product stored or not, and go-nsq drops the
\* message after the last attempt.
Retry(p, t) ==
    /\ queue[<<p, t>>] > 0 /\ p \in Offered /\ Failure
    /\ stored' \in {stored, stored \cup {p}}
    /\ \/ /\ t + 1 \in Try
          /\ queue' = [queue EXCEPT ![<<p, t>>] = @ - 1, ![<<p, t + 1>>] = @ + 1]
          /\ UNCHANGED lost
       \/ /\ t + 1 \notin Try
          /\ queue' = [queue EXCEPT ![<<p, t>>] = @ - 1]
          /\ lost' = lost \cup {p}
    /\ UNCHANGED <<cached, at, url, plid, promised>>

\* Ten minutes are over.
Expire(p) ==
    /\ p \in cached
    /\ cached' = cached \ {p}
    /\ UNCHANGED <<queue, stored, at, url, plid, failures, promised, lost>>
-----------------------------------------------------------------------------
HandleRequest(r) == Visit(r) \/ Exists(r) \/ FindModel(r) \/ Publish(r) \/ Reply(r)
Consume(p) == \E t \in Try : Store(p, t) \/ Ignore(p, t) \/ Retry(p, t)

NextRequest ==
    \/ \E r \in User :
          \/ \E u \in Url : Add(r, u)
          \/ \E p \in Plid : SearchPlid(r, p)
          \/ HandleRequest(r)
    \/ \E p \in Queued : Consume(p)
    \/ \E p \in Plid : Expire(p)
    \/ Crash

RequestsSpec == InitRequests /\ [][NextRequest]_requestsVars

\* Go runs goroutines that can run and nsqd delivers; nobody has to ask anything.
RequestsFairness ==
    /\ \A r \in User : WF_requestsVars(HandleRequest(r))
    /\ \A p \in Queued : WF_requestsVars(Consume(p))

FairRequests == RequestsSpec /\ RequestsFairness
-----------------------------------------------------------------------------
(***************************************************************************)
(* Properties.                                                             *)
(***************************************************************************)

\* The queue counts messages, requests are at one of their calls, and
\* only products that exist are cached.
RequestsTypeOK ==
    /\ queue \in [Msg -> Nat]
    /\ stored \subseteq Offered
    /\ cached \subseteq stored
    /\ at \in [User -> {"idle", "verify", "exists", "model", "publish",
                           "added", "found", "error"}]
    /\ url \in [User -> SUBSET Url]
    /\ plid \in [User -> Queued]
    /\ failures \in 0 .. MaxFailures
    /\ promised \subseteq Queued /\ lost \subseteq Queued

Waiting(p) == \E t \in Try : queue[<<p, t>>] > 0

\* A PLID whose user was told that it is added is stored or in the queue, unless
\* the handlers ended its last message without it: no failure between the tables,
\* the queue and the answer loses it silently (handler.go:98-108, 485-500).
NothingForgotten == \A p \in promised : p \in stored \/ Waiting(p) \/ p \in lost

\* Whoever keeps searching for a product that is offered finds it, though messages
\* are dropped and answers fail, as long as failures come to an end: asking again
\* is what repairs them (handler.go:476-515).
FoundInTheEnd ==
    \A p \in Offered :
        []<>(\E r \in User : at[r] \in {"exists", "found"} /\ plid[r] = p)
        => <>(\E r \in User : at[r] = "found" /\ plid[r] = p)

\* A URL with too few segments is refused (handler_test.go:31-42).
ShortRefused ==
    \A r \in User, u \in Url :
        u \in url[r] /\ Shape[u] = "short" => at[r] \in {"verify", "error"}
===============================================================================
