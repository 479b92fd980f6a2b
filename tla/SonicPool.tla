------------------------------ MODULE SonicPool ------------------------------
(***************************************************************************)
(* search/sonic.go: the two pools of Sonic connections of one SonicSearch. *)
(* A pool is a buffered channel that holds the idle connections.  Digest   *)
(* handlers and gRPC queries take one and put it back; every ten seconds   *)
(* keepAlive takes all of a pool, pings them and puts them back, replacing *)
(* the broken ones; Quit takes all of both pools and closes them.          *)
(*                                                                         *)
(* A connection is a slot: the one that replaces a broken connection has   *)
(* its name.  Goroutines blocked on a channel receive in order of arrival. *)
(*                                                                         *)
(* The search app creates two instances, one for gRPC and one for the      *)
(* digest handlers (apps/search/sonic/main.go:50, 72), each with both      *)
(* pools; the model's instance serves both kinds of clients.               *)
(***************************************************************************)
EXTENDS Naturals, Sequences, FiniteSets

CONSTANTS
    Ingester,           \* digest handlers, which use the ingest pool
    Searcher,           \* gRPC queries, which use the search pool
    IngestConn,         \* connections of the ingest pool
    SearchConn,         \* connections of the search pool
    Keeper, Quitter,    \* the keepAlive goroutine, the one that calls Quit
    Stops               \* whether the process is told to stop

Client    == Ingester \cup Searcher
Goroutine == Client \cup {Keeper, Quitter}
Conn      == IngestConn \cup SearchConn
Pool      == {"ingest", "search"}
ConnOf    == [p \in Pool |-> IF p = "ingest" THEN IngestConn ELSE SearchConn]

ASSUME PoolAssumption ==
    /\ IsFiniteSet(IngestConn) /\ IngestConn # {}
    /\ IsFiniteSet(SearchConn) /\ SearchConn # {}
    /\ IngestConn \cap SearchConn = {}
    /\ Ingester \cap Searcher = {}
    /\ Keeper \notin Client /\ Quitter \notin Client /\ Keeper # Quitter
    /\ Stops \in BOOLEAN

VARIABLES
    free,       \* the connections in each channel
    waiters,    \* the goroutines blocked on each channel, first come first
    held,       \* the connections a goroutine has received
    pc,         \* what a goroutine does next
    pool,       \* the pool it works on
    closed,     \* connections Quit has closed
    broken      \* connections Sonic no longer answers on

vars == <<free, waiters, held, pc, pool, closed, broken>>

PC == {"idle", "ask", "wait", "use", "ping", "panic", "done"}

PCOf(g) == IF g = Keeper THEN PC \ {"use", "done"}
           ELSE IF g = Quitter THEN PC \ {"ping", "panic"}
           ELSE {"idle", "ask", "wait", "use"}

Init ==
    /\ free = ConnOf
    /\ waiters = [p \in Pool |-> <<>>]
    /\ held = [g \in Goroutine |-> {}]
    /\ pc = [g \in Goroutine |-> "idle"]
    /\ pool = [g \in Goroutine |-> IF g \in Searcher THEN "search" ELSE "ingest"]
    /\ closed = {}
    /\ broken = {}

\* A panic in keepAlive or the return of main ends the process.
Running == pc[Keeper] # "panic" /\ pc[Quitter] # "done"

Goto(g, l) == pc' = [pc EXCEPT ![g] = l]
-----------------------------------------------------------------------------
(***************************************************************************)
(* The channels.                                                           *)
(***************************************************************************)

\* g comes to a receive from the channel of its pool.
Ask(g) ==
    /\ pc[g] = "ask"
    /\ waiters' = [waiters EXCEPT ![pool[g]] = Append(@, g)]
    /\ Goto(g, "wait")
    /\ UNCHANGED <<free, held, pool, closed, broken>>

\* Mutant: the connection is looked at, not taken.
Receive_Peeks(g, c) ==
    /\ pc[g] = "wait"
    /\ waiters[pool[g]] # <<>> /\ Head(waiters[pool[g]]) = g
    /\ c \in free[pool[g]]
    /\ waiters' = [waiters EXCEPT ![pool[g]] = Tail(@)]
    /\ held' = [held EXCEPT ![g] = @ \cup {c}]
    /\ Goto(g, IF g # Keeper THEN "use"
               ELSE IF held[g] \cup {c} = ConnOf[pool[g]] THEN "ping" ELSE "ask")
    /\ UNCHANGED <<free, pool, closed, broken>>

\* Mutant: keepAlive's loop asks for one connection more than the pool has.
Receive_More(g, c) ==
    /\ pc[g] = "wait"
    /\ waiters[pool[g]] # <<>> /\ Head(waiters[pool[g]]) = g
    /\ c \in free[pool[g]]
    /\ waiters' = [waiters EXCEPT ![pool[g]] = Tail(@)]
    /\ free' = [free EXCEPT ![pool[g]] = @ \ {c}]
    /\ held' = [held EXCEPT ![g] = @ \cup {c}]
    /\ Goto(g, IF g # Keeper THEN "use" ELSE "ask")
    /\ UNCHANGED <<pool, closed, broken>>

\* The first goroutine in line receives c.  The loops of keepAlive and Quit
\* come back for as many connections as the pool has.
Receive(g, c) ==
    /\ pc[g] = "wait"
    /\ waiters[pool[g]] # <<>> /\ Head(waiters[pool[g]]) = g
    /\ c \in free[pool[g]]
    /\ waiters' = [waiters EXCEPT ![pool[g]] = Tail(@)]
    /\ free' = [free EXCEPT ![pool[g]] = @ \ {c}]
    /\ held' = [held EXCEPT ![g] = @ \cup {c}]
    /\ Goto(g, IF g # Keeper THEN "use"
               ELSE IF held[g] \cup {c} = ConnOf[pool[g]] THEN "ping" ELSE "ask")
    /\ UNCHANGED <<pool, closed, broken>>

\* g sends c back into the channel it came from.
PutBack(g, c) ==
    /\ free' = [free EXCEPT ![pool[g]] = @ \cup {c}]
    /\ held' = [held EXCEPT ![g] = @ \ {c}]
-----------------------------------------------------------------------------
(***************************************************************************)
(* Ingest and Query.  A handler can still get a message after Stop, while  *)
(* GracefulStop has let every query end before Quit begins.                *)
(***************************************************************************)

Request(g) ==
    /\ pc[g] = "idle"
    /\ g \in Ingester \/ pc[Quitter] = "idle"
    /\ Goto(g, "ask")
    /\ UNCHANGED <<free, waiters, held, pool, closed, broken>>

\* Mutant: an error of Push returns before the connection is put back.
Use_Leaks(g, c) ==
    /\ pc[g] = "use"
    /\ c \in held[g]
    /\ Goto(g, "idle")
    /\ IF c \in broken /\ g \in Ingester
         THEN held' = [held EXCEPT ![g] = {}] /\ UNCHANGED free
         ELSE PutBack(g, c)
    /\ UNCHANGED <<waiters, pool, closed, broken>>

\* Push or Query, whose error is returned after the connection is put back.
Use(g, c) ==
    /\ pc[g] = "use"
    /\ c \in held[g]
    /\ PutBack(g, c)
    /\ Goto(g, "idle")
    /\ UNCHANGED <<waiters, pool, closed, broken>>

\* Sonic closes a connection.
Break(c) ==
    /\ c \notin closed \cup broken
    /\ broken' = broken \cup {c}
    /\ UNCHANGED <<free, waiters, held, pc, pool, closed>>
-----------------------------------------------------------------------------
(***************************************************************************)
(* keepAlive: all of the ingest pool, then all of the search pool.         *)
(***************************************************************************)

Tick ==
    /\ pc[Keeper] = "idle"
    /\ Goto(Keeper, "ask")
    /\ pool' = [pool EXCEPT ![Keeper] = "ingest"]
    /\ UNCHANGED <<free, waiters, held, closed, broken>>

\* Mutant: a broken connection is put back as it is.
Ping_Keeps(c) ==
    /\ pc[Keeper] = "ping"
    /\ c \in held[Keeper]
    /\ PutBack(Keeper, c)
    /\ UNCHANGED <<waiters, pc, pool, closed, broken>>

\* Ping one connection, replace it if it is broken, and put it back.
Ping(c) ==
    /\ pc[Keeper] = "ping"
    /\ c \in held[Keeper]
    /\ PutBack(Keeper, c)
    /\ broken' = broken \ {c}
    /\ UNCHANGED <<waiters, pc, pool, closed>>

\* The last one is back: on to the next pool, or to the next tick.
Pinged ==
    /\ pc[Keeper] = "ping"
    /\ held[Keeper] = {}
    /\ IF pool[Keeper] = "ingest"
         THEN Goto(Keeper, "ask") /\ pool' = [pool EXCEPT ![Keeper] = "search"]
         ELSE Goto(Keeper, "idle") /\ UNCHANGED pool
    /\ UNCHANGED <<free, waiters, held, closed, broken>>

\* A broken connection cannot be replaced.
Panic(c) ==
    /\ pc[Keeper] = "ping"
    /\ c \in held[Keeper] \cap broken
    /\ Goto(Keeper, "panic")
    /\ UNCHANGED <<free, waiters, held, pool, closed, broken>>
-----------------------------------------------------------------------------
(***************************************************************************)
(* Quit: one connection after the other, the ingest pool first.            *)
(***************************************************************************)

\* SIGTERM, and the queries under way have ended.
Stop ==
    /\ Stops
    /\ pc[Quitter] = "idle"
    /\ \A g \in Searcher : pc[g] = "idle"
    /\ Goto(Quitter, "ask")
    /\ UNCHANGED <<free, waiters, held, pool, closed, broken>>

Close(c) ==
    /\ pc[Quitter] = "use"
    /\ c \in held[Quitter]
    /\ held' = [held EXCEPT ![Quitter] = @ \ {c}]
    /\ closed' = closed \cup {c}
    /\ IF ConnOf[pool[Quitter]] \subseteq closed \cup {c}
         THEN IF pool[Quitter] = "ingest"
                THEN Goto(Quitter, "ask") /\ pool' = [pool EXCEPT ![Quitter] = "search"]
                ELSE Goto(Quitter, "done") /\ UNCHANGED pool
         ELSE Goto(Quitter, "ask") /\ UNCHANGED pool
    /\ UNCHANGED <<free, waiters, broken>>
-----------------------------------------------------------------------------
Work(g) ==
    \/ Ask(g)
    \/ \E c \in Conn : Receive(g, c)
    \/ g \in Client /\ \E c \in Conn : Use(g, c)
    \/ g = Keeper /\ (Pinged \/ \E c \in Conn : Ping(c))
    \/ g = Quitter /\ \E c \in Conn : Close(c)

\* The process has ended.
Ended == ~Running /\ UNCHANGED vars

Next ==
    \/ /\ Running
       /\ \/ \E g \in Goroutine : Work(g)
          \/ \E g \in Client : Request(g)
          \/ Tick \/ Stop
          \/ \E c \in Conn : Panic(c) \/ Break(c)
    \/ Ended

Spec == Init /\ [][Next]_vars

\* Goroutines that can run do, the ticker ticks, and Sonic answers a Ping, a
\* Push or a Query in the end (or the connection breaks, which is an answer).
Fairness ==
    /\ \A g \in Goroutine : WF_vars(Running /\ Work(g))
    /\ WF_vars(Running /\ Tick)

FairSpec == Spec /\ Fairness
-----------------------------------------------------------------------------
\* Channels hold connections, and every goroutine is at a step of its own kind.
TypeOK ==
    /\ free \in [Pool -> SUBSET Conn]
    /\ waiters \in [Pool -> Seq(Goroutine)]
    /\ held \in [Goroutine -> SUBSET Conn]
    /\ pc \in [Goroutine -> PC]
    /\ \A g \in Goroutine : pc[g] \in PCOf(g)
    /\ pool \in [Goroutine -> Pool]
    /\ closed \subseteq Conn
    /\ broken \subseteq Conn

\* A connection is in the hands of one goroutine, in its own pool's channel, or
\* closed: no two commands are ever written to one socket at a time, none to a
\* closed one, and none is lost to its pool (sonic.go:155-157, 107, 124, 78-80).
OneHolder ==
    /\ \A c \in Conn : \/ c \in closed \/ \E p \in Pool : c \in free[p]
                       \/ \E g \in Goroutine : c \in held[g]
    /\ \A g, h \in Goroutine : g # h => held[g] \cap held[h] = {}
    /\ \A g \in Goroutine, p \in Pool : held[g] \cap free[p] = {}
    /\ \A p \in Pool : free[p] \subseteq ConnOf[p] \ closed
    /\ \A g \in Goroutine : held[g] \subseteq ConnOf[pool[g]] \ closed

\* A goroutine that will give a connection of pool p back holds one.
InHand(p) ==
    \E h \in Goroutine :
        /\ (h \in Client /\ pc[h] = "use") \/ (h = Keeper /\ pc[h] = "ping")
        /\ held[h] # {} /\ held[h] \subseteq ConnOf[p] /\ pool[h] = p

\* Nobody waits for ever for everybody else: as long as Quit is not called, a
\* goroutine that waits stands in line, the first of the line is one that would
\* take a connection, and there is one to take, or one in the hands of a
\* goroutine that waits for nobody.  keepAlive, which takes all of a pool one by
\* one and gives nothing back before it has them all, and the clients, who take
\* one each, never wait for each other in a circle (sonic.go:106-109, 155-157).
NobodyStarves ==
    pc[Quitter] = "idle" =>
        \A g \in Goroutine : pc[g] = "wait" =>
            LET line == waiters[pool[g]]
            IN  /\ \E i \in 1 .. Len(line) : line[i] = g
                /\ pc[Head(line)] = "wait" /\ pool[Head(line)] = pool[g]
                /\ free[pool[g]] # {} \/ pc[Keeper] = "panic" \/ InHand(pool[g])

\* As long as the process is not told to stop, whoever asks for a connection
\* gets one: keepAlive's taking all of a pool starves nobody.
Served ==
    \A g \in Client :
        pc[g] = "ask" ~> pc[g] = "use" \/ ~Running \/ pc[Quitter] # "idle"

\* As long as the process is not told to stop, a connection that broke is
\* replaced, or the process panics and is restarted.
Healed ==
    \A c \in Conn :
        c \in broken ~> c \notin broken \/ ~Running \/ pc[Quitter] # "idle"

\* Quit drains both pools (sonic.go:76, 87): the process ends.
QuitEnds == pc[Quitter] = "ask" ~> ~Running
==============================================================================
