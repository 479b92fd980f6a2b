--------------------------- MODULE SonicPoolProofs ---------------------------
(***************************************************************************)
(* Theorems of SonicPool, for pools of any size and any number of clients. *)
(***************************************************************************)
EXTENDS SonicPool, TLAPS

\* What a goroutine holds at each point: nothing while it is idle, and nothing
\* while it waits unless it is keepAlive, which collects the whole pool.
Hands ==
    \A g \in Goroutine :
        /\ pc[g] = "idle" => held[g] = {}
        /\ g # Keeper /\ pc[g] \in {"ask", "wait"} => held[g] = {}
        /\ pc[g] = "use" => \E c \in Conn : held[g] = {c}

\* The inductive invariant.
IInv == TypeOK /\ OneHolder /\ Hands

USE PoolAssumption DEF Client, Goroutine, Conn, Pool

\* Each pool has its own connections.
LEMMA ConnOfType == ConnOf \in [Pool -> SUBSET Conn]
  BY DEF ConnOf

\* Some of them, and every connection is of a pool.
LEMMA ConnOfPools ==
  /\ \A p \in Pool : IsFiniteSet(ConnOf[p]) /\ ConnOf[p] # {}
  /\ \A c \in Conn : \E p \in Pool : c \in ConnOf[p]
  BY DEF ConnOf

\* Both channels are full and nobody holds a connection.
LEMMA InitIInv == Init => IInv
<1> SUFFICES ASSUME Init PROVE IInv
  OBVIOUS
<1>1. TypeOK BY ConnOfType DEF Init, TypeOK, PC, PCOf
<1>2. OneHolder BY ConnOfType, ConnOfPools DEF Init, OneHolder
<1>3. Hands BY DEF Init, Hands
<1> QED BY <1>1, <1>2, <1>3 DEF IInv

\* The channels and the local variables keep their types and their connections.
LEMMA Inductive == IInv /\ [Next]_vars => IInv'
<1> SUFFICES ASSUME IInv, [Next]_vars PROVE IInv'
  OBVIOUS
<1> USE ConnOfType DEF IInv, Goto, PutBack, PC, PCOf
<1>1. ASSUME NEW g \in Goroutine, Ask(g) PROVE IInv'
  <2>1. TypeOK' BY <1>1 DEF TypeOK, Ask
  <2>2. OneHolder' BY <1>1 DEF OneHolder, Ask
  <2>3. Hands' BY <1>1 DEF TypeOK, Hands, Ask
  <2> QED BY <2>1, <2>2, <2>3
<1>2. ASSUME NEW g \in Goroutine, NEW c \in Conn, Receive(g, c) PROVE IInv'
  <2>1. TypeOK' BY <1>2 DEF TypeOK, Receive
  <2>2. OneHolder'
    <3>1. /\ held' = [held EXCEPT ![g] = @ \cup {c}]
          /\ free' = [free EXCEPT ![pool[g]] = @ \ {c}]
          /\ UNCHANGED <<pool, closed>>
          /\ c \in free[pool[g]]
      BY <1>2 DEF Receive
    <3>2. \A p \in Pool : free'[p] = IF p = pool[g] THEN free[p] \ {c} ELSE free[p]
      BY <3>1 DEF TypeOK
    <3>3. \A h \in Goroutine : held'[h] = IF h = g THEN held[h] \cup {c} ELSE held[h]
      BY <3>1 DEF TypeOK
    <3>4. \A p \in Pool : p # pool[g] => c \notin free[p]
      BY <3>1 DEF TypeOK, OneHolder, ConnOf
    <3> QED BY <3>1, <3>2, <3>3, <3>4, SMTT(30) DEF OneHolder, TypeOK
  <2>3. Hands'
    <3>1. pc'[g] \in {"use", "ping", "ask"} /\ (g # Keeper <=> pc'[g] = "use")
      BY <1>2 DEF TypeOK, Receive
    <3>2. g # Keeper => held'[g] = {c}
      BY <1>2 DEF TypeOK, Hands, Receive
    <3>3. \A h \in Goroutine \ {g} : pc'[h] = pc[h] /\ held'[h] = held[h]
      BY <1>2 DEF TypeOK, Receive
    <3> QED BY <3>1, <3>2, <3>3 DEF Hands
  <2> QED BY <2>1, <2>2, <2>3
<1>3. ASSUME NEW g \in Client, NEW c \in Conn, Use(g, c) PROVE IInv'
  <2>1. TypeOK' BY <1>3 DEF TypeOK, Use
  <2>2. OneHolder' BY <1>3 DEF TypeOK, OneHolder, Use
  <2>3. Hands'
    <3>1. pc'[g] = "idle" /\ held'[g] = {}
      BY <1>3 DEF TypeOK, Hands, Use
    <3>2. \A h \in Goroutine \ {g} : pc'[h] = pc[h] /\ held'[h] = held[h]
      BY <1>3 DEF TypeOK, Use
    <3> QED BY <3>1, <3>2 DEF Hands
  <2> QED BY <2>1, <2>2, <2>3
<1>4. CASE Pinged
  <2>1. TypeOK' BY <1>4 DEF TypeOK, Pinged
  <2>2. OneHolder' BY <1>4 DEF TypeOK, OneHolder, Pinged
  <2>3. Hands' BY <1>4 DEF TypeOK, Hands, Pinged
  <2> QED BY <2>1, <2>2, <2>3
<1>5. ASSUME NEW c \in Conn, Ping(c) PROVE IInv'
  <2>1. TypeOK' BY <1>5 DEF TypeOK, Ping
  <2>2. OneHolder' BY <1>5 DEF TypeOK, OneHolder, Ping
  <2>3. Hands' BY <1>5 DEF TypeOK, Hands, Ping
  <2> QED BY <2>1, <2>2, <2>3
<1>6. ASSUME NEW c \in Conn, Close(c) PROVE IInv'
  <2>1. TypeOK' BY <1>6 DEF TypeOK, Close
  <2>2. OneHolder' BY <1>6 DEF TypeOK, OneHolder, Hands, Close
  <2>3. Hands' BY <1>6 DEF TypeOK, Hands, Close
  <2> QED BY <2>1, <2>2, <2>3
<1>7. ASSUME NEW g \in Client, Request(g) PROVE IInv'
  BY <1>7 DEF TypeOK, OneHolder, Hands, Request
<1>8. CASE Tick
  <2>1. TypeOK' BY <1>8 DEF TypeOK, Tick
  <2>2. OneHolder' BY <1>8 DEF TypeOK, OneHolder, Hands, Tick
  <2>3. Hands' BY <1>8 DEF TypeOK, Hands, Tick
  <2> QED BY <2>1, <2>2, <2>3
<1>9. CASE Stop
  <2>1. TypeOK' BY <1>9 DEF TypeOK, Stop
  <2>2. OneHolder' BY <1>9 DEF TypeOK, OneHolder, Stop
  <2>3. Hands' BY <1>9 DEF TypeOK, Hands, Stop
  <2> QED BY <2>1, <2>2, <2>3
<1>10. ASSUME NEW c \in Conn, Panic(c) PROVE IInv'
  <2>1. TypeOK' BY <1>10 DEF TypeOK, Panic
  <2>2. OneHolder' BY <1>10 DEF TypeOK, OneHolder, Panic
  <2>3. Hands' BY <1>10 DEF TypeOK, Hands, Panic
  <2> QED BY <2>1, <2>2, <2>3
<1>11. ASSUME NEW c \in Conn, Break(c) PROVE IInv'
  <2>1. TypeOK' BY <1>11 DEF TypeOK, Break
  <2>2. OneHolder' BY <1>11 DEF OneHolder, Break
  <2>3. Hands' BY <1>11 DEF Hands, Break
  <2> QED BY <2>1, <2>2, <2>3
<1>12. CASE UNCHANGED vars
  <2>1. TypeOK' BY <1>12 DEF TypeOK, vars
  <2>2. OneHolder' BY <1>12 DEF OneHolder, vars
  <2>3. Hands' BY <1>12 DEF Hands, vars
  <2> QED BY <2>1, <2>2, <2>3
<1> QED
  BY <1>1, <1>2, <1>3, <1>4, <1>5, <1>6, <1>7, <1>8, <1>9, <1>10, <1>11, <1>12
  DEF Next, Work, Ended

\* What every reachable state satisfies.
LEMMA Invariance == Spec => []IInv
  BY InitIInv, Inductive, PTL DEF Spec

\* Channels hold connections, clients never come to keepAlive's or Quit's steps.
THEOREM TypeCorrect == Spec => []TypeOK
  BY Invariance, PTL DEF IInv

\* Whatever the sizes and however keepAlive, clients and Quit interleave, a
\* connection is used by one goroutine at a time and never after it is closed.
THEOREM ConnectionsAreExclusive == Spec => []OneHolder
  BY Invariance, PTL DEF IInv
-----------------------------------------------------------------------------
(***************************************************************************)
(* Nobody waits for ever for everybody else.                               *)
(***************************************************************************)

\* keepAlive comes back to a channel only while it has not all of the pool, and
\* nothing is closed before Quit is called.
Collecting ==
    /\ pc[Keeper] \in {"ask", "wait"} => held[Keeper] # ConnOf[pool[Keeper]]
    /\ pc[Quitter] = "idle" => closed = {}

\* Who stands in line at a channel waits for a connection of its pool.
InLine ==
    \A p \in Pool : \A i \in 1 .. Len(waiters[p]) :
        pc[waiters[p][i]] = "wait" /\ pool[waiters[p][i]] = p

\* Each once, or a step of the first would leave the second without its turn.
Once ==
    \A p \in Pool : \A i, j \in 1 .. Len(waiters[p]) : i # j => waiters[p][i] # waiters[p][j]

\* And who waits stands in line.
Registered ==
    \A g \in Goroutine : pc[g] = "wait" =>
        \E i \in 1 .. Len(waiters[pool[g]]) : waiters[pool[g]][i] = g

Line == Collecting /\ InLine /\ Once /\ Registered

\* Nobody is in line.
LEMMA InitLine == Init => Line
  BY ConnOfPools DEF Init, Line, Collecting, InLine, Once, Registered

\* A step that leaves the lines alone, of a goroutine that neither waits nor
\* comes to wait.
LEMMA LineFrame ==
  ASSUME TypeOK, InLine, Once, Registered, UNCHANGED waiters, NEW g \in Goroutine,
         pc[g] # "wait", pc'[g] # "wait",
         \A h \in Goroutine \ {g} : pc'[h] = pc[h] /\ pool'[h] = pool[h]
  PROVE  InLine' /\ Once' /\ Registered'
<1>1. \A p \in Pool : \A i \in 1 .. Len(waiters[p]) : waiters[p][i] \in Goroutine \ {g}
  BY DEF TypeOK, InLine
<1>2. InLine'
  BY <1>1 DEF InLine
<1>3. Once'
  BY DEF Once
<1>4. Registered'
  BY DEF Registered
<1> QED BY <1>2, <1>3, <1>4

\* A goroutine gets to the end of its line.
LEMMA AskLine == ASSUME IInv, Line, NEW g \in Goroutine, Ask(g) PROVE Line'
<1> DEFINE p == pool[g]
           w == waiters[p]
<1>1. /\ pc[g] = "ask" /\ p \in Pool /\ w \in Seq(Goroutine) /\ Len(w) \in Nat
      /\ waiters' = [waiters EXCEPT ![p] = Append(w, g)]
      /\ pc' = [pc EXCEPT ![g] = "wait"] /\ UNCHANGED <<pool, held, closed>>
  BY DEF IInv, TypeOK, Ask, Goto
<1>2. /\ waiters'[p] = Append(w, g) /\ Len(waiters'[p]) = Len(w) + 1
      /\ waiters'[p][Len(w) + 1] = g
      /\ \A i \in 1 .. Len(w) : waiters'[p][i] = w[i]
      /\ \A q \in Pool : q # p => waiters'[q] = waiters[q]
  BY <1>1 DEF IInv, TypeOK
<1>3. /\ pc'[g] = "wait" /\ pool' = pool
      /\ \A h \in Goroutine : h # g => pc'[h] = pc[h]
  BY <1>1 DEF IInv, TypeOK
<1>4. \A q \in Pool : \A i \in 1 .. Len(waiters[q]) : waiters[q][i] \in Goroutine /\ waiters[q][i] # g
  BY <1>1 DEF IInv, TypeOK, Line, InLine
<1> HIDE DEF p, w
<1>5. InLine'
  <2> SUFFICES ASSUME NEW q \in Pool, NEW i \in 1 .. Len(waiters'[q])
               PROVE  pc'[waiters'[q][i]] = "wait" /\ pool'[waiters'[q][i]] = q
    BY DEF InLine
  <2>1. CASE q # p
    BY <1>2, <1>3, <1>4, <2>1 DEF Line, InLine
  <2>2. CASE q = p /\ i = Len(w) + 1
    BY <1>2, <1>3, <2>2 DEF p
  <2>3. CASE q = p /\ i # Len(w) + 1
    <3>1. i \in 1 .. Len(w) /\ waiters'[q][i] = w[i] /\ w = waiters[p]
      BY <1>1, <1>2, <2>3 DEF w
    <3> QED BY <1>3, <1>4, <2>3, <3>1 DEF Line, InLine
  <2> QED BY <2>1, <2>2, <2>3
<1>6. Once'
  <2> SUFFICES ASSUME NEW q \in Pool, NEW i \in 1 .. Len(waiters'[q]),
                      NEW j \in 1 .. Len(waiters'[q]), i # j
               PROVE  waiters'[q][i] # waiters'[q][j]
    BY DEF Once
  <2>1. CASE q # p
    BY <1>2, <2>1 DEF Line, Once
  <2>2. CASE q = p
    <3>1. w = waiters[p] /\ \A k \in 1 .. Len(w) + 1 : k \in 1 .. Len(w) \/ k = Len(w) + 1
      BY <1>1 DEF w
    <3>2. \A k \in 1 .. Len(w) : w[k] # g
      BY <1>1, <1>4, <3>1
    <3>3. CASE i \in 1 .. Len(w) /\ j \in 1 .. Len(w)
      <4>1. w[i] # w[j]
        BY <1>1, <3>1, <3>3 DEF Line, Once
      <4> QED BY <1>2, <2>2, <3>3, <4>1
    <3>4. CASE i = Len(w) + 1
      <4>1. j \in 1 .. Len(w)
        BY <1>2, <2>2, <3>1, <3>4
      <4> QED BY <1>2, <2>2, <3>2, <3>4, <4>1
    <3>5. CASE j = Len(w) + 1
      <4>1. i \in 1 .. Len(w)
        BY <1>2, <2>2, <3>1, <3>5
      <4> QED BY <1>2, <2>2, <3>2, <3>5, <4>1
    <3> QED BY <1>2, <2>2, <3>1, <3>3, <3>4, <3>5
  <2> QED BY <2>1, <2>2
<1>7. Registered'
  <2> SUFFICES ASSUME NEW h \in Goroutine, pc'[h] = "wait"
               PROVE  \E i \in 1 .. Len(waiters'[pool[h]]) : waiters'[pool[h]][i] = h
    BY <1>3 DEF Registered
  <2>1. CASE h = g
    <3>1. Len(w) + 1 \in 1 .. Len(waiters'[p])
      BY <1>1, <1>2
    <3> QED BY <1>2, <2>1, <3>1 DEF p
  <2>2. CASE h # g
    <3>1. PICK i \in 1 .. Len(waiters[pool[h]]) : waiters[pool[h]][i] = h
      BY <1>3, <2>2 DEF Line, Registered
    <3>2. pool[h] \in Pool
      BY DEF IInv, TypeOK
    <3>3. i \in 1 .. Len(waiters'[pool[h]]) /\ waiters'[pool[h]][i] = h
      <4>1. CASE pool[h] = p
        BY <1>1, <1>2, <3>1, <4>1 DEF w
      <4>2. CASE pool[h] # p
        BY <1>2, <3>1, <3>2, <4>2
      <4> QED BY <4>1, <4>2
    <3> QED BY <3>3
  <2> QED BY <2>1, <2>2
<1>8. Collecting'
  BY <1>1, <1>3 DEF Line, Collecting, Goroutine
<1> QED BY <1>5, <1>6, <1>7, <1>8 DEF Line

\* The first in line leaves it with a connection.
LEMMA ReceiveLine ==
  ASSUME IInv, Line, NEW g \in Goroutine, NEW c \in Conn, Receive(g, c) PROVE Line'
<1> DEFINE p == pool[g]
           w == waiters[p]
<1>1. /\ pc[g] = "wait" /\ p \in Pool /\ w \in Seq(Goroutine) /\ w # <<>> /\ Head(w) = g
      /\ waiters' = [waiters EXCEPT ![p] = Tail(w)]
      /\ UNCHANGED <<pool, closed>>
      /\ held' = [held EXCEPT ![g] = @ \cup {c}]
      /\ pc' = [pc EXCEPT ![g] = IF g # Keeper THEN "use"
                   ELSE IF held[g] \cup {c} = ConnOf[p] THEN "ping" ELSE "ask"]
  BY DEF IInv, TypeOK, Receive, Goto
<1>2. /\ Len(w) \in Nat \ {0} /\ w[1] = g
      /\ waiters'[p] = Tail(w) /\ Len(waiters'[p]) = Len(w) - 1
      /\ \A i \in 1 .. Len(w) - 1 : waiters'[p][i] = w[i + 1]
      /\ \A q \in Pool : q # p => waiters'[q] = waiters[q]
  BY <1>1 DEF IInv, TypeOK
<1>3. /\ pc'[g] # "wait" /\ pool' = pool
      /\ \A h \in Goroutine : h # g => pc'[h] = pc[h]
  BY <1>1 DEF IInv, TypeOK
<1>4. \A q \in Pool : \A i \in 1 .. Len(waiters[q]) : waiters[q][i] \in Goroutine
  BY DEF IInv, TypeOK
<1>5. \A i \in 1 .. Len(w) - 1 : i + 1 \in 1 .. Len(w) /\ w[i + 1] # g
  BY <1>1, <1>2 DEF Line, Once
<1>6. \A q \in Pool : q # p => \A i \in 1 .. Len(waiters[q]) : waiters[q][i] # g
  BY DEF Line, InLine
<1>7. w = waiters[p]
  OBVIOUS
<1>8. Collecting'
  BY <1>1 DEF IInv, TypeOK, Line, Collecting
<1> HIDE DEF p, w
<1>9. InLine'
  <2> SUFFICES ASSUME NEW q \in Pool, NEW i \in 1 .. Len(waiters'[q])
               PROVE  pc'[waiters'[q][i]] = "wait" /\ pool'[waiters'[q][i]] = q
    BY DEF InLine
  <2>1. CASE q # p
    BY <1>2, <1>3, <1>4, <1>6, <2>1 DEF Line, InLine
  <2>2. CASE q = p
    <3>1. i + 1 \in 1 .. Len(w) /\ waiters'[q][i] = waiters[q][i + 1] /\ waiters[q][i + 1] # g
      BY <1>2, <1>5, <1>7, <2>2
    <3> QED BY <1>3, <1>4, <1>7, <2>2, <3>1 DEF Line, InLine
  <2> QED BY <2>1, <2>2
<1>10. Once'
  <2> SUFFICES ASSUME NEW q \in Pool, NEW i \in 1 .. Len(waiters'[q]),
                      NEW j \in 1 .. Len(waiters'[q]), i # j
               PROVE  waiters'[q][i] # waiters'[q][j]
    BY DEF Once
  <2>1. CASE q # p
    BY <1>2, <2>1 DEF Line, Once
  <2>2. CASE q = p
    <3>1. i \in 1 .. Len(w) - 1 /\ j \in 1 .. Len(w) - 1 /\ i + 1 # j + 1
      BY <1>2, <2>2
    <3>2. w[i + 1] # w[j + 1]
      BY <1>1, <1>5, <1>7, <3>1 DEF Line, Once
    <3> QED BY <1>2, <2>2, <3>1, <3>2
  <2> QED BY <2>1, <2>2
<1>11. Registered'
  <2> SUFFICES ASSUME NEW h \in Goroutine, pc'[h] = "wait"
               PROVE  \E i \in 1 .. Len(waiters'[pool[h]]) : waiters'[pool[h]][i] = h
    BY <1>3 DEF Registered
  <2>1. h # g /\ pc[h] = "wait" /\ pool[h] \in Pool
    BY <1>3 DEF IInv, TypeOK
  <2>2. PICK i \in 1 .. Len(waiters[pool[h]]) : waiters[pool[h]][i] = h
    BY <2>1 DEF Line, Registered
  <2>3. CASE pool[h] = p
    <3>1. i # 1 /\ i - 1 \in 1 .. Len(w) - 1 /\ (i - 1) + 1 = i
      BY <1>2, <1>7, <2>1, <2>2, <2>3
    <3>2. waiters'[p][i - 1] = h /\ i - 1 \in 1 .. Len(waiters'[p])
      BY <1>2, <1>7, <2>2, <2>3, <3>1
    <3> QED BY <2>3, <3>2
  <2>4. CASE pool[h] # p
    BY <1>2, <2>1, <2>2, <2>4
  <2> QED BY <2>3, <2>4
<1> QED BY <1>8, <1>9, <1>10, <1>11 DEF Line

\* keepAlive has taken all of a pool only when it goes on to ping it, and the
\* lines stay in order.
LEMMA LineInductive == IInv /\ Line /\ [Next]_vars => Line'
<1> SUFFICES ASSUME IInv, Line, [Next]_vars PROVE Line'
  OBVIOUS
<1> USE DEF Goto, PutBack
<1>0. /\ TypeOK /\ Hands /\ Collecting /\ InLine /\ Once /\ Registered
      /\ \A p \in Pool : ConnOf[p] # {}
  BY ConnOfPools DEF IInv, Line
<1>1. ASSUME NEW g \in Client, NEW c \in Conn, Use(g, c) PROVE Line'
  <2>1. /\ UNCHANGED waiters /\ pc[g] # "wait" /\ pc'[g] # "wait"
        /\ \A h \in Goroutine \ {g} : pc'[h] = pc[h] /\ pool'[h] = pool[h]
    BY <1>0, <1>1 DEF TypeOK, Use
  <2>2. Collecting'
    BY <1>0, <1>1 DEF TypeOK, Collecting, Use
  <2> QED BY <1>0, <2>1, <2>2, LineFrame DEF Line
<1>2. CASE Pinged
  <2>1. /\ UNCHANGED waiters /\ pc[Keeper] # "wait" /\ pc'[Keeper] # "wait"
        /\ \A h \in Goroutine \ {Keeper} : pc'[h] = pc[h] /\ pool'[h] = pool[h]
    BY <1>0, <1>2 DEF TypeOK, Pinged
  <2>2. Collecting'
    BY <1>0, <1>2 DEF TypeOK, Collecting, Pinged
  <2> QED BY <1>0, <2>1, <2>2, LineFrame DEF Line
<1>3. ASSUME NEW c \in Conn, Ping(c) PROVE Line'
  <2>1. /\ UNCHANGED waiters /\ pc[Keeper] # "wait" /\ pc'[Keeper] # "wait"
        /\ \A h \in Goroutine \ {Keeper} : pc'[h] = pc[h] /\ pool'[h] = pool[h]
    BY <1>0, <1>3 DEF TypeOK, Ping
  <2>2. Collecting'
    BY <1>0, <1>3 DEF TypeOK, Collecting, Ping
  <2> QED BY <1>0, <2>1, <2>2, LineFrame DEF Line
<1>4. ASSUME NEW c \in Conn, Close(c) PROVE Line'
  <2>1. /\ UNCHANGED waiters /\ pc[Quitter] # "wait" /\ pc'[Quitter] # "wait"
        /\ \A h \in Goroutine \ {Quitter} : pc'[h] = pc[h] /\ pool'[h] = pool[h]
    BY <1>0, <1>4 DEF TypeOK, Close
  <2>2. Collecting'
    BY <1>0, <1>4 DEF TypeOK, Collecting, Close
  <2> QED BY <1>0, <2>1, <2>2, LineFrame DEF Line
<1>5. ASSUME NEW g \in Client, Request(g) PROVE Line'
  <2>1. /\ UNCHANGED waiters /\ pc[g] # "wait" /\ pc'[g] # "wait"
        /\ \A h \in Goroutine \ {g} : pc'[h] = pc[h] /\ pool'[h] = pool[h]
    BY <1>0, <1>5 DEF TypeOK, Request
  <2>2. Collecting'
    BY <1>0, <1>5 DEF TypeOK, Collecting, Request
  <2> QED BY <1>0, <2>1, <2>2, LineFrame DEF Line
<1>6. CASE Tick
  <2>1. /\ UNCHANGED waiters /\ pc[Keeper] # "wait" /\ pc'[Keeper] # "wait"
        /\ \A h \in Goroutine \ {Keeper} : pc'[h] = pc[h] /\ pool'[h] = pool[h]
    BY <1>0, <1>6 DEF TypeOK, Tick
  <2>2. Collecting'
    BY <1>0, <1>6 DEF TypeOK, Hands, Collecting, Tick
  <2> QED BY <1>0, <2>1, <2>2, LineFrame DEF Line
<1>7. CASE Stop
  <2>1. /\ UNCHANGED waiters /\ pc[Quitter] # "wait" /\ pc'[Quitter] # "wait"
        /\ \A h \in Goroutine \ {Quitter} : pc'[h] = pc[h] /\ pool'[h] = pool[h]
    BY <1>0, <1>7 DEF TypeOK, Stop
  <2>2. Collecting'
    BY <1>0, <1>7 DEF TypeOK, Collecting, Stop
  <2> QED BY <1>0, <2>1, <2>2, LineFrame DEF Line
<1>8. ASSUME NEW c \in Conn, Panic(c) PROVE Line'
  <2>1. /\ UNCHANGED waiters /\ pc[Keeper] # "wait" /\ pc'[Keeper] # "wait"
        /\ \A h \in Goroutine \ {Keeper} : pc'[h] = pc[h] /\ pool'[h] = pool[h]
    BY <1>0, <1>8 DEF TypeOK, Panic
  <2>2. Collecting'
    BY <1>0, <1>8 DEF TypeOK, Collecting, Panic
  <2> QED BY <1>0, <2>1, <2>2, LineFrame DEF Line
<1>9. ASSUME NEW c \in Conn, Break(c) PROVE Line'
  BY <1>9 DEF Line, Collecting, InLine, Once, Registered, Break
<1>10. CASE UNCHANGED vars
  BY <1>10 DEF Line, Collecting, InLine, Once, Registered, vars
<1> QED
  BY <1>1, <1>2, <1>3, <1>4, <1>5, <1>6, <1>7, <1>8, <1>9, <1>10, AskLine, ReceiveLine
  DEF Next, Work, Ended

\* keepAlive, which takes all of a pool one by one, and the clients, who take
\* one each, never wait for each other in a circle (sonic.go:100-176): what
\* liveness of the pools (Served) rests on.
THEOREM PoolsNeverStick == Spec => []NobodyStarves
<1>1. IInv /\ Line => NobodyStarves
  <2> SUFFICES ASSUME IInv, Line, pc[Quitter] = "idle", NEW g \in Goroutine, pc[g] = "wait"
               PROVE  LET line == waiters[pool[g]]
                      IN  /\ \E i \in 1 .. Len(line) : line[i] = g
                          /\ pc[Head(line)] = "wait" /\ pool[Head(line)] = pool[g]
                          /\ free[pool[g]] # {} \/ pc[Keeper] = "panic" \/ InHand(pool[g])
    BY DEF NobodyStarves
  <2> DEFINE p == pool[g]
             line == waiters[p]
  <2>1. p \in Pool /\ line \in Seq(Goroutine) /\ Len(line) \in Nat
    BY DEF IInv, TypeOK
  <2>2. PICK i \in 1 .. Len(line) : line[i] = g
    BY DEF Line, Registered
  <2>3. 1 \in 1 .. Len(line) /\ Head(line) = line[1]
    BY <2>1, <2>2
  <2>4. pc[Head(line)] = "wait" /\ pool[Head(line)] = p
    BY <2>1, <2>3 DEF Line, InLine
  <2>5. ASSUME free[p] = {}, pc[Keeper] # "panic" PROVE InHand(p)
    <3>1. /\ closed = {} /\ held[Quitter] = {}
          /\ \A c \in ConnOf[p] : \E h \in Goroutine : c \in held[h]
      <4>1. closed = {} /\ held[Quitter] = {}
        BY DEF IInv, Hands, Line, Collecting
      <4>2. ASSUME NEW c \in ConnOf[p] PROVE \E h \in Goroutine : c \in held[h]
        <5>1. c \in Conn /\ \A q \in Pool : c \in free[q] => q = p
          BY <2>1, ConnOfType DEF IInv, OneHolder, ConnOf
        <5> QED BY <2>5, <4>1, <5>1 DEF IInv, OneHolder
      <4> QED BY <4>1, <4>2
    <3>2. \A h \in Goroutine : held[h] # {} /\ held[h] \cap ConnOf[p] # {} =>
              held[h] \subseteq ConnOf[p] /\ pool[h] = p
      <4>1. \A q, r \in Pool : \A c \in ConnOf[q] \cap ConnOf[r] : q = r
        BY DEF ConnOf
      <4>2. \A h \in Goroutine : pool[h] \in Pool /\ held[h] \subseteq ConnOf[pool[h]]
        BY DEF IInv, TypeOK, OneHolder
      <4> QED BY <2>1, <4>1, <4>2
    <3>3. ASSUME NEW h \in Client, NEW c \in ConnOf[p], c \in held[h] PROVE InHand(p)
      <4>1. pc[h] = "use"
        BY <3>3 DEF IInv, TypeOK, Hands, PCOf
      <4>2. held[h] # {} /\ held[h] \subseteq ConnOf[p] /\ pool[h] = p
        BY <3>2, <3>3
      <4>3. h \in Goroutine /\ h \in Client
        BY <3>3 DEF Goroutine
      <4> QED BY <4>1, <4>2, <4>3 DEF InHand
    <3>4. ASSUME \A c \in ConnOf[p] : c \in held[Keeper] PROVE InHand(p)
      <4>1. PICK c : c \in ConnOf[p]
        BY <2>1, ConnOfPools
      <4>2. held[Keeper] = ConnOf[p] /\ pool[Keeper] = p
        BY <3>2, <3>4, <4>1
      <4>3. pc[Keeper] = "ping"
        BY <2>5, <4>1, <4>2 DEF IInv, TypeOK, Hands, PCOf, PC, Line, Collecting
      <4> QED BY <4>1, <4>2, <4>3 DEF InHand
    <3> QED BY <3>1, <3>3, <3>4
  <2> QED BY <2>2, <2>4, <2>5
<1>2. Spec => []Line
  <2>1. IInv /\ Line /\ [Next]_vars => Line'
    BY LineInductive
  <2> QED BY <2>1, InitLine, Invariance, PTL DEF Spec
<1> QED BY <1>1, <1>2, Invariance, PTL
==============================================================================
