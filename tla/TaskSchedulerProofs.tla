------------------------ MODULE TaskSchedulerProofs ------------------------
(***************************************************************************)
(* Theorems of TaskScheduler, for any schedule, any number of nodes and    *)
(* whatever fails or crashes.                                              *)
(***************************************************************************)
EXTENDS TaskScheduler, FiniteSetTheorems, TLAPS

RowType ==
    /\ now \in Nat
    /\ next \in [Task -> Nat \cup {NoRow}]
    /\ last \in Nat \cup {NoRow}
    /\ crawled \subseteq Nat
    /\ crashes \in 0 .. MaxCrashes

ProducerType ==
    /\ pc \in {"wait", "crawl", "push", "find", "create", "decide", "save"}
    /\ turn \in 0 .. Len(Schedule)
    /\ pc \in {"find", "create", "decide", "save"} => turn > 0
    /\ stm \in [next : Nat, id : BOOLEAN]
    /\ crawler \in [last : Nat, id : BOOLEAN]
    /\ count \in 0 .. Batch

QueueType ==
    /\ task \in Seq(Task) /\ Len(task) <= MaxMsgs
    /\ sent \in Seq(Nat) /\ Len(sent) = Len(task)
    /\ queued \subseteq Published
    /\ owner \in [Msg -> Node \cup {NoMsg}]
    /\ attempts \in [Msg -> Nat]

HandlerType ==
    /\ hand \in [Node -> (Msg \X Nat) \cup {NoMsg}]
    /\ runs \subseteq Node \X Msg \X Nat
    /\ started \in [Msg -> Nat]
    /\ done \subseteq Published
    /\ lost \subseteq Msg

\* Only published messages have an owner, are handled, or have tasks under way.
OnlyPublished ==
    /\ \A m \in Msg : owner[m] # NoMsg => m \in Published
    /\ \A n \in Node : hand[n] # NoMsg => hand[n][1] \in Published
    /\ \A r \in runs : r[2] \in Published

Control == RowType /\ ProducerType /\ QueueType /\ HandlerType /\ OnlyPublished

USE NodeAssumption DEF Msg, Published

\* The sizes are natural numbers.
LEMMA Sizes ==
  /\ Len(Schedule) \in Nat /\ Len(Schedule) > 0
  /\ Batch \in Nat /\ MaxMsgs \in Nat
  BY ScheduleAssumption

\* The parts are what TypeOK says.
LEMMA Parts == Control => TypeOK
  BY DEF Control, TypeOK, RowType, ProducerType, QueueType, HandlerType

\* A task's turn is that of a task of the schedule.
LEMMA TurnOfTask ==
  ASSUME ProducerType, pc \in {"find", "create", "decide", "save"}
  PROVE  T \in Task
  BY Sizes DEF ProducerType, T, Task

\* Going on to the next task, or to the next tick, keeps the producer's turn
\* within the schedule.
LEMMA TurnGoesOn ==
  ASSUME ProducerType, pc \in {"find", "create", "decide", "save"}, ReturnTask
  PROVE  /\ pc' \in {"wait", "find"}
         /\ turn' \in 0 .. Len(Schedule)
         /\ pc' = "find" => turn' > 0
  <1> DEFINE n == Len(Schedule)
  <1>1. n \in Nat /\ turn \in 0 .. n /\ turn > 0
    BY Sizes DEF ProducerType
  <1>2. \/ turn < n /\ pc' = "find" /\ turn' = turn + 1
        \/ pc' = "wait" /\ turn' = 0
    BY DEF ReturnTask
  <1> HIDE DEF n
  <1>3. /\ pc' \in {"wait", "find"}
        /\ turn' \in 0 .. n
        /\ pc' = "find" => turn' > 0
    BY <1>1, <1>2
  <1> QED BY <1>3 DEF n

\* Rounding down stays a natural number.
LEMMA RoundDown ==
  ASSUME NEW x \in Nat, NEW d \in Nat \ {0}
  PROVE  x - (x % d) \in Nat
  OBVIOUS

\* The product of two natural numbers is one.
LEMMA Product == \A x, y \in Nat : x * y \in Nat
  OBVIOUS

\* NextRun answers a time.
LEMMA NextRunType ==
  ASSUME NEW t \in Task, NEW n \in Nat PROVE NextRunAt(t, n) \in Nat
  <1> DEFINE ahead == Ahead[t] * Hour
             at == At[t] * Hour
             then == n + ahead
  <1>1. ahead \in Nat /\ at \in Nat
    BY Product, ScheduleAssumption
  <1>2. NextRunAt(t, n) = IF t \in Daily THEN (then - (then % Day)) + at
                                        ELSE then - (then % Hour)
    BY DEF NextRunAt
  <1> HIDE DEF ahead, at
  <1>3. then \in Nat
    BY <1>1
  <1> HIDE DEF then
  <1>4. then - (then % Day) \in Nat /\ then - (then % Hour) \in Nat
    BY <1>3, RoundDown, ScheduleAssumption
  <1>5. (then - (then % Day)) + at \in Nat
    BY <1>1, <1>4
  <1> QED BY <1>2, <1>4, <1>5

\* Every queue is empty and the producer waits.
LEMMA InitControl == Init => Control
  BY Sizes DEF Init, Control, RowType, ProducerType, QueueType, HandlerType, OnlyPublished

\* What the producer reads from a row, or puts in its place, is a model.
LEMMA ModelType ==
  /\ \A n \in Nat, b \in BOOLEAN : [last |-> n, id |-> b] \in [last : Nat, id : BOOLEAN]
  /\ \A n \in Nat, b \in BOOLEAN : [next |-> n, id |-> b] \in [next : Nat, id : BOOLEAN]
  OBVIOUS

\* The parts a producer's step leaves alone.
LEMMA QueueFrame ==
  ASSUME QueueType, HandlerType, OnlyPublished, UNCHANGED <<queue, handler>>
  PROVE  QueueType' /\ HandlerType' /\ OnlyPublished'
  BY DEF QueueType, HandlerType, OnlyPublished, queue, handler

LEMMA ProducerFrame ==
  ASSUME ProducerType, UNCHANGED producer
  PROVE  ProducerType'
  BY DEF ProducerType, producer

LEMMA RowFrame ==
  ASSUME RowType, UNCHANGED <<rows, crawled, crashes>>, now' \in Nat
  PROVE  RowType'
  BY DEF RowType, rows

\* One step per action.
LEMMA ControlStep == Control /\ [Next]_vars => Control'
<1> SUFFICES ASSUME Control, [Next]_vars PROVE Control'
  OBVIOUS
<1>0. RowType /\ ProducerType /\ QueueType /\ HandlerType /\ OnlyPublished /\ now \in Nat
  BY DEF Control, RowType
<1> USE DEF Control
<1>1. CASE Tick
  <2>1. ProducerType'
    BY <1>0, <1>1 DEF Tick, ProducerType
  <2> QED BY <1>0, <1>1, <2>1, RowFrame, QueueFrame DEF Tick
<1>2. CASE FindCrawler
  <2>1. crawler' \in [last : Nat, id : BOOLEAN]
    <3>1. \/ crawler' = [last |-> last, id |-> TRUE] /\ last # NoRow
          \/ crawler' = [last |-> 0, id |-> FALSE]
      BY <1>2 DEF FindCrawler
    <3>2. last # NoRow => last \in Nat
      BY <1>0 DEF RowType
    <3> QED BY <3>1, <3>2, ModelType
  <2>2. ProducerType'
    BY <1>0, <1>2, <2>1, Sizes DEF FindCrawler, ProducerType
  <2> QED BY <1>0, <1>2, <2>2, RowFrame, QueueFrame DEF FindCrawler
<1>3. CASE PushPlid
  <2>1. /\ crawler' = [crawler EXCEPT !.last = crawler.last + 1]
        /\ count' = count + 1 /\ count < Batch
        /\ UNCHANGED <<pc, turn, stm>>
    BY <1>3 DEF PushPlid
  <2>2. crawler.last + 1 \in Nat
    BY <1>0 DEF ProducerType
  <2>4. crawler' \in [last : Nat, id : BOOLEAN]
    BY <1>0, <2>1, <2>2 DEF ProducerType
  <2>5. count' \in 0 .. Batch
    BY <1>0, <2>1, Sizes DEF ProducerType
  <2>6. ProducerType'
    BY <1>0, <2>1, <2>4, <2>5 DEF ProducerType
  <2>3. RowType'
    BY <1>0, <1>3, <2>2 DEF PushPlid, RowType, rows
  <2> QED BY <1>0, <1>3, <2>6, <2>3, QueueFrame DEF PushPlid
<1>4. CASE SaveCrawler
  <2>1. ProducerType'
    BY <1>0, <1>4, Sizes DEF SaveCrawler, ProducerType
  <2>2. RowType'
    BY <1>0, <1>4 DEF SaveCrawler, RowType, ProducerType
  <2> QED BY <1>0, <1>4, <2>1, <2>2, QueueFrame DEF SaveCrawler
<1>5. CASE FindTask
  <2>1. pc = "find" /\ T \in Task
    BY <1>0, <1>5, TurnOfTask DEF FindTask
  <2>2. stm' \in [next : Nat, id : BOOLEAN]
    <3>1. \/ stm' = [next |-> next[T], id |-> TRUE] /\ next[T] # NoRow
          \/ stm' = [next |-> 0, id |-> FALSE]
      BY <1>5 DEF FindTask, FirstRun
    <3>2. next[T] # NoRow => next[T] \in Nat
      BY <1>0, <2>1 DEF RowType
    <3> QED BY <3>1, <3>2, ModelType
  <2>3. ProducerType'
    BY <1>0, <1>5, <2>1, <2>2 DEF FindTask, ProducerType
  <2> QED BY <1>0, <1>5, <2>3, RowFrame, QueueFrame DEF FindTask
<1>6. CASE CreateTask
  <2>1. pc = "create" /\ T \in Task
    BY <1>0, <1>6, TurnOfTask DEF CreateTask
  <2>2. /\ stm' \in [next : Nat, id : BOOLEAN]
        /\ next' \in [Task -> Nat \cup {NoRow}]
    BY <1>0, <1>6, <2>1 DEF CreateTask, ProducerType, RowType
  <2>3. RowType'
    BY <1>0, <1>6, <2>2 DEF CreateTask, RowType
  <2>4. ReturnTask => /\ pc' \in {"wait", "find"}
                      /\ turn' \in 0 .. Len(Schedule)
                      /\ pc' = "find" => turn' > 0
    BY <1>0, <2>1, TurnGoesOn
  <2>5. ProducerType'
    BY <1>0, <1>6, <2>1, <2>2, <2>4 DEF CreateTask, ProducerType
  <2> QED BY <1>0, <1>6, <2>3, <2>5, QueueFrame DEF CreateTask
<1>7. CASE SkipTask
  <2>1. /\ pc' \in {"wait", "find"}
        /\ turn' \in 0 .. Len(Schedule)
        /\ pc' = "find" => turn' > 0
    BY <1>0, <1>7, TurnGoesOn DEF SkipTask
  <2>2. ProducerType'
    BY <1>0, <1>7, <2>1 DEF SkipTask, ProducerType
  <2> QED BY <1>0, <1>7, <2>2, RowFrame, QueueFrame DEF SkipTask
<1>8. CASE PublishTask
  <2>1. pc = "decide" /\ T \in Task
    BY <1>0, <1>8, TurnOfTask DEF PublishTask
  <2>2. ReturnTask => /\ pc' \in {"wait", "find"}
                      /\ turn' \in 0 .. Len(Schedule)
                      /\ pc' = "find" => turn' > 0
    BY <1>0, <2>1, TurnGoesOn
  <2>3. ProducerType'
    BY <1>0, <1>8, <2>1, <2>2 DEF PublishTask, ProducerType
  <2>4. \/ /\ Len(task) < MaxMsgs
           /\ task' = Append(task, T) /\ sent' = Append(sent, now)
           /\ queued' = queued \cup {Len(task) + 1}
        \/ UNCHANGED <<task, sent, queued>>
    BY <1>8 DEF PublishTask
  <2>5. /\ task' \in Seq(Task) /\ Len(task') <= MaxMsgs
        /\ sent' \in Seq(Nat) /\ Len(sent') = Len(task')
        /\ queued' \subseteq 1 .. Len(task')
        /\ Len(task) \in Nat /\ Len(task') \in Nat /\ Len(task) <= Len(task')
    <3>1. /\ task \in Seq(Task) /\ sent \in Seq(Nat)
          /\ Len(task) \in Nat /\ Len(sent) = Len(task) /\ Len(task) <= MaxMsgs
          /\ queued \subseteq 1 .. Len(task)
      BY <1>0 DEF QueueType
    <3>2. CASE UNCHANGED <<task, sent, queued>>
      BY <3>1, <3>2
    <3>3. CASE /\ Len(task) < MaxMsgs
               /\ task' = Append(task, T) /\ sent' = Append(sent, now)
               /\ queued' = queued \cup {Len(task) + 1}
      <4>1. /\ task' \in Seq(Task) /\ Len(task') = Len(task) + 1
            /\ sent' \in Seq(Nat) /\ Len(sent') = Len(sent) + 1
        BY <1>0, <2>1, <3>1, <3>3
      <4>2. Len(task) + 1 <= MaxMsgs
        BY <3>1, <3>3, Sizes
      <4>3. Len(task) + 1 \in 1 .. Len(task')
        BY <3>1, <4>1
      <4>4. \A i \in 1 .. Len(task) : i \in 1 .. Len(task')
        BY <3>1, <4>1
      <4>5. queued' \subseteq 1 .. Len(task')
        BY <3>1, <3>3, <4>3, <4>4
      <4> QED BY <3>1, <4>1, <4>2, <4>5
    <3> QED BY <2>4, <3>2, <3>3
  <2>6. QueueType'
    BY <1>0, <1>8, <2>5 DEF PublishTask, QueueType
  <2>7. HandlerType' /\ OnlyPublished'
    BY <1>0, <1>8, <2>5 DEF PublishTask, HandlerType, OnlyPublished, handler
  <2> QED BY <1>0, <1>8, <2>3, <2>6, <2>7, RowFrame DEF PublishTask
<1>9. CASE SaveTask
  <2>1. pc = "save" /\ T \in Task
    BY <1>0, <1>9, TurnOfTask DEF SaveTask
  <2>2. /\ pc' \in {"wait", "find"}
        /\ turn' \in 0 .. Len(Schedule)
        /\ pc' = "find" => turn' > 0
    BY <1>0, <1>9, TurnGoesOn DEF SaveTask
  <2>3. ProducerType'
    BY <1>0, <1>9, <2>2 DEF SaveTask, ProducerType
  <2>4. next' \in [Task -> Nat \cup {NoRow}]
    BY <1>0, <1>9, <2>1, NextRunType DEF SaveTask, RowType
  <2>5. RowType'
    BY <1>0, <1>9, <2>4 DEF SaveTask, RowType
  <2> QED BY <1>0, <1>9, <2>3, <2>5, QueueFrame DEF SaveTask
<1>10. ASSUME NEW n \in Node, NEW m \in Msg, Deliver(n, m) PROVE Control'
  <2>0. attempts[m] \in Nat /\ attempts[m] + 1 \in Nat
    BY <1>0 DEF QueueType
  <2>1. QueueType'
    <3>1. attempts' \in [Msg -> Nat]
      BY <1>0, <1>10, <2>0 DEF Deliver, QueueType
    <3>2. owner' \in [Msg -> Node \cup {NoMsg}]
      BY <1>0, <1>10 DEF Deliver, QueueType
    <3> QED BY <1>0, <1>10, <3>1, <3>2 DEF Deliver, QueueType
  <2>2. HandlerType'
    <3>1. <<m, attempts[m] + 1>> \in Msg \X Nat
      BY <2>0
    <3>2. hand' = [hand EXCEPT ![n] = <<m, attempts[m] + 1>>]
      BY <1>10 DEF Deliver
    <3>3. hand' \in [Node -> (Msg \X Nat) \cup {NoMsg}]
      BY <1>0, <3>1, <3>2 DEF HandlerType
    <3> QED BY <1>0, <1>10, <3>3 DEF Deliver, HandlerType
  <2>3. OnlyPublished'
    BY <1>0, <1>10 DEF Deliver, QueueType, HandlerType, OnlyPublished
  <2> QED BY <1>0, <1>10, <2>1, <2>2, <2>3, RowFrame, ProducerFrame DEF Deliver
<1>11. ASSUME NEW n \in Node, Handle(n) PROVE Control'
  <2> DEFINE m == hand[n][1]
  <2>1. m \in Msg /\ hand[n][2] \in Nat /\ m \in Published
    BY <1>0, <1>11 DEF Handle, HandlerType, OnlyPublished
  <2>2. QueueType'
    BY <1>0, <1>11, <2>1 DEF Handle, Fin, QueueType
  <2>3. HandlerType'
    <3>1. hand' \in [Node -> (Msg \X Nat) \cup {NoMsg}]
      BY <1>0, <1>11 DEF Handle, Fin, HandlerType
    <3>2. runs' \subseteq Node \X Msg \X Nat /\ started' \in [Msg -> Nat]
      <4>1. started[m] + 1 \in Nat /\ <<n, m, hand[n][2]>> \in Node \X Msg \X Nat
        BY <1>0, <2>1 DEF HandlerType
      <4>2. \/ UNCHANGED <<runs, started>>
            \/ /\ runs' = runs \cup {<<n, m, hand[n][2]>>}
               /\ started' = [started EXCEPT ![m] = @ + 1]
        BY <1>11 DEF Handle
      <4> QED BY <1>0, <4>1, <4>2 DEF HandlerType
    <3>3. UNCHANGED <<done, lost, task>>
      BY <1>11 DEF Handle
    <3> QED BY <1>0, <3>1, <3>2, <3>3 DEF HandlerType
  <2>4. OnlyPublished'
    BY <1>0, <1>11, <2>1 DEF Handle, Fin, QueueType, HandlerType, OnlyPublished
  <2> QED BY <1>0, <1>11, <2>2, <2>3, <2>4, RowFrame, ProducerFrame DEF Handle
<1>12. ASSUME NEW n \in Node, Crash(n) PROVE Control'
  <2>1. QueueType'
    BY <1>0, <1>12 DEF Crash, QueueType, OnlyPublished
  <2>2. HandlerType'
    <3>1. LostBy(n) \subseteq Msg
      BY <1>0 DEF LostBy, HandlerType
    <3>2. lost' \subseteq Msg
      BY <1>0, <1>12, <3>1 DEF Crash, HandlerType
    <3>3. hand' \in [Node -> (Msg \X Nat) \cup {NoMsg}] /\ runs' \subseteq runs
          /\ UNCHANGED <<started, done, task>>
      BY <1>0, <1>12 DEF Crash, HandlerType
    <3> QED BY <1>0, <3>2, <3>3 DEF HandlerType
  <2>3. OnlyPublished'
    BY <1>0, <1>12 DEF Crash, QueueType, HandlerType, OnlyPublished
  <2>4. ProducerType'
    BY <1>0, <1>12, Sizes DEF Crash, ProducerType
  <2>5. RowType'
    BY <1>0, <1>12 DEF Crash, RowType, rows
  <2> QED BY <2>1, <2>2, <2>3, <2>4, <2>5
<1>13. ASSUME NEW m \in Msg, Timeout(m) PROVE Control'
  <2>1. QueueType'
    BY <1>0, <1>13 DEF Timeout, QueueType, OnlyPublished
  <2>2. HandlerType' /\ OnlyPublished'
    BY <1>0, <1>13 DEF Timeout, QueueType, HandlerType, OnlyPublished, handler
  <2> QED BY <1>0, <1>13, <2>1, <2>2, RowFrame, ProducerFrame DEF Timeout
<1>14. ASSUME NEW r \in runs, EndRun(r) PROVE Control'
  <2>1. HandlerType' /\ OnlyPublished'
    BY <1>0, <1>14 DEF EndRun, HandlerType, OnlyPublished, queue
  <2>2. QueueType'
    BY <1>0, <1>14 DEF EndRun, QueueType, queue
  <2> QED BY <1>0, <1>14, <2>1, <2>2, RowFrame, ProducerFrame DEF EndRun
<1>15. CASE Pass
  BY <1>0, <1>15, RowFrame, ProducerFrame, QueueFrame DEF Pass
<1>16. CASE UNCHANGED vars
  BY <1>0, <1>16, RowFrame, ProducerFrame, QueueFrame DEF vars
<1> QED
  BY <1>1, <1>2, <1>3, <1>4, <1>5, <1>6, <1>7, <1>8, <1>9, <1>10, <1>11, <1>12,
     <1>13, <1>14, <1>15, <1>16 DEF Next, Produce

\* Rows, models, messages and clock keep their types, whatever fails.
THEOREM TypeCorrect == Spec => []TypeOK
<1>1. Init => Control
  BY InitControl
<1>2. Control /\ [Next]_vars => Control'
  BY ControlStep
<1> QED BY <1>1, <1>2, Parts, PTL DEF Spec

-----------------------------------------------------------------------------
\* A message of task t was published after time n.
After(t, n) == \E i \in Published : task[i] = t /\ sent[i] > n

\* A model with an ID has the next run of its row, and a model that is to be
\* saved was published after that run was due.
InHand ==
    /\ pc \in {"decide", "save"} /\ stm.id => next[T] = stm.next
    /\ pc = "save" => After(T, stm.next)

\* What was published stays so.
LEMMA AfterStays ==
  ASSUME Control, [Next]_vars, NEW t \in Task, NEW n \in Nat, After(t, n)
  PROVE  After(t, n)'
  <1>1. PICK i \in Published : task[i] = t /\ sent[i] > n
    BY DEF After
  <1>2. /\ task \in Seq(Task) /\ sent \in Seq(Nat)
        /\ Len(task) \in Nat /\ Len(sent) = Len(task)
    BY DEF Control, QueueType
  <1>3. \/ UNCHANGED <<task, sent>>
        \/ pc = "decide" /\ turn > 0 /\ task' = Append(task, T) /\ sent' = Append(sent, now)
    BY DEF Control, ProducerType, Next, Produce, Tick, FindCrawler, PushPlid, SaveCrawler,
           FindTask, CreateTask, SkipTask, PublishTask, SaveTask, Deliver, Handle, Crash,
           Timeout, EndRun, Pass, queue, vars
  <1>4. CASE UNCHANGED <<task, sent>>
    BY <1>1, <1>4 DEF After
  <1>5. CASE pc = "decide" /\ turn > 0 /\ task' = Append(task, T) /\ sent' = Append(sent, now)
    <2>1. T \in Task /\ now \in Nat
      BY <1>5, TurnOfTask DEF Control, RowType
    <2>2. i \in 1 .. Len(task') /\ task'[i] = task[i] /\ sent'[i] = sent[i]
      BY <1>1, <1>2, <1>5, <2>1
    <2> QED BY <1>1, <2>2 DEF After
  <1> QED BY <1>3, <1>4, <1>5

\* Only the step that stores the next run comes after the publication.
LEMMA InHandStep == Control /\ InHand /\ [Next]_vars => InHand'
<1> SUFFICES ASSUME Control, InHand, [Next]_vars PROVE InHand'
  OBVIOUS
<1>0. RowType /\ ProducerType /\ QueueType
  BY DEF Control
<1>1. ASSUME pc' \notin {"decide", "save"} PROVE InHand'
  BY <1>1 DEF InHand
<1>2. ASSUME UNCHANGED <<pc, turn, stm, next>> PROVE InHand'
  <2>1. CASE pc # "save"
    BY <1>2, <2>1 DEF InHand, T
  <2>2. CASE pc = "save"
    <3>1. T \in Task /\ stm.next \in Nat /\ T' = T /\ stm' = stm
      BY <1>0, <1>2, <2>2, TurnOfTask DEF ProducerType, T
    <3>2. PICK t \in Task : t = T
      BY <3>1
    <3>3. PICK n \in Nat : n = stm.next
      BY <3>1
    <3>4. After(t, n)
      BY <2>2, <3>2, <3>3 DEF InHand
    <3>5. After(t, n)'
      BY <3>4, AfterStays
    <3>6. After(T, stm.next)'
      BY <3>1, <3>2, <3>3, <3>5 DEF After
    <3> QED BY <1>2, <3>1, <3>6 DEF InHand
  <2> QED BY <2>1, <2>2
<1>3. CASE FindTask
  BY <1>3 DEF FindTask, InHand, T, rows
<1>4. CASE CreateTask
  <2>1. CASE pc' \notin {"decide", "save"}
    BY <1>1, <2>1
  <2>2. CASE pc' \in {"decide", "save"}
    <3>1. /\ pc = "create" /\ pc' = "decide" /\ T' = T /\ stm'.next = stm.next
          /\ stm'.id <=> next[T] = NoRow
          /\ next[T] = NoRow => next' = [next EXCEPT ![T] = stm.next]
      BY <1>0, <1>4, <2>2 DEF CreateTask, ReturnTask, ProducerType, T
    <3>2. T \in Task
      BY <1>0, <3>1, TurnOfTask
    <3>3. stm'.id => next'[T] = stm.next
      BY <1>0, <3>1, <3>2 DEF RowType
    <3> QED BY <3>1, <3>3 DEF InHand
  <2> QED BY <2>1, <2>2
<1>5. CASE PublishTask
  <2>1. CASE pc' # "save"
    BY <1>1, <1>5, <2>1 DEF PublishTask, ReturnTask
  <2>2. CASE pc' = "save"
    <3>1. /\ task' = Append(task, T) /\ sent' = Append(sent, now)
          /\ now > stm.next /\ UNCHANGED <<turn, stm, next>> /\ pc = "decide"
      BY <1>5, <2>2 DEF PublishTask, ReturnTask, rows
    <3>2. T \in Task /\ now \in Nat
      BY <1>0, <3>1, TurnOfTask DEF RowType
    <3>3. /\ task \in Seq(Task) /\ sent \in Seq(Nat)
          /\ Len(task) \in Nat /\ Len(sent) = Len(task)
      BY <1>0 DEF QueueType
    <3>4. /\ Len(task) + 1 \in 1 .. Len(task')
          /\ task'[Len(task) + 1] = T /\ sent'[Len(task) + 1] = now
      BY <3>1, <3>2, <3>3
    <3>5. T' = T
      BY <3>1 DEF T
    <3>6. After(T, stm.next)'
      BY <3>1, <3>4, <3>5 DEF After
    <3> QED BY <3>1, <3>5, <3>6, <2>2 DEF InHand
  <2> QED BY <2>1, <2>2
<1>6. CASE SaveTask \/ SkipTask
  BY <1>1, <1>6 DEF SaveTask, SkipTask, ReturnTask
<1>7. CASE Tick \/ FindCrawler \/ PushPlid \/ SaveCrawler
  BY <1>1, <1>7 DEF Tick, FindCrawler, PushPlid, SaveCrawler
<1>8. ASSUME NEW n \in Node, Crash(n) PROVE InHand'
  BY <1>1, <1>2, <1>8 DEF Crash, rows
<1>9. CASE \/ \E n \in Node : (\E m \in Msg : Deliver(n, m)) \/ Handle(n)
           \/ \E m \in Msg : Timeout(m)
           \/ \E r \in runs : EndRun(r)
           \/ Pass \/ UNCHANGED vars
  BY <1>2, <1>9 DEF Deliver, Handle, Timeout, EndRun, Pass, vars, producer, rows
<1> QED
  BY <1>3, <1>4, <1>5, <1>6, <1>7, <1>8, <1>9 DEF Next, Produce

\* A stored next run is replaced only by a producer that has published the
\* task after that time: failures and crashes repeat runs and skip none.
THEOREM SlotsAreNotSkipped == Spec => NoSlotSkipped
<1> DEFINE Moves == \A t \in Task :
              next[t] # NoRow /\ next'[t] # next[t] =>
                 \E i \in Published : task[i] = t /\ sent[i] > next[t]
<1>1. Init => Control /\ InHand
  BY InitControl DEF Init, InHand
<1>2. Control /\ InHand /\ [Next]_vars => (Control /\ InHand)'
  BY ControlStep, InHandStep
<1>3. Control /\ InHand /\ [Next]_vars => [Moves]_vars
  <2> SUFFICES ASSUME Control, InHand, Next, NEW t \in Task,
                      next[t] # NoRow, next'[t] # next[t]
               PROVE  After(t, next[t])
    BY DEF After
  <2>1. \/ SaveTask
        \/ CreateTask
    BY DEF Next, Produce, Tick, FindCrawler, PushPlid, SaveCrawler, FindTask, SkipTask,
           PublishTask, Deliver, Handle, Crash, Timeout, EndRun, Pass, rows, producer
  <2>2. RowType /\ ProducerType
    BY DEF Control
  <2>3. CASE CreateTask
    BY <2>2, <2>3 DEF CreateTask, RowType
  <2>4. CASE SaveTask
    <3>1. pc = "save" /\ T = t /\ stm.id
      BY <2>2, <2>4 DEF SaveTask, RowType
    <3> QED BY <3>1 DEF InHand
  <2> QED BY <2>1, <2>3, <2>4
<1> QED BY <1>1, <1>2, <1>3, PTL DEF Spec, NoSlotSkipped

-----------------------------------------------------------------------------
\* While the crawler pushes PLIDs, all up to its model's have been published.
Pushed == pc = "push" => 1 .. crawler.last \subseteq crawled

\* The crawler's row never passes a PLID that was not published.
THEOREM CrawlerLeavesNoneOut ==
    ASSUME "push" \notin Faults
    PROVE  Spec => []CrawledAll
<1> DEFINE Inv == Control /\ Pushed /\ CrawledAll
<1>1. Init => Inv
  BY InitControl DEF Init, Pushed, CrawledAll
<1>2. Inv /\ [Next]_vars => Inv'
  <2> SUFFICES ASSUME Control, Pushed, CrawledAll, [Next]_vars
               PROVE  Pushed' /\ CrawledAll'
    BY ControlStep
  <2>0. RowType /\ ProducerType
    BY DEF Control
  <2>1. CASE FindCrawler
    <3>1. /\ UNCHANGED <<last, crawled>>
          /\ \/ last # NoRow /\ crawler'.last = last
             \/ crawler'.last = 0
      BY <2>1 DEF FindCrawler, rows
    <3>2. 1 .. crawler'.last \subseteq crawled
      BY <3>1 DEF CrawledAll
    <3> QED BY <3>1, <3>2 DEF Pushed, CrawledAll
  <2>2. CASE PushPlid
    <3>1. /\ crawler'.last = crawler.last + 1 /\ pc = "push"
          /\ crawled' = crawled \cup {crawler.last + 1}
          /\ UNCHANGED <<last, pc>> /\ crawler.last \in Nat
      BY <2>0, <2>2 DEF PushPlid, ProducerType, rows
    <3>2. \A p \in 1 .. crawler'.last : p \in 1 .. crawler.last \/ p = crawler.last + 1
      BY <3>1
    <3>3. 1 .. crawler'.last \subseteq crawled'
      BY <3>1, <3>2 DEF Pushed
    <3> QED BY <3>1, <3>3 DEF Pushed, CrawledAll
  <2>3. CASE SaveCrawler
    <3>1. /\ pc = "push" /\ pc' = "find" /\ UNCHANGED crawled
          /\ last' = crawler.last \/ last' = last
      BY <2>3 DEF SaveCrawler
    <3> QED BY <3>1 DEF Pushed, CrawledAll
  <2>4. ASSUME UNCHANGED <<last, crawled, crawler>>, pc' = pc \/ pc' # "push"
        PROVE  Pushed' /\ CrawledAll'
    BY <2>4 DEF Pushed, CrawledAll
  <2>5. CASE Tick \/ FindTask \/ CreateTask \/ SkipTask \/ PublishTask \/ SaveTask
    BY <2>4, <2>5 DEF Tick, FindTask, CreateTask, SkipTask, PublishTask, SaveTask,
                      ReturnTask, rows
  <2>6. ASSUME NEW n \in Node, Crash(n) PROVE Pushed' /\ CrawledAll'
    BY <2>4, <2>6 DEF Crash, rows
  <2>7. CASE \/ \E n \in Node : (\E m \in Msg : Deliver(n, m)) \/ Handle(n)
             \/ \E m \in Msg : Timeout(m)
             \/ \E r \in runs : EndRun(r)
             \/ Pass \/ UNCHANGED vars
    BY <2>4, <2>7 DEF Deliver, Handle, Timeout, EndRun, Pass, vars, producer, rows
  <2> QED
    BY <2>1, <2>2, <2>3, <2>5, <2>6, <2>7 DEF Next, Produce
<1> QED BY <1>1, <1>2, PTL DEF Spec

-----------------------------------------------------------------------------
\* Deliveries have numbers of their own; a delivery in hand that may still
\* start the task has not started it.
Counted ==
    /\ \A n \in Node : hand[n] # NoMsg =>
          hand[n][2] > 0 /\ hand[n][2] <= attempts[hand[n][1]]
    /\ \A n, k \in Node :
          hand[n] # NoMsg /\ hand[k] # NoMsg /\ n # k => hand[n] # hand[k]
    /\ \A m \in Msg : started[m] <= attempts[m]
    /\ \A n \in Node : hand[n] # NoMsg /\ hand[n][2] <= 2 =>
          started[hand[n][1]] <= 1 /\ started[hand[n][1]] < attempts[hand[n][1]]
    /\ \A n, k \in Node :
          /\ hand[n] # NoMsg /\ hand[k] # NoMsg /\ n # k
          /\ hand[n][1] = hand[k][1] /\ hand[n][2] <= 2 /\ hand[k][2] <= 2
          => started[hand[n][1]] = 0

\* A message starts its task at most twice, however often it is delivered and
\* whoever crashes meanwhile.
THEOREM TasksDoNotFlood == Spec => []NotFlooded
<1> DEFINE Inv == Control /\ Counted /\ NotFlooded
<1>1. Init => Inv
  BY InitControl DEF Init, Counted, NotFlooded
<1>2. Inv /\ [Next]_vars => Inv'
  <2> SUFFICES ASSUME Control, Counted, NotFlooded, [Next]_vars
               PROVE  Counted' /\ NotFlooded'
    BY ControlStep
  <2>0. QueueType /\ HandlerType
    BY DEF Control
  <2>1. ASSUME UNCHANGED <<attempts, started>>,
               \A n \in Node : hand'[n] \in {hand[n], NoMsg}
        PROVE  Counted' /\ NotFlooded'
    <3>1. \A n \in Node : hand'[n] # NoMsg => hand'[n] = hand[n]
      BY <2>1
    <3> QED BY <2>1, <3>1 DEF Counted, NotFlooded
  <2>2. ASSUME NEW n \in Node, NEW m \in Msg, Deliver(n, m) PROVE Counted' /\ NotFlooded'
    <3> DEFINE a == attempts[m] + 1
    <3>1. /\ attempts[m] \in Nat /\ started[m] \in Nat /\ UNCHANGED started
          /\ attempts' = [attempts EXCEPT ![m] = a]
          /\ hand' = [hand EXCEPT ![n] = <<m, a>>]
      BY <2>0, <2>2 DEF Deliver, QueueType, HandlerType
    <3>2. /\ \A l \in Msg : attempts'[l] = IF l = m THEN a ELSE attempts[l]
          /\ \A k \in Node : hand'[k] = IF k = n THEN <<m, a>> ELSE hand[k]
      BY <2>0, <3>1 DEF QueueType, HandlerType
    <3>3. /\ \A k \in Node : hand[k] # NoMsg =>
                hand[k][1] \in Msg /\ hand[k][2] \in Nat
          /\ \A l \in Msg : attempts[l] \in Nat /\ started[l] \in Nat
          /\ <<m, a>>[1] = m /\ <<m, a>>[2] = a
      BY <2>0 DEF QueueType, HandlerType
    <3>4. \A k \in Node : hand[k] # NoMsg /\ hand[k][1] = m => hand[k][2] < a
      BY <3>1, <3>3 DEF Counted
    <3>5. NotFlooded'
      BY <3>1 DEF NotFlooded
    <3>6. \A k \in Node : hand'[k] # NoMsg =>
             hand'[k][2] > 0 /\ hand'[k][2] <= attempts'[hand'[k][1]]
      BY <3>1, <3>2, <3>3 DEF Counted
    <3>7. \A k, h \in Node :
             hand'[k] # NoMsg /\ hand'[h] # NoMsg /\ k # h => hand'[k] # hand'[h]
      BY <3>1, <3>2, <3>3, <3>4 DEF Counted
    <3>8. \A l \in Msg : started'[l] <= attempts'[l]
      BY <3>1, <3>2, <3>3 DEF Counted
    <3>9. \A k \in Node : hand'[k] # NoMsg /\ hand'[k][2] <= 2 =>
             started'[hand'[k][1]] <= 1 /\ started'[hand'[k][1]] < attempts'[hand'[k][1]]
      BY <3>1, <3>2, <3>3 DEF Counted
    <3>10. \A k \in Node \ {n} :
              hand'[k] # NoMsg /\ hand'[k][1] = m /\ hand'[k][2] <= 2 /\ a <= 2
              => started'[m] = 0
      BY <3>1, <3>2, <3>3, <3>4 DEF Counted
    <3>11. \A k, h \in Node :
              /\ hand'[k] # NoMsg /\ hand'[h] # NoMsg /\ k # h
              /\ hand'[k][1] = hand'[h][1] /\ hand'[k][2] <= 2 /\ hand'[h][2] <= 2
              => started'[hand'[k][1]] = 0
      BY <3>1, <3>2, <3>3, <3>10 DEF Counted
    <3> QED BY <3>5, <3>6, <3>7, <3>8, <3>9, <3>11 DEF Counted
  <2>3. ASSUME NEW n \in Node, Handle(n) PROVE Counted' /\ NotFlooded'
    <3> DEFINE m == hand[n][1]
    <3>1. /\ hand[n] # NoMsg /\ m \in Msg /\ hand[n][2] \in Nat
          /\ hand' = [hand EXCEPT ![n] = NoMsg] /\ UNCHANGED attempts
      BY <2>0, <2>3 DEF Handle, Fin, HandlerType
    <3>2. \A k \in Node : hand'[k] = IF k = n THEN NoMsg ELSE hand[k]
      BY <2>0, <3>1 DEF HandlerType
    <3>3. CASE hand[n][2] > 2
      BY <2>1, <2>3, <3>1, <3>2, <3>3 DEF Handle
    <3>4. CASE hand[n][2] <= 2
      <4>1. \A l \in Msg : started'[l] = IF l = m THEN started[l] + 1 ELSE started[l]
        BY <2>0, <2>3, <3>1, <3>4 DEF Handle, HandlerType
      <4>2. /\ \A k \in Node : hand[k] # NoMsg => hand[k][1] \in Msg /\ hand[k][2] \in Nat
            /\ \A l \in Msg : attempts[l] \in Nat /\ started[l] \in Nat
        BY <2>0 DEF QueueType, HandlerType
      <4>3. started[m] <= 1 /\ started[m] < attempts[m]
        BY <3>1, <3>4 DEF Counted
      <4>4. NotFlooded' /\ \A l \in Msg : started'[l] <= attempts'[l]
        BY <3>1, <4>1, <4>2, <4>3 DEF NotFlooded, Counted
      <4>5. \A k \in Node \ {n} :
               hand[k] # NoMsg /\ hand[k][1] = m /\ hand[k][2] <= 2
               => started[m] = 0 /\ attempts[m] >= 2
        <5> SUFFICES ASSUME NEW k \in Node \ {n},
                            hand[k] # NoMsg, hand[k][1] = m, hand[k][2] <= 2
                     PROVE  started[m] = 0 /\ attempts[m] >= 2
          OBVIOUS
        <5>1. started[m] = 0
          BY <3>1, <3>4 DEF Counted
        <5>2. hand[k] # hand[n]
          BY <3>1 DEF Counted
        <5>3. hand[k] = <<m, hand[k][2]>> /\ hand[n] = <<m, hand[n][2]>>
          BY <2>0, <3>1 DEF HandlerType
        <5>4. hand[k][2] # hand[n][2]
          BY <5>2, <5>3
        <5>5. /\ hand[k][2] > 0 /\ hand[k][2] <= attempts[m]
              /\ hand[n][2] > 0 /\ hand[n][2] <= attempts[m]
          BY <3>1 DEF Counted
        <5> QED BY <3>1, <3>4, <4>2, <5>1, <5>4, <5>5
      <4>6. \A k \in Node : hand'[k] # NoMsg /\ hand'[k][2] <= 2 =>
               started'[hand'[k][1]] <= 1 /\ started'[hand'[k][1]] < attempts'[hand'[k][1]]
        BY <3>1, <3>2, <4>1, <4>2, <4>5 DEF Counted
      <4>7. \A k, h \in Node :
               /\ hand'[k] # NoMsg /\ hand'[h] # NoMsg /\ k # h
               /\ hand'[k][1] = hand'[h][1] /\ hand'[k][2] <= 2 /\ hand'[h][2] <= 2
               => started'[hand'[k][1]] = 0
        <5> SUFFICES ASSUME NEW k \in Node \ {n}, NEW h \in Node \ {n}, k # h,
                            hand[k] # NoMsg, hand[h] # NoMsg, hand[k][1] = hand[h][1],
                            hand[k][2] <= 2, hand[h][2] <= 2
                     PROVE  started'[hand[k][1]] = 0
          BY <3>2
        <5>1. CASE hand[k][1] # m
          BY <4>1, <4>2, <5>1 DEF Counted
        <5>2. CASE hand[k][1] = m
          <6>1. hand[k] # hand[n] /\ hand[h] # hand[n] /\ hand[k] # hand[h]
            BY <3>1 DEF Counted
          <6>2. \A i \in Node : hand[i] # NoMsg /\ hand[i][1] = m =>
                   hand[i] = <<m, hand[i][2]>>
            <7> SUFFICES ASSUME NEW i \in Node, hand[i] # NoMsg, hand[i][1] = m
                         PROVE  hand[i] = <<m, hand[i][2]>>
              OBVIOUS
            <7>1. hand[i] \in Msg \X Nat
              BY <2>0 DEF HandlerType
            <7> HIDE DEF m
            <7> QED BY <7>1
          <6>3. /\ hand[k][2] # hand[n][2] /\ hand[h][2] # hand[n][2]
                /\ hand[k][2] # hand[h][2]
            BY <3>1, <5>2, <6>1, <6>2
          <6>4. hand[k][2] \in 1 .. 2 /\ hand[h][2] \in 1 .. 2 /\ hand[n][2] \in 1 .. 2
            BY <3>1, <3>4, <4>2 DEF Counted
          <6> QED BY <6>3, <6>4
        <5> QED BY <5>1, <5>2
      <4> QED BY <3>1, <3>2, <4>2, <4>4, <4>6, <4>7 DEF Counted
    <3> QED BY <3>1, <3>3, <3>4
  <2>4. ASSUME NEW n \in Node, Crash(n) PROVE Counted' /\ NotFlooded'
    <3>1. \A k \in Node : hand'[k] \in {hand[k], NoMsg}
      BY <2>0, <2>4 DEF Crash, HandlerType
    <3> QED BY <2>1, <2>4, <3>1 DEF Crash
  <2>5. CASE \/ Produce
             \/ \E m \in Msg : Timeout(m)
             \/ \E r \in runs : EndRun(r)
             \/ Pass \/ UNCHANGED vars
    <3>1. UNCHANGED <<attempts, started, hand>>
      BY <2>5 DEF Produce, Tick, FindCrawler, PushPlid, SaveCrawler, FindTask, CreateTask,
                  SkipTask, PublishTask, SaveTask, Timeout, EndRun, Pass, vars, queue, handler
    <3> QED BY <2>1, <3>1
  <2> QED
    BY <2>2, <2>3, <2>4, <2>5 DEF Next
<1> QED BY <1>1, <1>2, PTL DEF Spec
-----------------------------------------------------------------------------
\* What the slots need: rows are read and stored.
Stored == "read" \notin Faults /\ "commit" \notin Faults

\* The tasks whose row was not stored after their message, so that the next
\* one may be a repeat: all but the one that is about to be stored.
Behind(t) ==
    \E i \in Published : task[i] = t /\ next[t] < NextRunAt(t, sent[i])

Owing == {t \in Task : Behind(t) /\ ~ (pc = "save" /\ T = t)}

\* A model in hand is that of the row, a task that was published has one, and
\* each repeat, made or to come, has a crash of its own.
Slots ==
    /\ pc = "create" => next[T] = NoRow
    /\ pc \in {"decide", "save"} => stm.id /\ next[T] # NoRow
    /\ \A i \in Published : sent[i] <= now /\ next[task[i]] # NoRow
    /\ IsFiniteSet(Owing)
    /\ Cardinality(Repeats) + Cardinality(Owing) <= crashes

\* A later time is not rounded down to an earlier one.
LEMMA RoundKeepsOrder ==
  ASSUME NEW x \in Nat, NEW y \in Nat, NEW d \in Nat \ {0}, x <= y
  PROVE  x - (x % d) <= y - (y % d)
  <1> DEFINE q == x \div d
             s == y \div d
  <1>1. q \in Int /\ s \in Int /\ x % d \in 0 .. d - 1 /\ y % d \in 0 .. d - 1
    OBVIOUS
  <1>2. x = d * q + (x % d) /\ y = d * s + (y % d)
    OBVIOUS
  <1> HIDE DEF q, s
  <1>3. CASE q <= s
    <2>1. d * q <= d * s
      BY <1>1, <1>3
    <2>2. d * q \in Int /\ d * s \in Int
      BY <1>1
    <2> QED BY <1>1, <1>2, <2>1, <2>2
  <1>4. CASE s < q
    <2>1. d * (s + 1) <= d * q
      BY <1>1, <1>4
    <2>2. d * (s + 1) = d * s + d /\ d * q \in Int /\ d * s \in Int
      BY <1>1
    <2> QED BY <1>1, <1>2, <2>1, <2>2
  <1> QED BY <1>1, <1>3, <1>4

\* NextRun does not go back.
LEMMA NextRunKeepsOrder ==
  ASSUME NEW t \in Task, NEW m \in Nat, NEW n \in Nat, m <= n
  PROVE  NextRunAt(t, m) <= NextRunAt(t, n)
  <1> DEFINE ahead == Ahead[t] * Hour
             at == At[t] * Hour
             Down(x, d) == x - (x % d)
  <1>1. ahead \in Nat /\ at \in Nat
    BY Product, ScheduleAssumption
  <1>2. /\ NextRunAt(t, m) = IF t \in Daily THEN Down(m + ahead, Day) + at
                                            ELSE Down(m + ahead, Hour)
        /\ NextRunAt(t, n) = IF t \in Daily THEN Down(n + ahead, Day) + at
                                            ELSE Down(n + ahead, Hour)
    BY DEF NextRunAt
  <1> HIDE DEF ahead, at
  <1>3. m + ahead \in Nat /\ n + ahead \in Nat /\ m + ahead <= n + ahead
    BY <1>1
  <1>4. /\ Down(m + ahead, Day) <= Down(n + ahead, Day)
        /\ Down(m + ahead, Hour) <= Down(n + ahead, Hour)
    BY <1>3, RoundKeepsOrder, ScheduleAssumption
  <1>5. /\ Down(m + ahead, Day) \in Nat /\ Down(n + ahead, Day) \in Nat
        /\ Down(m + ahead, Hour) \in Nat /\ Down(n + ahead, Hour) \in Nat
    BY <1>3, RoundDown, ScheduleAssumption
  <1> HIDE DEF Down
  <1> QED BY <1>1, <1>2, <1>4, <1>5

\* The repeats can be counted.
LEMMA RepeatsFinite ==
  ASSUME Control
  PROVE  IsFiniteSet(Repeats) /\ Cardinality(Repeats) \in Nat
  <1>1. Len(task) \in Nat
    BY DEF Control, QueueType
  <1>2. Repeats \in SUBSET (1 .. Len(task)) /\ IsFiniteSet(1 .. Len(task))
    BY <1>1, FS_Interval DEF Repeats
  <1> QED BY <1>2, FS_Subset, FS_CardinalityType

\* Of one set with no more elements, and of one with one more.
LEMMA NoMore ==
  ASSUME NEW R, NEW S, IsFiniteSet(S), R \subseteq S
  PROVE  IsFiniteSet(R) /\ Cardinality(R) \in Nat /\ Cardinality(R) <= Cardinality(S)
  BY FS_Subset, FS_CardinalityType

LEMMA OneMore ==
  ASSUME NEW R, NEW S, NEW x, IsFiniteSet(S), R \subseteq S \cup {x}
  PROVE  IsFiniteSet(R) /\ Cardinality(R) \in Nat /\ Cardinality(R) <= Cardinality(S) + 1
  <1>1. /\ IsFiniteSet(S \cup {x}) /\ Cardinality(S) \in Nat
        /\ Cardinality(S \cup {x}) <= Cardinality(S) + 1
    <2>1. Cardinality(S) \in Nat
      BY FS_CardinalityType
    <2>2. /\ IsFiniteSet(S \cup {x})
          /\ Cardinality(S \cup {x}) = IF x \in S THEN Cardinality(S) ELSE Cardinality(S) + 1
      BY FS_AddElement
    <2> QED BY <2>1, <2>2
  <1>2. IsFiniteSet(R) /\ Cardinality(R) \in Nat /\ Cardinality(R) <= Cardinality(S \cup {x})
    BY <1>1, NoMore
  <1>3. Cardinality(S \cup {x}) \in Nat
    BY <1>1, FS_CardinalityType
  <1> QED BY <1>1, <1>2, <1>3

\* The messages and rows stay: so do the repeats, and the tasks that are behind.
LEMMA RepeatsStay ==
  ASSUME UNCHANGED <<next, task, sent>>
  PROVE  Repeats' = Repeats /\ \A t : Behind(t)' <=> Behind(t)
  BY DEF Repeats, Behind, NextRunAt

\* A step that stores no row and publishes nothing, and does not leave a
\* message unsaved, keeps the slots.
LEMMA SlotsFrame ==
  ASSUME Slots, Control, Control', UNCHANGED <<next, task, sent>>, now' >= now,
         crashes' >= crashes,
         pc = "save" => pc' = "save" /\ T' = T,
         pc' = "create" => next[T'] = NoRow,
         pc' \in {"decide", "save"} => stm'.id /\ next[T'] # NoRow
  PROVE  Slots'
  <1>1. Repeats' = Repeats /\ \A t : Behind(t)' <=> Behind(t)
    BY RepeatsStay
  <1>2. Owing' \subseteq Owing
    BY <1>1 DEF Owing
  <1>3. IsFiniteSet(Owing) /\ Cardinality(Owing) \in Nat /\ Cardinality(Repeats) \in Nat
    BY RepeatsFinite, FS_CardinalityType DEF Slots
  <1>4. IsFiniteSet(Owing') /\ Cardinality(Owing') \in Nat
        /\ Cardinality(Owing') <= Cardinality(Owing)
    BY <1>2, <1>3, NoMore
  <1>5. crashes \in Nat /\ crashes' \in Nat
    BY Sizes DEF Control, RowType
  <1>6. Cardinality(Repeats') + Cardinality(Owing') <= crashes'
    <2>1. Cardinality(Repeats') = Cardinality(Repeats)
      BY <1>1
    <2> QED BY <1>3, <1>4, <1>5, <2>1 DEF Slots
  <1>7. \A i \in Published' : sent'[i] <= now' /\ next'[task'[i]] # NoRow
    <2>1. now \in Nat /\ now' \in Nat /\ \A i \in Published : sent[i] \in Nat
      BY DEF Control, RowType, QueueType
    <2> QED BY <2>1 DEF Slots
  <1> QED BY <1>4, <1>6, <1>7 DEF Slots

\* Each step of the producer keeps the slots.
LEMMA SlotsStep == Stored /\ Control /\ InHand /\ Slots /\ [Next]_vars => Slots'
  <1> SUFFICES ASSUME Stored, Control, InHand, Slots, [Next]_vars PROVE Slots'
    OBVIOUS
  <1>0. /\ Control' /\ RowType /\ ProducerType /\ QueueType
        /\ now \in Nat /\ sent \in Seq(Nat) /\ task \in Seq(Task)
        /\ Len(task) \in Nat /\ Len(sent) = Len(task)
        /\ next \in [Task -> Nat \cup {NoRow}] /\ crashes \in Nat
        /\ IsFiniteSet(Repeats) /\ Cardinality(Repeats) \in Nat
        /\ IsFiniteSet(Owing) /\ Cardinality(Owing) \in Nat
    <2>1. Control' /\ IsFiniteSet(Repeats) /\ Cardinality(Repeats) \in Nat
      BY ControlStep, RepeatsFinite
    <2>2. RowType /\ ProducerType /\ QueueType
      BY DEF Control
    <2>3. task \in Seq(Task) /\ sent \in Seq(Nat) /\ Len(sent) = Len(task)
      BY <2>2 DEF QueueType
    <2>4. IsFiniteSet(Owing) /\ Cardinality(Owing) \in Nat
      BY FS_CardinalityType DEF Slots
    <2> QED BY <2>1, <2>2, <2>3, <2>4 DEF RowType
  <1>1. CASE Tick \/ FindCrawler \/ PushPlid \/ SaveCrawler
    <2>1. /\ UNCHANGED <<next, task, sent, now, crashes>>
          /\ pc # "save" /\ pc' \notin {"create", "decide", "save"}
      BY <1>1 DEF Tick, FindCrawler, PushPlid, SaveCrawler, rows, queue
    <2> QED BY <1>0, <2>1, SlotsFrame
  <1>2. CASE FindTask
    <2>1. /\ UNCHANGED <<next, task, sent, now, crashes>> /\ pc = "find" /\ T' = T
          /\ \/ next[T] # NoRow /\ stm'.id /\ pc' = "decide"
             \/ next[T] = NoRow /\ pc' = "create"
      BY <1>2 DEF FindTask, rows, queue, T, Stored
    <2> QED BY <1>0, <2>1, SlotsFrame
  <1>3. CASE CreateTask
    <2>1. /\ pc = "create" /\ next[T] = NoRow /\ T' = T /\ T \in Task
          /\ next' = [next EXCEPT ![T] = stm.next]
          /\ stm' = [stm EXCEPT !.id = TRUE] /\ pc' = "decide"
          /\ UNCHANGED <<task, sent, now, crashes>>
      BY <1>0, <1>3, TurnOfTask DEF CreateTask, queue, T, Stored, Slots
    <2>2. /\ stm'.id /\ stm.next \in Nat /\ next'[T] = stm.next
          /\ \A t \in Task : t # T => next'[t] = next[t]
      BY <1>0, <2>1 DEF ProducerType
    <2>3. \A i \in Published : task[i] \in Task /\ task[i] # T
      BY <1>0, <2>1 DEF Slots
    <2>4. Repeats' = Repeats
      BY <2>1 DEF Repeats, NextRunAt
    <2>5. Owing' \subseteq Owing
      BY <2>1, <2>2, <2>3 DEF Owing, Behind, NextRunAt
    <2>6. IsFiniteSet(Owing') /\ Cardinality(Owing') \in Nat
          /\ Cardinality(Owing') <= Cardinality(Owing)
      BY <1>0, <2>5, NoMore
    <2>7. Cardinality(Repeats') + Cardinality(Owing') <= crashes'
      BY <1>0, <2>1, <2>4, <2>6 DEF Slots
    <2> QED BY <2>1, <2>2, <2>3, <2>6, <2>7 DEF Slots
  <1>4. CASE SkipTask
    <2>1. /\ UNCHANGED <<next, task, sent, now, crashes>> /\ pc # "save"
          /\ pc' \notin {"create", "decide", "save"}
      BY <1>4 DEF SkipTask, ReturnTask, rows, queue
    <2> QED BY <1>0, <2>1, SlotsFrame
  <1>5. CASE PublishTask
    <2>1. CASE UNCHANGED <<task, sent>> /\ ReturnTask
      <3>1. /\ UNCHANGED <<next, task, sent, now, crashes>> /\ pc # "save"
            /\ pc' \notin {"create", "decide", "save"}
        BY <1>5, <2>1 DEF PublishTask, ReturnTask, rows
      <3> QED BY <1>0, <3>1, SlotsFrame
    <2>2. CASE /\ task' = Append(task, T) /\ sent' = Append(sent, now)
               /\ pc' = "save" /\ UNCHANGED turn
      <3>1. /\ pc = "decide" /\ now > stm.next /\ UNCHANGED <<next, now, stm, crashes>>
            /\ T' = T /\ T \in Task
        BY <1>0, <1>5, <2>2, TurnOfTask DEF PublishTask, rows, T
      <3>2. stm.id /\ next[T] = stm.next /\ next[T] # NoRow /\ next[T] \in Nat
        BY <1>0, <3>1 DEF InHand, Slots
      <3> DEFINE n == Len(task) + 1
      <3>3. /\ Len(task') = n /\ task'[n] = T /\ sent'[n] = now
            /\ \A i \in 1 .. Len(task) :
                  /\ task'[i] = task[i] /\ sent'[i] = sent[i]
                  /\ task[i] \in Task /\ sent[i] \in Nat
        BY <1>0, <2>2, <3>1
      <3>4. \A i \in 1 .. n : sent'[i] <= now /\ next[task'[i]] # NoRow
        <4>1. \A i \in 1 .. Len(task) : sent'[i] <= now /\ next[task'[i]] # NoRow
          BY <3>3 DEF Slots
        <4>2. sent'[n] <= now /\ next[task'[n]] # NoRow
          BY <1>0, <3>2, <3>3
        <4>3. \A i \in 1 .. n : i \in 1 .. Len(task) \/ i = n
          BY <1>0
        <4> HIDE DEF n
        <4> QED BY <4>1, <4>2, <4>3
      <3>5. Published' = 1 .. n /\ n \in Nat /\ n = Len(task) + 1
        BY <1>0, <3>3
      <3> HIDE DEF n
      <3>6. \A j \in Repeats' : j # n => j \in Repeats
        <4> SUFFICES ASSUME NEW j \in Repeats', j # n PROVE j \in Repeats
          OBVIOUS
        <4>1. j \in 1 .. n
          BY <3>5 DEF Repeats
        <4>2. PICK i \in 1 .. j - 1 :
                 task'[i] = task'[j] /\ sent'[j] <= NextRunAt(task'[i], sent'[i])
          BY DEF Repeats, NextRunAt
        <4>3. j \in 1 .. Len(task) /\ i \in 1 .. Len(task)
          <5>1. Len(task) \in Nat /\ n = Len(task) + 1
            BY <1>0, <3>5
          <5>2. j \in 1 .. Len(task)
            BY <4>1, <5>1
          <5> QED BY <4>2, <5>1, <5>2
        <4> QED BY <3>3, <4>2, <4>3 DEF Repeats
      <3>7. Owing' \subseteq Owing \ {T}
        <4> SUFFICES ASSUME NEW t \in Owing' PROVE t \in Owing /\ t # T
          OBVIOUS
        <4>1. t \in Task /\ Behind(t)' /\ t # T
          BY <2>2, <3>1 DEF Owing
        <4>2. PICK i \in 1 .. n : task'[i] = t /\ next[t] < NextRunAt(t, sent'[i])
          BY <3>1, <3>5, <4>1 DEF Behind, NextRunAt
        <4>3. i \in 1 .. Len(task)
          BY <1>0, <3>3, <3>5, <4>1, <4>2
        <4> QED BY <3>1, <3>3, <4>1, <4>2, <4>3 DEF Owing, Behind
      <3>8. n \in Repeats' => T \in Owing
        <4> SUFFICES ASSUME n \in Repeats' PROVE T \in Owing
          OBVIOUS
        <4>1. PICK i \in 1 .. n - 1 :
                 task'[i] = task'[n] /\ sent'[n] <= NextRunAt(task'[i], sent'[i])
          BY DEF Repeats, NextRunAt
        <4>2. i \in 1 .. Len(task) /\ task[i] = T /\ now <= NextRunAt(T, sent[i])
          BY <1>0, <3>3, <3>5, <4>1
        <4>3. NextRunAt(T, sent[i]) \in Nat
          BY <3>1, <3>3, <4>2, NextRunType
        <4>4. next[T] < NextRunAt(T, sent[i])
          BY <1>0, <3>1, <3>2, <4>2, <4>3
        <4> QED BY <3>1, <4>2, <4>4 DEF Owing, Behind
      <3>9. /\ IsFiniteSet(Owing')
            /\ Cardinality(Repeats') + Cardinality(Owing') <= crashes
        <4>1. IsFiniteSet(Owing') /\ Cardinality(Owing') \in Nat
              /\ Cardinality(Owing') <= Cardinality(Owing)
          BY <1>0, <3>7, NoMore
        <4>2. Cardinality(Repeats) + Cardinality(Owing) <= crashes
          BY DEF Slots
        <4>3. CASE n \in Repeats'
          <5>1. Cardinality(Repeats') \in Nat /\ Cardinality(Repeats') <= Cardinality(Repeats) + 1
            BY <1>0, <3>6, OneMore
          <5>2. IsFiniteSet(Owing \ {T}) /\ Cardinality(Owing \ {T}) = Cardinality(Owing) - 1
            BY <1>0, <3>8, <4>3, FS_RemoveElement
          <5>3. Cardinality(Owing') <= Cardinality(Owing) - 1
            BY <3>7, <5>2, NoMore
          <5> QED BY <1>0, <4>1, <4>2, <5>1, <5>3
        <4>4. CASE n \notin Repeats'
          <5>1. Cardinality(Repeats') \in Nat /\ Cardinality(Repeats') <= Cardinality(Repeats)
            BY <1>0, <3>6, <4>4, NoMore
          <5> QED BY <1>0, <4>1, <4>2, <5>1
        <4> QED BY <4>1, <4>3, <4>4
      <3> QED BY <2>2, <3>1, <3>2, <3>4, <3>5, <3>9 DEF Slots
    <2> QED BY <1>5, <2>1, <2>2 DEF PublishTask
  <1>6. CASE SaveTask
    <2>1. /\ pc = "save" /\ next' = [next EXCEPT ![T] = NextRunAt(T, now)] /\ T \in Task
          /\ UNCHANGED <<task, sent, now, crashes>> /\ pc' \notin {"create", "decide", "save"}
      BY <1>0, <1>6, TurnOfTask DEF SaveTask, ReturnTask, queue, Stored, Slots
    <2>2. Repeats' = Repeats
      BY <2>1 DEF Repeats, NextRunAt
    <2>3. /\ NextRunAt(T, now) \in Nat /\ next'[T] = NextRunAt(T, now)
          /\ \A t \in Task : t # T => next'[t] = next[t]
      BY <1>0, <2>1, NextRunType
    <2>4. \A i \in Published : task[i] \in Task /\ sent[i] \in Nat /\ sent[i] <= now
      BY <1>0 DEF Slots
    <2>5. ASSUME NEW t, t = T PROVE ~ Behind(t)'
      <3> SUFFICES ASSUME NEW i \in Published, task[i] = T
                   PROVE  ~ (next'[T] < NextRunAt(T, sent[i]))
        BY <2>1, <2>5 DEF Behind, NextRunAt
      <3>1. NextRunAt(T, sent[i]) <= NextRunAt(T, now) /\ NextRunAt(T, sent[i]) \in Nat
        BY <1>0, <2>1, <2>4, NextRunKeepsOrder, NextRunType
      <3> QED BY <2>3, <3>1
    <2>6. Owing' \subseteq Owing
      <3> SUFFICES ASSUME NEW t \in Owing' PROVE t \in Owing
        OBVIOUS
      <3>1. t \in Task /\ Behind(t)' /\ t # T
        BY <2>5 DEF Owing
      <3>2. Behind(t)
        BY <2>1, <2>3, <3>1 DEF Behind, NextRunAt
      <3> QED BY <3>1, <3>2 DEF Owing
    <2>7. IsFiniteSet(Owing') /\ Cardinality(Owing') \in Nat
          /\ Cardinality(Owing') <= Cardinality(Owing)
      BY <1>0, <2>6, NoMore
    <2>8. Cardinality(Repeats') + Cardinality(Owing') <= crashes'
      BY <1>0, <2>1, <2>2, <2>7 DEF Slots
    <2>9. \A i \in Published : next'[task[i]] # NoRow
      <3> SUFFICES ASSUME NEW i \in Published PROVE next'[task[i]] # NoRow
        OBVIOUS
      <3>1. CASE task[i] = T
        BY <2>3, <3>1
      <3>2. CASE task[i] # T
        BY <2>3, <2>4, <3>2 DEF Slots
      <3> QED BY <3>1, <3>2
    <2> QED BY <2>1, <2>4, <2>7, <2>8, <2>9 DEF Slots
  <1>7. ASSUME NEW k \in Node, Crash(k) PROVE Slots'
    <2>1. /\ UNCHANGED <<next, task, sent, now, stm>> /\ crashes' = crashes + 1
          /\ \/ pc' = "wait"
             \/ UNCHANGED <<pc, turn>>
      BY <1>7 DEF Crash, rows
    <2>2. CASE UNCHANGED <<pc, turn>>
      <3>1. crashes \in Nat /\ now \in Nat
        BY <1>0 DEF Control, RowType
      <3>2. T' = T /\ now' >= now /\ crashes' >= crashes
        BY <2>1, <2>2, <3>1 DEF T
      <3> QED BY <1>0, <2>1, <2>2, <3>2, SlotsFrame DEF Slots
    <2>3. CASE pc' = "wait"
      <3>1. Repeats' = Repeats /\ \A t : Behind(t)' <=> Behind(t)
        BY <2>1, RepeatsStay
      <3>2. Owing' \subseteq Owing \cup {T}
        BY <3>1 DEF Owing
      <3>3. IsFiniteSet(Owing') /\ Cardinality(Owing') \in Nat
            /\ Cardinality(Owing') <= Cardinality(Owing) + 1
        BY <1>0, <3>2, OneMore
      <3>4. Cardinality(Repeats') + Cardinality(Owing') <= crashes'
        BY <1>0, <2>1, <3>1, <3>3 DEF Slots
      <3> QED BY <2>1, <2>3, <3>3, <3>4 DEF Slots
    <2> QED BY <2>1, <2>2, <2>3
  <1>8. CASE \/ \E k \in Node : (\E m \in Msg : Deliver(k, m)) \/ Handle(k)
             \/ \E m \in Msg : Timeout(m)
             \/ \E r \in runs : EndRun(r)
             \/ Pass \/ UNCHANGED vars
    <2>1. UNCHANGED <<next, task, sent, pc, turn, stm, crashes>> /\ now' >= now
      BY <1>0, <1>8 DEF Deliver, Handle, Timeout, EndRun, Pass, vars, producer, rows, queue
    <2> QED BY <1>0, <2>1, SlotsFrame DEF Slots, T
  <1> QED
    BY <1>1, <1>2, <1>3, <1>4, <1>5, <1>6, <1>7, <1>8 DEF Next, Produce

\* At first nothing was published.
LEMMA SlotsInit == Init => Slots
  <1> SUFFICES ASSUME Init PROVE Slots
    OBVIOUS
  <1>1. Len(task) = 0 /\ pc = "wait" /\ crashes = 0 /\ Published = {}
    BY DEF Init
  <1>2. Repeats = {} /\ Owing = {}
    BY <1>1 DEF Repeats, Owing, Behind
  <1> QED BY <1>1, <1>2, FS_EmptySet DEF Slots

\* While MariaDB answers, each crash makes at most one message be published
\* for a slot an earlier message of its task was for, whenever it comes between
\* the producer's calls, however the clock moves on and whatever nsqd refuses
\* or delivers again: publishing and then storing the next run costs a repeated
\* task for each restart, and no more.
THEOREM RepeatsAreCrashes ==
  ASSUME Stored PROVE Spec => []OncePerSlot
<1> DEFINE IInv == Control /\ InHand /\ Slots
<1>1. Init => IInv
  BY InitControl, SlotsInit DEF Init, InHand
<1>2. IInv /\ [Next]_vars => IInv'
  BY ControlStep, InHandStep, SlotsStep
<1>3. IInv => OncePerSlot
  <2> SUFFICES ASSUME IInv PROVE Cardinality(Repeats) <= crashes
    BY DEF OncePerSlot
  <2>1. Cardinality(Repeats) \in Nat /\ Cardinality(Owing) \in Nat /\ crashes \in Nat
    BY RepeatsFinite, FS_CardinalityType, Sizes DEF Slots, Control, RowType
  <2> QED BY <2>1 DEF Slots
<1> QED BY <1>1, <1>2, <1>3, PTL DEF Spec

=============================================================================
