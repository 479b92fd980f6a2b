---------------------------- MODULE TaskScheduler ----------------------------
(***************************************************************************)
(* The scheduled tasks: the producer loop of the master node, which every  *)
(* ten seconds pushes PLIDs for the crawler and publishes the tasks that   *)
(* are due (takealot/queue/scheduled_task_producer.go), the queue, and the *)
(* handlers, which start a goroutine for a task and finish its message at  *)
(* once (scheduled_task_handler.go:24-56).                                 *)
(*                                                                         *)
(* One action of the producer is one of its calls to MariaDB or NSQ; the   *)
(* clock may advance and a node may crash between any two of them.  What   *)
(* the goroutines do with the products is not modelled here.               *)
(***************************************************************************)
EXTENDS Integers, Sequences, FiniteSets

CONSTANTS
    Schedule,       \* the tasks in the order Run publishes them
    Daily,          \* the tasks that run at an hour of the day
    Ahead,          \* how many hours ahead NextRun looks
    At,             \* the hour of the day of a daily task
    Hour, Day,      \* ticks of the clock
    Batch,          \* the crawler's NumberOfNewProductTasks
    Node,           \* processes that consume scheduled tasks
    Master,         \* the one that runs the producer too
    Faults,         \* the failures that may happen
    NoRow,          \* there is no such row
    NoMsg,          \* no message in hand, no owner
    MaxTime, MaxPlid, MaxMsgs, MaxCrashes, MaxDeliveries    \* bounds

Task == {Schedule[i] : i \in 1 .. Len(Schedule)}
Msg  == 1 .. MaxMsgs

\* "read"    a SELECT outside of a transaction fails: FirstOrInit says "no row"
\* "commit"  Commit returns an error, its rows stored or not
\* "publish" nsqd refuses the message of a task
\* "push"    nsqd refuses a PLID
\* "timeout" nsqd queues a message again that is still being handled
AllFaults == {"read", "commit", "publish", "push", "timeout"}

ASSUME ScheduleAssumption ==
    /\ Schedule \in Seq(Task) /\ Schedule # <<>>
    /\ Daily \subseteq Task
    /\ Ahead \in [Task -> Nat]
    /\ At \in [Task -> Nat]
    /\ Hour \in Nat \ {0} /\ Day \in Nat \ {0}
    /\ \A t \in Task : Ahead[t] * Hour >= IF t \in Daily THEN Day ELSE Hour
    /\ Batch \in Nat

ASSUME NodeAssumption ==
    /\ Master \in Node
    /\ Faults \subseteq AllFaults
    /\ NoRow \notin Int
    /\ NoMsg \notin Node /\ NoMsg \notin Msg \X Nat
    /\ {MaxTime, MaxPlid, MaxMsgs, MaxCrashes, MaxDeliveries} \subseteq Nat

VARIABLES
    now,            \* the clock
    next,           \* scheduled_task: next_run of each task
    last,           \* crawler: last_pl_id
    crawled,        \* PLIDs the crawler has published
    pc,             \* producer: its next call
    turn,           \* producer: the task it looks at
    stm,            \* producer: its ScheduledTaskModel
    crawler,        \* producer: its CrawlerModel
    count,          \* producer: PLIDs pushed in this round
    task,           \* queue: the task each message carries
    sent,           \* queue: when each message was published
    queued,         \* queue: messages to be delivered
    owner,          \* queue: the node whose FIN counts
    attempts,       \* queue: deliveries of each message
    hand,           \* handler: the message and attempt it was given
    runs,           \* handler: the goroutines under way
    started,        \* handler: goroutines started for each message
    done,           \* messages whose task has run to its end
    lost,           \* history: messages a crash has left without a run
    crashes         \* crashes so far

producer == <<pc, turn, stm, crawler, count>>
rows     == <<next, last>>
queue    == <<task, sent, queued, owner, attempts>>
handler  == <<hand, runs, started, done, lost>>
vars     == <<now, rows, crawled, producer, queue, handler, crashes>>

Published == 1 .. Len(task)

\* FirstRun lies two days back (or at the last midnight): before the clock starts.
FirstRun == 0

\* NextRun: some hours ahead and down to the hour, or tomorrow at an hour.
NextRunAt(t, n) ==
    LET then == n + Ahead[t] * Hour
    IN  IF t \in Daily THEN (then - (then % Day)) + At[t] * Hour
                       ELSE then - (then % Hour)

Init ==
    /\ now = 1
    /\ next = [t \in Task |-> NoRow]
    /\ last = NoRow
    /\ crawled = {}
    /\ pc = "wait"
    /\ turn = 0
    /\ stm = [next |-> 0, id |-> FALSE]
    /\ crawler = [last |-> 0, id |-> FALSE]
    /\ count = 0
    /\ task = <<>>
    /\ sent = <<>>
    /\ queued = {}
    /\ owner = [m \in Msg |-> NoMsg]
    /\ attempts = [m \in Msg |-> 0]
    /\ hand = [n \in Node |-> NoMsg]
    /\ runs = {}
    /\ started = [m \in Msg |-> 0]
    /\ done = {}
    /\ lost = {}
    /\ crashes = 0
-----------------------------------------------------------------------------
(***************************************************************************)
(* The crawler.                                                            *)
(***************************************************************************)

\* The ticker fires; Ping at worst makes a new NSQ producer.
Tick ==
    /\ pc = "wait"
    /\ pc' = "crawl"
    /\ UNCHANGED <<now, rows, crawled, turn, stm, crawler, count, queue, handler, crashes>>

\* FindCrawlerModelByName, without a row a model that starts at the initial
\* PLID; no bound of PLIDs left stands for a crawler that is switched off.
FindCrawler ==
    /\ pc = "crawl"
    /\ count' = 0
    /\ \/ /\ last # NoRow
          /\ crawler' = [last |-> last, id |-> TRUE]
       \/ /\ last = NoRow \/ "read" \in Faults
          /\ crawler' = [last |-> 0, id |-> FALSE]
    /\ IF crawler'.last + Batch <= MaxPlid
         THEN pc' = "push" /\ UNCHANGED turn
         ELSE pc' = "find" /\ turn' = 1
    /\ UNCHANGED <<now, rows, crawled, stm, queue, handler, crashes>>

\* LastPLID++ and Publish, whose error is logged.
PushPlid ==
    /\ pc = "push"
    /\ count < Batch
    /\ count' = count + 1
    /\ crawler' = [crawler EXCEPT !.last = @ + 1]
    /\ \/ crawled' = crawled \cup {crawler.last + 1}
       \/ "push" \in Faults /\ UNCHANGED crawled
    /\ UNCHANGED <<now, rows, pc, turn, stm, queue, handler, crashes>>

\* Mutant: the crawler's row is written before the batch is pushed.
SaveCrawler_First ==
    /\ pc = "push"
    /\ count = 0
    /\ last' = crawler.last + Batch
    /\ crawler' = [crawler EXCEPT !.id = TRUE]
    /\ UNCHANGED <<now, next, crawled, pc, turn, stm, count, queue, handler, crashes>>

\* UpserCrawlerModel: an insert, an update of the row with the model's ID, or,
\* if the model has none, an insert that fails on the name unnoticed.
SaveCrawler ==
    /\ pc = "push"
    /\ count = Batch
    /\ \/ last' = IF last = NoRow \/ crawler.id THEN crawler.last ELSE last
       \/ "commit" \in Faults /\ UNCHANGED last
    /\ pc' = "find"
    /\ turn' = 1
    /\ UNCHANGED <<now, next, crawled, stm, crawler, count, queue, handler, crashes>>
-----------------------------------------------------------------------------
(***************************************************************************)
(* publishScheduledTask, for the task whose turn it is.                    *)
(***************************************************************************)

T == Schedule[turn]

\* Mutant: one turn too many.
ReturnTask_Past ==
    IF turn <= Len(Schedule) THEN pc' = "find" /\ turn' = turn + 1
                             ELSE pc' = "wait" /\ turn' = 0

\* It returns: the next task's turn, or the next tick.
ReturnTask ==
    IF turn < Len(Schedule) THEN pc' = "find" /\ turn' = turn + 1
                            ELSE pc' = "wait" /\ turn' = 0

FindTask ==
    /\ pc = "find"
    /\ \/ /\ next[T] # NoRow
          /\ stm' = [next |-> next[T], id |-> TRUE]
          /\ pc' = "decide"
       \/ /\ next[T] = NoRow \/ "read" \in Faults
          /\ stm' = [next |-> FirstRun, id |-> FALSE]
          /\ pc' = "create"
    /\ UNCHANGED <<now, rows, crawled, turn, crawler, count, queue, handler, crashes>>

\* UpsertScheduledTaskModel of a new model; if there is a row already its
\* insert fails on the name, unnoticed, and the model has no ID.
CreateTask ==
    /\ pc = "create"
    /\ \/ /\ next' = IF next[T] = NoRow THEN [next EXCEPT ![T] = stm.next] ELSE next
          /\ stm' = [stm EXCEPT !.id = next[T] = NoRow]
          /\ pc' = "decide"
          /\ UNCHANGED turn
       \/ /\ "commit" \in Faults
          /\ \/ next' = IF next[T] = NoRow THEN [next EXCEPT ![T] = stm.next] ELSE next
             \/ UNCHANGED next
          /\ ReturnTask
          /\ UNCHANGED stm
    /\ UNCHANGED <<now, last, crawled, crawler, count, queue, handler, crashes>>

\* Not due yet.
SkipTask ==
    /\ pc = "decide"
    /\ now <= stm.next
    /\ ReturnTask
    /\ UNCHANGED <<now, rows, crawled, stm, crawler, count, queue, handler, crashes>>

\* Mutant: a task is published whether it is due or not.
PublishTask_Always ==
    /\ pc = "decide"
    /\ Len(task) < MaxMsgs
    /\ task' = Append(task, T)
    /\ sent' = Append(sent, now)
    /\ queued' = queued \cup {Len(task) + 1}
    /\ pc' = "save"
    /\ UNCHANGED <<now, rows, crawled, turn, stm, crawler, count, owner, attempts, handler, crashes>>

\* Mutant: a task is published in the one tick in which it becomes due.
PublishTask_OnTime ==
    /\ pc = "decide"
    /\ now = stm.next + 1
    /\ Len(task) < MaxMsgs
    /\ task' = Append(task, T)
    /\ sent' = Append(sent, now)
    /\ queued' = queued \cup {Len(task) + 1}
    /\ pc' = "save"
    /\ UNCHANGED <<now, rows, crawled, turn, stm, crawler, count, owner, attempts, handler, crashes>>

\* Mutant: an error of Publish does not return.
PublishTask_Unchecked ==
    /\ pc = "decide"
    /\ now > stm.next
    /\ Len(task) < MaxMsgs
    /\ pc' = "save"
    /\ \/ /\ task' = Append(task, T)
          /\ sent' = Append(sent, now)
          /\ queued' = queued \cup {Len(task) + 1}
       \/ UNCHANGED <<task, sent, queued>>
    /\ UNCHANGED <<now, rows, crawled, turn, stm, crawler, count, owner, attempts, handler, crashes>>

\* The task is due.  The bound of messages makes Publish fail as nsqd may.
PublishTask ==
    /\ pc = "decide"
    /\ now > stm.next
    /\ \/ /\ Len(task) < MaxMsgs
          /\ task' = Append(task, T)
          /\ sent' = Append(sent, now)
          /\ queued' = queued \cup {Len(task) + 1}
          /\ pc' = "save"
          /\ UNCHANGED turn
       \/ /\ "publish" \in Faults \/ Len(task) = MaxMsgs
          /\ ReturnTask
          /\ UNCHANGED <<task, sent, queued>>
    /\ UNCHANGED <<now, rows, crawled, stm, crawler, count, owner, attempts, handler, crashes>>

\* UpsertScheduledTaskModel with the next run, which updates by the model's ID.
SaveTask ==
    /\ pc = "save"
    /\ \/ next' = IF stm.id THEN [next EXCEPT ![T] = NextRunAt(T, now)] ELSE next
       \/ "commit" \in Faults /\ UNCHANGED next
    /\ ReturnTask
    /\ UNCHANGED <<now, last, crawled, stm, crawler, count, queue, handler, crashes>>
-----------------------------------------------------------------------------
(***************************************************************************)
(* The queue and the handlers.                                             *)
(***************************************************************************)

Deliver(n, m) ==
    /\ hand[n] = NoMsg
    /\ m \in queued
    /\ queued' = queued \ {m}
    /\ owner' = [owner EXCEPT ![m] = n]
    /\ attempts' = [attempts EXCEPT ![m] = @ + 1]
    /\ hand' = [hand EXCEPT ![n] = <<m, attempts[m] + 1>>]
    /\ UNCHANGED <<now, rows, crawled, producer, task, sent, runs, started, done, lost, crashes>>

Timeout(m) ==
    /\ "timeout" \in Faults
    /\ owner[m] \in Node
    /\ attempts[m] < MaxDeliveries
    /\ owner' = [owner EXCEPT ![m] = NoMsg]
    /\ queued' = queued \cup {m}
    /\ UNCHANGED <<now, rows, crawled, producer, task, sent, attempts, handler, crashes>>

\* The handler returns nil: FIN, which counts if the message is still its own.
Fin(n, m) ==
    /\ owner' = IF owner[m] = n THEN [owner EXCEPT ![m] = NoMsg] ELSE owner
    /\ hand' = [hand EXCEPT ![n] = NoMsg]

\* Mutant: no limit on attempts.
Handle_Floods(n) ==
    /\ hand[n] # NoMsg
    /\ LET m == hand[n][1]
       IN  /\ runs' = runs \cup {<<n, m, hand[n][2]>>}
           /\ started' = [started EXCEPT ![m] = @ + 1]
           /\ Fin(n, m)
    /\ UNCHANGED <<now, rows, crawled, producer, task, sent, queued, attempts, done, lost, crashes>>

\* Mutant: a second delivery starts nothing.
Handle_Once(n) ==
    /\ hand[n] # NoMsg
    /\ LET m == hand[n][1]
       IN  /\ IF hand[n][2] > 1
                THEN UNCHANGED <<runs, started>>
                ELSE /\ runs' = runs \cup {<<n, m, hand[n][2]>>}
                     /\ started' = [started EXCEPT ![m] = @ + 1]
           /\ Fin(n, m)
    /\ UNCHANGED <<now, rows, crawled, producer, task, sent, queued, attempts, done, lost, crashes>>

\* HandleMessage: go task.handle...ScheduledTask, but not a third time.
Handle(n) ==
    /\ hand[n] # NoMsg
    /\ LET m == hand[n][1]
       IN  /\ IF hand[n][2] > 2
                THEN UNCHANGED <<runs, started>>
                ELSE /\ runs' = runs \cup {<<n, m, hand[n][2]>>}
                     /\ started' = [started EXCEPT ![m] = @ + 1]
           /\ Fin(n, m)
    /\ UNCHANGED <<now, rows, crawled, producer, task, sent, queued, attempts, done, lost, crashes>>

\* A goroutine comes to the end of its task.
EndRun(r) ==
    /\ r \in runs
    /\ runs' = runs \ {r}
    /\ done' = done \cup {r[2]}
    /\ UNCHANGED <<now, rows, crawled, producer, queue, hand, started, lost, crashes>>

\* Their run was under way on the node, or was to begin in their second delivery.
LostBy(n) ==
    {r[2] : r \in {x \in runs : x[1] = n}}
        \cup {m \in Msg : hand[n] # NoMsg /\ hand[n][1] = m /\ hand[n][2] > 1}

\* A node ends and is started again: its goroutines are gone, the producer
\* starts over, and nsqd queues again what the node has not finished.
Crash(n) ==
    /\ crashes < MaxCrashes
    /\ crashes' = crashes + 1
    /\ runs' = {r \in runs : r[1] # n}
    /\ lost' = lost \cup LostBy(n)
    /\ hand' = [hand EXCEPT ![n] = NoMsg]
    /\ queued' = queued \cup {m \in Msg : owner[m] = n}
    /\ owner' = [m \in Msg |-> IF owner[m] = n THEN NoMsg ELSE owner[m]]
    /\ IF n = Master
         THEN /\ pc' = "wait"
              /\ turn' = 0
         ELSE UNCHANGED <<pc, turn>>
    /\ UNCHANGED <<now, rows, crawled, stm, crawler, count, task, sent, attempts,
                   started, done>>

Pass ==
    /\ now < MaxTime
    /\ now' = now + 1
    /\ UNCHANGED <<rows, crawled, producer, queue, handler, crashes>>

Produce ==
    \/ Tick \/ FindCrawler \/ PushPlid \/ SaveCrawler
    \/ FindTask \/ CreateTask \/ SkipTask \/ PublishTask \/ SaveTask

Next ==
    \/ Produce
    \/ \E n \in Node : (\E m \in Msg : Deliver(n, m)) \/ Handle(n) \/ Crash(n)
    \/ \E m \in Msg : Timeout(m)
    \/ \E r \in runs : EndRun(r)
    \/ Pass

Spec == Init /\ [][Next]_vars

\* Goroutines are scheduled, nsqd delivers, and a task comes to its end.
Fairness ==
    /\ WF_vars(Produce)
    /\ \A n \in Node : WF_vars((\E m \in Msg : Deliver(n, m)) \/ Handle(n))
    /\ WF_vars(\E r \in runs : EndRun(r))

FairSpec == Spec /\ Fairness
-----------------------------------------------------------------------------
\* The producer's turn is a task's while it looks at one, rows and models have
\* times and PLIDs, and messages exist before they are delivered or handled.
TypeOK ==
    /\ now \in Nat
    /\ next \in [Task -> Nat \cup {NoRow}]
    /\ last \in Nat \cup {NoRow}
    /\ crawled \subseteq Nat
    /\ pc \in {"wait", "crawl", "push", "find", "create", "decide", "save"}
    /\ turn \in 0 .. Len(Schedule)
    /\ pc \in {"find", "create", "decide", "save"} => turn > 0
    /\ stm \in [next : Nat, id : BOOLEAN]
    /\ crawler \in [last : Nat, id : BOOLEAN]
    /\ count \in 0 .. Batch
    /\ task \in Seq(Task) /\ Len(task) <= MaxMsgs
    /\ sent \in Seq(Nat) /\ Len(sent) = Len(task)
    /\ queued \subseteq Published
    /\ owner \in [Msg -> Node \cup {NoMsg}]
    /\ attempts \in [Msg -> Nat]
    /\ hand \in [Node -> (Msg \X Nat) \cup {NoMsg}]
    /\ runs \subseteq Node \X Msg \X Nat
    /\ started \in [Msg -> Nat]
    /\ done \subseteq Published
    /\ lost \subseteq Msg
    /\ crashes \in 0 .. MaxCrashes

\* The messages that were published for a slot an earlier message was for.
Repeats ==
    {j \in Published : \E i \in 1 .. j - 1 :
        task[i] = task[j] /\ sent[j] <= NextRunAt(task[i], sent[i])}

\* While rows are read and stored, a task is published once for a slot, and once
\* more for each crash at most, whatever nsqd refuses and whenever the clock moves
\* on: there is one between a publication and its row (scheduled_task_producer.go:83-91).
OncePerSlot == Cardinality(Repeats) <= crashes

\* A task's next run moves on only when the task was published after the run
\* was due, whatever crashes or fails: no slot is skipped.
NoSlotSkipped ==
    [][\A t \in Task :
          next[t] # NoRow /\ next'[t] # next[t] =>
             \E i \in Published : task[i] = t /\ sent[i] > next[t]]_vars

\* The crawler's row is at most as far as what has been published: a crash or
\* a failed commit repeats PLIDs and never leaves one out, as long as nsqd
\* takes them.
CrawledAll == last # NoRow => 1 .. last \subseteq crawled

Due(t) == next[t] # NoRow /\ now > next[t]

\* A task that is due does not stay so: the producer comes to it, publishes it
\* and moves its next run on.
DueIsPublished == \A t \in Task : Due(t) ~> ~Due(t)

\* However often its message is delivered, a task is started at most twice for
\* it: "we dont want to flood the queue with these" (scheduled_task_handler.go:30).
NotFlooded == \A m \in Msg : started[m] <= 2

\* A task that was published runs to its end, whatever crashes, unless a crash
\* takes its goroutine with it, whose message is finished already, or the node
\* that was to start it in the last delivery that does
\* (scheduled_task_handler.go:31, 42).
PublishedRuns == \A m \in Msg : m \in Published ~> m \in done \cup lost
==============================================================================
