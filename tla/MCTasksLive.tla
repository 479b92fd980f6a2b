---------------------------- MODULE MCTasksLive ----------------------------
(* The instance of MCTaskScheduler with tighter bounds of what nothing      *)
(* promises: crashes, timeouts and the clock.  A crash comes in the first   *)
(* slots, where the queue has room for its repeat, and stops the clock      *)
(* there; the message that times out is the first.                          *)
EXTENDS MCTaskScheduler

Crashed == 2        \* the last tick of who crashes

MCNext ==
    \/ Produce
    \/ \E n \in Node :
          \/ \E m \in Msg : Deliver(n, m)
          \/ Handle(n)
          \/ now <= Crashed /\ Crash(n)
    \/ Timeout(1)
    \/ \E r \in runs : EndRun(r)
    \/ (crashes > 0 => now < Crashed) /\ Pass

MCSpec == Init /\ [][MCNext]_vars /\ Fairness
============================================================================
