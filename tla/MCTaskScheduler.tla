--------------------------- MODULE MCTaskScheduler ---------------------------
(* A task that runs in the first hour of each day and one that runs every   *)
(* two hours, on days of two hours of two ticks.                            *)
EXTENDS TaskScheduler

CONSTANTS daily, hourly, n1, n2

BothTasks == <<daily, hourly>>
DailyTask == <<daily>>
HourlyTask == <<hourly>>
MCAhead   == [t \in Task |-> 2]
MCAt      == [t \in Task |-> IF t = daily THEN 1 ELSE 0]
==============================================================================
