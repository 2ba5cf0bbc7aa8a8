------------------------------ MODULE MCSched ------------------------------
(* The scheduler with two or three tasks and three priorities.            *)
EXTENDS Sched

CONSTANTS t1, t2, t3

MCTasks2 == {t1, t2}
MCTasks3 == {t1, t2, t3}
MCNone == {}
MCUser == {t1}
MCTimeouts == {1, 2}
============================================================================
