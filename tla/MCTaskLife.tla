----------------------------- MODULE MCTaskLife -----------------------------
(* The system killer and two other tasks.                                  *)
EXTENDS TaskLife

CONSTANTS t1, t2

MCTasks == {Killer, t1, t2}
MCNone == {}
MCSignaller == {t1}
=============================================================================
