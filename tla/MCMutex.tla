------------------------------ MODULE MCMutex ------------------------------
(* Mutexes shared by two or three kernel tasks.                           *)
EXTENDS Mutex, TLC

CONSTANTS t1, t2, t3

MCTasks2 == {t1, t2}
MCTasks3 == {t1, t2, t3}
MCNone == {}
MCOne == {1}
MCSymmetry == Permutations(MCTasks3)
============================================================================
