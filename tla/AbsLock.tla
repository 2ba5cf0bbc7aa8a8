------------------------------ MODULE AbsLock ------------------------------
(* What include/os/mutex.h promises its callers: every mutex has at most  *)
(* one holder, and only the holder gives it up.                           *)
CONSTANTS Holders, Locks, Nobody

VARIABLE holder      \* lock -> the task that has it, or Nobody

AbsInit == holder = [m \in Locks |-> Nobody]

Acquire(t, m) == /\ holder[m] = Nobody
                 /\ holder' = [holder EXCEPT ![m] = t]
Release(t, m) == /\ holder[m] = t
                 /\ holder' = [holder EXCEPT ![m] = Nobody]

AbsNext == \E t \in Holders, m \in Locks : Acquire(t, m) \/ Release(t, m)

AbsSpec == AbsInit /\ [][AbsNext]_holder
============================================================================
