------------------------------- MODULE Mutex -------------------------------
(***************************************************************************)
(* kernel/mutex.c on top of the scheduler.  A waiter links its own wait    *)
(* node into the list of the mutex in one critical section and suspends    *)
(* itself in the next one; mutex_unlock takes every waiter off the list    *)
(* and wakes it.  The wait lists are modelled on the pointers (module      *)
(* List): the node of a mutex is the mutex, the node of a task the task.   *)
(***************************************************************************)
EXTENDS Sched, FiniteSets

CONSTANT Mutexes     \* numbers: a task takes them in increasing order only

ASSUME MutexesAssumption == Mutexes \subseteq Nat /\ Mutexes # {}

L == INSTANCE List

VARIABLES
  mcount,      \* mutex -> its count field
  wl,          \* the links of the wait lists
  mutex_get,   \* task -> the mutexes it holds (the list task->mutex_get)
  want,        \* task -> the mutex of the call it is in
  ms,          \* task -> the timeout of the call it is in
  cursor       \* the list variable of the loop in mutex_unlock

mvars == <<mcount, wl, mutex_get, want, ms, cursor>>
allvars == <<vars, mvars>>

WaitNodes == Mutexes \cup AllTasks
SchedUnchanged ==
  UNCHANGED <<sch, clocks, current, next_run, in_interrupt, tick_list>>

Goto(t, where) == pc' = [pc EXCEPT ![t] = where]

----------------------------------------------------------------------------
(* mutex_lock_timeout                                                      *)

\* The callers nest mutexes in a fixed order (slab_mutex, then zone_mutex)
\* and never take one they hold.
LockCall(t, m, w) ==
  /\ Runs(t, "run")
  /\ \A i \in 1 .. Len(mutex_get[t]) : mutex_get[t][i] < m
  /\ want' = [want EXCEPT ![t] = m]
  /\ ms' = [ms EXCEPT ![t] = w]
  /\ Goto(t, "lock")
  /\ SchedUnchanged /\ UNCHANGED <<mcount, wl, mutex_get, cursor>>

\* The critical section of one round of the loop.
LockTry(t) ==
  /\ Runs(t, "lock")
  /\ IF mcount[want[t]] # 0
     THEN /\ wl' = L!ListAddTail(wl, want[t], t)
          /\ Goto(t, "wait")
          /\ UNCHANGED <<mcount, mutex_get>>
     ELSE /\ mcount' = [mcount EXCEPT ![want[t]] = 1]
          /\ mutex_get' = [mutex_get EXCEPT ![t] = Append(@, want[t])]
          /\ Goto(t, "run")
          /\ UNCHANGED wl
  /\ SchedUnchanged /\ UNCHANGED <<want, ms, cursor>>

\* suspend_task_timeout: its critical section, then its sched().
LockSuspend(t) ==
  Runs(t, "wait") /\ Suspend(t, ms[t], "sched") /\ UNCHANGED mvars
LockSched(t) ==
  Runs(t, "sched") /\ CallSched(t, "lockret") /\ UNCHANGED mvars

\* Mutation: a task that was woken takes the mutex without a new test.
LockReturnOwning(t) ==
  /\ Runs(t, "lockret")
  /\ mcount' = [mcount EXCEPT ![want[t]] = 1]
  /\ mutex_get' = [mutex_get EXCEPT ![t] = Append(@, want[t])]
  /\ Goto(t, "run")
  /\ SchedUnchanged /\ UNCHANGED <<wl, want, ms, cursor>>

\* Its result: after a timeout the task takes its node off the list and
\* gives up, otherwise it tries again.
LockReturn(t) ==
  /\ Runs(t, "lockret")
  /\ wl' = IF time_out[t] THEN L!ListUnlink(wl, t) ELSE wl
  /\ Goto(t, IF time_out[t] THEN "run" ELSE "lock")
  /\ SchedUnchanged /\ UNCHANGED <<mcount, mutex_get, want, ms, cursor>>

----------------------------------------------------------------------------
(* mutex_unlock: one critical section, from UnlockCall to UnlockDone.      *)

UnlockCall(t, m) ==
  /\ Runs(t, "run")
  /\ On(mutex_get[t], m)
  /\ mcount[m] # 0
  /\ mcount' = [mcount EXCEPT ![m] = 0]
  /\ cursor' = wl.next[m]
  /\ want' = [want EXCEPT ![t] = m]
  /\ Goto(t, "unlock")
  /\ SchedUnchanged /\ UNCHANGED <<wl, mutex_get, ms>>

\* Mutations: waiters are woken and stay linked; the owner keeps the mutex
\* on its list.
UnlockWakeLinked(t) ==
  /\ Runs(t, "unlock")
  /\ cursor \in AllTasks
  /\ cursor' = wl.next[cursor]
  /\ sch' = Woken(sch, cursor)
  /\ run_time' = WokenSlice(sch, cursor, run_time)
  /\ UNCHANGED <<wait_time, time_out, current, next_run, in_interrupt,
                 tick_list, pc, mcount, mutex_get, wl, want, ms>>
UnlockDoneKept(t) ==
  /\ Runs(t, "unlock")
  /\ cursor = want[t]
  /\ Goto(t, "run")
  /\ SchedUnchanged /\ UNCHANGED <<mcount, mutex_get, wl, want, ms, cursor>>

UnlockWake(t) ==
  /\ Runs(t, "unlock")
  /\ cursor \in AllTasks
  /\ wl' = L!ListUnlink(wl, cursor)
  /\ cursor' = wl'.next[cursor]
  /\ sch' = Woken(sch, cursor)
  /\ run_time' = WokenSlice(sch, cursor, run_time)
  /\ UNCHANGED <<wait_time, time_out, current, next_run, in_interrupt,
                 tick_list, pc, mcount, mutex_get, want, ms>>

UnlockDone(t) ==
  /\ Runs(t, "unlock")
  /\ cursor = want[t]
  /\ mutex_get' = [mutex_get EXCEPT ![t] = ListDel(@, want[t])]
  /\ Goto(t, "run")
  /\ SchedUnchanged /\ UNCHANGED <<mcount, wl, want, ms, cursor>>

InUnlock == pc[current] = "unlock"

----------------------------------------------------------------------------
MutexInit ==
  /\ Init
  /\ mcount = [m \in Mutexes |-> 0]
  /\ wl = [next |-> [n \in WaitNodes |-> n], pre |-> [n \in WaitNodes |-> n]]
  /\ mutex_get = [t \in AllTasks |-> <<>>]
  /\ want = [t \in AllTasks |-> CHOOSE m \in Mutexes : TRUE]
  /\ ms = [t \in AllTasks |-> Forever]
  /\ cursor = CHOOSE m \in Mutexes : TRUE

LockStep(t) ==
  \/ \E m \in Mutexes, w \in Timeouts \cup {Forever} : LockCall(t, m, w)
  \/ LockTry(t) \/ LockSuspend(t) \/ LockSched(t) \/ LockReturn(t)
  \/ \E m \in Mutexes : UnlockCall(t, m)
  \/ UnlockWake(t) \/ UnlockDone(t)

MutexNext ==
  \/ ~InUnlock /\ Tick /\ UNCHANGED mvars
  \/ IdleSched /\ UNCHANGED mvars
  \/ \E new \in Tasks : Fork(Idle, new, "run") /\ UNCHANGED mvars
  \/ \E t \in Tasks : LockStep(t)

MutexSpec == MutexInit /\ [][MutexNext]_allvars

----------------------------------------------------------------------------
(* Properties.                                                             *)

Holds(t, m) == On(mutex_get[t], m)

\* Two tasks never hold one mutex, whatever the preemptions between the
\* test of m->count, the suspension and the retry; and outside mutex_unlock
\* the count says whether it is held, so nobody waits for a free mutex.
MutualExclusion ==
  \A m \in Mutexes :
    /\ \A t, u \in Tasks : Holds(t, m) /\ Holds(u, m) => t = u
    /\ ~InUnlock => (mcount[m] = 1 <=> \E t \in Tasks : Holds(t, m))

\* The members of m->wait in the order list_for_each visits them; more than
\* there are tasks only when the walk does not come back to its head.
Waiters(m) == L!Walk(wl, m, Cardinality(AllTasks) + 1)
Waiting(t, m) == On(Waiters(m), t)

\* The wait list of every mutex is a proper list of tasks that are in
\* mutex_lock for it: each waiter is on it once and on no other, and pre
\* mirrors next, so that a later list_del removes that waiter and no other.
WaitListSound ==
  \A m \in Mutexes :
    LET s == Waiters(m)
    IN  /\ Len(s) <= Cardinality(AllTasks)
        /\ \A i \in 1 .. Len(s) :
             /\ s[i] \in Tasks
             /\ want[s[i]] = m /\ pc[s[i]] \in {"wait", "sched", "lockret"}
             /\ wl.pre[wl.next[s[i]]] = s[i]
        /\ wl.pre[wl.next[m]] = m

\* "set m->count to 0, and wake up all the task which wait for this mutex"
\* (mutex_unlock): a task asleep in mutex_lock is on the wait list of its
\* mutex, where the next mutex_unlock finds and wakes it.
SleeperIsOnList ==
  \A t \in Tasks :
    sch.state[t] = "SLEEP" /\ pc[t] = "sched" => Waiting(t, want[t])

\* mutex_lock and mutex_unlock implement the abstract lock, where the holder
\* of m is the task whose mutex_get list m is on (Idle stands for nobody: it
\* takes no mutex here).
HolderOf(m) == IF \E t \in Tasks : Holds(t, m)
               THEN CHOOSE t \in Tasks : Holds(t, m) ELSE Idle
Abs == INSTANCE AbsLock WITH Holders <- Tasks, Locks <- Mutexes, Nobody <- Idle,
                             holder <- [m \in Mutexes |-> HolderOf(m)]
ImplementsLock == Abs!AbsSpec
============================================================================
