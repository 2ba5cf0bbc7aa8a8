---------------------------- MODULE MutexProofs ----------------------------
(***************************************************************************)
(* Proofs about module Mutex, for any number of tasks, mutexes, priorities *)
(* and timeouts: the mutexes exclude, and they implement the abstract      *)
(* lock.  Nothing of the scheduler's invariant is needed: mutual exclusion *)
(* rests on the critical sections alone, whoever is dispatched.            *)
(***************************************************************************)
EXTENDS Mutex, SchedProofs

MutexPcs == {"run", "lock", "wait", "sched", "lockret", "unlock"}

\* t has m, and is not the task that has just cleared its count.
Keeps(t, m) == Holds(t, m) /\ ~(pc[t] = "unlock" /\ want[t] = m)

\* The inductive invariant.  Inside mutex_unlock the count is already 0
\* while the mutex is still on the list of its holder; that window is open
\* for the task on the processor only, so nobody can look into it.
LockInv ==
  /\ mcount \in [Mutexes -> 0 .. 1]
  /\ mutex_get \in [AllTasks -> Seq(Mutexes)]
  /\ want \in [AllTasks -> Mutexes]
  /\ pc \in [AllTasks -> MutexPcs]
  /\ \A t \in Tasks : NoTwice(mutex_get[t])
  /\ \A m \in Mutexes, t, u \in Tasks : Holds(t, m) /\ Holds(u, m) => t = u
  /\ \A m \in Mutexes : mcount[m] = 1 <=> \E t \in Tasks : Keeps(t, m)
  /\ \A t \in Tasks : pc[t] = "unlock" => t = current /\ Holds(t, want[t])

----------------------------------------------------------------------------
\* At boot every mutex is free and nobody is in mutex_unlock.
LEMMA LockInitInv == MutexInit => LockInv
<1> SUFFICES ASSUME MutexInit PROVE LockInv
  OBVIOUS
<1>1. \A m : ~On(<<>>, m)
  BY DEF On
<1>2. NoTwice(<<>>)
  BY DEF NoTwice
<1>3. (CHOOSE m \in Mutexes : TRUE) \in Mutexes
  BY MutexesAssumption
<1>4. \A t \in AllTasks : mutex_get[t] = <<>>
  BY DEF MutexInit
<1>5. \A t \in Tasks, m \in Mutexes : ~Holds(t, m)
  BY <1>1, <1>4 DEF Holds, AllTasks
<1> QED BY <1>2, <1>3, <1>4, <1>5 DEF MutexInit, Init, LockInv, Keeps, AllTasks, MutexPcs

\* A step that leaves counts and holders alone, and in which no task is or
\* comes inside mutex_unlock, keeps the invariant.
LEMMA LockInvKept ==
  ASSUME LockInv, UNCHANGED <<mcount, mutex_get>>,
         want' \in [AllTasks -> Mutexes], pc' \in [AllTasks -> MutexPcs],
         \A t \in Tasks : pc[t] # "unlock" /\ pc'[t] # "unlock"
  PROVE  LockInv'
BY DEF LockInv, Keeps, Holds

\* While the task on the processor is not in mutex_unlock, nobody is.
LEMMA NobodyUnlocks ==
  ASSUME LockInv, pc[current] # "unlock"
  PROVE  \A t \in Tasks : pc[t] # "unlock"
BY DEF LockInv

\* The steps of the scheduler and of the waiting part of mutex_lock: they move
\* one task on to a place outside mutex_unlock, and touch no mutex.
LEMMA LockMove ==
  ASSUME LockInv, NEW t \in AllTasks, NEW where \in MutexPcs \ {"unlock"},
         pc[current] # "unlock",
         UNCHANGED <<mcount, mutex_get>>, want' \in [AllTasks -> Mutexes],
         pc' = [pc EXCEPT ![t] = where]
  PROVE  LockInv'
<1>1. \A u \in Tasks : pc[u] # "unlock"
  BY NobodyUnlocks
<1>2. pc' \in [AllTasks -> MutexPcs]
  BY DEF LockInv
<1>3. \A u \in Tasks : pc'[u] # "unlock"
  BY <1>1 DEF LockInv, AllTasks
<1> QED BY <1>1, <1>2, <1>3, LockInvKept

----------------------------------------------------------------------------
\* What the critical section of mutex_lock that takes the mutex does to the
\* list of its caller; and that before it nobody had the mutex.
LEMMA LockTryTakes ==
  ASSUME LockInv, NEW t \in Tasks, LockTry(t), mcount[want[t]] = 0
  PROVE  /\ \A u \in Tasks : ~Holds(u, want[t])
         /\ \A u \in Tasks, m \in Mutexes :
              Holds(u, m)' <=> Holds(u, m) \/ (u = t /\ m = want[t])
         /\ NoTwice(mutex_get'[t])
         /\ mutex_get' \in [AllTasks -> Seq(Mutexes)]
         /\ \A u \in Tasks : u # t => mutex_get'[u] = mutex_get[u]
<1>1. \A u \in Tasks : ~Holds(u, want[t])
  BY DEF LockInv, Keeps, LockTry, Runs, AllTasks
<1>2. mutex_get' = [mutex_get EXCEPT ![t] = Append(@, want[t])]
  BY DEF LockTry
<1>3. mutex_get[t] \in Seq(Mutexes) /\ want[t] \in Mutexes /\ t \in AllTasks
  BY DEF LockInv, AllTasks
<1>4. mutex_get'[t] = Append(mutex_get[t], want[t])
  BY <1>2, <1>3 DEF LockInv
<1>5. \A u \in Tasks : u # t => mutex_get'[u] = mutex_get[u]
  BY <1>2 DEF LockInv, AllTasks
<1>6. NoTwice(mutex_get[t]) /\ ~On(mutex_get[t], want[t])
  BY <1>1 DEF LockInv, Holds
<1>7. /\ mutex_get'[t] \in Seq(Mutexes) /\ NoTwice(mutex_get'[t])
      /\ \A m : On(mutex_get'[t], m) <=> On(mutex_get[t], m) \/ m = want[t]
  BY <1>3, <1>4, <1>6, ListAddTailProperties
<1>8. mutex_get' \in [AllTasks -> Seq(Mutexes)]
  BY <1>2, <1>4, <1>7 DEF LockInv
<1> QED BY <1>1, <1>5, <1>7, <1>8 DEF Holds

\* The critical section of mutex_lock keeps the invariant.
LEMMA LockTryInv ==
  ASSUME LockInv, NEW t \in Tasks, LockTry(t)
  PROVE  LockInv'
<1>0. pc[current] # "unlock" /\ t \in AllTasks /\ want[t] \in Mutexes
  BY DEF LockTry, Runs, LockInv, AllTasks
<1>1. CASE mcount[want[t]] # 0
  BY <1>0, <1>1, LockMove DEF LockTry, Goto, MutexPcs, LockInv
<1>2. CASE mcount[want[t]] = 0
  <2>1. \A u \in Tasks : pc[u] # "unlock"
    BY <1>0, NobodyUnlocks
  <2>2. pc' = [pc EXCEPT ![t] = "run"] /\ want' = want
        /\ mcount' = [mcount EXCEPT ![want[t]] = 1]
    BY <1>2 DEF LockTry, Goto
  <2>3. \A u \in Tasks : pc'[u] # "unlock"
    BY <2>1, <2>2 DEF LockInv, AllTasks
  <2>4. \A u \in Tasks, m \in Mutexes :
          /\ Keeps(u, m) <=> Holds(u, m)
          /\ Keeps(u, m)' <=> Holds(u, m)'
    BY <2>1, <2>3 DEF Keeps
  <2>5. \A m \in Mutexes : mcount'[m] = 1 <=> \E u \in Tasks : Keeps(u, m)'
    <3> TAKE m \in Mutexes
    <3>1. mcount'[m] = IF m = want[t] THEN 1 ELSE mcount[m]
      BY <2>2 DEF LockInv
    <3> QED BY <1>2, <2>4, <3>1, LockTryTakes DEF LockInv
  <2>6. mcount' \in [Mutexes -> 0 .. 1] /\ pc' \in [AllTasks -> MutexPcs]
    <3>1. mcount' \in [Mutexes -> 0 .. 1]
      BY <1>0, <2>2 DEF LockInv
    <3>2. "run" \in MutexPcs
      BY DEF MutexPcs
    <3> QED BY <1>0, <2>2, <3>1, <3>2 DEF LockInv
  <2>7. \A m \in Mutexes, u, w \in Tasks : Holds(u, m)' /\ Holds(w, m)' => u = w
    BY <1>2, LockTryTakes DEF LockInv
  <2>8. \A u \in Tasks : NoTwice(mutex_get'[u])
    BY <1>2, LockTryTakes DEF LockInv
  <2>9. mutex_get' \in [AllTasks -> Seq(Mutexes)]
    BY <1>2, LockTryTakes
  <2> QED BY <2>2, <2>3, <2>5, <2>6, <2>7, <2>8, <2>9 DEF LockInv
<1> QED BY <1>1, <1>2

----------------------------------------------------------------------------
\* mutex_unlock clears the count of the mutex: its one holder is now inside
\* mutex_unlock, and keeps every other mutex it has.
LEMMA UnlockCallInv ==
  ASSUME LockInv, NEW t \in Tasks, NEW m \in Mutexes, UnlockCall(t, m)
  PROVE  LockInv'
<1>0. t = current /\ pc[current] # "unlock" /\ t \in AllTasks /\ Holds(t, m)
  BY DEF UnlockCall, Runs, AllTasks, Holds
<1>1. \A u \in Tasks : pc[u] # "unlock"
  BY <1>0, NobodyUnlocks
<1>2. /\ pc' = [pc EXCEPT ![t] = "unlock"] /\ want' = [want EXCEPT ![t] = m]
      /\ mcount' = [mcount EXCEPT ![m] = 0] /\ mutex_get' = mutex_get
      /\ current' = current
  BY DEF UnlockCall, Goto, SchedUnchanged
<1>3. "unlock" \in MutexPcs
  BY DEF MutexPcs
<1>4. /\ mcount' \in [Mutexes -> 0 .. 1] /\ want' \in [AllTasks -> Mutexes]
      /\ pc' \in [AllTasks -> MutexPcs]
  <2>1. mcount' \in [Mutexes -> 0 .. 1]
    BY <1>2 DEF LockInv
  <2>2. want' \in [AllTasks -> Mutexes] /\ pc' \in [AllTasks -> MutexPcs]
    BY <1>0, <1>2, <1>3 DEF LockInv
  <2> QED BY <2>1, <2>2
<1>5. /\ pc'[t] = "unlock" /\ want'[t] = m
      /\ \A u \in Tasks : u # t => pc'[u] # "unlock"
  BY <1>0, <1>1, <1>2 DEF LockInv, AllTasks
<1>6. \A u \in Tasks, k \in Mutexes : Holds(u, k)' <=> Holds(u, k)
  BY <1>2 DEF Holds
<1>7. \A k \in Mutexes : mcount'[k] = 1 <=> \E u \in Tasks : Keeps(u, k)'
  <2> TAKE k \in Mutexes
  <2>1. mcount'[k] = IF k = m THEN 0 ELSE mcount[k]
    BY <1>2 DEF LockInv
  <2>2. \A u \in Tasks : Keeps(u, k) <=> Holds(u, k)
    BY <1>1 DEF Keeps
  <2>3. \A u \in Tasks : Keeps(u, k)' <=> Holds(u, k) /\ ~(u = t /\ k = m)
    BY <1>5, <1>6 DEF Keeps
  <2> QED BY <1>0, <2>1, <2>2, <2>3 DEF LockInv
<1> QED BY <1>0, <1>2, <1>4, <1>5, <1>6, <1>7 DEF LockInv

\* What the end of mutex_unlock does to the list of its caller.
LEMMA UnlockDoneGives ==
  ASSUME LockInv, NEW t \in Tasks, UnlockDone(t)
  PROVE  /\ \A u \in Tasks, m \in Mutexes :
              Holds(u, m)' <=> Holds(u, m) /\ ~(u = t /\ m = want[t])
         /\ NoTwice(mutex_get'[t])
         /\ mutex_get' \in [AllTasks -> Seq(Mutexes)]
         /\ \A u \in Tasks : u # t => mutex_get'[u] = mutex_get[u]
<1>2. mutex_get' = [mutex_get EXCEPT ![t] = ListDel(@, want[t])]
  BY DEF UnlockDone
<1>3. mutex_get[t] \in Seq(Mutexes) /\ want[t] \in Mutexes /\ t \in AllTasks
      /\ NoTwice(mutex_get[t])
  BY DEF LockInv, AllTasks
<1>4. mutex_get'[t] = ListDel(mutex_get[t], want[t])
  BY <1>2, <1>3 DEF LockInv
<1>5. \A u \in Tasks : u # t => mutex_get'[u] = mutex_get[u]
  BY <1>2 DEF LockInv, AllTasks
<1>7. /\ mutex_get'[t] \in Seq(Mutexes) /\ NoTwice(mutex_get'[t])
      /\ \A m : On(mutex_get'[t], m) <=> On(mutex_get[t], m) /\ m # want[t]
  BY <1>3, <1>4, ListDelProperties
<1>8. mutex_get' \in [AllTasks -> Seq(Mutexes)]
  BY <1>2, <1>4, <1>7 DEF LockInv
<1> QED BY <1>5, <1>7, <1>8 DEF Holds

\* The end of mutex_unlock: the holder whose count was cleared lets go.
LEMMA UnlockDoneInv ==
  ASSUME LockInv, NEW t \in Tasks, UnlockDone(t)
  PROVE  LockInv'
<1>0. t = current /\ pc[t] = "unlock" /\ t \in AllTasks /\ Holds(t, want[t])
  BY DEF UnlockDone, Runs, AllTasks, LockInv
<1>1. \A u \in Tasks : u # t => pc[u] # "unlock"
  BY <1>0 DEF LockInv
<1>2. pc' = [pc EXCEPT ![t] = "run"] /\ want' = want /\ mcount' = mcount
  BY DEF UnlockDone, Goto
<1>3. \A u \in Tasks : pc'[u] # "unlock"
  BY <1>0, <1>1, <1>2 DEF LockInv, AllTasks
<1>4. pc' \in [AllTasks -> MutexPcs]
  BY <1>0, <1>2 DEF LockInv, MutexPcs
<1>5. \A m \in Mutexes, u \in Tasks : Keeps(u, m)' <=> Keeps(u, m)
  BY <1>0, <1>1, <1>3, UnlockDoneGives DEF Keeps
<1>6. \A m \in Mutexes, u, w \in Tasks : Holds(u, m)' /\ Holds(w, m)' => u = w
  BY UnlockDoneGives DEF LockInv
<1>7. \A u \in Tasks : NoTwice(mutex_get'[u])
  BY UnlockDoneGives DEF LockInv
<1>8. mutex_get' \in [AllTasks -> Seq(Mutexes)]
  BY UnlockDoneGives
<1>9. \A m \in Mutexes : mcount'[m] = 1 <=> \E u \in Tasks : Keeps(u, m)'
  BY <1>2, <1>5 DEF LockInv
<1> QED BY <1>2, <1>3, <1>4, <1>6, <1>7, <1>8, <1>9 DEF LockInv

----------------------------------------------------------------------------
\* Every step of a call of mutex_lock or mutex_unlock keeps the invariant.
LEMMA LockStepInv ==
  ASSUME LockInv, NEW t \in Tasks, LockStep(t)
  PROVE  LockInv'
<1>0. t \in AllTasks
  BY DEF AllTasks
<1>1. ASSUME NEW m \in Mutexes, NEW w, LockCall(t, m, w) PROVE LockInv'
  <2>1. want' \in [AllTasks -> Mutexes] /\ pc[current] # "unlock"
    BY <1>1, <1>0 DEF LockCall, Runs, LockInv
  <2> QED BY <1>0, <1>1, <2>1, LockMove DEF LockCall, Goto, MutexPcs
<1>2. CASE LockTry(t)
  BY <1>2, LockTryInv
<1>3. CASE LockSuspend(t)
  BY <1>0, <1>3, LockMove DEF LockSuspend, Suspend, Runs, MutexPcs, mvars, LockInv
<1>4. CASE LockSched(t)
  BY <1>0, <1>4, LockMove DEF LockSched, CallSched, Runs, MutexPcs, mvars, LockInv
<1>5. CASE LockReturn(t)
  BY <1>0, <1>5, LockMove DEF LockReturn, Goto, Runs, MutexPcs, LockInv
<1>6. ASSUME NEW m \in Mutexes, UnlockCall(t, m) PROVE LockInv'
  BY <1>6, UnlockCallInv
<1>7. CASE UnlockWake(t)
  BY <1>7 DEF UnlockWake, LockInv, Keeps, Holds
<1>8. CASE UnlockDone(t)
  BY <1>8, UnlockDoneInv
<1> QED BY <1>1, <1>2, <1>3, <1>4, <1>5, <1>6, <1>7, <1>8 DEF LockStep

\* And so does every step of the system.
LEMMA LockNextInv ==
  ASSUME LockInv, [MutexNext]_allvars
  PROVE  LockInv'
<1>1. CASE ~InUnlock /\ Tick /\ UNCHANGED mvars
  <2>1. pc' = pc
    BY <1>1 DEF Tick, TickEnter, TickSleeper, TickCurrent
  <2>2. \A t \in Tasks : pc[t] # "unlock"
    BY <1>1, NobodyUnlocks DEF InUnlock
  <2> QED BY <1>1, <2>1, <2>2, LockInvKept DEF mvars, LockInv
<1>2. CASE IdleSched /\ UNCHANGED mvars
  BY <1>2, LockMove DEF IdleSched, CallSched, Runs, MutexPcs, mvars, LockInv, AllTasks
<1>3. ASSUME NEW new \in Tasks, Fork(Idle, new, "run"), UNCHANGED mvars PROVE LockInv'
  BY <1>3, LockMove DEF Fork, Runs, MutexPcs, mvars, LockInv, AllTasks
<1>4. ASSUME NEW t \in Tasks, LockStep(t) PROVE LockInv'
  BY <1>4, LockStepInv
<1>5. CASE UNCHANGED allvars
  BY <1>5 DEF allvars, vars, mvars, LockInv, Keeps, Holds
<1> QED BY <1>1, <1>2, <1>3, <1>4, <1>5 DEF MutexNext

\* The invariant of the mutexes holds in every reachable state.
THEOREM MutexInvariant == MutexSpec => []LockInv
BY LockInitInv, LockNextInv, PTL DEF MutexSpec

\* Two tasks never hold one mutex, and outside mutex_unlock the count says
\* whether a mutex is held.
THEOREM MutexExcludes == MutexSpec => []MutualExclusion
<1>1. LockInv => MutualExclusion
  <2> SUFFICES ASSUME LockInv, NEW m \in Mutexes
               PROVE  /\ \A t, u \in Tasks : Holds(t, m) /\ Holds(u, m) => t = u
                      /\ ~InUnlock => (mcount[m] = 1 <=> \E t \in Tasks : Holds(t, m))
    BY DEF MutualExclusion
  <2>1. \A t, u \in Tasks : Holds(t, m) /\ Holds(u, m) => t = u
    BY DEF LockInv
  <2>2. ASSUME ~InUnlock PROVE mcount[m] = 1 <=> \E t \in Tasks : Holds(t, m)
    <3>1. \A t \in Tasks : Keeps(t, m) <=> Holds(t, m)
      BY <2>2, NobodyUnlocks DEF InUnlock, Keeps
    <3> QED BY <3>1 DEF LockInv
  <2> QED BY <2>1, <2>2
<1> QED BY <1>1, MutexInvariant, PTL

----------------------------------------------------------------------------
(* The refinement.                                                         *)

\* With exclusion the refinement mapping names the holder.
LEMMA HolderIs ==
  ASSUME NEW g, NEW m, \A t, u \in Tasks : On(g[t], m) /\ On(g[u], m) => t = u
  PROVE  LET h == IF \E t \in Tasks : On(g[t], m)
                  THEN CHOOSE t \in Tasks : On(g[t], m) ELSE Idle
         IN  /\ \A t \in Tasks : On(g[t], m) => h = t
             /\ (\A t \in Tasks : ~On(g[t], m)) => h = Idle
OBVIOUS

\* The holder of a mutex in a state of the invariant.
LEMMA HolderNow ==
  ASSUME LockInv, NEW m \in Mutexes
  PROVE  /\ \A t \in Tasks : Holds(t, m) => HolderOf(m) = t
         /\ (\A t \in Tasks : ~Holds(t, m)) => HolderOf(m) = Idle
<1>1. \A t, u \in Tasks : On(mutex_get[t], m) /\ On(mutex_get[u], m) => t = u
  BY DEF LockInv, Holds
<1> QED BY <1>1, HolderIs DEF HolderOf, Holds

\* The same after a step.
LEMMA HolderThen ==
  ASSUME LockInv', NEW m \in Mutexes
  PROVE  /\ \A t \in Tasks : Holds(t, m)' => HolderOf(m)' = t
         /\ (\A t \in Tasks : ~Holds(t, m)') => HolderOf(m)' = Idle
<1>1. \A t, u \in Tasks : On(mutex_get'[t], m) /\ On(mutex_get'[u], m) => t = u
  BY DEF LockInv, Holds
<1> QED BY <1>1, HolderIs DEF HolderOf, Holds

Holder == [m \in Mutexes |-> HolderOf(m)]

\* The steps that take no mutex and give none up are invisible to the lock.
LEMMA SameHolder ==
  ASSUME mutex_get' = mutex_get
  PROVE  Holder' = Holder
BY DEF Holder, HolderOf, Holds

\* The critical section of mutex_lock acquires the lock, or is invisible.
LEMMA LockTryAcquires ==
  ASSUME LockInv, LockInv', NEW t \in Tasks, LockTry(t)
  PROVE  Abs!AbsNext \/ Holder' = Holder
<1>1. CASE mcount[want[t]] # 0
  BY <1>1, SameHolder DEF LockTry
<1>2. CASE mcount[want[t]] = 0
  <2>1. PICK w \in Mutexes : w = want[t]
    BY DEF LockInv, AllTasks
  <2>2. HolderOf(w) = Idle
    BY <1>2, <2>1, LockTryTakes, HolderNow
  <2>3. HolderOf(w)' = t
    BY <1>2, <2>1, LockTryTakes, HolderThen
  <2>4. \A m \in Mutexes : m # w => HolderOf(m)' = HolderOf(m)
    <3> SUFFICES ASSUME NEW m \in Mutexes, m # w PROVE HolderOf(m)' = HolderOf(m)
      OBVIOUS
    <3>1. \A u \in Tasks : Holds(u, m)' <=> Holds(u, m)
      BY <1>2, <2>1, LockTryTakes
    <3> QED BY <3>1, HolderNow, HolderThen
  <2>5. Holder' = [Holder EXCEPT ![w] = t]
    BY <2>1, <2>3, <2>4 DEF Holder
  <2>6. Abs!Acquire(t, w)
    BY <2>1, <2>2, <2>5 DEF Abs!Acquire, Holder
  <2> QED BY <2>1, <2>6 DEF Abs!AbsNext
<1> QED BY <1>1, <1>2

\* The end of mutex_unlock releases the lock.
LEMMA UnlockDoneReleases ==
  ASSUME LockInv, LockInv', NEW t \in Tasks, UnlockDone(t)
  PROVE  Abs!AbsNext
<1>1. PICK w \in Mutexes : w = want[t] /\ Holds(t, w)
  BY DEF LockInv, AllTasks, UnlockDone, Runs
<1>2. HolderOf(w) = t
  BY <1>1, HolderNow
<1>3. \A u \in Tasks : ~Holds(u, w)'
  BY <1>1, UnlockDoneGives DEF LockInv
<1>4. HolderOf(w)' = Idle
  BY <1>1, <1>3, HolderThen
<1>5. \A m \in Mutexes : m # w => HolderOf(m)' = HolderOf(m)
  <2> SUFFICES ASSUME NEW m \in Mutexes, m # w PROVE HolderOf(m)' = HolderOf(m)
    OBVIOUS
  <2>1. \A u \in Tasks : Holds(u, m)' <=> Holds(u, m)
    BY <1>1, UnlockDoneGives
  <2> QED BY <2>1, HolderNow, HolderThen
<1>6. Holder' = [Holder EXCEPT ![w] = Idle]
  BY <1>1, <1>4, <1>5 DEF Holder
<1>7. Abs!Release(t, w)
  BY <1>1, <1>2, <1>6 DEF Abs!Release, Holder
<1> QED BY <1>1, <1>7 DEF Abs!AbsNext

\* Every step of the code is a step of the abstract lock, or invisible to it.
LEMMA LockStepRefines ==
  ASSUME LockInv, LockInv', [MutexNext]_allvars
  PROVE  Abs!AbsNext \/ Holder' = Holder
<1>1. CASE Tick /\ UNCHANGED mvars
  BY <1>1, SameHolder DEF mvars
<1>2. CASE IdleSched /\ UNCHANGED mvars
  BY <1>2, SameHolder DEF mvars
<1>3. ASSUME NEW new \in Tasks, UNCHANGED mvars PROVE Holder' = Holder
  BY <1>3, SameHolder DEF mvars
<1>4. ASSUME NEW t \in Tasks, LockStep(t) PROVE Abs!AbsNext \/ Holder' = Holder
  <2>1. CASE LockTry(t)
    BY <2>1, LockTryAcquires
  <2>2. CASE UnlockDone(t)
    BY <2>2, UnlockDoneReleases
  <2>3. CASE mutex_get' = mutex_get
    BY <2>3, SameHolder
  <2> QED BY <1>4, <2>1, <2>2, <2>3
          DEF LockStep, LockCall, LockSuspend, LockSched, LockReturn, UnlockCall,
              UnlockWake, mvars
<1>5. CASE UNCHANGED allvars
  BY <1>5, SameHolder DEF allvars, mvars
<1> QED BY <1>1, <1>2, <1>3, <1>4, <1>5 DEF MutexNext

\* mutex_lock and mutex_unlock implement the abstract lock of AbsLock: who is
\* on the list task->mutex_get is the holder, the critical section of
\* mutex_lock that finds the count 0 acquires, the end of mutex_unlock
\* releases, and every other step is invisible.
THEOREM MutexImplementsLock == MutexSpec => ImplementsLock
<1>1. MutexInit => Abs!AbsInit
  <2> SUFFICES ASSUME MutexInit PROVE Holder = [m \in Mutexes |-> Idle]
    BY DEF Abs!AbsInit, Holder
  <2>1. \A t \in Tasks, m \in Mutexes : ~Holds(t, m)
    BY DEF MutexInit, Holds, On, AllTasks
  <2> QED BY <2>1, LockInitInv, HolderNow DEF Holder
<1>2. LockInv /\ LockInv' /\ [MutexNext]_allvars => [Abs!AbsNext]_Holder
  BY LockStepRefines
<1> QED BY <1>1, <1>2, MutexInvariant, PTL DEF MutexSpec, ImplementsLock, Abs!AbsSpec, Holder
============================================================================
