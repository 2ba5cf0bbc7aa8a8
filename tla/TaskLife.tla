------------------------------ MODULE TaskLife ------------------------------
(***************************************************************************)
(* The life of a task: its pid, its exit (task_kill_self), the system      *)
(* killer that reaps the tasks on the idle list, and kill_task called for  *)
(* another task by sys_kill.  Builds on the scheduler.  The children lists *)
(* and the mutexes a killed task holds are not part of this module.  Two   *)
(* kills can work on one task, a kill or an exit can act on a state that a *)
(* tick has changed, and the pid of a fork that failed leads to memory     *)
(* that is free: then lists are damaged, and the model stops there (clash). *)
(***************************************************************************)
EXTENDS Sched

CONSTANTS
  Killer,      \* the system killer, pid 0
  Signallers,  \* the tasks that send SIGKILL to others
  PidNr,       \* pid_map.nr
  PageReuse    \* may the page of a freed task_struct be handed out while the
               \* system killer still holds a pointer into it

ASSUME KillerAssumption == Killer \in Tasks /\ Signallers \subseteq Tasks
ASSUME PidAssumption == PidNr \in Nat \ {0} /\ PageReuse \in BOOLEAN

\* list_for_each is back at its head; no victim.
Head0 == "head"
NoTask == "none"

VARIABLES
  pid,          \* task -> its pid
  pid_map,      \* pid -> the task (pid_map.addr), NoTask for a null entry
  pid_current,  \* pid_map.current; nr_free is PidNr - pid_current
  victim,       \* task -> the argument of the kill_task it is in
  old,          \* task -> the state set_task_state has read, of its victim
                \* or in an exit of itself; "UNKNOWN" outside
  stale_next,   \* the next pointer left in the idle node of the last task
                \* the killer has removed: a task, or Head0
  abandoned,    \* the pids that forks which failed have left in the map
                \* (history, read by no action)
  clash         \* a kill or an exit has met the work of another task half
                \* done, or a task_struct that is free

lvars == <<pid, pid_map, pid_current, victim, old, stale_next, abandoned, clash>>
lifevars == <<vars, lvars>>

Pids == 0 .. PidNr - 1
At(t, where) == pc' = [pc EXCEPT ![t] = where]
ClocksUnchanged ==
  UNCHANGED <<clocks, current, next_run, in_interrupt, tick_list>>

----------------------------------------------------------------------------
(* Pids and fork.                                                          *)

\* get_new_pid: the first free entry at or after pid_map.current.  Every
\* allocation advances current by one and entries are handed out in order,
\* so the entry at current is free.  When there is none left the result is -1
\* and the map stays as it is.  That path unlocks pid_map_mutex without
\* having locked it; whoever holds it then is in release_pid, whose only
\* access to the map is one store.
GetNewPid(new) ==
  IF pid_current < PidNr
  THEN /\ pid' = [pid EXCEPT ![new] = pid_current]
       /\ pid_map' = [pid_map EXCEPT ![pid_current] = new]
       /\ pid_current' = pid_current + 1
  ELSE /\ pid' = [pid EXCEPT ![new] = -1]
       /\ UNCHANGED <<pid_map, pid_current>>

KillPcs == {"kill_read", "kill_mark", "kill_remove", "kill_pid", "kill_free"}

\* The page of a freed task_struct can come back while a kill_task still has
\* a pointer to it.
ReusesPage(new) ==
  LET scanned == victim[Killer] = new /\ pc[Killer] = "scan_next"
  IN  /\ scanned => PageReuse
      /\ stale_next' = IF scanned THEN new ELSE stale_next
      /\ clash' = \E u \in Tasks : victim[u] = new /\ pc[u] \in KillPcs

\* do_fork, and the do_exec of a kernel thread, that succeed.  main starts
\* the system killer first.
LifeFork(t, new) ==
  /\ (new = Killer) <=> (pid_current = 0)
  /\ pid_current < PidNr
  /\ Fork(t, new, IF new = Killer THEN "scan" ELSE "run")
  /\ GetNewPid(new)
  /\ ReusesPage(new)
  /\ UNCHANGED <<victim, old, abandoned>>

\* The exit of alloc_and_init_task, and the out_err of do_exec: no pid, or
\* after get_new_pid no descriptors, page tables, stack or program.  The
\* task_struct is freed; an entry made in the map stays.  A kernel that
\* cannot start the system killer is not considered.
LifeForkFails(t, new) ==
  /\ Runs(t, "run") /\ sch.state[new] = "UNKNOWN"
  /\ new # Killer /\ pid_current # 0
  /\ GetNewPid(new)
  /\ abandoned' = abandoned \cup ({pid_current} \cap Pids)
  /\ ReusesPage(new)
  /\ ClocksUnchanged /\ UNCHANGED <<sch, pc, victim, old>>

----------------------------------------------------------------------------
(* task_kill_self: sys_exit, and a fatal signal sent to oneself.           *)

\* set_task_state(current, IDLE), in the two steps of KillRead and KillMark
\* below: a tick can come between the read and the critical section.
ExitRead(t) ==
  /\ Runs(t, "run") /\ t # Killer
  /\ pid_map[0] # NoTask
  /\ old' = [old EXCEPT ![t] = sch.state[t]]
  /\ At(t, "exit_mark")
  /\ ClocksUnchanged
  /\ UNCHANGED <<sch, pid, pid_map, pid_current, victim, stale_next, abandoned, clash>>

\* Mutation: the state of the exiting task is not changed.
ExitStateKept(t) ==
  /\ Runs(t, "exit_mark")
  /\ At(t, "exit_wake")
  /\ ClocksUnchanged /\ UNCHANGED <<sch, lvars>>

ExitSetIdle(t) ==
  /\ Runs(t, "exit_mark")
  /\ sch' = IF <<old[t], "IDLE">> \in ChangeTable
            THEN Relink(sch, t, old[t], "IDLE") ELSE sch
  /\ clash' = (old[t] # sch.state[t])
  /\ old' = [old EXCEPT ![t] = "UNKNOWN"]
  /\ At(t, "exit_wake")
  /\ ClocksUnchanged
  /\ UNCHANGED <<pid, pid_map, pid_current, victim, stale_next, abandoned>>

ExitWakeKiller(t) ==
  /\ Runs(t, "exit_wake")
  /\ sch' = Woken(sch, pid_map[0])
  /\ run_time' = WokenSlice(sch, pid_map[0], run_time)
  /\ At(t, "exit_sched")
  /\ UNCHANGED <<wait_time, time_out, current, next_run, in_interrupt,
                 tick_list, lvars>>

\* The sched() does not come back.
ExitSched(t) ==
  Runs(t, "exit_sched") /\ CallSched(t, "zombie") /\ UNCHANGED lvars

----------------------------------------------------------------------------
(* kill_task(task), called by t = the system killer or a signaller.        *)

\* set_task_state(task, IDLE) reads the old state before it turns the
\* interrupts off.
KillRead(t) ==
  /\ Runs(t, "kill_read")
  /\ old' = [old EXCEPT ![t] = sch.state[victim[t]]]
  /\ At(t, "kill_mark")
  /\ ClocksUnchanged
  /\ UNCHANGED <<sch, pid, pid_map, pid_current, victim, stale_next, abandoned, clash>>

KillMark(t) ==
  /\ Runs(t, "kill_mark")
  /\ sch' = IF <<old[t], "IDLE">> \in ChangeTable
            THEN Relink(sch, victim[t], old[t], "IDLE") ELSE sch
  /\ clash' = (old[t] # sch.state[victim[t]])
  /\ old' = [old EXCEPT ![t] = "UNKNOWN"]
  /\ At(t, "kill_remove")
  /\ ClocksUnchanged
  /\ UNCHANGED <<pid, pid_map, pid_current, victim, stale_next, abandoned>>

\* Where kill_task returns to.
AfterKill(t) == IF t = Killer THEN "scan_next" ELSE "run"

Succ(s, t) ==
  LET k == CHOOSE i \in 1 .. Len(s) : s[i] = t
  IN  IF k = Len(s) THEN Head0 ELSE s[k + 1]

\* sched_remove_task up to the end of its critical section: refused for a
\* task that is not IDLE and for the pids 0 and 1.
Removable(v) == sch.state[v] = "IDLE" /\ pid[v] \notin {0, 1}

KillRefused(t) ==
  /\ Runs(t, "kill_remove") /\ ~Removable(victim[t])
  /\ At(t, AfterKill(t))
  /\ ClocksUnchanged /\ UNCHANGED <<sch, lvars>>

\* Mutations: the task stays on the system list; its pid is not released.
KillRemoveFromIdle(t) ==
  /\ Runs(t, "kill_remove") /\ Removable(victim[t])
  /\ sch' = [sch EXCEPT !.idle = ListDel(@, victim[t])]
  /\ stale_next' = IF t = Killer /\ On(sch.idle, victim[t])
                   THEN Succ(sch.idle, victim[t]) ELSE stale_next
  /\ clash' = ~On(sch.idle, victim[t])
  /\ At(t, "kill_pid")
  /\ ClocksUnchanged
  /\ UNCHANGED <<pid, pid_map, pid_current, victim, old, abandoned>>
KillReleasePidLost(t) ==
  /\ Runs(t, "kill_pid")
  /\ At(t, "kill_free")
  /\ ClocksUnchanged
  /\ UNCHANGED <<sch, lvars>>

KillRemove(t) ==
  /\ Runs(t, "kill_remove") /\ Removable(victim[t])
  /\ sch' = [sch EXCEPT !.idle = ListDel(@, victim[t]),
                        !.system = ListDel(@, victim[t])]
  /\ stale_next' = IF t = Killer /\ On(sch.idle, victim[t])
                   THEN Succ(sch.idle, victim[t]) ELSE stale_next
  /\ clash' = ~On(sch.idle, victim[t])
  /\ At(t, "kill_pid")
  /\ ClocksUnchanged
  /\ UNCHANGED <<pid, pid_map, pid_current, victim, old, abandoned>>

\* release_pid, which does its work under pid_map_mutex.
KillReleasePid(t) ==
  /\ Runs(t, "kill_pid")
  /\ pid_map' = [pid_map EXCEPT ![pid[victim[t]]] = NoTask]
  /\ At(t, "kill_free")
  /\ ClocksUnchanged
  /\ UNCHANGED <<sch, pid, pid_current, victim, old, stale_next, abandoned, clash>>

\* release_task: the pages of the task are free again.
KillFree(t) ==
  /\ Runs(t, "kill_free")
  /\ sch' = [sch EXCEPT !.state = [@ EXCEPT ![victim[t]] = "UNKNOWN"]]
  /\ At(t, AfterKill(t))
  /\ ClocksUnchanged /\ UNCHANGED lvars

KillStep(t) == \/ KillRead(t) \/ KillMark(t) \/ KillRefused(t)
               \/ KillRemove(t) \/ KillReleasePid(t) \/ KillFree(t)

----------------------------------------------------------------------------
(* system_killer: for each task of the idle list kill_task, then sleep.    *)

\* The loop goes on to list, or leaves when list is the head again.
ScanAt(list) ==
  IF list = Head0
  THEN At(Killer, "suspend") /\ UNCHANGED victim
  ELSE At(Killer, "kill_read") /\ victim' = [victim EXCEPT ![Killer] = list]

ScanFirst ==
  /\ Runs(Killer, "scan")
  /\ ScanAt(IF sch.idle = <<>> THEN Head0 ELSE Head(sch.idle))
  /\ ClocksUnchanged
  /\ UNCHANGED <<sch, pid, pid_map, pid_current, old, stale_next, abandoned, clash>>

\* list = list->next, read from the task that kill_task has just freed; its
\* node still has the pointer it had when it was taken off the list.
ScanNext ==
  /\ Runs(Killer, "scan_next")
  /\ LET v == victim[Killer]
     IN  ScanAt(IF On(sch.idle, v) THEN Succ(sch.idle, v) ELSE stale_next)
  /\ ClocksUnchanged
  /\ UNCHANGED <<sch, pid, pid_map, pid_current, old, stale_next, abandoned, clash>>

KillerSuspend ==
  Runs(Killer, "suspend") /\ Suspend(Killer, Forever, "sched") /\ UNCHANGED lvars
KillerSched ==
  Runs(Killer, "sched") /\ CallSched(Killer, "scan") /\ UNCHANGED lvars

KillerStep == ScanFirst \/ ScanNext \/ KillStep(Killer) \/ KillerSuspend \/ KillerSched

----------------------------------------------------------------------------
\* sys_kill(p, SIGKILL) for another task, the default action in force: the
\* task is looked up in the pid map and killed by the caller itself.  The
\* entry of a fork that failed leads to a task_struct that is free, or that
\* belongs to another task by now, which is then killed.
SysKill(t, p) ==
  /\ Runs(t, "run") /\ t # Killer
  /\ pid_map[p] \notin {NoTask, t}
  /\ victim' = [victim EXCEPT ![t] = pid_map[p]]
  /\ At(t, "kill_read")
  /\ clash' = (sch.state[pid_map[p]] = "UNKNOWN")
  /\ ClocksUnchanged
  /\ UNCHANGED <<sch, pid, pid_map, pid_current, old, stale_next, abandoned>>

LifeSuspend(t) ==
  Runs(t, "run") /\ t # Killer /\ Suspend(t, Forever, "sched") /\ UNCHANGED lvars
LifeSched(t) ==
  Runs(t, "sched") /\ t # Killer /\ CallSched(t, "run") /\ UNCHANGED lvars

LifeInit ==
  /\ Init
  /\ pid = [t \in AllTasks |-> -1]
  /\ pid_map = [p \in Pids |-> NoTask]
  /\ pid_current = 0
  /\ victim = [t \in Tasks |-> NoTask]
  /\ old = [t \in Tasks |-> "UNKNOWN"]
  /\ stale_next = Head0
  /\ abandoned = {}
  /\ clash = FALSE

TaskStep(t) == \/ ExitRead(t) \/ ExitSetIdle(t) \/ ExitWakeKiller(t) \/ ExitSched(t)
               \/ LifeSuspend(t) \/ LifeSched(t)

LifeNext ==
  /\ ~clash
  /\ \/ Tick /\ UNCHANGED lvars
     \/ IdleSched /\ UNCHANGED lvars
     \/ \E t \in AllTasks \ {Killer}, new \in Tasks :
          LifeFork(t, new) \/ LifeForkFails(t, new)
     \/ KillerStep
     \/ \E t \in Tasks : TaskStep(t)
     \/ \E t \in AllTasks, u \in Tasks \ {Killer} : WakeupTask(t, u) /\ UNCHANGED lvars
     \/ \E t \in Signallers, p \in Pids : SysKill(t, p)
     \/ \E t \in Signallers : KillStep(t)

LifeSpec == LifeInit /\ [][LifeNext]_lifevars

----------------------------------------------------------------------------
(* Properties.                                                             *)

\* A task kill_task has taken off the lists and not freed yet.
BeingFreed(v) ==
  \E t \in Tasks : victim[t] = v /\ pc[t] \in {"kill_pid", "kill_free"}

\* "A process is at any moment only on the system list and on the list of
\* its present state", and a new one "is removed from the system list only
\* when it is killed" (Documents/sched.txt): through exit, reaping, the reuse
\* of a task_struct and the kill of another task in any of its states as well.
\* Only a kill or an exit that clashes damages the lists.
LifeListsMatchState ==
  ~clash => \A t \in AllTasks : ~BeingFreed(t) => OnItsLists(sch, t)

\* The sched() at the end of task_kill_self never returns: a task that has
\* exited does not get the processor again, however the tick hits its exit.
ExitedNeverRuns == pc[current] # "zombie"

\* pid_get_task(p) returns a task that exists and has the pid p, although
\* task_structs are reused and kills overlap: release_pid clears the entry
\* before the task_struct is freed, and no pid is handed out twice, also when
\* the pids run out.  The pids that failing forks have left in the map
\* (task.c:214) are the only exception.
PidMapSound ==
  \A p \in Pids \ abandoned :
    pid_map[p] # NoTask
      => pid[pid_map[p]] = p /\ sch.state[pid_map[p]] # "UNKNOWN"
=============================================================================
