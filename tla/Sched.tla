------------------------------- MODULE Sched -------------------------------
(***************************************************************************)
(* The scheduler of kernel/sched.c on one processor: the state change      *)
(* table and the lists it maintains, the choice of the next task, the      *)
(* timer tick, and the calls that give up, block on or re-enter the        *)
(* processor (fork, exec, suspend, wake up, the idle loop).                *)
(*                                                                         *)
(* A critical section (enter_critical .. exit_critical, interrupts off) is *)
(* one atomic action.  Between two of them the timer interrupt may come,   *)
(* so a function with several critical sections has one action per         *)
(* section and keeps its place in pc.  The interrupt handler is itself     *)
(* walked through step by step: while in_interrupt holds nothing else runs.*)
(***************************************************************************)
EXTENDS Integers, Sequences

CONSTANTS
  Tasks,        \* task_struct slots that fork and exec hand out
  Idle,         \* the idle task, pid -1
  UserTasks,    \* the tasks that run a user program (those that may exec)
  Timeouts,     \* timeouts passed to suspend_task_timeout beside Forever
  MaxPrio,      \* TASK_MAX_PRIO
  DefaultPrio,  \* TASK_DEFAULT_PRIO
  RunBase       \* the 5 of get_task_run_time

ASSUME TasksAssumption == Idle \notin Tasks /\ UserTasks \subseteq Tasks
ASSUME PrioAssumption == /\ MaxPrio \in Nat \ {0, 1}
                         /\ DefaultPrio \in 0 .. MaxPrio - 2
                         /\ RunBase \in Nat
ASSUME TimeoutsAssumption == Timeouts \subseteq Nat \ {0}

AllTasks == Tasks \cup {Idle}
Prios == 0 .. MaxPrio - 1
States == {"PREPARE", "RUNNING", "SLEEP", "IDLE", "UNKNOWN"}

\* A timeout of -1: sleep until somebody calls wakeup_task.
Forever == -1

\* run_time is only ever compared with 0, so every negative value is one.
RunTimeFloor == -1

VARIABLES
  sch,           \* task states, priorities and the lists (see SchedType)
  run_time,      \* task -> ticks left of its time slice
  wait_time,     \* task -> ticks left to sleep; 0 expired, -1 no timeout
  time_out,      \* task -> did the last suspension end by timeout
  current,       \* the task on the processor
  next_run,      \* the task to switch to
  in_interrupt,  \* is the tick handler running
  tick_list,     \* the sleepers the tick handler has still to look at
  pc             \* task -> where it is in a multi-section kernel function

clocks == <<run_time, wait_time, time_out>>
vars == <<sch, clocks, current, next_run, in_interrupt, tick_list, pc>>

----------------------------------------------------------------------------
(* Lists. A list_head list is the sequence of its members.                 *)

On(s, t) == \E i \in 1 .. Len(s) : s[i] = t

\* Mutation: list_del forgotten.
ListDelForgotten(s, t) == s

\* list_del: the list without its member t.
ListDel(s, t) ==
  IF On(s, t)
  THEN LET k == CHOOSE i \in 1 .. Len(s) : s[i] = t
       IN  [i \in 1 .. Len(s) - 1 |-> IF i < k THEN s[i] ELSE s[i + 1]]
  ELSE s

----------------------------------------------------------------------------
(* Operators on the scheduler record.                                      *)

SchedType ==
  [state : [AllTasks -> States],
   prio  : [AllTasks -> Prios],
   ready : [Prios -> Seq(AllTasks)],   \* os_sched_table[p].list
   count : [Prios -> Int],             \* os_sched_table[p].count
   sleep : Seq(AllTasks), idle : Seq(AllTasks), system : Seq(AllTasks)]

\* The changes init_state_change_table allows; all others do nothing.
ChangeTable ==
  {"UNKNOWN"} \X {"PREPARE", "SLEEP"}
  \cup {"PREPARE"} \X {"RUNNING", "SLEEP", "IDLE", "UNKNOWN"}
  \cup {"RUNNING"} \X {"SLEEP", "PREPARE", "IDLE"}
  \cup {"SLEEP"} \X {"PREPARE", "IDLE", "RUNNING"}

\* prio_list_del_task: list_del finds the list by itself, the counter is
\* that of the priority the task has now.
ReadyDel(s, t) == [p \in Prios |-> ListDel(s.ready[p], t)]
CountAdd(c, p, n) == [c EXCEPT ![p] = @ + n]

\* What set_task_state does to the lists when t goes from old to new: t
\* leaves the list of old and joins the tail of the list of new.
Relink(s, t, old, new) ==
  LET p == s.prio[t]
      r == IF old = "PREPARE" THEN ReadyDel(s, t) ELSE s.ready
      c == IF old = "PREPARE" THEN CountAdd(s.count, p, -1) ELSE s.count
      z == IF old = "SLEEP" THEN ListDel(s.sleep, t) ELSE s.sleep
  IN  [state  |-> [s.state EXCEPT ![t] = new],
       prio   |-> s.prio,
       ready  |-> IF new = "PREPARE" THEN [r EXCEPT ![p] = Append(@, t)] ELSE r,
       count  |-> IF new = "PREPARE" THEN CountAdd(c, p, 1) ELSE c,
       sleep  |-> IF new # "SLEEP" THEN z
                  ELSE IF old = "UNKNOWN" THEN <<t>> \o z ELSE Append(z, t),
       idle   |-> IF new = "IDLE" THEN Append(s.idle, t) ELSE s.idle,
       system |-> IF old = "UNKNOWN" THEN Append(s.system, t) ELSE s.system]

SetTaskState(s, t, new) ==
  IF <<s.state[t], new>> \in ChangeTable
  THEN Relink(s, t, s.state[t], new)
  ELSE s

SliceOf(p) == RunBase + (MaxPrio - p)

\* get_task_run_time(t), the priority being read from s.
GetTaskRunTime(s, t, rt) == [rt EXCEPT ![t] = SliceOf(s.prio[t])]

\* Mutations: the priority runs past the last list; every task is sent back
\* to the top at the end of each slice.
DecPrioPastEnd(s, t) ==
  LET p == IF s.prio[t] <= MaxPrio - 1 THEN s.prio[t] + 1 ELSE s.prio[t]
      n == IF t # Idle /\ p = MaxPrio - 1 THEN 0 ELSE p
  IN  [s EXCEPT !.prio = [@ EXCEPT ![t] = n]]
DecPrioToTop(s, t) ==
  [s EXCEPT !.prio = [@ EXCEPT ![t] = IF t = Idle THEN @ ELSE 0]]

DecPrio(s, t) ==
  LET p == IF s.prio[t] < MaxPrio - 1 THEN s.prio[t] + 1 ELSE s.prio[t]
      n == IF t # Idle /\ p = MaxPrio - 1 THEN 0 ELSE p
  IN  [s EXCEPT !.prio = [@ EXCEPT ![t] = n]]

\* Mutation: the loop ends one list early.
NonEmptyPriosButLast(s) == {p \in 0 .. MaxPrio - 2 : s.count[p] # 0}

\* find_next_run_task: the head of the first list whose count is not zero.
NonEmptyPrios(s) == {p \in Prios : s.count[p] # 0}
FirstPrio(s) == CHOOSE p \in NonEmptyPrios(s) : \A r \in NonEmptyPrios(s) : p <= r
FindNextRunTask(s) ==
  IF NonEmptyPrios(s) = {} THEN next_run ELSE Head(s.ready[FirstPrio(s)])

----------------------------------------------------------------------------
(* prepare_to_switch and the switch. In both callers the switch itself     *)
(* follows at once: arch_switch_task_sw in sched, the exit path of the     *)
(* interrupt stub in the tick; both load current from next_run.            *)

\* current == next_run: a new time slice and nothing else.
ReRun(s, rt) ==
  /\ sch' = s
  /\ run_time' = GetTaskRunTime(s, current, rt)
  /\ UNCHANGED <<wait_time, time_out>>

\* Mutations: the priority is lowered after the task is on its list; sched()
\* leaves the caller RUNNING.
DisplacedThenLowered(s, rt, irq) ==
  IF s.state[current] # "RUNNING"
  THEN s
  ELSE DecPrio(SetTaskState(s, current, "PREPARE"), current)
DisplacedByTickOnly(s, rt, irq) ==
  IF s.state[current] # "RUNNING" \/ ~irq
  THEN s
  ELSE SetTaskState(DecPrio(s, current), current, "PREPARE")

\* The current task, if still RUNNING, goes to the tail of its list, one
\* priority lower when its slice is over or it called sched() itself.
Displaced(s, rt, irq) ==
  IF s.state[current] # "RUNNING"
  THEN s
  ELSE SetTaskState(IF rt[current] = 0 \/ ~irq THEN DecPrio(s, current) ELSE s,
                    current, "PREPARE")

\* Mutation: the slice is not renewed.
SliceAfterDisplacedKept(s, rt, irq) == rt

SliceAfterDisplaced(s, rt, irq) ==
  IF s.state[current] = "RUNNING" /\ (rt[current] = 0 \/ ~irq)
  THEN GetTaskRunTime(DecPrio(s, current), current, rt)
  ELSE rt

SwitchTo(next, s, rt, irq) ==
  /\ sch' = SetTaskState(Displaced(s, rt, irq), next, "RUNNING")
  /\ run_time' = SliceAfterDisplaced(s, rt, irq)
  /\ time_out' = IF wait_time[next] = 0 THEN [time_out EXCEPT ![next] = TRUE]
                                        ELSE time_out
  /\ wait_time' = [wait_time EXCEPT ![next] = Forever]

\* find_next_run_task(); prepare_to_switch(); and the switch.
Reschedule(s, rt, irq) ==
  LET next == FindNextRunTask(s)
  IN  /\ IF next = current THEN ReRun(s, rt) ELSE SwitchTo(next, s, rt, irq)
      /\ next_run' = next
      /\ current' = next

\* sched() called by t, which continues at ret when it is on the processor
\* again.
CallSched(t, ret) ==
  /\ current = t /\ ~in_interrupt
  /\ Reschedule(sch, run_time, FALSE)
  /\ pc' = [pc EXCEPT ![t] = ret]
  /\ UNCHANGED <<in_interrupt, tick_list>>

----------------------------------------------------------------------------
(* os_tick_handler, run by irq_handler with in_interrupt set.              *)

TickEnter ==
  /\ ~in_interrupt
  /\ in_interrupt' = TRUE
  /\ tick_list' = sch.sleep
  /\ UNCHANGED <<sch, clocks, current, next_run, pc>>

WaitLeft(w) == IF w > 0 THEN w - 1 ELSE w

\* One round of the loop over the sleep list.  A task that is taken off the
\* list keeps its next pointer, so the walk goes on behind it.
TickSleeper ==
  /\ in_interrupt /\ tick_list # <<>>
  /\ LET t == Head(tick_list)
         w == WaitLeft(wait_time[t])
     IN  /\ wait_time' = [wait_time EXCEPT ![t] = w]
         /\ sch' = IF w = 0 THEN SetTaskState(sch, t, "PREPARE") ELSE sch
  /\ tick_list' = Tail(tick_list)
  /\ UNCHANGED <<run_time, time_out, current, next_run, in_interrupt, pc>>

RunLeft(r) == IF r > RunTimeFloor THEN r - 1 ELSE r

\* The rest of the handler and the return from the interrupt.
TickCurrent ==
  /\ in_interrupt /\ tick_list = <<>>
  /\ LET rt == [run_time EXCEPT ![current] = RunLeft(@)]
     IN  IF rt[current] = 0
         THEN Reschedule(sch, rt, TRUE)
         ELSE /\ run_time' = rt
              /\ UNCHANGED <<sch, wait_time, time_out, current, next_run>>
  /\ in_interrupt' = FALSE
  /\ UNCHANGED <<tick_list, pc>>

Tick == TickEnter \/ TickSleeper \/ TickCurrent

----------------------------------------------------------------------------
(* What the task on the processor may call.                                *)

Runs(t, where) == current = t /\ ~in_interrupt /\ pc[t] = where

\* init_sched_struct followed by set_task_state(new, PREPARE), as in do_fork
\* and in the do_exec of a kernel thread.
NewTask(s, new) ==
  SetTaskState([s EXCEPT !.prio = [@ EXCEPT ![new] = DefaultPrio],
                         !.state = [@ EXCEPT ![new] = "UNKNOWN"]],
               new, "PREPARE")

Fork(t, new, entry) ==
  /\ Runs(t, "run")
  /\ sch.state[new] = "UNKNOWN"
  /\ sch' = NewTask(sch, new)
  /\ run_time' = [run_time EXCEPT ![new] = SliceOf(DefaultPrio)]
  /\ wait_time' = [wait_time EXCEPT ![new] = Forever]
  /\ time_out' = [time_out EXCEPT ![new] = FALSE]
  /\ pc' = [pc EXCEPT ![new] = entry]
  /\ UNCHANGED <<current, next_run, in_interrupt, tick_list>>

\* The do_exec of a user task ends with set_task_state(current, PREPARE).
Exec(t) ==
  /\ Runs(t, "run")
  /\ sch' = SetTaskState(sch, t, "PREPARE")
  /\ UNCHANGED <<clocks, current, next_run, in_interrupt, tick_list, pc>>

\* suspend_task_timeout(current, w) up to the end of its critical section.
\* A task in state IDLE is refused; a running one here never is IDLE.
Suspend(t, w, ret) ==
  /\ sch.state[t] # "IDLE"
  /\ wait_time' = [wait_time EXCEPT ![t] = w]
  /\ time_out' = [time_out EXCEPT ![t] = FALSE]
  /\ sch' = SetTaskState(sch, t, "SLEEP")
  /\ pc' = [pc EXCEPT ![t] = ret]
  /\ UNCHANGED <<run_time, current, next_run, in_interrupt, tick_list>>

\* wakeup_task(u), on the values of the scheduler record and the slices.
Woken(s, u) ==
  IF s.state[u] = "SLEEP" THEN SetTaskState(s, u, "PREPARE") ELSE s
WokenSlice(s, u, rt) ==
  IF s.state[u] = "SLEEP" THEN GetTaskRunTime(s, u, rt) ELSE rt

\* A call of wakeup_task(u) inside a critical section, as mutex_unlock makes.
WakeupTask(t, u) ==
  /\ Runs(t, "run")
  /\ sch.state[u] = "SLEEP"
  /\ sch' = Woken(sch, u)
  /\ run_time' = WokenSlice(sch, u, run_time)
  /\ UNCHANGED <<wait_time, time_out, current, next_run, in_interrupt,
                 tick_list, pc>>

SuspendCall(t, w) == Runs(t, "run") /\ Suspend(t, w, "sched")
SuspendSched(t) == Runs(t, "sched") /\ CallSched(t, "run")
IdleSched == Runs(Idle, "run") /\ CallSched(Idle, "run")

----------------------------------------------------------------------------
\* The state main leaves behind when it turns the interrupts on:
\* build_idle_task has run, no other task exists.
Init ==
  /\ sch = [state  |-> [t \in AllTasks |-> IF t = Idle THEN "RUNNING"
                                                       ELSE "UNKNOWN"],
            prio   |-> [t \in AllTasks |-> IF t = Idle THEN MaxPrio - 1
                                                       ELSE DefaultPrio],
            ready  |-> [p \in Prios |-> <<>>],
            count  |-> [p \in Prios |-> 0],
            sleep  |-> <<>>, idle |-> <<>>, system |-> <<>>]
  /\ run_time = [t \in AllTasks |-> SliceOf(IF t = Idle THEN MaxPrio - 1
                                                        ELSE DefaultPrio)]
  /\ wait_time = [t \in AllTasks |-> Forever]
  /\ time_out = [t \in AllTasks |-> FALSE]
  /\ current = Idle /\ next_run = Idle
  /\ in_interrupt = FALSE /\ tick_list = <<>>
  /\ pc = [t \in AllTasks |-> "run"]

Next ==
  \/ Tick
  \/ IdleSched
  \/ \E t \in AllTasks, new \in Tasks : Fork(t, new, "run")
  \/ \E t \in UserTasks : Exec(t)
  \/ \E t \in Tasks, w \in Timeouts \cup {Forever} : SuspendCall(t, w)
  \/ \E t \in Tasks : SuspendSched(t)
  \/ \E t \in AllTasks, u \in Tasks : WakeupTask(t, u)

Spec == Init /\ [][Next]_vars

----------------------------------------------------------------------------
(* Properties.                                                             *)

\* The types of the variables: the fields of task_struct and the globals of
\* kernel/sched.c.
TypeOK ==
  /\ sch \in SchedType
  /\ run_time \in [AllTasks -> Int]
  /\ wait_time \in [AllTasks -> Int]
  /\ time_out \in [AllTasks -> BOOLEAN]
  /\ current \in AllTasks /\ next_run \in AllTasks
  /\ in_interrupt \in BOOLEAN
  /\ tick_list \in Seq(AllTasks)
  /\ pc \in [AllTasks -> {"run", "sched"}]

OnItsLists(s, t) ==
  /\ \A p \in Prios : On(s.ready[p], t) <=> s.state[t] = "PREPARE" /\ s.prio[t] = p
  /\ On(s.sleep, t) <=> s.state[t] = "SLEEP"
  /\ On(s.idle, t) <=> s.state[t] = "IDLE"
  /\ On(s.system, t) <=> t # Idle /\ s.state[t] # "UNKNOWN"

NoTwice(s) == \A i, j \in 1 .. Len(s) : s[i] = s[j] => i = j

ListsMatchState == \A t \in AllTasks : OnItsLists(sch, t)
NoTaskTwice ==
  /\ \A p \in Prios : NoTwice(sch.ready[p])
  /\ NoTwice(sch.sleep) /\ NoTwice(sch.idle) /\ NoTwice(sch.system)

\* "A process is at any moment only on the system list and on the list of
\* its present state" (Documents/sched.txt): what set_task_state has to keep
\* through every change, with a ready task on the list of its own priority;
\* and no list holds a task twice, for list_add_tail is never applied to a
\* node that is still linked.
ListsExact == ListsMatchState /\ NoTaskTwice

\* find_next_run_task trusts os_sched_table[p].count: it is the length of
\* the list, although prio_list_del_task decrements the counter of the
\* priority the task has when it leaves and not when it came.
CountIsLength == \A p \in Prios : sch.count[p] = Len(sch.ready[p])

OneRunning == \A t \in AllTasks : sch.state[t] = "RUNNING" => t = current
IdleReady == current # Idle => sch.state[Idle] = "PREPARE"
IdleAlone == \A t \in AllTasks : sch.prio[t] = MaxPrio - 1 <=> t = Idle

\* Only the task on the processor is RUNNING; "idle process is always on
\* preparing state" (find_next_run_task): when it does not run it is ready,
\* so there is always a task to switch to; and "idle task will stay at
\* TASK_MAX_PRIO -1 list" (dec_prio) with no other task behind or before it,
\* so it is chosen only when no task is ready.
DispatchSound == OneRunning /\ IdleReady /\ IdleAlone

\* No task gets beyond the sched() that put it to sleep while it is still
\* on the sleep list.
AwakeWhenRunning ==
  pc[current] = "run" => sch.state[current] \in {"RUNNING", "PREPARE"}

\* Between two critical sections the pending switch has been made.
SwitchDone == next_run = current

\* The inductive invariant: beside the properties above it says that a
\* switch is pending nowhere, that the idle task is RUNNING exactly when it
\* has the processor and never sleeps, and that the task on the processor
\* has not exited.
CurrentAlive == sch.state[current] \in {"RUNNING", "PREPARE", "SLEEP"}
IdleState == sch.state[Idle] = IF current = Idle THEN "RUNNING" ELSE "PREPARE"
IdleNotTicked == ~On(tick_list, Idle)
Inv == /\ TypeOK /\ ListsMatchState /\ NoTaskTwice /\ CountIsLength
       /\ OneRunning /\ AwakeWhenRunning /\ SwitchDone
       /\ CurrentAlive /\ IdleState /\ IdleNotTicked

\* "if his run time is over, then find another task to run" (os_tick_handler):
\* a task never leaves the tick handler, nor is dispatched, with its time
\* slice used up; such a task would count down from zero for ever.  So it is
\* among tasks that only compute, whoever displaces them.
SliceLeft ==
  ~in_interrupt /\ sch.state[current] = "RUNNING" => run_time[current] > 0

----------------------------------------------------------------------------
\* Tasks that only compute.  The timer keeps ticking and the idle loop keeps
\* calling sched(); no task is obliged to do anything.
CpuBoundNext ==
  \/ Tick
  \/ IdleSched
  \/ \E t \in AllTasks, new \in Tasks : Fork(t, new, "run")

CpuBoundSpec ==
  /\ Init /\ [][CpuBoundNext]_vars
  /\ WF_vars(Tick) /\ WF_vars(IdleSched)

\* dec_prio moves a task one list down at the end of each slice and back to
\* the top at the last but one, so among tasks that only compute each one
\* that is ready gets the processor.
ReadyRuns ==
  \A t \in Tasks : sch.state[t] = "PREPARE" ~> sch.state[t] = "RUNNING"
============================================================================
