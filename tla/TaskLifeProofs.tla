--------------------------- MODULE TaskLifeProofs ---------------------------
(***************************************************************************)
(* Proofs about module TaskLife, for any number of tasks, signallers and   *)
(* pids: pid_get_task never returns a task that is gone, although two      *)
(* tasks may be inside kill_task at once and task_structs are reused.      *)
(***************************************************************************)
EXTENDS TaskLife, SchedProofs

LifePcs == {"run", "sched", "scan", "scan_next", "suspend", "exit_mark",
            "exit_wake", "exit_sched", "zombie", "kill_read", "kill_mark", "kill_remove",
            "kill_pid", "kill_free"}

\* A kill that has taken its victim off the lists and not yet freed it.
Freeing == {"kill_pid", "kill_free"}

\* The idle list holds tasks in state IDLE, each once.  (A task in state IDLE
\* that is not on it is being freed.)
IdleListOK(s) ==
  /\ {"state", "idle", "prio", "system"} \subseteq DOMAIN s
  /\ s.state \in [AllTasks -> States]
  /\ s.idle \in Seq(Tasks) /\ NoTwice(s.idle)
  /\ \A t \in Tasks : On(s.idle, t) => s.state[t] = "IDLE"

LifeTypes ==
  /\ pid \in [AllTasks -> Pids \cup {-1}]
  /\ pid_map \in [Pids -> Tasks \cup {NoTask}]
  /\ pid_current \in 0 .. PidNr
  /\ victim \in [Tasks -> Tasks \cup {NoTask}]
  /\ stale_next \in Tasks \cup {Head0}
  /\ pc \in [AllTasks -> LifePcs]

\* What a kill in progress knows of its victim.  That the victim of a freeing
\* kill is IDLE and off the idle list is what keeps a second kill_task, and a
\* fork that looks for a free task_struct, away from it.
KillsOK ==
  /\ \A t \in Tasks : pc[t] \in KillPcs => victim[t] \in Tasks
  /\ \A t \in Tasks : pc[t] \in Freeing => /\ sch.state[victim[t]] = "IDLE"
                                           /\ ~On(sch.idle, victim[t])
  /\ \A t, u \in Tasks :
       pc[t] \in Freeing /\ pc[u] \in Freeing /\ victim[t] = victim[u] => t = u
  /\ \A t \in Tasks : pc[t] = "kill_free" =>
       \A p \in Pids \ abandoned : pid_map[p] # NoTask => pid_map[p] # victim[t]

\* The inductive invariant: a clash ends the model, so that beyond one only
\* the property itself is asked for.
LifeInv == PidMapSound /\ (~clash => IdleListOK(sch) /\ LifeTypes /\ KillsOK)

----------------------------------------------------------------------------
(* What the scheduler does to the idle list.                               *)

\* A change of the scheduler record that neither fills nor empties the idle
\* list, revives no exited task and frees none.
IdleKept(s, r) ==
  /\ {"state", "idle", "prio", "system"} \subseteq DOMAIN r
  /\ r.state \in [AllTasks -> States]
  /\ r.idle = s.idle
  /\ \A t \in AllTasks : /\ r.state[t] = "IDLE" <=> s.state[t] = "IDLE"
                         /\ r.state[t] = "UNKNOWN" => s.state[t] = "UNKNOWN"

\* set_task_state towards any state but IDLE is such a change, whoever it is
\* applied to: init_state_change_table has no way out of IDLE.
LEMMA SetKeepsIdle ==
  ASSUME NEW s, IdleListOK(s), NEW t, NEW new \in {"PREPARE", "RUNNING", "SLEEP"}
  PROVE  IdleKept(s, SetTaskState(s, t, new))
<1>1. CASE <<s.state[t], new>> \notin ChangeTable
  BY <1>1 DEF SetTaskState, IdleKept, IdleListOK
<1>2. CASE <<s.state[t], new>> \in ChangeTable
  <2> DEFINE r == Relink(s, t, s.state[t], new)
  <2>1. SetTaskState(s, t, new) = r
    BY <1>2 DEF SetTaskState
  <2>2. s.state[t] # "IDLE"
    BY <1>2 DEF ChangeTable
  <2>3. /\ r.state = [s.state EXCEPT ![t] = new] /\ r.idle = s.idle
        /\ {"state", "idle", "prio", "system"} \subseteq DOMAIN r
    BY DEF Relink
  <2>4. new \in States
    BY DEF States
  <2> HIDE DEF r
  <2>5. r.state \in [AllTasks -> States]
    BY <2>3, <2>4 DEF IdleListOK
  <2>6. \A u \in AllTasks : r.state[u] = IF u = t THEN new ELSE s.state[u]
    BY <2>3 DEF IdleListOK
  <2> QED BY <2>1, <2>2, <2>3, <2>5, <2>6 DEF IdleKept
<1> QED BY <1>1, <1>2

\* Two such changes in a row are one.
LEMMA IdleKeptTwice ==
  ASSUME NEW s, NEW r, NEW q, IdleKept(s, r), IdleKept(r, q)
  PROVE  IdleKept(s, q)
BY DEF IdleKept

\* They keep the idle list in order.
LEMMA IdleKeptOK ==
  ASSUME NEW s, NEW r, IdleListOK(s), IdleKept(s, r)
  PROVE  IdleListOK(r)
BY DEF IdleKept, IdleListOK, AllTasks

\* dec_prio.
LEMMA DecPrioKeepsIdle ==
  ASSUME NEW s, IdleListOK(s), NEW t
  PROVE  IdleKept(s, DecPrio(s, t))
<1> DEFINE r == DecPrio(s, t)
<1>1. r.state = s.state /\ r.idle = s.idle /\ DOMAIN r = DOMAIN s
  BY DEF DecPrio, IdleListOK
<1> QED BY <1>1 DEF IdleKept, IdleListOK

\* sched() and the dispatch at the end of a tick.
LEMMA RescheduleKeepsIdle ==
  ASSUME IdleListOK(sch), NEW rt, NEW irq, Reschedule(sch, rt, irq)
  PROVE  IdleKept(sch, sch')
<1>0. IdleKept(sch, sch)
  BY DEF IdleKept, IdleListOK
<1>1. CASE sch' = sch
  BY <1>0, <1>1
<1>2. ASSUME NEW next, SwitchTo(next, sch, rt, irq) PROVE IdleKept(sch, sch')
  <2> DEFINE d == IF rt[current] = 0 \/ ~irq THEN DecPrio(sch, current) ELSE sch
             e == SetTaskState(d, current, "PREPARE")
             f == Displaced(sch, rt, irq)
  <2>1. IdleKept(sch, d)
    BY <1>0, DecPrioKeepsIdle
  <2>2. IdleListOK(d)
    BY <2>1, IdleKeptOK
  <2>3. IdleKept(d, e)
    BY <2>2, SetKeepsIdle
  <2>4. IdleKept(sch, e)
    BY <2>1, <2>3, IdleKeptTwice
  <2>5. f = sch \/ f = e
    BY DEF Displaced
  <2> HIDE DEF d, e, f
  <2>6. IdleKept(sch, f)
    BY <1>0, <2>4, <2>5
  <2>7. IdleListOK(f)
    BY <2>6, IdleKeptOK
  <2>8. IdleKept(f, SetTaskState(f, next, "RUNNING"))
    BY <2>7, SetKeepsIdle
  <2>9. sch' = SetTaskState(f, next, "RUNNING")
    BY <1>2 DEF SwitchTo, f
  <2> QED BY <2>6, <2>8, <2>9, IdleKeptTwice
<1> QED BY <1>1, <1>2 DEF Reschedule, ReRun

----------------------------------------------------------------------------
(* The steps that do not touch the idle list.                              *)

\* A step that leaves the idle list, the pids and the victims alone, and lets
\* no kill begin or reach the part where it frees.
LEMMA QuietStep ==
  ASSUME LifeInv, ~clash, IdleKept(sch, sch'),
         UNCHANGED <<pid, pid_map, pid_current, victim, stale_next, abandoned>>,
         pc' \in [AllTasks -> LifePcs],
         \A t \in Tasks : /\ pc'[t] \in Freeing => pc'[t] = pc[t]
                          /\ pc'[t] \in KillPcs => pc[t] \in KillPcs
  PROVE  LifeInv'
<1>1. IdleListOK(sch) /\ LifeTypes /\ KillsOK /\ PidMapSound
  BY DEF LifeInv
<1>2. IdleListOK(sch)'
  BY <1>1, IdleKeptOK
<1>3. LifeTypes'
  BY <1>1 DEF LifeTypes
<1>4. PidMapSound'
  BY <1>1 DEF PidMapSound, IdleKept, LifeTypes, AllTasks
<1>5. \A t \in Tasks : pc'[t] \in KillPcs => victim'[t] \in Tasks
  BY <1>1 DEF KillsOK
<1>6. \A t \in Tasks : pc'[t] \in Freeing => pc[t] \in Freeing /\ victim[t] \in Tasks
  BY <1>1 DEF KillsOK, Freeing, KillPcs
<1>7. \A t \in Tasks : pc'[t] \in Freeing => /\ sch'.state[victim'[t]] = "IDLE"
                                             /\ ~On(sch'.idle, victim'[t])
  BY <1>1, <1>6 DEF KillsOK, IdleKept, AllTasks
<1>8. \A t, u \in Tasks :
        pc'[t] \in Freeing /\ pc'[u] \in Freeing /\ victim'[t] = victim'[u] => t = u
  BY <1>1, <1>6 DEF KillsOK
<1>9. \A t \in Tasks : pc'[t] = "kill_free" =>
        \A p \in Pids \ abandoned' : pid_map'[p] # NoTask => pid_map'[p] # victim'[t]
  BY <1>1 DEF KillsOK, Freeing
<1>10. KillsOK'
  BY <1>5, <1>7, <1>8, <1>9 DEF KillsOK
<1> QED BY <1>2, <1>3, <1>4, <1>10 DEF LifeInv

\* The same, for a step that moves one task on to a place outside kill_task.
LEMMA QuietMove ==
  ASSUME LifeInv, ~clash, IdleKept(sch, sch'), UNCHANGED lvars,
         NEW t \in AllTasks, NEW where \in LifePcs \ KillPcs,
         pc' = [pc EXCEPT ![t] = where]
  PROVE  LifeInv'
<1>1. pc \in [AllTasks -> LifePcs]
  BY DEF LifeInv, LifeTypes
<1>2. pc' \in [AllTasks -> LifePcs]
  BY <1>1
<1>3. \A u \in Tasks : pc'[u] = pc[u] \/ pc'[u] \notin KillPcs
  BY <1>1 DEF AllTasks
<1>4. Freeing \subseteq KillPcs
  BY DEF Freeing, KillPcs
<1>5. \A u \in Tasks : /\ pc'[u] \in Freeing => pc'[u] = pc[u]
                       /\ pc'[u] \in KillPcs => pc[u] \in KillPcs
  BY <1>3, <1>4
<1> QED BY <1>2, <1>5, QuietStep DEF lvars

\* The scheduler record unchanged is a quiet change.
LEMMA SameKeepsIdle ==
  ASSUME IdleListOK(sch), sch' = sch
  PROVE  IdleKept(sch, sch')
BY DEF IdleKept, IdleListOK

\* The steps of the tick handler.
LEMMA TickInv ==
  ASSUME LifeInv, ~clash, Tick, UNCHANGED lvars
  PROVE  LifeInv'
<1>0. IdleListOK(sch) /\ pc \in [AllTasks -> LifePcs]
  BY DEF LifeInv, LifeTypes
<1>1. CASE TickEnter
  BY <1>0, <1>1, SameKeepsIdle, QuietStep DEF TickEnter, lvars
<1>2. CASE TickSleeper
  <2>1. IdleKept(sch, sch')
    BY <1>0, <1>2, SameKeepsIdle, SetKeepsIdle DEF TickSleeper
  <2> QED BY <1>0, <1>2, <2>1, QuietStep DEF TickSleeper, lvars
<1>3. CASE TickCurrent
  <2>1. IdleKept(sch, sch')
    BY <1>0, <1>3, SameKeepsIdle, RescheduleKeepsIdle DEF TickCurrent
  <2> QED BY <1>0, <1>3, <2>1, QuietStep DEF TickCurrent, lvars
<1> QED BY <1>1, <1>2, <1>3 DEF Tick

\* sched() called from anywhere outside kill_task.
LEMMA CallSchedLife ==
  ASSUME LifeInv, ~clash, UNCHANGED lvars, NEW t \in AllTasks,
         NEW ret \in LifePcs \ KillPcs, CallSched(t, ret)
  PROVE  LifeInv'
<1>1. IdleListOK(sch)
  BY DEF LifeInv
<1>2. IdleKept(sch, sch')
  BY <1>1, RescheduleKeepsIdle DEF CallSched
<1> QED BY <1>2, QuietMove DEF CallSched

\* suspend_task.
LEMMA SuspendLife ==
  ASSUME LifeInv, ~clash, UNCHANGED lvars, NEW t \in AllTasks, NEW w,
         NEW ret \in LifePcs \ KillPcs, Suspend(t, w, ret)
  PROVE  LifeInv'
<1>1. IdleListOK(sch)
  BY DEF LifeInv
<1>2. IdleKept(sch, sch')
  BY <1>1, SetKeepsIdle DEF Suspend
<1> QED BY <1>2, QuietMove DEF Suspend

\* wakeup_task, whoever is woken.
LEMMA WokenKeepsIdle ==
  ASSUME IdleListOK(sch), NEW u, sch' = Woken(sch, u)
  PROVE  IdleKept(sch, sch')
BY SetKeepsIdle, SameKeepsIdle DEF Woken

----------------------------------------------------------------------------
(* fork                                                                    *)

\* do_fork takes a task_struct that is in no use: it is on no idle list and
\* in no pid entry, and no kill is freeing it.
LEMMA ForkKeepsIdle ==
  ASSUME IdleListOK(sch), NEW new \in Tasks, sch.state[new] = "UNKNOWN",
         sch' = NewTask(sch, new)
  PROVE  IdleKept(sch, sch') /\ sch'.state[new] = "PREPARE"
<1> DEFINE s == [sch EXCEPT !.prio = [@ EXCEPT ![new] = DefaultPrio],
                            !.state = [@ EXCEPT ![new] = "UNKNOWN"]]
<1>1. /\ s.state = [sch.state EXCEPT ![new] = "UNKNOWN"] /\ s.idle = sch.idle
      /\ DOMAIN s = DOMAIN sch
  BY DEF IdleListOK
<1>2. sch' = SetTaskState(s, new, "PREPARE")
  BY DEF NewTask
<1> HIDE DEF s
<1>3. s.state = sch.state
  BY <1>1 DEF IdleListOK, AllTasks
<1>4. IdleListOK(s) /\ IdleKept(sch, s)
  BY <1>1, <1>3 DEF IdleListOK, IdleKept
<1>5. IdleKept(s, sch')
  BY <1>2, <1>4, SetKeepsIdle
<1>6. <<s.state[new], "PREPARE">> \in ChangeTable
  BY <1>3 DEF ChangeTable
<1>7. sch'.state = [s.state EXCEPT ![new] = "PREPARE"]
  BY <1>2, <1>6 DEF SetTaskState, Relink
<1>8. sch'.state[new] = "PREPARE"
  BY <1>7, <1>4 DEF IdleListOK, AllTasks
<1> QED BY <1>4, <1>5, <1>8, IdleKeptTwice

\* fork, with the pid it hands out.
LEMMA LifeForkInv ==
  ASSUME LifeInv, ~clash, NEW t \in AllTasks, NEW new \in Tasks, LifeFork(t, new)
  PROVE  LifeInv'
<1>1. IdleListOK(sch) /\ LifeTypes /\ KillsOK /\ PidMapSound
  BY DEF LifeInv
<1>2. sch.state[new] = "UNKNOWN" /\ sch' = NewTask(sch, new)
  BY DEF LifeFork, Fork
<1>3. IdleKept(sch, sch') /\ sch'.state[new] = "PREPARE"
  BY <1>1, <1>2, ForkKeepsIdle
<1>4. /\ pid_current \in Pids
      /\ pid' = [pid EXCEPT ![new] = pid_current]
      /\ pid_map' = [pid_map EXCEPT ![pid_current] = new]
      /\ pid_current' = pid_current + 1 /\ pid_current' \in 0 .. PidNr
  BY <1>1, PidAssumption DEF LifeFork, GetNewPid, LifeTypes, Pids
<1>5. \A p \in Pids \ abandoned : pid_map[p] # NoTask => pid_map[p] # new
  BY <1>1, <1>2 DEF PidMapSound
<1>6. PidMapSound'
  <2> SUFFICES ASSUME NEW p \in Pids \ abandoned, pid_map'[p] # NoTask
               PROVE  /\ pid'[pid_map'[p]] = p
                      /\ sch'.state[pid_map'[p]] # "UNKNOWN"
    BY DEF PidMapSound, LifeFork
  <2>1. CASE p = pid_current
    BY <1>1, <1>3, <1>4, <2>1 DEF LifeTypes, AllTasks
  <2>2. CASE p # pid_current
    <3>1. pid_map'[p] = pid_map[p] /\ pid_map[p] \in Tasks /\ pid_map[p] # new
      BY <1>1, <1>4, <1>5, <2>2 DEF LifeTypes
    <3>2. pid[pid_map[p]] = p /\ sch.state[pid_map[p]] # "UNKNOWN"
      BY <1>1, <3>1 DEF PidMapSound
    <3> QED BY <1>1, <1>3, <1>4, <3>1, <3>2 DEF LifeTypes, IdleKept, AllTasks
  <2> QED BY <2>1, <2>2
<1>7. victim' = victim /\ abandoned' = abandoned /\ pc' = [pc EXCEPT ![new] = IF new = Killer THEN "scan" ELSE "run"]
  BY DEF LifeFork, Fork
<1>8. LifeTypes'
  <2>1. pc' \in [AllTasks -> LifePcs]
    BY <1>1, <1>7 DEF LifeTypes, LifePcs
  <2>2. stale_next' \in Tasks \cup {Head0}
    BY <1>1 DEF LifeFork, ReusesPage, LifeTypes
  <2>3. pid' \in [AllTasks -> Pids \cup {-1}] /\ pid_map' \in [Pids -> Tasks \cup {NoTask}]
    BY <1>1, <1>4 DEF LifeTypes
  <2> QED BY <1>1, <1>4, <1>7, <2>1, <2>2, <2>3 DEF LifeTypes
<1>9. \A u \in Tasks : pc'[u] \in KillPcs => pc'[u] = pc[u]
  BY <1>1, <1>7 DEF LifeTypes, KillPcs, AllTasks
<1>10. \A u \in Tasks : pc'[u] \in Freeing =>
         /\ pc'[u] = pc[u] /\ victim[u] \in Tasks /\ victim[u] # new
  BY <1>1, <1>2, <1>9 DEF KillsOK, Freeing, KillPcs
<1>11. KillsOK'
  <2>1. \A u \in Tasks : pc'[u] \in KillPcs => victim'[u] \in Tasks
    BY <1>1, <1>7, <1>9 DEF KillsOK
  <2>2. \A u \in Tasks : pc'[u] \in Freeing => /\ sch'.state[victim'[u]] = "IDLE"
                                               /\ ~On(sch'.idle, victim'[u])
    BY <1>1, <1>3, <1>7, <1>10 DEF KillsOK, IdleKept, AllTasks
  <2>3. \A u, w \in Tasks :
          pc'[u] \in Freeing /\ pc'[w] \in Freeing /\ victim'[u] = victim'[w] => u = w
    BY <1>1, <1>7, <1>10 DEF KillsOK
  <2>4. \A u \in Tasks : pc'[u] = "kill_free" =>
          \A p \in Pids \ abandoned' : pid_map'[p] # NoTask => pid_map'[p] # victim'[u]
    <3> SUFFICES ASSUME NEW u \in Tasks, pc'[u] = "kill_free", NEW p \in Pids \ abandoned,
                        pid_map'[p] # NoTask
                 PROVE  pid_map'[p] # victim[u]
      BY <1>7
    <3>1. pc[u] = "kill_free" /\ victim[u] # new
      BY <1>10 DEF Freeing
    <3>2. pid_map'[p] = IF p = pid_current THEN new ELSE pid_map[p]
      BY <1>1, <1>4 DEF LifeTypes
    <3> QED BY <1>1, <3>1, <3>2 DEF KillsOK
  <2> QED BY <2>1, <2>2, <2>3, <2>4 DEF KillsOK
<1>12. IdleListOK(sch)'
  BY <1>1, <1>3, IdleKeptOK
<1> QED BY <1>6, <1>8, <1>11, <1>12 DEF LifeInv

\* A fork that fails after it was given a pid: the entry leads to no task,
\* and the pid joins the abandoned ones.
LEMMA LifeForkFailsInv ==
  ASSUME LifeInv, ~clash, NEW t \in AllTasks, NEW new \in Tasks, LifeForkFails(t, new)
  PROVE  LifeInv'
<1>1. IdleListOK(sch) /\ LifeTypes /\ KillsOK /\ PidMapSound
  BY DEF LifeInv
<1>2. sch.state[new] = "UNKNOWN" /\ UNCHANGED <<sch, pc, victim>>
  BY DEF LifeForkFails
<1>3. \A p \in Pids \ abandoned : pid_map[p] # NoTask => pid_map[p] # new
  BY <1>1, <1>2 DEF PidMapSound
<1>4. \A p \in Pids \ abandoned' : p \notin abandoned /\ pid_map'[p] = pid_map[p]
  BY <1>1 DEF LifeForkFails, GetNewPid, LifeTypes
<1>5. \A u \in AllTasks : u # new => pid'[u] = pid[u]
  BY <1>1 DEF LifeForkFails, GetNewPid, LifeTypes
<1>6. PidMapSound'
  BY <1>1, <1>2, <1>3, <1>4, <1>5 DEF PidMapSound, LifeTypes, AllTasks
<1>7. LifeTypes'
  <2>1. pid' \in [AllTasks -> Pids \cup {-1}]
    BY <1>1, PidAssumption DEF LifeForkFails, GetNewPid, LifeTypes, Pids
  <2>2. pid_map' \in [Pids -> Tasks \cup {NoTask}] /\ pid_current' \in 0 .. PidNr
    BY <1>1, PidAssumption DEF LifeForkFails, GetNewPid, LifeTypes
  <2>3. stale_next' \in Tasks \cup {Head0}
    BY <1>1 DEF LifeForkFails, ReusesPage, LifeTypes
  <2> QED BY <1>1, <1>2, <2>1, <2>2, <2>3 DEF LifeTypes
<1>8. KillsOK'
  BY <1>1, <1>2, <1>4 DEF KillsOK
<1>9. IdleListOK(sch)'
  BY <1>1, <1>2
<1> QED BY <1>6, <1>7, <1>8, <1>9 DEF LifeInv

----------------------------------------------------------------------------
(* The steps that fill the idle list.                                      *)

\* set_task_state(task, IDLE): a live task joins the idle list, and one that
\* is already IDLE stays where it is.
LEMMA SetIdle ==
  ASSUME NEW s, IdleListOK(s), NEW v \in Tasks
  PROVE  LET r == SetTaskState(s, v, "IDLE")
         IN  /\ IdleListOK(r)
             /\ \A t \in Tasks : s.state[t] = "IDLE" =>
                  r.state[t] = "IDLE" /\ (On(r.idle, t) <=> On(s.idle, t))
             /\ \A t \in AllTasks : r.state[t] = "UNKNOWN" => s.state[t] = "UNKNOWN"
<1>1. CASE <<s.state[v], "IDLE">> \notin ChangeTable
  BY <1>1 DEF SetTaskState
<1>2. CASE <<s.state[v], "IDLE">> \in ChangeTable
  <2> DEFINE r == Relink(s, v, s.state[v], "IDLE")
  <2>1. SetTaskState(s, v, "IDLE") = r
    BY <1>2 DEF SetTaskState
  <2>2. s.state[v] # "IDLE"
    BY <1>2 DEF ChangeTable
  <2>3. /\ r.state = [s.state EXCEPT ![v] = "IDLE"] /\ r.idle = Append(s.idle, v)
        /\ {"state", "idle", "prio", "system"} \subseteq DOMAIN r
    BY DEF Relink
  <2> HIDE DEF r
  <2>4. ~On(s.idle, v) /\ s.idle \in Seq(Tasks) /\ NoTwice(s.idle)
    BY <2>2 DEF IdleListOK
  <2>5. /\ r.idle \in Seq(Tasks) /\ NoTwice(r.idle)
        /\ \A t : On(r.idle, t) <=> On(s.idle, t) \/ t = v
    BY <2>3, <2>4, ListAddTailProperties
  <2>6. "IDLE" \in States
    BY DEF States
  <2>7. r.state \in [AllTasks -> States]
    BY <2>3, <2>6 DEF IdleListOK
  <2>8. \A t \in AllTasks : r.state[t] = IF t = v THEN "IDLE" ELSE s.state[t]
    BY <2>3 DEF IdleListOK
  <2>9. IdleListOK(r)
    BY <2>3, <2>5, <2>7, <2>8 DEF IdleListOK, AllTasks
  <2> QED BY <2>1, <2>2, <2>5, <2>8, <2>9 DEF AllTasks
<1> QED BY <1>1, <1>2

\* A step in which a task becomes IDLE, in task_kill_self or in kill_task.
LEMMA BecomesIdle ==
  ASSUME LifeInv, ~clash, NEW v \in Tasks, sch' = SetTaskState(sch, v, "IDLE"),
         UNCHANGED <<pid, pid_map, pid_current, victim, stale_next, abandoned>>,
         pc' \in [AllTasks -> LifePcs],
         \A t \in Tasks : /\ pc'[t] \in Freeing => pc'[t] = pc[t]
                          /\ pc'[t] \in KillPcs => pc[t] \in KillPcs
  PROVE  LifeInv'
<1>1. IdleListOK(sch) /\ LifeTypes /\ KillsOK /\ PidMapSound
  BY DEF LifeInv
<1>2. /\ IdleListOK(sch)'
      /\ \A t \in Tasks : sch.state[t] = "IDLE" =>
           sch'.state[t] = "IDLE" /\ (On(sch'.idle, t) <=> On(sch.idle, t))
      /\ \A t \in AllTasks : sch'.state[t] = "UNKNOWN" => sch.state[t] = "UNKNOWN"
  BY <1>1, SetIdle
<1>3. LifeTypes'
  BY <1>1 DEF LifeTypes
<1>4. PidMapSound'
  BY <1>1, <1>2 DEF PidMapSound, LifeTypes, AllTasks
<1>5. \A t \in Tasks : pc'[t] \in KillPcs => victim'[t] \in Tasks
  BY <1>1 DEF KillsOK
<1>6. \A t \in Tasks : pc'[t] \in Freeing => pc[t] \in Freeing /\ victim[t] \in Tasks
  BY <1>1 DEF KillsOK, Freeing, KillPcs
<1>7. \A t \in Tasks : pc'[t] \in Freeing => /\ sch'.state[victim'[t]] = "IDLE"
                                             /\ ~On(sch'.idle, victim'[t])
  BY <1>1, <1>2, <1>6 DEF KillsOK
<1>8. \A t, u \in Tasks :
        pc'[t] \in Freeing /\ pc'[u] \in Freeing /\ victim'[t] = victim'[u] => t = u
  BY <1>1, <1>6 DEF KillsOK
<1>9. \A t \in Tasks : pc'[t] = "kill_free" =>
        \A p \in Pids \ abandoned' : pid_map'[p] # NoTask => pid_map'[p] # victim'[t]
  BY <1>1 DEF KillsOK, Freeing
<1>10. KillsOK'
  BY <1>5, <1>7, <1>8, <1>9 DEF KillsOK
<1> QED BY <1>2, <1>3, <1>4, <1>10 DEF LifeInv

\* What the moves of one task's pc that the lemmas above allow look like.
LEMMA MoveAllowed ==
  ASSUME LifeTypes, NEW t \in Tasks, NEW where \in LifePcs \ Freeing,
         where \in KillPcs => pc[t] \in KillPcs,
         pc' = [pc EXCEPT ![t] = where]
  PROVE  /\ pc' \in [AllTasks -> LifePcs]
         /\ \A u \in Tasks : /\ pc'[u] \in Freeing => pc'[u] = pc[u]
                             /\ pc'[u] \in KillPcs => pc[u] \in KillPcs
<1>1. pc \in [AllTasks -> LifePcs]
  BY DEF LifeTypes
<1>2. \A u \in Tasks : pc'[u] = IF u = t THEN where ELSE pc[u]
  BY <1>1 DEF AllTasks
<1> QED BY <1>1, <1>2

\* task_kill_self up to the critical section of set_task_state.
LEMMA ExitReadInv ==
  ASSUME LifeInv, ~clash, NEW t \in Tasks, ExitRead(t)
  PROVE  LifeInv'
<1>1. IdleListOK(sch) /\ LifeTypes
  BY DEF LifeInv
<1>2. "exit_mark" \in LifePcs \ Freeing /\ "exit_mark" \notin KillPcs
  BY DEF LifePcs, Freeing, KillPcs
<1>3. /\ pc' \in [AllTasks -> LifePcs]
      /\ \A u \in Tasks : /\ pc'[u] \in Freeing => pc'[u] = pc[u]
                          /\ pc'[u] \in KillPcs => pc[u] \in KillPcs
  BY <1>1, <1>2, MoveAllowed DEF ExitRead, At
<1>4. IdleKept(sch, sch')
  BY <1>1, SameKeepsIdle DEF ExitRead
<1> QED BY <1>3, <1>4, QuietStep DEF ExitRead

\* The critical section of set_task_state(v, IDLE), entered with the state a:
\* when a is still the state of v the step is that of BecomesIdle, and when a
\* tick has made it stale v is still not UNKNOWN.
LEMMA MarkInv ==
  ASSUME LifeInv, ~clash, NEW v \in Tasks, NEW a,
         sch' = IF <<a, "IDLE">> \in ChangeTable THEN Relink(sch, v, a, "IDLE") ELSE sch,
         clash' = (a # sch.state[v]),
         UNCHANGED <<pid, pid_map, pid_current, victim, stale_next, abandoned>>,
         pc' \in [AllTasks -> LifePcs],
         \A t \in Tasks : /\ pc'[t] \in Freeing => pc'[t] = pc[t]
                          /\ pc'[t] \in KillPcs => pc[t] \in KillPcs
  PROVE  LifeInv'
<1>1. IdleListOK(sch) /\ LifeTypes /\ PidMapSound
  BY DEF LifeInv
<1>2. CASE a = sch.state[v]
  <2>1. sch' = SetTaskState(sch, v, "IDLE")
    BY <1>2 DEF SetTaskState
  <2> QED BY <2>1, BecomesIdle
<1>3. CASE a # sch.state[v]
  <2>1. sch'.state = sch.state \/ sch'.state = [sch.state EXCEPT ![v] = "IDLE"]
    BY DEF Relink
  <2>2. \A u \in AllTasks : sch'.state[u] = sch.state[u] \/ sch'.state[u] = "IDLE"
    BY <1>1, <2>1 DEF IdleListOK
  <2>3. PidMapSound'
    BY <1>1, <2>2 DEF PidMapSound, LifeTypes, AllTasks
  <2> QED BY <1>3, <2>3 DEF LifeInv
<1> QED BY <1>2, <1>3

\* In task_kill_self ...
LEMMA ExitSetIdleInv ==
  ASSUME LifeInv, ~clash, NEW t \in Tasks, ExitSetIdle(t)
  PROVE  LifeInv'
<1>1. LifeTypes
  BY DEF LifeInv
<1>2. "exit_wake" \in LifePcs \ Freeing /\ "exit_wake" \notin KillPcs
  BY DEF LifePcs, Freeing, KillPcs
<1>3. /\ pc' \in [AllTasks -> LifePcs]
      /\ \A u \in Tasks : /\ pc'[u] \in Freeing => pc'[u] = pc[u]
                          /\ pc'[u] \in KillPcs => pc[u] \in KillPcs
  BY <1>1, <1>2, MoveAllowed DEF ExitSetIdle, At
<1> QED BY <1>3, MarkInv DEF ExitSetIdle

\* ... and in kill_task.
LEMMA KillMarkInv ==
  ASSUME LifeInv, ~clash, NEW t \in Tasks, KillMark(t)
  PROVE  LifeInv'
<1>1. IdleListOK(sch) /\ LifeTypes /\ KillsOK /\ PidMapSound
  BY DEF LifeInv
<1>2. pc[t] = "kill_mark" /\ pc[t] \in KillPcs /\ victim[t] \in Tasks
  BY <1>1 DEF KillMark, Runs, KillPcs, KillsOK
<1>3. "kill_remove" \in LifePcs \ Freeing
  BY DEF LifePcs, Freeing
<1>4. /\ pc' \in [AllTasks -> LifePcs]
      /\ \A u \in Tasks : /\ pc'[u] \in Freeing => pc'[u] = pc[u]
                          /\ pc'[u] \in KillPcs => pc[u] \in KillPcs
  BY <1>1, <1>2, <1>3, MoveAllowed DEF KillMark, At
<1> QED BY <1>2, <1>4, MarkInv DEF KillMark

----------------------------------------------------------------------------
(* The rest of kill_task.                                                  *)

\* The steps of kill_task that change nothing but its place.
LEMMA KillReadInv ==
  ASSUME LifeInv, ~clash, NEW t \in Tasks, KillRead(t) \/ KillRefused(t)
  PROVE  LifeInv'
<1>1. IdleListOK(sch) /\ LifeTypes
  BY DEF LifeInv
<1>2. pc[t] \in KillPcs
  BY DEF KillRead, KillRefused, Runs, KillPcs
<1>3. \E where \in LifePcs \ Freeing : pc' = [pc EXCEPT ![t] = where]
  BY DEF KillRead, KillRefused, At, AfterKill, LifePcs, Freeing
<1>4. /\ pc' \in [AllTasks -> LifePcs]
      /\ \A u \in Tasks : /\ pc'[u] \in Freeing => pc'[u] = pc[u]
                          /\ pc'[u] \in KillPcs => pc[u] \in KillPcs
  BY <1>1, <1>2, <1>3, MoveAllowed
<1>5. IdleKept(sch, sch')
  BY <1>1, SameKeepsIdle DEF KillRead, KillRefused
<1> QED BY <1>4, <1>5, QuietStep DEF KillRead, KillRefused, lvars

\* The node after a member of the idle list is a task, or the head.
LEMMA SuccType ==
  ASSUME NEW s \in Seq(Tasks), NEW v, On(s, v)
  PROVE  Succ(s, v) \in Tasks \cup {Head0}
<1> DEFINE k == CHOOSE i \in 1 .. Len(s) : s[i] = v
<1>1. k \in 1 .. Len(s)
  BY DEF On
<1> HIDE DEF k
<1>2. k # Len(s) => k + 1 \in 1 .. Len(s)
  BY <1>1
<1>3. Succ(s, v) = IF k = Len(s) THEN Head0 ELSE s[k + 1]
  BY DEF Succ, k
<1> QED BY <1>2, <1>3

\* sched_remove_task: when the victim is on the idle list no other kill is
\* freeing it, and from now on this one is.
LEMMA KillRemoveInv ==
  ASSUME LifeInv, ~clash, NEW t \in Tasks, KillRemove(t)
  PROVE  LifeInv'
<1>1. IdleListOK(sch) /\ LifeTypes /\ KillsOK /\ PidMapSound
  BY DEF LifeInv
<1>2. PICK v \in Tasks : v = victim[t]
  BY <1>1 DEF KillRemove, Runs, KillPcs, KillsOK
<1>3. /\ sch' = [sch EXCEPT !.idle = ListDel(@, v), !.system = ListDel(@, v)]
      /\ clash' = ~On(sch.idle, v) /\ sch.state[v] = "IDLE"
      /\ pc' = [pc EXCEPT ![t] = "kill_pid"]
      /\ UNCHANGED <<pid, pid_map, pid_current, victim, abandoned>>
  BY <1>2 DEF KillRemove, Removable, At
<1>4. sch'.state = sch.state /\ sch'.idle = ListDel(sch.idle, v) /\ DOMAIN sch' = DOMAIN sch
  BY <1>1, <1>3 DEF IdleListOK
<1>5. PidMapSound'
  BY <1>1, <1>3, <1>4 DEF PidMapSound
<1>6. CASE ~On(sch.idle, v)
  BY <1>3, <1>5, <1>6 DEF LifeInv
<1>7. CASE On(sch.idle, v)
  <2>1. sch.idle \in Seq(Tasks) /\ NoTwice(sch.idle)
    BY <1>1 DEF IdleListOK
  <2>2. /\ sch'.idle \in Seq(Tasks) /\ NoTwice(sch'.idle)
        /\ \A u : On(sch'.idle, u) <=> On(sch.idle, u) /\ u # v
    BY <1>4, <2>1, ListDelProperties
  <2>3. IdleListOK(sch)'
    BY <1>1, <1>4, <2>2 DEF IdleListOK
  <2>4. "kill_pid" \in LifePcs
    BY DEF LifePcs
  <2>5. pc' \in [AllTasks -> LifePcs]
    BY <1>1, <1>3, <2>4 DEF LifeTypes
  <2>6. stale_next' \in Tasks \cup {Head0}
    BY <1>1, <1>2, <2>1, SuccType DEF KillRemove, LifeTypes
  <2>7. LifeTypes'
    BY <1>1, <1>3, <2>5, <2>6 DEF LifeTypes
  <2>8. \A u \in Tasks : pc'[u] = IF u = t THEN "kill_pid" ELSE pc[u]
    BY <1>1, <1>3 DEF LifeTypes, AllTasks
  <2>9. \A u \in Tasks : pc[u] \in Freeing => victim[u] # v
    BY <1>1, <1>7 DEF KillsOK
  <2>10. \A u \in Tasks : pc'[u] \in KillPcs => victim'[u] \in Tasks
    BY <1>1, <1>2, <1>3, <2>8 DEF KillsOK
  <2>11. \A u \in Tasks : pc'[u] \in Freeing => /\ sch'.state[victim'[u]] = "IDLE"
                                                /\ ~On(sch'.idle, victim'[u])
    BY <1>1, <1>2, <1>3, <1>4, <2>2, <2>8 DEF KillsOK
  <2>12. \A u, w \in Tasks :
           pc'[u] \in Freeing /\ pc'[w] \in Freeing /\ victim'[u] = victim'[w] => u = w
    BY <1>1, <1>2, <1>3, <2>8, <2>9 DEF KillsOK
  <2>13. \A u \in Tasks : pc'[u] = "kill_free" =>
           \A p \in Pids \ abandoned' : pid_map'[p] # NoTask => pid_map'[p] # victim'[u]
    BY <1>1, <1>3, <2>8 DEF KillsOK
  <2>14. KillsOK'
    BY <2>10, <2>11, <2>12, <2>13 DEF KillsOK
  <2> QED BY <1>5, <2>3, <2>7, <2>14 DEF LifeInv
<1> QED BY <1>6, <1>7

\* release_pid: the entry of the victim is the only one that leads to it.
LEMMA KillReleasePidInv ==
  ASSUME LifeInv, ~clash, NEW t \in Tasks, KillReleasePid(t)
  PROVE  LifeInv'
<1>1. IdleListOK(sch) /\ LifeTypes /\ KillsOK /\ PidMapSound
  BY DEF LifeInv
<1>2. pc[t] = "kill_pid" /\ pc[t] \in Freeing /\ pc[t] \in KillPcs
  BY DEF KillReleasePid, Runs, Freeing, KillPcs
<1>3. PICK v \in Tasks : v = victim[t]
  BY <1>1, <1>2 DEF KillsOK
<1>4. /\ pid_map' = [pid_map EXCEPT ![pid[v]] = NoTask]
      /\ pc' = [pc EXCEPT ![t] = "kill_free"]
      /\ UNCHANGED <<sch, pid, pid_current, victim, stale_next, abandoned, clash>>
  BY <1>3 DEF KillReleasePid, At
<1>5. \A p \in Pids : pid_map'[p] = IF p = pid[v] THEN NoTask ELSE pid_map[p]
  BY <1>1, <1>4 DEF LifeTypes
<1>6. PidMapSound'
  BY <1>1, <1>4, <1>5 DEF PidMapSound
<1>7. pid_map' \in [Pids -> Tasks \cup {NoTask}]
  BY <1>1, <1>4 DEF LifeTypes
<1>8. "kill_free" \in LifePcs
  BY DEF LifePcs
<1>9. pc' \in [AllTasks -> LifePcs]
  BY <1>1, <1>4, <1>8 DEF LifeTypes
<1>10. LifeTypes'
  BY <1>1, <1>4, <1>7, <1>9 DEF LifeTypes
<1>11. \A u \in Tasks : pc'[u] = IF u = t THEN "kill_free" ELSE pc[u]
  BY <1>1, <1>4 DEF LifeTypes, AllTasks
<1>12. \A u \in Tasks : pc'[u] \in Freeing <=> pc[u] \in Freeing
  BY <1>2, <1>11 DEF Freeing
<1>13. KillsOK'
  <2>1. \A u \in Tasks : pc'[u] \in KillPcs => victim'[u] \in Tasks
    BY <1>1, <1>3, <1>4, <1>11 DEF KillsOK
  <2>2. \A u \in Tasks : pc'[u] \in Freeing => /\ sch'.state[victim'[u]] = "IDLE"
                                               /\ ~On(sch'.idle, victim'[u])
    BY <1>1, <1>4, <1>12 DEF KillsOK
  <2>3. \A u, w \in Tasks :
          pc'[u] \in Freeing /\ pc'[w] \in Freeing /\ victim'[u] = victim'[w] => u = w
    BY <1>1, <1>4, <1>12 DEF KillsOK
  <2>4. \A u \in Tasks : pc'[u] = "kill_free" =>
          \A p \in Pids \ abandoned' : pid_map'[p] # NoTask => pid_map'[p] # victim'[u]
    <3>1. \A p \in Pids \ abandoned : pid_map'[p] # NoTask => pid_map'[p] # v
      BY <1>1, <1>5 DEF PidMapSound
    <3> QED BY <1>1, <1>3, <1>4, <1>5, <1>11, <3>1 DEF KillsOK
  <2> QED BY <2>1, <2>2, <2>3, <2>4 DEF KillsOK
<1> QED BY <1>1, <1>4, <1>6, <1>10, <1>13 DEF LifeInv

\* release_task: no pid leads to the task that is freed, and no other kill
\* is freeing it.
LEMMA KillFreeInv ==
  ASSUME LifeInv, ~clash, NEW t \in Tasks, KillFree(t)
  PROVE  LifeInv'
<1>1. IdleListOK(sch) /\ LifeTypes /\ KillsOK /\ PidMapSound
  BY DEF LifeInv
<1>2. pc[t] = "kill_free" /\ pc[t] \in Freeing /\ pc[t] \in KillPcs
  BY DEF KillFree, Runs, Freeing, KillPcs
<1>3. PICK v \in Tasks : v = victim[t]
  BY <1>1, <1>2 DEF KillsOK
<1>4. /\ sch' = [sch EXCEPT !.state = [@ EXCEPT ![v] = "UNKNOWN"]]
      /\ UNCHANGED <<pid, pid_map, pid_current, victim, stale_next, abandoned, clash>>
  BY <1>3 DEF KillFree, lvars
<1>5. PICK where \in LifePcs \ KillPcs : pc' = [pc EXCEPT ![t] = where]
  <2>1. AfterKill(t) \in LifePcs \ KillPcs
    BY DEF AfterKill, LifePcs, KillPcs
  <2> QED BY <2>1 DEF KillFree, At
<1>6. /\ sch'.state = [sch.state EXCEPT ![v] = "UNKNOWN"] /\ sch'.idle = sch.idle
      /\ DOMAIN sch' = DOMAIN sch
  BY <1>1, <1>4 DEF IdleListOK
<1>7. \A u \in AllTasks : sch'.state[u] = IF u = v THEN "UNKNOWN" ELSE sch.state[u]
  BY <1>1, <1>6 DEF IdleListOK
<1>8. ~On(sch.idle, v) /\ \A p \in Pids \ abandoned : pid_map[p] # NoTask => pid_map[p] # v
  BY <1>1, <1>2, <1>3 DEF KillsOK
<1>9. "UNKNOWN" \in States
  BY DEF States
<1>10. sch'.state \in [AllTasks -> States]
  BY <1>1, <1>6, <1>9 DEF IdleListOK
<1>11. IdleListOK(sch)'
  BY <1>1, <1>6, <1>7, <1>8, <1>10 DEF IdleListOK, AllTasks
<1>12. PidMapSound'
  BY <1>1, <1>4, <1>7, <1>8 DEF PidMapSound, LifeTypes, AllTasks
<1>13. LifeTypes'
  BY <1>1, <1>4, <1>5 DEF LifeTypes
<1>14. Freeing \subseteq KillPcs
  BY DEF Freeing, KillPcs
<1>15. \A u \in Tasks : pc'[u] \in KillPcs => u # t /\ pc'[u] = pc[u]
  BY <1>1, <1>5 DEF LifeTypes, AllTasks
<1>16. \A u \in Tasks : pc'[u] \in Freeing =>
         pc[u] \in Freeing /\ victim[u] # v /\ victim[u] \in Tasks
  BY <1>1, <1>2, <1>3, <1>14, <1>15 DEF KillsOK
<1>17. KillsOK'
  <2>1. \A u \in Tasks : pc'[u] \in KillPcs => victim'[u] \in Tasks
    BY <1>1, <1>4, <1>15 DEF KillsOK
  <2>2. \A u \in Tasks : pc'[u] \in Freeing => /\ sch'.state[victim'[u]] = "IDLE"
                                               /\ ~On(sch'.idle, victim'[u])
    BY <1>1, <1>4, <1>6, <1>7, <1>16 DEF KillsOK, AllTasks
  <2>3. \A u, w \in Tasks :
          pc'[u] \in Freeing /\ pc'[w] \in Freeing /\ victim'[u] = victim'[w] => u = w
    BY <1>1, <1>4, <1>16 DEF KillsOK
  <2>4. \A u \in Tasks : pc'[u] = "kill_free" =>
          \A p \in Pids \ abandoned' : pid_map'[p] # NoTask => pid_map'[p] # victim'[u]
    BY <1>1, <1>4, <1>15 DEF KillsOK, KillPcs
  <2> QED BY <2>1, <2>2, <2>3, <2>4 DEF KillsOK
<1> QED BY <1>11, <1>12, <1>13, <1>17 DEF LifeInv

----------------------------------------------------------------------------
(* The beginning of a kill, and all steps together.                        *)

\* A task enters kill_task with a task of the idle list, of the pid map, or
\* at the end of a next pointer that is still there.
LEMMA NewVictim ==
  ASSUME LifeInv, ~clash, NEW t \in Tasks, NEW v \in Tasks,
         pc[t] \notin KillPcs,
         victim' = [victim EXCEPT ![t] = v], pc' = [pc EXCEPT ![t] = "kill_read"],
         UNCHANGED <<sch, pid, pid_map, pid_current, stale_next, abandoned>>
  PROVE  LifeInv'
<1>1. IdleListOK(sch) /\ LifeTypes /\ KillsOK /\ PidMapSound
  BY DEF LifeInv
<1>2. "kill_read" \in LifePcs /\ "kill_read" \notin Freeing /\ "kill_free" \in Freeing
  BY DEF LifePcs, Freeing
<1>3. LifeTypes'
  BY <1>1, <1>2 DEF LifeTypes
<1>4. \A u \in Tasks : /\ pc'[u] = IF u = t THEN "kill_read" ELSE pc[u]
                       /\ victim'[u] = IF u = t THEN v ELSE victim[u]
  BY <1>1 DEF LifeTypes, AllTasks
<1>5. \A u \in Tasks : pc'[u] \in Freeing => /\ u # t /\ pc'[u] = pc[u]
                                             /\ victim'[u] = victim[u]
  BY <1>2, <1>4
<1>6. KillsOK'
  <2>1. \A u \in Tasks : pc'[u] \in KillPcs => victim'[u] \in Tasks
    BY <1>1, <1>4 DEF KillsOK
  <2>2. \A u \in Tasks : pc'[u] \in Freeing => /\ sch'.state[victim'[u]] = "IDLE"
                                               /\ ~On(sch'.idle, victim'[u])
    BY <1>1, <1>5 DEF KillsOK
  <2>3. \A u, w \in Tasks :
          pc'[u] \in Freeing /\ pc'[w] \in Freeing /\ victim'[u] = victim'[w] => u = w
    BY <1>1, <1>5 DEF KillsOK
  <2>4. \A u \in Tasks : pc'[u] = "kill_free" =>
          \A p \in Pids \ abandoned' : pid_map'[p] # NoTask => pid_map'[p] # victim'[u]
    BY <1>1, <1>2, <1>5 DEF KillsOK
  <2> QED BY <2>1, <2>2, <2>3, <2>4 DEF KillsOK
<1>7. PidMapSound' /\ IdleListOK(sch)'
  BY <1>1 DEF PidMapSound, IdleListOK
<1> QED BY <1>3, <1>6, <1>7 DEF LifeInv

\* All of kill_task.
LEMMA KillStepInv ==
  ASSUME LifeInv, ~clash, NEW t \in Tasks, KillStep(t)
  PROVE  LifeInv'
BY KillReadInv, KillMarkInv, KillRemoveInv, KillReleasePidInv, KillFreeInv DEF KillStep

\* One round of the loop of system_killer.
LEMMA ScanAtInv ==
  ASSUME LifeInv, ~clash, NEW list \in Tasks \cup {Head0}, ScanAt(list),
         pc[Killer] \notin KillPcs,
         UNCHANGED <<sch, pid, pid_map, pid_current, old, stale_next, abandoned, clash>>
  PROVE  LifeInv'
<1>1. Killer \in Tasks /\ Killer \in AllTasks
  BY KillerAssumption DEF AllTasks
<1>2. CASE list = Head0
  <2>1. IdleKept(sch, sch')
    BY SameKeepsIdle DEF LifeInv
  <2>2. "suspend" \in LifePcs \ KillPcs
    BY DEF LifePcs, KillPcs
  <2> QED BY <1>1, <1>2, <2>1, <2>2, QuietMove DEF ScanAt, At, lvars
<1>3. CASE list # Head0
  BY <1>1, <1>3, NewVictim DEF ScanAt, At
<1> QED BY <1>2, <1>3

\* The system killer.
LEMMA KillerStepInv ==
  ASSUME LifeInv, ~clash, KillerStep
  PROVE  LifeInv'
<1>0. Killer \in Tasks /\ Killer \in AllTasks
  BY KillerAssumption DEF AllTasks
<1>1. IdleListOK(sch) /\ LifeTypes
  BY DEF LifeInv
<1>2. sch.idle \in Seq(Tasks)
  BY <1>1 DEF IdleListOK
<1>3. CASE ScanFirst
  <2> DEFINE list == IF sch.idle = <<>> THEN Head0 ELSE Head(sch.idle)
  <2>1. list \in Tasks \cup {Head0}
    BY <1>2
  <2>2. ScanAt(list) /\ pc[Killer] \notin KillPcs
    BY <1>3 DEF ScanFirst, Runs, KillPcs
  <2> QED BY <1>3, <2>1, <2>2, ScanAtInv DEF ScanFirst
<1>4. CASE ScanNext
  <2> DEFINE v == victim[Killer]
             list == IF On(sch.idle, v) THEN Succ(sch.idle, v) ELSE stale_next
  <2>1. list \in Tasks \cup {Head0}
    BY <1>1, <1>2, SuccType DEF LifeTypes
  <2>2. ScanAt(list) /\ pc[Killer] \notin KillPcs
    BY <1>4 DEF ScanNext, Runs, KillPcs
  <2> QED BY <1>4, <2>1, <2>2, ScanAtInv DEF ScanNext
<1>5. CASE KillStep(Killer)
  BY <1>0, <1>5, KillStepInv
<1>6. "sched" \in LifePcs \ KillPcs /\ "scan" \in LifePcs \ KillPcs
  BY DEF LifePcs, KillPcs
<1>7. CASE KillerSuspend
  BY <1>0, <1>6, <1>7, SuspendLife DEF KillerSuspend
<1>8. CASE KillerSched
  BY <1>0, <1>6, <1>8, CallSchedLife DEF KillerSched
<1> QED BY <1>3, <1>4, <1>5, <1>7, <1>8 DEF KillerStep, ScanFirst, ScanNext

\* Exit, and the suspension of a task.
LEMMA TaskStepInv ==
  ASSUME LifeInv, ~clash, NEW t \in Tasks, TaskStep(t)
  PROVE  LifeInv'
<1>0. t \in AllTasks /\ IdleListOK(sch)
  BY DEF AllTasks, LifeInv
<1>1. {"exit_sched", "zombie", "sched", "run"} \subseteq LifePcs \ KillPcs
  BY DEF LifePcs, KillPcs
<1>2. CASE ExitRead(t) \/ ExitSetIdle(t)
  BY <1>2, ExitReadInv, ExitSetIdleInv
<1>3. CASE ExitWakeKiller(t)
  <2>1. IdleKept(sch, sch')
    BY <1>0, <1>3, WokenKeepsIdle DEF ExitWakeKiller
  <2> QED BY <1>0, <1>1, <1>3, <2>1, QuietMove DEF ExitWakeKiller, At
<1>4. CASE ExitSched(t)
  BY <1>0, <1>1, <1>4, CallSchedLife DEF ExitSched
<1>5. CASE LifeSuspend(t)
  BY <1>0, <1>1, <1>5, SuspendLife DEF LifeSuspend
<1>6. CASE LifeSched(t)
  BY <1>0, <1>1, <1>6, CallSchedLife DEF LifeSched
<1> QED BY <1>2, <1>3, <1>4, <1>5, <1>6 DEF TaskStep

\* The state main leaves behind.
LEMMA LifeInitInv == LifeInit => LifeInv
<1> SUFFICES ASSUME LifeInit PROVE LifeInv
  OBVIOUS
<1>1. /\ sch.state \in [AllTasks -> States] /\ sch.idle = <<>>
      /\ {"state", "idle", "prio", "system"} \subseteq DOMAIN sch
  BY DEF LifeInit, Init, States
<1>2. IdleListOK(sch)
  BY <1>1 DEF IdleListOK, NoTwice, On
<1>3. LifeTypes
  BY PidAssumption DEF LifeInit, Init, LifeTypes, LifePcs, Pids
<1>4. PidMapSound
  BY DEF LifeInit, PidMapSound
<1>5. KillsOK
  BY DEF LifeInit, Init, KillsOK, KillPcs, Freeing, AllTasks
<1> QED BY <1>2, <1>3, <1>4, <1>5 DEF LifeInv

\* Every step of the system.
LEMMA LifeNextInv ==
  ASSUME LifeInv, [LifeNext]_lifevars
  PROVE  LifeInv'
<1>1. CASE UNCHANGED lifevars
  BY <1>1 DEF lifevars, vars, lvars, LifeInv, PidMapSound, IdleListOK, LifeTypes, KillsOK
<1>2. CASE LifeNext
  <2>0. ~clash /\ IdleListOK(sch) /\ LifeTypes
    BY <1>2 DEF LifeNext, LifeInv
  <2>1. CASE Tick /\ UNCHANGED lvars
    BY <2>0, <2>1, TickInv
  <2>2. CASE IdleSched /\ UNCHANGED lvars
    <3>1. Idle \in AllTasks /\ "run" \in LifePcs \ KillPcs
      BY DEF AllTasks, LifePcs, KillPcs
    <3> QED BY <2>0, <2>2, <3>1, CallSchedLife DEF IdleSched
  <2>3. ASSUME NEW t \in AllTasks, NEW new \in Tasks, LifeFork(t, new) PROVE LifeInv'
    BY <2>0, <2>3, LifeForkInv
  <2>9. ASSUME NEW t \in AllTasks, NEW new \in Tasks, LifeForkFails(t, new) PROVE LifeInv'
    BY <2>0, <2>9, LifeForkFailsInv
  <2>4. CASE KillerStep
    BY <2>0, <2>4, KillerStepInv
  <2>5. ASSUME NEW t \in Tasks, TaskStep(t) PROVE LifeInv'
    BY <2>0, <2>5, TaskStepInv
  <2>6. ASSUME NEW t \in AllTasks, NEW u \in Tasks, WakeupTask(t, u), UNCHANGED lvars
        PROVE  LifeInv'
    <3>1. IdleKept(sch, sch') /\ pc' = pc
      BY <2>0, <2>6, WokenKeepsIdle DEF WakeupTask
    <3> QED BY <2>0, <2>6, <3>1, QuietStep DEF lvars, LifeTypes
  <2>7. ASSUME NEW t \in Signallers, NEW p \in Pids, SysKill(t, p) PROVE LifeInv'
    <3>1. t \in Tasks /\ pid_map[p] \in Tasks /\ pc[t] \notin KillPcs
      BY <2>0, <2>7, KillerAssumption DEF SysKill, LifeTypes, Runs, KillPcs
    <3> QED BY <2>0, <2>7, <3>1, NewVictim DEF SysKill, At
  <2>8. ASSUME NEW t \in Signallers, KillStep(t) PROVE LifeInv'
    BY <2>0, <2>8, KillerAssumption, KillStepInv
  <2> QED BY <1>2, <2>1, <2>2, <2>3, <2>4, <2>5, <2>6, <2>7, <2>8, <2>9 DEF LifeNext
<1> QED BY <1>1, <1>2

\* The inductive invariant of kill_task, fork and exit.
THEOREM LifeInvariant == LifeSpec => []LifeInv
BY LifeInitInv, LifeNextInv, PTL DEF LifeSpec

\* pid_get_task(p) returns a task that exists and has the pid p unless p was
\* given to a fork that failed, whatever kills, exits and forks are under
\* way, up to and including the step in which a kill or an exit meets the work
\* of another.
THEOREM PidMapCorrect == LifeSpec => []PidMapSound
<1>1. LifeInv => PidMapSound
  BY DEF LifeInv
<1> QED BY <1>1, LifeInvariant, PTL
=============================================================================
