---------------------------- MODULE SchedProofs ----------------------------
(***************************************************************************)
(* Proofs about module Sched, for any number of tasks and priorities.      *)
(***************************************************************************)
EXTENDS Sched, WellFoundedInduction, TLAPS

----------------------------------------------------------------------------
(* The list operations.                                                    *)

\* Taking a task off a list (list_del) yields a list of the same type, one
\* shorter, that still holds everybody else and nobody twice.
LEMMA ListDelProperties ==
  ASSUME NEW S, NEW s \in Seq(S), NEW t, NoTwice(s)
  PROVE  /\ ListDel(s, t) \in Seq(S)
         /\ NoTwice(ListDel(s, t))
         /\ \A u : On(ListDel(s, t), u) <=> On(s, u) /\ u # t
         /\ Len(ListDel(s, t)) = IF On(s, t) THEN Len(s) - 1 ELSE Len(s)
<1>1. CASE ~On(s, t)
  BY <1>1 DEF ListDel, On
<1>2. CASE On(s, t)
  <2> DEFINE k == CHOOSE i \in 1 .. Len(s) : s[i] = t
             d == [i \in 1 .. Len(s) - 1 |-> IF i < k THEN s[i] ELSE s[i + 1]]
  <2>1. k \in 1 .. Len(s) /\ s[k] = t
    BY <1>2 DEF On
  <2>2. ListDel(s, t) = d
    BY <1>2 DEF ListDel
  <2> HIDE DEF k
  <2>3. Len(s) \in Nat /\ Len(s) - 1 \in Nat /\ \A i \in 1 .. Len(s) : s[i] \in S
    BY <2>1
  <2>4. d \in Seq(S) /\ Len(d) = Len(s) - 1
    BY <2>1, <2>3
  <2>5. \A i \in 1 .. Len(s) - 1 : d[i] = IF i < k THEN s[i] ELSE s[i + 1]
    OBVIOUS
  <2> HIDE DEF d
  <2>6. NoTwice(d)
    BY <2>1, <2>3, <2>4, <2>5 DEF NoTwice
  <2>7. ASSUME NEW u PROVE On(d, u) <=> On(s, u) /\ u # t
    <3>1. ASSUME On(d, u) PROVE On(s, u) /\ u # t
      BY <3>1, <2>1, <2>3, <2>4, <2>5 DEF On, NoTwice
    <3>2. ASSUME On(s, u), u # t PROVE On(d, u)
      <4>1. PICK i \in 1 .. Len(s) : s[i] = u
        BY <3>2 DEF On
      <4>2. CASE i < k
        BY <4>1, <4>2, <2>1, <2>3, <2>4, <2>5 DEF On
      <4>3. CASE i > k
        <5>1. i - 1 \in 1 .. Len(d) /\ d[i - 1] = u
          BY <4>1, <4>3, <2>1, <2>3, <2>4, <2>5
        <5> QED BY <5>1 DEF On
      <4> QED BY <4>1, <4>2, <4>3, <3>2, <2>1, <2>3
    <3> QED BY <3>1, <3>2
  <2> QED BY <1>2, <2>2, <2>4, <2>6, <2>7
<1> QED BY <1>1, <1>2

\* list_add_tail of a task that is not on the list.
LEMMA ListAddTailProperties ==
  ASSUME NEW S, NEW s \in Seq(S), NEW t \in S
  PROVE  /\ Append(s, t) \in Seq(S)
         /\ Len(Append(s, t)) = Len(s) + 1
         /\ NoTwice(s) /\ ~On(s, t) => NoTwice(Append(s, t))
         /\ \A u : On(Append(s, t), u) <=> On(s, u) \/ u = t
<1> DEFINE a == Append(s, t)
<1>1. /\ a \in Seq(S) /\ Len(a) = Len(s) + 1 /\ Len(s) \in Nat
      /\ \A i \in 1 .. Len(s) : a[i] = s[i]
      /\ a[Len(s) + 1] = t
  OBVIOUS
<1> HIDE DEF a
<1>2. NoTwice(s) /\ ~On(s, t) => NoTwice(a)
  BY <1>1 DEF NoTwice, On
<1>3. \A u : On(a, u) <=> On(s, u) \/ u = t
  BY <1>1 DEF On
<1> QED BY <1>1, <1>2, <1>3, Zenon DEF a

\* list_add, at the head.
LEMMA ListAddProperties ==
  ASSUME NEW S, NEW s \in Seq(S), NEW t \in S
  PROVE  /\ <<t>> \o s \in Seq(S)
         /\ NoTwice(s) /\ ~On(s, t) => NoTwice(<<t>> \o s)
         /\ \A u : On(<<t>> \o s, u) <=> On(s, u) \/ u = t
<1> DEFINE a == <<t>> \o s
<1>1. /\ a \in Seq(S) /\ Len(a) = Len(s) + 1 /\ Len(s) \in Nat
      /\ \A i \in 1 .. Len(s) : a[i + 1] = s[i]
      /\ a[1] = t
  OBVIOUS
<1> HIDE DEF a
<1>2. \A i \in 1 .. Len(a) : i = 1 \/ (i - 1 \in 1 .. Len(s) /\ a[i] = s[i - 1])
  BY <1>1
<1>3. ASSUME NoTwice(s), ~On(s, t) PROVE NoTwice(a)
  <2> SUFFICES ASSUME NEW i \in 1 .. Len(a), NEW j \in 1 .. Len(a),
                      a[i] = a[j], i < j
               PROVE  FALSE
    BY <1>1 DEF NoTwice
  <2>1. j - 1 \in 1 .. Len(s) /\ a[j] = s[j - 1]
    BY <1>1, <1>2
  <2>2. i # 1
    BY <1>1, <1>3, <2>1 DEF On
  <2>3. i - 1 \in 1 .. Len(s) /\ a[i] = s[i - 1]
    BY <1>2, <2>2
  <2> QED BY <1>3, <2>1, <2>3 DEF NoTwice
<1>4. \A u : On(a, u) <=> On(s, u) \/ u = t
  <2> TAKE u
  <2>1. ASSUME On(a, u) PROVE On(s, u) \/ u = t
    BY <2>1, <1>1, <1>2 DEF On
  <2>2. ASSUME On(s, u) PROVE On(a, u)
    <3>1. PICK i \in 1 .. Len(s) : s[i] = u
      BY <2>2 DEF On
    <3>2. i + 1 \in 1 .. Len(a) /\ a[i + 1] = u
      BY <3>1, <1>1
    <3> QED BY <3>2 DEF On
  <2>3. ASSUME u = t PROVE On(a, u)
    BY <2>3, <1>1 DEF On
  <2> QED BY <2>1, <2>2, <2>3
<1> QED BY <1>1, <1>3, <1>4 DEF a

----------------------------------------------------------------------------
(* The scheduler record.                                                   *)

\* The part of the invariant that only set_task_state, dec_prio and
\* init_sched_struct can disturb: every task is once on the lists of its
\* state and on no other, and the counters are the lengths of the lists.
SchedOK(s) ==
  /\ s \in SchedType
  /\ \A t \in AllTasks : OnItsLists(s, t)
  /\ \A p \in Prios : NoTwice(s.ready[p]) /\ s.count[p] = Len(s.ready[p])
  /\ NoTwice(s.sleep) /\ NoTwice(s.idle) /\ NoTwice(s.system)

Listed == {"PREPARE", "RUNNING", "SLEEP", "IDLE"}

\* Moving a task between lists: whatever the old and the new state, the
\* ready lists and counters come out right.
LEMMA RelinkReady ==
  ASSUME NEW s, SchedOK(s), NEW t \in AllTasks, NEW new \in Listed,
         new # s.state[t]
  PROVE  LET n == Relink(s, t, s.state[t], new)
         IN  /\ n.ready \in [Prios -> Seq(AllTasks)]
             /\ n.count \in [Prios -> Int]
             /\ \A q \in Prios : /\ NoTwice(n.ready[q])
                                 /\ n.count[q] = Len(n.ready[q])
             /\ \A q \in Prios, u \in AllTasks :
                  On(n.ready[q], u) <=> IF u = t
                                        THEN new = "PREPARE" /\ q = s.prio[t]
                                        ELSE On(s.ready[q], u)
<1> DEFINE old == s.state[t]
           p == s.prio[t]
           r == IF old = "PREPARE" THEN ReadyDel(s, t) ELSE s.ready
           c == IF old = "PREPARE" THEN CountAdd(s.count, p, -1) ELSE s.count
           r2 == IF new = "PREPARE" THEN [r EXCEPT ![p] = Append(@, t)] ELSE r
           c2 == IF new = "PREPARE" THEN CountAdd(c, p, 1) ELSE c
<1>1. /\ p \in Prios /\ s.ready \in [Prios -> Seq(AllTasks)]
      /\ s.count \in [Prios -> Int]
  BY DEF SchedOK, SchedType
<1>2. \A q \in Prios : /\ On(s.ready[q], t) <=> old = "PREPARE" /\ q = p
                       /\ NoTwice(s.ready[q]) /\ s.count[q] = Len(s.ready[q])
  BY DEF SchedOK, OnItsLists
<1> HIDE DEF old, p
<1>3. ASSUME NEW q \in Prios
      PROVE  /\ r[q] \in Seq(AllTasks) /\ NoTwice(r[q])
             /\ \A u : On(r[q], u) <=> On(s.ready[q], u) /\ u # t
             /\ c[q] = Len(r[q])
  <2>0. s.ready[q] \in Seq(AllTasks) /\ Len(s.ready[q]) \in Nat
    BY <1>1
  <2>1. CASE old = "PREPARE"
    <3>1. r[q] = ListDel(s.ready[q], t)
      BY <2>1 DEF ReadyDel
    <3>2. c[q] = IF q = p THEN s.count[q] - 1 ELSE s.count[q]
      BY <2>1, <1>1 DEF CountAdd
    <3>3. /\ ListDel(s.ready[q], t) \in Seq(AllTasks)
          /\ NoTwice(ListDel(s.ready[q], t))
          /\ \A u : On(ListDel(s.ready[q], t), u) <=> On(s.ready[q], u) /\ u # t
          /\ Len(ListDel(s.ready[q], t)) =
               IF On(s.ready[q], t) THEN Len(s.ready[q]) - 1 ELSE Len(s.ready[q])
      BY <1>2, <2>0, ListDelProperties
    <3> HIDE DEF r, c
    <3> QED BY <3>1, <3>2, <3>3, <2>0, <2>1, <1>2
  <2>2. CASE old # "PREPARE"
    BY <2>0, <2>2, <1>2
  <2> QED BY <2>1, <2>2
<1>4. r \in [Prios -> Seq(AllTasks)] /\ c \in [Prios -> Int]
  BY <1>1, <1>2, <1>3 DEF ReadyDel, CountAdd
<1> HIDE DEF r, c
<1>5. ASSUME NEW q \in Prios
      PROVE  /\ r2[q] \in Seq(AllTasks) /\ NoTwice(r2[q]) /\ c2[q] = Len(r2[q])
             /\ \A u \in AllTasks : On(r2[q], u) <=> IF u = t
                                                     THEN new = "PREPARE" /\ q = p
                                                     ELSE On(s.ready[q], u)
  <2>1. CASE new = "PREPARE" /\ q = p
    <3>1. r2[q] = Append(r[q], t) /\ c2[q] = c[q] + 1
      BY <2>1, <1>1, <1>4 DEF CountAdd
    <3>2. ~On(r[q], t)
      BY <1>3
    <3>3. /\ Append(r[q], t) \in Seq(AllTasks)
          /\ Len(Append(r[q], t)) = Len(r[q]) + 1
          /\ NoTwice(Append(r[q], t))
          /\ \A u : On(Append(r[q], t), u) <=> On(r[q], u) \/ u = t
      BY <1>3, <3>2, ListAddTailProperties
    <3> HIDE DEF r2, c2
    <3> QED BY <3>1, <3>3, <2>1, <1>3
  <2>2. CASE ~(new = "PREPARE" /\ q = p)
    <3>1. r2[q] = r[q] /\ c2[q] = c[q]
      BY <2>2, <1>1, <1>4 DEF CountAdd
    <3> HIDE DEF r2, c2
    <3> QED BY <3>1, <2>2, <1>3
  <2> QED BY <2>1, <2>2
<1>6. r2 \in [Prios -> Seq(AllTasks)] /\ c2 \in [Prios -> Int]
  <2>1. r[p] \in Seq(AllTasks) /\ Append(r[p], t) \in Seq(AllTasks)
    BY <1>1, <1>4
  <2> QED BY <1>1, <1>4, <2>1 DEF CountAdd
<1>7. /\ Relink(s, t, old, new).ready = r2
      /\ Relink(s, t, old, new).count = c2
  BY DEF Relink, r, c, p
<1> HIDE DEF r2, c2
<1>8. /\ Relink(s, t, s.state[t], new).ready = r2
      /\ Relink(s, t, s.state[t], new).count = c2
  BY <1>7 DEF old
<1> QED BY <1>5, <1>6, <1>8 DEF p

\* The same for the sleep, idle and system lists.
LEMMA RelinkOthers ==
  ASSUME NEW s, SchedOK(s), NEW t \in AllTasks, NEW new \in Listed,
         new # s.state[t]
  PROVE  LET n == Relink(s, t, s.state[t], new)
         IN  /\ n.sleep \in Seq(AllTasks) /\ NoTwice(n.sleep)
             /\ \A u \in AllTasks :
                  On(n.sleep, u) <=> IF u = t THEN new = "SLEEP" ELSE On(s.sleep, u)
             /\ n.idle \in Seq(AllTasks) /\ NoTwice(n.idle)
             /\ \A u \in AllTasks :
                  On(n.idle, u) <=> On(s.idle, u) \/ (u = t /\ new = "IDLE")
             /\ n.system \in Seq(AllTasks) /\ NoTwice(n.system)
             /\ \A u \in AllTasks :
                  On(n.system, u) <=> On(s.system, u)
                                        \/ (u = t /\ s.state[t] = "UNKNOWN")
<1> DEFINE old == s.state[t]
           n == Relink(s, t, old, new)
           z == IF old = "SLEEP" THEN ListDel(s.sleep, t) ELSE s.sleep
<1>1. /\ s.sleep \in Seq(AllTasks) /\ s.idle \in Seq(AllTasks)
      /\ s.system \in Seq(AllTasks)
  BY DEF SchedOK, SchedType
<1>2. /\ On(s.sleep, t) <=> old = "SLEEP"
      /\ On(s.idle, t) <=> old = "IDLE"
      /\ On(s.system, t) <=> t # Idle /\ old # "UNKNOWN"
      /\ NoTwice(s.sleep) /\ NoTwice(s.idle) /\ NoTwice(s.system)
  BY DEF SchedOK, OnItsLists
<1>3. /\ n.sleep = IF new # "SLEEP" THEN z
                   ELSE IF old = "UNKNOWN" THEN <<t>> \o z ELSE Append(z, t)
      /\ n.idle = IF new = "IDLE" THEN Append(s.idle, t) ELSE s.idle
      /\ n.system = IF old = "UNKNOWN" THEN Append(s.system, t) ELSE s.system
  BY DEF Relink
<1>4. new # old
  OBVIOUS
<1> HIDE DEF n, old
<1>5. /\ n.sleep \in Seq(AllTasks) /\ NoTwice(n.sleep)
      /\ \A u \in AllTasks :
           On(n.sleep, u) <=> IF u = t THEN new = "SLEEP" ELSE On(s.sleep, u)
  <2>1. /\ z \in Seq(AllTasks) /\ NoTwice(z)
        /\ \A u : On(z, u) <=> On(s.sleep, u) /\ u # t
    <3>1. CASE old = "SLEEP"
      BY <3>1, <1>1, <1>2, ListDelProperties
    <3>2. CASE old # "SLEEP"
      BY <3>2, <1>1, <1>2
    <3> QED BY <3>1, <3>2
  <2> HIDE DEF z
  <2>2. CASE new # "SLEEP"
    BY <2>1, <2>2, <1>3
  <2>3. CASE new = "SLEEP" /\ old = "UNKNOWN"
    <3>1. n.sleep = <<t>> \o z
      BY <2>3, <1>3
    <3>2. /\ <<t>> \o z \in Seq(AllTasks) /\ NoTwice(<<t>> \o z)
          /\ \A u : On(<<t>> \o z, u) <=> On(z, u) \/ u = t
      BY <2>1, ListAddProperties
    <3> QED BY <3>1, <3>2, <2>1, <2>3, Zenon
  <2>4. CASE new = "SLEEP" /\ old # "UNKNOWN"
    <3>1. n.sleep = Append(z, t)
      BY <2>4, <1>3
    <3>2. /\ Append(z, t) \in Seq(AllTasks) /\ NoTwice(Append(z, t))
          /\ \A u : On(Append(z, t), u) <=> On(z, u) \/ u = t
      BY <2>1, ListAddTailProperties
    <3> QED BY <3>1, <3>2, <2>1, <2>4, Zenon
  <2> QED BY <2>2, <2>3, <2>4
<1>6. /\ n.idle \in Seq(AllTasks) /\ NoTwice(n.idle)
      /\ \A u \in AllTasks :
           On(n.idle, u) <=> On(s.idle, u) \/ (u = t /\ new = "IDLE")
  <2>1. CASE new = "IDLE"
    <3>1. n.idle = Append(s.idle, t) /\ ~On(s.idle, t)
      BY <2>1, <1>2, <1>3, <1>4
    <3>2. /\ Append(s.idle, t) \in Seq(AllTasks) /\ NoTwice(Append(s.idle, t))
          /\ \A u : On(Append(s.idle, t), u) <=> On(s.idle, u) \/ u = t
      BY <3>1, <1>1, <1>2, ListAddTailProperties
    <3> QED BY <3>1, <3>2, <2>1, Zenon
  <2>2. CASE new # "IDLE"
    BY <2>2, <1>1, <1>2, <1>3
  <2> QED BY <2>1, <2>2
<1>7. /\ n.system \in Seq(AllTasks) /\ NoTwice(n.system)
      /\ \A u \in AllTasks :
           On(n.system, u) <=> On(s.system, u) \/ (u = t /\ old = "UNKNOWN")
  <2>1. CASE old = "UNKNOWN"
    <3>1. n.system = Append(s.system, t) /\ ~On(s.system, t)
      BY <2>1, <1>2, <1>3
    <3>2. /\ Append(s.system, t) \in Seq(AllTasks) /\ NoTwice(Append(s.system, t))
          /\ \A u : On(Append(s.system, t), u) <=> On(s.system, u) \/ u = t
      BY <3>1, <1>1, <1>2, ListAddTailProperties
    <3> QED BY <3>1, <3>2, <2>1, Zenon
  <2>2. CASE old # "UNKNOWN"
    BY <2>2, <1>1, <1>2, <1>3
  <2> QED BY <2>1, <2>2
<1> QED BY <1>5, <1>6, <1>7 DEF n, old

\* set_task_state keeps the scheduler record consistent for every task and
\* every new state but UNKNOWN, and changes no priority.  The idle task must
\* have a state already: it is never on the system list.
LEMMA SetTaskStateOK ==
  ASSUME NEW s, SchedOK(s), NEW t \in AllTasks, NEW new \in Listed,
         t = Idle => s.state[t] # "UNKNOWN"
  PROVE  /\ SchedOK(SetTaskState(s, t, new))
         /\ SetTaskState(s, t, new).prio = s.prio
         /\ SetTaskState(s, t, new).state =
              IF <<s.state[t], new>> \in ChangeTable
              THEN [s.state EXCEPT ![t] = new] ELSE s.state
<1> DEFINE n == Relink(s, t, s.state[t], new)
<1>1. CASE <<s.state[t], new>> \notin ChangeTable
  BY <1>1 DEF SetTaskState
<1>2. CASE <<s.state[t], new>> \in ChangeTable
  <2>1. SetTaskState(s, t, new) = n
    BY <1>2 DEF SetTaskState
  <2>2. new # s.state[t] /\ s.state[t] # "IDLE"
    BY <1>2 DEF ChangeTable
  <2>3. /\ n.state = [s.state EXCEPT ![t] = new] /\ n.prio = s.prio
        /\ n = [state |-> n.state, prio |-> n.prio, ready |-> n.ready,
                count |-> n.count, sleep |-> n.sleep, idle |-> n.idle,
                system |-> n.system]
    BY DEF Relink
  <2>4. /\ s.state \in [AllTasks -> States] /\ s.prio \in [AllTasks -> Prios]
    BY DEF SchedOK, SchedType
  <2>5. \A u \in AllTasks : OnItsLists(s, u)
    BY DEF SchedOK
  <2>6. /\ n.ready \in [Prios -> Seq(AllTasks)]
        /\ n.count \in [Prios -> Int]
        /\ \A q \in Prios : /\ NoTwice(n.ready[q])
                            /\ n.count[q] = Len(n.ready[q])
        /\ \A q \in Prios, u \in AllTasks :
             On(n.ready[q], u) <=> IF u = t
                                   THEN new = "PREPARE" /\ q = s.prio[t]
                                   ELSE On(s.ready[q], u)
    BY <2>2, RelinkReady
  <2>7. /\ n.sleep \in Seq(AllTasks) /\ NoTwice(n.sleep)
        /\ \A u \in AllTasks :
             On(n.sleep, u) <=> IF u = t THEN new = "SLEEP" ELSE On(s.sleep, u)
        /\ n.idle \in Seq(AllTasks) /\ NoTwice(n.idle)
        /\ \A u \in AllTasks :
             On(n.idle, u) <=> On(s.idle, u) \/ (u = t /\ new = "IDLE")
        /\ n.system \in Seq(AllTasks) /\ NoTwice(n.system)
        /\ \A u \in AllTasks :
             On(n.system, u) <=> On(s.system, u)
                                   \/ (u = t /\ s.state[t] = "UNKNOWN")
    BY <2>2, RelinkOthers
  <2> HIDE DEF n
  <2>8. n \in SchedType
    <3>1. n.state \in [AllTasks -> States]
      BY <2>3, <2>4 DEF Listed, States
    <3> QED BY <3>1, <2>3, <2>4, <2>6, <2>7 DEF SchedType
  <2>9. ASSUME NEW u \in AllTasks PROVE OnItsLists(n, u)
    <3>1. CASE u = t
      BY <3>1, <2>2, <2>3, <2>4, <2>5, <2>6, <2>7 DEF OnItsLists, Listed
    <3>2. CASE u # t
      BY <3>2, <2>3, <2>4, <2>5, <2>6, <2>7 DEF OnItsLists
    <3> QED BY <3>1, <3>2
  <2>10. SchedOK(n)
    BY <2>6, <2>7, <2>8, <2>9 DEF SchedOK
  <2> QED BY <1>2, <2>1, <2>3, <2>10
<1> QED BY <1>1, <1>2

\* dec_prio leaves the priority in range and, applied to a task that is on
\* no ready list, the scheduler record consistent.
LEMMA DecPrioOK ==
  ASSUME NEW s, SchedOK(s), NEW t \in AllTasks, s.state[t] # "PREPARE"
  PROVE  SchedOK(DecPrio(s, t)) /\ DecPrio(s, t).state = s.state
<1> DEFINE n == DecPrio(s, t)
           p == IF s.prio[t] < MaxPrio - 1 THEN s.prio[t] + 1 ELSE s.prio[t]
           q == IF t # Idle /\ p = MaxPrio - 1 THEN 0 ELSE p
<1>1. s \in SchedType /\ s.prio \in [AllTasks -> Prios] /\ s.prio[t] \in Prios
  BY DEF SchedOK, SchedType
<1>2. q \in Prios
  BY <1>1, PrioAssumption DEF Prios
<1>3. n = [s EXCEPT !.prio = [s.prio EXCEPT ![t] = q]]
  BY DEF DecPrio
<1> HIDE DEF n, q
<1>4. /\ n \in SchedType /\ n.state = s.state /\ n.ready = s.ready
      /\ n.count = s.count /\ n.sleep = s.sleep /\ n.idle = s.idle
      /\ n.system = s.system /\ n.prio = [s.prio EXCEPT ![t] = q]
  BY <1>1, <1>2, <1>3 DEF SchedType
<1>5. ASSUME NEW u \in AllTasks PROVE OnItsLists(n, u)
  <2>1. OnItsLists(s, u)
    BY DEF SchedOK
  <2> QED BY <2>1, <1>1, <1>4 DEF OnItsLists
<1> QED BY <1>4, <1>5 DEF SchedOK, n

\* A set of natural numbers that is not empty has a least element.
LEMMA LeastExists ==
  ASSUME NEW T, T \subseteq Nat, T # {}
  PROVE  \E x \in T : \A y \in T : x <= y
<1>1. PICK x \in T : \A y \in T : ~(<<y, x>> \in OpToRel(<, Nat))
  BY NatLessThanWellFounded, WFMin
<1>2. \A y \in T : ~(y < x)
  BY <1>1 DEF OpToRel
<1> QED BY <1>2

\* find_next_run_task: with the counters right, the task it picks is ready,
\* and it finds one whenever there is one.
LEMMA FindNextRunTaskOK ==
  ASSUME NEW s, SchedOK(s)
  PROVE  /\ NonEmptyPrios(s) # {} =>
              /\ FindNextRunTask(s) \in AllTasks
              /\ s.state[FindNextRunTask(s)] = "PREPARE"
         /\ NonEmptyPrios(s) = {} =>
              /\ FindNextRunTask(s) = next_run
              /\ \A t \in AllTasks : s.state[t] # "PREPARE"
<1>0. /\ s.ready \in [Prios -> Seq(AllTasks)] /\ s.prio \in [AllTasks -> Prios]
      /\ \A p \in Prios : s.count[p] = Len(s.ready[p])
      /\ \A t \in AllTasks : OnItsLists(s, t)
  BY DEF SchedOK, SchedType
<1>1. ASSUME NonEmptyPrios(s) # {}
      PROVE  /\ FindNextRunTask(s) \in AllTasks
             /\ s.state[FindNextRunTask(s)] = "PREPARE"
  <2> DEFINE f == FirstPrio(s)
  <2>1. \E x \in NonEmptyPrios(s) : \A y \in NonEmptyPrios(s) : x <= y
    <3>1. NonEmptyPrios(s) \subseteq Nat
      BY PrioAssumption DEF NonEmptyPrios, Prios
    <3> QED BY <1>1, <3>1, LeastExists
  <2>2. f \in NonEmptyPrios(s)
    BY <2>1 DEF FirstPrio
  <2> HIDE DEF f
  <2>3. f \in Prios /\ s.ready[f] \in Seq(AllTasks) /\ Len(s.ready[f]) # 0
    BY <1>0, <2>2 DEF NonEmptyPrios
  <2>4. 1 \in 1 .. Len(s.ready[f]) /\ Head(s.ready[f]) = s.ready[f][1]
    BY <2>3
  <2>5. Head(s.ready[f]) \in AllTasks /\ On(s.ready[f], Head(s.ready[f]))
    BY <2>3, <2>4 DEF On
  <2>6. FindNextRunTask(s) = Head(s.ready[f])
    BY <1>1 DEF FindNextRunTask, f
  <2> QED BY <1>0, <2>3, <2>5, <2>6 DEF OnItsLists
<1>2. ASSUME NonEmptyPrios(s) = {}, NEW t \in AllTasks
      PROVE  s.state[t] # "PREPARE"
  <2> SUFFICES ASSUME s.state[t] = "PREPARE" PROVE FALSE
    OBVIOUS
  <2>1. s.prio[t] \in Prios /\ On(s.ready[s.prio[t]], t)
    BY <1>0 DEF OnItsLists
  <2>2. s.count[s.prio[t]] # 0
    BY <1>0, <2>1 DEF On
  <2> QED BY <1>2, <2>1, <2>2 DEF NonEmptyPrios
<1> QED BY <1>1, <1>2 DEF FindNextRunTask

----------------------------------------------------------------------------
(* Rescheduling.                                                           *)

\* What find_next_run_task and prepare_to_switch need to find ...
SwitchPre ==
  /\ SchedOK(sch) /\ SwitchDone /\ CurrentAlive /\ IdleState /\ OneRunning
  /\ current \in AllTasks
  /\ wait_time \in [AllTasks -> Int] /\ time_out \in [AllTasks -> BOOLEAN]

\* ... and what they leave: the task switched to is the only RUNNING one, or
\* is a ready task that was found to be on the processor already.
LEMMA RescheduleOK ==
  ASSUME SwitchPre, NEW rt \in [AllTasks -> Int], NEW irq \in BOOLEAN,
         Reschedule(sch, rt, irq)
  PROVE  /\ SchedOK(sch') /\ SwitchDone' /\ IdleState' /\ OneRunning'
         /\ sch'.state[current'] \in {"RUNNING", "PREPARE"}
         /\ current' \in AllTasks
         /\ wait_time' \in [AllTasks -> Int] /\ time_out' \in [AllTasks -> BOOLEAN]
         /\ run_time' \in [AllTasks -> Int]
<1> DEFINE next == FindNextRunTask(sch)
           low == IF rt[current] = 0 \/ ~irq THEN DecPrio(sch, current) ELSE sch
           d == Displaced(sch, rt, irq)
<1>1. /\ next_run' = next /\ current' = next
      /\ IF next = current THEN ReRun(sch, rt) ELSE SwitchTo(next, sch, rt, irq)
  BY DEF Reschedule
<1>2. /\ SchedOK(sch) /\ sch.state \in [AllTasks -> States]
      /\ sch.prio \in [AllTasks -> Prios] /\ current \in AllTasks
      /\ Idle \in AllTasks
  BY DEF SwitchPre, SchedOK, SchedType, AllTasks
<1>3. \A p \in Prios : SliceOf(p) \in Int
  BY PrioAssumption DEF SliceOf, Prios
<1>4. CASE next = current
  <2>1. /\ sch' = sch /\ run_time' = GetTaskRunTime(sch, current, rt)
        /\ UNCHANGED <<wait_time, time_out>> /\ current' = current
    BY <1>1, <1>4 DEF ReRun
  <2>2. sch.state[current] \in {"RUNNING", "PREPARE"}
    <3>1. CASE NonEmptyPrios(sch) # {}
      BY <3>1, <1>2, <1>4, FindNextRunTaskOK
    <3>2. CASE NonEmptyPrios(sch) = {}
      <4>1. sch.state[Idle] # "PREPARE"
        BY <3>2, <1>2, FindNextRunTaskOK
      <4> QED BY <4>1 DEF SwitchPre, IdleState
    <3> QED BY <3>1, <3>2
  <2>3. run_time' \in [AllTasks -> Int]
    BY <2>1, <1>2, <1>3 DEF GetTaskRunTime
  <2> QED BY <2>1, <2>2, <2>3, <1>1, <1>4 DEF SwitchPre, SwitchDone, IdleState, OneRunning
<1>5. CASE next # current
  <2>1. /\ sch' = SetTaskState(d, next, "RUNNING")
        /\ run_time' = SliceAfterDisplaced(sch, rt, irq)
        /\ time_out' = IF wait_time[next] = 0 THEN [time_out EXCEPT ![next] = TRUE]
                                              ELSE time_out
        /\ wait_time' = [wait_time EXCEPT ![next] = Forever]
    BY <1>1, <1>5 DEF SwitchTo
  <2>2. next \in AllTasks /\ sch.state[next] = "PREPARE"
    BY <1>2, <1>5, FindNextRunTaskOK DEF SwitchPre, SwitchDone
  <2> HIDE DEF next
  <2>3. /\ SchedOK(d)
        /\ d.state = IF sch.state[current] = "RUNNING"
                     THEN [sch.state EXCEPT ![current] = "PREPARE"]
                     ELSE sch.state
    <3>1. CASE sch.state[current] # "RUNNING"
      BY <3>1, <1>2 DEF Displaced
    <3>2. CASE sch.state[current] = "RUNNING"
      <4>1. SchedOK(low) /\ low.state = sch.state
        BY <3>2, <1>2, DecPrioOK
      <4>2. d = SetTaskState(low, current, "PREPARE")
        BY <3>2 DEF Displaced
      <4> HIDE DEF low, d
      <4>3. <<low.state[current], "PREPARE">> \in ChangeTable
        BY <4>1, <3>2 DEF ChangeTable
      <4>4. /\ SchedOK(SetTaskState(low, current, "PREPARE"))
            /\ SetTaskState(low, current, "PREPARE").state =
                 [low.state EXCEPT ![current] = "PREPARE"]
        BY <4>1, <4>3, <3>2, <1>2, SetTaskStateOK DEF Listed
      <4> QED BY <4>1, <4>2, <4>4, <3>2
    <3> QED BY <3>1, <3>2
  <2> HIDE DEF d
  <2>4. d.state[next] = "PREPARE" /\ <<"PREPARE", "RUNNING">> \in ChangeTable
    BY <2>2, <2>3, <1>2, <1>5 DEF ChangeTable
  <2>5. SchedOK(sch') /\ sch'.state = [d.state EXCEPT ![next] = "RUNNING"]
    BY <2>1, <2>2, <2>3, <2>4, SetTaskStateOK DEF Listed
  <2>6. d.state \in [AllTasks -> States]
    BY <2>3 DEF SchedOK, SchedType
  <2>7. OneRunning'
    BY <1>1, <1>2, <2>2, <2>3, <2>5, <2>6 DEF OneRunning, SwitchPre, next
  <2>8. IdleState'
    BY <1>1, <1>2, <2>2, <2>3, <2>5, <2>6 DEF IdleState, SwitchPre, next
  <2>9. run_time' \in [AllTasks -> Int]
    <3>1. CASE sch.state[current] = "RUNNING"
      <4>1. DecPrio(sch, current).prio \in [AllTasks -> Prios]
        BY <3>1, <1>2, DecPrioOK DEF SchedOK, SchedType
      <4> QED BY <4>1, <2>1, <1>2, <1>3 DEF SliceAfterDisplaced, GetTaskRunTime
    <3>2. CASE sch.state[current] # "RUNNING"
      BY <3>2, <2>1 DEF SliceAfterDisplaced
    <3> QED BY <3>1, <3>2
  <2>10. wait_time' \in [AllTasks -> Int] /\ time_out' \in [AllTasks -> BOOLEAN]
    BY <2>1, <2>2 DEF SwitchPre, Forever
  <2>11. SwitchDone' /\ current' \in AllTasks /\ sch'.state[current'] = "RUNNING"
    BY <1>1, <2>2, <2>5, <2>6 DEF SwitchDone, next
  <2> QED BY <2>5, <2>7, <2>8, <2>9, <2>10, <2>11
<1> QED BY <1>4, <1>5

----------------------------------------------------------------------------
(* The invariant is inductive: one lemma per action.                       *)

\* The invariant says of sch exactly that it is consistent.
LEMMA InvSched ==
  ASSUME Inv PROVE SchedOK(sch)
BY DEF Inv, TypeOK, ListsMatchState, NoTaskTwice, CountIsLength, SchedOK

\* The state build_idle_task leaves satisfies the invariant.
LEMMA InitInv == Init => Inv
<1> SUFFICES ASSUME Init PROVE Inv
  OBVIOUS
<1>1. /\ MaxPrio - 1 \in Prios /\ DefaultPrio \in Prios /\ Idle \in AllTasks
      /\ \A p \in Prios : SliceOf(p) \in Int
  BY PrioAssumption DEF Prios, AllTasks, SliceOf
<1>2. /\ sch.state = [t \in AllTasks |-> IF t = Idle THEN "RUNNING" ELSE "UNKNOWN"]
      /\ sch.ready = [p \in Prios |-> <<>>] /\ sch.count = [p \in Prios |-> 0]
      /\ sch.sleep = <<>> /\ sch.idle = <<>> /\ sch.system = <<>>
      /\ tick_list = <<>> /\ next_run = Idle /\ current = Idle
  BY DEF Init
<1>3. \A t : ~On(<<>>, t)
  BY DEF On
<1>4. NoTwice(<<>>)
  BY DEF NoTwice
<1>5. sch \in SchedType
  BY <1>1 DEF Init, SchedType, States
<1>6. TypeOK
  <2>1. /\ run_time \in [AllTasks -> Int] /\ wait_time \in [AllTasks -> Int]
        /\ time_out \in [AllTasks -> BOOLEAN]
    BY <1>1 DEF Init, Forever
  <2>2. in_interrupt \in BOOLEAN /\ pc \in [AllTasks -> {"run", "sched"}]
    BY DEF Init
  <2>3. tick_list \in Seq(AllTasks)
    BY <1>2
  <2> QED BY <2>1, <2>2, <2>3, <1>1, <1>2, <1>5 DEF TypeOK
<1>7. ListsMatchState
  BY <1>2, <1>3 DEF ListsMatchState, OnItsLists
<1>8. NoTaskTwice /\ CountIsLength
  BY <1>2, <1>4 DEF NoTaskTwice, CountIsLength
<1>9. /\ OneRunning /\ AwakeWhenRunning /\ SwitchDone
      /\ CurrentAlive /\ IdleState /\ IdleNotTicked
  BY <1>1, <1>2, <1>3 DEF OneRunning, AwakeWhenRunning, SwitchDone, CurrentAlive,
                          IdleState, IdleNotTicked
<1> QED BY <1>6, <1>7, <1>8, <1>9 DEF Inv

\* How the steps below conclude: the record is consistent and the rest of
\* the invariant holds.
LEMMA InvFromParts ==
  ASSUME SchedOK(sch)', TypeOK', OneRunning', AwakeWhenRunning',
         SwitchDone', CurrentAlive', IdleState', IdleNotTicked'
  PROVE  Inv'
BY DEF Inv, TypeOK, ListsMatchState, NoTaskTwice, CountIsLength, SchedOK

\* The handler starts with the sleep list, which the idle task is never on.
LEMMA TickEnterInv == Inv /\ TickEnter => Inv'
<1> SUFFICES ASSUME Inv, TickEnter PROVE Inv'
  OBVIOUS
<1>1. tick_list' = sch.sleep /\ in_interrupt' = TRUE
      /\ UNCHANGED <<sch, clocks, current, next_run, pc>>
  BY DEF TickEnter
<1>2. TypeOK /\ sch.sleep \in Seq(AllTasks) /\ Idle \in AllTasks
  BY DEF Inv, TypeOK, SchedType, AllTasks
<1>3. TypeOK'
  BY <1>1, <1>2 DEF TypeOK, clocks
<1>4. IdleNotTicked'
  BY <1>1, <1>2 DEF Inv, ListsMatchState, OnItsLists, IdleNotTicked, IdleState
<1> QED BY <1>1, <1>3, <1>4 DEF Inv, ListsMatchState, NoTaskTwice, CountIsLength,
             OneRunning, AwakeWhenRunning, SwitchDone, CurrentAlive, IdleState

\* A state change to PREPARE of a task other than Idle keeps what the
\* invariant says of the states.
LEMMA PrepareKeeps ==
  ASSUME Inv, NEW t \in AllTasks, t # Idle,
         sch' = SetTaskState(sch, t, "PREPARE"),
         UNCHANGED <<current, pc>>
  PROVE  /\ SchedOK(sch') /\ OneRunning' /\ CurrentAlive' /\ IdleState'
         /\ AwakeWhenRunning'
<1>1. SchedOK(sch)
  BY InvSched
<1>2. /\ SchedOK(sch')
      /\ sch'.state = IF <<sch.state[t], "PREPARE">> \in ChangeTable
                      THEN [sch.state EXCEPT ![t] = "PREPARE"] ELSE sch.state
  BY <1>1, SetTaskStateOK DEF Listed
<1>3. sch.state \in [AllTasks -> States] /\ current \in AllTasks /\ Idle \in AllTasks
  BY DEF Inv, TypeOK, SchedType, AllTasks
<1> QED BY <1>2, <1>3 DEF Inv, OneRunning, CurrentAlive, IdleState, AwakeWhenRunning

\* One round of the tick handler's loop.
LEMMA TickSleeperInv == Inv /\ TickSleeper => Inv'
<1> SUFFICES ASSUME Inv, TickSleeper PROVE Inv'
  OBVIOUS
<1> DEFINE t == Head(tick_list)
           w == WaitLeft(wait_time[t])
<1>1. /\ tick_list # <<>> /\ tick_list' = Tail(tick_list)
      /\ wait_time' = [wait_time EXCEPT ![t] = w]
      /\ sch' = IF w = 0 THEN SetTaskState(sch, t, "PREPARE") ELSE sch
      /\ UNCHANGED <<run_time, time_out, current, next_run, in_interrupt, pc>>
  BY DEF TickSleeper
<1>2. TypeOK /\ tick_list \in Seq(AllTasks)
  BY DEF Inv, TypeOK
<1>3. /\ t \in AllTasks /\ On(tick_list, t) /\ Tail(tick_list) \in Seq(AllTasks)
      /\ \A u : On(Tail(tick_list), u) => On(tick_list, u)
  BY <1>1, <1>2 DEF On
<1>4. t # Idle /\ IdleNotTicked'
  BY <1>1, <1>3 DEF Inv, IdleNotTicked
<1> HIDE DEF t
<1>5. w \in Int
  BY <1>2, <1>3 DEF TypeOK, WaitLeft
<1> HIDE DEF w
<1>6. /\ SchedOK(sch') /\ OneRunning' /\ CurrentAlive' /\ IdleState'
      /\ AwakeWhenRunning'
  <2>1. CASE w = 0
    BY <2>1, <1>1, <1>3, <1>4, PrepareKeeps
  <2>2. CASE w # 0
    BY <2>2, <1>1, InvSched DEF Inv, OneRunning, CurrentAlive, IdleState,
                                AwakeWhenRunning
  <2> QED BY <2>1, <2>2
<1>7. sch' \in SchedType
  BY <1>6 DEF SchedOK
<1>8. TypeOK' /\ SwitchDone'
  BY <1>1, <1>2, <1>3, <1>5, <1>7 DEF TypeOK, Inv, SwitchDone
<1> QED BY <1>4, <1>6, <1>8, InvFromParts

\* A step that reschedules and sends the caller to a place of its type: the
\* end of the tick handler, and sched() called by the current task.
LEMMA RescheduleInv ==
  ASSUME Inv, NEW rt \in [AllTasks -> Int], NEW irq \in BOOLEAN,
         Reschedule(sch, rt, irq),
         pc' \in [AllTasks -> {"run", "sched"}], in_interrupt' \in BOOLEAN,
         UNCHANGED tick_list
  PROVE  Inv'
<1>1. SwitchPre
  BY InvSched DEF SwitchPre, Inv, TypeOK
<1>2. /\ SchedOK(sch') /\ SwitchDone' /\ IdleState' /\ OneRunning'
      /\ sch'.state[current'] \in {"RUNNING", "PREPARE"}
      /\ current' \in AllTasks
      /\ wait_time' \in [AllTasks -> Int] /\ time_out' \in [AllTasks -> BOOLEAN]
      /\ run_time' \in [AllTasks -> Int]
  BY <1>1, RescheduleOK
<1>3. CurrentAlive' /\ AwakeWhenRunning' /\ IdleNotTicked'
  BY <1>2 DEF Inv, CurrentAlive, AwakeWhenRunning, IdleNotTicked
<1>4. TypeOK'
  BY <1>2 DEF Inv, TypeOK, SchedOK, SwitchDone
<1> QED BY <1>2, <1>3, <1>4, InvFromParts

\* The end of the tick handler, with or without a switch.
LEMMA TickCurrentInv == Inv /\ TickCurrent => Inv'
<1> SUFFICES ASSUME Inv, TickCurrent PROVE Inv'
  OBVIOUS
<1> DEFINE rt == [run_time EXCEPT ![current] = RunLeft(@)]
<1>1. TypeOK
  BY DEF Inv
<1>2. rt \in [AllTasks -> Int]
  BY <1>1 DEF TypeOK, RunLeft, RunTimeFloor
<1>3. /\ IF rt[current] = 0
         THEN Reschedule(sch, rt, TRUE)
         ELSE /\ run_time' = rt
              /\ UNCHANGED <<sch, wait_time, time_out, current, next_run>>
      /\ in_interrupt' = FALSE /\ UNCHANGED <<tick_list, pc>>
  BY DEF TickCurrent
<1> HIDE DEF rt
<1>4. CASE rt[current] = 0
  <2>1. pc' \in [AllTasks -> {"run", "sched"}] /\ in_interrupt' \in BOOLEAN
    BY <1>1, <1>3 DEF TypeOK
  <2> QED BY <2>1, <1>2, <1>3, <1>4, RescheduleInv
<1>5. CASE rt[current] # 0
  <2>1. TypeOK'
    BY <1>1, <1>2, <1>3, <1>5 DEF TypeOK
  <2> QED BY <2>1, <1>3, <1>5 DEF Inv, ListsMatchState, NoTaskTwice, CountIsLength,
               OneRunning, AwakeWhenRunning, SwitchDone, CurrentAlive, IdleState,
               IdleNotTicked
<1> QED BY <1>4, <1>5

\* sched() called by the task on the processor.
LEMMA CallSchedInv ==
  ASSUME Inv, NEW t \in AllTasks, CallSched(t, "run")
  PROVE  Inv'
<1>1. TypeOK
  BY DEF Inv
<1>2. /\ Reschedule(sch, run_time, FALSE) /\ UNCHANGED <<in_interrupt, tick_list>>
      /\ pc' = [pc EXCEPT ![t] = "run"]
  BY DEF CallSched
<1>3. /\ pc' \in [AllTasks -> {"run", "sched"}] /\ in_interrupt' \in BOOLEAN
      /\ run_time \in [AllTasks -> Int]
  BY <1>1, <1>2 DEF TypeOK
<1> QED BY <1>2, <1>3, RescheduleInv

\* A fork: the new task_struct gets its priority while it is on no list.
LEMMA ForkInv ==
  ASSUME Inv, NEW t \in AllTasks, NEW new \in Tasks, Fork(t, new, "run")
  PROVE  Inv'
<1> DEFINE s == [sch EXCEPT !.prio = [@ EXCEPT ![new] = DefaultPrio],
                            !.state = [@ EXCEPT ![new] = "UNKNOWN"]]
<1>1. /\ sch.state[new] = "UNKNOWN" /\ sch' = SetTaskState(s, new, "PREPARE")
      /\ run_time' = [run_time EXCEPT ![new] = SliceOf(DefaultPrio)]
      /\ wait_time' = [wait_time EXCEPT ![new] = Forever]
      /\ time_out' = [time_out EXCEPT ![new] = FALSE]
      /\ pc' = [pc EXCEPT ![new] = "run"]
      /\ UNCHANGED <<current, next_run, in_interrupt, tick_list>>
  BY DEF Fork, NewTask
<1>2. /\ TypeOK /\ sch \in SchedType /\ SchedOK(sch)
      /\ sch.state \in [AllTasks -> States] /\ sch.prio \in [AllTasks -> Prios]
      /\ new \in AllTasks /\ new # Idle /\ Idle \in AllTasks /\ current \in AllTasks
  BY InvSched, TasksAssumption DEF Inv, TypeOK, SchedType, AllTasks
<1>3. DefaultPrio \in Prios /\ SliceOf(DefaultPrio) \in Int
  BY PrioAssumption DEF Prios, SliceOf
<1>4. /\ s \in SchedType /\ s.state = sch.state /\ s.ready = sch.ready
      /\ s.count = sch.count /\ s.sleep = sch.sleep /\ s.idle = sch.idle
      /\ s.system = sch.system /\ s.prio = [sch.prio EXCEPT ![new] = DefaultPrio]
  <2>1. [sch.state EXCEPT ![new] = "UNKNOWN"] = sch.state
    BY <1>1, <1>2
  <2>2. s = [sch EXCEPT !.prio = [sch.prio EXCEPT ![new] = DefaultPrio],
                        !.state = sch.state]
    BY <2>1
  <2> HIDE DEF s
  <2> QED BY <2>2, <1>2, <1>3 DEF SchedType
<1> HIDE DEF s
<1>5. ASSUME NEW u \in AllTasks PROVE OnItsLists(s, u)
  <2>1. OnItsLists(sch, u)
    BY <1>2 DEF SchedOK
  <2>2. CASE u = new
    <3>1. sch.state[u] = "UNKNOWN" /\ s.state[u] = "UNKNOWN"
      BY <1>1, <1>4, <2>2
    <3> QED BY <2>1, <3>1, <1>4 DEF OnItsLists
  <2>3. CASE u # new
    <3>1. s.prio[u] = sch.prio[u]
      BY <1>2, <1>4, <2>3
    <3> QED BY <2>1, <3>1, <1>4 DEF OnItsLists
  <2> QED BY <2>2, <2>3
<1>6. SchedOK(s)
  BY <1>2, <1>4, <1>5 DEF SchedOK
<1>7. <<s.state[new], "PREPARE">> \in ChangeTable
  BY <1>1, <1>4 DEF ChangeTable
<1>8. SchedOK(sch') /\ sch'.state = [sch.state EXCEPT ![new] = "PREPARE"]
  <2>1. /\ SchedOK(SetTaskState(s, new, "PREPARE"))
        /\ SetTaskState(s, new, "PREPARE").state =
             [s.state EXCEPT ![new] = "PREPARE"]
    BY <1>2, <1>6, <1>7, SetTaskStateOK DEF Listed
  <2> QED BY <2>1, <1>1, <1>4
<1>9. new # current
  BY <1>1 DEF Inv, CurrentAlive
<1>10. /\ OneRunning' /\ CurrentAlive' /\ IdleState' /\ SwitchDone' /\ IdleNotTicked'
  BY <1>1, <1>2, <1>8, <1>9 DEF Inv, OneRunning, CurrentAlive, IdleState, SwitchDone,
                                IdleNotTicked
<1>11. AwakeWhenRunning'
  BY <1>1, <1>2, <1>8, <1>9 DEF Inv, AwakeWhenRunning, TypeOK
<1>12. sch' \in SchedType
  BY <1>8 DEF SchedOK
<1>13. TypeOK'
  <2>1. run_time' \in [AllTasks -> Int] /\ wait_time' \in [AllTasks -> Int]
    BY <1>1, <1>2, <1>3 DEF TypeOK, Forever
  <2>2. time_out' \in [AllTasks -> BOOLEAN] /\ pc' \in [AllTasks -> {"run", "sched"}]
    BY <1>1, <1>2 DEF TypeOK
  <2>3. /\ current' \in AllTasks /\ next_run' \in AllTasks
        /\ in_interrupt' \in BOOLEAN /\ tick_list' \in Seq(AllTasks)
    BY <1>1, <1>2 DEF TypeOK
  <2> QED BY <1>12, <2>1, <2>2, <2>3, Zenon DEF TypeOK
<1> QED BY <1>8, <1>10, <1>11, <1>13, InvFromParts

\* The end of a user task's do_exec.
LEMMA ExecInv ==
  ASSUME Inv, NEW t \in UserTasks, Exec(t)
  PROVE  Inv'
<1>1. /\ sch' = SetTaskState(sch, t, "PREPARE")
      /\ UNCHANGED <<clocks, current, next_run, in_interrupt, tick_list, pc>>
  BY DEF Exec
<1>2. t \in AllTasks /\ t # Idle
  BY TasksAssumption DEF AllTasks
<1>3. /\ SchedOK(sch') /\ OneRunning' /\ CurrentAlive' /\ IdleState'
      /\ AwakeWhenRunning'
  BY <1>1, <1>2, PrepareKeeps
<1>4. sch' \in SchedType
  BY <1>3 DEF SchedOK
<1>5. TypeOK' /\ SwitchDone' /\ IdleNotTicked'
  BY <1>1, <1>4 DEF Inv, TypeOK, clocks, SwitchDone, IdleNotTicked
<1> QED BY <1>3, <1>5, InvFromParts

\* The critical section of suspend_task_timeout; the task goes on to sched().
LEMMA SuspendInv ==
  ASSUME Inv, NEW t \in Tasks, NEW w \in Timeouts \cup {Forever}, SuspendCall(t, w)
  PROVE  Inv'
<1>1. /\ current = t /\ pc[t] = "run"
      /\ wait_time' = [wait_time EXCEPT ![t] = w]
      /\ time_out' = [time_out EXCEPT ![t] = FALSE]
      /\ sch' = SetTaskState(sch, t, "SLEEP")
      /\ pc' = [pc EXCEPT ![t] = "sched"]
      /\ UNCHANGED <<run_time, current, next_run, in_interrupt, tick_list>>
  BY DEF SuspendCall, Suspend, Runs
<1>2. /\ TypeOK /\ SchedOK(sch) /\ sch.state \in [AllTasks -> States]
      /\ t \in AllTasks /\ t # Idle /\ Idle \in AllTasks /\ w \in Int
  <2>1. TypeOK /\ SchedOK(sch) /\ sch.state \in [AllTasks -> States]
    BY InvSched DEF Inv, TypeOK, SchedType
  <2>2. t \in AllTasks /\ t # Idle /\ Idle \in AllTasks
    BY TasksAssumption DEF AllTasks
  <2>3. w \in Int
    BY TimeoutsAssumption DEF Forever
  <2> QED BY <2>1, <2>2, <2>3
<1>3. <<sch.state[t], "SLEEP">> \in ChangeTable
  BY <1>1 DEF Inv, AwakeWhenRunning, ChangeTable
<1>4. SchedOK(sch') /\ sch'.state = [sch.state EXCEPT ![t] = "SLEEP"]
  BY <1>1, <1>2, <1>3, SetTaskStateOK DEF Listed
<1>5. /\ OneRunning' /\ CurrentAlive' /\ IdleState' /\ SwitchDone' /\ IdleNotTicked'
  BY <1>1, <1>2, <1>4 DEF Inv, OneRunning, CurrentAlive, IdleState, SwitchDone,
                          IdleNotTicked
<1>6. AwakeWhenRunning'
  BY <1>1, <1>2 DEF AwakeWhenRunning, TypeOK
<1>7. sch' \in SchedType
  BY <1>4 DEF SchedOK
<1>8. TypeOK'
  BY <1>1, <1>2, <1>7 DEF TypeOK
<1> QED BY <1>4, <1>5, <1>6, <1>8, InvFromParts

\* wakeup_task.
LEMMA WakeupInv ==
  ASSUME Inv, NEW t \in AllTasks, NEW u \in Tasks, WakeupTask(t, u)
  PROVE  Inv'
<1>1. /\ sch.state[u] = "SLEEP"
      /\ sch' = SetTaskState(sch, u, "PREPARE")
      /\ run_time' = [run_time EXCEPT ![u] = SliceOf(sch.prio[u])]
      /\ UNCHANGED <<wait_time, time_out, current, next_run, in_interrupt,
                     tick_list, pc>>
  BY DEF WakeupTask, Woken, WokenSlice, GetTaskRunTime
<1>2. /\ TypeOK /\ sch.prio \in [AllTasks -> Prios]
      /\ u \in AllTasks /\ u # Idle
  BY TasksAssumption DEF Inv, TypeOK, SchedType, AllTasks
<1>3. /\ SchedOK(sch') /\ OneRunning' /\ CurrentAlive' /\ IdleState'
      /\ AwakeWhenRunning'
  BY <1>1, <1>2, PrepareKeeps
<1>4. SliceOf(sch.prio[u]) \in Int
  BY <1>2, PrioAssumption DEF SliceOf, Prios
<1>5. sch' \in SchedType
  BY <1>3 DEF SchedOK
<1>6. TypeOK' /\ SwitchDone' /\ IdleNotTicked'
  BY <1>1, <1>2, <1>4, <1>5 DEF Inv, TypeOK, SwitchDone, IdleNotTicked
<1> QED BY <1>3, <1>6, InvFromParts

\* No step of the scheduler breaks the invariant.
LEMMA NextInv == Inv /\ [Next]_vars => Inv'
<1> SUFFICES ASSUME Inv, [Next]_vars PROVE Inv'
  OBVIOUS
<1>0. Idle \in AllTasks /\ Tasks \subseteq AllTasks
  BY DEF AllTasks
<1>1. CASE Tick
  BY <1>1, TickEnterInv, TickSleeperInv, TickCurrentInv DEF Tick
<1>2. CASE IdleSched
  BY <1>2, <1>0, CallSchedInv DEF IdleSched
<1>3. CASE \E t \in AllTasks, new \in Tasks : Fork(t, new, "run")
  BY <1>3, ForkInv
<1>4. CASE \E t \in UserTasks : Exec(t)
  BY <1>4, ExecInv
<1>5. CASE \E t \in Tasks, w \in Timeouts \cup {Forever} : SuspendCall(t, w)
  BY <1>5, SuspendInv
<1>6. CASE \E t \in Tasks : SuspendSched(t)
  BY <1>6, <1>0, CallSchedInv DEF SuspendSched
<1>7. CASE \E t \in AllTasks, u \in Tasks : WakeupTask(t, u)
  BY <1>7, WakeupInv
<1>8. CASE UNCHANGED vars
  BY <1>8 DEF vars, clocks, Inv, TypeOK, ListsMatchState, NoTaskTwice, CountIsLength,
              OneRunning, AwakeWhenRunning, SwitchDone, CurrentAlive, IdleState,
              IdleNotTicked
<1> QED BY <1>1, <1>2, <1>3, <1>4, <1>5, <1>6, <1>7, <1>8 DEF Next

\* The inductive invariant of the scheduler.
THEOREM SchedInvariant == Spec => []Inv
BY InitInv, NextInv, PTL DEF Spec

\* Type correctness: the priorities dec_prio computes stay within
\* os_sched_table, current and next_run are always tasks.
THEOREM SchedTypeCorrect == Spec => []TypeOK
<1>1. Inv => TypeOK
  BY DEF Inv
<1> QED BY <1>1, SchedInvariant, PTL

\* Documents/sched.txt: a task is only on the system list and on the list of
\* its present state, and set_task_state and add_task_to_ready_list never link
\* a task into a list it is already on.
THEOREM SchedListsCorrect == Spec => []ListsExact
<1>1. Inv => ListsExact
  BY DEF Inv, ListsExact
<1> QED BY <1>1, SchedInvariant, PTL

\* The counters find_next_run_task goes by are the lengths of the lists.
THEOREM SchedCountCorrect == Spec => []CountIsLength
<1>1. Inv => CountIsLength
  BY DEF Inv
<1> QED BY <1>1, SchedInvariant, PTL

\* The priorities of a scheduler record: the last one is that of the idle task
\* and of no other.
PriosOK(s) ==
  /\ s.prio \in [AllTasks -> Prios]
  /\ \A t \in AllTasks : s.prio[t] = MaxPrio - 1 <=> t = Idle
PrioInv == PriosOK(sch)

\* set_task_state changes no priority.
LEMMA SetTaskStatePrio ==
  ASSUME NEW s, NEW t, NEW new
  PROVE  SetTaskState(s, t, new).prio = s.prio
BY DEF SetTaskState, Relink

\* dec_prio takes no task to the last priority and leaves the idle task there.
LEMMA DecPrioAlone ==
  ASSUME NEW s \in SchedType, NEW t \in AllTasks, PriosOK(s)
  PROVE  PriosOK(DecPrio(s, t))
<1> DEFINE p == IF s.prio[t] < MaxPrio - 1 THEN s.prio[t] + 1 ELSE s.prio[t]
           q == IF t # Idle /\ p = MaxPrio - 1 THEN 0 ELSE p
<1>1. s.prio \in [AllTasks -> Prios] /\ (s.prio[t] = MaxPrio - 1 <=> t = Idle)
  BY DEF PriosOK
<1>2. q \in Prios /\ (q = MaxPrio - 1 <=> t = Idle)
  BY <1>1, PrioAssumption DEF Prios
<1>3. DecPrio(s, t).prio = [s.prio EXCEPT ![t] = q]
  BY DEF DecPrio, SchedType
<1> HIDE DEF q
<1> QED BY <1>1, <1>2, <1>3 DEF PriosOK

\* A switch lowers at most the task that leaves the processor.
LEMMA RescheduleAlone ==
  ASSUME Inv, PriosOK(sch), NEW rt, NEW irq, Reschedule(sch, rt, irq)
  PROVE  PriosOK(sch')
<1>1. sch \in SchedType /\ current \in AllTasks
  BY DEF Inv, TypeOK
<1>2. PriosOK(DecPrio(sch, current))
  BY <1>1, DecPrioAlone
<1>3. PriosOK(Displaced(sch, rt, irq))
  BY <1>2, SetTaskStatePrio DEF Displaced, PriosOK
<1>4. CASE FindNextRunTask(sch) = current
  BY <1>4 DEF Reschedule, ReRun
<1>5. CASE FindNextRunTask(sch) # current
  <2>1. sch' = SetTaskState(Displaced(sch, rt, irq), FindNextRunTask(sch), "RUNNING")
    BY <1>5 DEF Reschedule, SwitchTo
  <2> QED BY <2>1, <1>3, SetTaskStatePrio DEF PriosOK
<1> QED BY <1>4, <1>5

\* A new task begins at the default priority, which is not the last one.
LEMMA ForkAlone ==
  ASSUME Inv, PriosOK(sch), NEW t \in AllTasks, NEW new \in Tasks, Fork(t, new, "run")
  PROVE  PriosOK(sch')
<1> DEFINE s == [sch EXCEPT !.prio = [@ EXCEPT ![new] = DefaultPrio],
                            !.state = [@ EXCEPT ![new] = "UNKNOWN"]]
<1>1. sch \in SchedType /\ new \in AllTasks /\ new # Idle
  BY TasksAssumption DEF Inv, TypeOK, AllTasks
<1>2. s.prio = [sch.prio EXCEPT ![new] = DefaultPrio]
  BY <1>1 DEF SchedType
<1>3. DefaultPrio \in Prios /\ DefaultPrio # MaxPrio - 1
  BY PrioAssumption DEF Prios
<1>4. PriosOK(s)
  BY <1>1, <1>2, <1>3 DEF PriosOK
<1>5. sch' = SetTaskState(s, new, "PREPARE")
  BY DEF Fork, NewTask
<1> HIDE DEF s
<1> QED BY <1>4, <1>5, SetTaskStatePrio DEF PriosOK

\* No step of the scheduler gives another task the priority of the idle task.
LEMMA NextAlone == Inv /\ PrioInv /\ [Next]_vars => PrioInv'
<1> SUFFICES ASSUME Inv, PriosOK(sch), [Next]_vars PROVE PriosOK(sch')
  BY DEF PrioInv, PriosOK
<1> SUFFICES ASSUME sch'.prio # sch.prio PROVE PriosOK(sch')
  BY DEF PriosOK
<1>1. CASE TickCurrent
  BY <1>1, RescheduleAlone DEF TickCurrent
<1>2. CASE TickEnter \/ TickSleeper
  BY <1>2, SetTaskStatePrio DEF TickEnter, TickSleeper
<1>3. CASE IdleSched \/ \E t \in Tasks : SuspendSched(t)
  BY <1>3, RescheduleAlone DEF IdleSched, SuspendSched, CallSched
<1>4. CASE \E t \in AllTasks, new \in Tasks : Fork(t, new, "run")
  BY <1>4, ForkAlone
<1>5. CASE \E t \in UserTasks : Exec(t)
  BY <1>5, SetTaskStatePrio DEF Exec
<1>6. CASE \E t \in Tasks, w \in Timeouts \cup {Forever} : SuspendCall(t, w)
  BY <1>6, SetTaskStatePrio DEF SuspendCall, Suspend
<1>7. CASE \E t \in AllTasks, u \in Tasks : WakeupTask(t, u)
  BY <1>7, SetTaskStatePrio DEF WakeupTask, Woken
<1>8. CASE UNCHANGED vars
  BY <1>8 DEF vars
<1> QED BY <1>1, <1>2, <1>3, <1>4, <1>5, <1>6, <1>7, <1>8 DEF Next, Tick

\* At most one task is RUNNING, the one on the processor;
\* find_next_run_task always has the idle task to fall back on; and dec_prio
\* never puts another task on the list of the idle task.
THEOREM SchedDispatchCorrect == Spec => []DispatchSound
<1>1. Init => PrioInv
  BY PrioAssumption DEF Init, PrioInv, PriosOK, Prios
<1>2. Inv /\ PrioInv => DispatchSound
  BY DEF Inv, IdleState, IdleReady, IdleAlone, PrioInv, PriosOK, DispatchSound
<1>3. Spec => []PrioInv
  BY <1>1, NextAlone, SchedInvariant, PTL DEF Spec
<1> QED BY <1>2, <1>3, SchedInvariant, PTL

\* A task that has called suspend_task does not run on before it is awake.
THEOREM SchedSuspendCorrect == Spec => []AwakeWhenRunning
<1>1. Inv => AwakeWhenRunning
  BY DEF Inv
<1> QED BY <1>1, SchedInvariant, PTL
============================================================================
