----------------------------- MODULE LookupProofs -----------------------------
(***************************************************************************)
(* The name buffers of fs/fnode.c, for every number of tasks and buffers   *)
(* and every directory tree: no two lookups have the same buffer, and the  *)
(* bitmap marks the buffers that are held or were lost, no other.          *)
(***************************************************************************)
EXTENDS Lookup, WellFoundedInduction, TLAPS

\* A lookup is a record of the fields of Idle; it has a buffer exactly between
\* get_iname_buffer and put_iname_buffer.
LookupOK(l) ==
  /\ DOMAIN l = DOMAIN Idle
  /\ l.buf \in Inames \cup {NoIname}
  /\ l.buf # NoIname <=> l.pc \notin {"idle", "done"}

\* The inductive invariant.  That a buffer is freed by its holder alone needs
\* both properties: a free bit must be nobody's, and a held buffer not lost.
BufferInv ==
  /\ DOMAIN lk = Tasks
  /\ \A t \in Tasks : LookupOK(lk[t])
  /\ lost \subseteq Inames
  /\ InameExclusive
  /\ InameAccounted

----------------------------------------------------------------------------
\* The lowest free buffer is a free buffer.
LEMMA LowestFree ==
  ASSUME NEW S \in SUBSET Inames, S # {}
  PROVE  Min(S) \in S
<1>1. S \subseteq Nat
  BY LookupAssumption DEF Inames
<1>2. PICK x \in S : \A y \in S : ~(<<y, x>> \in OpToRel(<, Nat))
  BY <1>1, NatLessThanWellFounded, WFMin
<1>3. \A y \in S : ~(y < x)
  BY <1>1, <1>2 DEF OpToRel
<1>4. \A y \in S : x <= y
  BY <1>1, <1>3
<1> QED
  BY <1>4 DEF Min

\* A step of one lookup that leaves its buffer and the bitmap alone.
LEMMA BufferKept ==
  ASSUME BufferInv, NEW t \in Tasks, NEW new,
         lk' = [lk EXCEPT ![t] = new], LookupOK(new), new.buf = lk[t].buf,
         UNCHANGED <<iname_buffer, lost>>
  PROVE  BufferInv'
<1>1. \A u \in Tasks : lk'[u].buf = lk[u].buf /\ LookupOK(lk'[u])
  BY DEF BufferInv
<1>2. Held' = Held
  BY <1>1 DEF Held
<1>3. DOMAIN lk' = Tasks
  BY DEF BufferInv
<1>4. InameExclusive'
  BY <1>1, <1>2 DEF BufferInv, InameExclusive
<1> QED
  BY <1>1, <1>2, <1>3, <1>4 DEF BufferInv, InameAccounted, LookupOK

\* get_iname_buffer: a buffer that is not marked becomes the lookup's.
LEMMA BufferTaken ==
  ASSUME BufferInv, NEW t \in Tasks, NEW new, NEW b \in Inames \ iname_buffer,
         lk' = [lk EXCEPT ![t] = new], LookupOK(new), new.buf = b,
         lk[t].buf = NoIname,
         iname_buffer' = iname_buffer \cup {b}, lost' = lost
  PROVE  BufferInv'
<1>1. b # NoIname
  BY LookupAssumption DEF Inames, NoIname
<1>2. /\ lk'[t].buf = b
      /\ \A u \in Tasks : u # t => lk'[u] = lk[u]
      /\ \A u \in Tasks : LookupOK(lk'[u])
  BY DEF BufferInv
<1>3. Held' = Held \cup {b}
  BY <1>1, <1>2 DEF Held
<1>4. b \notin Held /\ b \notin lost
  BY DEF BufferInv, InameAccounted
<1>5. \A u \in Tasks : lk[u].buf # b
  BY <1>1, <1>4 DEF Held
<1>6. InameExclusive'
  BY <1>2, <1>3, <1>4, <1>5 DEF BufferInv, InameExclusive
<1>7. InameAccounted'
  BY <1>3 DEF BufferInv, InameAccounted
<1> QED
  BY <1>2, <1>6, <1>7 DEF BufferInv, LookupOK

\* A lookup gives its buffer up: put_iname_buffer clears the bit, an early
\* return leaves it set.
LEMMA BufferLeft ==
  ASSUME BufferInv, NEW t \in Tasks, NEW new, lk[t].buf # NoIname,
         lk' = [lk EXCEPT ![t] = new], LookupOK(new), new.buf = NoIname,
         \/ iname_buffer' = iname_buffer \ {lk[t].buf} /\ lost' = lost
         \/ iname_buffer' = iname_buffer /\ lost' = lost \cup {lk[t].buf}
  PROVE  BufferInv'
<1> DEFINE b == lk[t].buf
<1>1. /\ lk'[t].buf = NoIname
      /\ \A u \in Tasks : u # t => lk'[u] = lk[u]
      /\ \A u \in Tasks : LookupOK(lk'[u])
  BY DEF BufferInv
<1>2. b \in Held /\ b \notin lost /\ \A u \in Tasks : u # t => lk[u].buf # b
  BY DEF BufferInv, InameExclusive, Held
<1>3. Held' = Held \ {b}
  BY <1>1, <1>2 DEF Held
<1>4. lost' \subseteq Inames
  BY DEF BufferInv, LookupOK
<1>5. InameExclusive'
  BY <1>1, <1>2, <1>3 DEF BufferInv, InameExclusive
<1>6. InameAccounted'
  BY <1>2, <1>3 DEF BufferInv, InameAccounted
<1> QED
  BY <1>1, <1>4, <1>5, <1>6 DEF BufferInv, LookupOK

----------------------------------------------------------------------------
(* The actions.                                                            *)

\* The bitmap is clear and no lookup is under way when fnode.c starts.
LEMMA LookupInitInv == LookupInit => BufferInv
<1> SUFFICES ASSUME LookupInit PROVE BufferInv
  OBVIOUS
<1>1. LookupOK(Idle)
  BY DEF LookupOK, Idle
<1>2. \A t \in Tasks : lk[t] = Idle
  BY DEF LookupInit
<1>3. Held = {}
  BY <1>2 DEF Held, Idle
<1> QED
  BY <1>1, <1>2, <1>3 DEF LookupInit, BufferInv, InameExclusive, InameAccounted, Idle

\* get_file_fnode: a lookup takes the lowest free buffer, or none.
LEMMA BeginInv ==
  ASSUME BufferInv, NEW t \in Tasks, NEW name, NEW type, Begin(t, name, type)
  PROVE  BufferInv'
<1> DEFINE m == GetMountPoint(mounts, name)
           l == [Idle EXCEPT !.root = RootOf[m.fs], !.dir = RootOf[m.fs], !.type = type,
                             !.name = RealName(m, name), !.rest = RealName(m, name)]
           free == Inames \ iname_buffer
<1>1. lk[t].buf = NoIname
  BY DEF BufferInv, LookupOK, Begin
<1>2. DOMAIN l = DOMAIN Idle /\ l.buf = NoIname /\ l.pc = "idle"
  BY DEF Idle
<1> HIDE DEF m
<1>3. CASE Set(t, [l EXCEPT !.pc = "done"]) /\ UNCHANGED iname_buffer
  <2>1. LookupOK([l EXCEPT !.pc = "done"]) /\ [l EXCEPT !.pc = "done"].buf = NoIname
    BY <1>2 DEF LookupOK, Idle
  <2> QED
    BY <1>1, <1>3, <2>1, BufferKept DEF Begin, Set
<1>4. CASE Set(t, [l EXCEPT !.pc = "done", !.err = "again"]) /\ UNCHANGED iname_buffer
  <2> DEFINE n == [l EXCEPT !.pc = "done", !.err = "again"]
  <2>1. LookupOK(n) /\ n.buf = NoIname
    BY <1>2 DEF LookupOK, Idle
  <2> HIDE DEF n
  <2>2. lk' = [lk EXCEPT ![t] = n]
    BY <1>4 DEF Set, n
  <2> QED
    BY <1>1, <1>4, <2>1, <2>2, BufferKept DEF Begin
<1>5. CASE /\ free # {} /\ GetInameBuffer(t, Min(free))
           /\ Set(t, [l EXCEPT !.pc = "component", !.buf = Min(free)])
  <2> DEFINE n == [l EXCEPT !.pc = "component", !.buf = Min(free)]
  <2>1. Min(free) \in free
    BY <1>5, LowestFree
  <2>2. Min(free) # NoIname
    BY <2>1, LookupAssumption DEF Inames, NoIname
  <2>3. LookupOK(n) /\ n.buf = Min(free)
    BY <1>2, <2>1, <2>2 DEF LookupOK, Idle
  <2> HIDE DEF n
  <2>4. lk' = [lk EXCEPT ![t] = n]
    BY <1>5 DEF Set, n
  <2> QED
    BY <1>1, <1>5, <2>1, <2>3, <2>4, BufferTaken DEF Begin, GetInameBuffer
<1> QED
  BY <1>3, <1>4, <1>5 DEF Begin, m

\* The steps of a lookup that has a buffer and keeps it.
LEMMA WalkInv ==
  ASSUME BufferInv, NEW t \in Tasks,
         NameUsedUp(t) \/ Find(t) \/ NextLmfs(t) \/ NextDevfs(t) \/ MoveDevfs(t)
  PROVE  BufferInv'
<1> DEFINE l == lk[t]
<1>1. LookupOK(l)
  BY DEF BufferInv
<1>2. ASSUME NEW new, Set(t, new), LookupOK(new), new.buf = l.buf,
             UNCHANGED <<iname_buffer, lost>>
      PROVE  BufferInv'
  BY <1>2, BufferKept DEF Set
<1>3. CASE NameUsedUp(t)
  <2>1. LookupOK([l EXCEPT !.pc = "put"]) /\ [l EXCEPT !.pc = "put"].buf = l.buf
    BY <1>1, <1>3 DEF NameUsedUp, LookupOK, Idle
  <2> QED
    BY <1>2, <1>3, <2>1 DEF NameUsedUp
<1>4. CASE Find(t)
  <2>1. CASE Set(t, [l EXCEPT !.pc = "next"])
    <3>1. LookupOK([l EXCEPT !.pc = "next"]) /\ [l EXCEPT !.pc = "next"].buf = l.buf
      BY <1>1, <1>4 DEF Find, LookupOK, Idle
    <3> QED
      BY <1>2, <1>4, <2>1, <3>1 DEF Find
  <2>2. ASSUME NEW node,
               Set(t, IF node \notin Dirs /\ (l.rest # <<>> \/ l.type = "DT_DIR")
                      THEN [l EXCEPT !.pc = "put", !.dir = node, !.err = "notdir"]
                      ELSE [l EXCEPT !.pc = "component", !.dir = node, !.find = TRUE, !.pos = 0])
        PROVE  BufferInv'
    <3> DEFINE n1 == [l EXCEPT !.pc = "put", !.dir = node, !.err = "notdir"]
               n2 == [l EXCEPT !.pc = "component", !.dir = node, !.find = TRUE, !.pos = 0]
    <3>1. LookupOK(n1) /\ n1.buf = l.buf
      BY <1>1, <1>4 DEF Find, LookupOK, Idle
    <3>2. LookupOK(n2) /\ n2.buf = l.buf
      BY <1>1, <1>4 DEF Find, LookupOK, Idle
    <3>3. UNCHANGED <<iname_buffer, lost>>
      BY <1>4 DEF Find
    <3>4. Set(t, n1) \/ Set(t, n2)
      BY <2>2
    <3> HIDE DEF n1, n2
    <3> QED
      BY <1>2, <3>1, <3>2, <3>3, <3>4
  <2> QED
    BY <1>4, <2>1, <2>2 DEF Find
<1>5. ASSUME NEW k, DOMAIN k = DOMAIN Idle, k.buf = l.buf, l.buf # NoIname
      PROVE  LookupOK(NotFound(k)) /\ NotFound(k).buf = l.buf
  BY <1>1, <1>5 DEF NotFound, LookupOK, Idle
<1>6. CASE NextLmfs(t)
  <2> DEFINE k == [l EXCEPT !.pos = @ + 1]
             n == [k EXCEPT !.pc = "find", !.blk = k.pos + 1]
  <2>1. l.buf # NoIname /\ DOMAIN k = DOMAIN Idle /\ k.buf = l.buf
    BY <1>1, <1>6 DEF NextLmfs, LookupOK, Idle
  <2>2. LookupOK(n) /\ n.buf = l.buf
    BY <1>1, <2>1 DEF LookupOK, Idle
  <2>3. LookupOK(NotFound(k)) /\ NotFound(k).buf = l.buf
    BY <1>5, <2>1
  <2>4. Set(t, NotFound(k)) \/ Set(t, n)
    BY <1>6 DEF NextLmfs
  <2>5. UNCHANGED <<iname_buffer, lost>>
    BY <1>6 DEF NextLmfs
  <2> HIDE DEF k, n
  <2> QED
    BY <1>2, <2>2, <2>3, <2>4, <2>5
<1>7. CASE NextDevfs(t)
  <2> DEFINE b == current_child[l.dir] + 1
             n == [l EXCEPT !.pc = "move", !.blk = b]
  <2>1. l.buf # NoIname /\ DOMAIN l = DOMAIN Idle
    BY <1>1, <1>7 DEF NextDevfs, LookupOK
  <2>2. LookupOK(n) /\ n.buf = l.buf
    BY <1>1, <2>1 DEF LookupOK, Idle
  <2>3. LookupOK(NotFound(l)) /\ NotFound(l).buf = l.buf
    BY <1>5, <2>1
  <2>4. Set(t, NotFound(l)) \/ Set(t, n)
    BY <1>7 DEF NextDevfs
  <2>5. UNCHANGED <<iname_buffer, lost>>
    BY <1>7 DEF NextDevfs
  <2> HIDE DEF n
  <2> QED
    BY <1>2, <2>2, <2>3, <2>4, <2>5
<1>8. CASE MoveDevfs(t)
  <2>1. LookupOK([l EXCEPT !.pc = "find"]) /\ [l EXCEPT !.pc = "find"].buf = l.buf
    BY <1>1, <1>8 DEF MoveDevfs, LookupOK, Idle
  <2> QED
    BY <1>2, <1>8, <2>1 DEF MoveDevfs
<1> QED
  BY <1>3, <1>4, <1>6, <1>7, <1>8

\* An early return leaves the bit of its buffer set.
LEMMA ReturnEarlyInv ==
  ASSUME BufferInv, NEW t \in Tasks, NEW err, lk[t].pc \notin {"idle", "done"},
         ReturnEarly(t, err), iname_buffer' = iname_buffer
  PROVE  BufferInv'
<1> DEFINE n == [lk[t] EXCEPT !.pc = "done", !.err = err, !.buf = NoIname]
<1>1. lk[t].buf # NoIname /\ LookupOK(n) /\ n.buf = NoIname
  BY DEF BufferInv, LookupOK, Idle
<1>2. lk' = [lk EXCEPT ![t] = n] /\ lost' = lost \cup {lk[t].buf}
  BY DEF ReturnEarly, Set
<1> HIDE DEF n
<1> QED
  BY <1>1, <1>2, BufferLeft

\* VFS_START_BLOCK: the walk starts, or the early return loses the buffer.
LEMMA StartInv ==
  ASSUME BufferInv, NEW t \in Tasks, Start(t)
  PROVE  BufferInv'
<1> DEFINE l == lk[t]
           go == [l EXCEPT !.pc = "find", !.blk = 1, !.pos = 0, !.stray = l.pos # 0,
                           !.tname = Component(l.rest), !.rest = Following(l.rest)]
<1>1. LookupOK(l) /\ l.pc = "component" /\ iname_buffer' = iname_buffer
  BY DEF BufferInv, Start
<1>2. LookupOK(go) /\ go.buf = l.buf
  BY <1>1 DEF LookupOK, Idle
<1>3. ReturnEarly(t, "nospc") \/ (lost' = lost /\ lk' = [lk EXCEPT ![t] = go])
  BY DEF Start, Set
<1> HIDE DEF go
<1> QED
  BY <1>1, <1>2, <1>3, BufferKept, ReturnEarlyInv

\* VFS_NEXT_BLOCK over words that are no block numbers: the walk goes on or is
\* over, or the failed read loses the buffer.
LEMMA NextStrayInv ==
  ASSUME BufferInv, NEW t \in Tasks, NextStray(t)
  PROVE  BufferInv'
<1> DEFINE l == [lk[t] EXCEPT !.pos = 1]
           go == [l EXCEPT !.pc = "find"]
<1>1. LookupOK(lk[t]) /\ lk[t].pc = "next" /\ iname_buffer' = iname_buffer
  BY DEF BufferInv, NextStray, LookupOK, Idle
<1>2. LookupOK(go) /\ go.buf = lk[t].buf
  BY <1>1 DEF LookupOK, Idle
<1>3. LookupOK(NotFound(l)) /\ NotFound(l).buf = lk[t].buf
  BY <1>1 DEF NotFound, LookupOK, Idle
<1>4. \/ ReturnEarly(t, "io")
      \/ lost' = lost /\ lk' = [lk EXCEPT ![t] = go]
      \/ lost' = lost /\ lk' = [lk EXCEPT ![t] = NotFound(l)]
  BY DEF NextStray, Set
<1> HIDE DEF l, go
<1> QED
  BY <1>1, <1>2, <1>3, <1>4, BufferKept, ReturnEarlyInv

\* put_iname_buffer clears the bit of the lookup's own buffer.
LEMMA PutInv ==
  ASSUME BufferInv, NEW t \in Tasks, PutInameBuffer(t)
  PROVE  BufferInv'
<1> DEFINE n == [lk[t] EXCEPT !.pc = "done", !.buf = NoIname]
<1>1. lk[t].buf # NoIname /\ LookupOK(n) /\ n.buf = NoIname
  BY DEF BufferInv, LookupOK, PutInameBuffer, Idle
<1>2. lk' = [lk EXCEPT ![t] = n] /\ iname_buffer' = iname_buffer \ {lk[t].buf} /\ lost' = lost
  BY DEF PutInameBuffer, Set
<1> HIDE DEF n
<1> QED
  BY <1>1, <1>2, BufferLeft

\* A lookup that returns has no buffer any more.
LEMMA ReturnInv ==
  ASSUME BufferInv, NEW t \in Tasks, Return(t)
  PROVE  BufferInv'
<1>1. LookupOK(Idle) /\ Idle.buf = NoIname
  BY DEF LookupOK, Idle
<1>2. lk[t].buf = NoIname
  BY DEF BufferInv, LookupOK, Return
<1> QED
  BY <1>1, <1>2, BufferKept DEF Return, Set

\* A task that is killed in a lookup leaves its buffer, if it has one, marked.
LEMMA KilledInv ==
  ASSUME BufferInv, NEW t \in Tasks, Killed(t)
  PROVE  BufferInv'
<1>1. LookupOK(Idle) /\ Idle.buf = NoIname
  BY DEF LookupOK, Idle
<1>2. lk' = [lk EXCEPT ![t] = Idle] /\ iname_buffer' = iname_buffer
  BY DEF Killed, Set
<1>3. CASE lk[t].buf = NoIname
  <2>1. lost' = lost
    BY <1>3 DEF Killed
  <2> QED
    BY <1>1, <1>2, <1>3, <2>1, BufferKept
<1>4. CASE lk[t].buf # NoIname
  <2>1. lost' = lost \cup {lk[t].buf}
    BY <1>4 DEF Killed
  <2> QED
    BY <1>1, <1>2, <1>4, <2>1, BufferLeft
<1> QED
  BY <1>3, <1>4

\* Every step keeps the invariant.
LEMMA LookupNextInv == BufferInv /\ [LookupNext]_lkvars => BufferInv'
<1> SUFFICES ASSUME BufferInv, [LookupNext]_lkvars PROVE BufferInv'
  OBVIOUS
<1>1. CASE UNCHANGED <<iname_buffer, lk, lost>>
  BY <1>1 DEF BufferInv, InameExclusive, InameAccounted, Held, LookupOK
<1>2. ASSUME NEW m \in Mountable, DoMount(m) PROVE BufferInv'
  BY <1>1, <1>2 DEF DoMount
<1>3. ASSUME NEW t \in Tasks, NEW name \in Paths, NEW type, Begin(t, name, type) PROVE BufferInv'
  BY <1>3, BeginInv
<1>4. ASSUME NEW t \in Tasks, Step(t) PROVE BufferInv'
  BY <1>4, WalkInv, StartInv, NextStrayInv, PutInv, ReturnInv DEF Step
<1>5. ASSUME NEW t \in Tasks, Killed(t) PROVE BufferInv'
  BY <1>5, KilledInv
<1> QED
  BY <1>1, <1>2, <1>3, <1>4, <1>5 DEF LookupNext, lkvars

\* The invariant holds in every state of every run of the lookups.
LEMMA LookupInvariant == LookupSpec => []BufferInv
BY LookupInitInv, LookupNextInv, PTL DEF LookupSpec

----------------------------------------------------------------------------
\* No two lookups are ever given the same name buffer by get_iname_buffer, nor
\* one that an early return of __get_file_fnode or a killed task left marked.
THEOREM LookupBuffersExclusive == LookupSpec => []InameExclusive
<1>1. BufferInv => InameExclusive
  BY DEF BufferInv
<1> QED BY <1>1, LookupInvariant, PTL

\* put_iname_buffer never frees a buffer in use and never leaves one marked:
\* the bitmap is what the lookups hold and what the early returns and the
\* killed tasks lost.
THEOREM LookupBuffersAccounted == LookupSpec => []InameAccounted
<1>1. BufferInv => InameAccounted
  BY DEF BufferInv
<1> QED BY <1>1, LookupInvariant, PTL
============================================================================
