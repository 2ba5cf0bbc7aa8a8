----------------------------- MODULE PageAlloc -----------------------------
(***************************************************************************)
(* The page allocator of mm/mm.c: zones of sections, a bitmap and a search *)
(* hint per section, a free count per section and per zone, and the page   *)
(* descriptors.  A call is split at the places where another task can see  *)
(* the difference: one attempt per zone, and inside the zone mutex the     *)
(* change of the bitmap, the scan of update_bm_current and its final       *)
(* subtraction are steps of their own, because _free_pages locks the zone  *)
(* that the page was REQUESTED from, which need not be the zone the page   *)
(* lies in.  The mutexes are abstract locks (module AbsLock).  Two paths   *)
(* of the code damage the bookkeeping.  The fault is recorded, and nothing *)
(* that follows is modelled.                                               *)
(***************************************************************************)
EXTENDS Integers, Sequences, FiniteSets, FiniteSetsExt, Functions

CONSTANTS
  Tasks,
  Sections,     \* the section ids, 0 .. n, in the order of their zones
  ZoneOf,       \* section -> zone
  NrPage,       \* section -> its number of pages
  Boot,         \* section -> its pages in use when the allocator starts
  Flags,        \* the zones the callers ask for
  Counts,       \* the page counts they ask for
  Aligned,      \* the <<nr, align>> of get_free_pages_align, in pages
  Underrun      \* how far a scan below bit 0 of a bitmap is followed

KERNEL == 0
DMA == 1
RES == 2
USER == 3
Zones == KERNEL .. USER

None == <<>>
NoTask == "none"
NoSpace == -1
Unending == -2

SectionsOf(z) == {s \in Sections : ZoneOf[s] = z}

ASSUME PageAllocAssumption ==
  /\ Sections \subseteq Nat /\ IsFiniteSet(Sections)
  /\ ZoneOf \in [Sections -> Zones]
  /\ NrPage \in [Sections -> Nat \ {0}]
  /\ \A s \in Sections : Boot[s] \in 0 .. NrPage[s] - 1
  /\ Flags \subseteq Zones /\ Counts \subseteq Nat \ {0}
  /\ \A a \in Aligned, s \in SectionsOf(KERNEL) : NrPage[s] % a[2] = 0 /\ a[1] <= a[2]
  /\ NoTask \notin Tasks /\ Underrun \in Nat

VARIABLES
  bitmap,       \* section -> its set bits
  bm_current,   \* section -> where the next search starts
  sec_free,     \* section -> nr_free_pages
  zone_free,    \* zone -> nr_free_pages
  zone_mutex,   \* zone -> the holder of its mutex
  page,         \* section -> page -> [count, flag] of its descriptor
  pc, req, got, \* per task: where it is in a call, its locals, its result
  held,         \* the blocks the callers own, as <<section, header page>>
  fault         \* "none"; "wrong zone" when pages of a zone were freed under
                \* the mutex and into the count of another one; "in front"
                \* when an aligned block was taken in front of a section

data == <<bitmap, bm_current, sec_free, zone_free, page>>
pvars == <<data, zone_mutex, pc, req, got, held, fault>>

\* The locals of a task outside the allocator.
NoCall == [count |-> 0, flag |-> 0, zone |-> 0, sec |-> 0, index |-> 0]

Block(s, i, n) == {<<s, j>> : j \in i .. i + n - 1}
Extent(h) == Block(h[1], h[2], page[h[1]][h[2]].count)
Goto(t, where) == pc' = [pc EXCEPT ![t] = where]

----------------------------------------------------------------------------
(* bitmap_find_free_base                                                   *)

\* Mutations: a search that carries its run of clear bits across the wrap
\* from the last bit to the first; one that returns the bit after the run.
FindStepKeepSum(p, map, start, nr, count) ==
  LET sum == IF p.i \in map THEN 0 ELSE p.sum + 1
      wrap == p.i = nr - 1
      again == p.again \/ wrap
      i == IF wrap THEN 0 ELSE p.i
  IN  IF p.i \notin map /\ sum = count
      THEN [p EXCEPT !.ret = (p.i + 1 - count + nr) % nr]
      ELSE IF again /\ i = start THEN [p EXCEPT !.ret = NoSpace]
      ELSE [i |-> i + 1, sum |-> sum, again |-> again, ret |-> Unending]
FindStepAfter(p, map, start, nr, count) ==
  LET sum == IF p.i \in map THEN 0 ELSE p.sum + 1
      wrap == p.i = nr - 1
      again == p.again \/ wrap
      i == IF wrap THEN 0 ELSE p.i
  IN  IF p.i \notin map /\ sum = count
      THEN [p EXCEPT !.ret = (p.i + 1) % nr]
      ELSE IF again /\ i = start THEN [p EXCEPT !.ret = NoSpace]
      ELSE [i |-> i + 1, sum |-> IF wrap THEN 0 ELSE sum, again |-> again,
            ret |-> Unending]

\* One turn of its loop.  After the wrap i is 0 and then incremented, so
\* bit 0 is looked at only by a search that starts there.
FindStep(p, map, start, nr, count) ==
  LET sum == IF p.i \in map THEN 0 ELSE p.sum + 1
      wrap == p.i = nr - 1
      again == p.again \/ wrap
      i == IF wrap THEN 0 ELSE p.i
  IN  IF p.i \notin map /\ sum = count
      THEN [p EXCEPT !.ret = p.i + 1 - count]
      ELSE IF again /\ i = start THEN [p EXCEPT !.ret = NoSpace]
      ELSE [i |-> i + 1, sum |-> IF wrap THEN 0 ELSE sum, again |-> again,
            ret |-> Unending]

\* The result after two passes: an index, NoSpace for -ENOSPC, or Unending: a
\* search that has not ended by then repeats itself.
BitmapFind(map, from, start, nr, count) ==
  LET loop[k \in 0 .. 2 * nr + 1] ==
        IF k = 0
        THEN [i |-> from, sum |-> 0, again |-> FALSE, ret |-> Unending]
        ELSE LET p == loop[k - 1]
             IN  IF p.ret # Unending THEN p
                 ELSE FindStep(p, map, start, nr, count)
  IN  loop[2 * nr + 1].ret

\* A start below 0 reads memory in front of the bitmap: whatever it finds
\* there, the result is a negative index or that of a search from bit 0 on.
FindResults(s, count) ==
  LET from(i) == BitmapFind(bitmap[s], i, bm_current[s], NrPage[s], count)
  IN  IF bm_current[s] >= 0 THEN {from(bm_current[s])} ELSE {NoSpace, from(0)}

----------------------------------------------------------------------------
(* __get_free_pages: the zones in turn, one critical section for each      *)

\* The zone tried after z, and whether there is one.
NextZone(z) == IF z = USER THEN KERNEL ELSE z + 1
HasNext(z) == z # RES

\* init_pages: the first descriptor carries the count and the header flag.
InitPages(s, i, n, flag) ==
  page' = [page EXCEPT ![s] =
             [j \in 0 .. NrPage[s] - 1 |->
                IF j \in i .. i + n - 1
                THEN [count |-> IF j = i THEN n ELSE 0, flag |-> flag]
                ELSE @[j]]]

RequestPages(t, count, flag) ==
  /\ pc[t] = "idle"
  /\ req' = [req EXCEPT ![t] = [count |-> count, flag |-> flag, zone |-> flag,
                                sec |-> 0, index |-> 0]]
  /\ Goto(t, "zone")
  /\ UNCHANGED <<data, zone_mutex, got, held, fault>>

Finish(t, result) ==
  /\ got' = [got EXCEPT ![t] = result]
  /\ req' = [req EXCEPT ![t] = NoCall]
  /\ Goto(t, "done")

\* __get_free_pages_from_zone up to the change of the bitmap.  The sections
\* are tried in order; res[s] is what the search in section s returns.
GetFromZone(t) ==
  LET z == req[t].zone
      n == req[t].count
      fit == {s \in SectionsOf(z) : sec_free[s] >= n}
  IN  /\ pc[t] = "zone"
      /\ zone_mutex[z] = NoTask
      /\ \E res \in [fit -> UNION {FindResults(s, n) : s \in fit}] :
           LET yields == {s \in fit : res[s] # NoSpace}
               s == Min(yields)
           IN /\ \A x \in fit : res[x] \in FindResults(x, n)
              /\ \/ /\ zone_free[z] < n \/ yields = {}
                    /\ IF HasNext(z)
                       THEN /\ req' = [req EXCEPT ![t].zone = NextZone(z)]
                            /\ UNCHANGED <<pc, got>>
                       ELSE Finish(t, None)
                    /\ UNCHANGED <<data, zone_mutex>>
                 \/ /\ zone_free[z] >= n /\ yields # {}
                    /\ zone_mutex' = [zone_mutex EXCEPT ![z] = t]
                    /\ IF res[s] = Unending
                       THEN Goto(t, "hang") /\ UNCHANGED <<data, req>>
                       ELSE /\ bitmap' = [bitmap EXCEPT ![s] =
                                            @ \cup (res[s] .. res[s] + n - 1)]
                            /\ req' = [req EXCEPT ![t].sec = s,
                                                  ![t].index = res[s]]
                            /\ Goto(t, "marked")
                            /\ UNCHANGED <<bm_current, sec_free, zone_free, page>>
                    /\ UNCHANGED got
      /\ UNCHANGED <<held, fault>>

\* Mutation: the hint moved on without the reset at the end of the section.
CommitPagesNoWrap(t) ==
  LET r == req[t]
  IN  /\ pc[t] = "marked"
      /\ bm_current' = [bm_current EXCEPT ![r.sec] = r.index + r.count]
      /\ sec_free' = [sec_free EXCEPT ![r.sec] = @ - r.count]
      /\ InitPages(r.sec, r.index, r.count, r.flag)
      /\ zone_free' = [zone_free EXCEPT ![r.zone] = @ - r.count]
      /\ zone_mutex' = [zone_mutex EXCEPT ![r.zone] = NoTask]
      /\ Finish(t, <<r.sec, r.index>>)
      /\ UNCHANGED <<bitmap, held, fault>>

\* The rest of get_free_pages_from_section and of its caller.
CommitPages(t) ==
  LET r == req[t]
      end == r.index + r.count
  IN  /\ pc[t] = "marked"
      /\ bm_current' = [bm_current EXCEPT ![r.sec] =
                          IF end >= NrPage[r.sec] THEN 0 ELSE end]
      /\ sec_free' = [sec_free EXCEPT ![r.sec] = @ - r.count]
      /\ InitPages(r.sec, r.index, r.count, r.flag)
      /\ zone_free' = [zone_free EXCEPT ![r.zone] = @ - r.count]
      /\ zone_mutex' = [zone_mutex EXCEPT ![r.zone] = NoTask]
      /\ Finish(t, <<r.sec, r.index>>)
      /\ UNCHANGED <<bitmap, held, fault>>

----------------------------------------------------------------------------
(* get_free_pages_align: always in the first zone; neither the hint nor    *)
(* the free count of the section follows.                                  *)

MinAlign(i, a) == (i \div a) * a

\* find_align_page: the places it can return in section s.  A hint below 0
\* makes it look in front of the bitmap first.
AlignPlaces(s, nr, al) ==
  LET from == MinAlign(bm_current[s], al)
      free == {i \in 0 .. NrPage[s] - 1 :
                 i >= from /\ i % al = 0 /\ (i .. i + nr - 1) \cap bitmap[s] = {}}
  IN  (IF free = {} THEN {} ELSE {Min(free)}) \cup
      (IF from < 0 THEN {from} ELSE {})

\* Mutation: the count of the zone not lowered.
GetPagesAlignUncounted(t, nr, al) ==
  LET secs == {s \in SectionsOf(KERNEL) : AlignPlaces(s, nr, al) # {}}
      s == Min(secs)
  IN  /\ pc[t] = "idle"
      /\ zone_mutex[KERNEL] = NoTask
      /\ secs # {}
      /\ \E i \in AlignPlaces(s, nr, al) :
           /\ bitmap' = [bitmap EXCEPT ![s] = @ \cup (i .. i + nr - 1)]
           /\ InitPages(s, i, nr, KERNEL)
           /\ held' = held \cup {<<s, i>>}
           /\ fault' = IF i < 0 THEN "in front" ELSE fault
      /\ UNCHANGED <<bm_current, sec_free, zone_free, zone_mutex, pc, req, got>>

GetPagesAlign(t, nr, al) ==
  LET secs == {s \in SectionsOf(KERNEL) : AlignPlaces(s, nr, al) # {}}
      s == Min(secs)
  IN  /\ pc[t] = "idle"
      /\ zone_mutex[KERNEL] = NoTask
      /\ secs # {}
      /\ \E i \in AlignPlaces(s, nr, al) :
           /\ bitmap' = [bitmap EXCEPT ![s] = @ \cup (i .. i + nr - 1)]
           /\ InitPages(s, i, nr, KERNEL)
           /\ held' = held \cup {<<s, i>>}
           /\ fault' = IF i < 0 THEN "in front" ELSE fault
      /\ zone_free' = [zone_free EXCEPT ![KERNEL] = @ - nr]
      /\ UNCHANGED <<bm_current, sec_free, zone_mutex, pc, req, got>>

----------------------------------------------------------------------------
(* free_pages and release_page                                             *)

\* Mutation: only the header page freed.
FreePagesFirst(t, h) ==
  LET d == page[h[1]][h[2]]
  IN  /\ pc[t] = "idle" /\ h \in held
      /\ zone_mutex[d.flag] = NoTask
      /\ zone_mutex' = [zone_mutex EXCEPT ![d.flag] = t]
      /\ zone_free' = [zone_free EXCEPT ![d.flag] = @ + d.count]
      /\ bitmap' = [bitmap EXCEPT ![h[1]] = @ \ {h[2]}]
      /\ held' = held \ {h}
      /\ req' = [req EXCEPT ![t] = [count |-> 0, flag |-> d.flag,
                                    zone |-> d.flag, sec |-> h[1], index |-> 0]]
      /\ Goto(t, "scan")
      /\ fault' = IF d.flag = ZoneOf[h[1]] THEN fault ELSE "wrong zone"
      /\ UNCHANGED <<bm_current, sec_free, page, got>>

\* _free_pages up to the change of the bitmap: the mutex and the count are
\* those of the zone named by the flag of the descriptor.
FreePages(t, h) ==
  LET d == page[h[1]][h[2]]
  IN  /\ pc[t] = "idle" /\ h \in held
      /\ zone_mutex[d.flag] = NoTask
      /\ zone_mutex' = [zone_mutex EXCEPT ![d.flag] = t]
      /\ zone_free' = [zone_free EXCEPT ![d.flag] = @ + d.count]
      /\ bitmap' = [bitmap EXCEPT ![h[1]] = @ \ (h[2] .. h[2] + d.count - 1)]
      /\ held' = held \ {h}
      /\ req' = [req EXCEPT ![t] = [count |-> 0, flag |-> d.flag,
                                    zone |-> d.flag, sec |-> h[1], index |-> 0]]
      /\ Goto(t, "scan")
      /\ fault' = IF d.flag = ZoneOf[h[1]] THEN fault ELSE "wrong zone"
      /\ UNCHANGED <<bm_current, sec_free, page, got>>

\* The loop of update_bm_current has no lower bound: where every bit below
\* the hint is clear it runs on in front of the bitmap.  That happens in the
\* sections without a page in use from boot on.
ClearBelow(s) ==
  LET bm == bm_current[s]
      set == {i \in bitmap[s] : i < bm}
  IN  IF bm = 0 THEN {0}
      ELSE IF set # {} THEN {bm - 1 - Max(set)}
      ELSE LET above == Max({bm, 0}) IN above .. Max({above, bm + Underrun})

FreeScan(t) ==
  /\ pc[t] = "scan"
  /\ \E k \in ClearBelow(req[t].sec) : req' = [req EXCEPT ![t].count = k]
  /\ Goto(t, "update")
  /\ UNCHANGED <<data, zone_mutex, got, held, fault>>

FreeUpdate(t) ==
  /\ pc[t] = "update"
  /\ bm_current' = [bm_current EXCEPT ![req[t].sec] = @ - req[t].count]
  /\ zone_mutex' = [zone_mutex EXCEPT ![req[t].zone] = NoTask]
  /\ req' = [req EXCEPT ![t] = NoCall]
  /\ Goto(t, "idle")
  /\ UNCHANGED <<bitmap, sec_free, zone_free, page, got, held, fault>>

----------------------------------------------------------------------------
\* The caller takes what the call returned.
Take(t) ==
  /\ pc[t] = "done"
  /\ held' = held \cup (IF got[t] = None THEN {} ELSE {got[t]})
  /\ got' = [got EXCEPT ![t] = None]
  /\ Goto(t, "idle")
  /\ UNCHANGED <<data, zone_mutex, req, fault>>

PageStep(t) ==
  \/ GetFromZone(t)
  \/ CommitPages(t)
  \/ FreeScan(t)
  \/ FreeUpdate(t)

\* The state init_page_table and init_user_zone leave behind.
PageInit ==
  /\ bitmap = [s \in Sections |-> 0 .. Boot[s] - 1]
  /\ bm_current = Boot
  /\ sec_free = [s \in Sections |-> NrPage[s] - Boot[s]]
  /\ zone_free = [z \in Zones |->
                    MapThenSumSet(LAMBDA s : NrPage[s] - Boot[s], SectionsOf(z))]
  /\ zone_mutex = [z \in Zones |-> NoTask]
  /\ page = [s \in Sections |-> [j \in 0 .. NrPage[s] - 1 |->
               IF j < Boot[s] THEN [count |-> 1, flag |-> KERNEL]
               ELSE [count |-> 0, flag |-> KERNEL]]]
  /\ pc = [t \in Tasks |-> "idle"]
  /\ req = [t \in Tasks |-> NoCall]
  /\ got = [t \in Tasks |-> None]
  /\ held = {}
  /\ fault = "none"

PageNext ==
  /\ fault = "none"
  /\ \E t \in Tasks :
       \/ \E n \in Counts, f \in Flags : RequestPages(t, n, f)
       \/ \E a \in Aligned : GetPagesAlign(t, a[1], a[2])
       \/ \E h \in held : FreePages(t, h)
       \/ PageStep(t)
       \/ Take(t)

PageSpec == PageInit /\ [][PageNext]_pvars

----------------------------------------------------------------------------
(* Properties                                                              *)

\* The blocks handed out: owned by callers, returned and not yet taken, or
\* marked in the bitmap and not yet returned.
Returned == {got[t] : t \in {u \in Tasks : got[u] # None}}
Marking(t) == IF pc[t] = "marked"
              THEN Block(req[t].sec, req[t].index, req[t].count) ELSE {}

\* Every variable keeps its type, and while there is no fault a hint stays in
\* its section and no unchecked subtraction takes the count of a zone below
\* zero (mm.c:1169).  In a section that may be free as a whole, as those of
\* the user zone, update_bm_current can leave the hint in front of bit 0.
PageTypeOK ==
  /\ \A s \in Sections : sec_free[s] \in 0 .. NrPage[s]
  /\ \A z \in Zones : zone_mutex[z] \in Tasks \cup {NoTask}
  /\ \A t \in Tasks :
       pc[t] \in {"idle", "zone", "marked", "done", "scan", "update", "hang"}
  /\ fault \in {"none", "wrong zone", "in front"}
  /\ fault = "none" =>
       /\ \A s \in Sections :
            /\ bitmap[s] \subseteq 0 .. NrPage[s] - 1
            /\ bm_current[s] \in (IF Boot[s] = 0 THEN -Underrun ELSE 0) .. NrPage[s] - 1
       /\ \A z \in Zones : zone_free[z] \in Nat

\* No page belongs to two owners, or to one and to the kernel image, however
\* the searches wrap, skip aligned blocks and follow the hint that
\* update_bm_current moves back, and whichever zone serves a request.
PagesDisjoint(blocks) ==
  /\ \A h, g \in blocks : h # g => Extent(h) \cap Extent(g) = {}
  /\ \A h \in blocks : \A p \in Extent(h) : p[2] \in Boot[p[1]] .. NrPage[p[1]] - 1
  /\ \A h \in blocks, t \in Tasks : Extent(h) \cap Marking(t) = {}
BlocksDisjoint == fault = "none" => PagesDisjoint(held \cup Returned)

\* The bit of a page is set exactly while the page is in use: a free clears
\* all the bits its allocation set, and an allocation sets no other.
InUse(blocks) ==
  UNION {Extent(h) : h \in blocks} \cup UNION {Marking(t) : t \in Tasks}
  \cup UNION {Block(s, 0, Boot[s]) : s \in Sections}
BitsMatch(blocks) ==
  UNION {{<<s, j>> : j \in bitmap[s]} : s \in Sections} = InUse(blocks)
BitmapExact == fault = "none" => BitsMatch(held \cup Returned)

\* "free_pages: free pages of this zone" (mm.c): outside the critical sections
\* the counter of a zone is the number of clear bits of its sections, also
\* with requests of the user zone that the kernel zone serves.  The first
\* free of a page so served ends this: it credits the zone asked for
\* (mm.c:1034).
ZoneCountExact ==
  fault = "none" =>
    \A z \in Zones :
      zone_mutex[z] = NoTask =>
        zone_free[z] = MapThenSumSet(LAMBDA s : NrPage[s] - Cardinality(bitmap[s]),
                                     SectionsOf(z))

\* bitmap_find_free_base against what it looks for, from whatever hint the
\* allocations and frees have left: an index it returns is that of a free run
\* inside the section; it returns none only when no free run lies wholly on
\* one side of the hint (bit 0 counts for a hint of 0 only); and the one case
\* in which it never returns is such a section with the hint at its last page.
SearchRight ==
  \A s \in Sections, n \in Counts :
    LET start == bm_current[s]
        last == NrPage[s] - 1
        r == BitmapFind(bitmap[s], start, start, NrPage[s], n)
        Free(i) == (i .. i + n - 1) \cap bitmap[s] = {}
        runs == {i \in (start .. last + 1 - n) \cup (1 .. start + 1 - n) : Free(i)}
    IN  start >= 0 =>
          /\ r >= 0 => Free(r) /\ r + n - 1 <= last
          /\ r >= 0 <=> runs # {}
          /\ r = Unending <=> runs = {} /\ start = last /\ last # 0
============================================================================
