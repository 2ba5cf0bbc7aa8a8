----------------------------- MODULE PageTables -----------------------------
(***************************************************************************)
(* The page tables of mm/pgt.c as functions on a record m of the memory:   *)
(*   free      the free pages (the page allocator, module PageAlloc)       *)
(*   table     task -> its task_page_table                                 *)
(*   dir       directory -> slot -> the page of its page table             *)
(*   pte       page -> entry -> the page it maps, for pages of page tables *)
(*   buf, nr_free, alloc_nr   the buffer of free directories, pgt_buffer   *)
(*   unalloc   the directories the page allocator can still supply         *)
(*   next      task -> the page just freed whose plist.next the release of *)
(*             the task has still to read; none once the page is in use    *)
(*             again, since init_pages clears plist                        *)
(*   got, err  result and failure of the last function                     *)
(* An address is a slot (an entry of the directory) and an entry in it.    *)
(* Page tables are touched by the task they belong to, and by its parent   *)
(* before it runs, so a function is one step; another task can only take   *)
(* and return pages meanwhile.                                             *)
(***************************************************************************)
EXTENDS Integers, Sequences, FiniteSets, SequencesExt, FiniteSetsExt

CONSTANTS
  Tasks,      \* the user tasks
  Idle,       \* the idle task, which loads the first one
  PageNr,     \* the pages that can be requested are 1 .. PageNr
  DirNr,      \* directories are 1 .. DirNr; 1 is the one used at boot
  Slots,      \* the entries of a directory the tasks use
  SlotAfter,  \* slot -> the slot of the addresses that follow its own
  PteNr,      \* PTES_PER_PDE, the entries of a page table
  Chunk       \* the entries pgt_map_normal_memory fills between look-ups

AllTasks == Tasks \cup {Idle}
Pages == 1 .. PageNr
Dirs == 1 .. DirNr
Entries == 0 .. PteNr - 1
NoPage == 0
NoDir == 0

ASSUME PageTablesAssumption ==
  /\ Idle \notin Tasks
  /\ SlotAfter \in [Slots -> Slots]
  /\ PageNr \in Nat /\ DirNr \in Nat \ {0}
  /\ PteNr \in Nat \ {0} /\ Chunk \in 1 .. PteNr

EmptyDir == [s \in Slots |-> NoPage]
EmptyPte == [e \in Entries |-> NoPage]
NoList == [pages |-> <<>>, free |-> 0, cur |-> 0]
Lists == {"task", "mmap"}
NoTable == [pde |-> NoDir, tbuf |-> NoPage, list |-> [l \in Lists |-> NoList]]

\* The first k of a set of pages, in order.
Lowest(S, k) ==
  [i \in 1 .. k |-> CHOOSE p \in S : Cardinality({q \in S : q < p}) = i - 1]

\* What request_pages does to pages it hands out.
InUse(m, pages) ==
  [m EXCEPT !.free = @ \ pages,
            !.next = [t \in DOMAIN @ |-> IF @[t] \in pages THEN NoPage ELSE @[t]]]

\* request_pages(1, flag): a page or none.  Which page does not matter, except
\* for one just freed, and that is the lowest one at some point of a release.
RequestPage(m) ==
  IF m.free = {} THEN [m EXCEPT !.got = NoPage, !.err = TRUE]
  ELSE LET p == Min(m.free) IN [InUse(m, {p}) EXCEPT !.got = p]

\* The rest of a function after a call that may have failed: it returns early.
Then(m, Op(_)) == IF m.err THEN m ELSE Op(m)

----------------------------------------------------------------------------
(* The buffer of directories.                                              *)

\* alloc_new_pde.  Mutation: the directory stays in the buffer.
AllocNewPdeKept(m) ==
  IF m.nr_free > 0 THEN [m EXCEPT !.got = Head(m.buf)]
  ELSE IF m.unalloc = {} THEN [m EXCEPT !.got = NoDir, !.err = TRUE]
  ELSE LET d == Min(m.unalloc)
       IN  [m EXCEPT !.unalloc = @ \ {d}, !.alloc_nr = @ + 1, !.got = d]
AllocNewPde(m) ==
  IF m.nr_free > 0
  THEN [m EXCEPT !.buf = Tail(@), !.nr_free = @ - 1, !.got = Head(m.buf)]
  ELSE IF m.unalloc = {} THEN [m EXCEPT !.got = NoDir, !.err = TRUE]
  ELSE LET d == Min(m.unalloc)
       IN  [m EXCEPT !.unalloc = @ \ {d}, !.alloc_nr = @ + 1, !.got = d]

\* release_pde.  Mutation: the entry is not counted.
ReleasePdeUncounted(m, d) == [m EXCEPT !.buf = Append(@, d)]
ReleasePde(m, d) == [m EXCEPT !.buf = Append(@, d), !.nr_free = @ + 1]

----------------------------------------------------------------------------
(* Page tables.                                                            *)

\* init_pte_cache_list: the pages of a task that calls exec are used again,
\* from the first one.
InitPteCache(c) ==
  IF c.pages # <<>> THEN [c EXCEPT !.cur = 0, !.free = Len(c.pages)]
  ELSE NoList

\* alloc_new_pte_page on a list of t: a page of zeros.  Mutation: the list
\* hands out the same page again.
AllocNewPtePageAgain(m, t, l) ==
  LET c == m.table[t].list[l]
  IN  IF c.free = 0
      THEN Then(RequestPage(m), LAMBDA r :
             [r EXCEPT !.table[t].list[l].pages = Append(@, r.got),
                       !.pte[r.got] = EmptyPte])
      ELSE LET p == c.pages[1]
           IN  [m EXCEPT !.table[t].list[l].free = @ - 1,
                         !.pte[p] = EmptyPte, !.got = p]
AllocNewPtePage(m, t, l) ==
  LET c == m.table[t].list[l]
  IN  IF c.free = 0
      THEN Then(RequestPage(m), LAMBDA r :
             [r EXCEPT !.table[t].list[l].pages = Append(@, r.got),
                       !.pte[r.got] = EmptyPte])
      ELSE LET p == c.pages[c.cur + 1]
           IN  [m EXCEPT !.table[t].list[l].cur = @ + 1,
                         !.table[t].list[l].free = @ - 1,
                         !.pte[p] = EmptyPte, !.got = p]

SlotOf(m, t, slot) == m.dir[m.table[t].pde][slot]

\* The page table of a slot, from the directory or new: the two lines that
\* pgt_get_mapped_pte_addr and pgt_map_mmap_page have in common, with
\* pgt_map_new_pde_entry.
MappedPtePage(m, t, l, slot) ==
  IF SlotOf(m, t, slot) # NoPage
  THEN [m EXCEPT !.got = SlotOf(m, t, slot)]
  ELSE Then(AllocNewPtePage(m, t, l), LAMBDA r :
         [r EXCEPT !.dir[m.table[t].pde][slot] = r.got])

\* The entries of page table p are overwritten with pages, page k at At(k);
\* of two pages for one entry the later one stays.
FillEntries(m, p, pages, At(_)) ==
  [m EXCEPT !.pte[p] =
     [e \in Entries |->
        LET ks == {k \in DOMAIN pages : At(k) = e}
        IN  IF ks = {} THEN @[e] ELSE pages[Max(ks)]]]

\* pgt_map_stack_memory: downwards from the base of the stack, which is the
\* end of its slot.
MapStack(m, t, pages, slot) ==
  IF pages = <<>> THEN m
  ELSE Then(MappedPtePage(m, t, "task", slot), LAMBDA r :
         FillEntries(r, r.got, pages, LAMBDA k : PteNr - k))

\* pgt_map_normal_memory from entry e0 of a slot.  At the end of a chunk the
\* entry is computed from map_base again, so filling restarts at e0.
MapNormal(m, t, pages, slot, e0) ==
  IF pages = <<>> THEN m
  ELSE Then(MappedPtePage(m, t, "task", slot), LAMBDA r :
         FillEntries(r, r.got, pages,
           LAMBDA k : e0 + ((k - 1) % (Chunk - (e0 % Chunk)))))

----------------------------------------------------------------------------
(* A page table of a task.                                                 *)

\* The temporary buffer of a new table.  When there is no page for it,
\* release_pde is called with base 0: what va_to_page(0) finds goes to the
\* buffer in place of the directory.  That is the descriptor of the first page
\* of the user zone, whatever list it is on, or NULL without such a zone.  No
\* function below can go on from there: NoTempBuffer tells the callers.
TempBuffer(m, t) ==
  LET r == RequestPage(m)
  IN  IF r.err THEN r ELSE [r EXCEPT !.table[t].tbuf = r.got]
NoTempBuffer(m, t) == m.table[t].pde # NoDir /\ m.table[t].tbuf = NoPage

\* mmu_copy_kernel_pde: the part of a directory for user addresses is
\* cleared, except in the directory of boot.
CopyKernelPde(m, d) == IF d = 1 THEN m ELSE [m EXCEPT !.dir[d] = EmptyDir]

\* init_task_page_table, for a new task and for exec.
InitTable(m, t) ==
  LET New(a) == TempBuffer([a EXCEPT !.table[t] = [NoTable EXCEPT !.pde = a.got]], t)
      Reset(b) == [CopyKernelPde(b, b.table[t].pde) EXCEPT
                     !.table[t].list = [l \in Lists |-> InitPteCache(@[l])]]
  IN  Then(IF m.table[t].pde = NoDir THEN Then(AllocNewPde(m), New) ELSE m, Reset)

----------------------------------------------------------------------------
(* mmap.                                                                   *)

\* The address i pages behind the start of a slot.
Address(slot, i) == <<IF i < PteNr THEN slot ELSE SlotAfter[slot], i % PteNr>>
EntryAt(m, t, a) ==
  IF SlotOf(m, t, a[1]) = NoPage THEN NoPage ELSE m.pte[SlotOf(m, t, a[1])][a[2]]

\* pgt_check_mmap_addr for nr pages: refused when one of them is mapped, but
\* not looked at when the slot of the first one has no page table.  For a
\* page in a later slot without a page table the code reads address 0: such
\* an address counts as free here, to be refused is no step.
CheckMmap(m, t, slot, e, nr) ==
  SlotOf(m, t, slot) # NoPage
    => \A i \in e .. e + nr - 1 : EntryAt(m, t, Address(slot, i)) = NoPage

\* pgt_map_mmap_page.
MapMmapPage(m, t, page, a) ==
  Then(MappedPtePage(m, t, "mmap", a[1]), LAMBDA r : [r EXCEPT !.pte[r.got][a[2]] = page])

\* pgt_unmap_mmap_page: the page in got.  Without a page table, or with an
\* entry of 0 (address 0 is no memory), there is none.
UnmapMmapPage(m, t, a) ==
  IF EntryAt(m, t, a) = NoPage THEN [m EXCEPT !.got = NoPage]
  ELSE [m EXCEPT !.got = EntryAt(m, t, a), !.pte[SlotOf(m, t, a[1])][a[2]] = NoPage]
=============================================================================
