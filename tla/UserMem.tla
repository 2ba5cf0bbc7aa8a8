------------------------------ MODULE UserMem ------------------------------
(***************************************************************************)
(* The memory of user tasks, kernel/task_mm.c, and what kernel/task.c does *)
(* with it: fork, exec, mmap, munmap and release.  The memory is a record  *)
(* (module PageTables), so that the functions are composed as in the code. *)
(* Four paths of the code mix up what is free and what is in use.  The     *)
(* fault they leave behind is recorded, and nothing that follows is        *)
(* modelled.                                                               *)
(***************************************************************************)
EXTENDS PageTables

CONSTANTS
  StackPages,   \* the pages of a user stack
  Images,       \* the sizes of the programs, in pages
  MmapAt,       \* the <<slot, entry>> the tasks pass to mmap and munmap
  MmapCounts,   \* the page counts they pass
  ElfEntry      \* the entry of the slot of META where programs start

\* PROCESS_USER_META_BASE and PROCESS_USER_EXEC_BASE lie in one slot.
TextSlot == "text"
StackSlot == "stack"
ELF == "elf"
STACK == "stack"
MMAP == "mmap"
META == "meta"
Sections == {ELF, STACK, MMAP, META}
NoSection == [pages |-> <<>>, alloc |-> 0]

ASSUME UserMemAssumption ==
  /\ {TextSlot, StackSlot} \subseteq Slots
  /\ StackPages \in 1 .. PteNr /\ Images \subseteq Nat \ {0}
  /\ MmapAt \subseteq Slots \X Entries /\ MmapCounts \subseteq Nat \ {0}
  /\ ElfEntry \in 1 .. PteNr - 1

VARIABLES
  mem,      \* the record of PageTables, and sec: task -> section ->
            \* [pages, alloc]: alloc_mem and alloc_pages; kstack: task -> the
            \* page of its kernel stack; state: task -> "none", "live",
            \* "dying", and "freed" once its release has freed a page
  walk,     \* task -> the pages its release has still to free
  leaked,   \* the pages that are on no list any more and not free
  fault     \* "none", or the path that was taken: "copy failed", "image shrank",
            \* "no buffer", "page reused"

uvars == <<mem, walk, leaked, fault>>

----------------------------------------------------------------------------
(* Sections.                                                               *)

\* section_get_memory with count > 0; when the pages run out those already
\* taken stay on the list.
MoreMemory(m, t, s, count) ==
  LET k == Min({count, Cardinality(m.free)})
      new == Lowest(m.free, k)
  IN  [InUse(m, ToSet(new)) EXCEPT
                !.sec[t][s] = [pages |-> @.pages \o new, alloc |-> @.alloc + k],
                !.err = k < count]

\* section_get_memory with count < 0 releases the last page |count| times;
\* it stays on the list and in alloc_pages.  (munmap can have emptied the
\* list; what is released then is no page.)
LessMemory(m, t, s) ==
  IF m.sec[t][s].pages = <<>> THEN m
  ELSE [m EXCEPT !.free = @ \cup {Last(m.sec[t][s].pages)}]

SectionGetMemory(m, t, s, count) ==
  IF count = 0 THEN m
  ELSE IF count > 0 THEN MoreMemory(m, t, s, count)
  ELSE LessMemory(m, t, s)

\* init_task_mm_section for every section, at exec: pages that are counted in
\* alloc_pages are kept.  Pages of mmap are not counted.  Mutation: all lists
\* are initialised.
InitTaskMmSectionAll(m, t) ==
  [m EXCEPT !.sec[t] = [s \in Sections |-> NoSection]]
InitTaskMmSection(m, t) ==
  [m EXCEPT !.sec[t] = [s \in Sections |-> IF @[s].alloc = 0 THEN NoSection ELSE @[s]]]

\* alloc_task_user_stack.
AllocUserStack(m, t) ==
  Then(SectionGetMemory(m, t, STACK, StackPages - m.sec[t][STACK].alloc),
       LAMBDA r : MapStack(r, t, r.sec[t][STACK].pages, StackSlot))

\* init_task_meta_section: mapped only when it is new.
InitMetaSection(m, t) ==
  IF m.sec[t][META].alloc # 0 THEN m
  ELSE Then(SectionGetMemory(m, t, META, 1),
            LAMBDA r : MapNormal(r, t, r.sec[t][META].pages, TextSlot, 0))

\* init_mm_struct from init_task_page_table on.
InitMmStruct(m, t) ==
  Then(Then(InitTable(m, t), LAMBDA a : AllocUserStack(a, t)),
       LAMBDA b : InitMetaSection(b, t))

\* alloc_kernel_stack.
AllocKernelStack(m, t) ==
  Then(RequestPage(m), LAMBDA r : [r EXCEPT !.kstack[t] = r.got])

\* alloc_and_init_task for the new task t.
AllocAndInitTask(m, t) ==
  Then(InitMmStruct(m, t), LAMBDA a : AllocKernelStack(a, t))

----------------------------------------------------------------------------
(* What a task holds.                                                      *)

NoMemory(m, t) ==
  [m EXCEPT !.table[t] = NoTable, !.sec[t] = [s \in Sections |-> NoSection],
            !.kstack[t] = NoPage]

\* The scratch fields after a system call.
Done(m) == [m EXCEPT !.got = 0, !.err = FALSE]

SectionPages(m, t) ==
  m.sec[t][ELF].pages \o m.sec[t][STACK].pages \o m.sec[t][MMAP].pages
    \o m.sec[t][META].pages
TablePages(m, t) == m.table[t].list["task"].pages \o m.table[t].list["mmap"].pages
OwnPages(m, t) == <<m.table[t].tbuf, m.kstack[t]>>
AllPages(m, t) ==
  (ToSet(SectionPages(m, t)) \cup ToSet(TablePages(m, t)) \cup ToSet(OwnPages(m, t)))
    \ {NoPage}

----------------------------------------------------------------------------
(* fork.                                                                   *)

\* m is the memory after alloc_and_init_task.  It fails: the task_struct is
\* freed and nothing else.
ForkFails(m, c) ==
  /\ m.err
  /\ mem' = Done(NoMemory(m, c))
  /\ leaked' = leaked \cup AllPages(m, c)
  /\ fault' = IF NoTempBuffer(m, c) THEN "no buffer" ELSE fault
  /\ UNCHANGED walk

\* task_mm_copy_task_memory: the pages first, section by section ...
CopyGetMemory(m, p, c) ==
  LET Copy(r, s) == SectionGetMemory(r, c, s, r.sec[p][s].alloc - r.sec[c][s].alloc)
  IN  FoldLeft(LAMBDA r, s : IF r.err THEN r ELSE Copy(r, s), m, <<ELF, STACK, MMAP, META>>)
\* ... then the mappings.  The contents that are copied are left out.
CopyMap(m, p, c) ==
  Then(Then(MapNormal(m, c, m.sec[c][META].pages, TextSlot, 0),
            LAMBDA a : MapStack(a, c, a.sec[c][STACK].pages, StackSlot)),
       LAMBDA b : MapNormal(b, c, b.sec[c][ELF].pages, TextSlot, ElfEntry))
CopyTaskMemory(m, p, c) ==
  Then(CopyGetMemory(m, p, c), LAMBDA a : CopyMap(a, p, c))

\* do_fork.  copy_process ignores that the copy has failed and freed the
\* sections of the child: the child is started.
ForkCopies(m, p, c) ==
  LET r == CopyTaskMemory(m, p, c)
  IN  /\ ~m.err
      /\ mem' = [Done(r) EXCEPT !.state[c] = "live",
                   !.free = IF r.err THEN @ \cup ToSet(SectionPages(r, c)) ELSE @]
      /\ fault' = IF r.err THEN "copy failed" ELSE fault
      /\ UNCHANGED <<walk, leaked>>

Fork(p, c) ==
  /\ mem.state[p] = "live" /\ p # Idle
  /\ mem.state[c] = "none"
  /\ LET m == AllocAndInitTask(mem, c) IN ForkFails(m, c) \/ ForkCopies(m, p, c)

----------------------------------------------------------------------------
(* exec.                                                                   *)

\* task_mm_load_elf_image: n pages, mapped where programs start.
LoadImage(m, t, n) ==
  Then(SectionGetMemory(m, t, ELF, n - m.sec[t][ELF].alloc),
       LAMBDA r : MapNormal(r, t, r.sec[t][ELF].pages, TextSlot, ElfEntry))

\* do_exec by a user task: reinit_task, whose result is always 0, and
\* task_mm_load_elf_image.  A program with fewer pages than the section has
\* frees its last page and keeps it.
Exec(t, n) ==
  LET a == InitTaskMmSection(mem, t)
      b == [InitMmStruct(a, t) EXCEPT !.err = FALSE]
  IN  /\ mem.state[t] = "live" /\ t # Idle
      /\ mem' = Done(LoadImage(b, t, n))
      /\ leaked' = leaked \cup ToSet(mem.sec[t][MMAP].pages)
      /\ fault' = IF n < mem.sec[t][ELF].alloc THEN "image shrank" ELSE fault
      /\ UNCHANGED walk

\* do_exec by the idle task, once at boot (task_mm_load_elf_image_1): a new
\* task, whose program is mapped for the idle task as well to load it.  If
\* alloc_and_init_task fails the kernel panics.
KernelExec(t, n) ==
  LET a == Then(AllocAndInitTask(mem, t), LAMBDA m : LoadImage(m, t, n))
      b == Then(a, LAMBDA m : MapNormal(m, Idle, m.sec[t][ELF].pages, TextSlot, ElfEntry))
  IN  /\ \A u \in Tasks : mem.state[u] = "none"
      /\ mem.alloc_nr = 1
      /\ ~b.err
      /\ mem' = [Done(b) EXCEPT !.state[t] = "live"]
      /\ UNCHANGED <<walk, leaked, fault>>

----------------------------------------------------------------------------
(* mmap and munmap.                                                        *)

\* task_mm_mmap at a given address: a failed mapping is not noticed, a
\* failed request ends the call with the pages so far.
MmapPage(m, t, a) ==
  Then(Then(m, RequestPage), LAMBDA r :
    [MapMmapPage([r EXCEPT !.sec[t][MMAP].pages = Append(@, r.got)], t, r.got, a)
       EXCEPT !.err = FALSE])

Mmap(t, slot, e, nr) ==
  /\ mem.state[t] = "live" /\ t # Idle
  /\ CheckMmap(mem, t, slot, e, nr)
  /\ mem' = Done(FoldLeft(LAMBDA m, i : MmapPage(m, t, Address(slot, e + i - 1)),
                          mem, [i \in 1 .. nr |-> i]))
  /\ UNCHANGED <<walk, leaked, fault>>

\* One turn of the loop of task_mm_munmap: the page leaves the list it is on,
\* be it that of another section, and is not released.  An address without a
\* page is skipped.  Mutation: the page stays on the list.
UnmapPageKept(m, t, a) == UnmapMmapPage(m, t, a)
UnmapPage(m, t, a) ==
  LET r == UnmapMmapPage(m, t, a)
  IN  IF r.got = NoPage THEN r
      ELSE [r EXCEPT !.sec[t] =
              [s \in Sections |-> [@[s] EXCEPT !.pages = Remove(@, r.got)]]]

Munmap(t, slot, e, nr) ==
  LET pages == {EntryAt(mem, t, Address(slot, i)) : i \in e .. e + nr - 1}
  IN  /\ mem.state[t] = "live" /\ t # Idle
      /\ mem' = Done(FoldLeft(LAMBDA m, i : UnmapPage(m, t, Address(slot, e + i - 1)),
                              mem, [i \in 1 .. nr |-> i]))
      /\ leaked' = leaked \cup (pages \ {NoPage})
      /\ UNCHANGED <<walk, fault>>

----------------------------------------------------------------------------
(* release_task_memory, by the system killer.                              *)

\* The kernel stack and the directory go first, then free_pages_on_list
\* frees page by page: page tables, then sections.  The page of the temporary
\* buffer is on no list.
Release(t) ==
  LET r == ReleasePde(mem, mem.table[t].pde)
  IN  /\ mem.state[t] = "live" /\ t # Idle
      /\ walk' = [walk EXCEPT ![t] = TablePages(mem, t) \o SectionPages(mem, t)]
      /\ mem' = [NoMemory(r, t) EXCEPT !.free = @ \cup {mem.kstack[t]},
                                       !.state[t] = "dying"]
      /\ leaked' = leaked \cup {mem.table[t].tbuf}
      /\ UNCHANGED fault

\* The loop frees a page and only then reads the next pointer in it, to free
\* the page after it or to end.
CanReadNext(t) ==
  \/ mem.state[t] = "dying"
  \/ mem.state[t] = "freed" /\ mem.next[t] # NoPage

FreePageOnList(t) ==
  LET p == Head(walk[t])
  IN  /\ CanReadNext(t) /\ walk[t] # <<>>
      /\ mem' = [mem EXCEPT !.free = @ \cup {p}, !.pte[p] = EmptyPte,
                            !.next[t] = p, !.state[t] = "freed"]
      /\ walk' = [walk EXCEPT ![t] = Tail(@)]
      /\ UNCHANGED <<leaked, fault>>

\* If the page is in use again by then, the loop goes on in the list of its
\* new owner, or around the page itself.
GoAstray(t) ==
  /\ mem.state[t] = "freed" /\ mem.next[t] = NoPage
  /\ fault' = "page reused"
  /\ UNCHANGED <<mem, walk, leaked>>

\* The task_struct is freed and can be that of a new task.
Reaped(t) ==
  /\ CanReadNext(t) /\ walk[t] = <<>>
  /\ mem' = [mem EXCEPT !.state[t] = "none", !.next[t] = NoPage]
  /\ UNCHANGED <<walk, leaked, fault>>

----------------------------------------------------------------------------
\* After pgt_init and build_idle_task: the idle task has the directory of
\* boot and a temporary buffer.
UserMemInit ==
  /\ mem = [free |-> Pages \ {1}, unalloc |-> Dirs \ {1},
            buf |-> <<>>, nr_free |-> 0, alloc_nr |-> 1,
            dir |-> [d \in Dirs |-> EmptyDir], pte |-> [p \in Pages |-> EmptyPte],
            table |-> [t \in AllTasks |-> IF t = Idle THEN [NoTable EXCEPT !.pde = 1, !.tbuf = 1]
                                          ELSE NoTable],
            sec |-> [t \in AllTasks |-> [s \in Sections |-> NoSection]],
            kstack |-> [t \in AllTasks |-> NoPage],
            state |-> [t \in AllTasks |-> IF t = Idle THEN "live" ELSE "none"],
            next |-> [t \in Tasks |-> NoPage], got |-> 0, err |-> FALSE]
  /\ walk = [t \in Tasks |-> <<>>]
  /\ leaked = {}
  /\ fault = "none"

UserMemNext ==
  /\ fault = "none"
  /\ \/ \E t \in Tasks, n \in Images : KernelExec(t, n) \/ Exec(t, n)
     \/ \E p, c \in Tasks : Fork(p, c)
     \/ \E t \in Tasks, a \in MmapAt, nr \in MmapCounts :
          Mmap(t, a[1], a[2], nr) \/ Munmap(t, a[1], a[2], nr)
     \/ \E t \in Tasks : Release(t) \/ FreePageOnList(t) \/ GoAstray(t) \/ Reaped(t)

UserMemSpec == UserMemInit /\ [][UserMemNext]_uvars
----------------------------------------------------------------------------
(* Properties.                                                             *)

CacheType == [pages : Seq(Pages), free : Nat, cur : Nat]

\* The types of the page tables, the sections and the buffer.
UserMemTypeOK ==
  /\ mem.free \subseteq Pages /\ mem.unalloc \subseteq Dirs
  /\ mem.buf \in Seq(Dirs) /\ mem.nr_free = Len(mem.buf)
  /\ mem.dir \in [Dirs -> [Slots -> Pages \cup {NoPage}]]
  /\ mem.pte \in [Pages -> [Entries -> Pages \cup {NoPage}]]
  /\ mem.table \in [AllTasks -> [pde : Dirs \cup {NoDir}, tbuf : Pages \cup {NoPage},
                                 list : [Lists -> CacheType]]]
  /\ mem.sec \in [AllTasks -> [Sections -> [pages : Seq(Pages), alloc : Nat]]]
  /\ mem.kstack \in [AllTasks -> Pages \cup {NoPage}]
  /\ walk \in [Tasks -> Seq(Pages)]
  /\ leaked \subseteq Pages
  /\ fault \in {"none", "copy failed", "image shrank", "no buffer", "page reused"}

\* Everywhere a task can hold a page: its lists, its temporary buffer and its
\* kernel stack.
Holdings(t) ==
  TablePages(mem, t) \o SectionPages(mem, t)
    \o SelectSeq(OwnPages(mem, t), LAMBDA p : p # NoPage)
    \o (IF t \in Tasks THEN walk[t] ELSE <<>>)
HeldBy == [t \in AllTasks |-> ToSet(Holdings(t))]

\* A page that is free, or lost, is on no list of a task, and a page on a
\* list is on no other one and only once: through fork, exec, mmap over the
\* end of a slot, munmap of whatever is mapped, and a release during which
\* others request pages.  The exceptions are the four faults: a failed copy
\* that is not noticed, a program that shrinks, a fork without a page for the
\* temporary buffer, and a page that is in use again before the release has
\* read its next pointer.
PagesOwnedOnce ==
  LET held == HeldBy IN
  fault = "none" =>
    /\ \A t \in AllTasks : Cardinality(held[t]) = Len(Holdings(t))
    /\ \A t, u \in AllTasks : t # u => held[t] \cap held[u] = {}
    /\ \A t \in AllTasks : held[t] \cap (mem.free \cup leaked) = {}
    /\ mem.free \cap leaked = {}

\* No page is lost but where the code drops it: munmap, exec with pages of
\* mmap, the temporary buffer at release, and a fork that fails half-way.
PagesAccounted ==
  LET held == HeldBy IN mem.free \cup leaked \cup UNION {held[t] : t \in AllTasks} = Pages

Mapped(t) == {s \in Slots : SlotOf(mem, t, s) # NoPage}
UserTasks == {t \in Tasks : mem.state[t] = "live"}

\* What a task can reach is its own: the tables its directory points to are
\* on its lists of page tables, and what they map is on the lists of its
\* sections.  A page of a task that was released, or of the program before
\* exec, is not reachable; and no two slots share a table, although exec
\* hands out the pages of the old tables again.
MapsOwnPages ==
  fault = "none" =>
    \A t \in UserTasks :
      LET tables == ToSet(TablePages(mem, t))
          pages == ToSet(SectionPages(mem, t)) \cup {NoPage}
      IN  \A s \in Mapped(t) :
            /\ SlotOf(mem, t, s) \in tables
            /\ \A e \in Entries : mem.pte[SlotOf(mem, t, s)][e] \in pages
            /\ \A r \in Slots \ {s} : SlotOf(mem, t, r) # SlotOf(mem, t, s)

\* A directory is used by one task or is in the buffer once, through forks
\* that fail at any point and releases.  The exception is a fork that fails for
\* want of a page for the temporary buffer: release_pde(0) (pgt.c:397) then
\* buffers what is no directory.
DirsOwnedOnce ==
  fault # "no buffer" =>
    /\ \A t, u \in AllTasks :
         t # u /\ mem.table[t].pde # NoDir => mem.table[t].pde # mem.table[u].pde
    /\ IsInjective(mem.buf)
    /\ \A t \in AllTasks : mem.table[t].pde \notin ToSet(mem.buf)
    /\ mem.unalloc \cap (ToSet(mem.buf) \cup {mem.table[t].pde : t \in AllTasks}) = {}
============================================================================
