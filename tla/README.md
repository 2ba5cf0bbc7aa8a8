# Chunos in TLA+

Chunos is a small preemptive kernel for one processor (x86 and ARM), written in
C. This directory models its core in TLA+: scheduler, mutexes, life of tasks,
page allocator, kmalloc, page tables and memory of tasks, path lookup, open
files, and the lmfs, fat and devfs file systems. TLC checks the models on small
instances. TLAPS proves, for every number of tasks, priorities, mutexes, pids
and name buffers, the invariants of the scheduler, that the mutexes implement a
lock, that the pid map is sound, and that name buffers have one user.

## The system

| part | state | operations that change it |
|---|---|---|
| scheduler, `kernel/sched.c` | ready lists by priority, their counters, sleep, idle and system list, slices, `current`, `next_run` | fork, exec, suspend, wake up, tick, `sched()` |
| lists, `include/os/list.h` | `next`, `pre` of every node | add, add at the tail, delete, walk |
| mutexes, `kernel/mutex.c` | count, wait list, list of the mutexes a task holds | lock (with timeout), unlock |
| life of a task, `kernel/task.c`, `sched.c` | pid map, task states, child lists | fork, exit, kill, the system killer |
| page allocator, `mm/mm.c`, `kernel/bitops.c` | bitmap, search hint and counter per section, counter per zone, page descriptors | request, aligned request, free |
| kmalloc, `mm/slab.c` | pools of free slabs, the unused tail of the newest cache | kmalloc, kfree |
| page tables, `mm/pgt.c` | directories, page tables and their caches, buffer of directories | map, unmap, create, release |
| memory of a task, `kernel/task_mm.c`, `elf.c` | sections and their pages | load, copy, mmap, munmap, release |
| path lookup, `fs/fnode.c`, `mount.c` | name buffers, mount points, the fnode of a lookup | lookup, mount |
| open files, `fs/file.c`, `vfs.c` | descriptors; offset, block buffer, position in the buffer | open, close, read, write, seek, file mapping |
| file systems, `fs/lmfs.c`, `fat.c`, `devfs.c` | index blocks, pool of free blocks, cluster chain and its buffer, `current_child` | next, previous, first block; new block; find in a directory |
| signals, `syscall/sys_signal.c` | handlers, pending list | signal, kill, sigreturn |
| devices and log, `drivers`, `kernel/printk.c` | device and tty tables, ring buffer | register, allocate, print |

How they interact: every blocking operation ends in the scheduler; mutexes are
wait lists on top of it; kmalloc holds its mutex while it calls the page
allocator, which holds the mutex of a zone; tasks are made of pages and slabs;
exit hands a task to the system killer, which frees it. A path is looked up
through the mount points into a file system, and an open file is read and
written through the vfs by the same functions of the file system.

What makes it hard: there is one processor, and a function is interrupted by the
timer wherever interrupts are on. Critical sections are short, and most
functions have several, so state is read in one and used in the next. `list_del`
does not reinitialise the node it removes, and loops go on from removed nodes.
Error paths free what stays linked, or return without giving back what they
took. An open file keeps its place three times. `PROJECT.json` lists the hazards
at their lines.

## Modules

| module | models |
|---|---|
| `Sched` | the scheduler: a critical section is one action, the tick is walked through sleeper by sleeper |
| `List`, `ListOps`, `SeqLists` | `list.h` on pointers, its use by callers, and the sequences it implements |
| `Mutex`, `AbsLock` | `mutex.c` on top of `Sched` with wait lists on pointers, and the lock it implements |
| `TaskLife` | pids, exit, kill and the system killer on top of `Sched` |
| `PageAlloc` | the page allocator |
| `Slab` | kmalloc and kfree on top of `PageAlloc` |
| `PageTables` | the functions of `pgt.c` on a record of the memory |
| `UserMem` | fork, exec, mmap, munmap and release of tasks, on top of `PageTables` |
| `Lmfs`, `Fat` | how the two file systems walk the blocks of a file and take new ones |
| `Vfs` | descriptors, reads, writes, seeks and file mappings on top of `Lmfs` and `Fat` |
| `Lookup` | mounts, name buffers and the walk through lmfs and devfs directories |
| `SchedProofs`, `MutexProofs`, `TaskLifeProofs`, `LookupProofs` | theorems |
| `MC*` | the instances |

**Time and atomicity.** Interrupts are off in a critical section and there is
one processor, so a critical section is one action. Between two of them `pc`
records where the task is, and a `Tick` may come. In the modules above the
scheduler (`PageAlloc`, `Slab`, `UserMem`, `Vfs`, `Lookup`) the scheduler is
left out and the tasks interleave freely at the places named below; a mutex
there is a lock that a task takes when it is free (what `mutex.c` is shown to
implement, lost wakeups apart).

**`Sched`.** The lists are sequences (the `list_ops` run justifies it). `sch` is
a record of the states, priorities, lists and counters, so that `SetTaskState`,
`DecPrio`, `Displaced`, `SwitchTo` are functions from record to record that are
composed the way the C functions call each other. `os_tick_handler` becomes
`TickEnter` (the interrupt), one `TickSleeper` per sleeping task, and
`TickCurrent` with the switch at the end of `irq_handler`. `run_time` below zero
is one value (`RunTimeFloor`): it is only compared with zero. Freed and unborn
task_structs are in state UNKNOWN.

**`Mutex`.** `LockTry` is the critical section of `mutex_lock_timeout`,
`LockSuspend` and `LockSched` the two halves of the suspension, `LockReturn` the
test of the timeout. `UnlockCall`, `UnlockWake` (once per waiter) and
`UnlockDone` are `mutex_unlock`; they run with interrupts off, so nothing
interleaves, and are split only to show the walk over the pointers.

**`TaskLife`.** `LifeFork` is a fork that succeeds, `LifeForkFails` one that
fails, with or without a pid: the code frees the task_struct and leaves the pid
in the map, which `abandoned` remembers. `ExitRead`, `ExitSetIdle` (the two
halves of `set_task_state`), `ExitWakeKiller`, `ExitSched` are `task_kill_self`.
`KillRead` .. `KillFree` are `kill_task`, by the system killer or by a task that
sends a fatal signal: the read of the old state in `set_task_state`, its
critical section, `sched_remove_task`, `release_pid`, `release_task`. Two kills
can work on one task, the old state can be stale in a kill and in an exit, and a
pid left behind leads to a free task_struct: the model records this as `clash`
and stops, since the lists are damaged from there on. An exec of a running task
changes nothing here and is left out. The killed tasks of the model have no
children, mutexes or files. `PageReuse = FALSE` says that the page of a freed
task_struct is not handed out again before the killer has read the `next`
pointer in it; with reuse the walk of the killer goes wherever the new contents
point.

**`PageAlloc`.** Pages are numbers in a section, bitmaps are sets. `FindStep` is
one turn of the loop of `bitmap_find_free_base`, with its wrap to bit 1. Inside
the zone mutex a call has a step for the bitmap and one for the counters
(`GetFromZone`, `CommitPages`), a free one for the bitmap, one for the scan and
one for the subtraction in `update_bm_current`: a free locks the zone the page
was requested from, which is not always the zone it lies in, so these steps can
really interleave. Reads in front of a bitmap give any result (`ClearBelow`,
`FindResults`, `AlignPlaces`). A request from the user zone falls back to the
kernel zone. Two things damage the bookkeeping: the free of a page that came
from another zone than the one asked for, which credits and locks the wrong
zone, and an aligned block in front of its section. `fault` records them, and
the model stops there. `Boot` are the pages in use when the allocator starts;
those of the kernel zone hold the kernel and are never freed.

**`Slab`.** Memory is measured in units of eight bytes, the size of a header.
Each function that locks `slab_mutex` is an action; `alloc_new_slab_cache` and
the page branch of `kfree` keep it locked across the steps of `PageAlloc`. That
the word in front of a page is not by chance the magic word is assumed.

**`PageTables`, `UserMem`.** `mem` is a record: free pages, directories, page
tables, and per task its `task_page_table`, sections (`alloc_mem`,
`alloc_pages`) and kernel stack. The functions map records to records and are
composed as in the code; `Then` is the early return after a call that failed. A
system call is one step, because the tables and sections of a task are touched
by itself, by its parent before it runs, and by the killer after it has stopped.
The release of a dead task is a step per page (`FreePageOnList`), so others
request pages in the middle of it. Any request can find no page. The pages that
the code drops without freeing them are collected in `leaked`. An address is a
slot (a page table) and an entry, and a mapping may run into the next slot
(`Address`, `SlotAfter`). Four paths mix up what is free and what is in use: a
failed copy in `copy_process`, an exec of a smaller program, a page table
without its temporary buffer, where `init_task_page_table` releases address 0,
and a page that is handed out between its free in `free_pages_on_list` and the
read of its next pointer. `fault` records them, and the model stops there.

**`Lmfs`, `Fat`, `Vfs`.** A byte on a disk is named by its disk, block and
place, so that reading the wrong byte is visible. `v.fd[d]` is the file and its
fnode: `offset`, `rw` (`rw_pos`), `buf` (`data_buffer`) and the position of the
file system (`pos` and `cur` in lmfs, `cur` in FAT). `Then`, `WithBlock` and
`Times` are the early returns and the loops of `vfs_read`, `vfs_write` and
`vfs_seek`. Tasks share the table buffer of a FAT disk and the block pool of an
lmfs disk; two descriptors stand for two tasks, and a call is one step because
`__fat_get_data_block` holds `buf_mutex`. Writes are those of one descriptor,
because `lmfs_pop_block` takes no lock. Two marks say where a call has left the
file: `astray`, a table entry taken from a wrong place of the buffer
(`fat.c:386` scales the index of an entry behind the first sector twice), and
`lost`, an lmfs file whose index block is used up, so that a block is taken for
an index block. A descriptor belongs to one task: fork opens the three standard
ones anew.

**`Lookup`.** `Begin` is `get_file_fnode` up to the walk, `Start`, `Find`,
`NextLmfs`, `NextDevfs`, `MoveDevfs` are the turns of the loops of
`__get_file_fnode`. `current_child` of a devfs directory is shared by all
lookups without a lock, so its test and its store are separate steps; `clash`
notes that another lookup has moved the place of this one. An lmfs directory
that was searched in vain is not at its start when the next component is looked
for in it: `lmfs_get_data_block` then takes the characters of names for block
numbers. From there (`stray`) a block may exist or not, any entry of the disk
may be found in it, and the walk may end or go on (`NextStray`). `Killed` is a
`sys_kill` that hits a task in a lookup. `lost` are the name buffers that error
returns and killed tasks keep. The `_sys_access` of `do_mount` is a lookup like
any other; its result is not looked at, since `get_file_fnode` returns an fnode
whether or not the path exists.

## Runs

| run | instance | shows |
|---|---|---|
| `sched` | 2 tasks and idle, 3 priorities, slices of 1 to 3 ticks, timeouts 1, 2 | the lists are those of the states and hold no task twice, the counters are the lengths, one task runs, idle is ready and alone on the last list, who executes is awake |
| `sched_share` | 3 tasks that only compute, 4 priorities, fair timer | no task runs with a slice the tick cannot end; every ready task gets the processor |
| `list_ops` | 2 lists, 3 nodes | the pointer lists implement sequences; `pre` mirrors `next` |
| `mutex` | 3 tasks, 1 mutex, 2 priorities | mutual exclusion, sound wait lists, implementation of the abstract lock |
| `mutex_wakeup` | 2 tasks, 1 mutex | violated: a waiter may sleep without being on the list |
| `life` | the killer, a task and one that kills others, 4 pids, forks that fail | up to a clash, lists and states agree through exit, kill and reaping; a dead task never runs; the pid map is sound but for the pids of failed forks |
| `pages` | 6 kernel pages in two sections, 1 user page, 2 tasks, requests of 1 and 2 pages from both zones, aligned pairs | up to a fault, no page has two owners, the bitmap and the zone counter are exact, the cyclic search agrees with its definition |
| `slab` | 3 pages of 8 units, 2 tasks, sizes 1 and 6, at most 2 slabs in use | slabs are disjoint, each in one place, in pages nobody else has, and large enough outside the last pool |
| `user_mem` | 2 tasks, 16 pages, 4 directories, tables of 3 entries, programs and mappings of 1 and 2 pages | up to a fault, no page and no directory has two owners, every page is free, held or a known leak, a task reaches its own pages only |
| `files` | one lmfs file, two FAT files with crossing chains, sectors of 4 bytes, 2 to a block, 2 descriptors | from a descriptor in step with its file, reads return and writes put the right bytes, and reads fail in one case only; exactly when reads, seeks and writes keep it in step |
| `file_refill` | the same | violated: the buffer may hold the old block after it is used up |
| `lookup` | 2 tasks, 2 name buffers, 3 mounts and lookups together, 7 paths, with and without O_DIRECTORY | name buffers have one user, walks stay in their directory, undisturbed lookups find what the path names, the longest and latest mount is chosen, every devfs lookup ends |

**Bounds.** Two tasks and idle make every pair of scheduler operations
interleave; with three priorities a task passes the top, the middle and the last
list, and with slices of 1 to 3 ticks every slice ends. Three tasks on one mutex
give a holder, a waiter being woken and one that links itself meanwhile; the
`mutex` run has no timeouts, as the callers have none, and the proofs cover
them. Four pids for the killer and two tasks make the pids run out after
task_structs have been reused, also by failing forks. Six kernel pages are
enough for fragmentation, for aligned blocks in the way of a search, and for the
hint to wrap; one user page makes requests fall back to the kernel zone. The
`pages` run identifies states that differ only in the descriptors of free pages
(`MCView`), which are not read. The code never raises the free count of a
section (`mm.c:867` lowers it, no free restores it), so in the model as in the
code a section serves as many requested pages as were free at the start,
whatever is freed; aligned requests do not look at this count. Two pages for
caches let two tasks refill at the same time. In the `slab` run one of the two
sizes asked for belongs to the last pool, and so does what is left of a cache,
so that slabs of two sizes are in it; callers own at most two slabs at a time
(`MCBound`). A user task needs at least six pages and more with mappings, so
with 16 of them the second fork runs out at different points of its copy; tables
of three entries let a program, its meta page and mappings share or leave a
table; runs that lose more than three pages are cut off (`MCBound`). In `files`,
blocks of 8 bytes with counts 4, 8 and 20 and offsets 0, 16 and 20 begin and end
at and inside blocks and cross one or two of them; one file fills its last
block; entries of the table in the same, the next and a farther sector than the
shared buffer starts with are all met, and an index block of 6 entries is used
up; one write keeps it finite (`WriteNr`), and a read starts at an offset within
the file, since beyond it the code copies a negative number of bytes. In
`lookup`, directories of two and three blocks, an empty one of each kind, a
missing component in the middle, a file where a directory is asked for, two
mounts at one path and one inside another are all met (`CallNr` bounds mounts
and lookups together). `SYMMETRY` is used for tasks that the module treats
alike, in runs without liveness.

**Deadlock** is checked except where the model may stop: `life` after a clash,
`pages` and `user_mem` after a fault; `pages` and `slab`, where a search that
does not end keeps the zone mutex and a failed `alloc_new_slab_cache` keeps
`slab_mutex`; `lookup`, where the bound on calls can be used up.

**Fairness.** `sched_share` assumes weak fairness of the steps of the timer
interrupt, which hardware delivers periodically, and of the `sched()` in the
endless loop of the idle task; nothing is assumed of the tasks. `lookup` assumes
weak fairness of the steps of a lookup in devfs. Such a lookup takes no mutex:
from `get_iname_buffer` to its return it only computes, and `sched_share` shows
that tasks that only compute run again and again. A lookup in lmfs waits for
`disk_mutex` at every block and can sleep for ever by the lost wakeup of
`mutex_wakeup`; of its steps nothing is assumed, and `LookupEnds` does not speak
of it. New lookups are not assumed, and `LookupEnds` needs them to be finitely
many: others can set `current_child` back as often as they start.

## Disagreements between code and comments

* `mutex_unlock` between the linking of a waiter and its suspension takes the
  waiter off the list without waking it (`mutex_wakeup`; comment in
  `mutex_unlock`).
* A read that uses up the buffer loads the next block only if it began at the
  start of the buffer (`file_refill`; comment in `vfs_read`).

What else the models show of the code, stated inside a property or stopped at:

* A task that is displaced while it is PREPARE or SLEEP (after a wakeup or an
  exec before its `sched()`, or in a suspension whose timeout then expires)
  keeps a slice of 0 and is dispatched with it; the tick then never ends the
  slice. `SliceLeft` holds for tasks that only compute.
* `set_task_state` acts on a state read before the critical section, and two
  kills can work on one task (`clash` in `TaskLife`). A fork that fails after
  `get_new_pid` leaves its pid in the map, where it leads to free memory
  (`abandoned`); without a free pid `get_new_pid` unlocks a mutex it has not
  locked.
* A page requested from the user zone and taken from the kernel zone is freed
  under the mutex and to the credit of the user zone (`fault` in `PageAlloc`).
* `bitmap_find_free_base` does not end when it starts at the last bit and finds
  nothing (the case `SearchRight` excepts).
* The last pool of kmalloc holds slabs of different sizes and hands out the
  first one, which may be too small (the case `SlabFits` excepts). A failed
  `alloc_new_slab_cache` returns with `slab_mutex` locked.
* A failed copy in fork frees pages of the child and starts it; exec of a
  smaller program frees its last page and keeps it; `init_task_page_table`
  without a temporary buffer releases address 0; `free_pages_on_list` reads a
  page after it has freed it (`fault` in `UserMem`). Pages are lost by munmap,
  by exec after mmap, by a fork that fails and, one each, by every task that
  ends (`leaked`).
* Reads and seeks lose step with the file in the cases `ReadKeepsSync` and
  `SeekKeepsSync` name. The size and the index block that a write changes are
  never written back, and an append on lmfs writes the index block over block 0.
  `sector_in_fat_buffer` scales the index of an entry behind the first sector
  twice, so that the chain goes on at a wrong cluster (`astray`).
* `file_find` is not reset between the components of a path, so a missing
  component after the first is taken for found; in lmfs the search for the one
  after it takes names for block numbers (`stray`). Error returns of
  `__get_file_fnode` keep the name buffer. devfs compares as many characters as
  the name has, and mount points are prefixes of characters: `/dev` also takes
  `/device`; `get_file_fnode` also skips the dot of a name like `/.a`. Two
  lookups in one devfs directory can make each other miss a device that exists.

`mutex_lock_timeout` and `suspend_task_timeout` with a positive timeout are part
of the interface; at present no caller passes one.

## Proofs

All theorems hold for every value of the constants that meets the named
assumptions of the modules.

**Scheduler (`SchedProofs`)**, for any set of tasks, number of priorities,
default priority, slice base and set of timeouts (`TasksAssumption`,
`PrioAssumption`, `TimeoutsAssumption`). `SchedInvariant` is `Spec => []Inv`;
from it follow `SchedTypeCorrect`, `SchedListsCorrect`, `SchedCountCorrect`,
`SchedDispatchCorrect` and `SchedSuspendCorrect`, the properties of the `sched`
run.

`Inv` strengthens the properties by four facts. `CurrentAlive`: the task on the
processor is RUNNING, PREPARE or SLEEP. Without it `SwitchTo` could displace a
task that has left the lists. `IdleState` and `IdleNotTicked`: the idle task is
RUNNING when it has the processor and PREPARE otherwise, and the tick never
visits it as a sleeper. Without them the ready lists could be empty in
`FindNextRunTask`. `SwitchDone`: `next_run` is `current` between two actions.
That the last priority is the idle task's alone is proved beside it (`PrioInv`);
it needs a default priority that is not the last one, as in `sched.h`.

The argument goes bottom up. `ListDelProperties`, `ListAddTailProperties` and
`ListAddProperties` say what the list operations do to membership, to repetition
and to length. `SchedOK(s)` says of a record `s` what the list properties say of
`sch`. `SetTaskStateOK`, `DecPrioOK`, `FindNextRunTaskOK` and `RescheduleOK`
show that each function maps a record with `SchedOK` to one with `SchedOK`, and
what it does to states. Then there is one lemma per action, and `NextInv`
combines them. The highest non-empty priority exists because the natural numbers
are well-founded (`LeastExists`).

**Mutexes (`MutexProofs`)**, for any tasks, mutexes and timeouts.
`MutexExcludes` is `MutualExclusion`, and `MutexImplementsLock` is the
refinement of `AbsLock` that the `mutex` run checks: a mutex maps to the task on
whose list it is. The inductive invariant `LockInv` says that a count is 1
exactly if some task keeps the mutex, and that only the task on the processor is
inside `mutex_unlock`. The second half is needed because `mutex_unlock` clears
the count before it unlinks the mutex from its holder: the window is invisible
only since nobody else runs in it. Nothing of the scheduler's invariant is used,
so exclusion does not depend on who is dispatched. Each step then acquires,
releases or leaves the holder alone (`LockTryAcquires`, `UnlockDoneReleases`,
`SameHolder`).

**Pids (`TaskLifeProofs`)**, for any tasks, signallers and pids, with and
without reuse of freed pages, with forks that fail and pids that run out.
`PidMapCorrect` is `PidMapSound`: what `pid_get_task` returns for a pid that no
failed fork has left behind is not a freed task. `LifeInv` adds what a kill in
progress knows: from the moment it has taken its victim off the idle list until
it frees it, the victim is IDLE, off the list, and nobody else's victim in that
phase, and once its pid is released no entry of the map leads to it. Beyond a
clash only the property itself is claimed; the model stops there. Of the
scheduler the proof uses only what it does to the idle list (`IdleKept`).

**Name buffers (`LookupProofs`)**, for any tasks, buffers, mounts and directory
trees (`LookupAssumption`). `LookupBuffersExclusive` and
`LookupBuffersAccounted` are the properties of the `lookup` run. They are proved
together (`BufferInv`): a buffer with a clear bit is nobody's because the bitmap
is exact, and the bitmap stays exact when a buffer is put back because nobody
else has it.

**Only model-checked.** Liveness (`ReadyRuns`, `LookupEnds`), which the prover
does not do. `ImplementsSequences`, `WaitListSound`, `SearchRight`,
`BlocksDisjoint`, `BitmapExact`, the memory of tasks and the files: they rest on
what walks along pointers, bitmaps, lists or chains compute, which needs
induction over data. `LifeListsMatchState` and `ExitedNeverRuns`.

## Not modelled

* User space: the headers of the C library and small programs. They are 26500 of
  the 44400 lines of the repository and hold no state of the kernel.
* Processor and board support (`arch`), drivers, interrupt controllers, boot,
  tools: register and descriptor set-up, hardware I/O and assembly. What the
  models need of them is that critical sections are atomic, that the timer
  ticks, and that a disk returns the blocks written to it.
* Pending signals. `sys_sigreturn` frees the action that `plast` points to and
  does not reset it, so the next signal queued for the task writes into freed
  memory; `arch_do_signal` delivers nothing. Only the fatal default action is
  modelled (`TaskLife`).
* Child lists: `init_task_struct` adds a task to the child list of an
  uninitialised pointer, so what they contain is not determined by the code.
* The files and mutexes of a killed task. `kill_task` removes `task->wait`
  whenever it is not self-linked, although `list_del` leaves stale links.
* `set_task_prio` and `get_free_page_match`, which have no caller; the search
  for an mmap address, which reads a structure of another type; unmount and
  creation of files, which are not implemented; FAT12 and FAT32 entries; lmfs
  files of more than one index block (4 MB; the model records where one would be
  needed); relative paths, for which `get_file_fnode` has no root.
* Contents of pages, parsing of programs, formatting, the log buffer, string
  functions, system call dispatch: no modelled property depends on them.

## What is left

`kill_task` composed with `Mutex` (a waiter or holder that is killed), and
`getdents`, which moves the position of an open directory, are the next
candidates.
