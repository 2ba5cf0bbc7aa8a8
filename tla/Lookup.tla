------------------------------- MODULE Lookup -------------------------------
(***************************************************************************)
(* How a name becomes an fnode: fs/fnode.c on top of fs/mount.c, in devfs  *)
(* and in lmfs.  A lookup holds one of the name buffers of fs/fnode.c and  *)
(* walks the blocks of one directory after the other.  The place in an     *)
(* lmfs directory is in the fnode of the lookup; the place in a devfs      *)
(* directory is current_child of the directory itself, which all lookups   *)
(* share without a lock.  A name is the sequence of its characters.  The   *)
(* disk is assumed to return every block that it has.                      *)
(***************************************************************************)
EXTENDS Integers, FiniteSets, SequencesExt

CONSTANTS
  Tasks,
  InameNr,     \* the number of name buffers
  Tree,        \* directory -> the sequence of its blocks, each of them a
               \* sequence of entries [name, node]; every directory is in it
  RootOf,      \* file system -> its root directory
  FsOf,        \* directory -> its file system, "devfs" or "lmfs"
  RootMount,   \* the root mount, [path, fs]
  Mountable,   \* the mounts that may be added
  Paths,       \* the names the tasks look up
  CallNr       \* bound on the number of mounts and lookups together

Inames == 0 .. InameNr - 1
NoIname == -1
Dirs == DOMAIN Tree

ASSUME LookupAssumption ==
  /\ InameNr \in Nat /\ CallNr \in Nat
  /\ Mountable \subseteq [path : Seq(STRING), fs : DOMAIN RootOf]
  /\ \A f \in DOMAIN RootOf : FsOf[RootOf[f]] = f
  /\ \A p \in Paths : p[1] = "/"

VARIABLES
  iname_buffer,    \* the buffers in use, the bitmap of fs/fnode.c
  current_child,   \* devfs directory -> the block its walk is at, 0 for NULL
  mounts,          \* the list of mount points, the root first
  lk,              \* task -> its lookup
  lookups,         \* the number of lookups so far
  lost,            \* the buffers that no lookup has and nobody gave back
  clash            \* task -> another task has moved the place in the
                   \* directory that the task is walking

lkvars == <<iname_buffer, current_child, mounts, lk, lookups, lost, clash>>

\* root and name are what is looked up, type what the last component must be; dir is the fnode; blk the block in the
\* buffer; pos the place in an lmfs directory; stray that the words read there are no block numbers; rest what is left
\* of the name; find is file_find.
Idle == [pc |-> "idle", root |-> RootOf[RootMount.fs], name |-> <<>>, type |-> "DT_ANY", rest |-> <<>>, tname |-> <<>>,
         buf |-> NoIname, dir |-> RootOf[RootMount.fs], blk |-> 0, pos |-> 0, stray |-> FALSE, find |-> FALSE,
         err |-> "ok"]

\* The bound is not reached; the mount of the root is not counted.
CanCall == Len(mounts) - 1 + lookups < CallNr

----------------------------------------------------------------------------
(* fs/mount.c                                                              *)

\* Mutation: the last match of the list.
GetMountPointLast(list, name) ==
  FoldLeft(LAMBDA m, x : IF IsPrefix(x.path, name) THEN x ELSE m, list[1], Tail(list))

\* get_mount_point: the first of the longest paths that the name begins with.
\* The root is what is left: its path is not compared.
GetMountPoint(list, name) ==
  LET Better(best, x) ==
        IF Len(x.path) > best.len /\ IsPrefix(x.path, name)
        THEN [m |-> x, len |-> Len(x.path)] ELSE best
  IN  FoldLeft(Better, [m |-> list[1], len |-> 0], Tail(list)).m

\* get_file_fs_name, and what get_file_fnode skips: a dot, then slashes.
RealName(m, name) ==
  LET fsname == SubSeq(name, Len(m.path) + 1, Len(name))
      s == IF fsname # <<>> /\ fsname[1] = "." THEN Tail(fsname) ELSE fsname
      k == CHOOSE i \in 0 .. Len(s) : /\ \A j \in 1 .. i : s[j] = "/"
                                      /\ i < Len(s) => s[i + 1] # "/"
  IN  SubSeq(s, k + 1, Len(s))

\* do_mount puts the new mount point behind the root.  The access to the path
\* before it is a lookup like any other; it always succeeds, because
\* get_file_fnode returns an fnode whether or not the path exists.
DoMount(m) ==
  /\ CanCall
  /\ mounts' = <<mounts[1], m>> \o Tail(mounts)
  /\ UNCHANGED <<iname_buffer, current_child, lk, lookups, lost, clash>>

----------------------------------------------------------------------------
(* fs/fnode.c                                                              *)

\* find_file_name: the first component of a name, and what follows it.
Slash(name) == Min({i \in 1 .. Len(name) : name[i] = "/"} \cup {Len(name) + 1})
Component(name) == SubSeq(name, 1, Slash(name) - 1)
Following(name) == SubSeq(name, Slash(name) + 1, Len(name))

Set(t, new) == lk' = [lk EXCEPT ![t] = new]

\* An early return of __get_file_fnode: the buffer stays marked.
ReturnEarly(t, err) ==
  /\ lost' = lost \cup {lk[t].buf}
  /\ Set(t, [lk[t] EXCEPT !.pc = "done", !.err = err, !.buf = NoIname])

\* Mutation: a search that does not mark the buffer it returns.
GetInameBufferUnset(t, i) == iname_buffer' = iname_buffer

\* The bit that get_iname_buffer sets.
GetInameBuffer(t, i) == iname_buffer' = iname_buffer \cup {i}

\* get_file_fnode up to the walk: the mount point, its root fnode and a name
\* buffer, the lowest free one.  Without a buffer the lookup fails.  The type
\* is DT_DIR for O_DIRECTORY.
Begin(t, name, type) ==
  LET m == GetMountPoint(mounts, name)
      l == [Idle EXCEPT !.root = RootOf[m.fs], !.dir = RootOf[m.fs], !.type = type,
                        !.name = RealName(m, name), !.rest = RealName(m, name)]
      free == Inames \ iname_buffer
  IN
  /\ lk[t].pc = "idle" /\ CanCall
  /\ lookups' = lookups + 1
  /\ \/ /\ l.rest = <<>>
        /\ Set(t, [l EXCEPT !.pc = "done"])
        /\ UNCHANGED iname_buffer
     \/ /\ l.rest # <<>> /\ free = {}
        /\ Set(t, [l EXCEPT !.pc = "done", !.err = "again"])
        /\ UNCHANGED iname_buffer
     \/ /\ l.rest # <<>> /\ free # {}
        /\ GetInameBuffer(t, Min(free))
        /\ Set(t, [l EXCEPT !.pc = "component", !.buf = Min(free)])
  /\ UNCHANGED <<current_child, mounts, lost, clash>>

\* The name is used up.
NameUsedUp(t) ==
  /\ lk[t].pc = "component" /\ lk[t].rest = <<>>
  /\ Set(t, [lk[t] EXCEPT !.pc = "put"])
  /\ UNCHANGED <<iname_buffer, current_child, mounts, lookups, lost, clash>>

\* The tasks that walk devfs directory d, other than t.
Walkers(t, d) == {u \in Tasks \ {t} : lk[u].dir = d /\ lk[u].pc \in {"find", "next", "move"}}

\* The place in devfs directory d becomes block b, by task t.
SetChild(t, d, b) ==
  /\ current_child' = [current_child EXCEPT ![d] = b]
  /\ clash' = [u \in Tasks |-> clash[u] \/ u \in Walkers(t, d)]

\* VFS_START_BLOCK for the next component.  An lmfs directory that an earlier
\* component was searched for in vain is not at its start: its first data
\* block is then read in place of its index block, and the characters of a
\* name are taken for a block number.  The disk may have that block or not.
\* Without a block the lookup returns and keeps its buffer.
Start(t) ==
  LET l == lk[t] IN
  /\ l.pc = "component" /\ l.rest # <<>>
  /\ UNCHANGED <<iname_buffer, mounts, lookups>>
  /\ \/ /\ Tree[l.dir] = <<>> \/ l.pos # 0
        /\ ReturnEarly(t, "nospc")
        /\ UNCHANGED <<current_child, clash>>
     \/ /\ Tree[l.dir] # <<>>
        /\ Set(t, [l EXCEPT !.pc = "find", !.blk = 1, !.pos = 0, !.stray = l.pos # 0,
                            !.tname = Component(l.rest), !.rest = Following(l.rest)])
        /\ IF FsOf[l.dir] = "devfs" THEN SetChild(t, l.dir, 1)
           ELSE UNCHANGED <<current_child, clash>>
        /\ UNCHANGED lost

\* devfs compares as many characters as the name has, lmfs all of them.
Matches(fs, name, entry) == IF fs = "devfs" THEN IsPrefix(name, entry) ELSE name = entry

\* Mutation: a block of lmfs whose first entry only is compared.
FindFileFirst(dir, blk, name) ==
  LET b == Tree[dir][blk] IN
  {b[i].node : i \in {j \in {1} : Matches(FsOf[dir], name, b[j].name)}}

\* find_file: the first entry of the block that matches.
FindFile(dir, blk, name) ==
  LET b == Tree[dir][blk]
      hits == {i \in DOMAIN b : Matches(FsOf[dir], name, b[i].name)}
  IN  IF hits = {} THEN {} ELSE {b[Min(hits)].node}

\* What the entries of the lmfs disk name.
LmfsNodes ==
  {e.node : e \in UNION {Range(FlattenSeq(Tree[d])) : d \in {c \in Dirs : FsOf[c] = "lmfs"}}}

\* The block is searched.  A file where a directory is asked for, in the middle
\* of the name or at its end, ends the lookup.  In a block that is not of the
\* directory any entry of the disk may be found, or none.
Find(t) ==
  LET l == lk[t]  found == FindFile(l.dir, l.blk, l.tname) IN
  /\ l.pc = "find"
  /\ \/ /\ l.stray \/ found = {}
        /\ Set(t, [l EXCEPT !.pc = "next"])
     \/ \E node \in IF l.stray THEN LmfsNodes ELSE found :
          Set(t, IF node \notin Dirs /\ (l.rest # <<>> \/ l.type = "DT_DIR")
                 THEN [l EXCEPT !.pc = "put", !.dir = node, !.err = "notdir"]
                 ELSE [l EXCEPT !.pc = "component", !.dir = node, !.find = TRUE, !.pos = 0])
  /\ UNCHANGED <<iname_buffer, current_child, mounts, lookups, lost, clash>>

\* The loop over the blocks is over.  file_find is not reset between the
\* components: once one was found, the lookup goes on in the same directory.
NotFound(l) ==
  IF l.find THEN [l EXCEPT !.pc = "component"] ELSE [l EXCEPT !.pc = "put", !.err = "noent"]

\* VFS_NEXT_BLOCK in lmfs; the place moves past the last block.
NextLmfs(t) ==
  LET l == [lk[t] EXCEPT !.pos = @ + 1] IN
  /\ l.pc = "next" /\ FsOf[l.dir] = "lmfs" /\ ~l.stray
  /\ Set(t, IF l.pos = Len(Tree[l.dir]) THEN NotFound(l)
            ELSE [l EXCEPT !.pc = "find", !.blk = l.pos + 1])
  /\ UNCHANGED <<iname_buffer, current_child, mounts, lookups, lost, clash>>

\* The same when the index block was overwritten: the next word of the names is
\* 0, a block of the disk, or one that the disk does not have, so that
\* read_block fails.
NextStray(t) ==
  LET l == [lk[t] EXCEPT !.pos = 1] IN
  /\ l.pc = "next" /\ l.stray
  /\ \/ Set(t, NotFound(l)) /\ UNCHANGED lost
     \/ Set(t, [l EXCEPT !.pc = "find"]) /\ UNCHANGED lost
     \/ ReturnEarly(t, "io")
  /\ UNCHANGED <<iname_buffer, current_child, mounts, lookups, clash>>

\* Mutation: the end of the list is noticed one entry late.
NextDevfsPast(t) ==
  LET l == lk[t]  b == current_child[l.dir] + 1 IN
  /\ l.pc = "next" /\ FsOf[l.dir] = "devfs"
  /\ Set(t, IF b > Len(Tree[l.dir]) + 1 THEN NotFound(l)
            ELSE [l EXCEPT !.pc = "move", !.blk = b])
  /\ UNCHANGED <<iname_buffer, current_child, mounts, lookups, lost, clash>>

\* VFS_NEXT_BLOCK in devfs, up to the test of the end of the list.
NextDevfs(t) ==
  LET l == lk[t]  b == current_child[l.dir] + 1 IN
  /\ l.pc = "next" /\ FsOf[l.dir] = "devfs"
  /\ Set(t, IF b > Len(Tree[l.dir]) THEN NotFound(l)
            ELSE [l EXCEPT !.pc = "move", !.blk = b])
  /\ UNCHANGED <<iname_buffer, current_child, mounts, lookups, lost, clash>>

\* Mutation: the new place is not stored.
MoveDevfsKept(t) ==
  /\ lk[t].pc = "move"
  /\ Set(t, [lk[t] EXCEPT !.pc = "find"])
  /\ UNCHANGED <<current_child, clash, iname_buffer, mounts, lookups, lost>>

\* The rest of it: current_child is stored.
MoveDevfs(t) ==
  /\ lk[t].pc = "move"
  /\ SetChild(t, lk[t].dir, lk[t].blk)
  /\ Set(t, [lk[t] EXCEPT !.pc = "find"])
  /\ UNCHANGED <<iname_buffer, mounts, lookups, lost>>

\* Mutation: a buffer that stays marked.
PutInameBufferKept(t) ==
  /\ lk[t].pc = "put"
  /\ Set(t, [lk[t] EXCEPT !.pc = "done", !.buf = NoIname])
  /\ UNCHANGED <<iname_buffer, current_child, mounts, lookups, lost, clash>>

\* put_iname_buffer
PutInameBuffer(t) ==
  /\ lk[t].pc = "put"
  /\ iname_buffer' = iname_buffer \ {lk[t].buf}
  /\ Set(t, [lk[t] EXCEPT !.pc = "done", !.buf = NoIname])
  /\ UNCHANGED <<current_child, mounts, lookups, lost, clash>>

\* _get_file_fnode returns the fnode, whatever the walk returned.
Return(t) ==
  /\ lk[t].pc = "done"
  /\ Set(t, Idle)
  /\ clash' = [clash EXCEPT ![t] = FALSE]
  /\ UNCHANGED <<iname_buffer, current_child, mounts, lookups, lost>>

\* sys_kill of a task in a lookup: nobody gives its buffer back.
Killed(t) ==
  /\ lk[t].pc # "idle"
  /\ lost' = lost \cup ({lk[t].buf} \ {NoIname})
  /\ Set(t, Idle)
  /\ clash' = [clash EXCEPT ![t] = FALSE]
  /\ UNCHANGED <<iname_buffer, current_child, mounts, lookups>>

Step(t) ==
  \/ NameUsedUp(t) \/ Start(t) \/ Find(t) \/ NextLmfs(t) \/ NextStray(t) \/ NextDevfs(t)
  \/ MoveDevfs(t) \/ PutInameBuffer(t) \/ Return(t)

LookupInit ==
  /\ iname_buffer = {} /\ lost = {} /\ lookups = 0
  /\ current_child = [d \in {e \in Dirs : FsOf[e] = "devfs"} |-> 0]
  /\ mounts = <<RootMount>>
  /\ lk = [t \in Tasks |-> Idle]
  /\ clash = [t \in Tasks |-> FALSE]

LookupNext ==
  \/ \E m \in Mountable : DoMount(m)
  \/ \E t \in Tasks, name \in Paths, type \in {"DT_ANY", "DT_DIR"} : Begin(t, name, type)
  \/ \E t \in Tasks : Step(t) \/ Killed(t)

\* A lookup in devfs takes no mutex: from its name buffer to its return it only
\* computes, and the scheduler runs a task that only computes again and again.
\* A lookup in lmfs waits for disk_mutex at every block, and a wakeup of a mutex
\* can be lost, so nothing is assumed of its steps.
InDevfs(t) == FsOf[lk[t].root] = "devfs"
LookupSpec ==
  LookupInit /\ [][LookupNext]_lkvars /\ \A t \in Tasks : WF_lkvars(InDevfs(t) /\ Step(t))

----------------------------------------------------------------------------
(* Properties.                                                             *)

Held == {lk[t].buf : t \in Tasks} \ {NoIname}

\* Two lookups never write into the same name buffer, nor into one that an
\* early return of __get_file_fnode or a killed task left marked.
InameExclusive ==
  /\ \A t, u \in Tasks : t # u /\ lk[t].buf # NoIname => lk[t].buf # lk[u].buf
  /\ Held \cap lost = {}

\* The bitmap marks the buffers of the lookups under way and those that the
\* early returns and the killed tasks kept, and no other: put_iname_buffer frees
\* every other one.
InameAccounted == iname_buffer = Held \cup lost

\* devfs_get_data_block never follows a current_child that was not set, and a
\* walk is at an entry of its directory, whatever the other lookups do.  The
\* walk of an lmfs directory that was searched in vain before leaves it.
WalkInDirectory ==
  \A t \in Tasks :
    LET l == lk[t] IN
    l.pc \in {"find", "next", "move"} /\ ~l.stray =>
      /\ l.blk \in DOMAIN Tree[l.dir]
      /\ FsOf[l.dir] = "devfs" => current_child[l.dir] \in DOMAIN Tree[l.dir]

\* The node of a name: component by component, the first entry that matches.
Entry(dir, name) ==
  LET es == FlattenSeq(Tree[dir])
      hits == {i \in DOMAIN es : Matches(FsOf[dir], name, es[i].name)}
  IN  IF hits = {} THEN {} ELSE {es[Min(hits)].node}
Resolve(dir, name) ==
  LET ends == {k \in 1 .. Len(name) : name[k] = "/"} \cup {Len(name) + 1}
      r[k \in {0} \cup ends] ==
        IF k = 0 THEN {dir}
        ELSE LET j == Max({0} \cup {i \in ends : i < k})
             IN  UNION {Entry(d, SubSeq(name, j + 1, k - 1)) : d \in r[j] \cap Dirs}
  IN  r[Len(name) + 1]

\* A lookup that no other one disturbs finds the node of a name that has one,
\* over all its blocks and components, and ends with -ENOTDIR exactly when
\* O_DIRECTORY asks for a directory and the node is a file; and it says so when
\* there is not even an entry for the first component.
LookupRight ==
  \A t \in Tasks :
    LET l == lk[t]  nodes == Resolve(l.root, l.name) IN
    l.pc = "done" /\ l.err # "again" /\ l.name # <<>> /\ ~clash[t] =>
      /\ nodes # {} =>
           /\ nodes = {l.dir}
           /\ l.err = IF l.type = "DT_DIR" /\ l.dir \notin Dirs THEN "notdir" ELSE "ok"
      /\ Entry(l.root, Component(l.name)) = {} => l.err \in {"noent", "nospc"}

\* get_mount_point returns the mount point with the longest path that the name
\* begins with, and of several at one path the one mounted last.
MountChosen ==
  \A name \in Paths, i \in 2 .. Len(mounts) :
    LET m == GetMountPoint(mounts, name)  x == mounts[i] IN
    IsPrefix(x.path, name) =>
      /\ Len(x.path) <= Len(m.path)
      /\ x.path = m.path => \E j \in 2 .. i : mounts[j] = m

\* Every lookup in devfs returns, whatever the others do to current_child and
\* wherever they are killed, when there are not always new ones.
LookupEnds == \A t \in Tasks : lk[t].pc # "idle" /\ InDevfs(t) ~> lk[t].pc = "idle"

============================================================================
