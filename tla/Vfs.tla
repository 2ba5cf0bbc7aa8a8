-------------------------------- MODULE Vfs --------------------------------
(***************************************************************************)
(* fs/vfs.c on top of Lmfs and Fat, and the descriptor table of fs/file.c. *)
(* An open file keeps the same place three times: file->offset, rw_pos in  *)
(* data_buffer, and the position of the file system in its chain of        *)
(* blocks.  The functions map a record to a record and are composed as in  *)
(* the code; an action is one system call.  Two descriptors stand for two  *)
(* tasks.  While they read and seek they share the table buffer of the FAT *)
(* disk alone, under its mutex.  A write is modelled with one descriptor   *)
(* open: lmfs_pop_block takes no lock, so that two appends at a time can   *)
(* get the same block.                                                     *)
(***************************************************************************)
EXTENDS Lmfs, Fat, FiniteSets, SequencesExt

CONSTANTS
  FdNr,        \* FILE_OPENS
  LmfsFiles,   \* file -> the index block of a file on the lmfs disk
  FatFiles,    \* file -> the first cluster of a file on the FAT disk
  Size,        \* file -> its size
  LmfsBlocks,  \* the number of blocks of the lmfs disk
  Pool, PoolTop, \* db_pool and db_pool_pos when the disk is mounted
  Counts,      \* the sizes the tasks pass to read and write
  Offsets,     \* the offsets they pass to seek
  WriteNr      \* bound on the number of writes

BlockSize == ClusSize    \* buffer_size, the same in both file systems here
Fds == 0 .. FdNr - 1
Files == DOMAIN LmfsFiles \cup DOMAIN FatFiles
NoFile == [file |-> "none"]

ASSUME VfsAssumption ==
  /\ FdNr \in Nat \ {0} /\ WriteNr \in Nat /\ Counts \subseteq Nat \ {0}
  /\ Offsets \subseteq Nat
  /\ \A f \in Files : Size[f] \in Nat
  /\ \A f \in DOMAIN LmfsFiles : DOMAIN LmfsFiles[f] = 0 .. LvlNr - 1
  /\ DOMAIN Pool = 0 .. PoolNr - 1 /\ PoolTop \in DOMAIN Pool

VARIABLES
  v,         \* the record: fd, disk, base, pool, ppos, and the results got
             \* (a block), err, out (the bytes read) and ret of the functions
  writes,    \* the writes so far
  mounted    \* the disk the files are on: the two share no state

vfsvars == <<v, writes, mounted>>

Kind(f) == IF f \in DOMAIN LmfsFiles THEN "lmfs" ELSE "fat"
KindOf(w, d) == Kind(w.fd[d].file)
Done(w) == [w EXCEPT !.got = 0, !.err = "ok", !.out = <<>>, !.ret = 0,
                     !.new = FALSE, !.astray = FALSE]

----------------------------------------------------------------------------
(* Blocks.                                                                 *)

\* vfs_get_data_block
GetDataBlock(w, d, whence) ==
  IF KindOf(w, d) = "lmfs" THEN LmfsGetDataBlock(w, d, whence)
  ELSE FatGetDataBlock(w, d, whence)

\* Where read_block and write_block find block b on the disk of d.
Place(w, d, b) == IF KindOf(w, d) = "lmfs" THEN b ELSE GetFirstSector(b)
BlockBytes(w, d, b) == w.disk[KindOf(w, d)][Place(w, d, b)]

\* The rest of a function after a call that may have returned no block.
WithBlock(w, err, Op(_)) == IF w.got = 0 THEN [w EXCEPT !.err = err] ELSE Op(w)

\* vfs_read_block into the buffer of the caller.
ReadBlock(w, d, whence) ==
  WithBlock(GetDataBlock(w, d, whence), "nospc",
            LAMBDA x : [x EXCEPT !.out = @ \o BlockBytes(x, d, x.got)])

\* vfs_read_block into data_buffer.
LoadBlock(w, d, whence) ==
  WithBlock(GetDataBlock(w, d, whence), "nospc",
            LAMBDA x : [x EXCEPT !.fd[d].buf = BlockBytes(x, d, x.got)])

\* __vfs_write_block; write_sectors refuses a block beyond the disk.
WriteBlock(w, d, b, bytes) ==
  IF b = NoBlock THEN [w EXCEPT !.err = "io"]
  ELSE [w EXCEPT !.disk[KindOf(w, d)][Place(w, d, b)] = bytes]

\* The rest of a function after a step that may have failed.
Then(w, Op(_)) == IF w.err = "ok" THEN Op(w) ELSE w

\* Op repeated n times, until it fails.
Times(w, n, Op(_)) == FoldLeft(LAMBDA x, i : Then(x, Op), w, [i \in 1 .. n |-> i])

\* vfs_get_new_data_block; FAT has no get_block.
GetNewDataBlock(w, d) ==
  IF KindOf(w, d) = "lmfs" THEN LmfsGetNewBlock(w, d) ELSE [w EXCEPT !.got = 0]

----------------------------------------------------------------------------
(* vfs_read and vfs_write.  n bytes from pos are spread over the buffer,   *)
(* whole blocks and a rest.                                                *)

InBuffer(pos, n) == Min({BlockSize - pos, n})
WholeBlocks(pos, n) == (n - InBuffer(pos, n)) \div BlockSize
SizeLeft(pos, n) == (n - InBuffer(pos, n)) % BlockSize

\* file->offset and rw_pos after n bytes.
Advance(w, d, n) ==
  [w EXCEPT !.fd[d].offset = @ + n, !.fd[d].rw = (@ + n) % BlockSize]

\* Mutation: a read that never loads the block after a full one.
ReloadNever(w, d, n) == w

\* The block after a full one is loaded when the read began at position 0.
Reload(w, d, n) ==
  IF w.fd[d].rw = 0 /\ n >= BlockSize /\ SizeLeft(0, n) = 0
  THEN LoadBlock(w, d, "next") ELSE w

\* vfs_read.  The offset lies within the file: beyond it, where only a seek
\* relative to the current place gets, memcpy is called with a negative size.
VfsRead(w0, d, size) ==
  LET f == w0.fd[d]
      n == Min({size, f.size - f.offset})
      left == SizeLeft(f.rw, n)
      Rest(w) == LET x == LoadBlock(w, d, "next") IN
                 Then(x, LAMBDA y : [y EXCEPT !.out = @ \o SubSeq(y.fd[d].buf, 1, left)])
      w1 == [w0 EXCEPT !.out = SubSeq(f.buf, f.rw + 1, f.rw + InBuffer(f.rw, n))]
      w2 == Times(w1, WholeBlocks(f.rw, n), LAMBDA w : ReadBlock(w, d, "next"))
      w3 == Then(w2, LAMBDA w : IF left # 0 THEN Rest(w) ELSE w)
      w4 == Then(w3, LAMBDA w : Reload(w, d, n))
  IN  IF n = 0 THEN w0
      ELSE Then(w4, LAMBDA w : [Advance(w, d, n) EXCEPT !.ret = n])

\* The next block of the file for vfs_write, a new one at its end.
NextForWrite(w, d) ==
  LET Fresh(x) == [GetNewDataBlock(x, d) EXCEPT !.new = TRUE]
      Following(x) == IF x.got = 0 THEN Fresh(x) ELSE x
  IN  WithBlock(IF w.new THEN Fresh(w) ELSE Following(GetDataBlock(w, d, "next")),
                IF w.new THEN "fbig" ELSE "nospc", LAMBDA x : x)

Written == <<"write", 0, 0>>    \* a byte that is written

\* Bytes i .. j of a buffer replaced by what is written.
Filled(buf, i, j) == [k \in DOMAIN buf |-> IF k \in i .. j THEN Written ELSE buf[k]]

\* Mutation: a write that does not write the block it only fills in part.
WriteCurrentKept(w, d, n) ==
  LET f == w.fd[d] IN
  [w EXCEPT !.fd[d].buf = Filled(f.buf, f.rw + 1, f.rw + InBuffer(f.rw, n))]

\* The bytes that fit into the block in the buffer.
WriteCurrent(w, d, n) ==
  LET f == w.fd[d]
      buf == Filled(f.buf, f.rw + 1, f.rw + InBuffer(f.rw, n))
  IN  WithBlock(GetDataBlock([w EXCEPT !.fd[d].buf = buf], d, "current"), "io",
                LAMBDA x : WriteBlock(x, d, x.got, buf))

\* vfs_write.  The file ends where the write ends, and the result is 0.
\* update_fnode and update_super_block write nothing.
VfsWrite(w0, d, n) ==
  LET f == w0.fd[d]
      left == SizeLeft(f.rw, n)
      Whole(w) == LET x == NextForWrite(w, d) IN
                  Then(x, LAMBDA y : WriteBlock(y, d, y.got, [i \in 1 .. BlockSize |-> Written]))
      Rest(w) == LET x == NextForWrite(w, d) IN
                 Then(x, LAMBDA y :
                   LET buf == Filled(y.fd[d].buf, 1, left) IN
                   WriteBlock([y EXCEPT !.fd[d].buf = buf], d, y.got, buf))
      w1 == WriteCurrent(w0, d, n)
      w2 == Then(w1, LAMBDA w : Times(w, WholeBlocks(f.rw, n), Whole))
      w3 == Then(w2, LAMBDA w : IF left # 0 THEN Rest(w) ELSE w)
  IN  Then(w3, LAMBDA w : [Advance(w, d, n) EXCEPT !.fd[d].size = f.offset + n])

----------------------------------------------------------------------------
(* vfs_seek                                                                *)

\* n blocks forwards or backwards, the last one into data_buffer.
Walk(w, d, n, whence) ==
  LET Step(x) == WithBlock(GetDataBlock(x, d, whence), "nospc", LAMBDA y : y)
  IN  Then(Times(w, n, Step),
           LAMBDA x : [x EXCEPT !.fd[d].buf = BlockBytes(x, d, x.got)])

Blocks(n) == (n + BlockSize - 1) \div BlockSize     \* baligin

\* Mutation: rw_pos after the last byte of the buffer.
SeekFrontUnreduced(w, d, n) ==
  LET pos == w.fd[d].rw  rest == (n - pos) % BlockSize IN
  IF n > pos
  THEN Then(Walk(w, d, Blocks(n - pos), "prev"),
            LAMBDA x : [x EXCEPT !.fd[d].rw = BlockSize - rest])
  ELSE [w EXCEPT !.fd[d].rw = @ - n]

\* Towards the start of the file.
SeekFront(w, d, n) ==
  LET pos == w.fd[d].rw  rest == (n - pos) % BlockSize IN
  IF n > pos
  THEN Then(Walk(w, d, Blocks(n - pos), "prev"),
            LAMBDA x : [x EXCEPT !.fd[d].rw = (BlockSize - rest) % BlockSize])
  ELSE [w EXCEPT !.fd[d].rw = @ - n]

\* Mutation: no extra block at a block boundary.
SeekBackShort(w, d, n) ==
  LET left == BlockSize - w.fd[d].rw  rest == (n - left) % BlockSize IN
  IF n > left
  THEN Then(Walk(w, d, Blocks(n - left), "next"), LAMBDA x : [x EXCEPT !.fd[d].rw = rest])
  ELSE [w EXCEPT !.fd[d].rw = (@ + n) % BlockSize]

\* Towards the end of the file, with one block more at a block boundary.
SeekBack(w, d, n) ==
  LET left == BlockSize - w.fd[d].rw  rest == (n - left) % BlockSize IN
  IF n >= left
  THEN Then(Walk(w, d, Blocks(n - left) + (IF rest = 0 THEN 1 ELSE 0), "next"),
            LAMBDA x : [x EXCEPT !.fd[d].rw = rest])
  ELSE [w EXCEPT !.fd[d].rw = @ + n]

\* Without VFS_PREV_BLOCK a seek to an earlier block starts at the first one.
\* A failure to load that one is not looked at.
Restart(w, d, n) ==
  LET x == LoadBlock([w EXCEPT !.fd[d].rw = 0], d, "start") IN
  SeekBack([x EXCEPT !.err = "ok"], d, w.fd[d].offset - n)

\* The distance is cut at the end of the file, the new offset is not.
VfsSeek(w, d, offset, whence) ==
  LET f == w.fd[d]
      new == CASE whence = "set" -> offset
               [] whence = "cur" -> f.offset + offset
               [] whence = "end" -> f.size
      front == whence = "set" /\ offset < f.offset
      n == IF front THEN f.offset - new ELSE Min({new, f.size}) - f.offset
      x == CASE front /\ KindOf(w, d) = "fat" /\ n > f.rw -> Restart(w, d, n)
             [] front /\ ~(KindOf(w, d) = "fat" /\ n > f.rw) -> SeekFront(w, d, n)
             [] ~front -> SeekBack(w, d, n)
  IN  IF whence = "set" /\ offset > f.size THEN [w EXCEPT !.err = "inval"]
      ELSE IF n <= 0 THEN w
      ELSE Then(x, LAMBDA y : [y EXCEPT !.fd[d].offset = new, !.ret = new])

\* vfs_mmap and vfs_msync take the offset vfs_seek returns for an error.
SeekFirst(w, d, offset, Op(_)) ==
  LET Rest(x) == IF x.err = "ok" /\ x.ret = 0 THEN Op(x) ELSE x
  IN  Rest(IF w.fd[d].offset # offset THEN VfsSeek(w, d, offset, "set") ELSE w)

----------------------------------------------------------------------------
(* System calls.                                                           *)

IsOpen(w, d) == w.fd[d] # NoFile
Usable(w, d) == IsOpen(w, d) /\ ~w.fd[d].lost

\* Bounds: WriteNr writes, and one descriptor open from the first one on.
MayWrite == writes < WriteNr /\ Cardinality({d \in Fds : IsOpen(v, d)}) = 1
MayOpen == writes = 0 \/ \A d \in Fds : ~IsOpen(v, d)

\* The fnode get_file_fnode fills from the disk: neither the size nor the
\* index block that a write changes is ever written back to its place.
NewFile(f) ==
  [file |-> f, offset |-> 0, size |-> Size[f], rw |-> 0, buf |-> <<>>,
   pos |-> 0, lost |-> FALSE,
   lvl1 |-> IF Kind(f) = "lmfs" THEN LmfsFiles[f] ELSE <<>>,
   first |-> IF Kind(f) = "fat" THEN FatFiles[f] ELSE 0,
   cur |-> IF Kind(f) = "lmfs" THEN LmfsFiles[f][0] ELSE FatFiles[f]]

\* _sys_open: the lowest free descriptor; a file without a first block does
\* not open.
SysOpen(f) ==
  /\ Kind(f) = mounted /\ MayOpen
  /\ \E d \in Fds : ~IsOpen(v, d)
  /\ LET d == Min({e \in Fds : ~IsOpen(v, e)})
         w == LoadBlock([v EXCEPT !.fd[d] = NewFile(f)], d, "start")
     IN  v' = IF w.err = "ok" THEN Done(w) ELSE v
  /\ UNCHANGED <<writes, mounted>>

\* _sys_close
SysClose(d) ==
  /\ IsOpen(v, d)
  /\ v' = [v EXCEPT !.fd[d] = NoFile]
  /\ UNCHANGED <<writes, mounted>>

SysRead(d, n) ==
  /\ Usable(v, d) /\ v.fd[d].offset <= v.fd[d].size
  /\ v' = Done(VfsRead(v, d, n))
  /\ UNCHANGED <<writes, mounted>>

SysWrite(d, n) ==
  /\ Usable(v, d) /\ MayWrite
  /\ v' = Done(VfsWrite(v, d, n))
  /\ writes' = writes + 1
  /\ UNCHANGED mounted

SysSeek(d, offset, whence) ==
  /\ Usable(v, d)
  /\ v' = Done(VfsSeek(v, d, offset, whence))
  /\ UNCHANGED <<writes, mounted>>

FileMmap(d, n, offset) ==
  /\ Usable(v, d) /\ v.fd[d].offset <= v.fd[d].size
  /\ v' = Done(SeekFirst(v, d, offset, LAMBDA w : VfsRead(w, d, n)))
  /\ UNCHANGED <<writes, mounted>>

FileMsync(d, n, offset) ==
  /\ Usable(v, d) /\ MayWrite
  /\ v' = Done(SeekFirst(v, d, offset, LAMBDA w : VfsWrite(w, d, n)))
  /\ writes' = writes + 1
  /\ UNCHANGED mounted

\* The byte i of a block is named by its disk, its place and i.
InitDisk(kind, places) ==
  [b \in places |-> [i \in 1 .. BlockSize |-> <<kind, b, i>>]]

VfsInit ==
  /\ v = [fd |-> [d \in Fds |-> NoFile],
          disk |-> [lmfs |-> InitDisk("lmfs", 0 .. LmfsBlocks - 1),
                    fat |-> InitDisk("fat", 0 .. GetFirstSector(Max(DOMAIN Table)))],
          base |-> 0, pool |-> Pool, ppos |-> PoolTop,
          got |-> 0, err |-> "ok", out |-> <<>>, ret |-> 0,
          new |-> FALSE, astray |-> FALSE]
  /\ writes = 0
  /\ mounted \in {"lmfs", "fat"}

VfsNext ==
  \/ \E f \in Files : SysOpen(f)
  \/ \E d \in Fds : SysClose(d)
  \/ \E d \in Fds, n \in Counts : SysRead(d, n)
  \/ \E d \in Fds, n \in Counts : SysWrite(d, n)
  \/ \E d \in Fds, whence \in {"set", "cur", "end"}, o \in Offsets :
       SysSeek(d, o, whence)
  \/ \E d \in Fds, n \in Counts, o \in Offsets : FileMmap(d, n, o)
  \/ \E d \in Fds, n \in Counts, o \in Offsets : FileMsync(d, n, o)

VfsSpec == VfsInit /\ [][VfsNext]_vfsvars

----------------------------------------------------------------------------
(* Properties.                                                             *)

\* The chain of the file of d: its block k, 0 beyond its end.
ChainAt(clus, k) ==
  LET c[i \in 0 .. k] ==
        IF i = 0 THEN clus ELSE IF c[i - 1] \in DOMAIN Table THEN Table[c[i - 1]] ELSE c[i - 1]
  IN  c[k]
FileBlock(w, d, k) ==
  IF KindOf(w, d) = "lmfs" THEN (IF k < LvlNr THEN w.fd[d].lvl1[k] ELSE 0)
  ELSE LET c == ChainAt(w.fd[d].first, k) IN IF c \in DOMAIN Table THEN c ELSE 0
FileByte(w, d, i) ==
  BlockBytes(w, d, FileBlock(w, d, i \div BlockSize))[(i % BlockSize) + 1]
HasByte(w, d, i) == FileBlock(w, d, i \div BlockSize) # 0

\* offset, rw_pos, the position in the chain and data_buffer agree, in a file
\* that has the blocks of its size.
InSync(w, d) ==
  LET f == w.fd[d]  k == f.offset \div BlockSize IN
  /\ f.offset <= f.size
  /\ f.size > 0 => HasByte(w, d, f.size - 1)
  /\ f.rw = f.offset % BlockSize
  /\ IF KindOf(w, d) = "lmfs" THEN f.pos = k /\ f.cur = f.lvl1[k]
     ELSE f.cur = ChainAt(f.first, k)
  /\ HasByte(w, d, f.offset) => f.buf = BlockBytes(w, d, f.cur)

SyncedFds == {d \in Fds : Usable(v, d) /\ InSync(v, d)}

\* The values of the state: a position inside the index block, a position
\* inside the buffer, a table buffer that starts in the table.
VfsTypeOK ==
  /\ \A d \in Fds : IsOpen(v, d) =>
       /\ v.fd[d].rw \in 0 .. BlockSize - 1 /\ v.fd[d].pos \in 0 .. LvlNr
       /\ v.fd[d].offset \in Nat /\ v.fd[d].size \in Nat
       /\ Len(v.fd[d].buf) = BlockSize
  /\ v.base \in {0} \cup ResSecCnt .. ResSecCnt + FatSectors - 1
  /\ v.ppos \in 0 .. PoolNr - 1

\* Where a read of n bytes ends.
ReadEnd(f, n) == f.offset + Min({n, f.size - f.offset})

\* vfs_read, from a place where the copies agree, returns the bytes of the
\* file from the offset on, however many blocks they lie in and whatever the
\* other descriptor left in the table buffer.  It fails, after it has copied
\* the bytes, in one case: whole blocks are read up to the end of the last
\* block, and the block to load next does not exist (vfs.c:140).  On FAT all
\* this holds as long as no table entry is taken from a later sector of the
\* buffer, where the index is scaled twice (fat.c:386).
ReadsRight ==
  \A d \in SyncedFds, n \in Counts :
    LET f == v.fd[d]  w == VfsRead(v, d, n)  end == ReadEnd(f, n) IN
    ~w.astray =>
      /\ w.out = [i \in 1 .. end - f.offset |-> FileByte(v, d, f.offset + i - 1)]
      /\ w.err # "ok" <=>
           /\ end > f.offset /\ f.rw = 0 /\ end % BlockSize = 0
           /\ ~HasByte(v, d, end)

\* vfs_read loses the agreement in two cases only, and always in these: the
\* read ends with a block and did not start with one, so that the next block
\* is not loaded; or it ends with the last block, where loading the next one
\* fails after the position has moved.  (Table entries as for ReadsRight.)
ReadKeepsSync ==
  \A d \in SyncedFds, n \in Counts :
    LET f == v.fd[d]  w == VfsRead(v, d, n)  end == ReadEnd(f, n) IN
    ~w.astray =>
      (InSync(w, d) <=>
        \/ end = f.offset
        \/ end % BlockSize # 0
        \/ f.rw = 0 /\ HasByte(v, d, end))

\* vfs_seek loses the agreement in two cases only, and always in these: a
\* relative seek beyond the end of the file, and a seek to the end of a file
\* that fills its last block.  On FAT there is a third one, which the premise
\* names: the seek follows a table entry from a later sector of the buffer,
\* where the index is scaled twice (fat.c:386).
SeekKeepsSync ==
  \A d \in SyncedFds, o \in Offsets, whence \in {"set", "cur", "end"} :
    LET f == v.fd[d]
        w == VfsSeek(v, d, o, whence)
        new == CASE whence = "set" -> o [] whence = "cur" -> f.offset + o [] OTHER -> f.size
    IN  ~w.astray =>
          (InSync(w, d) <=>
            \/ whence = "set" /\ o > f.size
            \/ new <= f.offset \/ f.offset = f.size
            \/ new <= f.size /\ HasByte(v, d, new))

\* What a write of n bytes leaves behind, w, when the file has their blocks.
WrittenFrom(w, d, n) ==
  LET f == v.fd[d]
      kind == KindOf(v, d)
      own == {Place(v, d, FileBlock(v, d, i \div BlockSize)) : i \in f.offset .. f.offset + n - 1}
  IN  /\ w.err = "ok"
      /\ \A i \in 0 .. f.offset + n - 1 :
           FileByte(w, d, i) = IF i < f.offset THEN FileByte(v, d, i) ELSE Written
      /\ w.disk = [v.disk EXCEPT ![kind] =
                     [b \in DOMAIN @ |-> IF b \in own THEN w.disk[kind][b] ELSE @[b]]]
      /\ InSync(w, d) <=> (f.offset + n) % BlockSize # 0

\* vfs_write, from a place where the copies agree and within the blocks the
\* file has, writes its bytes from the offset on, changes no byte before it and
\* no other block, and keeps the agreement unless it ends with a block.
\* (Table entries as for ReadsRight.)
WritesRight ==
  \A d \in SyncedFds, n \in Counts :
    LET f == v.fd[d]  w == VfsWrite(v, d, n) IN
    ~w.astray /\ (\A i \in f.offset .. f.offset + n - 1 : HasByte(v, d, i)) =>
      WrittenFrom(w, d, n)

\* "sinc all buffer is readed read a new block to the fnode": when a read has
\* used up the buffer, data_buffer holds the block that follows.
BufferRefilled ==
  \A d \in SyncedFds, n \in Counts :
    LET f == v.fd[d]  w == VfsRead(v, d, n)  end == ReadEnd(f, n) IN
    ~w.astray /\ end > f.offset /\ end % BlockSize = 0 /\ HasByte(v, d, end) =>
      w.fd[d].buf = BlockBytes(w, d, FileBlock(w, d, end \div BlockSize))

============================================================================
