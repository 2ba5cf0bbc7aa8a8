-------------------------------- MODULE Fat --------------------------------
(***************************************************************************)
(* How fs/fat.c follows the cluster chain of an open file on a FAT16 disk. *)
(* The functions map a record to a record.  v.fd[d] is the fnode of the    *)
(* descriptor d: first is first_clus and cur is current_clus.  v.got is    *)
(* the cluster a call returns, 0 for none.  v.base is buf_sector_base: the *)
(* sectors of the table from v.base on are in the buffer that all open     *)
(* files of the disk share.  __fat_get_data_block holds buf_mutex          *)
(* throughout, so a call is one step.  v.astray records that an entry was  *)
(* taken from the buffer at a wrong place.                                 *)
(*                                                                         *)
(* No code writes the table, so that the buffer is the table read at base. *)
(* The disk is assumed not to fail: after a failed read of the table       *)
(* __fat_get_data_block returns with buf_mutex locked.                     *)
(***************************************************************************)
EXTENDS Integers, Sequences

CONSTANTS
  Table,         \* cluster -> the next cluster of its chain, or an end mark
  BytesPerSec,
  SecPerClus,
  ResSecCnt,     \* the sectors before the table
  FatSectors,    \* the sectors of the table
  RootSectors,   \* the sectors of the root directory
  RootTop        \* 0xfff7, the pseudo cluster of the root directory

FatOffset == 2                    \* the bytes of an entry
EndMark == RootTop + 1            \* 0xfff8, the first of the end marks
ClusSize == BytesPerSec * SecPerClus
RootDirBlk == (RootSectors + (SecPerClus - 1)) \div SecPerClus
RootDirStart == ResSecCnt + FatSectors
FirstDataSector == RootDirStart + RootSectors

ASSUME FatAssumption ==
  /\ {BytesPerSec, SecPerClus, ResSecCnt, FatSectors, RootSectors}
       \subseteq Nat \ {0}
  /\ \A c \in DOMAIN Table : c >= 2 /\ c < RootTop - RootDirBlk

\* get_first_sector
GetFirstSector(clus) ==
  IF clus > RootTop - RootDirBlk
  THEN RootDirStart + (clus - RootTop) * SecPerClus
  ELSE (clus - 2) * SecPerClus + FirstDataSector

\* clus_in_fat
ClusInFat(clus) ==
  [i |-> ResSecCnt + ((FatOffset * clus) \div BytesPerSec),
   j |-> (FatOffset * clus) % BytesPerSec]

\* Mutation: a buffer of two sectors that ignores which one the entry is in.
SectorInFatBufferNear(base, i, j) ==
  IF base # 0 /\ i >= base /\ i <= base + SecPerClus THEN j ELSE 0

\* sector_in_fat_buffer: where the entry is in the buffer, 0 for not at all.
SectorInFatBuffer(base, i, j) ==
  IF base # 0 /\ i >= base /\ i < base + SecPerClus
  THEN ((i - base) * BytesPerSec) \div FatOffset + j
  ELSE 0

\* The sectors of the buffer after its first one.  For an entry in one of them
\* the index above is too low: the bytes of the sectors before it, which
\* buf[k] needs, have been divided by the size of an entry.
BehindFirst(base, i) == base # 0 /\ i \in base + 1 .. base + SecPerClus - 1

\* The entry at byte k of the buffer when the buffer starts at sector base.
BufferAt(base, k) ==
  Table[((base - ResSecCnt) * BytesPerSec + k) \div FatOffset]

\* __fat_get_data_block
FatFollow(v, d) ==
  LET at == ClusInFat(v.fd[d].cur)
      k == SectorInFatBuffer(v.base, at.i, at.j)
  IN  IF k = 0
      THEN [v EXCEPT !.base = at.i, !.fd[d].cur = BufferAt(at.i, at.j)]
      ELSE [v EXCEPT !.fd[d].cur = BufferAt(v.base, k),
                     !.astray = @ \/ BehindFirst(v.base, at.i)]

\* fat12_16_get_data_block: the root directory is walked downwards.  An end
\* mark is above RootTop and is walked downwards as well.
FatNext(v, d) ==
  LET clus == v.fd[d].cur IN
  CASE clus = 0 -> v
    [] clus > RootTop - RootDirBlk ->
         [v EXCEPT !.fd[d].cur =
            IF clus - 1 = RootTop - RootDirBlk THEN 0 ELSE clus - 1]
    [] OTHER -> FatFollow(v, d)

\* VFS_START_BLOCK
FatStart(v, d) == [v EXCEPT !.fd[d].cur = v.fd[d].first]

\* fat_get_data_block
FatGetDataBlock(v, d, whence) ==
  LET Result(w) == [w EXCEPT !.got = IF whence = "prev" \/ w.fd[d].cur >= EndMark
                                     THEN 0 ELSE w.fd[d].cur]
  IN  Result(CASE whence = "next" -> FatNext(v, d)
               [] whence = "start" -> FatStart(v, d)
               [] whence \in {"current", "prev"} -> v)

============================================================================
