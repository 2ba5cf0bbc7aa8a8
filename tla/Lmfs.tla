-------------------------------- MODULE Lmfs --------------------------------
(***************************************************************************)
(* How fs/lmfs.c walks the blocks of an open file and takes new blocks.    *)
(* The functions map a record to a record.  v.fd[d] is the fnode of the    *)
(* descriptor d: lvl1 is the index block in its buffer, pos is pos_in_lvl1 *)
(* and cur is current_block.  v.got is the block the call returns, 0 for   *)
(* none.  v.pool and v.ppos are db_pool and db_pool_pos of the superblock. *)
(*                                                                         *)
(* An index block holds 1024 blocks of 4096 bytes, so that a file of less  *)
(* than 4 MB has one; files that need a second one are not modelled.  A    *)
(* small file gets past its index block all the same, since every failing  *)
(* read moves pos: fd[d].lost records that the index block of the          *)
(* descriptor, or the word behind it, is no longer what it should be.      *)
(***************************************************************************)
EXTENDS Integers, Sequences

CONSTANTS
  LvlNr,       \* 1024, the entries of an index block
  PoolNr,      \* 1024, the entries of a pool block
  NoBlock      \* -ENOSPC as a block number: beyond the end of every disk

Lost(v, d) == [v EXCEPT !.got = 0, !.fd[d].lost = TRUE]

\* VFS_NEXT_BLOCK.  The position moves past the last block too.  At the last
\* entry the code looks for the next index block in the current one: it loads
\* the second data block of the file in its place.
LmfsNext(v, d) ==
  LET f == v.fd[d] IN
  IF f.pos = LvlNr - 1 /\ f.lvl1[1] = 0 THEN [v EXCEPT !.got = 0]
  ELSE IF f.pos >= LvlNr - 1 THEN Lost(v, d)
  ELSE [v EXCEPT !.fd[d].pos = @ + 1, !.fd[d].cur = f.lvl1[f.pos + 1],
                 !.got = f.lvl1[f.pos + 1]]

\* VFS_PREV_BLOCK
LmfsPrev(v, d) ==
  LET f == v.fd[d] IN
  IF f.pos = 0 THEN [v EXCEPT !.got = 0]
  ELSE [v EXCEPT !.fd[d].pos = @ - 1, !.fd[d].cur = f.lvl1[f.pos - 1],
                 !.got = f.lvl1[f.pos - 1]]

\* lmfs_get_data_block.  For an open file the start block is asked for only
\* while the walk is there: vfs_seek goes back with PREV in this file system.
\* (A lookup of a name asks for it elsewhere too: Start of module Lookup.)
LmfsGetDataBlock(v, d, whence) ==
  CASE whence = "next" -> LmfsNext(v, d)
    [] whence = "prev" -> LmfsPrev(v, d)
    [] whence \in {"start", "current"} -> [v EXCEPT !.got = v.fd[d].cur]

\* lmfs_pop_block.  Nothing counts data_free_blocks down; the pool of the
\* only pool block starts again at its top, which holds no block.
LmfsPopBlock(v) ==
  [v EXCEPT !.got = v.pool[v.ppos],
            !.ppos = IF v.ppos = 0 THEN PoolNr - 1 ELSE v.ppos - 1]

\* lmfs_get_new_block.  The index block is written to block pos_in_lvl0,
\* which is 0, and current_block is left alone.  A full index block is not
\* replaced: the block is stored behind it.
LmfsGetNewBlock(v, d) ==
  LET w == LmfsPopBlock(v) IN
  IF w.got = 0 THEN [w EXCEPT !.got = NoBlock]
  ELSE IF w.fd[d].pos >= LvlNr THEN Lost(w, d)
  ELSE [w EXCEPT !.fd[d].lvl1[w.fd[d].pos] = w.got,
                 !.fd[d].pos = @ + 1,
                 !.disk["lmfs"][0] = [i \in DOMAIN @ |-> <<"index", 0, i>>]]

============================================================================
