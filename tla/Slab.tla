-------------------------------- MODULE Slab --------------------------------
(***************************************************************************)
(* kmalloc and kfree (mm/slab.c) on top of the page allocator.  Memory is  *)
(* measured in units of half the smallest slab (8 bytes), so that a header *)
(* is one unit; an address is <<section, unit>>.  Each function that takes *)
(* slab_mutex is one action, except that alloc_new_slab_cache keeps the    *)
(* mutex while it requests pages and kfree while it frees them.  kfree     *)
(* tells pages from slabs by the magic word in front of the address: that  *)
(* the last word of a foreign page is never the magic word is assumed.     *)
(***************************************************************************)
EXTENDS PageAlloc

CONSTANTS
  PageUnits,        \* the units of a page
  PoolNr,           \* the number of pools, the last one for the large sizes
  SlabCachePages,   \* the pages slab_init takes, the last ones of Boot[0]
  KmallocSizes      \* the sizes the callers ask for, below a page

HeaderSize == 1
MinSize == 2

ASSUME SlabAssumption ==
  /\ 0 \in Sections /\ SlabCachePages \in 1 .. Boot[0]
  /\ PoolNr \in Nat \ {0}
  /\ PageUnits \in Nat /\ PageUnits % MinSize = 0
  /\ KmallocSizes \subseteq 1 .. PageUnits - MinSize

VARIABLES
  slab_mutex,   \* its holder
  slab_free,    \* the address of the unused tail of the newest cache, or None
  free_size,    \* the units of that tail
  pool,         \* id -> the stack of its free slabs, each [at, size]
  caches,       \* the page blocks that kmalloc carved slabs from
  spc, want,    \* per task: where it is in kmalloc or kfree, the size it wants
  objs          \* the slabs the callers own, each [at, size, asked]

svars == <<slab_mutex, slab_free, free_size, pool, caches, spc, want, objs>>
memvars == <<pvars, svars>>

SGoto(t, where) == spc' = [spc EXCEPT ![t] = where]

----------------------------------------------------------------------------
\* get_slab_alloc_size, slab_pool_id
AllocSize(size) == ((size + MinSize - 1) \div MinSize) * MinSize
PoolId(size) ==
  LET id == size \div MinSize - 1 IN IF id >= PoolNr THEN PoolNr - 1 ELSE id

\* The end of a kmalloc that got the slab at a, or nothing.
Return(t, slab) ==
  /\ objs' = objs \cup {[at |-> slab.at, size |-> slab.size, asked |-> want[t]]}
  /\ want' = [want EXCEPT ![t] = 0]
  /\ SGoto(t, "idle")
Pop(id) == pool' = [pool EXCEPT ![id] = Tail(@)]
Push(id, slab) == pool' = [pool EXCEPT ![id] = <<slab>> \o @]

Kmalloc(t, size) ==
  /\ spc[t] = "idle" /\ pc[t] = "idle"
  /\ want' = [want EXCEPT ![t] = AllocSize(size)]
  /\ SGoto(t, "pool")
  /\ UNCHANGED <<pvars, slab_mutex, slab_free, free_size, pool, caches, objs>>

\* Mutation: the head handed out without being taken off the pool.
GetSlabFromPoolKept(t) ==
  LET id == PoolId(want[t])
  IN  /\ spc[t] = "pool" /\ slab_mutex = NoTask
      /\ IF pool[id] = <<>>
         THEN SGoto(t, "tail") /\ UNCHANGED <<objs, want>>
         ELSE Return(t, Head(pool[id]))
      /\ UNCHANGED <<pvars, slab_mutex, slab_free, free_size, pool, caches>>

\* get_slab_from_pool
GetSlabFromPool(t) ==
  LET id == PoolId(want[t])
  IN  /\ spc[t] = "pool" /\ slab_mutex = NoTask
      /\ IF pool[id] = <<>>
         THEN SGoto(t, "tail") /\ UNCHANGED <<pool, objs, want>>
         ELSE Return(t, Head(pool[id])) /\ Pop(id)
      /\ UNCHANGED <<pvars, slab_mutex, slab_free, free_size, caches>>

\* What carving size units leaves of the tail: less than the smallest slab
\* goes to the slab just carved.
Rest(size) == free_size - size - HeaderSize
Swallowed(size) == IF Rest(size) < MinSize + HeaderSize THEN Rest(size) ELSE 0
TailAfter(size) ==
  IF Rest(size) < MinSize + HeaderSize
  THEN slab_free' = None /\ free_size' = 0
  ELSE /\ slab_free' = <<slab_free[1], slab_free[2] + size + HeaderSize>>
       /\ free_size' = Rest(size)

\* get_slab_from_slab_free, first in __kmalloc ("tail") and then at the end
\* of __get_new_slab ("retry").
GetSlabFromFree(t) ==
  LET size == want[t]
  IN  /\ spc[t] \in {"tail", "retry"} /\ slab_mutex = NoTask
      /\ IF free_size < size + HeaderSize
         THEN /\ SGoto(t, IF spc[t] = "tail" THEN "new" ELSE "big")
              /\ UNCHANGED <<slab_free, free_size, objs, want>>
         ELSE /\ Return(t, [at |-> slab_free, size |-> size + Swallowed(size)])
              /\ TailAfter(size)
      /\ UNCHANGED <<pvars, slab_mutex, pool, caches>>

\* Mutation: the tail put into its pool and kept as the tail.
NewSlabTailKept(t) ==
  /\ spc[t] = "new" /\ slab_mutex = NoTask
  /\ IF free_size >= MinSize + HeaderSize
     THEN Push(PoolId(free_size - HeaderSize),
               [at |-> slab_free, size |-> free_size - HeaderSize])
     ELSE UNCHANGED pool
  /\ SGoto(t, "cache")
  /\ UNCHANGED <<pvars, slab_mutex, slab_free, free_size, caches, want, objs>>

\* __get_new_slab: the tail becomes a free slab of its own.
NewSlab(t) ==
  /\ spc[t] = "new" /\ slab_mutex = NoTask
  /\ IF free_size >= MinSize + HeaderSize
     THEN /\ Push(PoolId(free_size - HeaderSize),
                  [at |-> slab_free, size |-> free_size - HeaderSize])
          /\ slab_free' = None /\ free_size' = 0
     ELSE UNCHANGED <<pool, slab_free, free_size>>
  /\ SGoto(t, "cache")
  /\ UNCHANGED <<pvars, slab_mutex, caches, want, objs>>

\* alloc_new_slab_cache: one page, with the mutex held meanwhile.
NewCacheRequest(t) ==
  /\ spc[t] = "cache" /\ slab_mutex = NoTask
  /\ slab_mutex' = t
  /\ RequestPages(t, 1, KERNEL)
  /\ SGoto(t, "pages")
  /\ UNCHANGED <<slab_free, free_size, pool, caches, want, objs>>

\* The new cache replaces the tail, whatever the tail is by now.  Without a
\* page the function returns and the mutex stays locked.
NewCacheReturn(t) ==
  /\ spc[t] = "pages" /\ pc[t] = "done"
  /\ IF got[t] = None
     THEN /\ SGoto(t, "big")
          /\ UNCHANGED <<slab_mutex, slab_free, free_size, caches>>
     ELSE /\ slab_free' = <<got[t][1], got[t][2] * PageUnits>>
          /\ free_size' = PageUnits
          /\ caches' = caches \cup {got[t]}
          /\ slab_mutex' = NoTask
          /\ SGoto(t, "retry")
  /\ got' = [got EXCEPT ![t] = None]
  /\ Goto(t, "idle")
  /\ UNCHANGED <<data, zone_mutex, req, held, fault, pool, want, objs>>

\* get_big_slab: the first pool from the right one on that has a slab.
GetBigSlab(t) ==
  LET ids == {id \in PoolId(want[t]) .. PoolNr - 1 : pool[id] # <<>>}
  IN  /\ spc[t] = "big" /\ slab_mutex = NoTask
      /\ IF ids = {}
         THEN /\ SGoto(t, "idle")
              /\ want' = [want EXCEPT ![t] = 0]
              /\ UNCHANGED <<pool, objs>>
         ELSE Return(t, Head(pool[Min(ids)])) /\ Pop(Min(ids))
      /\ UNCHANGED <<pvars, slab_mutex, slab_free, free_size, caches>>

----------------------------------------------------------------------------
\* Mutation: a freed slab filed one pool too high.
KfreeHigh(t, o) ==
  /\ spc[t] = "idle" /\ pc[t] = "idle" /\ slab_mutex = NoTask
  /\ objs' = objs \ {o}
  /\ Push(Min({PoolId(o.size) + 1, PoolNr - 1}), [at |-> o.at, size |-> o.size])
  /\ UNCHANGED <<pvars, slab_mutex, slab_free, free_size, caches, spc, want>>

\* kfree of a slab, and of pages: these go back under slab_mutex.
Kfree(t, o) ==
  /\ spc[t] = "idle" /\ pc[t] = "idle" /\ slab_mutex = NoTask
  /\ objs' = objs \ {o}
  /\ Push(PoolId(o.size), [at |-> o.at, size |-> o.size])
  /\ UNCHANGED <<pvars, slab_mutex, slab_free, free_size, caches, spc, want>>

KfreePages(t, h) ==
  /\ spc[t] = "idle" /\ slab_mutex = NoTask
  /\ slab_mutex' = t
  /\ FreePages(t, h)
  /\ SGoto(t, "kfree")
  /\ UNCHANGED <<slab_free, free_size, pool, caches, want, objs>>

KfreePagesEnd(t) ==
  /\ spc[t] = "kfree" /\ pc[t] = "idle"
  /\ slab_mutex' = NoTask
  /\ SGoto(t, "idle")
  /\ UNCHANGED <<pvars, slab_free, free_size, pool, caches, want, objs>>

\* kmalloc of a page or more, and the direct users of the page allocator.
PageCall(t) ==
  /\ spc[t] = "idle"
  /\ \/ \E n \in Counts, f \in Flags : RequestPages(t, n, f)
     \/ \E a \in Aligned : GetPagesAlign(t, a[1], a[2])
     \/ \E h \in held : FreePages(t, h)
     \/ Take(t)
  /\ UNCHANGED svars

----------------------------------------------------------------------------
\* slab_init
SlabInit ==
  /\ PageInit
  /\ slab_mutex = NoTask
  /\ slab_free = <<0, (Boot[0] - SlabCachePages) * PageUnits>>
  /\ free_size = SlabCachePages * PageUnits
  /\ pool = [id \in 0 .. PoolNr - 1 |-> <<>>]
  /\ caches = {}
  /\ spc = [t \in Tasks |-> "idle"]
  /\ want = [t \in Tasks |-> 0]
  /\ objs = {}

SlabNext ==
  /\ fault = "none"
  /\ \E t \in Tasks :
       \/ \E size \in KmallocSizes : Kmalloc(t, size)
       \/ GetSlabFromPool(t)
       \/ GetSlabFromFree(t)
       \/ NewSlab(t)
       \/ NewCacheRequest(t)
       \/ NewCacheReturn(t)
       \/ GetBigSlab(t)
       \/ \E o \in objs : Kfree(t, o)
       \/ \E h \in held : KfreePages(t, h)
       \/ KfreePagesEnd(t)
       \/ PageStep(t) /\ UNCHANGED svars
       \/ PageCall(t)

SlabSpec == SlabInit /\ [][SlabNext]_memvars

----------------------------------------------------------------------------
(* Properties                                                              *)

PoolSlabs == UNION {Range(pool[id]) : id \in DOMAIN pool}
TailSlab == IF slab_free = None THEN {}
            ELSE {[at |-> slab_free, size |-> free_size - HeaderSize]}
CacheBlocks ==
  {[at |-> <<h[1], h[2] * PageUnits>>, units |-> PageUnits] : h \in caches}
  \cup {[at |-> <<0, (Boot[0] - SlabCachePages) * PageUnits>>,
         units |-> SlabCachePages * PageUnits]}
End(slab) == slab.at[2] + slab.size + HeaderSize
Apart(a, b) == a.at[1] # b.at[1] \/ End(a) <= b.at[2] \/ End(b) <= a.at[2]
Inside(a, c) ==
  a.at[1] = c.at[1] /\ c.at[2] <= a.at[2] /\ End(a) <= c.at[2] + c.units

\* Two slabs never overlap, in use or free, nor does one overlap the tail that
\* kmalloc carves from, and each lies in a cache: through carving, the slab
\* made of an old tail, reuse, and two tasks refilling at the same time.
SlabsDisjoint ==
  LET slabs == PoolSlabs \cup {[at |-> o.at, size |-> o.size] : o \in objs}
  IN  /\ \A a, b \in slabs : a # b => Apart(a, b)
      /\ \A a \in slabs, b \in TailSlab : Apart(a, b)
      /\ \A a \in slabs \cup TailSlab : \E c \in CacheBlocks : Inside(a, c)

\* A free slab is in one place, and not in use at the same time.
PoolsExclusive ==
  /\ \A i, j \in DOMAIN pool : \A m \in DOMAIN pool[i], n \in DOMAIN pool[j] :
       <<i, m>> # <<j, n>> => pool[i][m].at # pool[j][n].at
  /\ \A a \in PoolSlabs, o \in objs : a.at # o.at
  /\ \A o, q \in objs : o # q => o.at # q.at

\* The pages of the caches are given to nobody else.
CachesOwned == fault = "none" => PagesDisjoint(held \cup Returned \cup caches)

\* kmalloc returns at least the size asked for, from whichever of the four
\* places: "slab pool store the slab memory which has the same size" (slab.c).
\* The exception is the last pool, which holds every larger size.  Its head
\* is handed out whatever its size (slab.c:175), so that a size of that pool
\* is only sure to get a slab of that pool.
SlabFits ==
  \A o \in objs :
    /\ PoolId(o.asked) < PoolNr - 1 => o.size >= o.asked
    /\ PoolId(o.size) >= PoolId(o.asked)
============================================================================
