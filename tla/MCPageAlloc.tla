---------------------------- MODULE MCPageAlloc ----------------------------
EXTENDS PageAlloc, TLC

CONSTANTS t1, t2

MCTasks == {t1, t2}
MCSections == {0, 1, 2}
MCZoneOf == 0 :> KERNEL @@ 1 :> KERNEL @@ 2 :> USER
MCNrPage == 0 :> 4 @@ 1 :> 2 @@ 2 :> 1
MCBoot == 0 :> 2 @@ 1 :> 0 @@ 2 :> 0
MCAligned == {<<2, 2>>}
\* A descriptor is read only while its block is in use: what older blocks left
\* in the others does not tell states apart.
MCView ==
  <<bitmap, bm_current, sec_free, zone_free, zone_mutex, pc, req, got, held, fault,
    [h \in {g \in held \cup Returned : g[2] >= 0} |-> page[h[1]][h[2]]]>>
MCSymmetry == Permutations(MCTasks)
============================================================================
