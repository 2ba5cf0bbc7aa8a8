------------------------------- MODULE MCSlab -------------------------------
EXTENDS Slab, TLC

CONSTANTS t1, t2

MCTasks == {t1, t2}
MCSections == {0}
MCZoneOf == 0 :> KERNEL
MCNrPage == 0 :> 3
MCBoot == 0 :> 1
MCAligned == {<<1, 1>>}
\* The slabs the callers own at a time.
MCBound == Cardinality(objs) <= 2
MCSymmetry == Permutations(MCTasks)
============================================================================
