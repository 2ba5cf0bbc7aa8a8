----------------------------- MODULE MCUserMem -----------------------------
EXTENDS UserMem, TLC

CONSTANTS t1, t2, idle

MCTasks == {t1, t2}
MCSlots == {"text", "map", "map2", "stack"}
MCSlotAfter == "text" :> "map" @@ "map" :> "map2" @@ "map2" :> "stack" @@ "stack" :> "text"
MCMmapAt == {<<"map", 2>>, <<"text", 2>>}
\* The pages that are lost in a run.
MCBound == Cardinality(leaked) <= 3
MCSymmetry == Permutations(MCTasks)
============================================================================
