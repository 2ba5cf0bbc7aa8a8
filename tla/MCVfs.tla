-------------------------------- MODULE MCVfs --------------------------------
EXTENDS Vfs

\* Three blocks on the lmfs disk, the last one partly used.
MCLmfsFiles == [lm |-> [i \in 0 .. LvlNr - 1 |-> IF i < 3 THEN i + 1 ELSE 0]]
\* Two files whose chains cross in the table; one fills its last cluster.
MCTable == (2 :> 7) @@ (7 :> 6) @@ (6 :> RootTop + 1) @@
           (3 :> 4) @@ (4 :> RootTop + 2) @@ (5 :> 0)
MCFatFiles == [fa |-> 2, fb |-> 3]
MCSize == [lm |-> 20, fa |-> 20, fb |-> 16]
MCPool == [i \in 0 .. PoolNr - 1 |-> IF i = 0 THEN 4 ELSE 0]
============================================================================
