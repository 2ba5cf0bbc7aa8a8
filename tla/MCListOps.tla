----------------------------- MODULE MCListOps -----------------------------
(* Two lists that share three nodes.                                      *)
EXTENDS ListOps

CONSTANTS h1, h2, n1, n2, n3

MCHeads == {h1, h2}
MCNodes == {n1, n2, n3}
============================================================================
