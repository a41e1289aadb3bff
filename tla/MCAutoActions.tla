--------------------------- MODULE MCAutoActions ---------------------------
(* Claimed auto actions on small instances for TLC. *)
EXTENDS AutoActions, TLC

Symmetry == Permutations(Nodes)
=============================================================================
