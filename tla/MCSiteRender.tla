---------------------------- MODULE MCSiteRender ----------------------------
(* Instances of SiteRender for TLC. *)
EXTENDS SiteRender, TLC

Symmetry == Permutations(Nodes)
=============================================================================
