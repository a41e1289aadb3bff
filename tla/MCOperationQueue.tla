-------------------------- MODULE MCOperationQueue --------------------------
(* The job queue on small instances for TLC. *)
EXTENDS OperationQueue, TLC

Symmetry == Permutations(Clients) \cup Permutations(Inputs)
=============================================================================
