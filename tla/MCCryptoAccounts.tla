--------------------------- MODULE MCCryptoAccounts ---------------------------
(* A deposit account on small instances for TLC. *)
EXTENDS CryptoAccounts, TLC

Symmetry == Permutations(Scanners)
=============================================================================
