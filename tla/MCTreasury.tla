----------------------------- MODULE MCTreasury -----------------------------
(* The collection worker on small instances for TLC. *)
EXTENDS Treasury, TLC

\* A token invoice and a native one.
MixedAmounts == 1 :> 3 @@ 2 :> 15
MixedRefill  == 1 :> 2 @@ 2 :> 8

\* Two invoices of the same token.
TokenAmounts == 1 :> 2 @@ 2 :> 2
TokenRefill  == 1 :> 1 @@ 2 :> 1
=============================================================================
