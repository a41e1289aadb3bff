---------------------------- MODULE DepositLedger ----------------------------
(***************************************************************************)
(* What a deposit account promises its reader and its author: every quote  *)
(* is paid at most once, out of money that finally arrived, and no unit of *)
(* it is spent twice.                                                      *)
(***************************************************************************)
EXTENDS Integers

CONSTANTS Quotes, Initial       \* money spent before the ledger was opened

VARIABLES funds, spent, paid    \* paid[q]: what quote q took, 0 before

vars == <<funds, spent, paid>>

Init == funds = Initial /\ spent = Initial /\ paid = [q \in Quotes |-> 0]

Arrive ==
    /\ funds' \in Nat /\ funds' > funds
    /\ UNCHANGED <<spent, paid>>

Pay(q) ==
    /\ paid[q] = 0
    /\ spent' \in Nat /\ spent < spent' /\ spent' <= funds
    /\ paid' = [paid EXCEPT ![q] = spent' - spent]
    /\ UNCHANGED funds

Spec == Init /\ [][Arrive \/ \E q \in Quotes : Pay(q)]_vars
=============================================================================
