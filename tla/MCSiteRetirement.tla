-------------------------- MODULE MCSiteRetirement --------------------------
(* Site retirement on small instances for TLC. *)
EXTENDS SiteRetirement, TLC

CONSTANTS j1, j2, o1, w1, w2

OneEach == j1 :> {o1} @@ j2 :> {o1}

SmallLoads == {[jobs |-> {j1}, up |-> {w1}, faults |-> 3],
              [jobs |-> {j1, j2}, up |-> {w1}, faults |-> 1],
              [jobs |-> {j1}, up |-> {w1, w2}, faults |-> 1]}
=============================================================================
