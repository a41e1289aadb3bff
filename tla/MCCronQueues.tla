---------------------------- MODULE MCCronQueues ----------------------------
(* Chains of auto actions on small instances for TLC. *)
EXTENDS CronQueues, TLC

CONSTANTS r, n, k, d, A, B, C

\* The documented shape, each action in a module of its own: r then n then k,
\* which is scheduled too; d is scheduled beside r.
Serial == [moduleOf  |-> r :> A @@ d :> A @@ n :> B @@ k :> C,
           chained   |-> r :> <<n>> @@ d :> <<>> @@ n :> <<k>> @@ k :> <<>>,
           scheduled |-> {r, k, d}]

\* The root r queues n and k, both of a module that also runs the scheduled d.
Shared == [moduleOf  |-> r :> A @@ n :> B @@ k :> B @@ d :> B,
           chained   |-> r :> <<n, k>> @@ n :> <<>> @@ k :> <<>> @@ d :> <<>>,
           scheduled |-> {r, d}]

BothSetups == {Serial, Shared}
=============================================================================
