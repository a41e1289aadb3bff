---------------------------- MODULE StorageFence ----------------------------
(***************************************************************************)
(* The storage fence (app/storageLifecycle.ts): writers of content share   *)
(* it, a cleanup that unpins and collects blocks has it alone.             *)
(*                                                                         *)
(* A fence is a PostgreSQL session lock.  A call that already runs under a *)
(* fence of its process re-enters it: the context counts its users and the *)
(* last one to leave unlocks, so that a callee nobody awaits may outlive   *)
(* the call that started it.  A session may break: the server then frees   *)
(* its lock at once, while the process learns of it by an error event or   *)
(* by the next assertHeld, and what it runs goes on meanwhile.             *)
(***************************************************************************)
EXTENDS Integers, FiniteSets

CONSTANTS Clients,     \* contexts: one per outermost call of withStorageFence
          MaxUsers     \* bound on the calls nested in one context

ASSUME FenceAssumption == MaxUsers \in Nat \ {0}

Modes == {"shared", "exclusive"}

VARIABLES
    lock,      \* the advisory lock a client's session has at the server, or "none"
    mode,      \* context.mode
    users,     \* context.users; 0: no active context
    alive,     \* whether the session of an active context still exists
    broken,    \* whether its process has noticed that it does not
    callees    \* how many callees run in the context, by the mode they asked for

fenceVars == <<lock, mode, users, alive, broken, callees>>

Nobody == [m \in Modes |-> 0]

FenceTypeOK ==
    /\ lock \in [Clients -> Modes \cup {"none"}]
    /\ mode \in [Clients -> Modes]
    /\ users \in [Clients -> 0..MaxUsers]
    /\ alive \in [Clients -> BOOLEAN]
    /\ broken \in [Clients -> BOOLEAN]
    /\ callees \in [Clients -> [Modes -> 0..MaxUsers]]

FenceInit ==
    /\ lock = [c \in Clients |-> "none"]
    /\ mode = [c \in Clients |-> "shared"]
    /\ users = [c \in Clients |-> 0]
    /\ alive = [c \in Clients |-> TRUE]
    /\ broken = [c \in Clients |-> FALSE]
    /\ callees = [c \in Clients |-> Nobody]

-----------------------------------------------------------------------------

\* What the server grants: any number of shared locks or one exclusive.
Grantable(c, m) ==
    \A d \in Clients \ {c} : lock[d] = "none" \/ (m = "shared" /\ lock[d] = "shared")

\* An outermost call gets its lock, at once or after waiting.  With wait = false
\* it is refused instead (storage_maintenance_busy), which changes nothing.
Acquire(c, m) ==
    /\ users[c] = 0
    /\ Grantable(c, m)
    /\ lock' = [lock EXCEPT ![c] = m]
    /\ mode' = [mode EXCEPT ![c] = m]
    /\ users' = [users EXCEPT ![c] = 1]
    /\ alive' = [alive EXCEPT ![c] = TRUE]
    /\ broken' = [broken EXCEPT ![c] = FALSE]
    /\ callees' = [callees EXCEPT ![c] = [Nobody EXCEPT ![m] = 1]]

\* Mutant: a nested call may ask for more than its context has.
MayEnterAny(c, m) == TRUE

\* A nested call may not upgrade a shared context (it throws).
MayEnter(c, m) == m = "exclusive" => mode[c] = "exclusive"

\* A call inside an active context runs on its lock, whatever became of it.
Enter(c, m) ==
    /\ users[c] \in 1..(MaxUsers - 1)
    /\ MayEnter(c, m)
    /\ users' = [users EXCEPT ![c] = @ + 1]
    /\ callees' = [callees EXCEPT ![c][m] = @ + 1]
    /\ UNCHANGED <<lock, mode, alive, broken>>

\* Mutant: the outermost call unlocks without counting.
UnlocksAlways(c) == TRUE

Unlocks(c) == users[c] = 1

\* A callee settles and release() counts it off; the last one unlocks, in the
\* order in which they end and not in which they began.
Leave(c, m) ==
    /\ callees[c][m] > 0
    /\ callees' = [callees EXCEPT ![c][m] = @ - 1]
    /\ users' = [users EXCEPT ![c] = @ - 1]
    /\ lock' = IF Unlocks(c) THEN [lock EXCEPT ![c] = "none"] ELSE lock
    /\ UNCHANGED <<mode, alive, broken>>

\* The session breaks and the server frees its lock.
Break(c) ==
    /\ users[c] > 0 /\ alive[c]
    /\ alive' = [alive EXCEPT ![c] = FALSE]
    /\ lock' = [lock EXCEPT ![c] = "none"]
    /\ UNCHANGED <<mode, users, broken, callees>>

\* The process hears of it: RPCs that carry the context's signal are aborted.
Notice(c) ==
    /\ users[c] > 0 /\ ~alive[c] /\ ~broken[c]
    /\ broken' = [broken EXCEPT ![c] = TRUE]
    /\ UNCHANGED <<lock, mode, users, alive, callees>>

\* assertHeld passes: the context is active and its session answers.
Held(c) == users[c] > 0 /\ ~broken[c] /\ alive[c]

\* The process dies, and its session with it.
Die(c) ==
    /\ lock' = [lock EXCEPT ![c] = "none"]
    /\ users' = [users EXCEPT ![c] = 0]
    /\ alive' = [alive EXCEPT ![c] = TRUE]
    /\ broken' = [broken EXCEPT ![c] = FALSE]
    /\ callees' = [callees EXCEPT ![c] = Nobody]
    /\ UNCHANGED mode

FenceStep(c) ==
    \/ \E m \in Modes : Acquire(c, m) \/ Enter(c, m) \/ Leave(c, m)
    \/ Break(c) \/ Notice(c) \/ Die(c)

FenceNext == \E c \in Clients : FenceStep(c)

FenceSpec == FenceInit /\ [][FenceNext]_fenceVars

-----------------------------------------------------------------------------
(* Properties. *)

Runs(c, m) == alive[c] /\ callees[c][m] > 0

\* What runs under an exclusive fence runs alone: no callee of another client,
\* nested, not awaited by its caller or otherwise, runs beside it while both
\* sessions live.  (storageLifecycle.ts:31-122)
FenceExcludes ==
    \A c, d \in Clients : c # d /\ Runs(c, "exclusive") => \A m \in Modes : ~Runs(d, m)

\* The inductive invariant: users are the callees that run, an active context on
\* a live session has the lock of its mode, and the server's locks are compatible.
FenceInv ==
    /\ FenceTypeOK
    /\ \A c \in Clients :
         /\ users[c] = callees[c]["shared"] + callees[c]["exclusive"]
         /\ lock[c] # "none" => Grantable(c, lock[c])
         /\ users[c] > 0 /\ alive[c] => lock[c] = mode[c]
         /\ callees[c]["exclusive"] > 0 => mode[c] = "exclusive"
=============================================================================
