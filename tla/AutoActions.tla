---------------------------- MODULE AutoActions ----------------------------
(***************************************************************************)
(* The scheduled actions of modules/autoActions and the processes that     *)
(* execute them.                                                           *)
(*                                                                         *)
(* A row is due when it is active and its time has come.  A process claims *)
(* the due rows for a limited time (SKIP LOCKED), executes each, and writes*)
(* the outcome to the row: that write reschedules or deactivates it and    *)
(* releases the claim, whoever holds it by then.  A producer keeps at most *)
(* one active action per identity through a dedupe row.                    *)
(*                                                                         *)
(* The queues of a process are CronQueues; here its claimed actions may    *)
(* start in any order.  Chained actions, which run without a claim, are    *)
(* there too.                                                              *)
(***************************************************************************)
EXTENDS Integers, FiniteSets

CONSTANTS Nodes,          \* server processes over one database
          Actions,        \* action ids
          Recurring,      \* the actions with an executePeriod
          Unique,         \* the one-shot actions of one producer identity
          Gone,           \* no dedupe row
          Total,          \* totalExecuteAttempts
          MaxLapses, MaxCrashes, MaxFaults   \* bounds

ASSUME ActionsAssumption ==
    /\ IsFiniteSet(Nodes)
    /\ Recurring \subseteq Actions /\ Unique \subseteq Actions \ Recurring
    /\ Gone \notin Actions
    /\ Total \in Nat \ {0}
    /\ MaxLapses \in Nat /\ MaxCrashes \in Nat /\ MaxFaults \in Nat

VARIABLES
    active, due,   \* isActive, and executeOn <= now
    claim,         \* executeClaimExpiresAt: null, in the future, or past
    left,          \* currentExecuteAttempts
    created, key,  \* the rows of the identity, and its AutoActionDedupeKey row
    job,           \* what each process is doing with each action
    seen,          \* the currentExecuteAttempts a failed execution read
    loose,         \* processes whose cron pass ended before its actions did
    tries,         \* history: executions of each one-shot action
    lapses,        \* history: claims lost while some process had the action
    crashes, faults

rowVars  == <<active, due, claim, left>>
keyVars  == <<created, key>>
jobVars  == <<job, seen>>
vars == <<rowVars, keyVars, jobVars, loose, tries, lapses, crashes, faults>>

Phases == {"idle", "queued", "denied", "running", "ran", "threw", "retry", "terminal"}

TypeOK ==
    /\ active \in [Actions -> BOOLEAN] /\ due \in [Actions -> BOOLEAN]
    /\ claim \in [Actions -> {"none", "held", "expired"}]
    /\ left \in [Actions -> Int] /\ \A a \in Actions : left[a] <= Total
    /\ created \subseteq Unique
    /\ key \in Unique \cup {Gone}
    /\ job \in [Nodes -> [Actions -> Phases]]
    /\ seen \in [Nodes -> [Actions -> Int]]
    /\ \A n \in Nodes, a \in Actions : seen[n][a] <= Total
    /\ loose \subseteq Nodes
    /\ tries \in [Actions -> Nat] /\ lapses \in [Actions -> Nat]
    /\ crashes \in 0..MaxCrashes /\ faults \in 0..MaxFaults

\* The rows outside the identity are there and due; the producer adds its own.
Init ==
    /\ active = [a \in Actions |-> a \notin Unique]
    /\ due = [a \in Actions |-> a \notin Unique]
    /\ claim = [a \in Actions |-> "none"]
    /\ left = [a \in Actions |-> Total]
    /\ created = {} /\ key = Gone
    /\ job = [n \in Nodes |-> [a \in Actions |-> "idle"]]
    /\ seen = [n \in Nodes |-> [a \in Actions |-> 0]]
    /\ loose = {}
    /\ tries = [a \in Actions |-> 0] /\ lapses = [a \in Actions |-> 0]
    /\ crashes = 0 /\ faults = 0

-----------------------------------------------------------------------------
(* Claiming.                                                               *)

Holders(a) == {n \in Nodes : job[n][a] # "idle"}
Idle(n) == \A a \in Actions : job[n][a] = "idle"

\* Mutant: the claim is not asked.
ClaimableAny(a) == active[a] /\ due[a]

\* Mutant: an expired claim is not taken over.
ClaimableUnclaimed(a) == active[a] /\ due[a] /\ claim[a] = "none"

Claimable(a) == active[a] /\ due[a] /\ claim[a] # "held"

\* A cron pass claims every due row; an action the process still has is not
\* queued again, though its row is claimed anew.  The interval worker starts no
\* pass while the one before it is awaited.
Claim(n) ==
    /\ n \in loose \/ Idle(n)
    /\ \E a \in Actions : Claimable(a)
    /\ claim' = [a \in Actions |-> IF Claimable(a) THEN "held" ELSE claim[a]]
    /\ job' = [job EXCEPT ![n] = [a \in Actions |->
                 IF Claimable(a) /\ job[n][a] = "idle" THEN "queued" ELSE job[n][a]]]
    /\ loose' = loose \ {n}
    /\ UNCHANGED <<active, due, left, keyVars, seen, tries, lapses, crashes, faults>>

\* The claim's time is up.  While some process has the action this is a lapse.
Expire(a) ==
    /\ claim[a] = "held"
    /\ Holders(a) # {} => lapses[a] < MaxLapses
    /\ claim' = [claim EXCEPT ![a] = "expired"]
    /\ lapses' = [lapses EXCEPT ![a] = IF Holders(a) # {} THEN @ + 1 ELSE @]
    /\ UNCHANGED <<active, due, left, keyVars, jobVars, loose, tries, crashes, faults>>

\* The time of a rescheduled action comes.
ComesDue(a) ==
    /\ ~due[a] /\ a \in Recurring
    /\ due' = [due EXCEPT ![a] = TRUE]
    /\ UNCHANGED <<active, claim, left, keyVars, jobVars, loose, tries, lapses,
                   crashes, faults>>

-----------------------------------------------------------------------------
(* Executing.                                                              *)

At(n, a, phase) == job[n][a] = phase
To(n, a, phase) == job' = [job EXCEPT ![n][a] = phase]

\* executeAction finds the module, asks isAutoActionAllowed, parses the
\* arguments; one that may not run is deactivated, one that may is called.
Begin(n, a) ==
    /\ At(n, a, "queued")
    /\ \/ To(n, a, "denied") /\ UNCHANGED tries
       \/ /\ To(n, a, "running")
          /\ tries' = [tries EXCEPT ![a] = IF a \in Recurring THEN @ ELSE @ + 1]
    /\ UNCHANGED <<rowVars, keyVars, seen, loose, lapses, crashes, faults>>

FunctionReturns(n, a) ==
    /\ At(n, a, "running")
    /\ To(n, a, "ran")
    /\ UNCHANGED <<rowVars, keyVars, seen, loose, tries, lapses, crashes, faults>>

\* It throws: handleAutoActionFailedExecution reads the attempts that are left.
ReadAttempts(n, a, phase) ==
    /\ job' = [job EXCEPT ![n][a] = phase]
    /\ seen' = [seen EXCEPT ![n][a] = left[a]]

FunctionThrows(n, a) ==
    /\ At(n, a, "running")
    /\ \E phase \in {"retry", "terminal"} : ReadAttempts(n, a, phase)
    /\ UNCHANGED <<rowVars, keyVars, loose, tries, lapses, crashes, faults>>

\* The write of the success fails: inside the same try, it counts as a failure.
SuccessLost(n, a) ==
    /\ At(n, a, "ran") /\ faults < MaxFaults
    /\ ReadAttempts(n, a, "retry")
    /\ faults' = faults + 1
    /\ UNCHANGED <<rowVars, keyVars, loose, tries, lapses, crashes>>

-----------------------------------------------------------------------------
(* Writing the outcome.                                                    *)

\* updateAutoActionExecuteOn: releases the claim, whoever has it, and moves the
\* time of a recurring action that was still active.
UpdateExecuteOn(a, isActive, attempts) ==
    /\ active' = [active EXCEPT ![a] = isActive]
    /\ left' = [left EXCEPT ![a] = attempts]
    /\ claim' = [claim EXCEPT ![a] = "none"]
    /\ due' = [due EXCEPT ![a] = @ /\ ~(a \in Recurring /\ active[a])]

\* updateAutoAction with isActive false: the claim is left to expire.
Deactivated(a, attempts) ==
    /\ active' = [active EXCEPT ![a] = FALSE]
    /\ left' = [left EXCEPT ![a] = attempts]
    /\ UNCHANGED <<claim, due>>

Done(n, a) ==
    /\ job' = [job EXCEPT ![n][a] = "idle"]
    /\ seen' = [seen EXCEPT ![n][a] = 0]
    /\ UNCHANGED <<keyVars, loose, tries, lapses, crashes, faults>>

\* Mutant: a successful action stays active.
StillActive(a) == TRUE

\* isActive: Boolean(executePeriod).
StaysActive(a) == a \in Recurring

WriteSuccess(n, a) ==
    /\ At(n, a, "ran")
    /\ UpdateExecuteOn(a, StaysActive(a), Total)
    /\ Done(n, a)

WriteDenied(n, a) ==
    /\ At(n, a, "denied")
    /\ UpdateExecuteOn(a, FALSE, left[a])
    /\ Done(n, a)

\* Mutant: the budget is asked before it is reduced.
Exhausted0(attempts) == attempts = 0

\* currentExecuteAttempts-- then > 0.
Exhausted(attempts) == attempts <= 1

Decremented(attempts) == attempts - 1

WriteRetry(n, a) ==
    /\ At(n, a, "retry")
    /\ IF Exhausted(seen[n][a])
       THEN Deactivated(a, Decremented(seen[n][a]))
       ELSE UpdateExecuteOn(a, active[a], Decremented(seen[n][a]))
    /\ Done(n, a)

WriteTerminal(n, a) ==
    /\ At(n, a, "terminal")
    /\ Deactivated(a, seen[n][a])
    /\ Done(n, a)

\* The write of a failure or of a denial fails: nothing catches it, the cron
\* pass ends, and the claim stays.
WriteFails(n, a) ==
    /\ job[n][a] \in {"denied", "retry", "terminal"} /\ faults < MaxFaults
    /\ job' = [job EXCEPT ![n][a] = "idle"]
    /\ seen' = [seen EXCEPT ![n][a] = 0]
    /\ loose' = loose \cup {n}
    /\ faults' = faults + 1
    /\ UNCHANGED <<rowVars, keyVars, tries, lapses, crashes>>

\* The process stops and starts again: its queues are gone, the claims are not.
Crash(n) ==
    /\ crashes < MaxCrashes /\ ~Idle(n)
    /\ job' = [job EXCEPT ![n] = [a \in Actions |-> "idle"]]
    /\ seen' = [seen EXCEPT ![n] = [a \in Actions |-> 0]]
    /\ loose' = loose \ {n}
    /\ crashes' = crashes + 1
    /\ UNCHANGED <<rowVars, keyVars, tries, lapses, faults>>

-----------------------------------------------------------------------------
(* The producer's identity.                                                *)

\* addUniqueAutoAction, in a transaction that locks the dedupe row: an active
\* action of the identity is reused, else a new one is created and pointed to.
AddUnique ==
    /\ ~(key \in Unique /\ active[key])
    /\ \E a \in Unique \ created :
         /\ created' = created \cup {a} /\ key' = a
         /\ active' = [active EXCEPT ![a] = TRUE]
         /\ due' = [due EXCEPT ![a] = TRUE]
    /\ UNCHANGED <<claim, left, jobVars, loose, tries, lapses, crashes, faults>>

\* deactivateUniqueAutoActionsByIdentityPrefix also releases the claim.
Deactivate ==
    /\ key \in Unique /\ active[key]
    /\ active' = [active EXCEPT ![key] = FALSE]
    /\ claim' = [claim EXCEPT ![key] = "none"]
    /\ lapses' = [lapses EXCEPT ![key] =
                    IF claim[key] = "held" /\ Holders(key) # {} THEN @ + 1 ELSE @]
    /\ UNCHANGED <<due, left, keyVars, jobVars, loose, tries, crashes, faults>>

\* An old dedupe row whose action is inactive (created with it, it has one).
Stale == key \in Unique /\ ~active[key]

CleanupDedupeKeys ==
    /\ Stale
    /\ key' = Gone
    /\ UNCHANGED <<rowVars, created, jobVars, loose, tries, lapses, crashes, faults>>

-----------------------------------------------------------------------------
Write(n, a) == WriteSuccess(n, a) \/ WriteDenied(n, a) \/ WriteRetry(n, a) \/ WriteTerminal(n, a)
Work(n, a) == Begin(n, a) \/ FunctionReturns(n, a) \/ FunctionThrows(n, a) \/ Write(n, a)
Fail(n, a) == SuccessLost(n, a) \/ WriteFails(n, a)

Next ==
    \/ \E n \in Nodes : Claim(n) \/ Crash(n)
    \/ \E n \in Nodes, a \in Actions : Work(n, a) \/ Fail(n, a)
    \/ \E a \in Actions : Expire(a) \/ ComesDue(a)
    \/ AddUnique \/ Deactivate \/ CleanupDedupeKeys

Spec == Init /\ [][Next]_vars

\* Some process keeps passing, functions and writes return, and time passes.
FairSpec ==
    /\ Spec
    /\ WF_vars(\E n \in Nodes : Claim(n))
    /\ \A n \in Nodes, a \in Actions : WF_vars(Work(n, a))
    /\ \A a \in Actions : WF_vars(Expire(a))

-----------------------------------------------------------------------------
(* Properties.                                                             *)

\* Claims avoid duplicate execution: one process has an action, but for each
\* time a claim lapsed while it was had; and although every outcome releases
\* the claim whoever holds it, one lapse makes one duplicate and no more.
OneProcessPerClaim ==
    \A a \in Actions :
       Cardinality(Holders(a)) <= lapses[a] + (IF claim[a] = "held" THEN 1 ELSE 0)

\* A failing action is given up after its attempts: it runs once more only where
\* a crash or a failed write lost an outcome.  Where a claim lapsed there is no
\* such bound: two processes then take turns, and each writes the count it read.
RetryBudget ==
    \A a \in Actions : lapses[a] = 0 => tries[a] <= Total + crashes + faults

\* At most one action of an identity is active: producers that ask again get
\* the active one, also while older ones still execute or their outcome is
\* being written.
OneActivePerIdentity == Cardinality({a \in Unique : active[a]}) <= 1

\* An identity's active action is the one its dedupe row points to.
KeyPointsToActive == \A a \in Unique : active[a] => a = key

\* What the budget rests on.  The identity's rows that are still to be created
\* are as they will be then; of a one-shot action whose claims never lapsed the
\* attempts that are left, with those that were executed, make the total, but
\* for the one a process is executing; and that process read the count the row
\* still has.
Untouched(a) ==
    ~active[a] /\ Holders(a) = {} /\ tries[a] = 0 /\ left[a] = Total

Begun == {"running", "ran", "retry", "terminal"}
Allowed == Total + crashes + faults

Counted(a) ==
    /\ tries[a] <= Allowed
    /\ active[a] => left[a] >= 1
    /\ active[a] /\ (\A n \in Nodes : job[n][a] \notin Begun) => tries[a] + left[a] <= Allowed
    /\ \A n \in Nodes : job[n][a] # "idle" => active[a] /\ tries[a] + left[a] <= Allowed + 1
    /\ \A n \in Nodes : job[n][a] \in {"retry", "terminal"} => seen[n][a] = left[a]

Accounted ==
    /\ \A a \in Unique \ created : Untouched(a)
    /\ \A a \in Recurring : tries[a] = 0
    /\ \A a \in Actions \ Recurring : lapses[a] = 0 => Counted(a)

IInv == TypeOK /\ OneProcessPerClaim /\ KeyPointsToActive /\ Accounted

\* A crashed process holds no action forever: what is due runs, is rescheduled
\* or is given up.
IsDue(a) == active[a] /\ due[a]
DueExecutes ==
    \A a \in Actions :
       IsDue(a) ~> ~IsDue(a) \/ \E n \in Nodes : job[n][a] \in {"running", "denied"}
=============================================================================
