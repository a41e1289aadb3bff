----------------------------- MODULE CronQueues -----------------------------
(***************************************************************************)
(* One process's auto-action queues (modules/autoActions/cronService.ts).  *)
(*                                                                         *)
(* A cron pass claims due actions and puts each at the end of the queue of *)
(* the module it calls; every module with work has one loop, which runs    *)
(* its queue one action at a time.  An action that succeeds queues the     *)
(* actions chained to it under the chain's root, whose earlier results     *)
(* they may take as arguments, and starts the loops that are idle.  A cron *)
(* pass waits for the loops it started; nobody waits for a chain's loops.  *)
(*                                                                         *)
(* Nothing here is persisted.  Which rows a pass claims, and what an       *)
(* execution writes to its row, is AutoActions; here a pass may claim any  *)
(* of the scheduled actions in any order.                                  *)
(***************************************************************************)
EXTENDS Integers, Sequences, FiniteSets

CONSTANTS ActionIds, Modules, None,
          Setups,         \* the ways actions may be set up, see Setup
          MaxLinks,       \* bound: a root lists an action "MaxLinks times or more"
          MaxCallFaults   \* bound on failed database calls

\* What users may have set up: the module whose function an action calls, the
\* actions linked after it in position order, and those a cron pass may find due.
Setup == [moduleOf : [ActionIds -> Modules], chained : [ActionIds -> Seq(ActionIds)],
          scheduled : SUBSET ActionIds]

ASSUME QueuesAssumption ==
    /\ Setups \subseteq Setup /\ IsFiniteSet(ActionIds)
    /\ None \notin ActionIds /\ None \notin Modules
    /\ MaxLinks \in Nat \ {0} /\ MaxCallFaults \in Nat

VARIABLES
    setup,      \* the actions' rows, which nobody edits meanwhile
    queue,      \* queueByModules
    current,    \* the action the module's loop executes; None: not in process
    loopRoot,   \* the rootActionId the loop was started with
    asRoot,     \* the rootActionId of the execution
    step,       \* where it is: "run" the function, or find what comes "next"
    held,       \* actionIdsInQueueOrProcess
    noted,      \* actionsIdsByRootId: how often each action is listed there
    results,    \* prevActionsResultByRootId: whose results a root keeps
    awaited,    \* the loops the current cron pass waits for
    cause,      \* history: the root a held action was queued under
    callFaults

loopVars  == <<queue, current, loopRoot, asRoot, step>>
chainVars == <<noted, results>>
queuesVars == <<setup, loopVars, held, chainVars, awaited, cause, callFaults>>

Nobody == [a \in ActionIds |-> 0]
Elements(s) == {s[i] : i \in DOMAIN s}
Orderings(S) == {s \in [1..Cardinality(S) -> S] : Elements(s) = S}
MaybeAction == ActionIds \cup {None}

QueuesTypeOK ==
    /\ setup \in Setups
    /\ queue \in [Modules -> Seq(ActionIds)]
    /\ current \in [Modules -> MaybeAction]
    /\ loopRoot \in [Modules -> MaybeAction] /\ asRoot \in [Modules -> MaybeAction]
    /\ step \in [Modules -> {"run", "next"}]
    /\ held \subseteq ActionIds
    /\ noted \in [ActionIds -> [ActionIds -> 0..MaxLinks]]
    /\ results \in [ActionIds -> SUBSET ActionIds]
    /\ awaited \subseteq {m \in Modules : current[m] # None}
    /\ cause \in [ActionIds -> MaybeAction]
    /\ callFaults \in 0..MaxCallFaults

QueuesInit ==
    /\ setup \in Setups
    /\ queue = [m \in Modules |-> <<>>]
    /\ current = [m \in Modules |-> None]
    /\ loopRoot = [m \in Modules |-> None] /\ asRoot = [m \in Modules |-> None]
    /\ step = [m \in Modules |-> "run"]
    /\ held = {} /\ awaited = {}
    /\ noted = [r \in ActionIds |-> Nobody]
    /\ results = [r \in ActionIds |-> {}]
    /\ cause = [a \in ActionIds |-> None]
    /\ callFaults = 0

-----------------------------------------------------------------------------
(* addActionsListToQueue.                                                  *)

Queued(a) == \E m \in Modules : a \in Elements(queue[m])
InExecution(a) == \E m \in Modules : current[m] = a

\* Mutant: isActionQueuedOrRunning asks the queues only.
FreshInQueue(list) == {a \in Elements(list) : ~Queued(a)}

\* Of a list, what is neither queued nor running; the others are passed over,
\* and so is an action that the list names again.
Fresh(list) == Elements(list) \ held

\* The sequence of the actions of S (one only) in the order of the list.
Precedes(list, a, c) == \E k \in DOMAIN list : list[k] = a /\ \A i \in 1..k : list[i] # c
InOrder(list, S) ==
    {s \in Orderings(S) : \A i, j \in DOMAIN s : i < j => Precedes(list, s[i], s[j])}

\* The queues with each fresh action at the end of its module's.
Joined(list, m) ==
    {queue[m] \o s : s \in InOrder(list, {a \in Fresh(list) : setup.moduleOf[a] = m})}
Enqueued(list) ==
    {q \in [Modules -> UNION {Joined(list, m) : m \in Modules}] :
       \A m \in Modules : q[m] \in Joined(list, m)}

NoteCause(list, r, over) ==
    cause' = [a \in ActionIds |-> IF a \in Fresh(list) THEN r
                               ELSE IF a = over THEN None ELSE cause[a]]
Forget(a) == cause' = [cause EXCEPT ![a] = None]

-----------------------------------------------------------------------------
(* runQueueByModule.  Between the end of one execution and the start of the *)
(* next, or of a loop and its first, nothing else runs: no I/O is awaited.  *)

\* Mutant: only the queues that were empty are started.
StartableNew(q) == {m \in Modules : current[m] = None /\ queue[m] = <<>> /\ q[m] # <<>>}

\* addActionsListToQueueAndRun starts every idle module with work, whoever
\* queued that work.
Startable(q) == {m \in Modules : current[m] = None /\ q[m] # <<>>}

\* Mutant: runQueueByModule is called without the root.
LoopRootsUngiven(S, r, ended) ==
    [m \in Modules |-> IF m \in S \cup ended THEN None ELSE loopRoot[m]]

\* A loop keeps the root it was started with for all it executes.
LoopRoots(S, r, ended) ==
    [m \in Modules |-> IF m \in S THEN r ELSE IF m \in ended THEN None ELSE loopRoot[m]]

\* With the queues q, the loops of S start under the root r, and those of done
\* go on to their next action.  A loop takes one action at a time:
\* parallelAutoActionsCount is asked of an array, which has none.
Advance(q, S, r, done) ==
    LET takers == S \cup {m \in done : q[m] # <<>>}
        ended  == done \ takers IN
    /\ queue' = [m \in Modules |-> IF m \in takers THEN Tail(q[m]) ELSE q[m]]
    /\ current' = [m \in Modules |-> IF m \in takers THEN Head(q[m])
                                     ELSE IF m \in ended THEN None ELSE current[m]]
    /\ loopRoot' = LoopRoots(S, r, ended)
    /\ asRoot' = [m \in Modules |-> IF m \in takers \cup ended THEN loopRoot'[m]
                                    ELSE asRoot[m]]
    /\ step' = [m \in Modules |-> IF m \in takers \cup ended THEN "run" ELSE step[m]]

\* A pass that awaits a loop no longer does when the loop has ended.
Returns(m, q) == awaited' = IF q[m] = <<>> THEN awaited \ {m} ELSE awaited

StopsAwaiting(m) == IF m \in awaited THEN {} ELSE awaited

\* The execution throws: its finally forgets the action, the loop's finally
\* lets a later call start the module again, and a pass that awaits the loop
\* ends with it (Promise.all); what was queued behind it stays queued.
LoopThrows(m) ==
    /\ held' = held \ {current[m]}
    /\ current' = [current EXCEPT ![m] = None]
    /\ loopRoot' = [loopRoot EXCEPT ![m] = None]
    /\ asRoot' = [asRoot EXCEPT ![m] = None]
    /\ step' = [step EXCEPT ![m] = "run"]
    /\ awaited' = StopsAwaiting(m)
    /\ Forget(current[m])
    /\ UNCHANGED <<setup, queue, chainVars>>

\* A cron pass queues claimed rows in the order (executeOn, id); it does not
\* begin while the loops of the pass before it are awaited.
Pass ==
    /\ awaited = {}
    /\ \E S \in SUBSET setup.scheduled : \E list \in Orderings(S) :
         /\ \E q \in Enqueued(list) :
              Advance(q, Startable(q), None, {}) /\ awaited' = Startable(q)
         /\ NoteCause(list, None, None)
         /\ held' = held \cup Fresh(list)
    /\ UNCHANGED <<setup, chainVars, callFaults>>

-----------------------------------------------------------------------------
(* executeActionAndAddNextToQueue.                                         *)

\* clearPrevActions on the lists n: the action leaves the list of root r, and
\* an empty list goes with the results kept for it.
Fewer(c) == IF c = 0 THEN {0} ELSE IF c = MaxLinks THEN {c - 1, c} ELSE {c - 1}
Cleared(n, r, a) ==
    IF r = None THEN {n} ELSE {[n EXCEPT ![r][a] = c] : c \in Fewer(n[r][a])}
KeptResults(n, r) ==
    IF r # None /\ n[r] = Nobody THEN [results EXCEPT ![r] = {}] ELSE results

\* The function ran and its success was written: the result is kept for the
\* chain, whose root is the action itself if it has none.
RootOf(m) == IF asRoot[m] = None THEN current[m] ELSE asRoot[m]

Succeed(m) ==
    /\ current[m] # None /\ step[m] = "run"
    /\ asRoot' = [asRoot EXCEPT ![m] = RootOf(m)]
    /\ results' = [results EXCEPT ![RootOf(m)] = @ \cup {current[m]}]
    /\ step' = [step EXCEPT ![m] = "next"]
    /\ UNCHANGED <<setup, queue, current, loopRoot, held, noted, awaited, cause, callFaults>>

\* The failure was written: the chain ends here.
Unlisted(r) == r # None /\ noted[r] = Nobody

ActionFails(m) ==
    /\ current[m] # None /\ step[m] = "run"
    /\ ~Unlisted(asRoot[m])
    /\ noted' \in Cleared(noted, asRoot[m], current[m])
    /\ results' = KeptResults(noted', asRoot[m])
    /\ held' = held \ {current[m]}
    /\ Advance(queue, {}, None, {m}) /\ Returns(m, queue)
    /\ Forget(current[m])
    /\ UNCHANGED <<setup, callFaults>>

\* The execution's root is not listed: clearPrevActions reads a property of
\* undefined, and the handled failure of the action throws.
FailUnlisted(m) ==
    /\ current[m] # None /\ step[m] = "run"
    /\ Unlisted(asRoot[m])
    /\ LoopThrows(m)
    /\ UNCHANGED callFaults

\* The chained actions were read: they are queued under the root and listed
\* there, and idle loops start; then the action leaves the root's list.
Added(list, r) ==
    [noted EXCEPT ![r] =
       [a \in ActionIds |-> IF a \in Fresh(list) /\ @[a] < MaxLinks
                         THEN @[a] + 1 ELSE @[a]]]

QueueNext(m) ==
    /\ current[m] # None /\ step[m] = "next"
    /\ LET list == setup.chained[current[m]] IN
         /\ \E q \in Enqueued(list) :
              Advance(q, Startable(q), asRoot[m], {m}) /\ Returns(m, q)
         /\ NoteCause(list, asRoot[m], current[m])
         /\ noted' \in Cleared(Added(list, asRoot[m]), asRoot[m], current[m])
         /\ results' = KeptResults(noted', asRoot[m])
         /\ held' = (held \cup Fresh(list)) \ {current[m]}
    /\ UNCHANGED <<setup, callFaults>>

\* A database call fails where nothing catches it: writing the failure, or
\* reading the chained actions.
Fault(m) ==
    /\ callFaults < MaxCallFaults
    /\ current[m] # None
    /\ LoopThrows(m)
    /\ callFaults' = callFaults + 1

Execute(m) == Succeed(m) \/ ActionFails(m) \/ FailUnlisted(m) \/ QueueNext(m)

QueuesNext == Pass \/ \E m \in Modules : Execute(m) \/ Fault(m)

QueuesSpec == QueuesInit /\ [][QueuesNext]_queuesVars

\* The interval worker keeps passing, and functions and database calls return.
QueuesFairSpec ==
    /\ QueuesSpec
    /\ WF_queuesVars(Pass) /\ \A m \in Modules : WF_queuesVars(Execute(m))

-----------------------------------------------------------------------------
(* Properties.                                                             *)

\* The set of ids that keeps a running action from being queued again is
\* exact: an id is in it if and only if the action waits in one place of one
\* queue or one loop executes it.  An id left behind would never run again, an
\* id lost would run twice at once.
HeldExact ==
    /\ held = {a \in ActionIds : Queued(a) \/ InExecution(a)}
    /\ \A a \in ActionIds : Queued(a) => ~InExecution(a)
    /\ \A m \in Modules : Cardinality(Elements(queue[m])) = Len(queue[m])

\* An action executes under the root it was queued under: a chained action
\* under its chain's root, whose results its arguments name, and an action the
\* cron pass claimed under none.
ChainKeepsRoot ==
    \A m \in Modules :
       current[m] # None /\ step[m] = "run" => asRoot[m] = cause[current[m]]

\* The setups in which a chained action's module runs no other action.
IsChained(a) == \E c \in ActionIds : a \in Elements(setup.chained[c])
Apart ==
    \A a, c \in ActionIds :
       IsChained(a) /\ c # a => setup.moduleOf[a] # setup.moduleOf[c]

\* Where modules are apart the loop a chained action meets was started for it,
\* also when the action is scheduled itself or fails.  What a loop that threw
\* left queued is started by the next to come, under any root.
ApartKeepsRoot == Apart /\ callFaults = 0 => ChainKeepsRoot

\* Whatever the loops before it did, a queued action is executed.
QueuedExecutes == \A a \in ActionIds : Queued(a) ~> InExecution(a)

-----------------------------------------------------------------------------
(* What the properties rest on.                                            *)

\* An action is queued where it belongs, once, and not while it executes.
Placed ==
    \A m \in Modules :
       /\ current[m] # None => setup.moduleOf[current[m]] = m
       /\ \A i \in DOMAIN queue[m] :
            /\ setup.moduleOf[queue[m][i]] = m
            /\ queue[m][i] # current[m]
            /\ \A j \in DOMAIN queue[m] : queue[m][i] = queue[m][j] => i = j

Exact == held = {a \in ActionIds : Queued(a) \/ InExecution(a)}

\* Where modules are apart and no call failed: only chained actions have a root,
\* a module without a loop has nothing queued, and a loop has the root of what
\* it executes.
Rooted ==
    /\ \A a \in ActionIds : cause[a] # None => IsChained(a)
    /\ \A m \in Modules :
         IF current[m] = None
         THEN queue[m] = <<>>
         ELSE /\ loopRoot[m] = cause[current[m]]
              /\ step[m] = "run" => asRoot[m] = loopRoot[m]

QueuesInv == QueuesTypeOK /\ Placed /\ Exact /\ (Apart /\ callFaults = 0 => Rooted)
=============================================================================
