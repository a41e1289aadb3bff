----------------------------- MODULE SiteRender -----------------------------
(***************************************************************************)
(* The render queue of the static site generator and the recovery of       *)
(* renders a restart interrupted                                           *)
(* (modules/staticSiteGenerator/index.ts and renderRecovery.ts).           *)
(*                                                                         *)
(* A request inserts a row and, for a list of contents, a receipt with the *)
(* state of the contents, and calls processQueue once.  A call that finds  *)
(* the lock of the queue taken does nothing, then or later.  The drain     *)
(* that has it takes the oldest row, creates an operation, links it,       *)
(* renders, publishes the site, checkpoints the result in the receipt,     *)
(* closes the row, finishes the operation and looks for the next row.  A   *)
(* boot marks every running operation node-restart; its owner may then     *)
(* recover the row: a new operation is linked to it, and a drain that only *)
(* this row is for renders again, or adopts the result the receipt has.    *)
(*                                                                         *)
(* A rendered site is known by the operation that rendered it: two renders *)
(* are never the same site.  Renders of replacements are SiteRetirement's. *)
(***************************************************************************)
EXTENDS Integers, FiniteSets

CONSTANTS Nodes,          \* processes over one database
          NoNode,
          Kinds,          \* what is rendered, "list" of contents or "group"
          Old,            \* requests for a list from before there were receipts
          RecoveryLimit,  \* recoveryLimit, 3 in the code
          MaxQueues, MaxOps,
          MaxTroubles     \* edits, cancellations, crashes and failures in all

ASSUME RenderAssumption ==
    /\ NoNode \notin Nodes
    /\ Kinds \subseteq {"list", "group"} /\ Old \subseteq 1..MaxQueues
    /\ RecoveryLimit \in Nat
    /\ MaxQueues \in Nat /\ MaxOps \in Nat /\ MaxTroubles \in Nat

NoId   == 0
Queues == 1..MaxQueues      \* ids grow with createdAt
OpIds  == 1..MaxOps
States == {"none", "pending", "running", "complete", "failed", "interrupted"}

VARIABLES
    version, latest,\* the state of the contents, and the last one that was new
    owed,           \* the calls of the queue a process has yet to make for its requests
    rows,           \* UserOperationQueue with its RenderReceipt: frozen, result
    ops,            \* UserAsyncOperation with the RenderRecovery it is the attempt of
    rendered,       \* the version an operation's render has read
    site,           \* the StaticSite of the contents: whose render it is
    lock,           \* who has the queue's lock at the server
    pc, target,     \* a drain's step, and the row it was called for
    row, op, result,\* what it has in hand
    reverted,       \* history: an edit brought an earlier state back
    unrecorded,     \* history: the end of an operation could not be written
    troubles

dbVars    == <<rows, ops, site>>
drainVars == <<pc, target, row, op, result>>
countVars == <<reverted, unrecorded, troubles>>
sourceVars == <<version, latest, owed>>
vars == <<sourceVars, dbVars, rendered, lock, drainVars, countVars>>

NoRow == [kind |-> "none", waiting |-> FALSE, op |-> NoId, frozen |-> NoId, result |-> NoId]
NoOp  == [queue |-> NoId, running |-> FALSE, restarted |-> FALSE, cancel |-> FALSE,
          output |-> NoId, of |-> NoId, state |-> "none"]

Steps == {"down", "idle", "look", "leave", "stale", "create", "link", "mark", "prepare", "render",
          "publish", "check", "store", "close", "finish", "complete", "error", "fail", "drop"}

RowType == [kind : {"none", "list", "legacy", "group"}, waiting : BOOLEAN,
            op : OpIds \cup {NoId}, frozen : 0..(MaxTroubles + 1),
            result : OpIds \cup {NoId}]
OpType  == [queue : Queues \cup {NoId}, running : BOOLEAN, restarted : BOOLEAN, cancel : BOOLEAN,
            output : OpIds \cup {NoId}, of : OpIds \cup {NoId}, state : States]

TypeOK ==
    /\ version \in 1..latest /\ latest \in 1..(MaxTroubles + 1)
    /\ owed \in [Nodes -> Nat]
    /\ rows \in [Queues -> RowType] /\ ops \in [OpIds -> OpType]
    /\ rendered \in [OpIds -> 0..(MaxTroubles + 1)]
    /\ site \in OpIds \cup {NoId} /\ lock \in Nodes \cup {NoNode}
    /\ pc \in [Nodes -> Steps] /\ target \in [Nodes -> Queues \cup {NoId}]
    /\ row \in [Nodes -> Queues \cup {NoId}] /\ op \in [Nodes -> OpIds \cup {NoId}]
    /\ result \in [Nodes -> OpIds \cup {NoId}]
    /\ {reverted, unrecorded} \subseteq BOOLEAN
    /\ troubles \in 0..MaxTroubles
    /\ \A n \in Nodes : row[n] # NoId <=> pc[n] \notin {"down", "idle", "look", "leave"}
    /\ \A n \in Nodes : lock = n <=> pc[n] \notin {"down", "idle"}
    /\ \A q \in Queues : rows[q].op # NoId => ops[rows[q].op].queue = q

Init ==
    /\ version = 1 /\ latest = 1
    /\ owed = [n \in Nodes |-> 0]
    /\ \E old \in SUBSET Old :
         rows = [q \in Queues |-> IF q \in old THEN [NoRow EXCEPT !.kind = "legacy", !.waiting = TRUE]
                                                ELSE NoRow]
    /\ ops = [o \in OpIds |-> NoOp]
    /\ rendered = [o \in OpIds |-> 0] /\ site = NoId
    /\ lock = NoNode
    /\ pc = [n \in Nodes |-> "idle"]
    /\ target = [n \in Nodes |-> NoId]
    /\ row = [n \in Nodes |-> NoId] /\ op = [n \in Nodes |-> NoId]
    /\ result = [n \in Nodes |-> NoId]
    /\ reverted = FALSE /\ unrecorded = FALSE
    /\ troubles = 0

-----------------------------------------------------------------------------
(* Requests. *)

Added   == {q \in Queues : rows[q].kind # "none"}
Waiting == {q \in Queues : rows[q].waiting}
Made    == {o \in OpIds : ops[o].queue # NoId}
Minimum(S) == CHOOSE x \in S : \A y \in S : x <= y
NextOp  == Minimum(OpIds \ Made)
HasReceipt(q) == rows[q].frozen # NoId \/ rows[q].result # NoId

\* Bounds what goes wrong.
Trouble == troubles < MaxTroubles /\ troubles' = troubles + 1

\* addRenderToQueueAndProcess: the row, for a list with its receipt, and a call
\* of the queue that nobody waits for.
Admit(n, kind) ==
    /\ pc[n] # "down"
    /\ Queues # Added
    /\ rows' = [rows EXCEPT ![Minimum(Queues \ Added)] =
                   [NoRow EXCEPT !.kind = kind, !.waiting = TRUE,
                                 !.frozen = IF kind = "list" THEN version ELSE NoId]]
    /\ owed' = [owed EXCEPT ![n] = @ + 1]
    /\ UNCHANGED <<version, latest, ops, rendered, site, lock, drainVars, countVars>>

\* The contents are saved anew, or as they were once: nothing tells a state
\* that is back from one that was never left.
Edit ==
    /\ Trouble
    /\ version' \in 1..(latest + 1) \ {version}
    /\ latest' = IF version' > latest THEN version' ELSE latest
    /\ reverted' = (reverted \/ version' <= latest)
    /\ UNCHANGED <<owed, dbVars, rendered, lock, drainVars, unrecorded>>

\* cancelAsyncOperation: only recovery looks at it.
Cancel(o) ==
    /\ ops[o].running
    /\ Trouble
    /\ ops' = [ops EXCEPT ![o].cancel = TRUE]
    /\ UNCHANGED <<sourceVars, rows, rendered, site, lock, drainVars, reverted,
                   unrecorded>>

Attempts(q) == {o \in OpIds : ops[o].queue = q /\ ops[o].of # NoId}

\* legacyResult: the site is still the one this very operation rendered.
PublishedBy(q, o) == rows[q].kind # "group" /\ site = o

\* Mutant: whatever site is published is adopted.
AdoptedAny(q, o) ==
    IF rows[q].result # NoId \/ rows[q].kind = "group" THEN rows[q].result ELSE site

\* The result recovery finds: the receipt's, or a site published before the
\* checkpoint, which it adopts without looking at the contents again.
Adopted(q, o) ==
    IF rows[q].result # NoId THEN rows[q].result
    ELSE IF PublishedBy(q, o) THEN o ELSE NoId

Interrupted(o) == ~ops[o].running /\ ops[o].restarted /\ ~ops[o].cancel

\* recoverClaimed, in a transaction that locks the row: one attempt per
\* interrupted operation, and so many per row.
Recover(n, q) ==
    LET o == rows[q].op IN
    /\ pc[n] # "down" /\ o # NoId
    /\ \A a \in Attempts(q) : ops[a].of # o
    /\ Interrupted(o)
    /\ rows[q].kind = "list" \/ (rows[q].kind = "legacy" /\ Adopted(q, o) # NoId)
    /\ Adopted(q, o) # NoId \/ version = rows[q].frozen
    /\ ops[o].output # NoId => ops[o].output = Adopted(q, o)
    /\ Cardinality(Attempts(q)) < RecoveryLimit /\ OpIds # Made
    /\ ops' = [ops EXCEPT ![NextOp] = [NoOp EXCEPT !.queue = q, !.running = TRUE, !.of = o,
                                                   !.state = "pending"]]
    /\ rows' = [rows EXCEPT ![q].op = NextOp, ![q].waiting = TRUE, ![q].result = Adopted(q, o)]
    /\ UNCHANGED <<sourceVars, rendered, site, lock, drainVars, countVars>>

\* What a drain may run: an attempt as it was accepted.
Startable(o) ==
    /\ o # NoId /\ ops[o].state = "pending"
    /\ ops[o].running /\ ~ops[o].restarted /\ ~ops[o].cancel

-----------------------------------------------------------------------------
(* A drain: processQueue and processClaimedQueue. *)

Goto(n, step) == pc' = [pc EXCEPT ![n] = step]

\* Mutant: nobody looks at the lock.
LockIgnored(n) == pc[n] = "idle"

LockFree(n) == lock = NoNode /\ pc[n] = "idle"

\* A call of processQueue that has the lock.
Start(n, q) ==
    /\ LockFree(n)
    /\ lock' = n
    /\ target' = [target EXCEPT ![n] = q]
    /\ Goto(n, "look")
    /\ UNCHANGED <<version, latest, dbVars, rendered, row, op, result, countVars>>

Called(n) == owed[n] > 0 /\ owed' = [owed EXCEPT ![n] = @ - 1]

\* The call a request made ...
Call(n) == Called(n) /\ Start(n, NoId)

\* ... is made once: image_render_in_process, when a drain has the lock, is
\* nobody's error.
CallBusy(n) ==
    /\ Called(n) /\ lock # NoNode
    /\ UNCHANGED <<version, latest, dbVars, rendered, lock, drainVars, countVars>>

\* recoverRenderQueue has recovered the row, or is asked again for it.
CallAgain(n, q) == rows[q].op \in Attempts(q) /\ Start(n, q) /\ UNCHANGED owed

\* processPendingRenderRecoveries, every two seconds.
Tick(n, o) ==
    LET q == ops[o].queue IN
    /\ pc[n] = "idle" /\ ops[o].state = "pending"
    /\ IF rows[q].op = o /\ rows[q].waiting /\ Startable(o)
       THEN Start(n, q) /\ UNCHANGED owed
       ELSE /\ ops' = [ops EXCEPT ![o].state = "interrupted"]
            /\ UNCHANGED <<sourceVars, rows, rendered, site, lock, drainVars, countVars>>

Forget(n) ==
    /\ row' = [row EXCEPT ![n] = NoId]
    /\ op' = [op EXCEPT ![n] = NoId]
    /\ result' = [result EXCEPT ![n] = NoId]

Leave(n) ==
    /\ lock' = NoNode
    /\ target' = [target EXCEPT ![n] = NoId]
    /\ Goto(n, "idle")
    /\ Forget(n)

Candidates(n) == IF target[n] = NoId THEN Waiting ELSE Waiting \cap {target[n]}

\* There is nothing to do, or the oldest row is somebody's already.
Idle(n) ==
    /\ pc[n] = "look"
    /\ Candidates(n) # {} =>
         LET o == rows[Minimum(Candidates(n))].op
         IN o # NoId /\ ~Startable(o) /\ ops[o].running
    /\ Goto(n, "leave")
    /\ UNCHANGED <<sourceVars, dbVars, rendered, lock, target, row, op, result, countVars>>

\* The lock is released after the last look at the queue.
Unlock(n) ==
    /\ pc[n] = "leave"
    /\ Leave(n)
    /\ UNCHANGED <<sourceVars, dbVars, rendered, countVars>>

\* A row without an operation, or with an attempt nobody has begun.
Take(n) ==
    LET q == Minimum(Candidates(n)) IN
    /\ pc[n] = "look" /\ Candidates(n) # {}
    /\ rows[q].op = NoId \/ Startable(rows[q].op)
    /\ row' = [row EXCEPT ![n] = q]
    /\ op' = [op EXCEPT ![n] = rows[q].op]
    /\ Goto(n, IF rows[q].op = NoId THEN "create" ELSE "link")
    /\ UNCHANGED <<sourceVars, dbVars, rendered, lock, target, result, countVars>>

FindStale(n) ==
    LET q == Minimum(Candidates(n)) IN
    /\ pc[n] = "look" /\ Candidates(n) # {}
    /\ rows[q].op # NoId /\ ~Startable(rows[q].op) /\ ~ops[rows[q].op].running
    /\ row' = [row EXCEPT ![n] = q]
    /\ op' = [op EXCEPT ![n] = rows[q].op]
    /\ Goto(n, "stale")
    /\ UNCHANGED <<sourceVars, dbVars, rendered, lock, target, result, countVars>>

\* Mutant: the row is closed by its own id.
LinkedToRow(n) == {row[n]}

\* closeUserOperationQueueByAsyncOperationId closes what the operation is linked to.
Linked(n) == {q \in Queues : rows[q].op = op[n]}

CloseLinked(n) ==
    rows' = [q \in Queues |-> IF q \in Linked(n) THEN [rows[q] EXCEPT !.waiting = FALSE]
                                                 ELSE rows[q]]

\* Called for one row a drain ends with it, else it goes on to the next.
Next1(n) == IF target[n] = NoId
            THEN Goto(n, "look") /\ Forget(n) /\ UNCHANGED <<lock, target>>
            ELSE Leave(n)

CloseStale(n) ==
    /\ pc[n] = "stale"
    /\ CloseLinked(n)
    /\ Next1(n)
    /\ UNCHANGED <<sourceVars, ops, rendered, site, countVars>>

Create(n) ==
    /\ pc[n] = "create" /\ OpIds # Made
    /\ ops' = [ops EXCEPT ![NextOp] = [NoOp EXCEPT !.queue = row[n], !.running = TRUE]]
    /\ op' = [op EXCEPT ![n] = NextOp]
    /\ Goto(n, "link")
    /\ UNCHANGED <<sourceVars, rows, rendered, site, lock, target, row, result, countVars>>

IsAttempt(n) == ops[op[n]].of # NoId

Link(n) ==
    /\ pc[n] = "link"
    /\ rows' = [rows EXCEPT ![row[n]].op = op[n]]
    /\ Goto(n, IF IsAttempt(n) THEN "mark" ELSE "prepare")
    /\ UNCHANGED <<sourceVars, ops, rendered, site, lock, target, row, op, result, countVars>>

SetState(n, state) == ops' = [ops EXCEPT ![op[n]].state = state]

Mark(n) ==
    /\ pc[n] = "mark"
    /\ SetState(n, "running")
    /\ Goto(n, "prepare")
    /\ UNCHANGED <<sourceVars, rows, rendered, site, lock, target, row, op, result, countVars>>

\* checkSources: nothing to check without a receipt or with a result.
SourcesOK(q) ==
    \/ ~HasReceipt(q) \/ rows[q].result # NoId
    \/ version = rows[q].frozen

\* A saved result is used as it is.
Prepare(n) ==
    /\ pc[n] = "prepare"
    /\ Goto(n, IF rows[row[n]].result # NoId THEN "check"
               ELSE IF SourcesOK(row[n]) THEN "render" ELSE "error")
    /\ result' = [result EXCEPT ![n] = rows[row[n]].result]
    /\ UNCHANGED <<sourceVars, dbVars, rendered, lock, target, row, op, countVars>>

Render(n) ==
    /\ pc[n] = "render"
    /\ rendered' = [rendered EXCEPT ![op[n]] = version]
    /\ result' = [result EXCEPT ![n] = op[n]]
    /\ Goto(n, "publish")
    /\ UNCHANGED <<sourceVars, dbVars, lock, target, row, op, countVars>>

\* updateDbStaticSite; a group has a site of its own.
Publish(n) ==
    /\ pc[n] = "publish"
    /\ site' = IF rows[row[n]].kind = "group" THEN site ELSE op[n]
    /\ Goto(n, "check")
    /\ UNCHANGED <<sourceVars, rows, ops, rendered, lock, target, row, op, result, countVars>>

\* Mutant: what was checked before the render is not checked again.
SettledUnchecked(n) == TRUE

Settled(n) ==
    /\ SourcesOK(row[n])
    /\ rows[row[n]].result \in {NoId, result[n]}

\* checkpoint: first it reads ...
Check(n) ==
    /\ pc[n] = "check"
    /\ Goto(n, IF ~HasReceipt(row[n]) THEN "close"
               ELSE IF ~Settled(n) THEN "error"
               ELSE IF rows[row[n]].result = NoId THEN "store" ELSE "close")
    /\ UNCHANGED <<sourceVars, dbVars, rendered, lock, target, row, op, result, countVars>>

\* ... then it writes.
Store(n) ==
    /\ pc[n] = "store"
    /\ rows' = [rows EXCEPT ![row[n]].result = result[n]]
    /\ Goto(n, "close")
    /\ UNCHANGED <<sourceVars, ops, rendered, site, lock, target, row, op, result, countVars>>

\* The archive is requested, and the row is closed.
Close(n) ==
    /\ pc[n] = "close"
    /\ CloseLinked(n)
    /\ Goto(n, "finish")
    /\ UNCHANGED <<sourceVars, ops, rendered, site, lock, target, row, op, result, countVars>>

Finish(n) ==
    /\ pc[n] = "finish"
    /\ ops' = [ops EXCEPT ![op[n]].running = FALSE, ![op[n]].output = result[n]]
    /\ IF IsAttempt(n)
       THEN Goto(n, "complete") /\ UNCHANGED <<lock, target, row, op, result>>
       ELSE Next1(n)
    /\ UNCHANGED <<sourceVars, rows, rendered, site, countVars>>

Complete(n) ==
    /\ pc[n] = "complete"
    /\ SetState(n, "complete")
    /\ Next1(n)
    /\ UNCHANGED <<sourceVars, rows, rendered, site, countVars>>

\* errorAsyncOperation; the row is closed by the next look at it.
Error(n) ==
    /\ pc[n] = "error"
    /\ ops' = [ops EXCEPT ![op[n]].running = FALSE]
    /\ IF IsAttempt(n)
       THEN Goto(n, "fail") /\ UNCHANGED <<lock, target, row, op, result>>
       ELSE Next1(n)
    /\ UNCHANGED <<sourceVars, rows, rendered, site, countVars>>

Fail(n) ==
    /\ pc[n] = "fail"
    /\ SetState(n, "failed")
    /\ Next1(n)
    /\ UNCHANGED <<sourceVars, rows, rendered, site, countVars>>

\* No operation could be created.
Drop(n) ==
    /\ pc[n] = "drop"
    /\ rows' = [rows EXCEPT ![row[n]].waiting = FALSE]
    /\ Next1(n)
    /\ UNCHANGED <<sourceVars, ops, rendered, site, countVars>>

Step(n) ==
    \/ Idle(n) \/ Unlock(n) \/ Take(n) \/ FindStale(n) \/ CloseStale(n) \/ Create(n) \/ Link(n)
    \/ Mark(n) \/ Prepare(n) \/ Render(n) \/ Publish(n) \/ Check(n) \/ Store(n) \/ Close(n) \/ Finish(n)
    \/ Complete(n) \/ Error(n) \/ Fail(n) \/ Drop(n)

-----------------------------------------------------------------------------
(* Failures. *)

\* Anything in the try block throws.
Throws(n) ==
    /\ pc[n] \in {"create", "link", "mark", "prepare", "render", "publish", "check", "store",
                  "close", "finish", "complete"}
    /\ Trouble
    /\ Goto(n, IF op[n] = NoId THEN "drop" ELSE "error")
    /\ UNCHANGED <<sourceVars, dbVars, rendered, lock, target, row, op, result, reverted, unrecorded>>

\* Outside of it, the drain ends.
Breaks(n) ==
    /\ pc[n] \in {"look", "stale", "error", "fail", "drop"}
    /\ Trouble
    /\ Leave(n)
    /\ unrecorded' = (unrecorded \/ pc[n] = "error")
    /\ UNCHANGED <<sourceVars, dbVars, rendered, reverted>>

Crash(n) ==
    /\ pc[n] # "down"
    /\ Trouble
    /\ lock' = IF lock = n THEN NoNode ELSE lock
    /\ target' = [target EXCEPT ![n] = NoId]
    /\ Goto(n, "down")
    /\ Forget(n)
    /\ owed' = [owed EXCEPT ![n] = 0]
    /\ UNCHANGED <<version, latest, dbVars, rendered, reverted, unrecorded>>

\* Mutant: the operation is named interrupted and left running.
StoppedByName(o) == [ops[o] EXCEPT !.restarted = TRUE]

Stopped(o) == [ops[o] EXCEPT !.running = FALSE, !.restarted = TRUE]

\* closeAllAsyncOperation, whichever process runs them.
Boot(n) ==
    /\ pc[n] = "down"
    /\ Goto(n, "idle")
    /\ ops' = [o \in OpIds |-> IF ops[o].running THEN Stopped(o) ELSE ops[o]]
    /\ UNCHANGED <<sourceVars, rows, rendered, site, lock, target, row, op, result, countVars>>

Next ==
    \/ \E n \in Nodes :
         \/ \E kind \in Kinds : Admit(n, kind)
         \/ Call(n) \/ CallBusy(n)
         \/ \E q \in Queues : Recover(n, q) \/ CallAgain(n, q)
         \/ \E o \in OpIds : Tick(n, o)
         \/ Step(n) \/ Throws(n) \/ Breaks(n) \/ Crash(n) \/ Boot(n)
    \/ Edit
    \/ \E o \in OpIds : Cancel(o)

Spec == Init /\ [][Next]_vars

(* A process works on, a call is made that a request has made, a stopped   *)
(* process is started again, and the worker for recoveries comes every two *)
(* seconds: it may find the lock taken any number of times, but not for    *)
(* ever, so strong fairness.  Nothing makes a call that was not made.      *)
FairSpec ==
    /\ Spec
    /\ WF_vars(\E n \in Nodes : Step(n)) /\ WF_vars(\E n \in Nodes : Boot(n))
    /\ \A n \in Nodes : WF_vars(Call(n) \/ CallBusy(n))
    /\ SF_vars(\E n \in Nodes, o \in OpIds : Tick(n, o))

-----------------------------------------------------------------------------
(* Properties. *)

\* Finished operations of one request report the same site, and where the
\* request has a receipt it is the site the receipt has: a render that was
\* recovered, whatever was interrupted and adopted, is one render.
OutputsAgree ==
    \A o1, o2 \in Made :
        ops[o1].queue = ops[o2].queue /\ ops[o1].output # NoId =>
            /\ HasReceipt(ops[o1].queue) => rows[ops[o1].queue].result = ops[o1].output
            /\ ops[o2].output \in {NoId, ops[o1].output}

\* What a checkpoint keeps was rendered from the contents as they were when
\* they were asked for: an edit at any step of the render is noticed, but for
\* one that is taken back in time.
StoredIsFrozen ==
    [][\A n \in Nodes, q \in Queues :
          Store(n) /\ row[n] = q /\ ~reverted => rendered[rows'[q].result] = rows[q].frozen]_vars

\* An accepted recovery is not lost: as long as its operation may begin, its
\* row waits for it, whatever drains of the operation it replaces still close.
AcceptedStaysQueued ==
    \A q \in Queues : Startable(rows[q].op) => rows[q].waiting

\* Cancelled before a drain began it: nobody ends its operation.
Withdrawn(o) == ops[o].state = "interrupted" /\ ops[o].cancel

\* Accepted after a drain had read the row, which the drain then linked to the
\* operation it had read: the row is that operation's again.
Superseded(o) == rows[ops[o].queue].op # o

\* An accepted recovery is ended at last, through crashes, failures and drains
\* that hold the lock: the worker comes for it, and what a drain began the
\* drain or the next boot ends (processPendingRenderRecoveries,
\* processClaimedQueue).  But for an attempt that was cancelled in time or lost
\* its row, and an end that could not be written.
RecoveriesEnd ==
    <>[](\A o \in OpIds : ops[o].of # NoId =>
             /\ ops[o].state # "pending"
             /\ ops[o].running => Withdrawn(o) \/ Superseded(o) \/ unrecorded)

\* "The processor handles one waiting queue row at a time and recursively
\* continues until no waiting work remains" (docs/overview.md): a waiting row
\* is taken at last.  It does not hold: the one call a request makes may come
\* between a drain's last look at the queue and the release of the lock, or be
\* lost with its process (addRenderToQueueAndProcess).
QueueDrains == <>[](Waiting = {})

\* The render a request is answered with, as its receipt and its operations tell.
AnswersOf(q) ==
    ({rows[q].result} \cup {ops[o].output : o \in {x \in Made : ops[x].queue = q}}) \ {NoId}

Ledger == INSTANCE RenderLedger WITH
    Requests <- Queues, Renders <- OpIds, NoRequest <- NoId,
    asked <- Added, owner <- [o \in OpIds |-> ops[o].queue],
    answer <- [q \in Queues |-> AnswersOf(q)]

\* The queue keeps the ledger: a request is answered once and for all, with a render
\* of its own, whatever of it was interrupted, recovered, adopted or closed by a drain
\* that came late (renderRecovery.ts).
KeepsRenders == Ledger!Spec

-----------------------------------------------------------------------------
(* What is true of every state a render queue reaches, and why the         *)
(* properties hold: the invariant of SiteRenderProofs.                      *)

\* Without a reversal the contents are in their latest state.
VersionsGrow ==
    /\ latest <= troubles + 1
    /\ ~reverted => version = latest
    /\ \A q \in Queues : rows[q].frozen <= latest
    /\ \A o \in OpIds : rendered[o] <= latest

\* A row that was never added is blank, and only a list has a receipt of its
\* contents; a group has none at all.
RowsOK ==
    \A q \in Queues :
        /\ rows[q].waiting => rows[q].kind # "none"
        /\ rows[q].frozen # NoId <=> rows[q].kind = "list"
        /\ rows[q].kind \in {"none", "group"} => rows[q].result = NoId

\* An operation belongs to a row that was added.  Only the attempt of a
\* recovery, whose row has a receipt by then, has a state.
OpsOK ==
    /\ site # NoId => rendered[site] # 0
    /\ \A o \in OpIds :
         /\ o \notin Made => ops[o] = NoOp /\ rendered[o] = 0
         /\ o \in Made => rows[ops[o].queue].kind # "none"
         /\ ops[o].of = NoId => ops[o].state = "none"
         /\ ops[o].of # NoId => HasReceipt(ops[o].queue)
         /\ ops[o].state = "pending" => rendered[o] = 0

\* A finished operation reported what the receipt has; while there is no
\* receipt only the operation the row names has finished.
OutputsOK ==
    \A o \in Made :
        ops[o].output # NoId =>
            IF HasReceipt(ops[o].queue) THEN rows[ops[o].queue].result = ops[o].output
                                        ELSE rows[ops[o].queue].op = o

\* What a receipt has was rendered for its own request; without one an operation
\* reports its own render.
OwnResults ==
    /\ \A q \in Queues : rows[q].result # NoId => ops[rows[q].result].queue = q
    /\ \A o \in Made : rows[ops[o].queue].result = NoId => ops[o].output \in {NoId, o}

Unbegun(o) == o # NoId /\ ops[o].of # NoId /\ rendered[o] = 0

\* Where a drain is with its operation ...
DrainHasOp(n) ==
    /\ row[n] # NoId => rows[row[n]].kind # "none"
    /\ op[n] # NoId => row[n] # NoId /\ ops[op[n]].queue = row[n]
    /\ pc[n] \in {"create", "drop"} => op[n] = NoId /\ rows[row[n]].op = NoId
    /\ row[n] # NoId /\ pc[n] \notin {"create", "drop"} => op[n] # NoId
    /\ pc[n] = "stale" => ~ops[op[n]].running
    /\ pc[n] \in {"mark", "complete", "fail"} => IsAttempt(n)
    /\ pc[n] \in {"create", "link"} => rows[row[n]].waiting
    /\ pc[n] = "link" /\ ~IsAttempt(n) => rows[row[n]].op = NoId

\* ... which it began, unless it was to adopt a result, and which its row
\* names, unless the row was recovered since ...
DrainBegan(n) ==
    /\ pc[n] \in {"link", "mark", "prepare", "render"} => rendered[op[n]] = 0
    /\ pc[n] \in {"prepare", "render", "publish", "check", "store", "close", "finish"} =>
         ops[op[n]].state # "pending"
    /\ pc[n] \in {"mark", "prepare", "render", "publish", "check", "store", "close", "finish"} =>
         rows[row[n]].op = op[n] \/ Unbegun(rows[row[n]].op)

\* ... and with its result: what the receipt has, or what it rendered itself.
DrainHasResult(n) ==
    /\ pc[n] \in {"render", "publish"} => rows[row[n]].result = NoId
    /\ pc[n] = "publish" => result[n] = op[n] /\ site # op[n] /\ rendered[op[n]] # 0
    /\ pc[n] \in {"check", "store", "close", "finish"} =>
         /\ result[n] # NoId
         /\ \/ rows[row[n]].result = result[n]
            \/ /\ rows[row[n]].result = NoId /\ result[n] = op[n]
               /\ rows[row[n]].kind = "group" \/ site = op[n]
    /\ pc[n] = "store" => rows[row[n]].kind = "list"
    /\ pc[n] \in {"close", "finish"} /\ HasReceipt(row[n]) => rows[row[n]].result = result[n]

\* An edit between the request and the render gives what is rendered a later
\* version than the receipt has, which the check at the end cannot miss.
DrainIsCurrent(n) ==
    ~reverted =>
        /\ pc[n] \in {"publish", "check"} /\ rows[row[n]].result = NoId =>
             rows[row[n]].frozen <= rendered[op[n]]
        /\ pc[n] = "store" => rendered[result[n]] = rows[row[n]].frozen

DrainOK(n) == DrainHasOp(n) /\ DrainBegan(n) /\ DrainHasResult(n) /\ DrainIsCurrent(n)

IInv ==
    /\ TypeOK /\ VersionsGrow /\ RowsOK /\ OpsOK /\ OutputsOK
    /\ \A n \in Nodes : DrainOK(n)
    /\ AcceptedStaysQueued
=============================================================================
