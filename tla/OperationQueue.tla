--------------------------- MODULE OperationQueue ---------------------------
(***************************************************************************)
(* The persisted job queue of one producer module (modules/asyncOperation).*)
(*                                                                         *)
(* A producer inserts a UserOperationQueue row; the module's worker takes  *)
(* the oldest waiting row, creates a UserAsyncOperation for it, runs the   *)
(* producer's callback, and closes the row and finishes the operation.     *)
(* Every await of the worker is a step of its own, so other requests,      *)
(* cancellations, a crash or another process's start can come between any  *)
(* two statements.                                                         *)
(*                                                                         *)
(* Resume is options.resumeInterrupted: TRUE for content-resave, whose     *)
(* drain runs under the database-wide withStorageWorker lock, and FALSE for*)
(* every other producer, whose drains only the in-process map of promises  *)
(* excludes, so that one process is assumed.  SourceLocked says admission  *)
(* runs in a transaction that holds the source's row lock (content-resave).*)
(***************************************************************************)
EXTENDS Integers, FiniteSets

CONSTANTS Nodes,        \* server processes over one database
          Clients,      \* concurrent requests that enqueue work
          Inputs,       \* the input hashes of the jobs
          NoNode, NoInput,
          Resume, SourceLocked,
          MaxQueues, MaxOps, MaxCrashes, MaxFaults  \* bounds

ASSUME ConfigAssumption ==
    /\ Resume \in BOOLEAN /\ SourceLocked \in BOOLEAN
    /\ MaxQueues \in Nat /\ MaxOps \in Nat /\ MaxCrashes \in Nat /\ MaxFaults \in Nat
    /\ NoNode \notin Nodes /\ NoInput \notin Inputs
ASSUME DrainAssumption == Resume \/ (\A m, n \in Nodes : m = n)

NoId    == 0                  \* a null asyncOperationId, or no row in hand
QueueIds == 1..MaxQueues      \* ids grow with createdAt
OpIds    == 1..MaxOps
Errors   == {"none", "node-restart", "canceled", "failed"}

VARIABLES
    lastQueue, rows, isWaiting, inputOf, opOf,          \* UserOperationQueue
    lastOp, ops, inProcess, finished, cancel, error,    \* UserAsyncOperation
    drain,       \* holder of the worker lock, when the drain takes one
    pc, queue, operation,          \* each process's drain: where it is, with what
    wants,       \* the input a client is about to insert, or NoInput
    runs, outcome, \* history: callback starts per row, and what became of it
    crashes, faults

queueVars == <<lastQueue, rows, isWaiting, inputOf, opOf>>
opVars    == <<lastOp, ops, inProcess, finished, cancel, error>>
nodeVars  == <<drain, pc, queue, operation>>
histVars  == <<runs, outcome>>
boundVars == <<crashes, faults>>
vars == <<queueVars, opVars, nodeVars, wants, histVars, boundVars>>

Steps == {"down", "idle", "next", "drop", "payload", "create", "link", "resume",
          "check", "canceled", "run", "running", "finish", "close",
          "failClose", "failError"}

TypeOK ==
    /\ lastQueue \in 0..MaxQueues /\ lastOp \in 0..MaxOps
    /\ rows \subseteq 1..lastQueue /\ ops \subseteq 1..lastOp
    /\ isWaiting \in [QueueIds -> BOOLEAN]
    /\ inputOf \in [QueueIds -> Inputs \cup {NoInput}]
    /\ opOf \in [QueueIds -> OpIds \cup {NoId}]
    /\ inProcess \in [OpIds -> BOOLEAN] /\ finished \in [OpIds -> BOOLEAN]
    /\ cancel \in [OpIds -> BOOLEAN] /\ error \in [OpIds -> Errors]
    /\ drain \in Nodes \cup {NoNode}
    /\ pc \in [Nodes -> Steps]
    /\ queue \in [Nodes -> QueueIds \cup {NoId}]
    /\ operation \in [Nodes -> OpIds \cup {NoId}]
    /\ wants \in [Clients -> Inputs \cup {NoInput}]
    /\ \A n \in Nodes : queue[n] = NoId <=> pc[n] \in {"down", "idle", "next"}
    /\ runs \in [QueueIds -> Nat]
    /\ outcome \in [QueueIds -> {"open", "finished", "failed"}]
    /\ crashes \in 0..MaxCrashes /\ faults \in 0..MaxFaults

Init ==
    /\ lastQueue = 0 /\ rows = {} /\ lastOp = 0 /\ ops = {}
    /\ isWaiting = [q \in QueueIds |-> FALSE]
    /\ inputOf = [q \in QueueIds |-> NoInput]
    /\ opOf = [q \in QueueIds |-> NoId]
    /\ inProcess = [o \in OpIds |-> FALSE]
    /\ finished = [o \in OpIds |-> FALSE]
    /\ cancel = [o \in OpIds |-> FALSE]
    /\ error = [o \in OpIds |-> "none"]
    /\ drain = NoNode
    /\ pc = [n \in Nodes |-> "down"]
    /\ queue = [n \in Nodes |-> NoId]
    /\ operation = [n \in Nodes |-> NoId]
    /\ wants = [c \in Clients |-> NoInput]
    /\ runs = [q \in QueueIds |-> 0]
    /\ outcome = [q \in QueueIds |-> "open"]
    /\ crashes = 0 /\ faults = 0

-----------------------------------------------------------------------------
(* Admission: addUniqueUserOperationQueue. *)

Waiting == {q \in rows : isWaiting[q]}

AlreadyQueued(i) == \E q \in Waiting : inputOf[q] = i

MayAdmitUnlocked(i) == TRUE

\* FOR UPDATE on the source row: no other admission of this input is between
\* its findOne and its commit.
MayAdmit(i) == SourceLocked => \A c \in Clients : wants[c] # i

\* findOne({inputHash, isWaiting: true}); an existing row is returned as it is.
FindDuplicate(c) ==
    /\ wants[c] = NoInput
    /\ lastQueue + Cardinality({d \in Clients : wants[d] # NoInput}) < MaxQueues
    /\ \E i \in Inputs :
          /\ MayAdmit(i)
          /\ ~AlreadyQueued(i)
          /\ wants' = [wants EXCEPT ![c] = i]
    /\ UNCHANGED <<queueVars, opVars, nodeVars, histVars, boundVars>>

\* create(), and the commit that releases the row lock.
InsertQueue(c) ==
    /\ wants[c] # NoInput
    /\ lastQueue < MaxQueues
    /\ lastQueue' = lastQueue + 1
    /\ rows' = rows \cup {lastQueue'}
    /\ isWaiting' = [isWaiting EXCEPT ![lastQueue'] = TRUE]
    /\ inputOf' = [inputOf EXCEPT ![lastQueue'] = wants[c]]
    /\ wants' = [wants EXCEPT ![c] = NoInput]
    /\ UNCHANGED <<opOf, opVars, nodeVars, histVars, boundVars>>

\* cancelAsyncOperation: the owner asks a job to stop, at any time.
CancelOperation(o) ==
    /\ o \in ops /\ ~cancel[o]
    /\ cancel' = [cancel EXCEPT ![o] = TRUE]
    /\ UNCHANGED <<queueVars, lastOp, ops, inProcess, finished, error, nodeVars,
                   wants, histVars, boundVars>>

-----------------------------------------------------------------------------
(* The drain. *)

Goto(n, s) == pc' = [pc EXCEPT ![n] = s]

\* The drain returns or throws: the lock and the rows in hand are released.
Return(n) ==
    /\ Goto(n, "idle")
    /\ drain' = IF drain = n THEN NoNode ELSE drain
    /\ queue' = [queue EXCEPT ![n] = NoId]
    /\ operation' = [operation EXCEPT ![n] = NoId]

\* After an item: the loop goes on, or has reached its limit.
NextItem(n) ==
    \/ /\ Goto(n, "next")
       /\ queue' = [queue EXCEPT ![n] = NoId]
       /\ operation' = [operation EXCEPT ![n] = NoId]
       /\ UNCHANGED drain
    \/ Return(n)

LockIgnored == TRUE

\* pg_try_advisory_lock succeeds, when the drain takes the worker lock.
LockFree == Resume => drain = NoNode

\* processModuleOperationQueue, on a tick of the worker.
StartDrain(n) ==
    /\ pc[n] = "idle"
    /\ LockFree
    /\ drain' = IF Resume THEN n ELSE drain
    /\ Goto(n, "next")
    /\ UNCHANGED <<queueVars, opVars, queue, operation, wants, histVars, boundVars>>

Oldest(q) == q \in Waiting /\ \A r \in Waiting : q <= r

ResumableUnread(o) == FALSE
ResumableAlways(o) == ~finished[o]

\* The job was interrupted and its operation may be taken up again.
Resumable(o) == Resume /\ ~finished[o]

\* getNextProcessableOperationQueue: row and operation are read in one query.
ReadNext(n) ==
    /\ pc[n] = "next"
    /\ \/ Waiting = {} /\ Return(n)
       \/ \E q \in Waiting :
            /\ Oldest(q)
            /\ IF opOf[q] # NoId /\ inProcess[opOf[q]]
               THEN Return(n)
               ELSE /\ queue' = [queue EXCEPT ![n] = q]
                    /\ operation' = [operation EXCEPT ![n] = opOf[q]]
                    /\ Goto(n, IF opOf[q] = NoId \/ Resumable(opOf[q])
                               THEN "payload" ELSE "drop")
                    /\ UNCHANGED drain
    /\ UNCHANGED <<queueVars, opVars, wants, histVars, boundVars>>

\* closeUserOperationQueue: the interrupted or finished job, or one whose
\* payload cannot be read, leaves the queue.
DropQueue(n) ==
    /\ pc[n] = "drop"
    /\ isWaiting' = [isWaiting EXCEPT ![queue[n]] = FALSE]
    /\ NextItem(n)
    /\ UNCHANGED <<lastQueue, rows, inputOf, opOf, opVars, wants, histVars, boundVars>>

\* options.getPayload, then startedAt; an unreadable input fails the job.
GetPayload(n) ==
    /\ pc[n] = "payload"
    /\ \/ /\ Goto(n, IF operation[n] = NoId THEN "create" ELSE "resume")
          /\ UNCHANGED outcome
       \/ /\ Goto(n, "drop")
          /\ outcome' = [outcome EXCEPT ![queue[n]] = "failed"]
    /\ UNCHANGED <<queueVars, opVars, drain, queue, operation, wants, runs, boundVars>>

\* addAsyncOperation.
CreateOperation(n) ==
    /\ pc[n] = "create"
    /\ lastOp < MaxOps
    /\ lastOp' = lastOp + 1
    /\ ops' = ops \cup {lastOp'}
    /\ inProcess' = [inProcess EXCEPT ![lastOp'] = TRUE]
    /\ operation' = [operation EXCEPT ![n] = lastOp']
    /\ Goto(n, "link")
    /\ UNCHANGED <<queueVars, finished, cancel, error, drain, queue, wants,
                   histVars, boundVars>>

\* setAsyncOperationToUserOperationQueue.
LinkOperation(n) ==
    /\ pc[n] = "link"
    /\ opOf' = [opOf EXCEPT ![queue[n]] = operation[n]]
    /\ Goto(n, IF Resume THEN "check" ELSE "run")
    /\ UNCHANGED <<lastQueue, rows, isWaiting, inputOf, opVars, drain, queue,
                   operation, wants, histVars, boundVars>>

\* The interrupted operation is taken up again.
ResumeOperation(n) ==
    /\ pc[n] = "resume"
    /\ inProcess' = [inProcess EXCEPT ![operation[n]] = TRUE]
    /\ error' = [error EXCEPT ![operation[n]] = "none"]
    /\ Goto(n, "check")
    /\ UNCHANGED <<queueVars, lastOp, ops, finished, cancel, drain, queue,
                   operation, wants, histVars, boundVars>>

AfterCheckSkipped(o) == "run"

AfterCheck(o) == IF cancel[o] THEN "canceled" ELSE "run"

\* handleOperationCancel before a resumable job runs.
CheckCancel(n) ==
    /\ pc[n] = "check"
    /\ Goto(n, AfterCheck(operation[n]))
    /\ UNCHANGED <<queueVars, opVars, drain, queue, operation, wants, histVars, boundVars>>

\* The history outcome of the row in hand, unless its operation is finished.
Fails(n) == outcome' = [outcome EXCEPT ![queue[n]] =
                IF @ = "finished" THEN @ ELSE "failed"]

\* errorAsyncOperation("canceled"), then the throw into the catch block.
StopCanceled(n) ==
    /\ pc[n] = "canceled"
    /\ inProcess' = [inProcess EXCEPT ![operation[n]] = FALSE]
    /\ error' = [error EXCEPT ![operation[n]] = "canceled"]
    /\ Fails(n)
    /\ Goto(n, "failClose")
    /\ UNCHANGED <<queueVars, lastOp, ops, finished, cancel, drain, queue,
                   operation, wants, runs, boundVars>>

\* options.run starts.
StartRun(n) ==
    /\ pc[n] = "run"
    /\ runs' = [runs EXCEPT ![queue[n]] = @ + 1]
    /\ Goto(n, "running")
    /\ UNCHANGED <<queueVars, opVars, drain, queue, operation, wants, outcome, boundVars>>

\* options.run returns.
RunReturns(n) ==
    /\ pc[n] = "running"
    /\ Goto(n, IF Resume THEN "finish" ELSE "close")
    /\ UNCHANGED <<queueVars, opVars, drain, queue, operation, wants, histVars, boundVars>>

\* options.run throws.
RunThrows(n) ==
    /\ pc[n] = "running"
    /\ Fails(n)
    /\ Goto(n, "failClose")
    /\ UNCHANGED <<queueVars, opVars, drain, queue, operation, wants, runs, boundVars>>

\* options.run notices the cancellation at one of its checkpoints.
RunCanceled(n) ==
    /\ pc[n] = "running"
    /\ cancel[operation[n]]
    /\ Goto(n, "canceled")
    /\ UNCHANGED <<queueVars, opVars, drain, queue, operation, wants, histVars, boundVars>>

\* finishAsyncOperation: before the row is closed when jobs are resumed, after
\* it otherwise.
FinishOperation(n) ==
    /\ pc[n] = "finish"
    /\ inProcess' = [inProcess EXCEPT ![operation[n]] = FALSE]
    /\ finished' = [finished EXCEPT ![operation[n]] = TRUE]
    /\ outcome' = [outcome EXCEPT ![queue[n]] = "finished"]
    /\ IF Resume THEN Goto(n, "close") /\ UNCHANGED <<drain, queue, operation>>
                 ELSE NextItem(n)
    /\ UNCHANGED <<queueVars, lastOp, ops, cancel, error, wants, runs, boundVars>>

\* The rows closeUserOperationQueueByAsyncOperationId(o) updates.
RowsOf(o) == {q \in rows : opOf[q] = o}

CloseRows(o) ==
    isWaiting' = [q \in QueueIds |-> isWaiting[q] /\ q \notin RowsOf(o)]

CloseQueue(n) ==
    /\ pc[n] = "close"
    /\ CloseRows(operation[n])
    /\ IF Resume THEN NextItem(n)
                 ELSE Goto(n, "finish") /\ UNCHANGED <<drain, queue, operation>>
    /\ UNCHANGED <<lastQueue, rows, inputOf, opOf, opVars, wants, histVars, boundVars>>

\* The catch block: the row first ...
FailClose(n) ==
    /\ pc[n] = "failClose"
    /\ CloseRows(operation[n])
    /\ Goto(n, "failError")
    /\ UNCHANGED <<lastQueue, rows, inputOf, opOf, opVars, drain, queue, operation,
                   wants, histVars, boundVars>>

\* ... then errorAsyncOperation.
FailError(n) ==
    /\ pc[n] = "failError"
    /\ inProcess' = [inProcess EXCEPT ![operation[n]] = FALSE]
    /\ error' = [error EXCEPT ![operation[n]] = "failed"]
    /\ NextItem(n)
    /\ UNCHANGED <<queueVars, lastOp, ops, finished, cancel, wants, histVars, boundVars>>

-----------------------------------------------------------------------------
(* Failures. *)

\* A database call rejects inside the try block of
\* processModuleOperationQueueItem: the catch block runs.
FaultCaught(n) ==
    /\ faults < MaxFaults
    /\ pc[n] \in {"check", "canceled", "finish", "close"}
    /\ faults' = faults + 1
    /\ Fails(n)
    /\ Goto(n, "failClose")
    /\ UNCHANGED <<queueVars, opVars, drain, queue, operation, wants, runs, crashes>>

\* It rejects anywhere else: the drain ends where it stands.
FaultThrown(n) ==
    /\ faults < MaxFaults
    /\ pc[n] \in {"next", "drop", "payload", "create", "link", "resume",
                  "failClose", "failError"}
    /\ faults' = faults + 1
    /\ Return(n)
    /\ UNCHANGED <<queueVars, opVars, wants, histVars, crashes>>

\* The process dies; its database session, and so its lock, goes with it.
Crash(n) ==
    /\ pc[n] # "down"
    /\ crashes < MaxCrashes
    /\ crashes' = crashes + 1
    /\ drain' = IF drain = n THEN NoNode ELSE drain
    /\ pc' = [pc EXCEPT ![n] = "down"]
    /\ queue' = [queue EXCEPT ![n] = NoId]
    /\ operation' = [operation EXCEPT ![n] = NoId]
    /\ UNCHANGED <<queueVars, opVars, wants, histVars, faults>>

StaleIgnoringQueues(o) == o \in ops /\ ~inProcess[o]

\* cleanupFinishedAsyncOperations: what the start may delete.
Stale(o) == o \in ops /\ ~inProcess[o] /\ ~ \E q \in RowsOf(o) : isWaiting[q]

\* A row in a live drain's hands was updated within the retention period.
InHand(o) == \E n \in Nodes : operation[n] = o

CloseAllSkipped == UNCHANGED <<inProcess, error>>

\* closeAllAsyncOperation.
CloseAll ==
    /\ inProcess' = [o \in OpIds |-> FALSE]
    /\ error' = [o \in OpIds |-> IF inProcess[o] THEN "node-restart" ELSE error[o]]

\* A start of the process: closeAllAsyncOperation marks whatever is in process,
\* then the cleanup deletes any of the old rows (their age is not modelled;
\* the rows just marked are fresh), and the worker is started.
Boot(n) ==
    /\ pc[n] = "down"
    /\ Goto(n, "idle")
    /\ CloseAll
    /\ \E old \in SUBSET {o \in ops : Stale(o) /\ ~InHand(o)},
          orphans \in SUBSET {q \in rows : ~isWaiting[q] /\ opOf[q] = NoId} :
          /\ rows' = rows \ (orphans \cup {q \in rows : opOf[q] \in old})
          /\ ops' = ops \ old
    /\ UNCHANGED <<lastQueue, isWaiting, inputOf, opOf, lastOp, finished, cancel,
                   drain, queue, operation, wants, histVars, boundVars>>

-----------------------------------------------------------------------------
Drain(n) ==
    \/ StartDrain(n) \/ ReadNext(n) \/ DropQueue(n) \/ GetPayload(n)
    \/ CreateOperation(n) \/ LinkOperation(n) \/ ResumeOperation(n)
    \/ CheckCancel(n) \/ StopCanceled(n) \/ StartRun(n) \/ RunReturns(n)
    \/ RunThrows(n) \/ RunCanceled(n) \/ FinishOperation(n) \/ CloseQueue(n)
    \/ FailClose(n) \/ FailError(n)

Next ==
    \/ \E c \in Clients : FindDuplicate(c) \/ InsertQueue(c)
    \/ \E o \in OpIds : CancelOperation(o)
    \/ \E n \in Nodes : Drain(n) \/ FaultCaught(n) \/ FaultThrown(n) \/ Crash(n) \/ Boot(n)

Spec == Init /\ [][Next]_vars

\* The interval worker ticks, awaited calls settle, callbacks return or throw
\* (the producers bound them with timeouts), and a supervisor restarts a dead
\* process.  Nothing forces clients, cancellations or failures.
FairSpec == Spec /\ \A n \in Nodes : WF_vars(Drain(n)) /\ WF_vars(Boot(n))
-----------------------------------------------------------------------------
(* Properties. *)

\* Two drains never work on the same job, also when two processes tick at once
\* or one dies in the middle of a job.
OneDrainPerJob ==
    \A m, n \in Nodes : m # n => queue[m] = NoId \/ queue[m] # queue[n]

\* Two concurrent requests for the same input never leave two waiting rows
\* (the duplicate suppression of addUniqueUserOperationQueue).
NoDuplicateWaiting ==
    \A q, r \in Waiting : inputOf[q] = inputOf[r] => q = r

\* A job whose operation was finished never runs again, whatever crash or
\* failure comes between finishing the operation and closing the row.
FinishedNeverReruns ==
    [][\A q \in QueueIds : outcome[q] = "finished" => runs'[q] = runs[q]]_vars

\* A resumable job leaves the queue only because it finished or because its
\* own callback, payload or cancellation failed it: a crash never drops it.
CrashNeverDropsJob ==
    Resume => \A q \in rows : ~isWaiting[q] => outcome[q] # "open"

\* A job that is not resumable starts at most once, across crashes too.
AtMostOnce ==
    ~Resume => \A q \in QueueIds : runs[q] <= 1

\* A job cancelled while no drain has it in hand, say between the crash of the
\* process that ran it and its restart, never runs again.
CancelSurvivesRestart ==
    \A q \in QueueIds, k \in 0..(1 + MaxCrashes + MaxFaults) :
        [](/\ opOf[q] # NoId /\ cancel[opOf[q]] /\ runs[q] = k
           /\ \A n \in Nodes : queue[n] # q
           => [](runs[q] = k))

\* The client's view of a row: what polling its row and its operation shows.
StatusOf(q) ==
    CASE q > lastQueue -> "absent"
      [] q \in 1..lastQueue /\ q \notin rows -> "forgotten"
      [] q \in rows /\ opOf[q] # NoId /\ finished[opOf[q]] -> "done"
      [] q \in rows /\ ~(opOf[q] # NoId /\ finished[opOf[q]])
           /\ (isWaiting[q] \/ (opOf[q] # NoId /\ inProcess[opOf[q]])) -> "open"
      [] OTHER -> "failed"

Ledger == INSTANCE JobLedger WITH
    Jobs <- QueueIds, status <- [q \in QueueIds |-> StatusOf(q)]

\* The queue keeps the ledger's promise: the status a client polls only moves
\* forward, and the startup cleanup deletes resolved jobs only.
KeepsLedger == Ledger!Spec

\* Every job eventually leaves the queue, and its operation does not stay in
\* process for ever.
EveryJobLeaves ==
    \A q \in QueueIds :
        (q \in rows /\ StatusOf(q) = "open") ~> (StatusOf(q) # "open")

-----------------------------------------------------------------------------
(* The inductive invariant behind the proofs. *)

Active(n) == pc[n] \notin {"down", "idle"}

DrainInv == Resume => \A n \in Nodes : Active(n) <=> drain = n

RowsInv ==
    /\ \A q \in QueueIds : isWaiting[q] => q \in rows
    /\ \A q \in QueueIds : opOf[q] # NoId => q <= lastQueue /\ opOf[q] <= lastOp
    /\ \A q, r \in QueueIds : opOf[q] # NoId /\ opOf[q] = opOf[r] => q = r
    /\ \A q \in QueueIds : q > lastQueue => outcome[q] = "open" /\ runs[q] = 0
    /\ \A o \in OpIds : o > lastOp => ~finished[o]

\* What a drain knows of the row and the operation in its hands.
HandOK(n) == LET q == queue[n]  o == operation[n] IN
    /\ pc[n] \in {"drop", "payload", "create", "link", "resume", "check", "canceled",
                  "run", "running", "close"} => isWaiting[q]
    /\ pc[n] \in {"payload", "resume", "check", "canceled", "run", "running",
                  "finish", "close", "failClose", "failError"} => opOf[q] = o
    /\ pc[n] \in {"link", "resume", "check", "canceled", "run", "running",
                  "finish", "close", "failClose", "failError"} => o # NoId
    /\ pc[n] \in {"link", "resume", "check", "canceled", "run", "running", "finish"}
          => ~finished[o]
    /\ pc[n] = "payload" => o = NoId \/ Resumable(o)
    /\ pc[n] = "create" => o = NoId /\ opOf[q] = NoId
    /\ pc[n] = "link" => opOf[q] = NoId /\ o <= lastOp /\ \A r \in QueueIds : opOf[r] # o
    /\ pc[n] \in {"resume", "check"} => Resume
    /\ pc[n] = "finish" => (Resume <=> isWaiting[q])
    /\ pc[n] = "close" => (Resume <=> finished[o])
    /\ pc[n] = "drop" /\ Resume => outcome[q] # "open"
    /\ pc[n] \in {"failClose", "failError"} => outcome[q] # "open"
    /\ ~Resume /\ pc[n] \in {"link", "run", "running", "close", "finish"} => inProcess[o]
    /\ ~Resume /\ pc[n] = "run" => runs[q] = 0

HandInv == \A n \in Nodes : HandOK(n)

OutcomeInv ==
    /\ \A q \in QueueIds :
          outcome[q] = "finished" <=> opOf[q] # NoId /\ finished[opOf[q]]
    /\ Resume => \A q \in 1..lastQueue : ~isWaiting[q] => outcome[q] # "open"
    /\ ~Resume => \A q \in QueueIds :
          runs[q] <= 1 /\ (opOf[q] = NoId => runs[q] = 0)

\* Of the requests for an input, one is between its check and its insertion, and then
\* no row for that input waits.
AdmissionInv ==
    /\ NoDuplicateWaiting
    /\ \A c \in Clients : wants[c] # NoInput =>
          /\ \A q \in Waiting : inputOf[q] # wants[c]
          /\ \A d \in Clients : wants[d] = wants[c] => c = d

IInv == TypeOK /\ DrainInv /\ RowsInv /\ HandInv /\ OutcomeInv
=============================================================================
