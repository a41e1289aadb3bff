# A TLA+ verification of geesome-node

geesome-node is a self-hosted content node: users, groups and posts over
PostgreSQL, content on IPFS, and a number of background workers that move jobs,
messages and money. This directory holds TLA+ models of the parts where order,
failure and concurrency matter, TLC configurations that check them on small
instances, and proofs checked by TLAPS.

Paths below are relative to the repository root (`src/` in `PROJECT.json`).
`PROJECT.json` maps every definition that stands for code to its lines.

## 1. The system and its parts

One or more server processes share one PostgreSQL database and one IPFS node.
A process is single-threaded: other requests, workers and callbacks run at its
`await`s. Processes meet in the database (row locks, unique indexes, advisory
locks, lease columns) and in the external systems they call. Background work is
started by interval timers with an overlap guard (`app/backgroundWorker.ts`) and
stops on SIGTERM within a deadline (`app/processShutdown.ts`).

| Part (`app/modules` unless noted) | State it keeps | Operations | What is hard | What makes it correct |
|---|---|---|---|---|
| **asyncOperation** (job queue) | `userOperationQueues`, `userAsyncOperations`, map of running drains | enqueue, enqueue unique, drain, cancel, finish, fail, boot cleanup | two statements per transition; crash and restart; second process; cancellation while nobody or somebody works | a job is resolved once, never dropped by a crash, never run again when finished; run-once jobs start at most once |
| **content/resave** | the queue's rows for `content-resave` | request under source lock, execute, resume | re-execution after a crash | as above; no two waiting rows for an input |
| **payments: deposit accounts** (`cryptoAccounts`, `directCrypto`, `cryptoBalanceObserver`) | accounts (received, consumed, active invoice, scan lease), invoices, credits, deposits | quote, expire, scan, settle, review, rescan | the chain is observed without a lock; leases lapse; renewals race scans; providers lag | no unit is spent twice; a quote is paid once, in full, with money that came in time; the payable quote is the scanned one; money in time settles |
| **payments: treasury** (`cryptoTreasury`, `cryptoTransactionJournal`) | collection jobs, journaled transactions, session lock | enqueue, recover pending, plan, move reserve, swap, pay out | crash between signing and broadcast; lost answers; shared addresses; changing fees; failing jobs in a queue | a job spends its own invoice's money only; one unconfirmed transaction; done means paid; every job ends or shows why not |
| **autoActions** | rows with schedule, attempts and claim; dedupe rows; per-process queues, results and id sets | claim, execute, reschedule, retry, give up, chain, add/deactivate unique, clean up | claims that lapse; outcomes that cannot be written; chains through busy modules; crash with claimed work | duplicates only where a claim lapsed; attempts bounded; one active action per identity; what is due is executed; chains keep their root |
| **app/storageLifecycle** | PostgreSQL advisory locks, re-entrant contexts | shared/exclusive fence, worker lock, task and control locks | re-entrancy, callees that outlive their caller, sessions that break unnoticed | what runs under an exclusive fence runs alone |
| **staticSiteGenerator/replacement\*, storageSpace/siteRetirement** | the job's journal in an operation's output, receipts, holds | finalize, retain for external links, release, detach, unpin, recheck, collect, verify, retry | a saga of external calls with a crash anywhere, beside writers and other jobs that replaced the same objects | what is unpinned is on a journal; it is rechecked before it is collected; what is retained stays; the journal only grows; the saga ends |
| **staticSiteGenerator** (rendering) | render queue, receipts, recoveries, published site | admit, render, publish, checkpoint, finish, recover (at most three times), cancel | recovered after publication and before the receipt; sources edited meanwhile; a drain that still closes the operation it was replaced by | one site per request, of the contents that were asked for; an accepted recovery is not lost; requests end |
| **chat** | conversation head and log, deliveries, sync states and jobs | post, deliver, accept, reconcile by pages | claims that lapse, lost, late and repeated calls, out-of-order arrival, a repair beside a repair, revoked devices | delivered means stored; no cursor passes what is missing; what was lost is repaired |
| **imageComposition** | immutable rows, identity with its current row, operations with claim and recovery note, catalog item | create, revise, retry under a key | reclaim of an operation whose call still runs, crash before or after the swap, two revisions of one row | the current row only grows; a success stays in its line; a retry recognises its own row |
| **activityPub** | deliveries, follows, remote objects, refresh jobs | follow, accept, deliver, refresh, migrate | as chat; re-enqueued deliveries; updates against deletions | as chat |
| **pin** | accounts, pin states, reconciliation queue | auto-pin (through autoActions), reconcile | claimed queue, provider failures | pinned or failed, never forgotten |
| **localClient** | publication jobs leased to a client | compose, claim, report | lost reports, request keys reused | one publication per destination |
| **invite, membership** | invites and joined users; tiers and grants | register, grant | the count of an invite's uses is read before the registration and written after it | uses bounded; a grant per settled invoice |
| **group, fileCatalog, database, content, archive, staticId, socNet\*, bluesky, rss, gateway, api, drivers** … | SQL rows and files | CRUD, conversion, import | mostly sequential per request | permissions and formats |

How they interact: `content/resave`, importers, the site generator and the
archive are **producers** of the job queue; `pin` and `group/cron` are producers
of auto actions; the treasury enqueues what a scan **settled** and its transfers
on a deposit address are what a scan must **not** count as deposits; the cleanup
of a site replacement takes the **fence** exclusively that every content write
shares, and keeps its journal in the queue's operations; a render that replaces a
site ends where that cleanup begins; an image composition binds an item of the
file catalog to its current row.

The full list of parts, with the reason for each that is not modelled, is under
`components` in `PROJECT.json`; every hazard with its line is under `hazards`.

## 2. Modules

| Module | Part | Extends / uses |
|---|---|---|
| `JobLedger` | abstract: what a job queue promises | |
| `OperationQueue` | the job queue and its drain | instances `JobLedger` |
| `OperationQueueProofs` | its theorems | `OperationQueue`, TLAPS |
| `DepositLedger` | abstract: what a deposit account promises | |
| `CryptoAccounts` | quotes and scans of one account | instances `DepositLedger` |
| `CryptoAccountsProofs` | its theorems | `CryptoAccounts`, TLAPS |
| `Treasury` | the collection worker on one network | |
| `TreasuryProofs` | its theorems | `Treasury`, TLAPS |
| `AutoActions` | rows, claims and outcomes over several processes | |
| `CronQueues` | one process's queues, loops and chains | |
| `AutoActionsProofs` | the theorems of both | `AutoActions`, `CronQueues`, TLAPS |
| `StorageFence` | the shared and exclusive storage fence | |
| `SiteRetirement` | the cleanup of replaced sites, beside writers | extends `StorageFence` |
| `SiteRetirementProofs` | the theorems of both | `SiteRetirement`, TLAPS |
| `RenderLedger` | abstract: what the render queue promises | |
| `SiteRender` | the render queue and its recoveries | instances `RenderLedger` |
| `SiteRenderProofs` | its theorems | `SiteRender`, TLAPS |
| `MessageLog` | abstract: what a conversation promises its two ends | |
| `ChatDelivery` | one conversation between two nodes | instances `MessageLog` |
| `ChatProofs` | its theorems | `ChatDelivery`, TLAPS |
| `RevisionLine` | abstract: what a composition promises | |
| `ImageComposition` | creations and revisions of one composition | instances `RevisionLine` |
| `ImageCompositionProofs` | its theorems | `ImageComposition`, TLAPS |
| `MC*` | constants and symmetry for TLC | the module after `MC` |

### OperationQueue

`rows, isWaiting, inputOf, opOf` are the queue table; `ops, inProcess, finished,
cancel, error` the operations; `pc, queue, operation` one drain per process,
where each `await` of `processModuleOperationQueue…` is a step. `Resume` is
`resumeInterrupted`. A client's duplicate check (`FindDuplicate`) and insertion
(`InsertQueue`) are two steps; `SourceLocked` says that the caller holds the
source's row lock between them, as `content/resave` does. `Crash` loses the
drain and the session lock; `Boot` closes operations as interrupted and runs the
cleanup of old ones, which in the model may come at any age. `FaultCaught` and
`FaultThrown` are a failing statement inside and outside the `try`.

`outcome` and `runs` are history: what became of a job, and how often its
callback started.

### CryptoAccounts

Amounts are units. `deposited` and `finalized` are the customers' transfers,
`journal` and `mined` the treasury's own on the same address. A scan has four
steps: claim the lease, read account and journal, observe the chain without a
lock, commit. `seen[s]` is what it read. The four outcomes of a commit
(`CommitLost`, `CommitStale`, `Refused`, and the three of a good balance) are the
early returns and throws of the code, in their order. `overdue` is the clock
passing a quote's expiry and `cutoff` the deposits at that moment. `Review` is
the owner's approval of late money.

### Treasury

One network and one deposit address shared by all jobs, which is where jobs can
hurt each other. A run is `Start, Enqueue, Pending, Pick`, one decision of
`processJob`, `send`, and `Finish`, each a step between awaits, because a crash,
a failed call or a change of the fee may come between any two. `chain` is what
the network did with a transaction: it may have it although the answer was lost,
and it mines what it has, successfully or as a revert. A transaction costs what
was signed, the most it can. `delayed` counts `retryAt` in picks: a job that
threw is not ready at the next pick, since the retry interval is a multiple of
the worker's (60 s and 5 s in the defaults). The gas rows of a step are one slot
and the sum of those confirmed (`funded`), because their identities never repeat.

### AutoActions and CronQueues

`AutoActions` is the database and, per process, what it does with each action:
claimed, running, about to write success, failure or denial. `lapses` counts the
claims that ran out while some process had the action. `CronQueues` is the
memory of one process: `queueByModules`, `inProcessByModules` (`current`),
`actionIdsInQueueOrProcess` (`held`), the listed ids and results per root. JS code between two awaits is
one step there, including the loops that start others. `cause` is history: the
root an action was queued under.

### StorageFence and SiteRetirement

`StorageFence` has one record per outermost call: its lock at the server, its
mode, the users the context counts, and whether its session lives and its process
knows. `callees` is what runs under it, by the mode each asked for; a callee
leaves when it likes, before or after the call that started it. `Held` is
`assertHeld`. `Break` is the server's side of a broken session and `Notice` the
process's; between them the two disagree.

`SiteRetirement` extends it: workers enter exclusively, writers shared, with
callees nested in the writer's call. A pass is `TakeBatch` (the worker lock and
the due receipts), `EnterFence`, then job by job `Begin, ReleaseHolds, Detach…,
CheckCandidate, Retain | Unpin, SaveCandidate, Retired`, then for the batch
`StartCollection, Recheck, Sweep, Close`. `row[w][j]` is the receipt a worker
read or last wrote; `Checkpoint` updates the operation's output only where it is
still that. An object is a file under all its CIDs; `refs` is who uses it,
`pinned` and `present` are IPFS, and `Sweep` is `repo.gc` reaching an object: it
takes whatever is unpinned, not only what the batch unpinned. `Write` is a writer
that comes to use an old object again between two passes, or under a fence it no
longer has (`"stray"`). `Finalize` and `FinalizeRetained` are the two ways a
rendered replacement goes on, `RetryCleanup` the owner's retry, `Defer` a fence
that is busy.

### SiteRender

`rows` is a queue row with its receipt (`frozen`, the state of the contents as
asked for, and `result`), `ops` an operation with the recovery it is the attempt
of. A drain is `Take, FindStale, CloseStale, Create, Link, Mark, Prepare, Render,
Publish, Check, Store, Close, Finish, Complete` and the error paths, in the
code's order, each an await. `owed` counts the calls of the queue that a process's
requests have still to make: a request makes one, `Call` with the lock or `CallBusy`
in vain, and `Unlock` is a step after the drain's last look (`Idle`). The worker's
`Tick` takes pending recoveries only. `Boot` stops every running operation, whichever
process runs it; `Recover` links a new attempt to the row; `Prepare` adopts a
result that is there. A rendered site is known by the operation that rendered it,
so that two renders are never equal by accident. `Edit` may bring back an earlier
state of the contents. To `RenderLedger` a request's answer is whatever its receipt
and its finished operations report (`AnswersOf`), and an operation is the render it
began: a request is answered by one render, begun for it, and keeps that answer.

### ChatDelivery

One conversation between the author's node and a recipient's. `Post` numbers a
message and makes its delivery row; a sender is `Claim, Send, Record`; `LoseCall`,
`SendHalf`, `LoseAnswer` and `HandleLate` are calls that never arrive, arrive in
part, whose answer is lost, or that arrive after the caller gave up. `Record`
writes by id, claim or no claim. A repairer (a worker with a claimed job, or a
user's request) is `Ask` (reads the head), `ReadPage`, `Import`, `Persist`, page
by page from its cursor. `sync` is the recipient's state: the contiguous cursor
`scan`, `verified`, and the `head` it heard of.

The two nodes implement `MessageLog` (`KeepsLog`): `posted` is what was addressed to
a device of the recipient, `got` what its node stored, `told` the rows that say
delivered, `mark` the cursor `scan`. A call that arrives in any form, late or half,
and the import of a page are `Get`; the write at the end of a call is `Tell`, which may
also take back what was told, because rows are written by id; `Persist` is `Pass`.
Claims, lost calls, lapsed claims and failed repairs are steps the log does not see.
That nothing below the cursor is missing (the second half of `CursorComplete`) and
that what is reported is stored (`DeliveredIsStored`) follow from `KeepsLog` alone
(`LogKeepsItsWord`), so the run that checks it does not list them; each is a theorem
of the two nodes as well.

### ImageComposition

A manifest is a hash of the recipe, which names the manifest before it: so it is
modelled as the sequence of edits it was made by, and "descends from" is "is a
prefix of". `rows` are immutable; `identity` has the root, the current row and
the bound item; `ops` the claim, the recovery note and the result; `call` what
each request is doing between awaits. `Start, Claim, Poll, GiveUp` are admission;
`BeginCreate, BeginRevision, Draw, Save, Note` the row; `WriteRoot, Advance,
Place, Add, Bind` the transactions; `Succeed, Fail` the end; `Fault, Crash,
Expire` and `HideItem` the troubles. `refused` is history: the operations
whose last answer was a conflict. To `RevisionLine` the line is the current row's
manifest, an operation asks for the edit it was first claimed with (`AskedOf`),
and its answer is the revision its result names (`AnswerOf`). That an answered success
stays in the line (`SuccessTookEffect`) follows from `KeepsLine` (`LineKeepsAnswers`)
and is a theorem of the composition as well; the run lists `KeepsLine`.

## 3. What TLC checks

| Run | Instance | Properties | Distinct states |
|---|---|---|---|
| `queue_resume` | 2 processes, 2 clients, 2 inputs, 2 rows, 3 operations, 1 crash, fair | `OneDrainPerJob`, `NoDuplicateWaiting`, `CrashNeverDropsJob`, `CancelSurvivesRestart`, `KeepsLedger`, `EveryJobLeaves` | 165 thousand |
| `queue_once` | 1 process, 4 operations, 1 crash, 1 failed statement | `AtMostOnce` | 39 thousand |
| `accounts` | 2 scanners, 2 quotes, 1 deposit, 1 treasury transfer, 1 failure, fair | `CreditCovered`, `LiveQuoteIsActive`, `KeepsLedger`, `PaidOnTimeInFull`, `FundsSettle` | 249 thousand |
| `treasury` | 2 processes, a token invoice and a native one, 3 fees, 1 repricing, 1 failure, fair | `OwnReceipts`, `ReceiptsKept`, `OneUnconfirmed`, `DoneIsPaid`, `EveryJobCloses` | 362 thousand |
| `treasury_swaps` | 2 invoices of one token, 1 failure, fair | `StuckKeepsError`, **violated** | 10 thousand (stops at the violation) |
| `cron` | a chain of three modules, and a chain in a module that also runs scheduled actions; 1 failed call, fair | `HeldExact`, `ApartKeepsRoot`, `QueuedExecutes` | 24 thousand |
| `actions_claims` | 2 processes, 2 one-shot actions of one identity, 1 lapse, 1 crash, 1 failed write | `OneProcessPerClaim`, `RetryBudget`, `OneActivePerIdentity` | 1.1 million |
| `actions_live` | 2 processes, a one-shot and a recurring action, 1 crash, 1 failed write, fair | `DueExecutes` | 6.7 thousand |
| `retirement` | 1 object; 1 job with 3 faults, 2 jobs with 1, or 2 workers with 1; a writer with a nested call, 1 write, 1 retry, fair | `FenceExcludes`, `UnpinnedIsJournaled`, `RetainedStays`, `BatchRechecked`, `ProgressKept`, `CleanupEnds` | 121 thousand |
| `render` | 2 processes, 2 requests (one from before there were receipts), 2 recoveries each, 6 operations, 2 troubles, fair | `OutputsAgree`, `AcceptedStaysQueued`, `StoredIsFrozen`, `KeepsRenders`, `RecoveriesEnd` | 301 thousand |
| `chat` | 2 senders, a repairing worker and a user, 2 messages, 2 attempts, 1 trouble, fair | `KeepsLog`, `Repaired` | 538 thousand |
| `composition` | 2 requests at a time and 4 in all out of 8, 1 trouble | `RevisionsChain`, `RefusedIsOthers`, `KeepsLine` | 1.2 million |

What they show: the safety properties of each part hold through every
interleaving of its processes with the stated number of crashes, failures and
lapses, and what must end does end. `treasury_swaps` shows a job that waits for
ever without an error. Three properties are stated beside the others, do not hold,
and have no run: `QueueDrains`, `SweepSpares` and `ChainKeepsRoot`; below and in section 5
is what breaks them, and which weaker property a run checks in their place.

Every property of a passing run has a mutant of a mapped definition, a plausible
bug of that code, for which the run fails (`mutants` in `PROJECT.json`; the
mutated operators stand before the originals, marked `Mutant:`). Type invariants
are not spent a run on: they are proved.

### Bounds, and why they are enough

- Two processes: every race in this code is between a holder of a lock, lease or
  claim and one that comes after it. A third adds no new relation, and the proofs
  cover any number.
- Two queue rows with two inputs give a duplicate, a head-of-line job and one
  behind it; three operations leave room for a job whose operation a crash
  orphaned. Two quotes give a renewal that races a scan of the first, with a
  deposit before or after the expiry. Two treasury jobs, a token one
  and a native one, are the least that share the address while one waits for gas
  that the other's money pays for.
- One crash and one failed call per behaviour in the older modules. A second one
  would find the state the first left, and safety for any number is proved for
  the queue, the accounts, the treasury, the retirement, the chat, the composition
  and the auto actions. `SiteRetirement` has three faults where it has one job
  (three failures in a row end the automatic attempts), and `SiteRender` two. The counters `MaxCrashes`, `MaxFaults`, `MaxFailures`,
  `MaxLapses`, `MaxReprices`, `MaxTroubles`, `MaxRetries`, `MaxWrites`,
  `MaxCalls`, `MaxUsers`, `MaxMessages`, `MaxQueues`, `MaxOps`, `MaxInvoices`,
  `MaxDeposits`, `MaxJournal`, `MaxPages`, `MaxCallFaults` are bounds of the models, not of the
  code; `MaxLinks` of `CronQueues` caps how often a root lists one action, beyond
  which it counts as "that often or more" (`Fewer` chooses both ways).
- Treasury's amounts let each outcome happen: fees of 1 and 2 for gas that falls
  short after a repricing, and of 15 for a native invoice that its fee eats up,
  at the reserve or at the payout; a float of 0 for a service that cannot fund
  gas yet, and of 5 for one that can but is low.
- `retirement`'s loads each make one thing happen: a job that fails three times,
  two jobs that replaced the same object, and two workers of which one loses its
  lock. One object is enough, since nothing in the code relates two objects of a
  job but the order in which they are taken.
- `render`'s recovery limit is 2 (3 in the code): the second recovery finds what
  the first left. A third would take a third trouble, so that the run never refuses
  one: the refusal is read off the code in a guard of `Recover` (`Attempts`), and the
  proofs hold for any limit. Renders of a group have no receipt, as
  requests from before there were any; the run has one of those.
- `chat`'s attempts are 2 (8 in the code), a claim takes one row (20) and a page
  one message (10): a first try, a last one, and a message behind another. One page
  per repair (`MaxPages`), as its second page equals the first of the next repair
  from the same cursor.
- `composition`'s eight asks are two creations in the same words, one of them with
  a folder, and one in others under a key of the second; revisions of the root by one edit under
  two keys and by another under a key that is used twice; one that names a wrong
  revision; and a revision of a revision.

Deadlock is checked everywhere except in `actions_claims`, `actions_live`,
`render`, `chat` and `composition`: there everything may be over, once the bounded
actions, requests or messages are, and a pass that finds nothing is not a step.

### Fairness

- `OperationQueue`: weak fairness of each process's drain and boot. The interval
  worker ticks (`backgroundWorker.ts`), awaited calls settle, producers bound
  their callbacks with timeouts, and a supervisor restarts a dead process.
  Clients, cancellations and failures are not fair.
- `CryptoAccounts`: weak fairness of each scan, of the lease running out, of
  finalization, and of mining what the treasury journaled (it rebroadcasts).
- `Treasury`: weak fairness of *some* process's run, since any process may hold
  the lock, of a retry coming due, and of mining. Payers, fees and failures are
  not fair. `EveryJobCloses` names the jobs that may wait: one that lacks gas
  (`LacksGas`) while the fee is above what a full service address covers, or while a
  job that ended with the operator has kept back what it was to refill the service
  with (`KeptBack`), and one of whose reserve the fee leaves nothing (`BelowFee`).
- `CronQueues`: weak fairness of the pass and of each loop. `AutoActions`: of
  some process's pass, of executing and writing, and of claims running out.
- `SiteRetirement`: weak fairness of some worker's tick, of a pass's steps and of
  a backoff running out; strong fairness of entering the fence, as the server
  grants locks in the order they were asked for and writers come and go; and of
  each writer returning, its last callee included (strong, because callees may
  come and go meanwhile). Writes, finalizations and retries are not fair.
- `SiteRender`: weak fairness of the drain's steps, of boots, and of each call that a
  request owes, which finds the lock free or not; strong fairness of the recovery
  worker's two-second tick, which comes again when a drain had the lock. No call is
  made that no request made. Edits, cancellations
  and recoveries are not fair.
- `ChatDelivery`: weak fairness of each sender and of each repair worker, and of
  claims running out. Users, posts and troubles are not fair.
- `ImageComposition`: none; what it promises is safety. A call whose claim is
  held by another gives up after fifty polls, and nobody must retry.

### Disagreements found

`treasury_swaps`: `cryptoTreasury.ts:358` identifies an approval by job. After
another job of the same token used the allowance up, the job's confirmed
approval is found again, nothing is sent, and the job stays in `swap` without
an error, ahead of every later job, against `payments/docs/overview.md:66`
and the test at `test/payments/managedSql.spec.ts:256`. The trace: two token
jobs are planned while the service is low; the first's approval is confirmed
and its next turn fails once, which delays it; the second moves its reserve and
swaps with the first's allowance; the first comes back. Without a second job of
the token (`treasury`) every job ends.

`QueueDrains` (TLC refutes it in the instance of `render` without troubles, with
`Old = {}` and `MaxOps = 2`): a request calls the queue once (`staticSiteGenerator/index.ts:273`),
and a call that finds the lock taken ends in silence (`index.ts:290-302`). The trace:
a drain finds the queue empty, a request adds its row and calls in vain, and the
drain releases the lock. The row waits until somebody makes another request,
against `staticSiteGenerator/docs/overview.md:21,23`, by which the processor
continues until no work remains. `RecoveriesEnd` is what holds, of the rows that the
worker comes for.

`SweepSpares` (TLC refutes it with two jobs that replaced an object each, one worker,
one fault and one write): `repo.gc` (`siteRetirement.ts:263`) takes every unpinned object,
and only the jobs of the batch are rechecked before it (`:236-250`). The trace: a job
unpins its object and fails, a post comes to use the object again, and the
collection of another job takes it before the first is due, against
`docs/image-optimization-retirement-plan.md:296-297`, by which every unpinned root is
rechecked. `BatchRechecked` is what holds, of the jobs that are collected, and
`UnpinnedIsJournaled`, by which a journal still names the object. A job whose attempts
are over leaves its objects so until its owner retries.

Other places where code and text part were met while modelling and are named with
their part in section 5.

## 4. What is proved

TLAPS checks, for every value of the constants that the named assumptions allow:

| Module | Theorems |
|---|---|
| `OperationQueueProofs` | `Invariance`, `TypeCorrect`, `Exclusion` (`OneDrainPerJob`), `NothingDropped` (`CrashNeverDropsJob`), `StartsAtMostOnce` (`AtMostOnce`), `NoDuplicates` (`NoDuplicateWaiting`), `NoRerun` (`FinishedNeverReruns`), `CanceledStaysStopped` (`CancelSurvivesRestart`), `Refinement` (`KeepsLedger`) |
| `CryptoAccountsProofs` | `Invariance`, `TypeCorrect`, `CreditStaysCovered` (`CreditCovered`), `QuoteStaysActive` (`LiveQuoteIsActive`), `OnTime` (`PaidOnTimeInFull`), `Refinement` (`KeepsLedger`) |
| `TreasuryProofs` | `Invariance`, `TypeCorrect`, `OwnReceiptsOnly` (`OwnReceipts`), `OneAtATime` (`OneUnconfirmed`), `DoneMeansPaid` (`DoneIsPaid`), `OthersReceiptsKept` (`ReceiptsKept`) |
| `AutoActionsProofs` | `Invariance`, `TypeCorrect`, `DuplicatesNeedLapses` (`OneProcessPerClaim`), `OneActive` (`OneActivePerIdentity`), `BudgetKept` (`RetryBudget`); of `CronQueues`: `CronInvariance`, `CronTypeCorrect`, `CronHeld` (`HeldExact`), `CronRoots` (`ApartKeepsRoot`) |
| `SiteRetirementProofs` | of `StorageFence`: `FenceInvariance`, `Exclusion` (`FenceExcludes`); of `SiteRetirement`: `Invariance`, `TypeCorrect`, `CleanupRunsAlone` (`FenceExcludes`), `RetainedSurvive` (`RetainedStays`), `NothingForgotten` (`UnpinnedIsJournaled`), `JournalsOnlyGrow` (`ProgressKept`), `RecheckedOnly` (`BatchRechecked`) |
| `SiteRenderProofs` | `Invariance`, `TypeCorrect`, `OneResult` (`OutputsAgree`), `AcceptedWaits` (`AcceptedStaysQueued`), `CheckpointKeepsRequest` (`StoredIsFrozen`), `OwnRenders`, `Refinement` (`KeepsRenders`) |
| `ChatProofs` | `Invariance`, `TypeCorrect`, `CursorIsComplete` (`CursorComplete`), `DeliveredAreStored` (`DeliveredIsStored`), `CursorsOnlyGrow` (`CursorsGrow`), `Refinement` (`KeepsLog`), `LogKeepsItsWord` (of `KeepsLog`) |
| `ImageCompositionProofs` | `Invariance`, `TypeCorrect`, `AnswersTakeEffect` (`SuccessTookEffect`), `RevisionsInLine` (`RevisionsChain`), `OwnRowNoConflict` (`RefusedIsOthers`), `Refinement` (`KeepsLine`), `LineKeepsAnswers` (of `KeepsLine`) |

Assumptions: `ConfigAssumption` and `DrainAssumption` (a queue that is not
resumable has one process, since only an in-process map excludes its drains), `SourceLocked` (for
`NoDuplicates` only: callers admit under their source's row lock),
`AccountAssumption` (prices are positive), `TreasuryAssumption` (amounts,
refills and fees are positive), `ActionsAssumption` (finitely many
processes, a positive number of attempts, identities' actions are one-shot),
`FenceAssumption`, `ChatAssumption` and `CompositionAssumption` (sets are
disjoint, limits positive; a creation names no target, only a creation a folder),
`RetirementAssumption` (clients are the workers and the writers),
`RenderAssumption` (no node is `NoNode`, the limits are numbers) and
`QueuesAssumption` (setups of the declared shape, finitely many actions, `None`
neither an action nor a module). They are evaluated by every run.

Each `Invariance` is by an inductive invariant (`IInv`, `FenceInv` for the
fence), stated beside the properties in the component's module.

- *Queue*: `OneDrainPerJob` alone is not inductive: nothing in it says why a
  second drain cannot pick the row. `DrainInv` ties a working drain to the
  lock's holder, `RowsInv` makes rows and operations one to one, `HandInv` says
  for each step of a drain what its row and operation look like in the tables
  (waiting, linked, unfinished, in process), and `OutcomeInv` ties history to
  the tables: an unresolved job is waiting, a finished one has a finished
  operation. `AdmissionInv` is for `NoDuplicates`: of the requests for one input at
  most one is between its check and its insertion, and then no row waits for that
  input. `CancelSurvivesRestart` (once stopped, always stopped) is by `Stopped`: the
  row has a cancelled operation and no drain is at the start of its callback, which
  only the check of the cancellation and the link of a new operation lead to.
  The refinement maps a row and its operation to the client's status
  (`StatusOf`); each action is shown to move each status as the ledger allows.
- *Accounts*: the commit uses numbers read long before. `ScanInv` keeps what
  makes them safe: as long as the journal a scan read is still the journal, its
  total is at most what is finalized, and its timely part at most the cutoff.
  The commit's three comparisons (lease, active quote, journal) are exactly what
  the step needs; without the journal's, the total may contain a treasury
  transfer and `CreditCovered` fails. `FundsInv` and `QuotesInv` carry the rest.
- *Treasury*: the lock admits one run, so that what a run has in hand (`HandInv`)
  can be related to the journal: beyond `Pending` it found nothing unconfirmed, or
  works on what it found. `PlanInv` and `RequestInv` keep the value `send` is
  asked for within what the job's own invoice has left, from the decision to the
  journal; `Covered` says the sender of a signed transaction has what it costs until
  it is mined. `ReceiptsKept` is an inequality that a step of one job breaks or keeps
  only together with all other jobs, so that it is proved from an equation, `Accounts`:
  the address has to the unit the sum of the jobs' shares, where a share is what came
  of the invoice's money and of its steps' gas less what its mined transactions moved
  and burnt; a step then changes one share by what it changes the balance, and each
  share is at least what the job left (`OwnReceipts`). The sums are folds, over
  finitely many of any number of jobs. The library's induction theorems take an
  operator and cannot be used, so the lemmas on sums (one exists for each finite set,
  it adds element by element, in any order) are by minimal counterexample, with the
  well-foundedness of `<` and of the strict subsets, which the library states of a set.
- *Auto actions*: `OneProcessPerClaim` counts holders against lapses and is
  inductive with the types; each outcome's release frees the claim whoever
  holds it, so the bound must pay for a release by a late process: that is the
  lapse which made it late. `KeyPointsToActive` is the strengthening behind
  `OneActivePerIdentity`. `RetryBudget` needs `Accounted`: where no claim lapsed,
  the executions and the attempts the row has left are together no more than the
  attempts allowed (`Total`, and one for each crash and failed write), or one more
  while an execution is under way, and that execution has read the row as it is. The proof corrected the property. It used to promise a multiple of the
  attempts for each lapse, which held for two attempts and is false for three: one
  lapse makes two holders, each holder's outcome releases the other's claim, and two
  processes then take turns, each writing the count it read before the other wrote
  (seven executions for three attempts, eleven for four). The promise is made for
  actions whose claims never lapsed.
- *Cron queues*: `HeldExact` says the set of ids is what is queued or running.
  `Placed` (an id is only in the queue of its action's module) and `Exact` (once, and
  not while it runs) make each removal from one queue a removal from the set.
  `Rooted` is behind `ApartKeepsRoot`: what a loop finds in the queue of a module that
  has one action was put there under the loop's own root.
- *Fence*: `FenceInv` counts: a context's users are the callees that run in it;
  an active context on a live session has the lock of its mode at the server; an
  exclusive callee is only under an exclusive context; and locks at the server
  are compatible. `SiteRetirement` takes its fence steps from `StorageFence`.
- *Retirement*: `UsesFence` shows that its steps are steps of the fence, which
  gives it `FenceInv`. `ReceiptsInv` says what a receipt's status implies (a receipt
  that waits for collection has no candidate left), `JournalInv` that the result in a
  worker's hands is the receipt it began with but for the objects done since, which
  makes each compare-and-swap a step forward and gives `ProgressKept`, lock or no
  lock. `HoldsInv` (every job that may yet retain its old site is in every snapshot
  that is still used) keeps `RetainedStays`. `RecheckedInv` extends the recheck to
  the sweep: as long as the session lives only a stray comes to use an object.
  `SoleInv` holds until a worker lock is lost: one worker is at work and what it read
  is what the database has; with it, an object that is unpinned is a candidate of a
  waiting receipt, and a receipt that stops naming it has it pinned again or collected.
- *Render*: `OutputsAgree` compares operations that different drains finished, days
  and restarts apart. `OutputsOK` says why they agree: what an operation reported
  is what the receipt has, and as long as there is no receipt only the operation the row
  names has reported anything. `DrainBegan` and `DrainHasResult` give that to a drain:
  its row names its operation or an attempt that has not begun, and its result is
  the receipt's or its own render, published and not yet replaced. `VersionsGrow` and
  `DrainIsCurrent` order what was rendered after what the request froze: an edit in
  between makes the render's version later, which the check at the end cannot miss
  (`StoredIsFrozen`). `AcceptedStaysQueued` is a conjunct of the invariant itself.
  The refinement needs one more fact, `OwnResults`: a receipt's result was rendered by
  an operation of its own request, and an operation that reported without a receipt
  reported its own render. It makes `AnswersOf` none or one at each step. A checkpoint
  or the end of an operation answers, a recovery begins a render and may adopt an answer
  with it, and every other step is `Quiet`: it changes no result and no owner.
- *Chat*: a cursor is safe because of the order in which a repair reads: the
  author's head before the page. `PageComplete` says at each step what the page
  in hand and the store make up for, `Numbered` that nothing is ahead of the
  author's node, `AcceptedIsStored` that an answer a sender has is true, and
  `AttemptsLeft` that a row which is tried again may be. The refinement of `MessageLog`
  uses each of them once: a post is after every cursor (`Numbered`), a sender tells only
  what its answer says (`AcceptedIsStored`), a cursor passes what is stored (the next
  state's `CursorComplete`), and `OthersUnseen` shows that no other action is seen.
- *Composition*: `RowsInv` knows a row by the operation that made it; `IdentityInv`
  says that the current row descends from the root and that its maker can find it
  again (`Kept`: it has succeeded, or noted the row, or another row is equal);
  `OpsInv` and `CallsInv` say what a note and each step of a call stand for. A
  lapsed call that still runs is harmless because everything it writes after its
  claim is either guarded by the claim or by the row it was based on. The refinement
  maps a claim, a row that becomes the current one, and a success to the three steps of
  `RevisionLine`, and shows of every other step that it is not seen. Its hard half is
  that an operation commits before it answers and never after: what is in the line for
  an answered operation is still there (`SuccessTookEffect`'s invariant), and a call
  without the claim cannot have its row put where its operation has answered.

Every invariant that a run checks is stated by a theorem. Proved and not spent a
run on: `FinishedNeverReruns` and `CursorsGrow`. Out of the prover's reach and left to
TLC: liveness (`EveryJobLeaves`, `FundsSettle`, `EveryJobCloses`, `StuckKeepsError`,
`QueuedExecutes`, `DueExecutes`, `CleanupEnds`, `RecoveriesEnd`, `Repaired`), which needs
fairness and ENABLED.

## 5. What the models leave out

In general:

- Transactions are atomic; PostgreSQL's isolation below that is not modelled.
- Advisory locks of the treasury, of the queue's drain and of the render queue
  are lost with the process only; a session that breaks while its holder goes on
  is modelled for the fence and for the replacement worker's lock.
- Balances, prices, fees, addresses, contents and due times are small numbers,
  model values or choices; RPC answers are right, late or missing, never forged.

Part by part, with what was met while reading that no run states:

- *Queue.* A failing statement of the queue's own `catch` block leaves an operation in
  process and its row waiting until the next restart. The safety properties hold
  (`queue_once` has the failure); `EveryJobLeaves` is checked without failed
  statements and would not hold with them short of a restart.
- *Auto actions.* API edits of a row that executes, and chained executions in
  several processes at once, are not modelled. A chain through a module that is
  busy loses its root: `runQueueByModule` (`cronService.ts:56-75`) runs what was
  queued meanwhile with the root its loop was started with, against
  `autoActions/docs/overview.md:15,21`; the test (`autoActions.test.ts:53`) has
  idle modules only. `ChainKeepsRoot` states it; `ApartKeepsRoot` is
  checked, and proved, where each action has a module of its own.
- *Treasury.* Several networks in one run, nonces, eligibility of a fee other than
  as a failed turn, a changed seed.
- *Retirement.* `assertHeld` and the call after it are one step;
  finalization with retention and the writing of a failing row are atomic; the
  request, its render and the archives of rendered rows are before the model
  begins. Two workers at once are covered by `ProgressKept` and `CleanupEnds`;
  `UnpinnedIsJournaled` says nothing once a worker lock was lost. The sweep also
  collects what *another* job, waiting out its backoff or given up, had unpinned
  (`SweepSpares`): `BatchRechecked` is stated for the batch for this reason,
  and `UnpinnedIsJournaled` says only that a journal names the object.
- *Render.* A row whose call was lost, to a busy lock (`QueueDrains`) or with its
  process, waits for a later request. `RecoveriesEnd` promises an end to recoveries
  only, which the worker comes for, and exempts two: an attempt cancelled before it
  began, which keeps the head of the queue until a restart (`overview.md:23`), and one
  accepted after another process's boot, while a drain had read the row before it:
  the drain's `Link` (`index.ts:343`) names the older attempt again, and the new one's
  operation stays in process until the next boot (`Superseded`). A recovery
  adopts a published result without comparing the sources again (`overview.md:38`;
  a test does so deliberately). An edit that is taken back in time is not noticed
  (`reverted`). Two drains beside a broken lock session, rendering itself, the
  publication tree and options are not modelled.
- *Chat.* `delivery.ts:98` and `:148` update by id: a sender whose claim ran out
  can mark a delivered message failed (not pending: an instance's update sends
  only what differs from what was read); `DeliveredIsStored` is the direction that
  holds, and `Tell` may take back for this reason, so that `KeepsLog` does not tell
  whether the write asks for the claim. The count of attempts
  can stay below the sends made under lapsed claims. A message for a revoked
  device makes every later repair fail at it: `Repaired` exempts it (`Refused`).
  Recipient rows of a second local owner and attachments are not modelled; the
  head a sync source remembers, which may regress, is a hint and written atomically
  here; an acceptance is atomic but for `SendHalf`.
- *Composition.* A single folder; whether stickers renew the claim is a choice
  (`Draw`); the read of the composite and of its identity is one step. A creation
  with a folder that overlaps a revision binds the item to the row it started
  from, after which every later revision is told of a conflict
  (`ensureCatalogPlacement` does not look at the current row;
  `imageComposition/docs/overview.md:23-25`): no property promises that a revision
  succeeds. A retry after a crash between the swap and the answer is told of a
  conflict if another revision came on top, and may be told of one where two rows
  have one manifest (`Twin`).

Not modelled:

- *ActivityPub* was read for its remote objects, follows and deliveries. Its
  deliveries repeat the chat's pattern of claims; the rest is protocol
  serialization in single statements. What was met: a row is written and then its
  post, with nothing that retries between; a creation that comes after its
  deletion leaves a live post (`activitypub-user-flows.md:251`); an update racing a
  deletion restores the row; pending deliveries of a follow go out after it was
  undone (`:109`).
- *Invites*: the count of uses is read before a registration and written after it
  (`modules/invite/index.ts:157`); two at once may both pass. The module has no
  other concurrency.
- *Background workers and shutdown*: an interval is a fair action of the worker it
  runs, a process that stops is one that crashes.
- Everything else marked `not_modelled` in `PROJECT.json`: uploads, previews,
  importers, social networks, gateways, CRUD with permissions, formats. These are
  most of the code's lines, so the map covers a few percent of them: the models
  stand for the parts where order, failure and concurrency decide, which are small
  and dense.

## 6. What a next version would add

1. ActivityPub's follows and remote objects (creation, update and deletion out of
   order), and its deliveries as a second instance of the chat's.
2. The worker group's stop and the shutdown deadline over the queue's drain.
3. Pins' reconciliation and the local client's leased publications.
