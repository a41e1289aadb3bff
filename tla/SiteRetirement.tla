--------------------------- MODULE SiteRetirement ---------------------------
(***************************************************************************)
(* What becomes of the files a site replacement replaced                   *)
(* (modules/staticSiteGenerator/replacement*.ts and                        *)
(* modules/storageSpace/siteRetirement.ts).                                *)
(*                                                                         *)
(* A replacement whose new site is rendered is finalized; its old images,  *)
(* site and archive are then kept for external links, or retired: a worker *)
(* alone behind the storage fence releases the job's holds, detaches what  *)
(* nobody else uses, unpins it object by object, and has IPFS collect what *)
(* is unpinned.  After every step the job's journal is checkpointed in its *)
(* operation's output by compare-and-swap, so that a pass which crashed,   *)
(* failed or lost its fence is taken up by a later one.  Writers share the *)
(* fence and may come to use an old object again between two passes.       *)
(*                                                                         *)
(* An object stands for a stored file under all its CIDs.                  *)
(***************************************************************************)
EXTENDS StorageFence

CONSTANTS Workers,       \* processes whose replacement worker ticks
          Writers,       \* calls that write content, under a shared fence
          Jobs, Objects,
          Old,           \* the objects a job's replacement replaces
          None,
          Loads,         \* what to start from: the jobs, the workers up, the faults to come
          MaxRetries,    \* bound on an owner's retries of a failed cleanup
          MaxWrites      \* bound on the uses of old objects by others than the worker

ASSUME RetirementAssumption ==
    /\ Clients = Workers \cup Writers /\ Workers \cap Writers = {}
    /\ Old \in [Jobs -> SUBSET Objects]
    /\ None \notin Jobs \cup Objects \cup Workers
    /\ {"content", "post", "stray"} \cap Jobs = {}
    /\ \A l \in Loads : l.jobs \subseteq Jobs /\ l.up \subseteq Workers /\ l.faults \in Nat

Waiting == {"rendered", "retiring", "gc_pending", "cleanup_failed"}
Closed  == {"complete", "complete_with_retained"}
Fates   == {"no", "candidate", "unpinned", "retained"}

\* operation.output of a job.
Output == [status : Waiting \cup Closed, resume : Waiting, failures : 0..3,
           released : BOOLEAN, detached : BOOLEAN, kept : BOOLEAN,
           retention : BOOLEAN, fate : [Objects -> Fates]]

\* Who may use an object: the old content and site of a job, other content, a
\* post whose metadata names it, and either of these written by a call that had
\* lost its fence ("stray", told apart for the properties only).
Users == Jobs \cup {"content", "post", "stray"}

VARIABLES
    out,         \* the jobs' outputs in the database
    backoff,     \* the jobs whose nextAttemptAt is still to come
    refs,        \* who uses an object in the database
    pinned,      \* the objects pinned in IPFS
    present,     \* the objects whose blocks IPFS has
    pc, worker,  \* a worker's step; who has the worker lock at the server
    row,         \* the receipts a worker read: what its next update expects
    todo,        \* the jobs its present loop has still to do
    job, journal,  \* the job it retires and the result it works on
    left, object, blocked,   \* the objects still to do, the one at hand, its check
    holds,       \* the snapshot of who holds an object
    saved,       \* the object a writer has stored and not yet used
    overlap,     \* whether a worker lock was ever lost: two passes may then overlap
    faults,      \* the crashes, broken sessions and failing calls still to come
    retries, writes

jobVars   == <<out, backoff>>
ipfsVars  == <<pinned, present>>
passVars  == <<row, todo, holds>>
itemVars  == <<job, journal, left, object, blocked>>
countVars == <<overlap, faults, retries, writes>>
vars == <<fenceVars, jobVars, refs, ipfsVars, pc, worker, passVars, itemVars, saved, countVars>>

Fresh == [status |-> "rendered", resume |-> "retiring", failures |-> 0,
          released |-> FALSE, detached |-> FALSE, kept |-> FALSE,
          retention |-> FALSE, fate |-> [o \in Objects |-> "no"]]

Steps == {"down", "idle", "fence", "retire", "release", "detach", "check", "act", "save",
          "recheck", "collect", "close"}

TypeOK ==
    /\ FenceTypeOK
    /\ out \in [Jobs -> Output] /\ backoff \subseteq Jobs
    /\ refs \in [Objects -> SUBSET Users]
    /\ pinned \subseteq Objects /\ present \subseteq Objects
    /\ pc \in [Workers -> Steps] /\ worker \in Workers \cup {None}
    /\ row \in [Workers -> [Jobs -> Output]]
    /\ todo \in [Workers -> SUBSET Jobs]
    /\ job \in [Workers -> Jobs \cup {None}]
    /\ journal \in [Workers -> Output]
    /\ left \in [Workers -> SUBSET Objects]
    /\ object \in [Workers -> Objects \cup {None}]
    /\ blocked \in [Workers -> BOOLEAN]
    /\ holds \in [Workers -> [Objects -> SUBSET Jobs]]
    /\ saved \in [Writers -> Objects \cup {None}]
    /\ \A w \in Workers : (pc[w] \in {"down", "idle", "fence"}) = (users[w] = 0)
    /\ \A w \in Workers : job[w] # None => pc[w] \in {"release", "detach", "check", "act", "save"}

NoHolds == [o \in Objects |-> {}]

\* A replacement of the past, whose old files nobody uses any more.
Done == [Fresh EXCEPT !.status = "complete"]

StartsFrom(load) ==
    /\ out = [j \in Jobs |-> IF j \in load.jobs THEN Fresh ELSE Done] /\ backoff = {}
    /\ refs = [o \in Objects |-> {j \in load.jobs : o \in Old[j]}]
    /\ pc = [w \in Workers |-> IF w \in load.up THEN "idle" ELSE "down"]
    /\ faults = load.faults

Init ==
    /\ FenceInit
    /\ \E load \in Loads : StartsFrom(load)
    /\ pinned = Objects /\ present = Objects
    /\ worker = None
    /\ row = [w \in Workers |-> [j \in Jobs |-> Fresh]]
    /\ todo = [w \in Workers |-> {}]
    /\ job = [w \in Workers |-> None] /\ journal = [w \in Workers |-> Fresh]
    /\ left = [w \in Workers |-> {}] /\ object = [w \in Workers |-> None]
    /\ blocked = [w \in Workers |-> FALSE]
    /\ holds = [w \in Workers |-> NoHolds]
    /\ saved = [c \in Writers |-> None]
    /\ overlap = FALSE /\ retries = 0 /\ writes = 0

-----------------------------------------------------------------------------
(* Holds and checks. *)

\* Mutant: only rows that still wait hold their objects.
HoldersWaiting(o) ==
    {j \in Jobs : o \in Old[j] /\ ~out[j].released /\ out[j].status \in Waiting}

\* The jobs an object is kept for: those that wait, and for good those whose
\* replacement retains the old site for external links, until they release it.
Holders(o) ==
    {j \in Jobs : /\ o \in Old[j] /\ ~out[j].released
                  /\ out[j].status \in Waiting \/ out[j].retention}

Snapshot == [o \in Objects |-> Holders(o)]

\* A use in the database or a hold of the snapshot blocks an object's removal.
InUse(w, o) == refs[o] # {} \/ holds[w][o] # {}

WithFate(r, f) == {o \in Objects : r.fate[o] = f}

\* Mutant: a receipt's update overwrites what it did not read.
CurrentBlind(w, j) == TRUE

\* What a receipt's update compares: the whole output it last read or wrote.
Current(w, j) == out[j] = row[w][j]

\* assertHeld, then the compare-and-swap of save().
Checkpoint(w, j, r) ==
    /\ Held(w) /\ Current(w, j)
    /\ out' = [out EXCEPT ![j] = r]
    /\ row' = [row EXCEPT ![w][j] = r]

Goto(w, step) == pc' = [pc EXCEPT ![w] = step]

Forget(w) ==
    /\ job' = [job EXCEPT ![w] = None]
    /\ journal' = [journal EXCEPT ![w] = Fresh]
    /\ left' = [left EXCEPT ![w] = {}]
    /\ object' = [object EXCEPT ![w] = None]
    /\ blocked' = [blocked EXCEPT ![w] = FALSE]
ForgetPass(w) ==
    /\ row' = [row EXCEPT ![w] = [j \in Jobs |-> Fresh]]
    /\ todo' = [todo EXCEPT ![w] = {}]
    /\ holds' = [holds EXCEPT ![w] = NoHolds]

-----------------------------------------------------------------------------
(* Finalizing a replacement, and an owner's retry. *)

Update(j, r) == out' = [out EXCEPT ![j] = r]

\* Its old files are nobody's business, or to be deleted.
Finalize(j) ==
    /\ out[j].status = "rendered"
    /\ \E s \in {"complete", "retiring"} : Update(j, [out[j] EXCEPT !.status = s])
    /\ UNCHANGED <<fenceVars, backoff, refs, ipfsVars, pc, worker, passVars, itemVars, saved,
                   countVars>>

\* retainOriginalForExternalLinks, under a shared fence, pins the old site again
\* and leaves a receipt that outlives the job.
FinalizeRetained(j) ==
    /\ out[j].status = "rendered"
    /\ \A c \in Clients : lock[c] # "exclusive"
    /\ Old[j] \subseteq present
    /\ pinned' = pinned \cup Old[j]
    /\ Update(j, [out[j] EXCEPT !.status = "complete_with_retained", !.retention = TRUE,
                                !.kept = TRUE])
    /\ UNCHANGED <<fenceVars, backoff, refs, present, pc, worker, passVars, itemVars, saved,
                   countVars>>

RetryCleanup(j) ==
    /\ out[j].status = "cleanup_failed"
    /\ retries < MaxRetries /\ retries' = retries + 1
    /\ Update(j, [out[j] EXCEPT !.status = out[j].resume, !.failures = 0])
    /\ backoff' = backoff \ {j}
    /\ UNCHANGED <<fenceVars, refs, ipfsVars, pc, worker, passVars, itemVars, saved,
                   overlap, faults, writes>>

BackoffEnds(j) ==
    /\ j \in backoff /\ backoff' = backoff \ {j}
    /\ UNCHANGED <<fenceVars, out, refs, ipfsVars, pc, worker, passVars, itemVars, saved,
                   countVars>>

-----------------------------------------------------------------------------
(* Writers, under the shared fence. *)

WriterCalls(c) ==
    /\ \/ Acquire(c, "shared")
       \/ \E m \in Modes : Enter(c, m)
    /\ UNCHANGED <<jobVars, refs, ipfsVars, pc, worker, passVars, itemVars, saved, countVars>>

WriterReturns(c) ==
    /\ \E m \in Modes : Leave(c, m)
    /\ saved' = IF users'[c] = 0 THEN [saved EXCEPT ![c] = None] ELSE saved
    /\ UNCHANGED <<jobVars, refs, ipfsVars, pc, worker, passVars, itemVars, countVars>>

\* saveFile stores and pins the bytes of a content to come.
SaveFile(c, o) ==
    /\ users[c] > 0 /\ saved[c] = None
    /\ writes < MaxWrites /\ writes' = writes + 1
    /\ saved' = [saved EXCEPT ![c] = o]
    /\ pinned' = pinned \cup {o} /\ present' = present \cup {o}
    /\ UNCHANGED <<fenceVars, jobVars, refs, pc, worker, passVars, itemVars,
                   overlap, faults, retries>>

\* assertStorageWritable: a waiting job's candidates may not be used again.
Writable(o) == \A j \in Jobs : out[j].status \in Waiting => out[j].fate[o] = "no"

As(c, user) == IF alive[c] THEN user ELSE "stray"

AddContent(c) ==
    /\ users[c] > 0 /\ saved[c] # None
    /\ refs' = IF Writable(saved[c])
               THEN [refs EXCEPT ![saved[c]] = @ \cup {As(c, "content")}] ELSE refs
    /\ saved' = [saved EXCEPT ![c] = None]
    /\ UNCHANGED <<fenceVars, jobVars, ipfsVars, pc, worker, passVars, itemVars, countVars>>

\* A post's metadata may name any object; nothing but the fence delays it.
MentionInPost(c, o) ==
    /\ users[c] > 0
    /\ writes < MaxWrites /\ writes' = writes + 1
    /\ refs' = [refs EXCEPT ![o] = @ \cup {As(c, "post")}]
    /\ UNCHANGED <<fenceVars, jobVars, ipfsVars, pc, worker, passVars, itemVars, saved,
                   overlap, faults, retries>>

Write(c) ==
    \/ WriterCalls(c) \/ WriterReturns(c) \/ AddContent(c)
    \/ \E o \in Objects : SaveFile(c, o) \/ MentionInPost(c, o)

-----------------------------------------------------------------------------
(* A pass of the worker: its locks, and retiring one job after the other.  *)

\* Mutant: a job that has failed is not taken again.
DueOnce(s) == {j \in Jobs : out[j].status = s /\ out[j].failures = 0}

Due(s) == {j \in Jobs : out[j].status = s /\ j \notin backoff}
Reads(S) == [j \in Jobs |-> IF j \in S THEN out[j] ELSE Fresh]

\* processQueue has the worker lock, has read what is due, and waited long enough
\* for other work (cleanupBatchReady).
TakeBatch(w) ==
    /\ pc[w] = "idle" /\ worker = None
    /\ Due("retiring") \cup Due("gc_pending") # {}
    /\ worker' = w
    /\ row' = [row EXCEPT ![w] = Reads(Due("retiring") \cup Due("gc_pending"))]
    /\ todo' = [todo EXCEPT ![w] = Due("retiring")]
    /\ Goto(w, "fence")
    /\ UNCHANGED <<fenceVars, jobVars, refs, ipfsVars, holds, itemVars, saved, countVars>>

EnterFence(w) ==
    /\ pc[w] = "fence"
    /\ Acquire(w, "exclusive")
    /\ holds' = [holds EXCEPT ![w] = Snapshot]
    /\ Goto(w, "retire")
    /\ UNCHANGED <<jobVars, refs, ipfsVars, worker, row, todo, itemVars, saved, countVars>>

\* retireReplacement begins with what its row says is still to do.
Begin(w, j) ==
    /\ pc[w] = "retire" /\ j \in todo[w]
    /\ job' = [job EXCEPT ![w] = j]
    /\ journal' = [journal EXCEPT ![w] = row[w][j]]
    /\ left' = [left EXCEPT ![w] = WithFate(row[w][j], "candidate")]
    /\ Goto(w, IF row[w][j].detached THEN "check" ELSE "release")
    /\ UNCHANGED <<fenceVars, jobVars, refs, ipfsVars, worker, passVars, object, blocked,
                   saved, countVars>>

\* Its sources are in use by a render, a resave or any operation in process.
Defer(w, j) ==
    /\ pc[w] = "retire" /\ j \in todo[w]
    /\ writes < MaxWrites /\ writes' = writes + 1
    /\ todo' = [todo EXCEPT ![w] = @ \ {j}]
    /\ UNCHANGED <<fenceVars, jobVars, refs, ipfsVars, pc, worker, row, holds, itemVars, saved,
                   overlap, faults, retries>>

Persist(w, r) ==
    /\ Checkpoint(w, job[w], r)
    /\ journal' = [journal EXCEPT ![w] = r]

\* Old sites and archives, not old images, are pinned, and the job's own holds end,
\* in the database first.
ReleaseHolds(w) ==
    /\ pc[w] = "release"
    /\ \E sites \in SUBSET Old[job[w]] : pinned' = pinned \cup sites
    /\ Persist(w, [journal[w] EXCEPT !.released = TRUE])
    /\ holds' = [holds EXCEPT ![w] = [o \in Objects |-> @[o] \ {job[w]}]]
    /\ left' = [left EXCEPT ![w] = Old[job[w]]]
    /\ Goto(w, "detach")
    /\ UNCHANGED <<fenceVars, backoff, refs, present, worker, todo, job, object, blocked, saved,
                   countVars>>

\* Mutant: what another job holds is detached all the same.
HeldByOthersNot(w, o) == FALSE

HeldByOthers(w, o) == holds[w][o] \ {job[w]} # {}

\* What other work holds, or another content, catalog or site uses, is kept.
DetachKeeps(w, o) ==
    /\ pc[w] = "detach" /\ o \in left[w]
    /\ journal' = [journal EXCEPT ![w].kept = TRUE]
    /\ left' = [left EXCEPT ![w] = @ \ {o}]
    /\ UNCHANGED <<fenceVars, jobVars, refs, ipfsVars, pc, worker, passVars, job, object,
                   blocked, saved, countVars>>

\* The rest is pinned and a candidate.  The content row it deletes may be that of
\* other replacements of the same source.
DetachDrops(w, o) ==
    /\ pc[w] = "detach" /\ o \in left[w]
    /\ ~HeldByOthers(w, o)
    /\ pinned' = pinned \cup {o}
    /\ \E sources \in {{job[w]}, Jobs} : refs' = [refs EXCEPT ![o] = @ \ sources]
    /\ journal' = [journal EXCEPT ![w].fate[o] = "candidate"]
    /\ left' = [left EXCEPT ![w] = @ \ {o}]
    /\ UNCHANGED <<fenceVars, jobVars, present, pc, worker, passVars, job, object, blocked,
                   saved, countVars>>

Detached(w) ==
    /\ pc[w] = "detach" /\ left[w] = {}
    /\ Persist(w, [journal[w] EXCEPT !.detached = TRUE])
    /\ left' = [left EXCEPT ![w] = WithFate(journal[w], "candidate")]
    /\ Goto(w, "check")
    /\ UNCHANGED <<fenceVars, backoff, refs, ipfsVars, worker, todo, holds, job, object, blocked,
                   saved, countVars>>

CheckCandidate(w, o) ==
    /\ pc[w] = "check" /\ o \in left[w]
    /\ object' = [object EXCEPT ![w] = o]
    /\ blocked' = [blocked EXCEPT ![w] = InUse(w, o)]
    /\ Goto(w, "act")
    /\ UNCHANGED <<fenceVars, jobVars, refs, ipfsVars, worker, passVars, job, journal, left,
                   saved, countVars>>

Act(w, fate) ==
    /\ journal' = [journal EXCEPT ![w].fate[object[w]] = fate]
    /\ Goto(w, "save")
    /\ UNCHANGED <<fenceVars, jobVars, refs, present, worker, passVars, job, left, object,
                   blocked, saved, countVars>>

Retain(w) ==
    /\ pc[w] = "act" /\ blocked[w]
    /\ pinned' = pinned \cup {object[w]}
    /\ Act(w, "retained")

Unpin(w) ==
    /\ pc[w] = "act" /\ ~blocked[w]
    /\ Held(w)
    /\ pinned' = pinned \ {object[w]}
    /\ Act(w, "unpinned")

SaveCandidate(w) ==
    /\ pc[w] = "save"
    /\ Persist(w, journal[w])
    /\ left' = [left EXCEPT ![w] = @ \ {object[w]}]
    /\ object' = [object EXCEPT ![w] = None]
    /\ blocked' = [blocked EXCEPT ![w] = FALSE]
    /\ Goto(w, "check")
    /\ UNCHANGED <<fenceVars, backoff, refs, ipfsVars, worker, todo, holds, job, saved,
                   countVars>>

Outcome(r) ==
    IF WithFate(r, "unpinned") # {} THEN "gc_pending"
    ELSE IF r.kept \/ WithFate(r, "retained") # {} THEN "complete_with_retained"
    ELSE "complete"

EndJob(w) ==
    /\ todo' = [todo EXCEPT ![w] = @ \ {job[w]}]
    /\ Goto(w, "retire")
    /\ Forget(w)

Retired(w) ==
    /\ pc[w] = "check" /\ left[w] = {}
    /\ Checkpoint(w, job[w],
                  [journal[w] EXCEPT !.status = Outcome(journal[w]), !.failures = 0])
    /\ EndJob(w)
    /\ UNCHANGED <<fenceVars, backoff, refs, ipfsVars, worker, holds, saved, countVars>>

-----------------------------------------------------------------------------
(* Collection. *)

\* The jobs that wait for collection are read again, with a new snapshot.
StartCollection(w) ==
    /\ pc[w] = "retire" /\ todo[w] = {}
    /\ Due("gc_pending") # {}
    /\ row' = [row EXCEPT ![w] = Reads(Due("gc_pending"))]
    /\ todo' = [todo EXCEPT ![w] = Due("gc_pending")]
    /\ holds' = [holds EXCEPT ![w] = Snapshot]
    /\ Goto(w, "recheck")
    /\ UNCHANGED <<fenceVars, jobVars, refs, ipfsVars, worker, itemVars, saved, countVars>>

Batch(w) == {j \in Jobs : row[w][j].status = "gc_pending"}

\* Mutant: what was unpinned stays unpinned.
RevivedNone(w, j) == {}

\* What came to be used after it was unpinned.
Revived(w, j) == {o \in WithFate(row[w][j], "unpinned") : InUse(w, o)}

Recheck(w, j) ==
    /\ pc[w] = "recheck" /\ j \in todo[w]
    /\ pinned' = pinned \cup Revived(w, j)
    /\ Checkpoint(w, j, [row[w][j] EXCEPT !.fate = [o \in Objects |->
                            IF o \in Revived(w, j) THEN "retained" ELSE @[o]]])
    /\ todo' = [todo EXCEPT ![w] = @ \ {j}]
    /\ UNCHANGED <<fenceVars, backoff, refs, present, pc, worker, holds, itemVars, saved,
                   countVars>>

\* IPFS collects only when something of the batch is unpinned.
Rechecked(w) ==
    /\ pc[w] = "recheck" /\ todo[w] = {}
    /\ Goto(w, IF \E j \in Batch(w) : WithFate(row[w][j], "unpinned") # {}
               THEN "collect" ELSE "close")
    /\ todo' = [todo EXCEPT ![w] = Batch(w)]
    /\ UNCHANGED <<fenceVars, jobVars, refs, ipfsVars, worker, row, holds, itemVars, saved,
                   countVars>>

\* repo.gc removes every unpinned object, of whatever job, until it is aborted.
Sweep(w, o) ==
    /\ pc[w] = "collect" /\ ~broken[w]
    /\ o \in present \ pinned
    /\ present' = present \ {o}
    /\ UNCHANGED <<fenceVars, jobVars, refs, pinned, pc, worker, passVars, itemVars, saved,
                   countVars>>

Swept(w) ==
    /\ pc[w] = "collect" /\ present \subseteq pinned
    /\ Held(w)
    /\ Goto(w, "close")
    /\ UNCHANGED <<fenceVars, jobVars, refs, ipfsVars, worker, passVars, itemVars, saved,
                   countVars>>

Verified(r) ==
    IF \/ r.kept \/ WithFate(r, "retained") # {}
       \/ WithFate(r, "unpinned") \cap present # {}
    THEN "complete_with_retained" ELSE "complete"

Close(w, j) ==
    /\ pc[w] = "close" /\ j \in todo[w]
    /\ Checkpoint(w, j, [row[w][j] EXCEPT !.status = Verified(row[w][j])])
    /\ todo' = [todo EXCEPT ![w] = @ \ {j}]
    /\ UNCHANGED <<fenceVars, backoff, refs, ipfsVars, pc, worker, holds, itemVars, saved,
                   countVars>>

-----------------------------------------------------------------------------
(* The end of a pass, failures, and what may happen to a session.          *)

\* The fence and the worker lock are given up, as far as they are still held.
LeavePass(w) ==
    /\ Leave(w, "exclusive")
    /\ worker' = IF worker = w THEN None ELSE worker
    /\ Goto(w, "idle")
    /\ ForgetPass(w) /\ Forget(w)
    /\ UNCHANGED <<jobVars, refs, ipfsVars, saved, countVars>>

EndPass(w) ==
    /\ \/ pc[w] = "retire" /\ Due("gc_pending") = {}
       \/ pc[w] = "close"
    /\ todo[w] = {}
    /\ LeavePass(w)

Fault == faults > 0 /\ faults' = faults - 1

\* Mutant: giving up closes the job.
FailureCloses(r) ==
    [r EXCEPT !.failures = @ + 1, !.resume = r.status,
              !.status = IF r.failures + 1 >= 3 THEN "complete_with_retained" ELSE r.status]

\* cleanupFailure: three failures in a row end the automatic attempts.
Failure(r) ==
    [r EXCEPT !.failures = @ + 1, !.resume = r.status,
              !.status = IF r.failures + 1 >= 3 THEN "cleanup_failed" ELSE r.status]

\* A step of a job throws and the fence is still held: the failure is written
\* over what its row last held, and the pass goes on.
FailJob(w) ==
    /\ job[w] # None /\ Fault
    /\ Checkpoint(w, job[w], Failure(row[w][job[w]]))
    /\ backoff' = backoff \cup {job[w]}
    /\ EndJob(w)
    /\ UNCHANGED <<fenceVars, refs, ipfsVars, worker, holds, saved, overlap, retries, writes>>

\* A step of the collection throws: it has failed for every job not yet closed.
FailCollection(w) ==
    /\ pc[w] \in {"recheck", "collect", "close"}
    /\ Batch(w) # {} /\ Fault
    /\ Held(w) /\ \A j \in Batch(w) : Current(w, j)
    /\ out' = [j \in Jobs |-> IF j \in Batch(w) THEN Failure(row[w][j]) ELSE out[j]]
    /\ backoff' = backoff \cup Batch(w)
    /\ ForgetPass(w)
    /\ Goto(w, "close")
    /\ UNCHANGED <<fenceVars, refs, ipfsVars, worker, itemVars, saved, overlap, retries, writes>>

\* Not even the failure can be written: the fence is lost, or a row has changed.
Abort(w) ==
    /\ \/ job[w] # None /\ (~Held(w) \/ ~Current(w, job[w]))
       \/ /\ pc[w] \in {"recheck", "collect", "close"}
          /\ ~Held(w) \/ \E j \in Batch(w) : ~Current(w, j)
    /\ LeavePass(w)

Crash(w) ==
    /\ pc[w] \notin {"down", "idle"}
    /\ Fault
    /\ Die(w)
    /\ worker' = IF worker = w THEN None ELSE worker
    /\ Goto(w, "idle")
    /\ ForgetPass(w) /\ Forget(w)
    /\ UNCHANGED <<jobVars, refs, ipfsVars, saved, overlap, retries, writes>>

FenceBreaks(c) ==
    /\ Fault
    /\ Break(c)
    /\ UNCHANGED <<jobVars, refs, ipfsVars, pc, worker, passVars, itemVars, saved, overlap,
                   retries, writes>>

BreakNoticed(c) ==
    /\ Notice(c)
    /\ UNCHANGED <<jobVars, refs, ipfsVars, pc, worker, passVars, itemVars, saved, countVars>>

\* The session of the worker lock breaks; the pass goes on without it.
WorkerLockBreaks ==
    /\ worker # None /\ worker' = None
    /\ overlap' = TRUE
    /\ Fault
    /\ UNCHANGED <<fenceVars, jobVars, refs, ipfsVars, pc, passVars, itemVars, saved,
                   retries, writes>>

Step(w) ==
    \/ \E j \in Jobs : Begin(w, j) \/ Recheck(w, j) \/ Close(w, j)
    \/ \E o \in Objects :
          DetachKeeps(w, o) \/ DetachDrops(w, o) \/ CheckCandidate(w, o) \/ Sweep(w, o)
    \/ ReleaseHolds(w) \/ Detached(w) \/ Retain(w) \/ Unpin(w) \/ SaveCandidate(w)
    \/ Retired(w) \/ StartCollection(w) \/ Rechecked(w) \/ Swept(w) \/ EndPass(w) \/ Abort(w)

Next ==
    \/ \E w \in Workers :
         \/ TakeBatch(w) \/ EnterFence(w) \/ Step(w)
         \/ \E j \in Jobs : Defer(w, j)
         \/ FailJob(w) \/ FailCollection(w) \/ Crash(w)
    \/ \E j \in Jobs : Finalize(j) \/ FinalizeRetained(j) \/ RetryCleanup(j) \/ BackoffEnds(j)
    \/ \E c \in Writers : Write(c)
    \/ \E c \in Clients : FenceBreaks(c) \/ BreakNoticed(c)
    \/ WorkerLockBreaks

Spec == Init /\ [][Next]_vars

\* Some worker ticks, a pass in the fence goes on, and a writer makes finitely many
\* calls and all end.  The server grants locks in the order they were asked for.
FairSpec ==
    /\ Spec
    /\ WF_vars(\E w \in Workers : TakeBatch(w))
    /\ SF_vars(\E w \in Workers : EnterFence(w))
    /\ WF_vars(\E w \in Workers : Step(w))
    /\ WF_vars(\E j \in Jobs : BackoffEnds(j))
    /\ \A c \in Writers :
          WF_vars(WriterReturns(c)) /\ SF_vars(WriterReturns(c) /\ users'[c] = 0)

-----------------------------------------------------------------------------
(* Properties. *)

\* What the batch unpinned is not collected when somebody came to use it since: a
\* post that names it, written between two passes, is seen by the recheck, and no
\* writer gets in between the recheck and the end of the sweep.  As long as the
\* session of the fence lives, and but for writers that lost theirs.  It says nothing
\* of what a job outside the batch unpinned, one whose retry is still to come: a sweep
\* takes that too, and nobody rechecks it.  (siteRetirement.ts:231-264)
BatchRechecked ==
    [][\A w \in Workers, o \in Objects :
         Sweep(w, o) /\ alive[w] /\ (\E j \in Batch(w) : row[w][j].fate[o] = "unpinned")
             => refs[o] \subseteq {"stray"}]_vars

\* An object that is unpinned and not yet collected is not forgotten: whatever crashed
\* or failed, the journal of a job that is not closed names it, which a later pass
\* takes up or, once the job was given up, its owner's retry; as long as passes do not
\* overlap.  It says nothing of the collections of other jobs that come first: they
\* sweep the object without a recheck (SweepSpares).
\* (siteRetirement.ts:168-222, replacementWorker.ts:53-77)
UnpinnedIsJournaled ==
    ~overlap => \A o \in present \ pinned :
       \E j \in Jobs : out[j].status \in Waiting /\ out[j].fate[o] \in {"candidate", "unpinned"}

\* A sweep spares what somebody came to use after it was unpinned: "recheck every
\* unpinned root and materialize any new SQL retention as an IPFS pin".  It does not
\* hold: only the jobs of the batch are rechecked, and repo.gc takes what a job in backoff,
\* or one that was given up, had unpinned as well.  (siteRetirement.ts:231-264)
SweepSpares ==
    [][\A w \in Workers, o \in Objects :
         Sweep(w, o) /\ alive[w] => refs[o] \subseteq {"stray"}]_vars

\* The old site kept for external links stays pinned and in IPFS, through whatever
\* the cleanups of other jobs that replaced the same objects do.
\* (externalLinkRetention.ts:24-96, storageHolds.ts:19-94)
RetainedStays ==
    \A j \in Jobs : out[j].retention => Old[j] \subseteq pinned \cap present

Rank(f) == CASE f = "no" -> 0 [] f = "candidate" -> 1 [] f = "unpinned" -> 2 [] f = "retained" -> 3

\* The journal only grows: a closed job is never opened again, and no pass, crashed,
\* stale or overlapping, takes back what another has recorded of an object.
\* (checkpoint.ts:2-12, siteRetirement.ts:60-75)
ProgressKept ==
    [][\A j \in Jobs :
         /\ out[j].status \in Closed => out'[j] = out[j]
         /\ out[j].detached => /\ out'[j].detached
                               /\ \A o \in Objects : Rank(out[j].fate[o]) <= Rank(out'[j].fate[o])]_vars

\* A cleanup ends, or is given up after three failures in a row, whatever crashes,
\* breaks or is deferred on the way.  (replacementWorker.ts:22-79)
CleanupEnds ==
    \A j \in Jobs : out[j].status \in {"retiring", "gc_pending"}
                       ~> out[j].status \in Closed \cup {"cleanup_failed"}
-----------------------------------------------------------------------------
(* The inductive invariant behind the proofs. *)

JobSteps == {"release", "detach", "check", "act", "save"}
PassSteps == JobSteps \cup {"retire", "recheck", "collect", "close"}

\* What the code knows of a receipt by its status.
Sound(r) ==
    /\ r.status \in {"rendered", "retiring", "gc_pending"} => r.failures <= 2
    /\ r.resume \in {"retiring", "gc_pending"}
    /\ r.status = "rendered" => ~r.released /\ \A o \in Objects : r.fate[o] = "no"
    /\ r.retention => r.status = "complete_with_retained" /\ ~r.released
    /\ r.status = "gc_pending" \/ (r.status = "cleanup_failed" /\ r.resume = "gc_pending")
          => \A o \in Objects : r.fate[o] # "candidate"

\* A pass is one exclusive call of the fence, which nests none.
CallsInv ==
    \A w \in Workers : pc[w] \in PassSteps =>
       mode[w] = "exclusive" /\ users[w] = 1 /\ callees[w] = [Nobody EXCEPT !["exclusive"] = 1]

RowsOK(w) ==
    /\ \A j \in Jobs : Sound(row[w][j])
    /\ pc[w] \in JobSteps => job[w] # None
    /\ pc[w] \in {"fence", "retire"} \cup JobSteps => \A j \in todo[w] : row[w][j].status = "retiring"
    /\ pc[w] \in {"recheck", "collect", "close"} => \A j \in todo[w] : row[w][j].status = "gc_pending"

ReceiptsInv == (\A j \in Jobs : Sound(out[j])) /\ (\A w \in Workers : RowsOK(w))

\* But for what it has done to objects, the result in hand is the receipt it began with.
SameCourse(s, r) ==
    /\ s.status = r.status /\ s.resume = r.resume /\ s.failures = r.failures
    /\ s.released = r.released /\ s.detached = r.detached /\ s.retention = r.retention

JournalOK(w, r) ==
    /\ r.status = "retiring" /\ SameCourse(journal[w], r)
    /\ r.detached <=> pc[w] \in {"check", "act", "save"}
    /\ \A o \in Objects :
         /\ pc[w] \in {"release", "check", "act"} \/ (pc[w] = "save" /\ o # object[w])
               => journal[w].fate[o] = r.fate[o]
         /\ pc[w] = "detach" => journal[w].fate[o] \in {r.fate[o], "candidate"}
         /\ pc[w] \in {"check", "act", "save"} => (o \in left[w] <=> r.fate[o] = "candidate")
    /\ pc[w] \in {"act", "save"} => object[w] \in left[w]
    /\ pc[w] = "act" /\ ~blocked[w] => holds[w][object[w]] = {}
    /\ pc[w] = "save" => journal[w].fate[object[w]] \in {"unpinned", "retained"}

JournalInv == \A w \in Workers : pc[w] \in JobSteps => JournalOK(w, row[w][job[w]])

\* A snapshot has the holds of every replacement that may yet retain its old site.
HoldsInv ==
    \A w \in Workers, j \in Jobs, o \in Objects :
       /\ pc[w] \in JobSteps \cup {"retire", "recheck"}
       /\ out[j].status = "rendered" \/ out[j].retention
       /\ o \in Old[j]
       => j \in holds[w][o]

\* What was rechecked is used by nobody as long as the session lives.
RecheckedInv ==
    \A w \in Workers, j \in Jobs, o \in Objects :
       /\ alive[w] /\ (pc[w] = "collect" \/ (pc[w] = "recheck" /\ j \notin todo[w]))
       /\ row[w][j].status = "gc_pending" /\ row[w][j].fate[o] = "unpinned"
       => refs[o] \subseteq {"stray"}

\* Without a lost worker lock one pass runs at a time, and what it has read is so.
SoleInv ==
    ~overlap =>
       /\ \A w \in Workers : pc[w] \notin {"down", "idle"} => worker = w
       /\ \A w \in Workers, j \in Jobs :
             pc[w] \notin {"down", "idle"} /\ row[w][j].status \in {"retiring", "gc_pending"}
                => out[j] = row[w][j]
       /\ \A w \in Workers :
             /\ pc[w] = "save" /\ journal[w].fate[object[w]] = "retained" => object[w] \in pinned
             /\ pc[w] = "close" =>
                   \/ present \subseteq pinned
                   \/ \A j \in Batch(w), o \in Objects : row[w][j].fate[o] # "unpinned"

IInv ==
    /\ TypeOK /\ FenceInv /\ CallsInv /\ ReceiptsInv /\ JournalInv
    /\ HoldsInv /\ RetainedStays /\ RecheckedInv /\ SoleInv /\ UnpinnedIsJournaled
=============================================================================
