------------------------ MODULE SiteRetirementProofs ------------------------
(***************************************************************************)
(* Site retirement, for any number of workers, writers, jobs and objects,  *)
(* failures and broken sessions: the fence it stands on, the journals, the *)
(* retained sites and what is unpinned.                                    *)
(***************************************************************************)
EXTENDS SiteRetirement, TLAPS

-----------------------------------------------------------------------------
(* The storage fence by itself.                                            *)

USE FenceAssumption DEF Modes, Nobody, Grantable

LEMMA FenceInitInv == FenceInit => FenceInv
  BY DEF FenceInit, FenceInv, FenceTypeOK

LEMMA AcquireInv ==
  ASSUME FenceInv, NEW c \in Clients, NEW m \in Modes, Acquire(c, m)
  PROVE  FenceInv'
<1>1. FenceTypeOK'
  BY DEF FenceInv, FenceTypeOK, Acquire
<1>2. ASSUME NEW d \in Clients
      PROVE  /\ users'[d] = callees'[d]["shared"] + callees'[d]["exclusive"]
             /\ users'[d] > 0 /\ alive'[d] => lock'[d] = mode'[d]
             /\ callees'[d]["exclusive"] > 0 => mode'[d] = "exclusive"
  <2>1. CASE d = c
    BY <2>1, <1>1 DEF FenceInv, FenceTypeOK, Acquire
  <2>2. CASE d # c
    BY <2>2 DEF FenceInv, FenceTypeOK, Acquire
  <2> QED BY <2>1, <2>2
<1>3. ASSUME NEW d \in Clients, lock'[d] # "none", NEW e \in Clients \ {d}
      PROVE  lock'[e] = "none" \/ (lock'[d] = "shared" /\ lock'[e] = "shared")
  <2>1. CASE d = c
    BY <1>3, <2>1 DEF FenceInv, FenceTypeOK, Acquire
  <2>2. CASE e = c
    BY <1>3, <2>2 DEF FenceInv, FenceTypeOK, Acquire
  <2>3. CASE d # c /\ e # c
    BY <1>3, <2>3 DEF FenceInv, FenceTypeOK, Acquire
  <2> QED BY <2>1, <2>2, <2>3
<1> QED BY <1>1, <1>2, <1>3 DEF FenceInv

LEMMA EnterInv ==
  ASSUME FenceInv, NEW c \in Clients, NEW m \in Modes, Enter(c, m)
  PROVE  FenceInv'
<1>1. FenceTypeOK'
  <2>1. callees[c][m] + 1 \in 0..MaxUsers
    BY DEF FenceInv, FenceTypeOK, Enter
  <2> QED BY <2>1 DEF FenceInv, FenceTypeOK, Enter
<1>2. ASSUME NEW d \in Clients
      PROVE  /\ users'[d] = callees'[d]["shared"] + callees'[d]["exclusive"]
             /\ lock'[d] # "none" => Grantable(d, lock[d])'
             /\ users'[d] > 0 /\ alive'[d] => lock'[d] = mode'[d]
             /\ callees'[d]["exclusive"] > 0 => mode'[d] = "exclusive"
  <2>1. CASE d = c
    BY <2>1 DEF FenceInv, FenceTypeOK, Enter, MayEnter
  <2>2. CASE d # c
    BY <2>2 DEF FenceInv, FenceTypeOK, Enter
  <2> QED BY <2>1, <2>2
<1> QED BY <1>1, <1>2 DEF FenceInv

LEMMA LeaveInv ==
  ASSUME FenceInv, NEW c \in Clients, NEW m \in Modes, Leave(c, m)
  PROVE  FenceInv'
<1>0. /\ users[c] = callees[c]["shared"] + callees[c]["exclusive"]
      /\ callees[c]["shared"] \in 0..MaxUsers /\ callees[c]["exclusive"] \in 0..MaxUsers
      /\ users[c] \in 0..MaxUsers /\ callees[c][m] > 0
  BY DEF FenceInv, FenceTypeOK, Leave
<1>1. FenceTypeOK'
  <2>1. callees[c][m] - 1 \in 0..MaxUsers /\ users[c] - 1 \in 0..MaxUsers
    BY <1>0
  <2> QED BY <2>1 DEF FenceInv, FenceTypeOK, Leave
<1>2. ASSUME NEW d \in Clients
      PROVE  /\ users'[d] = callees'[d]["shared"] + callees'[d]["exclusive"]
             /\ users'[d] > 0 /\ alive'[d] => lock'[d] = mode'[d]
             /\ callees'[d]["exclusive"] > 0 => mode'[d] = "exclusive"
  <2>1. CASE d = c
    BY <2>1, <1>0 DEF FenceInv, FenceTypeOK, Leave, Unlocks
  <2>2. CASE d # c
    BY <2>2 DEF FenceInv, FenceTypeOK, Leave, Unlocks
  <2> QED BY <2>1, <2>2
<1>3. \A d \in Clients : lock'[d] = lock[d] \/ lock'[d] = "none"
  BY DEF FenceInv, FenceTypeOK, Leave
<1>4. \A d \in Clients : lock'[d] # "none" => Grantable(d, lock[d])'
  BY <1>3 DEF FenceInv
<1> QED BY <1>1, <1>2, <1>4 DEF FenceInv

\* A session that ends only frees a lock.
LEMMA EndInv ==
  ASSUME FenceInv, NEW c \in Clients, Break(c) \/ Notice(c) \/ Die(c)
  PROVE  FenceInv'
<1>1. FenceTypeOK'
  <2>1. CASE Break(c)
    BY <2>1 DEF FenceInv, FenceTypeOK, Break
  <2>2. CASE Notice(c)
    BY <2>2 DEF FenceInv, FenceTypeOK, Notice
  <2>3. CASE Die(c)
    <3>1. Nobody \in [Modes -> 0..MaxUsers] /\ 0 \in 0..MaxUsers
      OBVIOUS
    <3> QED BY <2>3, <3>1 DEF FenceInv, FenceTypeOK, Die
  <2> QED BY <2>1, <2>2, <2>3
<1>2. ASSUME NEW d \in Clients
      PROVE  /\ users'[d] = callees'[d]["shared"] + callees'[d]["exclusive"]
             /\ users'[d] > 0 /\ alive'[d] => lock'[d] = mode'[d]
             /\ callees'[d]["exclusive"] > 0 => mode'[d] = "exclusive"
  BY DEF FenceInv, FenceTypeOK, Break, Notice, Die
<1>3. \A d \in Clients : lock'[d] = lock[d] \/ lock'[d] = "none"
  BY DEF FenceInv, FenceTypeOK, Break, Notice, Die
<1>4. \A d \in Clients : lock'[d] # "none" => Grantable(d, lock[d])'
  BY <1>3 DEF FenceInv
<1> QED BY <1>1, <1>2, <1>4 DEF FenceInv

\* The fence's invariant holds in every behaviour of the fence.
THEOREM FenceInvariance == FenceSpec => []FenceInv
<1>1. FenceInv /\ [FenceNext]_fenceVars => FenceInv'
  <2> SUFFICES ASSUME FenceInv, [FenceNext]_fenceVars PROVE FenceInv'
    OBVIOUS
  <2>1. CASE UNCHANGED fenceVars
    BY <2>1 DEF FenceInv, FenceTypeOK, fenceVars
  <2>2. ASSUME NEW c \in Clients, FenceStep(c) PROVE FenceInv'
    <3>1. ASSUME NEW m \in Modes, Acquire(c, m) \/ Enter(c, m) \/ Leave(c, m) PROVE FenceInv'
      BY <3>1, AcquireInv, EnterInv, LeaveInv
    <3>2. ASSUME Break(c) \/ Notice(c) \/ Die(c) PROVE FenceInv'
      BY <3>2, EndInv
    <3> QED BY <2>2, <3>1, <3>2 DEF FenceStep
  <2> QED BY <2>1, <2>2 DEF FenceNext
<1> QED BY <1>1, FenceInitInv, PTL DEF FenceSpec

\* Two callees that run, one of them exclusively, run in one context.
LEMMA InvExcludes == FenceInv => FenceExcludes
<1> SUFFICES ASSUME FenceInv, NEW c \in Clients, NEW d \in Clients, c # d,
                    Runs(c, "exclusive"), NEW m \in Modes, Runs(d, m)
             PROVE  FALSE
  BY DEF FenceExcludes
<1>1. /\ users[c] \in Nat /\ callees[c]["shared"] \in Nat /\ callees[c]["exclusive"] \in Nat
      /\ users[d] \in Nat /\ callees[d]["shared"] \in Nat /\ callees[d]["exclusive"] \in Nat
  BY DEF FenceInv, FenceTypeOK
<1>2. lock[c] = "exclusive"
  BY <1>1 DEF FenceInv, Runs
<1>3. users[d] > 0 /\ alive[d]
  BY <1>1 DEF FenceInv, Runs
<1>4. lock[d] # "none"
  BY <1>3 DEF FenceInv, FenceTypeOK
<1> QED BY <1>2, <1>4 DEF FenceInv

\* An exclusive fence excludes every other callee (FenceExcludes).
THEOREM Exclusion == FenceSpec => []FenceExcludes
  BY FenceInvariance, InvExcludes, PTL

HIDE FenceAssumption DEF Modes, Nobody, Grantable

USE RetirementAssumption

-----------------------------------------------------------------------------
(* The fence.                                                              *)

\* Every step of a worker or a writer is a step of the fence or leaves it alone.
LEMMA StepOfFence == [Next]_vars => [FenceNext]_fenceVars
<1> SUFFICES ASSUME [Next]_vars PROVE [FenceNext]_fenceVars
  OBVIOUS
<1>1. ASSUME NEW w \in Workers, EnterFence(w) \/ EndPass(w) \/ Abort(w) \/ Crash(w)
      PROVE  FenceNext
  <2>1. w \in Clients
    OBVIOUS
  <2> QED BY <1>1, <2>1 DEF EnterFence, EndPass, Abort, LeavePass, Crash,
          FenceNext, FenceStep, Modes
<1>2. ASSUME NEW c \in Writers, WriterCalls(c) \/ WriterReturns(c) PROVE FenceNext
  <2>1. c \in Clients
    OBVIOUS
  <2> QED BY <1>2, <2>1 DEF WriterCalls, WriterReturns, FenceNext, FenceStep, Modes
<1>3. ASSUME NEW c \in Clients, FenceBreaks(c) \/ BreakNoticed(c) PROVE FenceNext
  BY <1>3 DEF FenceBreaks, BreakNoticed, FenceNext, FenceStep
<1>4. ASSUME NEW w \in Workers,
             \/ TakeBatch(w) \/ FailJob(w) \/ FailCollection(w) \/ ReleaseHolds(w) \/ Detached(w)
             \/ Retain(w) \/ Unpin(w) \/ SaveCandidate(w) \/ Retired(w) \/ StartCollection(w)
             \/ Rechecked(w) \/ Swept(w)
      PROVE  UNCHANGED fenceVars
  BY <1>4 DEF TakeBatch, FailJob, FailCollection, ReleaseHolds, Detached, Retain, Unpin, Act,
     SaveCandidate, Retired, StartCollection, Rechecked, Swept
<1>5. ASSUME NEW w \in Workers, NEW j \in Jobs,
             Begin(w, j) \/ Defer(w, j) \/ Recheck(w, j) \/ Close(w, j)
      PROVE  UNCHANGED fenceVars
  BY <1>5 DEF Begin, Defer, Recheck, Close
<1>6. ASSUME NEW w \in Workers, NEW o \in Objects,
             DetachKeeps(w, o) \/ DetachDrops(w, o) \/ CheckCandidate(w, o) \/ Sweep(w, o)
      PROVE  UNCHANGED fenceVars
  BY <1>6 DEF DetachKeeps, DetachDrops, CheckCandidate, Sweep
<1>7. ASSUME NEW j \in Jobs,
             Finalize(j) \/ FinalizeRetained(j) \/ RetryCleanup(j) \/ BackoffEnds(j)
      PROVE  UNCHANGED fenceVars
  BY <1>7 DEF Finalize, FinalizeRetained, RetryCleanup, BackoffEnds
<1>8. ASSUME NEW c \in Writers, NEW o \in Objects,
             SaveFile(c, o) \/ MentionInPost(c, o)
      PROVE  UNCHANGED fenceVars
  BY <1>8 DEF SaveFile, MentionInPost
<1>9. CASE WorkerLockBreaks
  BY <1>9 DEF WorkerLockBreaks
<1>10. CASE UNCHANGED vars
  BY <1>10 DEF vars
<1>11. ASSUME NEW c \in Writers, AddContent(c) PROVE UNCHANGED fenceVars
  BY <1>11 DEF AddContent
<1>12. ASSUME NEW w \in Workers, Step(w) PROVE [FenceNext]_fenceVars
  BY <1>12, <1>1, <1>4, <1>5, <1>6 DEF Step
<1>13. ASSUME NEW c \in Writers, Write(c) PROVE [FenceNext]_fenceVars
  BY <1>13, <1>2, <1>8, <1>11 DEF Write
<1> QED BY <1>1, <1>3, <1>4, <1>5, <1>7, <1>9, <1>10, <1>12, <1>13 DEF Next

\* The retirement uses the fence as the fence may be used.
THEOREM UsesFence == Spec => FenceSpec
<1>1. Init => FenceInit
  BY DEF Init
<1> QED BY <1>1, StepOfFence, PTL DEF Spec, FenceSpec

\* No writer runs beside a cleanup while both sessions live.
THEOREM CleanupRunsAlone == Spec => []FenceExcludes
  BY UsesFence, Exclusion, PTL
-----------------------------------------------------------------------------
(* What is written to a receipt is sound. *)

LEMMA SoundFailure ==
  ASSUME NEW r \in Output, Sound(r), r.status \in {"retiring", "gc_pending"}
  PROVE  /\ Failure(r) \in Output /\ Sound(Failure(r))
         /\ Failure(r).status \in {r.status, "cleanup_failed"}
         /\ Failure(r).fate = r.fate /\ Failure(r).detached = r.detached
         /\ Failure(r).retention = r.retention
<1>1. r.failures + 1 \in 0..3
  BY DEF Output, Sound
<1>2. /\ Failure(r).status \in {r.status, "cleanup_failed"} /\ Failure(r).resume = r.status
      /\ Failure(r).failures = r.failures + 1 /\ Failure(r).fate = r.fate
      /\ Failure(r).detached = r.detached /\ Failure(r).retention = r.retention
      /\ Failure(r).released = r.released /\ Failure(r).kept = r.kept
      /\ r.failures + 1 >= 3 <=> Failure(r).status = "cleanup_failed"
  BY DEF Failure, Output
<1>3. Failure(r) \in Output
  BY <1>1 DEF Failure, Output, Waiting, Closed
<1>4. Sound(Failure(r))
  BY <1>1, <1>2 DEF Sound, Output
<1> QED BY <1>2, <1>3, <1>4

LEMMA SoundRetired ==
  ASSUME NEW r \in Output, Sound(r), r.status = "retiring",
         \A o \in Objects : r.fate[o] # "candidate"
  PROVE  LET s == [r EXCEPT !.status = Outcome(r), !.failures = 0] IN
         /\ s \in Output /\ Sound(s) /\ s.status # "rendered" /\ ~s.retention
         /\ s.status \in Closed => \A o \in Objects : r.fate[o] # "unpinned"
         /\ s.fate = r.fate /\ s.detached = r.detached
<1>1. Outcome(r) \in {"gc_pending"} \cup Closed
  BY DEF Outcome, Closed
<1>2. Outcome(r) \in Closed => \A o \in Objects : r.fate[o] # "unpinned"
  BY DEF Outcome, WithFate, Closed
<1>3. ~r.retention
  BY DEF Sound
<1> DEFINE s == [r EXCEPT !.status = Outcome(r), !.failures = 0]
<1>4. /\ s.status = Outcome(r) /\ s.failures = 0 /\ s.resume = r.resume /\ s.fate = r.fate
      /\ s.detached = r.detached /\ s.retention = r.retention /\ s.released = r.released
  BY DEF Output
<1>5. s \in Output
  <2>1. Outcome(r) \in Waiting \cup Closed /\ 0 \in 0..3
    BY <1>1 DEF Waiting
  <2> QED BY <2>1 DEF Output
<1>6. Sound(s)
  BY <1>1, <1>3, <1>4 DEF Sound, Closed
<1> QED BY <1>1, <1>2, <1>3, <1>4, <1>5, <1>6 DEF Closed

\* Marking a job in retirement, and its objects.
LEMMA SoundMarked ==
  ASSUME NEW r \in Output
  PROVE  /\ [r EXCEPT !.kept = TRUE] \in Output
         /\ [r EXCEPT !.detached = TRUE] \in Output /\ [r EXCEPT !.released = TRUE] \in Output
         /\ Sound(r) /\ r.status = "retiring" =>
              /\ Sound([r EXCEPT !.kept = TRUE])
              /\ Sound([r EXCEPT !.detached = TRUE]) /\ Sound([r EXCEPT !.released = TRUE])
  BY DEF Output, Sound, Waiting, Closed

LEMMA SoundFate ==
  ASSUME NEW r \in Output, NEW o \in Objects, NEW f \in Fates
  PROVE  /\ [r EXCEPT !.fate[o] = f] \in Output
         /\ Sound(r) /\ r.status = "retiring" => Sound([r EXCEPT !.fate[o] = f])
  BY DEF Output, Sound, Waiting, Closed, Fates

\* What is in the hands of a worker that retires a job.
LEMMA InHand ==
  ASSUME IInv, NEW w \in Workers, pc[w] \in JobSteps
  PROVE  /\ job[w] \in Jobs /\ row[w][job[w]] \in Output /\ Sound(row[w][job[w]])
         /\ row[w][job[w]].status = "retiring" /\ ~row[w][job[w]].retention
         /\ journal[w] \in Output /\ left[w] \subseteq Objects
         /\ JournalOK(w, row[w][job[w]]) /\ SameCourse(journal[w], row[w][job[w]])
         /\ Sound(journal[w]) /\ journal[w].status = "retiring"
<1>1. job[w] \in Jobs
  BY DEF IInv, TypeOK, ReceiptsInv, RowsOK
<1>2. row[w][job[w]] \in Output /\ journal[w] \in Output /\ left[w] \subseteq Objects
  BY <1>1 DEF IInv, TypeOK
<1>3. Sound(row[w][job[w]])
  BY <1>1 DEF IInv, ReceiptsInv, RowsOK
<1>4. JournalOK(w, row[w][job[w]])
  BY DEF IInv, JournalInv
<1>5. row[w][job[w]].status = "retiring" /\ SameCourse(journal[w], row[w][job[w]])
  BY <1>4 DEF JournalOK
<1>6. ~row[w][job[w]].retention
  BY <1>3, <1>5 DEF Sound
<1>7. Sound(journal[w])
  BY <1>3, <1>5 DEF Sound, SameCourse
<1> QED BY <1>1, <1>2, <1>3, <1>4, <1>5, <1>6, <1>7 DEF SameCourse

LEMMA SoundRechecked ==
  ASSUME NEW r \in Output, Sound(r), r.status = "gc_pending", NEW S \in SUBSET Objects
  PROVE  LET s == [r EXCEPT !.fate = [o \in Objects |-> IF o \in S THEN "retained" ELSE @[o]]]
         IN /\ s \in Output /\ Sound(s) /\ s.status = "gc_pending" /\ s.detached = r.detached
            /\ \A o \in Objects : s.fate[o] = IF o \in S THEN "retained" ELSE r.fate[o]
  BY DEF Output, Sound, Waiting, Closed, Fates

LEMMA SoundClosed ==
  ASSUME NEW r \in Output, Sound(r), r.status = "gc_pending"
  PROVE  LET s == [r EXCEPT !.status = Verified(r)] IN
         /\ s \in Output /\ Sound(s) /\ s.status \in Closed
         /\ s.fate = r.fate /\ s.detached = r.detached /\ ~s.retention
  BY DEF Verified, WithFate, Output, Sound, Waiting, Closed

LEMMA SoundFinalized ==
  ASSUME NEW r \in Output, Sound(r), r.status = "rendered", NEW s \in {"complete", "retiring"}
  PROVE  /\ [r EXCEPT !.status = s] \in Output /\ Sound([r EXCEPT !.status = s])
         /\ LET t == [r EXCEPT !.status = "complete_with_retained", !.retention = TRUE,
                               !.kept = TRUE] IN t \in Output /\ Sound(t)
  BY DEF Output, Sound, Waiting, Closed

LEMMA SoundRetry ==
  ASSUME NEW r \in Output, Sound(r), r.status = "cleanup_failed"
  PROVE  LET s == [r EXCEPT !.status = r.resume, !.failures = 0] IN
         s \in Output /\ Sound(s) /\ s.status \in {"retiring", "gc_pending"}
<1>1. r.resume \in {"retiring", "gc_pending"} /\ 0 \in 0..3
  BY DEF Sound
<1> DEFINE s == [r EXCEPT !.status = r.resume, !.failures = 0]
<1>2. /\ s.status = r.resume /\ s.failures = 0 /\ s.resume = r.resume /\ s.fate = r.fate
      /\ s.retention = r.retention /\ s.released = r.released
  BY DEF Output
<1>3. s \in Output
  BY <1>1 DEF Output, Waiting, Closed
<1>4. Sound(s)
  BY <1>1, <1>2 DEF Sound
<1> QED BY <1>1, <1>2, <1>3, <1>4

LEMMA FreshSound == Fresh \in Output /\ Sound(Fresh)
  BY DEF Fresh, Output, Sound, Waiting, Closed, Fates
-----------------------------------------------------------------------------
(* Types. *)

LEMMA TypeInit == Init => TypeOK
<1> SUFFICES ASSUME Init PROVE TypeOK
  OBVIOUS
<1>1. FenceTypeOK
  BY FenceInitInv DEF Init, FenceInv
<1>2. Done \in Output /\ Fresh \in Output
  BY FreshSound DEF Done, Fresh, Output, Closed
<1>3. PICK load \in Loads : StartsFrom(load)
  BY DEF Init
<1>4. /\ out \in [Jobs -> Output] /\ backoff \subseteq Jobs /\ refs \in [Objects -> SUBSET Users]
      /\ pc \in [Workers -> Steps] /\ \A w \in Workers : pc[w] \in {"down", "idle", "fence"}
  BY <1>2, <1>3 DEF StartsFrom, Users, Steps
<1> QED BY <1>1, <1>2, <1>4 DEF Init, TypeOK, FenceInit, NoHolds

\* The steps of a pass over one job.
LEMMA TypeJob ==
  ASSUME IInv, FenceTypeOK', NEW w \in Workers,
         \/ \E j \in Jobs : Begin(w, j) \/ Defer(w, j)
         \/ \E o \in Objects : DetachKeeps(w, o) \/ DetachDrops(w, o) \/ CheckCandidate(w, o)
         \/ ReleaseHolds(w) \/ Detached(w) \/ Retain(w) \/ Unpin(w) \/ SaveCandidate(w)
         \/ Retired(w) \/ FailJob(w)
  PROVE  TypeOK'
<1> USE DEF Steps
<1>0. TypeOK /\ ReceiptsInv /\ JournalInv
  BY DEF IInv
<1>1. ASSUME NEW j \in Jobs, Begin(w, j) PROVE TypeOK'
  BY <1>0, <1>1 DEF TypeOK, Begin, Goto, WithFate, fenceVars, jobVars, ipfsVars, passVars, countVars
<1>2. ASSUME NEW j \in Jobs, Defer(w, j) PROVE TypeOK'
  BY <1>0, <1>2 DEF TypeOK, Defer, fenceVars, jobVars, ipfsVars, itemVars
<1>3. ASSUME NEW o \in Objects, DetachKeeps(w, o) PROVE TypeOK'
  <2>1. journal' = [journal EXCEPT ![w] = [journal[w] EXCEPT !.kept = TRUE]]
    BY <1>0, <1>3 DEF TypeOK, DetachKeeps
  <2>2. [journal[w] EXCEPT !.kept = TRUE] \in Output
    BY <1>0, SoundMarked DEF TypeOK
  <2> QED BY <1>0, <1>3, <2>1, <2>2
      DEF TypeOK, DetachKeeps, fenceVars, jobVars, ipfsVars, passVars, countVars
<1>4. ASSUME NEW o \in Objects, DetachDrops(w, o) PROVE TypeOK'
  <2>1. journal' = [journal EXCEPT ![w] = [journal[w] EXCEPT !.fate[o] = "candidate"]]
    BY <1>0, <1>4 DEF TypeOK, DetachDrops
  <2>2. [journal[w] EXCEPT !.fate[o] = "candidate"] \in Output
    BY <1>0, SoundFate DEF TypeOK, Fates
  <2> QED BY <1>0, <1>4, <2>1, <2>2
      DEF TypeOK, DetachDrops, fenceVars, jobVars, passVars, countVars
<1>5. ASSUME NEW o \in Objects, CheckCandidate(w, o) PROVE TypeOK'
  BY <1>0, <1>5 DEF TypeOK, CheckCandidate, InUse, Goto, fenceVars, jobVars, ipfsVars,
                    passVars, countVars
<1>6. ASSUME ReleaseHolds(w) PROVE TypeOK'
  <2> DEFINE s == [journal[w] EXCEPT !.released = TRUE]
  <2>1. s \in Output /\ job[w] \in Jobs
    BY <1>6, InHand, SoundMarked DEF JobSteps, ReleaseHolds
  <2>2. /\ out' = [out EXCEPT ![job[w]] = s] /\ row' = [row EXCEPT ![w][job[w]] = s]
        /\ journal' = [journal EXCEPT ![w] = s]
    BY <1>6 DEF ReleaseHolds, Persist, Checkpoint
  <2> HIDE DEF s
  <2> QED BY <1>0, <1>6, <2>1, <2>2 DEF TypeOK, ReleaseHolds, Goto, fenceVars, countVars
<1>7. ASSUME Detached(w) PROVE TypeOK'
  <2> DEFINE s == [journal[w] EXCEPT !.detached = TRUE]
  <2>1. s \in Output /\ job[w] \in Jobs
    BY <1>7, InHand, SoundMarked DEF JobSteps, Detached
  <2>2. /\ out' = [out EXCEPT ![job[w]] = s] /\ row' = [row EXCEPT ![w][job[w]] = s]
        /\ journal' = [journal EXCEPT ![w] = s]
    BY <1>7 DEF Detached, Persist, Checkpoint
  <2> HIDE DEF s
  <2> QED BY <1>0, <1>7, <2>1, <2>2 DEF TypeOK, Detached, Goto, WithFate, fenceVars, ipfsVars,
                                         countVars
<1>8. ASSUME NEW f \in Fates, Act(w, f), Retain(w) \/ Unpin(w) PROVE TypeOK'
  <2>0. object[w] \in Objects
    <3>1. pc[w] = "act"
      BY <1>8 DEF Retain, Unpin
    <3> QED BY <3>1, InHand DEF JournalOK, JobSteps
  <2>1. journal' = [journal EXCEPT ![w] = [journal[w] EXCEPT !.fate[object[w]] = f]]
    BY <1>0, <1>8 DEF TypeOK, Act
  <2>2. [journal[w] EXCEPT !.fate[object[w]] = f] \in Output
    BY <1>0, <2>0, SoundFate DEF TypeOK
  <2>3. pinned' \subseteq Objects
    BY <1>0, <1>8, <2>0 DEF TypeOK, Retain, Unpin
  <2>4. job[w] # None => pc'[w] = "save"
    BY <1>0, <1>8 DEF TypeOK, Act, Goto
  <2> QED BY <1>0, <1>8, <2>1, <2>2, <2>3
      DEF TypeOK, Act, Retain, Unpin, Goto, fenceVars, jobVars, passVars, countVars
<1>9. ASSUME SaveCandidate(w) PROVE TypeOK'
  <2>1. job[w] \in Jobs
    BY <1>9, InHand DEF SaveCandidate, JobSteps
  <2> QED BY <1>0, <1>9, <2>1 DEF TypeOK, SaveCandidate, Persist, Checkpoint, Goto, fenceVars,
                                  ipfsVars, countVars
<1>10. ASSUME NEW s \in Output, job[w] \in Jobs, Checkpoint(w, job[w], s), EndJob(w),
              pc[w] \in JobSteps, UNCHANGED <<fenceVars, refs, ipfsVars, worker, holds, saved>>,
              backoff' \subseteq Jobs
       PROVE  TypeOK'
  BY <1>0, <1>10, FreshSound DEF TypeOK, JobSteps, Checkpoint, EndJob, Forget, Goto, fenceVars,
                                 ipfsVars
<1>11. ASSUME Retired(w) PROVE TypeOK'
  <2> DEFINE r == journal[w]
             s == [r EXCEPT !.status = Outcome(r), !.failures = 0]
  <2>0. pc[w] = "check" /\ left[w] = {}
    BY <1>11 DEF Retired
  <2>1. pc[w] \in JobSteps /\ job[w] \in Jobs /\ r \in Output /\ Sound(r) /\ r.status = "retiring"
    BY <2>0, InHand DEF JobSteps
  <2>2. \A o \in Objects : r.fate[o] # "candidate"
    <3>1. JournalOK(w, row[w][job[w]])
      BY <2>1, InHand
    <3> QED BY <2>0, <3>1 DEF JournalOK
  <2>3. s \in Output
    BY <2>1, <2>2, SoundRetired
  <2>4. Checkpoint(w, job[w], s) /\ EndJob(w)
    BY <1>11 DEF Retired
  <2> HIDE DEF s
  <2> QED BY <1>0, <1>10, <1>11, <2>1, <2>3, <2>4 DEF Retired, TypeOK
<1>12. ASSUME FailJob(w) PROVE TypeOK'
  <2> DEFINE r == row[w][job[w]]
  <2>1. pc[w] \in JobSteps /\ job[w] \in Jobs /\ r \in Output
    BY <1>0, <1>12 DEF TypeOK, JobSteps, FailJob
  <2>2. Sound(r) /\ r.status = "retiring"
    BY <2>1, InHand
  <2>3. Failure(r) \in Output
    BY <2>1, <2>2, SoundFailure
  <2> QED BY <1>0, <1>10, <1>12, <2>1, <2>3 DEF FailJob, TypeOK
<1>13. \A f \in {"retained", "unpinned"} : f \in Fates
  BY DEF Fates
<1>14. ASSUME Retain(w) \/ Unpin(w) PROVE TypeOK'
  BY <1>8, <1>13, <1>14 DEF Retain, Unpin
<1> QED BY <1>1, <1>2, <1>3, <1>4, <1>5, <1>6, <1>7, <1>9, <1>11, <1>12, <1>14

\* A worker in a pass has its fence once; one that is not in a pass has none.
LEMMA InFence ==
  ASSUME IInv, NEW w \in Workers
  PROVE  /\ w \in Clients /\ (pc[w] \in PassSteps <=> users[w] # 0)
         /\ pc[w] \in PassSteps => users[w] = 1 /\ mode[w] = "exclusive"
  BY ZenonT(30) DEF IInv, TypeOK, CallsInv, Steps, PassSteps, JobSteps

\* The steps of a pass that are not about one job.
LEMMA TypePass ==
  ASSUME IInv, FenceTypeOK', NEW w \in Workers,
         \/ TakeBatch(w) \/ EnterFence(w) \/ StartCollection(w) \/ Rechecked(w) \/ Swept(w)
         \/ EndPass(w) \/ Abort(w) \/ Crash(w) \/ FailCollection(w)
         \/ \E j \in Jobs : Recheck(w, j) \/ Close(w, j)
         \/ \E o \in Objects : Sweep(w, o)
  PROVE  TypeOK'
<1> USE DEF Steps
<1>0. TypeOK
  BY DEF IInv
<1>1. Snapshot \in [Objects -> SUBSET Jobs] /\ \A S \in SUBSET Jobs : Reads(S) \in [Jobs -> Output]
  BY <1>0, FreshSound DEF Snapshot, Holders, Reads, TypeOK
<1>2. \A s : Due(s) \subseteq Jobs
  BY DEF Due
<1>3. Fresh \in Output
  BY FreshSound
<1>4. ASSUME TakeBatch(w) PROVE TypeOK'
  BY <1>0, <1>1, <1>2, <1>4 DEF TypeOK, TakeBatch, Goto, fenceVars, jobVars, ipfsVars, itemVars
<1>5. ASSUME EnterFence(w) PROVE TypeOK'
  <2>1. users' = [users EXCEPT ![w] = 1] /\ w \in Clients
    BY <1>5 DEF EnterFence, Acquire
  <2> QED BY <1>0, <1>1, <1>5, <2>1 DEF TypeOK, EnterFence, Goto, jobVars, ipfsVars, itemVars,
                                        FenceTypeOK
<1>6. ASSUME StartCollection(w) PROVE TypeOK'
  BY <1>0, <1>1, <1>2, <1>6 DEF TypeOK, StartCollection, Goto, fenceVars, jobVars, ipfsVars, itemVars
<1>7. ASSUME Rechecked(w) \/ Swept(w) PROVE TypeOK'
  <2>1. CASE Rechecked(w)
    <3>1. Batch(w) \subseteq Jobs
      BY DEF Batch
    <3> QED BY <1>0, <2>1, <3>1 DEF TypeOK, Rechecked, Goto, fenceVars, jobVars, ipfsVars, itemVars
  <2>2. CASE Swept(w)
    BY <1>0, <2>2 DEF TypeOK, Swept, Goto, fenceVars, jobVars, ipfsVars, passVars, itemVars
  <2> QED BY <1>7, <2>1, <2>2
<1>8. ASSUME NEW o \in Objects, Sweep(w, o) PROVE TypeOK'
  BY <1>0, <1>8 DEF TypeOK, Sweep, fenceVars, jobVars, passVars, itemVars
<1>9. ASSUME NEW j \in Jobs, NEW s \in Output, Checkpoint(w, j, s), pinned' \subseteq Objects,
             todo' = [todo EXCEPT ![w] = @ \ {j}],
             UNCHANGED <<fenceVars, backoff, refs, present, pc, worker, holds, itemVars, saved>>
      PROVE  TypeOK'
  BY <1>0, <1>9 DEF TypeOK, Checkpoint, fenceVars, itemVars
<1>10. ASSUME NEW j \in Jobs, Recheck(w, j) \/ Close(w, j)
       PROVE row[w][j].status = "gc_pending" /\ row[w][j] \in Output /\ Sound(row[w][j])
  BY <1>10 DEF IInv, TypeOK, ReceiptsInv, RowsOK, Recheck, Close, Batch
<1>11. ASSUME NEW j \in Jobs, Recheck(w, j) PROVE TypeOK'
  <2>1. Revived(w, j) \subseteq Objects
    BY DEF Revived, WithFate
  <2>2. [row[w][j] EXCEPT !.fate = [o \in Objects |->
            IF o \in Revived(w, j) THEN "retained" ELSE @[o]]] \in Output
    BY <1>10, <1>11, <2>1, SoundRechecked
  <2> QED BY <1>0, <1>9, <1>11, <2>1, <2>2 DEF Recheck, TypeOK
<1>12. ASSUME NEW j \in Jobs, Close(w, j) PROVE TypeOK'
  <2>1. [row[w][j] EXCEPT !.status = Verified(row[w][j])] \in Output
    BY <1>10, <1>12, SoundClosed
  <2> QED BY <1>0, <1>9, <1>12, <2>1 DEF Close, TypeOK, ipfsVars
<1>13. ASSUME FailCollection(w) PROVE TypeOK'
  <2>1. \A j \in Batch(w) : Failure(row[w][j]) \in Output
    BY SoundFailure DEF IInv, TypeOK, ReceiptsInv, RowsOK, Batch
  <2>2. out' \in [Jobs -> Output] /\ Batch(w) \subseteq Jobs
    BY <1>0, <1>13, <2>1 DEF TypeOK, FailCollection, Batch
  <2> QED BY <1>0, <1>3, <1>13, <2>2 DEF TypeOK, FailCollection, ForgetPass, NoHolds, Goto,
                                        fenceVars, ipfsVars, itemVars
<1>14. ASSUME pc' = [pc EXCEPT ![w] = "idle"], ForgetPass(w), Forget(w),
              worker' \in Workers \cup {None}, users' = [users EXCEPT ![w] = 0],
              UNCHANGED <<jobVars, refs, ipfsVars, saved>>
       PROVE  TypeOK'
  BY <1>0, <1>3, <1>14, InFence DEF TypeOK, ForgetPass, Forget, NoHolds, jobVars, ipfsVars, FenceTypeOK
<1>15. ASSUME Crash(w) PROVE TypeOK'
  BY <1>0, <1>14, <1>15 DEF Crash, Die, Goto, TypeOK
<1>16. ASSUME LeavePass(w), pc[w] \in PassSteps PROVE TypeOK'
  <2>1. users[w] = 1
    BY <1>16, InFence
  <2>2. users' = [users EXCEPT ![w] = 0]
    BY <1>0, <1>16, <2>1 DEF LeavePass, Leave, TypeOK, FenceTypeOK
  <2> QED BY <1>0, <1>14, <1>16, <2>2 DEF LeavePass, Goto, TypeOK
<1>17. ASSUME EndPass(w) \/ Abort(w) PROVE TypeOK'
  BY <1>0, <1>16, <1>17 DEF EndPass, Abort, PassSteps, JobSteps, TypeOK
<1> QED BY <1>4, <1>5, <1>6, <1>7, <1>8, <1>11, <1>12, <1>13, <1>15, <1>17

\* Owners, writers and failing sessions.
LEMMA TypeOthers ==
  ASSUME IInv, FenceTypeOK',
         \/ \E j \in Jobs : Finalize(j) \/ FinalizeRetained(j) \/ RetryCleanup(j) \/ BackoffEnds(j)
         \/ \E c \in Writers : Write(c)
         \/ \E c \in Clients : FenceBreaks(c) \/ BreakNoticed(c)
         \/ WorkerLockBreaks
         \/ UNCHANGED vars
  PROVE  TypeOK'
<1>0. TypeOK /\ \A j \in Jobs : Sound(out[j]) /\ out[j] \in Output
  BY DEF IInv, ReceiptsInv, TypeOK
<1>1. ASSUME NEW j \in Jobs, Finalize(j) PROVE TypeOK'
  <2>1. PICK s \in {"complete", "retiring"} : Update(j, [out[j] EXCEPT !.status = s])
    BY <1>1 DEF Finalize
  <2>2. [out[j] EXCEPT !.status = s] \in Output
    BY <1>0, <1>1, SoundFinalized DEF Finalize
  <2> QED BY <1>0, <1>1, <2>1, <2>2 DEF Finalize, Update, TypeOK, fenceVars, ipfsVars, passVars,
                                        itemVars
<1>2. ASSUME NEW j \in Jobs, FinalizeRetained(j) PROVE TypeOK'
  <2>1. [out[j] EXCEPT !.status = "complete_with_retained", !.retention = TRUE, !.kept = TRUE]
           \in Output
    BY <1>0, <1>2, SoundFinalized DEF FinalizeRetained
  <2> QED BY <1>0, <1>2, <2>1 DEF FinalizeRetained, Update, TypeOK, fenceVars, passVars, itemVars
<1>3. ASSUME NEW j \in Jobs, RetryCleanup(j) PROVE TypeOK'
  <2>1. [out[j] EXCEPT !.status = out[j].resume, !.failures = 0] \in Output
    BY <1>0, <1>3, SoundRetry DEF RetryCleanup
  <2> QED BY <1>0, <1>3, <2>1 DEF RetryCleanup, Update, TypeOK, fenceVars, ipfsVars, passVars,
                                  itemVars
<1>4. ASSUME NEW j \in Jobs, BackoffEnds(j) PROVE TypeOK'
  BY <1>0, <1>4 DEF BackoffEnds, TypeOK, fenceVars, ipfsVars, passVars, itemVars
<1>5. ASSUME NEW c \in Clients, users' = [users EXCEPT ![c] = users'[c]],
             \A w \in Workers : users'[w] = 0 <=> users[w] = 0,
             saved' \in [Writers -> Objects \cup {None}],
             UNCHANGED <<jobVars, refs, ipfsVars, pc, worker, passVars, itemVars>>
      PROVE  TypeOK'
  BY <1>0, <1>5 DEF TypeOK, jobVars, ipfsVars, passVars, itemVars
<1>6. ASSUME NEW c \in Writers, WriterCalls(c) \/ WriterReturns(c) PROVE TypeOK'
  <2>1. c \in Clients /\ users' = [users EXCEPT ![c] = users'[c]]
    BY <1>0, <1>6 DEF WriterCalls, WriterReturns, Acquire, Enter, Leave, TypeOK, FenceTypeOK
  <2>2. \A w \in Workers : users'[w] = users[w]
    BY <1>0, <2>1 DEF TypeOK, FenceTypeOK
  <2>3. saved' \in [Writers -> Objects \cup {None}]
    <3>1. saved' = saved \/ saved' = [saved EXCEPT ![c] = None]
      BY <1>6 DEF WriterCalls, WriterReturns
    <3> QED BY <1>0, <3>1 DEF TypeOK
  <2>4. UNCHANGED <<jobVars, refs, ipfsVars, pc, worker, passVars, itemVars>>
    BY <1>6 DEF WriterCalls, WriterReturns
  <2> QED BY <1>5, <2>1, <2>2, <2>3, <2>4
<1>7. ASSUME NEW c \in Writers, NEW o \in Objects,
             SaveFile(c, o) \/ MentionInPost(c, o)
      PROVE  TypeOK'
  <2>1. As(c, "post") \in Users
    BY DEF As, Users
  <2>2. CASE SaveFile(c, o)
    BY <1>0, <2>2 DEF SaveFile, TypeOK, fenceVars, jobVars, passVars, itemVars
  <2>3. CASE MentionInPost(c, o)
    BY <1>0, <2>1, <2>3 DEF MentionInPost, TypeOK, fenceVars, jobVars, ipfsVars, passVars, itemVars
  <2> QED BY <1>7, <2>2, <2>3
<1>8. ASSUME NEW c \in Clients, FenceBreaks(c) \/ BreakNoticed(c) PROVE TypeOK'
  BY <1>0, <1>8 DEF FenceBreaks, BreakNoticed, Break, Notice, TypeOK, jobVars, ipfsVars, passVars,
                    itemVars
<1>9. ASSUME WorkerLockBreaks \/ UNCHANGED vars PROVE TypeOK'
  BY <1>0, <1>9 DEF WorkerLockBreaks, vars, TypeOK, fenceVars, jobVars, ipfsVars, passVars, itemVars
<1>10. ASSUME NEW c \in Writers, AddContent(c) PROVE TypeOK'
  <2>1. As(c, "content") \in Users
    BY DEF As, Users
  <2> QED BY <1>0, <1>10, <2>1 DEF AddContent, TypeOK, fenceVars, jobVars, ipfsVars, passVars,
                                   itemVars
<1> QED BY <1>1, <1>2, <1>3, <1>4, <1>6, <1>7, <1>8, <1>9, <1>10 DEF Write

-----------------------------------------------------------------------------
(* The parts of the invariant. *)

\* Steps within a pass of w, and its start, keep the fence as it is.
FencedStep(w) ==
    \/ TakeBatch(w) \/ FailJob(w) \/ FailCollection(w) \/ ReleaseHolds(w) \/ Detached(w)
    \/ Retain(w) \/ Unpin(w) \/ SaveCandidate(w) \/ Retired(w) \/ StartCollection(w)
    \/ Rechecked(w) \/ Swept(w)
    \/ \E j \in Jobs : Begin(w, j) \/ Defer(w, j) \/ Recheck(w, j) \/ Close(w, j)
    \/ \E o \in Objects :
          DetachKeeps(w, o) \/ DetachDrops(w, o) \/ CheckCandidate(w, o) \/ Sweep(w, o)

\* A pass ends for its worker, in one way or another.
Ends(w) == EndPass(w) \/ Abort(w) \/ Crash(w)

\* What leaves the workers' variables alone.
OwnerStep == \E j \in Jobs : Finalize(j) \/ FinalizeRetained(j) \/ RetryCleanup(j) \/ BackoffEnds(j)
SessionStep == (\E c \in Clients : FenceBreaks(c) \/ BreakNoticed(c)) \/ WorkerLockBreaks
WriterStep == \E c \in Writers : Write(c)

LEMMA NextCases ==
  ASSUME Next
  PROVE  \/ \E w \in Workers : FencedStep(w) \/ EnterFence(w) \/ Ends(w)
         \/ OwnerStep \/ SessionStep \/ WriterStep
  BY DEF Next, Step, FencedStep, Ends, OwnerStep, SessionStep, WriterStep

LEMMA WorkersAlone ==
  ASSUME OwnerStep \/ SessionStep \/ WriterStep \/ UNCHANGED vars
  PROVE  UNCHANGED <<pc, passVars, itemVars>>
<1>1. CASE OwnerStep
  BY <1>1 DEF OwnerStep, Finalize, FinalizeRetained, RetryCleanup, BackoffEnds
<1>2. CASE SessionStep
  BY <1>2 DEF SessionStep, FenceBreaks, BreakNoticed, WorkerLockBreaks
<1>3. CASE WriterStep
  BY <1>3 DEF WriterStep, Write, WriterCalls, WriterReturns, AddContent, SaveFile, MentionInPost
<1>4. CASE UNCHANGED vars
  BY <1>4 DEF vars
<1> QED BY <1>1, <1>2, <1>3, <1>4

LEMMA PassGoesOn ==
  ASSUME IInv, NEW w \in Workers, FencedStep(w)
  PROVE  /\ UNCHANGED fenceVars /\ pc' = [pc EXCEPT ![w] = pc'[w]]
         /\ pc'[w] \in PassSteps => pc[w] \in PassSteps
         /\ pc'[w] \in PassSteps \cup {"fence"}
         /\ TakeBatch(w) \/ (pc[w] \in PassSteps /\ pc'[w] \in PassSteps)
<1> USE DEF PassSteps, JobSteps, Goto
<1>0. pc \in [Workers -> Steps]
  BY DEF IInv, TypeOK
<1>1. CASE TakeBatch(w)
  BY <1>0, <1>1 DEF TakeBatch
<1>2. CASE FailJob(w)
  BY <1>0, <1>2 DEF FailJob, EndJob, IInv, TypeOK
<1>3. CASE FailCollection(w) \/ StartCollection(w) \/ Rechecked(w) \/ Swept(w)
  BY <1>0, <1>3 DEF FailCollection, StartCollection, Rechecked, Swept
<1>4. CASE ReleaseHolds(w) \/ Detached(w) \/ Retain(w) \/ Unpin(w) \/ SaveCandidate(w) \/ Retired(w)
  BY <1>0, <1>4 DEF ReleaseHolds, Detached, Retain, Unpin, Act, SaveCandidate, Retired, EndJob
<1>5. ASSUME NEW j \in Jobs, Begin(w, j) \/ Defer(w, j) \/ Recheck(w, j) \/ Close(w, j)
      PROVE  /\ UNCHANGED fenceVars /\ pc' = [pc EXCEPT ![w] = pc'[w]]
             /\ pc[w] \in PassSteps /\ pc'[w] \in PassSteps
  BY <1>0, <1>5 DEF Begin, Defer, Recheck, Close
<1>6. ASSUME NEW o \in Objects,
             DetachKeeps(w, o) \/ DetachDrops(w, o) \/ CheckCandidate(w, o) \/ Sweep(w, o)
      PROVE  /\ UNCHANGED fenceVars /\ pc' = [pc EXCEPT ![w] = pc'[w]]
             /\ pc[w] \in PassSteps /\ pc'[w] \in PassSteps
  BY <1>0, <1>6 DEF DetachKeeps, DetachDrops, CheckCandidate, Sweep
<1> QED BY <1>1, <1>2, <1>3, <1>4, <1>5, <1>6 DEF FencedStep

LEMMA PassEnds ==
  ASSUME NEW w \in Workers, Ends(w)
  PROVE  /\ pc' = [pc EXCEPT ![w] = "idle"] /\ ForgetPass(w) /\ Forget(w)
         /\ UNCHANGED <<jobVars, refs, ipfsVars, saved, overlap>>
         /\ Die(w) \/ Leave(w, "exclusive")
         /\ worker' = IF worker = w THEN None ELSE worker
  BY DEF Ends, EndPass, Abort, LeavePass, Crash, Goto, countVars

LEMMA CallsStep == ASSUME IInv, [Next]_vars PROVE CallsInv'
<1>0. pc \in [Workers -> Steps] /\ FenceTypeOK
  BY DEF IInv, TypeOK
<1>1. ASSUME NEW w \in Workers, FencedStep(w) PROVE CallsInv'
  BY <1>0, <1>1, PassGoesOn DEF IInv, CallsInv, fenceVars
<1>2. ASSUME NEW w \in Workers, EnterFence(w) PROVE CallsInv'
  <2>1. /\ pc' = [pc EXCEPT ![w] = "retire"] /\ mode' = [mode EXCEPT ![w] = "exclusive"]
        /\ users' = [users EXCEPT ![w] = 1] /\ w \in Clients
        /\ callees' = [callees EXCEPT ![w] = [Nobody EXCEPT !["exclusive"] = 1]]
    BY <1>2 DEF EnterFence, Acquire, Goto
  <2> QED BY <1>0, <2>1 DEF IInv, CallsInv, FenceTypeOK
<1>3. ASSUME NEW w \in Workers, Ends(w) PROVE CallsInv'
  <2>1. pc' = [pc EXCEPT ![w] = "idle"] /\ (Die(w) \/ Leave(w, "exclusive"))
    BY <1>3, PassEnds
  <2>2. \A v \in Workers \ {w} : /\ mode'[v] = mode[v] /\ users'[v] = users[v]
                                 /\ callees'[v] = callees[v]
    BY <1>0, <2>1 DEF Die, Leave, FenceTypeOK
  <2> QED BY <1>0, <2>1, <2>2 DEF IInv, CallsInv, PassSteps, JobSteps
<1>4. ASSUME NEW c \in Writers, WriterCalls(c) \/ WriterReturns(c) PROVE CallsInv'
  <2>1. \A v \in Workers : /\ mode'[v] = mode[v] /\ users'[v] = users[v]
                           /\ callees'[v] = callees[v]
    BY <1>0, <1>4 DEF WriterCalls, WriterReturns, Acquire, Enter, Leave, FenceTypeOK
  <2> QED BY <1>4, <2>1 DEF IInv, CallsInv, WriterCalls, WriterReturns
<1>5. CASE WriterStep /\ ~ \E c \in Writers : WriterCalls(c) \/ WriterReturns(c)
  <2>1. UNCHANGED <<fenceVars, pc>>
    BY <1>5 DEF WriterStep, Write, AddContent, SaveFile, MentionInPost
  <2> QED BY <2>1 DEF IInv, CallsInv, fenceVars
<1>6. CASE OwnerStep \/ SessionStep \/ UNCHANGED vars
  <2>1. UNCHANGED <<mode, users, callees>>
    BY <1>6 DEF OwnerStep, Finalize, FinalizeRetained, RetryCleanup, BackoffEnds, SessionStep,
       FenceBreaks, BreakNoticed, Break, Notice, WorkerLockBreaks, vars, fenceVars
  <2> QED BY <1>6, <2>1, WorkersAlone DEF IInv, CallsInv
<1>7. CASE WriterStep
  BY <1>4, <1>5, <1>7
<1> QED BY <1>1, <1>2, <1>3, <1>6, <1>7, NextCases

-----------------------------------------------------------------------------
\* A worker's step leaves the others' variables alone.
LEMMA OnlyOwn ==
  ASSUME IInv, NEW w \in Workers, FencedStep(w) \/ EnterFence(w) \/ Ends(w),
         NEW v \in Workers \ {w}
  PROVE  /\ pc'[v] = pc[v] /\ row'[v] = row[v] /\ todo'[v] = todo[v] /\ holds'[v] = holds[v]
         /\ job'[v] = job[v] /\ journal'[v] = journal[v] /\ left'[v] = left[v]
         /\ object'[v] = object[v] /\ blocked'[v] = blocked[v]
<1> DEFINE Others ==
       /\ pc'[v] = pc[v] /\ row'[v] = row[v] /\ todo'[v] = todo[v] /\ holds'[v] = holds[v]
       /\ job'[v] = job[v] /\ journal'[v] = journal[v] /\ left'[v] = left[v]
       /\ object'[v] = object[v] /\ blocked'[v] = blocked[v]
<1> USE DEF Goto, passVars, itemVars
<1>0. /\ pc \in [Workers -> Steps] /\ row \in [Workers -> [Jobs -> Output]]
      /\ todo \in [Workers -> SUBSET Jobs] /\ job \in [Workers -> Jobs \cup {None}]
      /\ journal \in [Workers -> Output] /\ left \in [Workers -> SUBSET Objects]
      /\ object \in [Workers -> Objects \cup {None}] /\ blocked \in [Workers -> BOOLEAN]
      /\ holds \in [Workers -> [Objects -> SUBSET Jobs]]
  BY DEF IInv, TypeOK
<1>1. CASE TakeBatch(w) \/ EnterFence(w) \/ StartCollection(w) \/ Rechecked(w) \/ Swept(w)
  BY <1>0, <1>1 DEF TakeBatch, EnterFence, StartCollection, Rechecked, Swept
<1>2. CASE FailJob(w) \/ Retired(w)
  BY <1>0, <1>2 DEF FailJob, Retired, Checkpoint, EndJob, Forget
<1>3. CASE ReleaseHolds(w) \/ Detached(w) \/ SaveCandidate(w)
  BY <1>0, <1>3 DEF ReleaseHolds, Detached, SaveCandidate, Persist, Checkpoint
<1>4. CASE Retain(w) \/ Unpin(w)
  BY <1>0, <1>4 DEF Retain, Unpin, Act
<1>5. ASSUME NEW j \in Jobs, Begin(w, j) \/ Defer(w, j) \/ Recheck(w, j) \/ Close(w, j)
      PROVE  Others
  BY <1>0, <1>5 DEF Begin, Defer, Recheck, Close, Checkpoint
<1>6. ASSUME NEW o \in Objects,
             DetachKeeps(w, o) \/ DetachDrops(w, o) \/ CheckCandidate(w, o) \/ Sweep(w, o)
      PROVE  Others
  BY <1>0, <1>6 DEF DetachKeeps, DetachDrops, CheckCandidate, Sweep
<1>7. CASE FailCollection(w)
  BY <1>0, <1>7 DEF FailCollection, ForgetPass
<1>8. CASE Ends(w)
  BY <1>0, <1>8, PassEnds DEF ForgetPass, Forget
<1> QED BY <1>1, <1>2, <1>3, <1>4, <1>5, <1>6, <1>7, <1>8 DEF FencedStep

\* What is said of one worker in ReceiptsInv and JournalInv.
WorkerOK(w) == RowsOK(w) /\ (pc[w] \in JobSteps => JournalOK(w, row[w][job[w]]))

OutputsSound == \A j \in Jobs : Sound(out[j])

\* What is in hand stays sound while nothing of it changes.
LEMMA SameHand ==
  ASSUME NEW v \in Workers, pc'[v] = pc[v], row'[v] = row[v], holds'[v] = holds[v],
         job'[v] = job[v], journal'[v] = journal[v], left'[v] = left[v],
         object'[v] = object[v], blocked'[v] = blocked[v],
         JournalOK(v, row[v][job[v]])
  PROVE  JournalOK(v, row[v][job[v]])'
<1> DEFINE r == row[v][job[v]]
<1>1. r' = r
  OBVIOUS
<1>2. SameCourse(journal[v], r)'
  BY <1>1 DEF JournalOK, SameCourse
<1>3. (r.status = "retiring" /\ (r.detached <=> pc[v] \in {"check", "act", "save"}))'
  BY <1>1 DEF JournalOK
<1>4. ASSUME NEW o \in Objects
      PROVE (/\ pc[v] \in {"release", "check", "act"} \/ (pc[v] = "save" /\ o # object[v])
                  => journal[v].fate[o] = r.fate[o]
             /\ pc[v] = "detach" => journal[v].fate[o] \in {r.fate[o], "candidate"}
             /\ pc[v] \in {"check", "act", "save"} => (o \in left[v] <=> r.fate[o] = "candidate"))'
  BY <1>1 DEF JournalOK
<1>5. (/\ pc[v] \in {"act", "save"} => object[v] \in left[v]
       /\ pc[v] = "act" /\ ~blocked[v] => holds[v][object[v]] = {}
       /\ pc[v] = "save" => journal[v].fate[object[v]] \in {"unpinned", "retained"})'
  BY DEF JournalOK
<1> HIDE DEF r
<1>6. JournalOK(v, r)'
  BY <1>2, <1>3, <1>4, <1>5 DEF JournalOK
<1> QED BY <1>6 DEF r

LEMMA OthersOK ==
  ASSUME IInv, NEW w \in Workers, FencedStep(w) \/ EnterFence(w) \/ Ends(w),
         NEW v \in Workers \ {w}
  PROVE  WorkerOK(v)'
<1>1. WorkerOK(v)
  BY DEF IInv, ReceiptsInv, JournalInv, WorkerOK
<1>2. /\ pc'[v] = pc[v] /\ row'[v] = row[v] /\ todo'[v] = todo[v] /\ holds'[v] = holds[v]
      /\ job'[v] = job[v] /\ journal'[v] = journal[v] /\ left'[v] = left[v]
      /\ object'[v] = object[v] /\ blocked'[v] = blocked[v]
  BY OnlyOwn
<1>3. RowsOK(v)'
  BY <1>1, <1>2 DEF WorkerOK, RowsOK, Sound
<1>4. pc[v] \in JobSteps => JournalOK(v, row[v][job[v]])'
  BY <1>1, <1>2, SameHand DEF WorkerOK
<1> QED BY <1>2, <1>3, <1>4 DEF WorkerOK

\* One step of a pass over one job.
LEMMA JobStepOK ==
  ASSUME IInv, NEW w \in Workers,
         \/ \E j \in Jobs : Begin(w, j) \/ Defer(w, j)
         \/ \E o \in Objects : DetachKeeps(w, o) \/ DetachDrops(w, o) \/ CheckCandidate(w, o)
         \/ ReleaseHolds(w) \/ Detached(w) \/ Retain(w) \/ Unpin(w) \/ SaveCandidate(w)
         \/ Retired(w) \/ FailJob(w)
  PROVE  WorkerOK(w)' /\ OutputsSound'
<1> DEFINE r == row[w][job[w]]
<1> USE DEF JobSteps, Goto
<1>0. TypeOK /\ RowsOK(w) /\ OutputsSound
  BY DEF IInv, ReceiptsInv, OutputsSound
<1>1. ASSUME NEW j \in Jobs, Begin(w, j) PROVE WorkerOK(w)' /\ OutputsSound'
  <2>1. row[w][j].status = "retiring" /\ row[w][j] \in Output
    BY <1>0, <1>1 DEF RowsOK, Begin, TypeOK
  <2>2. /\ job'[w] = j /\ journal'[w] = row[w][j] /\ left'[w] = WithFate(row[w][j], "candidate")
        /\ pc'[w] = IF row[w][j].detached THEN "check" ELSE "release"
        /\ UNCHANGED <<out, row, todo, holds>>
    BY <1>0, <1>1 DEF Begin, TypeOK, jobVars, passVars
  <2>3. JournalOK(w, row[w][job[w]])'
    BY <2>1, <2>2 DEF JournalOK, SameCourse, WithFate, Output
  <2>4. RowsOK(w)'
    BY <1>0, <1>1, <2>2, SMTT(30) DEF RowsOK, Begin, Sound
  <2> QED BY <1>0, <2>2, <2>3, <2>4 DEF WorkerOK, OutputsSound, Sound
<1>2. ASSUME NEW j \in Jobs, Defer(w, j) PROVE WorkerOK(w)' /\ OutputsSound'
  BY <1>0, <1>2 DEF RowsOK, Defer, WorkerOK, OutputsSound, Sound, TypeOK, jobVars, itemVars
<1>3. ASSUME NEW o \in Objects, DetachKeeps(w, o) \/ DetachDrops(w, o)
      PROVE  WorkerOK(w)' /\ OutputsSound'
  <2>1. /\ pc[w] = "detach" /\ UNCHANGED <<out, row, todo, pc, job>>
        /\ SameCourse(journal'[w], journal[w])
        /\ \A p \in Objects : journal'[w].fate[p] \in {journal[w].fate[p], "candidate"}
    <3>1. /\ pc[w] = "detach" /\ UNCHANGED <<out, row, todo, pc, job>>
          /\ \/ journal'[w] = [journal[w] EXCEPT !.kept = TRUE]
             \/ journal'[w] = [journal[w] EXCEPT !.fate[o] = "candidate"]
      BY <1>0, <1>3 DEF TypeOK, DetachKeeps, DetachDrops, jobVars, passVars
    <3>2. journal[w] \in Output
      BY <1>0 DEF TypeOK
    <3> QED BY <3>1, <3>2 DEF Output, SameCourse
  <2>2. JournalOK(w, r)
    BY <2>1, InHand
  <2>3. r' = r /\ JournalOK(w, row[w][job[w]])'
    BY <2>1, <2>2 DEF JournalOK, SameCourse
  <2> QED BY <1>0, <2>1, <2>3 DEF WorkerOK, RowsOK, OutputsSound, Sound
<1>5. ASSUME NEW o \in Objects, CheckCandidate(w, o) PROVE WorkerOK(w)' /\ OutputsSound'
  <2>1. /\ pc[w] = "check" /\ pc'[w] = "act" /\ object'[w] = o /\ o \in left[w]
        /\ blocked'[w] = InUse(w, o) /\ UNCHANGED <<out, row, todo, job, journal, left, holds>>
    BY <1>0, <1>5 DEF TypeOK, CheckCandidate, jobVars, passVars
  <2>2. JournalOK(w, r)
    BY <2>1, InHand
  <2>3. r' = r /\ JournalOK(w, row[w][job[w]])'
    BY <2>1, <2>2 DEF JournalOK, SameCourse, InUse
  <2> QED BY <1>0, <2>1, <2>3 DEF WorkerOK, RowsOK, OutputsSound, Sound
<1>6. ASSUME NEW s \in Output, job[w] \in Jobs, pc[w] \in JobSteps, pc'[w] \in JobSteps,
             Checkpoint(w, job[w], s), Sound(s), s.status = "retiring", UNCHANGED <<todo, job>>
      PROVE  RowsOK(w)' /\ OutputsSound' /\ row'[w][job'[w]] = s
  BY <1>0, <1>6 DEF RowsOK, OutputsSound, Checkpoint, Sound, TypeOK
<1>7. ASSUME ReleaseHolds(w) PROVE WorkerOK(w)' /\ OutputsSound'
  <2> DEFINE s == [journal[w] EXCEPT !.released = TRUE]
  <2>1. /\ pc[w] = "release" /\ pc'[w] = "detach" /\ Checkpoint(w, job[w], s)
        /\ journal'[w] = s /\ UNCHANGED <<todo, job>>
    BY <1>0, <1>7 DEF TypeOK, ReleaseHolds, Persist
  <2>2. /\ job[w] \in Jobs /\ journal[w] \in Output /\ JournalOK(w, r)
        /\ s \in Output /\ Sound(s) /\ s.status = "retiring" /\ s.detached = journal[w].detached
    <3>1. /\ job[w] \in Jobs /\ journal[w] \in Output /\ JournalOK(w, r)
          /\ Sound(journal[w]) /\ journal[w].status = "retiring"
      BY <2>1, InHand
    <3>2. s.status = "retiring" /\ s.detached = journal[w].detached
      BY <3>1 DEF Output
    <3> QED BY <3>1, <3>2, SoundMarked
  <2>3. ~s.detached
    BY <2>1, <2>2 DEF JournalOK, SameCourse
  <2>4. RowsOK(w)' /\ OutputsSound' /\ row'[w][job'[w]] = s
    <3> HIDE DEF s
    <3> QED BY <1>6, <2>1, <2>2
  <2>5. JournalOK(w, row[w][job[w]])'
    BY <2>1, <2>2, <2>3, <2>4 DEF JournalOK, SameCourse
  <2> QED BY <2>4, <2>5 DEF WorkerOK
<1>8. ASSUME Detached(w) PROVE WorkerOK(w)' /\ OutputsSound'
  <2> DEFINE s == [journal[w] EXCEPT !.detached = TRUE]
  <2>1. /\ pc[w] = "detach" /\ pc'[w] = "check" /\ Checkpoint(w, job[w], s)
        /\ journal'[w] = s /\ left'[w] = WithFate(journal[w], "candidate")
        /\ UNCHANGED <<todo, job>>
    BY <1>0, <1>8 DEF TypeOK, Detached, Persist
  <2>2. /\ job[w] \in Jobs /\ journal[w] \in Output
        /\ s \in Output /\ Sound(s) /\ s.status = "retiring"
        /\ s.detached /\ s.fate = journal[w].fate
    <3>1. /\ job[w] \in Jobs /\ journal[w] \in Output
          /\ Sound(journal[w]) /\ journal[w].status = "retiring"
      BY <2>1, InHand
    <3>2. s.status = "retiring" /\ s.detached /\ s.fate = journal[w].fate
      BY <3>1 DEF Output
    <3> QED BY <3>1, <3>2, SoundMarked
  <2>4. RowsOK(w)' /\ OutputsSound' /\ row'[w][job'[w]] = s
    <3> HIDE DEF s
    <3> QED BY <1>6, <2>1, <2>2
  <2>5. JournalOK(w, row[w][job[w]])'
    BY <2>1, <2>2, <2>4 DEF JournalOK, SameCourse, WithFate
  <2> QED BY <2>4, <2>5 DEF WorkerOK
<1>9. ASSUME NEW f \in {"unpinned", "retained"}, Act(w, f), Retain(w) \/ Unpin(w)
      PROVE  WorkerOK(w)' /\ OutputsSound'
  <2>1. /\ pc[w] = "act" /\ pc'[w] = "save" /\ UNCHANGED <<out, row, todo, job, left, object>>
    BY <1>0, <1>9 DEF TypeOK, Retain, Unpin, Act, jobVars, passVars
  <2>2. JournalOK(w, r) /\ journal[w] \in Output /\ left[w] \subseteq Objects
    BY <2>1, InHand
  <2>3. object[w] \in Objects
    BY <2>1, <2>2 DEF JournalOK
  <2>4. journal'[w] = [journal[w] EXCEPT !.fate[object[w]] = f]
    BY <1>0, <1>9 DEF TypeOK, Act
  <2>5. /\ SameCourse(journal'[w], journal[w])
        /\ \A p \in Objects : journal'[w].fate[p] = IF p = object[w] THEN f ELSE journal[w].fate[p]
    BY <2>2, <2>3, <2>4 DEF Output, SameCourse
  <2>6. r' = r /\ JournalOK(w, row[w][job[w]])'
    <3>1. r' = r
      BY <2>1
    <3>2. SameCourse(journal[w], r)'
      BY <2>2, <2>5, <3>1 DEF JournalOK, SameCourse
    <3> QED BY <2>1, <2>2, <2>3, <2>5, <3>1, <3>2 DEF JournalOK
  <2> QED BY <1>0, <2>1, <2>6 DEF WorkerOK, RowsOK, OutputsSound, Sound
<1>10. ASSUME Retain(w) \/ Unpin(w) PROVE WorkerOK(w)' /\ OutputsSound'
  BY <1>9, <1>10 DEF Retain, Unpin
<1>11. ASSUME SaveCandidate(w) PROVE WorkerOK(w)' /\ OutputsSound'
  <2>1. /\ pc[w] = "save" /\ pc'[w] = "check" /\ Checkpoint(w, job[w], journal[w])
        /\ journal'[w] = journal[w] /\ left'[w] = left[w] \ {object[w]}
        /\ UNCHANGED <<todo, job>>
    BY <1>0, <1>11 DEF TypeOK, SaveCandidate, Persist
  <2>2. /\ job[w] \in Jobs /\ journal[w] \in Output /\ JournalOK(w, r)
        /\ Sound(journal[w]) /\ journal[w].status = "retiring"
    BY <2>1, InHand
  <2>3. RowsOK(w)' /\ OutputsSound' /\ row'[w][job'[w]] = journal[w]
    BY <1>6, <2>1, <2>2
  <2>4. journal[w].detached /\ object[w] \in left[w]
    BY <2>1, <2>2 DEF JournalOK, SameCourse
  <2>5. \A o \in Objects : o \in left'[w] <=> journal[w].fate[o] = "candidate"
    BY <2>1, <2>2, <2>4 DEF JournalOK
  <2>6. JournalOK(w, row[w][job[w]])'
    <3>1. SameCourse(journal[w], row[w][job[w]])'
      BY <2>1, <2>3 DEF SameCourse
    <3> QED BY <2>1, <2>2, <2>3, <2>4, <2>5, <3>1 DEF JournalOK
  <2> QED BY <2>3, <2>6 DEF WorkerOK
<1>12. ASSUME NEW s \in Output, job[w] \in Jobs, pc[w] \in JobSteps,
              Checkpoint(w, job[w], s), Sound(s), EndJob(w)
       PROVE  WorkerOK(w)' /\ OutputsSound'
  <2>1. /\ pc'[w] = "retire" /\ todo'[w] = todo[w] \ {job[w]}
        /\ \A j \in Jobs : row'[w][j] = IF j = job[w] THEN s ELSE row[w][j]
        /\ \A j \in Jobs : out'[j] = IF j = job[w] THEN s ELSE out[j]
    BY <1>0, <1>12 DEF TypeOK, EndJob, Checkpoint
  <2>2. todo[w] \subseteq Jobs
    BY <1>0 DEF TypeOK
  <2>3. RowsOK(w)' /\ OutputsSound'
    BY <1>0, <1>12, <2>1, <2>2 DEF RowsOK, OutputsSound, Sound
  <2> QED BY <2>1, <2>3 DEF WorkerOK
<1>13. ASSUME Retired(w) PROVE WorkerOK(w)' /\ OutputsSound'
  <2> DEFINE s == [journal[w] EXCEPT !.status = Outcome(journal[w]), !.failures = 0]
  <2>1. pc[w] = "check" /\ left[w] = {} /\ Checkpoint(w, job[w], s) /\ EndJob(w)
    BY <1>13 DEF Retired
  <2>2. /\ job[w] \in Jobs /\ journal[w] \in Output /\ JournalOK(w, r)
        /\ Sound(journal[w]) /\ journal[w].status = "retiring"
    BY <2>1, InHand
  <2>3. \A o \in Objects : journal[w].fate[o] # "candidate"
    BY <2>1, <2>2 DEF JournalOK
  <2>4. s \in Output /\ Sound(s)
    BY <2>2, <2>3, SoundRetired
  <2> HIDE DEF s
  <2> QED BY <1>12, <2>1, <2>2, <2>4
<1>14. ASSUME FailJob(w) PROVE WorkerOK(w)' /\ OutputsSound'
  <2>1. pc[w] \in JobSteps /\ Checkpoint(w, job[w], Failure(r)) /\ EndJob(w)
    BY <1>0, <1>14 DEF FailJob, TypeOK
  <2>2. job[w] \in Jobs /\ r \in Output /\ Sound(r) /\ r.status = "retiring"
    BY <2>1, InHand
  <2>3. Failure(r) \in Output /\ Sound(Failure(r))
    BY <2>2, SoundFailure
  <2> QED BY <1>12, <2>1, <2>2, <2>3
<1> QED BY <1>1, <1>2, <1>3, <1>5, <1>7, <1>8, <1>10, <1>11, <1>13, <1>14

\* The steps of a pass that are not about one job.
LEMMA PassStepOK ==
  ASSUME IInv, NEW w \in Workers,
         \/ TakeBatch(w) \/ EnterFence(w) \/ StartCollection(w) \/ Rechecked(w) \/ Swept(w)
         \/ Ends(w) \/ FailCollection(w)
         \/ \E j \in Jobs : Recheck(w, j) \/ Close(w, j)
         \/ \E o \in Objects : Sweep(w, o)
  PROVE  WorkerOK(w)' /\ OutputsSound'
<1> USE DEF JobSteps, Goto
<1>0. TypeOK /\ RowsOK(w) /\ OutputsSound
  BY DEF IInv, ReceiptsInv, OutputsSound
<1>1. ASSUME NEW S \in SUBSET Jobs
      PROVE  \A j \in Jobs : Reads(S)[j] = (IF j \in S THEN out[j] ELSE Fresh) /\ Sound(Reads(S)[j])
  BY <1>0, FreshSound DEF Reads, OutputsSound
<1>2. \A s : Due(s) \subseteq Jobs /\ \A j \in Due(s) : out[j].status = s
  BY DEF Due
<1>3. CASE TakeBatch(w)
  <2>1. /\ pc'[w] = "fence" /\ todo'[w] = Due("retiring") /\ out' = out
        /\ row'[w] = Reads(Due("retiring") \cup Due("gc_pending"))
    BY <1>0, <1>3 DEF TakeBatch, TypeOK, jobVars
  <2> QED BY <1>0, <1>1, <1>2, <2>1 DEF WorkerOK, RowsOK, OutputsSound, Sound
<1>4. CASE EnterFence(w)
  <2>1. pc[w] = "fence" /\ pc'[w] = "retire" /\ UNCHANGED <<todo, row, out>>
    BY <1>0, <1>4 DEF EnterFence, TypeOK, jobVars
  <2> QED BY <1>0, <2>1 DEF WorkerOK, RowsOK, OutputsSound, Sound
<1>5. CASE StartCollection(w)
  <2>1. /\ pc'[w] = "recheck" /\ todo'[w] = Due("gc_pending") /\ out' = out
        /\ row'[w] = Reads(Due("gc_pending"))
    BY <1>0, <1>5 DEF StartCollection, TypeOK, jobVars
  <2> QED BY <1>0, <1>1, <1>2, <2>1 DEF WorkerOK, RowsOK, OutputsSound, Sound
<1>6. CASE Rechecked(w)
  <2>1. /\ pc'[w] \in {"collect", "close"} /\ todo'[w] = Batch(w) /\ UNCHANGED <<row, out>>
    BY <1>0, <1>6 DEF Rechecked, TypeOK, jobVars
  <2> QED BY <1>0, <2>1 DEF WorkerOK, RowsOK, OutputsSound, Sound, Batch
<1>7. CASE Swept(w)
  <2>1. pc[w] = "collect" /\ pc'[w] = "close" /\ UNCHANGED <<todo, row, out>>
    BY <1>0, <1>7 DEF Swept, TypeOK, jobVars, passVars
  <2> QED BY <1>0, <2>1 DEF WorkerOK, RowsOK, OutputsSound, Sound
<1>8. ASSUME NEW o \in Objects, Sweep(w, o) PROVE WorkerOK(w)' /\ OutputsSound'
  <2>1. pc[w] = "collect" /\ UNCHANGED <<pc, todo, row, out>>
    BY <1>8 DEF Sweep, jobVars, passVars
  <2> QED BY <1>0, <2>1 DEF WorkerOK, RowsOK, OutputsSound, Sound
<1>9. CASE Ends(w)
  <2>1. /\ pc'[w] = "idle" /\ out' = out /\ \A j \in Jobs : row'[w][j] = Fresh
    BY <1>0, <1>9, PassEnds DEF ForgetPass, TypeOK, jobVars
  <2> QED BY <1>0, <2>1, FreshSound DEF WorkerOK, RowsOK, OutputsSound, Sound
<1>10. CASE FailCollection(w)
  <2>1. /\ pc'[w] = "close" /\ todo'[w] = {} /\ \A j \in Jobs : row'[w][j] = Fresh
        /\ \A j \in Jobs : out'[j] = IF j \in Batch(w) THEN Failure(row[w][j]) ELSE out[j]
    BY <1>0, <1>10 DEF FailCollection, ForgetPass, TypeOK
  <2>2. \A j \in Batch(w) : Sound(Failure(row[w][j]))
    BY <1>0, SoundFailure DEF RowsOK, TypeOK, Batch
  <2>3. \A j \in Jobs : Sound(out'[j])
    BY <1>0, <2>1, <2>2 DEF OutputsSound
  <2>4. \A j \in Jobs : Sound(row'[w][j])
    BY <2>1, FreshSound
  <2> QED BY <2>1, <2>3, <2>4 DEF WorkerOK, RowsOK, OutputsSound, Sound
<1>11. ASSUME NEW j \in Jobs, NEW s \in Output, Sound(s), Checkpoint(w, j, s),
              pc[w] \in {"recheck", "close"}, pc' = pc, todo' = [todo EXCEPT ![w] = @ \ {j}]
       PROVE  WorkerOK(w)' /\ OutputsSound'
  <2>1. /\ \A i \in Jobs : row'[w][i] = IF i = j THEN s ELSE row[w][i]
        /\ \A i \in Jobs : out'[i] = IF i = j THEN s ELSE out[i]
        /\ todo'[w] = todo[w] \ {j} /\ todo[w] \subseteq Jobs
    BY <1>0, <1>11 DEF Checkpoint, TypeOK
  <2> QED BY <1>0, <1>11, <2>1 DEF WorkerOK, RowsOK, OutputsSound, Sound
<1>12. ASSUME NEW j \in Jobs, Recheck(w, j) \/ Close(w, j)
       PROVE row[w][j].status = "gc_pending" /\ row[w][j] \in Output /\ Sound(row[w][j])
  BY <1>0, <1>12 DEF TypeOK, RowsOK, Recheck, Close
<1>13. ASSUME NEW j \in Jobs, Recheck(w, j) PROVE WorkerOK(w)' /\ OutputsSound'
  <2> DEFINE s == [row[w][j] EXCEPT !.fate = [o \in Objects |->
                      IF o \in Revived(w, j) THEN "retained" ELSE @[o]]]
  <2>1. s \in Output /\ Sound(s)
    <3>1. Revived(w, j) \subseteq Objects
      BY DEF Revived, WithFate
    <3> QED BY <1>12, <1>13, <3>1, SoundRechecked
  <2>2. Checkpoint(w, j, s)
    BY <1>13 DEF Recheck
  <2> HIDE DEF s
  <2> QED BY <1>11, <1>13, <2>1, <2>2 DEF Recheck
<1>14. ASSUME NEW j \in Jobs, Close(w, j) PROVE WorkerOK(w)' /\ OutputsSound'
  <2> DEFINE s == [row[w][j] EXCEPT !.status = Verified(row[w][j])]
  <2>1. s \in Output /\ Sound(s)
    BY <1>12, <1>14, SoundClosed
  <2>2. Checkpoint(w, j, s)
    BY <1>14 DEF Close
  <2> HIDE DEF s
  <2> QED BY <1>11, <1>14, <2>1, <2>2 DEF Close
<1> QED BY <1>3, <1>4, <1>5, <1>6, <1>7, <1>8, <1>9, <1>10, <1>13, <1>14

LEMMA OutsidersOK ==
  ASSUME IInv, OwnerStep \/ SessionStep \/ WriterStep \/ UNCHANGED vars
  PROVE  ReceiptsInv' /\ JournalInv'
<1>0. ReceiptsInv /\ JournalInv /\ \A j \in Jobs : out[j] \in Output /\ Sound(out[j])
  BY DEF IInv, TypeOK, ReceiptsInv
<1>1. UNCHANGED <<pc, passVars, itemVars>>
  BY WorkersAlone
<1>2. JournalInv' /\ \A w \in Workers : RowsOK(w)'
  <2>1. JournalInv'
    BY <1>0, <1>1, SameHand DEF JournalInv, passVars, itemVars
  <2>2. \A w \in Workers : RowsOK(w)'
    BY <1>0, <1>1 DEF ReceiptsInv, RowsOK, Sound, passVars, itemVars
  <2> QED BY <2>1, <2>2
<1>3. CASE out' = out
  BY <1>0, <1>2, <1>3 DEF ReceiptsInv
<1>4. ASSUME NEW j \in Jobs, NEW s, Sound(s), Update(j, s) PROVE ReceiptsInv'
  BY <1>0, <1>2, <1>4 DEF ReceiptsInv, Update, IInv, TypeOK
<1>5. ASSUME NEW j \in Jobs, Finalize(j) PROVE ReceiptsInv'
  <2>1. PICK s \in {"complete", "retiring"} : Update(j, [out[j] EXCEPT !.status = s])
    BY <1>5 DEF Finalize
  <2> QED BY <1>0, <1>4, <1>5, <2>1, SoundFinalized DEF Finalize
<1>6. ASSUME NEW j \in Jobs, FinalizeRetained(j) PROVE ReceiptsInv'
  BY <1>0, <1>4, <1>6, SoundFinalized DEF FinalizeRetained
<1>7. ASSUME NEW j \in Jobs, RetryCleanup(j) PROVE ReceiptsInv'
  BY <1>0, <1>4, <1>7, SoundRetry DEF RetryCleanup
<1>8. CASE SessionStep \/ WriterStep \/ UNCHANGED vars \/ \E j \in Jobs : BackoffEnds(j)
  <2>1. out' = out
    BY <1>8 DEF SessionStep, FenceBreaks, BreakNoticed, WorkerLockBreaks, WriterStep, Write,
       WriterCalls, WriterReturns, AddContent, SaveFile, MentionInPost, BackoffEnds, vars, jobVars
  <2> QED BY <1>3, <2>1
<1> QED BY <1>2, <1>5, <1>6, <1>7, <1>8 DEF OwnerStep

LEMMA ReceiptsStep == ASSUME IInv, [Next]_vars PROVE ReceiptsInv' /\ JournalInv'
<1>1. ASSUME NEW w \in Workers, FencedStep(w) \/ EnterFence(w) \/ Ends(w)
      PROVE  ReceiptsInv' /\ JournalInv'
  <2>1. WorkerOK(w)' /\ OutputsSound'
    BY <1>1, JobStepOK, PassStepOK DEF FencedStep
  <2>2. \A v \in Workers : WorkerOK(v)'
    BY <1>1, <2>1, OthersOK
  <2> QED BY <2>1, <2>2 DEF WorkerOK, OutputsSound, ReceiptsInv, JournalInv
<1> QED BY <1>1, OutsidersOK, NextCases

-----------------------------------------------------------------------------
(* What may become of a receipt. *)

\* What a step makes of a receipt: a closed one stays, and a detached one goes on.
GoesOn(r, s) ==
    /\ r.status \in Closed => s = r
    /\ r.detached => s.detached /\ \A o \in Objects : Rank(r.fate[o]) <= Rank(s.fate[o])
    /\ s.status = "rendered" => r.status = "rendered"

\* All steps but one leave it at that whether the old site is retained.
Keeps(r, s) == GoesOn(r, s) /\ (s.retention => r.retention)

LEMMA StaysOn == \A r \in Output : Keeps(r, r)
  BY DEF Keeps, GoesOn, Rank, Output, Fates

LEMMA RankOrder ==
  /\ \A f \in Fates : Rank(f) <= Rank(f)
  /\ \A f \in {"unpinned", "retained"} : Rank("candidate") <= Rank(f)
  BY DEF Rank, Fates

\* The updates of a receipt, by whom and of what they are.
LEMMA ReceiptGoesOn ==
  ASSUME IInv, [Next]_vars, NEW j \in Jobs, ~ \E i \in Jobs : FinalizeRetained(i)
  PROVE  Keeps(out[j], out'[j])
<1> USE DEF JobSteps
<1>0. TypeOK /\ out[j] \in Output /\ Keeps(out[j], out[j]) /\ Sound(out[j])
  BY StaysOn DEF IInv, TypeOK, ReceiptsInv
<1>1. CASE out' = out
  BY <1>0, <1>1
<1>2. ASSUME NEW w \in Workers, NEW i \in Jobs, NEW s, Checkpoint(w, i, s), Keeps(row[w][i], s)
      PROVE  Keeps(out[j], out'[j])
  BY <1>0, <1>2 DEF Checkpoint, Current, TypeOK
<1>3. ASSUME NEW w \in Workers, pc[w] \in JobSteps,
             ReleaseHolds(w) \/ Detached(w) \/ SaveCandidate(w) \/ Retired(w) \/ FailJob(w)
      PROVE  Keeps(out[j], out'[j])
  <2> DEFINE r == row[w][job[w]]
  <2>1. /\ job[w] \in Jobs /\ r \in Output /\ Sound(r) /\ r.status = "retiring"
        /\ journal[w] \in Output /\ SameCourse(journal[w], r) /\ JournalOK(w, r)
        /\ Sound(journal[w]) /\ journal[w].status = "retiring" /\ ~journal[w].retention
    BY <1>3, InHand DEF SameCourse
  <2>2. r.status \notin Closed
    BY <2>1 DEF Closed
  <2>3. CASE ReleaseHolds(w) \/ Detached(w)
    <3>1. ~r.detached
      BY <2>1, <2>3 DEF JournalOK, ReleaseHolds, Detached
    <3>2. ASSUME NEW s, s.status = "retiring", ~s.retention PROVE Keeps(r, s)
      BY <2>2, <3>1, <3>2 DEF Keeps, GoesOn
    <3>3. LET s == [journal[w] EXCEPT !.released = TRUE] IN s.status = "retiring" /\ ~s.retention
      BY <2>1 DEF Output
    <3>4. LET s == [journal[w] EXCEPT !.detached = TRUE] IN s.status = "retiring" /\ ~s.retention
      BY <2>1 DEF Output
    <3> QED BY <1>2, <2>1, <2>3, <3>2, <3>3, <3>4 DEF ReleaseHolds, Detached, Persist
  <2>4. CASE SaveCandidate(w)
    <3>1. \A o \in Objects : Rank(r.fate[o]) <= Rank(journal[w].fate[o])
      <4>1. \A o \in Objects : \/ journal[w].fate[o] = r.fate[o]
                               \/ /\ r.fate[o] = "candidate"
                                  /\ journal[w].fate[o] \in {"unpinned", "retained"}
        BY <2>1, <2>4 DEF SaveCandidate, JournalOK
      <4> QED BY <2>1, <4>1, RankOrder DEF Output
    <3>2. Keeps(r, journal[w])
      BY <2>1, <2>2, <3>1 DEF Keeps, GoesOn, SameCourse
    <3> QED BY <1>2, <2>1, <2>4, <3>2 DEF SaveCandidate, Persist
  <2>5. CASE Retired(w)
    <3> DEFINE s == [journal[w] EXCEPT !.status = Outcome(journal[w]), !.failures = 0]
    <3>1. /\ s.fate = journal[w].fate /\ s.detached = r.detached
          /\ ~s.retention /\ s.status = Outcome(journal[w]) /\ s.status # "rendered"
      BY <2>1 DEF Output, SameCourse, Outcome
    <3>2. \A o \in Objects : Rank(r.fate[o]) <= Rank(s.fate[o])
      <4>1. \A o \in Objects : s.fate[o] = r.fate[o]
        BY <2>1, <2>5, <3>1 DEF Retired, JournalOK
      <4> HIDE DEF s
      <4> QED BY <2>1, <4>1, RankOrder DEF Output
    <3>3. Keeps(r, s)
      BY <2>2, <3>1, <3>2 DEF Keeps, GoesOn
    <3>4. Checkpoint(w, job[w], s)
      BY <2>5 DEF Retired
    <3> HIDE DEF s
    <3> QED BY <1>2, <2>1, <3>3, <3>4
  <2>6. CASE FailJob(w)
    <3>1. Keeps(r, Failure(r))
      BY <2>1, <2>2, SoundFailure, StaysOn DEF Keeps, GoesOn
    <3> QED BY <1>2, <2>1, <2>6, <3>1 DEF FailJob
  <2> QED BY <1>3, <2>3, <2>4, <2>5, <2>6
<1>4. ASSUME NEW w \in Workers, NEW i \in Jobs, Recheck(w, i) \/ Close(w, i)
      PROVE  Keeps(out[j], out'[j])
  <2> DEFINE r == row[w][i]
  <2>1. r.status = "gc_pending" /\ r \in Output /\ Sound(r) /\ r.status \notin Closed
    BY <1>4 DEF IInv, TypeOK, ReceiptsInv, RowsOK, Recheck, Close, Closed
  <2>2. CASE Recheck(w, i)
    <3> DEFINE s == [r EXCEPT !.fate = [o \in Objects |->
                        IF o \in Revived(w, i) THEN "retained" ELSE @[o]]]
    <3>1. Revived(w, i) \subseteq Objects /\ \A o \in Revived(w, i) : r.fate[o] = "unpinned"
      BY DEF Revived, WithFate
    <3>2. /\ s.detached = r.detached /\ s.status = "gc_pending" /\ Sound(s)
          /\ \A o \in Objects : s.fate[o] = IF o \in Revived(w, i) THEN "retained" ELSE r.fate[o]
      BY <2>1, <3>1, SoundRechecked, SMTT(30)
    <3>3. Keeps(r, s)
      <4> HIDE DEF s
      <4>1. ~s.retention
        BY <3>2 DEF Sound
      <4>2. \A o \in Objects : Rank(r.fate[o]) <= Rank(s.fate[o])
        BY <2>1, <3>1, <3>2 DEF Rank, Output, Fates
      <4> QED BY <2>1, <3>2, <4>1, <4>2 DEF Keeps, GoesOn
    <3>4. Checkpoint(w, i, s)
      BY <2>2 DEF Recheck
    <3> HIDE DEF s
    <3> QED BY <1>2, <3>3, <3>4
  <2>3. CASE Close(w, i)
    <3> DEFINE s == [r EXCEPT !.status = Verified(r)]
    <3>1. Keeps(r, s)
      BY <2>1, SoundClosed, StaysOn DEF Keeps, GoesOn, Closed
    <3>2. Checkpoint(w, i, s)
      BY <2>3 DEF Close
    <3> HIDE DEF s
    <3> QED BY <1>2, <3>1, <3>2
  <2> QED BY <1>4, <2>2, <2>3
<1>5. ASSUME NEW w \in Workers, FailCollection(w) PROVE Keeps(out[j], out'[j])
  <2>1. CASE j \in Batch(w)
    <3>1. out'[j] = Failure(out[j]) /\ out[j].status = "gc_pending"
      BY <1>5, <2>1 DEF FailCollection, Current, Batch
    <3> QED BY <1>0, <3>1, SoundFailure, StaysOn DEF Keeps, GoesOn, Closed
  <2>2. CASE j \notin Batch(w)
    BY <1>0, <1>5, <2>2 DEF FailCollection
  <2> QED BY <2>1, <2>2
<1>6. ASSUME NEW i \in Jobs, NEW s, Update(i, s), Keeps(out[i], s) PROVE Keeps(out[j], out'[j])
  BY <1>0, <1>6 DEF Update, TypeOK
<1>7. ASSUME NEW i \in Jobs, Finalize(i) \/ RetryCleanup(i)
      PROVE  Keeps(out[j], out'[j])
  <2>1. /\ out[i] \in Output /\ Sound(out[i]) /\ out[i].status \notin Closed
        /\ Keeps(out[i], out[i])
    BY <1>0, <1>7, StaysOn DEF Finalize, RetryCleanup, Closed, TypeOK, IInv, ReceiptsInv
  <2>2. PICK s : /\ Update(i, s) /\ s.detached = out[i].detached /\ s.fate = out[i].fate
                /\ s.status # "rendered" /\ s.retention = out[i].retention
    <3>1. \A t \in {"complete", "retiring"} :
             LET u == [out[i] EXCEPT !.status = t] IN
             /\ u.detached = out[i].detached /\ u.fate = out[i].fate
             /\ u.status # "rendered" /\ u.retention = out[i].retention
      BY <2>1 DEF Output
    <3>3. LET u == [out[i] EXCEPT !.status = out[i].resume, !.failures = 0] IN
          /\ u.detached = out[i].detached /\ u.fate = out[i].fate
          /\ u.status # "rendered" /\ u.retention = out[i].retention
      BY <2>1 DEF Output, Sound
    <3>4. CASE Finalize(i)
      BY <3>1, <3>4 DEF Finalize
    <3>6. CASE RetryCleanup(i)
      BY <3>3, <3>6 DEF RetryCleanup
    <3> QED BY <1>7, <3>4, <3>6
  <2>3. Keeps(out[i], s)
    BY <2>1, <2>2 DEF Keeps, GoesOn
  <2> QED BY <1>6, <2>2, <2>3
<1>8. CASE SessionStep \/ WriterStep \/ UNCHANGED vars \/ \E i \in Jobs : BackoffEnds(i)
  <2>1. out' = out
    BY <1>8 DEF SessionStep, FenceBreaks, BreakNoticed, WorkerLockBreaks, WriterStep, Write,
       WriterCalls, WriterReturns, AddContent, SaveFile, MentionInPost, BackoffEnds, vars, jobVars
  <2> QED BY <1>1, <2>1
<1>9. CASE OwnerStep
  BY <1>7, <1>8, <1>9 DEF OwnerStep
<1>10. ASSUME NEW w \in Workers, EnterFence(w) \/ Ends(w) PROVE out' = out
  BY <1>10, PassEnds DEF EnterFence, jobVars
<1>11. ASSUME NEW w \in Workers, FencedStep(w) PROVE Keeps(out[j], out'[j])
  <2>1. CASE TakeBatch(w) \/ Retain(w) \/ Unpin(w) \/ StartCollection(w) \/ Rechecked(w) \/ Swept(w)
    BY <1>1, <2>1 DEF TakeBatch, Retain, Unpin, Act, StartCollection, Rechecked, Swept, jobVars
  <2>2. CASE \E i \in Jobs : Begin(w, i) \/ Defer(w, i)
    BY <1>1, <2>2 DEF Begin, Defer, jobVars
  <2>3. CASE \E o \in Objects :
                DetachKeeps(w, o) \/ DetachDrops(w, o) \/ CheckCandidate(w, o) \/ Sweep(w, o)
    BY <1>1, <2>3 DEF DetachKeeps, DetachDrops, CheckCandidate, Sweep, jobVars
  <2>4. CASE ReleaseHolds(w) \/ Detached(w) \/ SaveCandidate(w) \/ Retired(w) \/ FailJob(w)
    BY <1>0, <1>3, <2>4 DEF ReleaseHolds, Detached, SaveCandidate, Retired, FailJob, TypeOK
  <2> QED BY <1>4, <1>5, <1>11, <2>1, <2>2, <2>3, <2>4 DEF FencedStep
<1> QED BY <1>1, <1>8, <1>9, <1>10, <1>11, NextCases

-----------------------------------------------------------------------------
(* Retained sites. *)

LEMMA RetainedGoesOn ==
  ASSUME IInv, NEW i \in Jobs, FinalizeRetained(i), NEW j \in Jobs
  PROVE  /\ GoesOn(out[j], out'[j])
         /\ j # i => out'[j] = out[j]
         /\ out[i].status = "rendered" /\ Old[i] \subseteq pinned' /\ Old[i] \subseteq present'
<1>0. /\ out \in [Jobs -> Output] /\ Sound(out[i]) /\ GoesOn(out[j], out[j])
  BY StaysOn DEF IInv, TypeOK, ReceiptsInv, Keeps
<1> DEFINE s == [out[i] EXCEPT !.status = "complete_with_retained", !.retention = TRUE,
                               !.kept = TRUE]
<1>1. out' = [out EXCEPT ![i] = s] /\ out[i].status = "rendered"
  BY DEF FinalizeRetained, Update
<1>2. s.status # "rendered" /\ s.fate = out[i].fate /\ s.detached = out[i].detached
  BY <1>0 DEF Output
<1>3. GoesOn(out[i], out[i])
  BY <1>0, StaysOn DEF Keeps
<1>4. GoesOn(out[i], s)
  BY <1>1, <1>2, <1>3 DEF GoesOn, Closed
<1> HIDE DEF s
<1> QED BY <1>0, <1>1, <1>4 DEF FinalizeRetained

\* What any step does to a receipt.
LEMMA AnyGoesOn ==
  ASSUME IInv, [Next]_vars, NEW j \in Jobs
  PROVE  /\ GoesOn(out[j], out'[j])
         /\ out'[j].retention => \/ out[j].retention /\ out'[j] = out[j]
                                 \/ FinalizeRetained(j)
<1>1. out[j].retention => out[j].status \in Closed
  BY DEF IInv, ReceiptsInv, Sound, Closed
<1>2. CASE ~ \E i \in Jobs : FinalizeRetained(i)
  BY <1>1, <1>2, ReceiptGoesOn DEF Keeps, GoesOn
<1>3. ASSUME NEW i \in Jobs, FinalizeRetained(i)
      PROVE  /\ GoesOn(out[j], out'[j])
             /\ out'[j].retention => \/ out[j].retention /\ out'[j] = out[j]
                                     \/ FinalizeRetained(j)
  <2>1. CASE j = i
    BY <1>3, <2>1, RetainedGoesOn
  <2>2. CASE j # i
    BY <1>3, <2>2, RetainedGoesOn
  <2> QED BY <2>1, <2>2
<1> QED BY <1>2, <1>3

\* Whose replacement may yet retain its old site, or has.
MayRetain(j) == out[j].status = "rendered" \/ out[j].retention

LEMMA RetainersOnlyLeave ==
  ASSUME IInv, [Next]_vars, NEW j \in Jobs, MayRetain(j)'
  PROVE  MayRetain(j)
  BY AnyGoesOn DEF MayRetain, GoesOn, FinalizeRetained

\* A hold of a snapshot is given up for the job in hand only, which retains nothing.
LEMMA HoldsStep == ASSUME IInv, [Next]_vars PROVE HoldsInv'
<1> USE DEF JobSteps, Goto
<1>0. TypeOK /\ HoldsInv
  BY DEF IInv
<1>1. ASSUME NEW v \in Workers, UNCHANGED <<pc[v], holds[v]>>, NEW j \in Jobs, NEW o \in Objects,
             pc'[v] \in JobSteps \cup {"retire", "recheck"}, MayRetain(j)', o \in Old[j]
      PROVE  j \in holds'[v][o]
  BY <1>0, <1>1, RetainersOnlyLeave DEF HoldsInv, MayRetain
<1>2. CASE OwnerStep \/ SessionStep \/ WriterStep \/ UNCHANGED vars
  BY <1>1, <1>2, WorkersAlone DEF HoldsInv, MayRetain, passVars
<1>3. ASSUME NEW w \in Workers, FencedStep(w) \/ EnterFence(w) \/ Ends(w),
             NEW j \in Jobs, NEW o \in Objects,
             pc'[w] \in JobSteps \cup {"retire", "recheck"}, MayRetain(j)', o \in Old[j]
      PROVE  j \in holds'[w][o]
  <2>0. MayRetain(j) /\ Sound(out[j])
    BY <1>3, RetainersOnlyLeave DEF IInv, ReceiptsInv
  <2>1. j \in Holders(o) /\ Snapshot[o] = Holders(o)
    BY <1>3, <2>0 DEF Holders, Snapshot, Sound, MayRetain, Waiting
  <2>2. CASE EnterFence(w) \/ StartCollection(w)
    BY <1>0, <2>1, <2>2 DEF EnterFence, StartCollection, TypeOK
  <2>3. CASE ReleaseHolds(w)
    <3>1. pc[w] = "release" /\ Current(w, job[w]) /\ holds' = [holds EXCEPT ![w] = [p \in Objects |-> @[p] \ {job[w]}]]
      BY <2>3 DEF ReleaseHolds, Persist, Checkpoint
    <3>2. out[job[w]].status = "retiring" /\ ~out[job[w]].retention
      BY <3>1, InHand DEF Current
    <3>3. j # job[w] /\ j \in holds[w][o]
      BY <1>0, <1>3, <2>0, <3>1, <3>2 DEF MayRetain, HoldsInv
    <3> QED BY <1>0, <3>1, <3>3 DEF TypeOK
  <2>4. CASE Ends(w) \/ FailCollection(w) \/ TakeBatch(w)
    BY <1>0, <1>3, <2>4, PassEnds DEF FailCollection, TakeBatch, TypeOK
  <2> DEFINE Same == holds' = holds
                     /\ (pc'[w] \in JobSteps \cup {"retire", "recheck"}
                            => pc[w] \in JobSteps \cup {"retire", "recheck"})
  <2>5. ASSUME Same PROVE j \in holds'[w][o]
    BY <1>0, <1>3, <2>0, <2>5 DEF HoldsInv, MayRetain
  <2>6. ASSUME NEW i \in Jobs, Begin(w, i) \/ Defer(w, i) \/ Recheck(w, i) \/ Close(w, i)
        PROVE  Same
    BY <1>0, <2>6 DEF Begin, Defer, Recheck, Close, passVars, TypeOK
  <2>7. ASSUME NEW p \in Objects,
               DetachKeeps(w, p) \/ DetachDrops(w, p) \/ CheckCandidate(w, p) \/ Sweep(w, p)
        PROVE  Same
    BY <1>0, <2>7 DEF DetachKeeps, DetachDrops, CheckCandidate, Sweep, passVars, TypeOK
  <2>8. CASE Detached(w) \/ Retain(w) \/ Unpin(w) \/ SaveCandidate(w)
    <3>1. Same
      BY <1>0, <2>8 DEF Detached, Retain, Unpin, Act, SaveCandidate, passVars, TypeOK
    <3> QED BY <2>5, <3>1
  <2>9. CASE Retired(w) \/ FailJob(w)
    <3>1. pc[w] \in JobSteps /\ holds' = holds
      BY <1>0, <2>9 DEF Retired, FailJob, TypeOK
    <3> QED BY <2>5, <3>1
  <2>10. CASE Rechecked(w) \/ Swept(w)
    BY <1>0, <1>3, <2>10 DEF Rechecked, Swept, TypeOK
  <2> QED BY <1>3, <2>2, <2>3, <2>4, <2>5, <2>6, <2>7, <2>8, <2>9, <2>10 DEF FencedStep
<1>4. ASSUME NEW w \in Workers, FencedStep(w) \/ EnterFence(w) \/ Ends(w) PROVE HoldsInv'
  <2>1. ASSUME NEW v \in Workers, NEW j \in Jobs, NEW o \in Objects,
               pc'[v] \in JobSteps \cup {"retire", "recheck"}, MayRetain(j)', o \in Old[j]
        PROVE  j \in holds'[v][o]
    <3>1. CASE v = w
      BY <1>3, <1>4, <2>1, <3>1
    <3>2. CASE v # w
      BY <1>1, <1>4, <2>1, <3>2, OnlyOwn
    <3> QED BY <3>1, <3>2
  <2> QED BY <2>1 DEF HoldsInv, MayRetain
<1> QED BY <1>2, <1>4, NextCases

\* What is pinned and in IPFS stays so, but for the object a worker unpins and those
\* that IPFS collects.
LEMMA StoredStays ==
  ASSUME IInv, [Next]_vars, NEW o \in Objects
  PROVE  /\ o \in pinned => o \in pinned' \/ \E w \in Workers : Unpin(w) /\ object[w] = o
         /\ o \in present => o \in present' \/ \E w \in Workers : Sweep(w, o)
         /\ o \in present' => o \in present \/ o \in pinned'
<1> DEFINE Stays == /\ o \in pinned => o \in pinned' \/ \E w \in Workers : Unpin(w) /\ object[w] = o
                    /\ o \in present => o \in present' \/ \E w \in Workers : Sweep(w, o)
                    /\ o \in present' => o \in present \/ o \in pinned'
<1>1. CASE OwnerStep \/ SessionStep \/ UNCHANGED vars
  BY <1>1 DEF OwnerStep, Finalize, FinalizeRetained, RetryCleanup, BackoffEnds, SessionStep,
     FenceBreaks, BreakNoticed, WorkerLockBreaks, vars, ipfsVars
<1>2. CASE WriterStep
  BY <1>2 DEF WriterStep, Write, WriterCalls, WriterReturns, AddContent, SaveFile, MentionInPost,
     ipfsVars
<1>3. ASSUME NEW w \in Workers, EnterFence(w) \/ Ends(w) PROVE Stays
  BY <1>3, PassEnds DEF EnterFence, ipfsVars
<1>4. ASSUME NEW w \in Workers,
             \/ TakeBatch(w) \/ FailJob(w) \/ FailCollection(w) \/ ReleaseHolds(w) \/ Detached(w)
             \/ Retain(w) \/ SaveCandidate(w) \/ Retired(w) \/ StartCollection(w)
             \/ Rechecked(w) \/ Swept(w)
      PROVE  Stays
  BY <1>4 DEF TakeBatch, FailJob, FailCollection, ReleaseHolds, Detached, Retain, Act,
     SaveCandidate, Retired, StartCollection, Rechecked, Swept, ipfsVars
<1>5. ASSUME NEW w \in Workers, Unpin(w) PROVE Stays
  BY <1>5 DEF Unpin, Act
<1>6. ASSUME NEW w \in Workers, NEW i \in Jobs,
             Begin(w, i) \/ Defer(w, i) \/ Recheck(w, i) \/ Close(w, i)
      PROVE  Stays
  BY <1>6 DEF Begin, Defer, Recheck, Close, ipfsVars
<1>7. ASSUME NEW w \in Workers, NEW p \in Objects,
             DetachKeeps(w, p) \/ DetachDrops(w, p) \/ CheckCandidate(w, p) \/ Sweep(w, p)
      PROVE  Stays
  BY <1>7 DEF DetachKeeps, DetachDrops, CheckCandidate, Sweep, ipfsVars
<1> QED BY <1>1, <1>2, <1>3, <1>4, <1>5, <1>6, <1>7, NextCases DEF FencedStep

\* A worker unpins what none of its snapshot's holds is for, and only unpinned
\* objects are collected.
LEMMA RetainedStep == ASSUME IInv, [Next]_vars PROVE RetainedStays'
<1> SUFFICES ASSUME NEW j \in Jobs, out'[j].retention, NEW o \in Old[j]
             PROVE  o \in pinned' \cap present'
  BY DEF RetainedStays
<1>0. o \in Objects
  OBVIOUS
<1>1. CASE FinalizeRetained(j)
  BY <1>1, RetainedGoesOn
<1>2. CASE out[j].retention
  <2>1. o \in pinned /\ o \in present
    BY <1>2 DEF IInv, RetainedStays
  <2>2. ASSUME NEW w \in Workers, Unpin(w), object[w] = o PROVE FALSE
    <3>1. pc[w] = "act" /\ ~blocked[w] /\ pc[w] \in JobSteps
      BY <2>2 DEF Unpin, JobSteps
    <3>2. holds[w][o] = {}
      BY <2>2, <3>1, InHand DEF JournalOK
    <3>3. j \in holds[w][o]
      BY <1>0, <1>2, <3>1 DEF IInv, HoldsInv
    <3> QED BY <3>2, <3>3
  <2>3. ASSUME NEW w \in Workers, Sweep(w, o) PROVE FALSE
    BY <2>1, <2>3 DEF Sweep
  <2> QED BY <1>0, <2>1, <2>2, <2>3, StoredStays
<1> QED BY <1>1, <1>2, AnyGoesOn

-----------------------------------------------------------------------------
(* What is rechecked before a collection. *)

\* While the fence of a pass lives, only a writer that lost its own comes to use
\* an object.
LEMMA UsesInPass ==
  ASSUME IInv, [Next]_vars, NEW v \in Workers, pc[v] \in PassSteps, alive[v], NEW o \in Objects
  PROVE  refs'[o] \subseteq refs[o] \cup {"stray"}
<1>0. TypeOK /\ FenceInv
  BY DEF IInv
<1>1. ASSUME NEW c \in Writers, users[c] > 0, alive[c] PROVE FALSE
  <2>1. v \in Clients /\ c \in Clients /\ c # v /\ users[v] = 1 /\ mode[v] = "exclusive"
    BY InFence
  <2>2. lock[v] = "exclusive" /\ lock[c] = mode[c] /\ mode[c] \in Modes
    BY <1>0, <1>1, <2>1 DEF FenceInv, FenceTypeOK
  <2>3. Grantable(v, lock[v])
    BY <1>0, <2>1, <2>2 DEF FenceInv
  <2> QED BY <2>1, <2>2, <2>3 DEF Grantable, Modes
<1>2. ASSUME NEW c \in Writers, users[c] > 0, NEW u PROVE As(c, u) = "stray"
  BY <1>1, <1>2 DEF As
<1>3. ASSUME NEW c \in Writers, NEW p \in Objects, SaveFile(c, p) \/ MentionInPost(c, p)
      PROVE  refs'[o] \subseteq refs[o] \cup {"stray"}
  <2>1. CASE SaveFile(c, p)
    BY <2>1 DEF SaveFile
  <2>2. CASE MentionInPost(c, p)
    <3>1. refs' = [refs EXCEPT ![p] = @ \cup {"stray"}]
      BY <1>2, <2>2 DEF MentionInPost
    <3> QED BY <1>0, <3>1 DEF TypeOK
  <2> QED BY <1>3, <2>1, <2>2
<1>4. ASSUME NEW c \in Writers, AddContent(c) PROVE refs'[o] \subseteq refs[o] \cup {"stray"}
  BY <1>0, <1>2, <1>4 DEF AddContent, TypeOK
<1>5. ASSUME NEW c \in Writers, WriterCalls(c) \/ WriterReturns(c) PROVE refs' = refs
  BY <1>5 DEF WriterCalls, WriterReturns
<1>6. CASE OwnerStep \/ SessionStep \/ UNCHANGED vars
  BY <1>6 DEF OwnerStep, Finalize, FinalizeRetained, RetryCleanup, BackoffEnds, SessionStep,
     FenceBreaks, BreakNoticed, WorkerLockBreaks, vars
<1>7. ASSUME NEW w \in Workers, EnterFence(w) \/ Ends(w) PROVE refs' = refs
  BY <1>7, PassEnds DEF EnterFence
<1>8. ASSUME NEW w \in Workers, NEW p \in Objects,
             DetachKeeps(w, p) \/ DetachDrops(w, p) \/ CheckCandidate(w, p) \/ Sweep(w, p)
      PROVE  refs'[o] \subseteq refs[o]
  <2>1. CASE DetachDrops(w, p)
    <3>1. PICK sources : refs' = [refs EXCEPT ![p] = @ \ sources]
      BY <2>1 DEF DetachDrops
    <3> QED BY <1>0, <3>1 DEF TypeOK
  <2>2. CASE DetachKeeps(w, p) \/ CheckCandidate(w, p) \/ Sweep(w, p)
    BY <2>2 DEF DetachKeeps, CheckCandidate, Sweep
  <2> QED BY <1>8, <2>1, <2>2
<1>9. ASSUME NEW w \in Workers, NEW i \in Jobs,
             Begin(w, i) \/ Defer(w, i) \/ Recheck(w, i) \/ Close(w, i)
      PROVE  refs' = refs
  BY <1>9 DEF Begin, Defer, Recheck, Close
<1>10. ASSUME NEW w \in Workers,
             \/ TakeBatch(w) \/ FailJob(w) \/ FailCollection(w) \/ ReleaseHolds(w) \/ Detached(w)
             \/ Retain(w) \/ Unpin(w) \/ SaveCandidate(w) \/ Retired(w) \/ StartCollection(w)
             \/ Rechecked(w) \/ Swept(w)
      PROVE  refs' = refs
  BY <1>10 DEF TakeBatch, FailJob, FailCollection, ReleaseHolds, Detached, Retain, Unpin, Act,
     SaveCandidate, Retired, StartCollection, Rechecked, Swept
<1>11. ASSUME NEW w \in Workers, FencedStep(w) PROVE refs'[o] \subseteq refs[o] \cup {"stray"}
  BY <1>8, <1>9, <1>10, <1>11 DEF FencedStep
<1>12. CASE WriterStep
  BY <1>3, <1>4, <1>5, <1>12 DEF WriterStep, Write
<1> QED BY <1>6, <1>7, <1>11, <1>12, NextCases

\* A pass that goes on has the session it had.
LEMMA SessionOfPass ==
  ASSUME IInv, [Next]_vars, NEW v \in Workers, pc'[v] \in {"recheck", "collect"}, alive'[v]
  PROVE  alive[v] /\ pc[v] \in PassSteps
<1> USE DEF PassSteps, JobSteps
<1>0. TypeOK /\ pc \in [Workers -> Steps] /\ FenceTypeOK
  BY DEF IInv, TypeOK
<1>1. ASSUME NEW w \in Workers, FencedStep(w) PROVE alive[v] /\ pc[v] \in PassSteps
  BY <1>0, <1>1, PassGoesOn DEF fenceVars
<1>2. ASSUME NEW w \in Workers, EnterFence(w) PROVE alive[v] /\ pc[v] \in PassSteps
  BY <1>0, <1>2 DEF EnterFence, Acquire, Goto, FenceTypeOK
<1>3. ASSUME NEW w \in Workers, Ends(w) PROVE alive[v] /\ pc[v] \in PassSteps
  BY <1>0, <1>3, PassEnds DEF Die, Leave, FenceTypeOK
<1>4. CASE OwnerStep \/ UNCHANGED vars
  BY <1>4 DEF OwnerStep, Finalize, FinalizeRetained, RetryCleanup, BackoffEnds, vars, fenceVars
<1>5. CASE SessionStep
  BY <1>0, <1>5 DEF SessionStep, FenceBreaks, BreakNoticed, Break, Notice, WorkerLockBreaks,
     fenceVars, FenceTypeOK
<1>6. CASE WriterStep
  BY <1>0, <1>6, SMTT(30) DEF WriterStep, Write, WriterCalls, WriterReturns, Acquire, Enter, Leave,
     AddContent, SaveFile, MentionInPost, fenceVars, FenceTypeOK
<1> QED BY <1>1, <1>2, <1>3, <1>4, <1>5, <1>6, NextCases

\* What has been rechecked is used by nobody but strays until it is collected.
LEMMA RecheckedStep == ASSUME IInv, [Next]_vars PROVE RecheckedInv'
<1> SUFFICES ASSUME NEW v \in Workers, NEW j \in Jobs, NEW o \in Objects, alive'[v],
                    pc'[v] = "collect" \/ (pc'[v] = "recheck" /\ j \notin todo'[v]),
                    row'[v][j].status = "gc_pending", row'[v][j].fate[o] = "unpinned"
             PROVE  refs'[o] \subseteq {"stray"}
  BY DEF RecheckedInv
<1>0. TypeOK /\ RecheckedInv /\ RowsOK(v)
  BY DEF IInv, ReceiptsInv
<1>1. alive[v] /\ pc[v] \in PassSteps /\ refs'[o] \subseteq refs[o] \cup {"stray"}
  BY SessionOfPass, UsesInPass
<1>2. CASE /\ row'[v][j] = row[v][j]
           /\ pc[v] = "collect" \/ (pc[v] = "recheck" /\ j \notin todo[v])
  BY <1>0, <1>1, <1>2 DEF RecheckedInv
<1>3. CASE UNCHANGED <<pc[v], row[v], todo[v]>>
  BY <1>2, <1>3
<1>4. CASE OwnerStep \/ SessionStep \/ WriterStep \/ UNCHANGED vars
  BY <1>3, <1>4, WorkersAlone DEF passVars
<1>5. ASSUME NEW w \in Workers \ {v}, FencedStep(w) \/ EnterFence(w) \/ Ends(w)
      PROVE  refs'[o] \subseteq {"stray"}
  BY <1>3, <1>5, OnlyOwn
<1>6. CASE EnterFence(v) \/ Ends(v)
  BY <1>0, <1>6, PassEnds DEF EnterFence, Goto, TypeOK
<1>7. CASE FencedStep(v)
  <2> USE DEF Goto
  <2>1. CASE StartCollection(v)
    BY <1>0, <2>1, FreshSound DEF StartCollection, Reads, Fresh, TypeOK
  <2>2. CASE Rechecked(v)
    BY <1>0, <1>2, <2>2 DEF Rechecked, TypeOK
  <2>3. ASSUME NEW i \in Jobs, Recheck(v, i) PROVE refs'[o] \subseteq {"stray"}
    <3>1. CASE i = j
      <4>1. row[v][j].status = "gc_pending" /\ row[v][j] \in Output /\ Sound(row[v][j])
        BY <1>0, <2>3, <3>1 DEF Recheck, RowsOK, TypeOK
      <4> DEFINE s == [row[v][j] EXCEPT !.fate = [p \in Objects |->
                          IF p \in Revived(v, j) THEN "retained" ELSE @[p]]]
      <4>2. s.fate[o] = IF o \in Revived(v, j) THEN "retained" ELSE row[v][j].fate[o]
        <5>1. Revived(v, j) \subseteq Objects
          BY DEF Revived, WithFate
        <5> QED BY <4>1, <5>1, SoundRechecked
      <4>3. row'[v][j] = s /\ refs' = refs
        <5> HIDE DEF s
        <5>1. Checkpoint(v, j, s) /\ refs' = refs
          BY <2>3, <3>1 DEF Recheck, s
        <5> QED BY <1>0, <5>1 DEF Checkpoint, TypeOK
      <4>4. o \notin Revived(v, j) /\ row[v][j].fate[o] = "unpinned"
        <5> HIDE DEF s
        <5> QED BY <4>2, <4>3
      <4> QED BY <4>3, <4>4 DEF Revived, WithFate, InUse
    <3>2. CASE i # j
      BY <1>0, <1>2, <2>3, <3>2 DEF Recheck, Checkpoint, TypeOK
    <3> QED BY <3>1, <3>2
  <2>4. ASSUME NEW p \in Objects, Sweep(v, p) PROVE refs'[o] \subseteq {"stray"}
    BY <1>3, <2>4 DEF Sweep, passVars
  <2>5. CASE \/ TakeBatch(v) \/ FailJob(v) \/ FailCollection(v) \/ ReleaseHolds(v) \/ Detached(v)
             \/ Retain(v) \/ Unpin(v) \/ SaveCandidate(v) \/ Retired(v) \/ Swept(v)
    BY <1>0, <2>5 DEF TakeBatch, FailJob, FailCollection, ReleaseHolds, Detached, Retain, Unpin,
       Act, SaveCandidate, Retired, EndJob, Swept, TypeOK
  <2>6. ASSUME NEW i \in Jobs, Begin(v, i) \/ Defer(v, i) \/ Close(v, i) PROVE FALSE
    BY <1>0, <2>6 DEF Begin, Defer, Close, TypeOK
  <2>7. ASSUME NEW p \in Objects, DetachKeeps(v, p) \/ DetachDrops(v, p) \/ CheckCandidate(v, p)
        PROVE  FALSE
    BY <1>0, <2>7 DEF DetachKeeps, DetachDrops, CheckCandidate, TypeOK
  <2> QED BY <1>7, <2>1, <2>2, <2>3, <2>4, <2>5, <2>6, <2>7 DEF FencedStep
<1> QED BY <1>4, <1>5, <1>6, <1>7, NextCases

-----------------------------------------------------------------------------
(* One pass at a time. *)

AtWork(w) == pc[w] \notin {"down", "idle"}

\* Who is at work has the worker lock, and is alone.
OneAtWork == \A w \in Workers : AtWork(w) => worker = w

LEMMA LockKept ==
  ASSUME [Next]_vars
  PROVE  /\ overlap => overlap'
         /\ \/ \E w \in Workers : TakeBatch(w) \/ Ends(w)
            \/ WorkerLockBreaks
            \/ worker' = worker
<1> DEFINE Kept == overlap' = overlap /\ worker' = worker
<1>1. CASE OwnerStep \/ UNCHANGED vars
  <2>1. ASSUME NEW j \in Jobs, Finalize(j) \/ FinalizeRetained(j) PROVE Kept
    BY <2>1 DEF Finalize, FinalizeRetained, countVars
  <2>2. ASSUME NEW j \in Jobs, RetryCleanup(j) \/ BackoffEnds(j) PROVE Kept
    BY <2>2 DEF RetryCleanup, BackoffEnds, countVars
  <2> QED BY <1>1, <2>1, <2>2 DEF OwnerStep, vars, countVars
<1>2. CASE SessionStep
  BY <1>2 DEF SessionStep, FenceBreaks, BreakNoticed, WorkerLockBreaks, countVars
<1>3. CASE WriterStep
  BY <1>3 DEF WriterStep, Write, WriterCalls, WriterReturns, AddContent, SaveFile, MentionInPost,
     countVars
<1>4. ASSUME NEW w \in Workers, Ends(w) \/ TakeBatch(w) PROVE overlap' = overlap
  BY <1>4, PassEnds DEF TakeBatch, countVars
<1>5. ASSUME NEW w \in Workers,
             \/ EnterFence(w) \/ FailJob(w) \/ FailCollection(w) \/ ReleaseHolds(w) \/ Detached(w)
             \/ Retain(w) \/ Unpin(w) \/ SaveCandidate(w) \/ Retired(w) \/ StartCollection(w)
             \/ Rechecked(w) \/ Swept(w)
      PROVE  Kept
  BY <1>5 DEF EnterFence, FailJob, FailCollection, ReleaseHolds, Detached, Retain, Unpin, Act,
     SaveCandidate, Retired, StartCollection, Rechecked, Swept, countVars
<1>6. ASSUME NEW w \in Workers, NEW i \in Jobs,
             Begin(w, i) \/ Defer(w, i) \/ Recheck(w, i) \/ Close(w, i)
      PROVE  Kept
  BY <1>6 DEF Begin, Defer, Recheck, Close, countVars
<1>7. ASSUME NEW w \in Workers, NEW p \in Objects,
             DetachKeeps(w, p) \/ DetachDrops(w, p) \/ CheckCandidate(w, p) \/ Sweep(w, p)
      PROVE  Kept
  BY <1>7 DEF DetachKeeps, DetachDrops, CheckCandidate, Sweep, countVars
<1> QED BY <1>1, <1>2, <1>3, <1>4, <1>5, <1>6, <1>7, NextCases DEF FencedStep

LEMMA OneStep ==
  ASSUME IInv, [Next]_vars, ~overlap'
  PROVE  ~overlap /\ OneAtWork /\ OneAtWork'
<1>0. pc \in [Workers -> Steps] /\ None \notin Workers
  BY DEF IInv, TypeOK
<1>1. OneAtWork /\ ~overlap
  BY LockKept DEF IInv, SoleInv, OneAtWork, AtWork
<1>2. ~WorkerLockBreaks
  BY DEF WorkerLockBreaks
<1>3. ASSUME NEW w \in Workers, TakeBatch(w) PROVE OneAtWork'
  <2>1. worker = None /\ worker' = w /\ pc' = [pc EXCEPT ![w] = "fence"]
    BY <1>3 DEF TakeBatch, Goto
  <2> QED BY <1>0, <1>1, <2>1 DEF OneAtWork, AtWork
<1>4. ASSUME NEW w \in Workers, Ends(w) PROVE OneAtWork'
  <2>1. pc' = [pc EXCEPT ![w] = "idle"] /\ worker' = IF worker = w THEN None ELSE worker
    BY <1>4, PassEnds
  <2>2. AtWork(w)
    BY <1>0, <1>4 DEF Ends, EndPass, Abort, Crash, AtWork, IInv, TypeOK
  <2> QED BY <1>0, <1>1, <2>1, <2>2 DEF OneAtWork, AtWork
<1>5. ASSUME worker' = worker, \A w \in Workers : AtWork(w)' => AtWork(w) PROVE OneAtWork'
  BY <1>1, <1>5 DEF OneAtWork
<1>6. ASSUME NEW w \in Workers, FencedStep(w) \/ EnterFence(w), ~TakeBatch(w), NEW v \in Workers,
             AtWork(v)'
      PROVE  AtWork(v)
  <2>1. CASE v = w
    <3>1. CASE FencedStep(w)
      BY <1>6, <2>1, <3>1, PassGoesOn DEF AtWork, PassSteps, JobSteps
    <3>2. CASE EnterFence(w)
      BY <2>1, <3>2 DEF EnterFence, AtWork
    <3> QED BY <1>6, <3>1, <3>2
  <2>2. CASE v # w
    BY <1>6, <2>2, OnlyOwn DEF AtWork
  <2> QED BY <2>1, <2>2
<1>7. CASE OwnerStep \/ SessionStep \/ WriterStep \/ UNCHANGED vars
  <2>1. pc' = pc
    BY <1>7, WorkersAlone
  <2>2. worker' = worker
    BY <1>2, <1>7 DEF OwnerStep, Finalize, FinalizeRetained, RetryCleanup, BackoffEnds,
       SessionStep, FenceBreaks, BreakNoticed, WriterStep, Write, WriterCalls, WriterReturns,
       AddContent, SaveFile, MentionInPost, vars
  <2> QED BY <1>1, <1>5, <2>1, <2>2 DEF AtWork
<1>8. CASE \E w \in Workers : FencedStep(w) \/ EnterFence(w)
  <2>1. CASE \E w \in Workers : TakeBatch(w) \/ Ends(w)
    BY <1>1, <1>3, <1>4, <2>1
  <2>2. CASE ~ \E w \in Workers : TakeBatch(w) \/ Ends(w)
    <3>1. worker' = worker
      BY <1>2, <2>2, LockKept
    <3>2. \A v \in Workers : AtWork(v)' => AtWork(v)
      BY <1>6, <1>8, <2>2
    <3> QED BY <1>1, <1>5, <3>1, <3>2
  <2> QED BY <2>1, <2>2
<1> QED BY <1>1, <1>4, <1>7, <1>8, NextCases

\* Of two workers, one is at work; when a step is of one, the other is idle.
LEMMA OthersIdle ==
  ASSUME IInv, [Next]_vars, ~overlap', NEW w \in Workers, AtWork(w) \/ TakeBatch(w),
         NEW v \in Workers \ {w}
  PROVE  ~AtWork(v)
<1>1. OneAtWork /\ None \notin Workers
  BY OneStep
<1> QED BY <1>1 DEF OneAtWork, TakeBatch

\* What a worker has read of a job that is due is what the job's output holds.
RowsCurrent ==
    \A w \in Workers, j \in Jobs :
       AtWork(w) /\ row[w][j].status \in {"retiring", "gc_pending"} => out[j] = row[w][j]

LEMMA CurrentStep ==
  ASSUME IInv, [Next]_vars, ~overlap'
  PROVE  RowsCurrent'
<1>0. TypeOK /\ RowsCurrent /\ \A j \in Jobs : out[j] \in Output
  BY OneStep DEF IInv, SoleInv, RowsCurrent, AtWork, TypeOK
<1> SUFFICES ASSUME NEW v \in Workers, NEW j \in Jobs, AtWork(v)',
                    row'[v][j].status \in {"retiring", "gc_pending"}
             PROVE  out'[j] = row'[v][j]
  BY DEF RowsCurrent
<1>1. CASE OwnerStep \/ SessionStep \/ WriterStep \/ UNCHANGED vars
  <2>1. pc' = pc /\ row' = row
    BY <1>1, WorkersAlone DEF passVars
  <2>2. out[j] = row[v][j]
    BY <1>0, <2>1 DEF RowsCurrent, AtWork
  <2>3. out'[j] = out[j] \/ out[j].status \in {"rendered", "cleanup_failed"}
    BY <1>0, <1>1, ZenonT(30) DEF OwnerStep, Finalize, FinalizeRetained, RetryCleanup, BackoffEnds, Update,
       SessionStep, FenceBreaks, BreakNoticed, WorkerLockBreaks, WriterStep, Write, WriterCalls,
       WriterReturns, AddContent, SaveFile, MentionInPost, jobVars, vars, TypeOK
  <2> QED BY <2>1, <2>2, <2>3
<1>2. ASSUME NEW w \in Workers, FencedStep(w) \/ EnterFence(w) \/ Ends(w) PROVE v = w
  <2>1. AtWork(w) \/ TakeBatch(w)
    <3>1. CASE FencedStep(w)
      BY <3>1, PassGoesOn DEF AtWork, PassSteps, JobSteps
    <3>2. CASE EnterFence(w)
      BY <3>2 DEF EnterFence, AtWork
    <3>3. CASE Ends(w)
      BY <1>0, <3>3 DEF Ends, EndPass, Abort, Crash, AtWork, TypeOK
    <3> QED BY <1>2, <3>1, <3>2, <3>3
  <2>2. CASE v # w
    BY <1>2, <2>1, <2>2, OthersIdle, OnlyOwn DEF AtWork
  <2> QED BY <2>2
<1>3. CASE Ends(v)
  BY <1>0, <1>3, PassEnds DEF AtWork, TypeOK
<1>4. ASSUME AtWork(v), out' = out, row'[v] = row[v] PROVE out'[j] = row'[v][j]
  BY <1>0, <1>4 DEF RowsCurrent
<1>5. ASSUME AtWork(v), NEW i \in Jobs, NEW s, Checkpoint(v, i, s) PROVE out'[j] = row'[v][j]
  BY <1>0, <1>5 DEF Checkpoint, TypeOK, RowsCurrent
<1>6. CASE EnterFence(v)
  BY <1>4, <1>6 DEF EnterFence, AtWork, jobVars
<1>7. CASE FencedStep(v)
  <2>1. CASE TakeBatch(v) \/ StartCollection(v)
    BY <1>0, <2>1 DEF TakeBatch, StartCollection, Reads, Fresh, jobVars, TypeOK
  <2>2. CASE Retain(v) \/ Unpin(v) \/ Rechecked(v) \/ Swept(v)
    BY <1>4, <2>2 DEF Retain, Unpin, Act, Rechecked, Swept, AtWork, jobVars, passVars
  <2>3. CASE \E i \in Jobs : Begin(v, i) \/ Defer(v, i)
    BY <1>4, <2>3 DEF Begin, Defer, AtWork, jobVars, passVars
  <2>4. CASE \E p \in Objects :
                DetachKeeps(v, p) \/ DetachDrops(v, p) \/ CheckCandidate(v, p) \/ Sweep(v, p)
    BY <1>4, <2>4 DEF DetachKeeps, DetachDrops, CheckCandidate, Sweep, AtWork, jobVars, passVars
  <2>5. CASE ReleaseHolds(v) \/ Detached(v) \/ SaveCandidate(v) \/ Retired(v)
    <3>1. job[v] \in Jobs /\ AtWork(v)
      BY <2>5, InHand DEF ReleaseHolds, Detached, SaveCandidate, Retired, JobSteps, AtWork
    <3> QED BY <1>5, <2>5, <3>1 DEF ReleaseHolds, Detached, SaveCandidate, Retired, Persist
  <2>6. CASE FailJob(v)
    <3>1. job[v] \in Jobs /\ AtWork(v)
      BY <1>0, <2>6 DEF FailJob, TypeOK, AtWork
    <3> QED BY <1>5, <2>6, <3>1 DEF FailJob
  <2>7. CASE \E i \in Jobs : Recheck(v, i) \/ Close(v, i)
    BY <1>5, <2>7 DEF Recheck, Close, AtWork
  <2>8. CASE FailCollection(v)
    BY <1>0, <2>8 DEF FailCollection, ForgetPass, Fresh, TypeOK
  <2> QED BY <1>7, <2>1, <2>2, <2>3, <2>4, <2>5, <2>6, <2>7, <2>8 DEF FencedStep
<1> QED BY <1>1, <1>2, <1>3, <1>6, <1>7, NextCases

\* An object is unpinned by the one worker at work.
LEMMA OneUnpins ==
  ASSUME IInv, [Next]_vars, ~overlap', NEW v \in Workers, pc[v] \in {"save", "close"}
  PROVE  ~ \E w \in Workers : Unpin(w)
<1>1. OneAtWork /\ AtWork(v)
  BY OneStep DEF AtWork
<1>2. ASSUME NEW w \in Workers, Unpin(w) PROVE FALSE
  <2>1. AtWork(w) /\ w # v
    BY <1>2 DEF Unpin, AtWork
  <2> QED BY <1>1, <2>1 DEF OneAtWork
<1> QED BY <1>2

\* What is retained is pinned before it is recorded.
LEMMA RetainedIsPinned ==
  ASSUME IInv, [Next]_vars, ~overlap', NEW v \in Workers, pc'[v] = "save",
         journal'[v].fate[object'[v]] = "retained"
  PROVE  object'[v] \in pinned'
<1>0. TypeOK
  BY DEF IInv
<1>1. CASE pc[v] = "save" /\ journal'[v] = journal[v] /\ object'[v] = object[v]
  <2>1. object[v] \in pinned
    BY <1>1, OneStep DEF IInv, SoleInv
  <2>2. object[v] \in Objects
    BY <1>0, <2>1 DEF TypeOK
  <2>3. object[v] \in pinned'
    BY <1>1, <2>1, <2>2, OneUnpins, StoredStays
  <2> QED BY <1>1, <2>3
<1>2. CASE OwnerStep \/ SessionStep \/ WriterStep \/ UNCHANGED vars
  BY <1>1, <1>2, WorkersAlone DEF itemVars
<1>3. ASSUME NEW w \in Workers \ {v}, FencedStep(w) \/ EnterFence(w) \/ Ends(w)
      PROVE  object'[v] \in pinned'
  BY <1>1, <1>3, OnlyOwn
<1>4. CASE EnterFence(v) \/ Ends(v)
  BY <1>0, <1>4, PassEnds DEF EnterFence, Goto, TypeOK
<1>5. CASE FencedStep(v)
  <2> USE DEF Goto
  <2>1. CASE Retain(v)
    BY <2>1 DEF Retain, Act
  <2>2. CASE Unpin(v)
    <3>1. object[v] \in Objects /\ journal[v] \in Output
      BY <2>2, InHand DEF Unpin, JobSteps, JournalOK
    <3> QED BY <1>0, <2>2, <3>1 DEF Unpin, Act, Output, TypeOK
  <2>3. CASE \/ TakeBatch(v) \/ FailJob(v) \/ FailCollection(v) \/ ReleaseHolds(v) \/ Detached(v)
             \/ SaveCandidate(v) \/ Retired(v) \/ StartCollection(v) \/ Rechecked(v) \/ Swept(v)
    BY <1>0, <2>3 DEF TakeBatch, FailJob, FailCollection, ReleaseHolds, Detached, SaveCandidate,
       Retired, EndJob, StartCollection, Rechecked, Swept, TypeOK
  <2>4. ASSUME NEW i \in Jobs, Begin(v, i) \/ Defer(v, i) \/ Recheck(v, i) \/ Close(v, i)
        PROVE  FALSE
    BY <1>0, <2>4 DEF Begin, Defer, Recheck, Close, TypeOK
  <2>5. ASSUME NEW p \in Objects,
               DetachKeeps(v, p) \/ DetachDrops(v, p) \/ CheckCandidate(v, p) \/ Sweep(v, p)
        PROVE  FALSE
    BY <1>0, <2>5 DEF DetachKeeps, DetachDrops, CheckCandidate, Sweep, TypeOK
  <2> QED BY <1>5, <2>1, <2>2, <2>3, <2>4, <2>5 DEF FencedStep
<1> QED BY <1>2, <1>3, <1>4, <1>5, NextCases

\* When a pass closes jobs, IPFS has nothing left to collect, or they had nothing.
LEMMA SweptIsClean ==
  ASSUME IInv, TypeOK', [Next]_vars, ~overlap', NEW v \in Workers, pc'[v] = "close"
  PROVE  \/ present' \subseteq pinned'
         \/ \A j \in Jobs, o \in Objects :
               row'[v][j].status = "gc_pending" => row'[v][j].fate[o] # "unpinned"
<1> DEFINE Goal == \/ present' \subseteq pinned'
                   \/ \A j \in Jobs, o \in Objects :
                         row'[v][j].status = "gc_pending" => row'[v][j].fate[o] # "unpinned"
<1>0. TypeOK
  BY DEF IInv
<1>1. ASSUME pc[v] = "close",
             \A j \in Jobs : row'[v][j] = row[v][j] \/ row'[v][j].status # "gc_pending"
      PROVE  Goal
  <2>1. CASE present \subseteq pinned
    <3>1. ASSUME NEW o \in present' PROVE o \in pinned'
      <4>1. o \in Objects
        BY DEF TypeOK
      <4> QED BY <1>1, <2>1, <4>1, OneUnpins, StoredStays
    <3> QED BY <3>1
  <2>2. CASE \A j \in Batch(v), o \in Objects : row[v][j].fate[o] # "unpinned"
    <3>1. \A j \in Jobs, o \in Objects :
             row[v][j].status = "gc_pending" => row[v][j].fate[o] # "unpinned"
      BY <2>2 DEF Batch
    <3> QED BY <1>1, <3>1
  <2> QED BY <1>1, <2>1, <2>2, OneStep DEF IInv, SoleInv
<1>2. CASE OwnerStep \/ SessionStep \/ WriterStep \/ UNCHANGED vars
  BY <1>1, <1>2, WorkersAlone DEF passVars
<1>3. ASSUME NEW w \in Workers \ {v}, FencedStep(w) \/ EnterFence(w) \/ Ends(w) PROVE Goal
  BY <1>1, <1>3, OnlyOwn
<1>4. CASE EnterFence(v) \/ Ends(v)
  BY <1>0, <1>4, PassEnds DEF EnterFence, Goto, TypeOK
<1>5. CASE FencedStep(v)
  <2> USE DEF Goto
  <2>1. CASE Rechecked(v)
    <3>1. \A j \in Batch(v), o \in Objects : row[v][j].fate[o] # "unpinned"
      BY <1>0, <2>1 DEF Rechecked, WithFate, TypeOK
    <3> QED BY <2>1, <3>1 DEF Rechecked, Batch
  <2>2. CASE Swept(v)
    BY <2>2 DEF Swept, ipfsVars
  <2>3. CASE FailCollection(v)
    BY <1>0, <2>3 DEF FailCollection, ForgetPass, Fresh, TypeOK
  <2>4. ASSUME NEW i \in Jobs, Close(v, i) PROVE Goal
    <3> DEFINE s == [row[v][i] EXCEPT !.status = Verified(row[v][i])]
    <3>1. pc[v] = "close" /\ i \in todo[v] /\ row[v][i] \in Output
      BY <1>0, <2>4 DEF Close, TypeOK
    <3>2. Sound(row[v][i]) /\ row[v][i].status = "gc_pending"
      BY <3>1 DEF IInv, ReceiptsInv, RowsOK
    <3>3. s.status # "gc_pending"
      BY <3>1, <3>2, SoundClosed DEF Closed
    <3>4. row' = [row EXCEPT ![v][i] = s]
      BY <2>4 DEF Close, Checkpoint
    <3> HIDE DEF s
    <3>5. \A j \in Jobs : row'[v][j] = row[v][j] \/ row'[v][j].status # "gc_pending"
      BY <1>0, <3>3, <3>4 DEF TypeOK
    <3> QED BY <1>1, <3>1, <3>5
  <2>5. CASE \/ TakeBatch(v) \/ FailJob(v) \/ ReleaseHolds(v) \/ Detached(v) \/ Retain(v) \/ Unpin(v)
             \/ SaveCandidate(v) \/ Retired(v) \/ StartCollection(v)
    BY <1>0, <2>5 DEF TakeBatch, FailJob, ReleaseHolds, Detached, Retain, Unpin, Act,
       SaveCandidate, Retired, EndJob, StartCollection, TypeOK
  <2>6. ASSUME NEW i \in Jobs, Begin(v, i) \/ Defer(v, i) \/ Recheck(v, i) PROVE FALSE
    BY <1>0, <2>6 DEF Begin, Defer, Recheck, TypeOK
  <2>7. ASSUME NEW p \in Objects,
               DetachKeeps(v, p) \/ DetachDrops(v, p) \/ CheckCandidate(v, p) \/ Sweep(v, p)
        PROVE  FALSE
    BY <1>0, <2>7 DEF DetachKeeps, DetachDrops, CheckCandidate, Sweep, TypeOK
  <2> QED BY <1>5, <2>1, <2>2, <2>3, <2>4, <2>5, <2>6, <2>7 DEF FencedStep
<1> QED BY <1>2, <1>3, <1>4, <1>5, NextCases

LEMMA SoleStep ==
  ASSUME IInv, TypeOK', [Next]_vars
  PROVE  SoleInv'
<1> SUFFICES ASSUME ~overlap' PROVE SoleInv'
  BY DEF SoleInv
<1>1. OneAtWork' /\ RowsCurrent'
  BY OneStep, CurrentStep
<1>2. \A w \in Workers : pc'[w] = "close" =>
         \/ present' \subseteq pinned'
         \/ \A j \in Batch(w)', o \in Objects : row'[w][j].fate[o] # "unpinned"
  BY SweptIsClean DEF Batch
<1> QED BY <1>1, <1>2, RetainedIsPinned DEF SoleInv, OneAtWork, RowsCurrent, AtWork

-----------------------------------------------------------------------------
(* What is unpinned is journaled. *)

\* A receipt by which a later pass takes the object up.
Journals(r, o) == r.status \in Waiting /\ r.fate[o] \in {"candidate", "unpinned"}

\* The object a worker unpins is a candidate on the receipt of the job in its hands.
LEMMA UnpinnedWasCandidate ==
  ASSUME IInv, [Next]_vars, ~overlap', NEW w \in Workers, Unpin(w)
  PROVE  \E j \in Jobs : Journals(out'[j], object[w])
<1>1. pc[w] = "act" /\ out' = out /\ ~overlap
  BY OneStep DEF Unpin, Act, jobVars
<1>2. pc[w] \in JobSteps
  BY <1>1 DEF JobSteps
<1> DEFINE r == row[w][job[w]]
<1>3. job[w] \in Jobs /\ r.status = "retiring" /\ JournalOK(w, r)
  BY <1>2, InHand
<1>4. object[w] \in left[w] /\ object[w] \in Objects
  BY <1>1, <1>2, <1>3, InHand DEF JournalOK
<1>5. r.fate[object[w]] = "candidate"
  BY <1>1, <1>3, <1>4 DEF JournalOK
<1>6. out[job[w]] = r
  BY <1>1, <1>3 DEF IInv, SoleInv
<1> QED BY <1>1, <1>3, <1>5, <1>6 DEF Journals, Waiting

\* A receipt that journals an object goes on to do so until it is pinned again.
LEMMA JournalStays ==
  ASSUME IInv, [Next]_vars, ~overlap', NEW o \in present \ pinned, o \notin pinned',
         NEW j \in Jobs, Journals(out[j], o)
  PROVE  Journals(out'[j], o)
<1> USE DEF JobSteps
<1>0. TypeOK /\ out[j] \in Output /\ Sound(out[j]) /\ o \in Objects /\ ~overlap
  BY OneStep DEF IInv, TypeOK, ReceiptsInv
<1>1. ASSUME NEW w \in Workers, NEW i \in Jobs, NEW s, Checkpoint(w, i, s),
             Journals(row[w][i], o) => Journals(s, o)
      PROVE  Journals(out'[j], o)
  BY <1>0, <1>1 DEF Checkpoint, Current, TypeOK
<1>2. ASSUME NEW w \in Workers, pc[w] \in JobSteps,
             ReleaseHolds(w) \/ Detached(w) \/ SaveCandidate(w) \/ Retired(w) \/ FailJob(w)
      PROVE  Journals(out'[j], o)
  <2> DEFINE r == row[w][job[w]]
  <2>1. /\ job[w] \in Jobs /\ r \in Output /\ Sound(r) /\ r.status = "retiring"
        /\ journal[w] \in Output /\ JournalOK(w, r)
        /\ Sound(journal[w]) /\ journal[w].status = "retiring"
    BY <1>2, InHand
  <2>2. CASE ReleaseHolds(w) \/ Detached(w)
    <3>1. Journals(r, o) => journal[w].fate[o] \in {"candidate", "unpinned"}
      BY <1>0, <2>1, <2>2 DEF Journals, JournalOK, ReleaseHolds, Detached
    <3>2. LET s == [journal[w] EXCEPT !.released = TRUE] IN
          s.status = "retiring" /\ s.fate = journal[w].fate
      BY <2>1 DEF Output
    <3>3. LET s == [journal[w] EXCEPT !.detached = TRUE] IN
          s.status = "retiring" /\ s.fate = journal[w].fate
      BY <2>1 DEF Output
    <3>4. ASSUME NEW s, s.status = "retiring", s.fate = journal[w].fate
          PROVE  Journals(r, o) => Journals(s, o)
      BY <3>1, <3>4 DEF Journals, Waiting
    <3> QED BY <1>1, <2>1, <2>2, <3>2, <3>3, <3>4 DEF ReleaseHolds, Detached, Persist
  <2>3. CASE SaveCandidate(w)
    <3>1. CASE o = object[w]
      <4>1. journal[w].fate[o] = "unpinned"
        BY <1>0, <2>1, <2>3, <3>1 DEF SaveCandidate, JournalOK, IInv, SoleInv
      <4> QED BY <1>1, <2>1, <2>3, <4>1 DEF SaveCandidate, Persist, Journals, Waiting
    <3>2. CASE o # object[w]
      <4>1. journal[w].fate[o] = r.fate[o]
        BY <1>0, <2>1, <2>3, <3>2 DEF SaveCandidate, JournalOK
      <4> QED BY <1>1, <2>1, <2>3, <4>1 DEF SaveCandidate, Persist, Journals
    <3> QED BY <3>1, <3>2
  <2>4. CASE Retired(w)
    <3> DEFINE s == [journal[w] EXCEPT !.status = Outcome(journal[w]), !.failures = 0]
    <3>1. \A p \in Objects : journal[w].fate[p] = r.fate[p] /\ r.fate[p] # "candidate"
      BY <2>1, <2>4 DEF Retired, JournalOK
    <3>2. s.fate = journal[w].fate /\ s.status = Outcome(journal[w])
      BY <2>1 DEF Output
    <3>3. Journals(r, o) => s.status = "gc_pending"
      BY <1>0, <3>1, <3>2 DEF Journals, Outcome, WithFate
    <3>4. Journals(r, o) => Journals(s, o)
      <4> HIDE DEF s
      <4> QED BY <1>0, <3>1, <3>2, <3>3 DEF Journals, Waiting
    <3>5. Checkpoint(w, job[w], s)
      BY <2>4 DEF Retired
    <3> HIDE DEF s
    <3> QED BY <1>1, <2>1, <3>4, <3>5
  <2>5. CASE FailJob(w)
    <3>1. Journals(r, o) => Journals(Failure(r), o)
      BY <2>1, SoundFailure DEF Journals, Waiting
    <3> QED BY <1>1, <2>1, <2>5, <3>1 DEF FailJob
  <2> QED BY <1>2, <2>2, <2>3, <2>4, <2>5
<1>3. ASSUME NEW w \in Workers, NEW i \in Jobs, Recheck(w, i) PROVE Journals(out'[j], o)
  <2> DEFINE r == row[w][i]
             s == [r EXCEPT !.fate = [p \in Objects |->
                      IF p \in Revived(w, i) THEN "retained" ELSE @[p]]]
  <2>1. r.status = "gc_pending" /\ r \in Output /\ Sound(r) /\ Revived(w, i) \subseteq Objects
    BY <1>3 DEF IInv, TypeOK, ReceiptsInv, RowsOK, Recheck, Revived, WithFate
  <2>2. /\ s.status = "gc_pending"
        /\ s.fate[o] = IF o \in Revived(w, i) THEN "retained" ELSE r.fate[o]
    BY <1>0, <2>1, SoundRechecked
  <2>3. o \notin Revived(w, i)
    BY <1>3 DEF Recheck
  <2>4. Checkpoint(w, i, s)
    BY <1>3 DEF Recheck
  <2> HIDE DEF s
  <2> QED BY <1>1, <2>2, <2>3, <2>4 DEF Journals, Waiting
<1>4. ASSUME NEW w \in Workers, NEW i \in Jobs, Close(w, i) PROVE Journals(out'[j], o)
  <2>1. /\ pc[w] = "close" /\ i \in Batch(w) /\ row[w][i].status = "gc_pending"
        /\ Sound(row[w][i])
    BY <1>4 DEF IInv, ReceiptsInv, RowsOK, Close, Batch
  <2>2. row[w][i].fate[o] # "unpinned"
    BY <1>0, <2>1 DEF IInv, SoleInv
  <2>3. ~Journals(row[w][i], o)
    BY <1>0, <2>1, <2>2 DEF Journals, Sound
  <2> QED BY <1>1, <1>4, <2>3 DEF Close
<1>5. ASSUME NEW w \in Workers, FailCollection(w) PROVE Journals(out'[j], o)
  <2>1. CASE j \in Batch(w)
    <3>1. out'[j] = Failure(out[j]) /\ out[j].status = "gc_pending"
      BY <1>5, <2>1 DEF FailCollection, Current, Batch
    <3> QED BY <1>0, <3>1, SoundFailure DEF Journals, Waiting
  <2>2. CASE j \notin Batch(w)
    BY <1>0, <1>5, <2>2 DEF FailCollection
  <2> QED BY <2>1, <2>2
<1>6. ASSUME NEW i \in Jobs, Finalize(i) \/ FinalizeRetained(i) PROVE Journals(out'[j], o)
  <2>1. i # j
    BY <1>0, <1>6 DEF Finalize, FinalizeRetained, Sound, Journals
  <2> QED BY <1>0, <1>6, <2>1 DEF Finalize, FinalizeRetained, Update, TypeOK
<1>7. ASSUME NEW i \in Jobs, RetryCleanup(i) PROVE Journals(out'[j], o)
  <2> DEFINE s == [out[i] EXCEPT !.status = out[i].resume, !.failures = 0]
  <2>1. out[i] \in Output /\ Sound(out[i]) /\ out[i].status = "cleanup_failed"
    BY <1>0, <1>7 DEF RetryCleanup, TypeOK, IInv, ReceiptsInv
  <2>2. s.status \in {"retiring", "gc_pending"} /\ s.fate = out[i].fate
    BY <2>1, SoundRetry DEF Output
  <2>3. out' = [out EXCEPT ![i] = s]
    BY <1>7 DEF RetryCleanup, Update
  <2> HIDE DEF s
  <2> QED BY <1>0, <2>2, <2>3 DEF Journals, Waiting, TypeOK
<1>8. CASE SessionStep \/ WriterStep \/ UNCHANGED vars \/ \E i \in Jobs : BackoffEnds(i)
  BY <1>8 DEF SessionStep, FenceBreaks, BreakNoticed, WorkerLockBreaks, WriterStep, Write,
     WriterCalls, WriterReturns, AddContent, SaveFile, MentionInPost, BackoffEnds, vars, jobVars
<1>9. ASSUME NEW w \in Workers, EnterFence(w) \/ Ends(w) PROVE Journals(out'[j], o)
  BY <1>9, PassEnds DEF EnterFence, jobVars
<1>10. ASSUME NEW w \in Workers, FencedStep(w) PROVE Journals(out'[j], o)
  <2>1. CASE TakeBatch(w) \/ Retain(w) \/ Unpin(w) \/ StartCollection(w) \/ Rechecked(w) \/ Swept(w)
    BY <2>1 DEF TakeBatch, Retain, Unpin, Act, StartCollection, Rechecked, Swept, jobVars
  <2>2. CASE \E i \in Jobs : Begin(w, i) \/ Defer(w, i)
    BY <2>2 DEF Begin, Defer, jobVars
  <2>3. CASE \E p \in Objects :
                DetachKeeps(w, p) \/ DetachDrops(w, p) \/ CheckCandidate(w, p) \/ Sweep(w, p)
    BY <2>3 DEF DetachKeeps, DetachDrops, CheckCandidate, Sweep, jobVars
  <2>4. CASE ReleaseHolds(w) \/ Detached(w) \/ SaveCandidate(w) \/ Retired(w) \/ FailJob(w)
    BY <1>0, <1>2, <2>4 DEF ReleaseHolds, Detached, SaveCandidate, Retired, FailJob, TypeOK
  <2> QED BY <1>3, <1>4, <1>5, <1>10, <2>1, <2>2, <2>3, <2>4 DEF FencedStep
<1>11. CASE OwnerStep
  BY <1>6, <1>7, <1>8, <1>11 DEF OwnerStep
<1> QED BY <1>8, <1>9, <1>10, <1>11, NextCases

LEMMA JournaledStep ==
  ASSUME IInv, TypeOK', [Next]_vars
  PROVE  UnpinnedIsJournaled'
<1> SUFFICES ASSUME ~overlap', NEW o \in present' \ pinned'
             PROVE  \E j \in Jobs : Journals(out'[j], o)
  BY DEF UnpinnedIsJournaled, Journals
<1>1. o \in Objects
  BY DEF TypeOK
<1>2. o \in present
  BY <1>1, StoredStays
<1>3. CASE o \in pinned
  BY <1>1, <1>3, StoredStays, UnpinnedWasCandidate
<1>4. CASE o \notin pinned
  <2>1. PICK j \in Jobs : Journals(out[j], o)
    BY <1>2, <1>4, OneStep DEF IInv, UnpinnedIsJournaled, Journals
  <2> QED BY <1>2, <1>4, <2>1, JournalStays
<1> QED BY <1>3, <1>4

-----------------------------------------------------------------------------
(* The invariant. *)

LEMMA InvInit == Init => IInv
<1> SUFFICES ASSUME Init PROVE IInv
  OBVIOUS
<1>1. TypeOK /\ FenceInv
  BY TypeInit, FenceInitInv DEF Init
<1>2. PICK load \in Loads : StartsFrom(load)
  BY DEF Init
<1>3. \A w \in Workers : pc[w] \in {"down", "idle"}
  BY <1>2 DEF StartsFrom
<1>4. Sound(Done) /\ ~Done.retention
  <2>1. /\ Done.status = "complete" /\ Done.resume = "retiring" /\ ~Done.retention
    BY DEF Done, Fresh
  <2> QED BY <2>1 DEF Sound
<1>5. \A j \in Jobs : Sound(out[j]) /\ ~out[j].retention
  BY <1>2, <1>4, FreshSound DEF StartsFrom, Fresh, Done
<1>6. \A w \in Workers : RowsOK(w)
  BY <1>3, FreshSound DEF Init, RowsOK, JobSteps
<1>7. pinned = present
  BY DEF Init
<1> QED BY <1>1, <1>3, <1>5, <1>6, <1>7 DEF IInv, CallsInv, ReceiptsInv, JournalInv, HoldsInv,
       RetainedStays, RecheckedInv, SoleInv, UnpinnedIsJournaled, PassSteps, JobSteps

LEMMA TypeStep == ASSUME IInv, FenceInv', [Next]_vars PROVE TypeOK'
<1>1. FenceTypeOK'
  BY DEF FenceInv
<1>2. ASSUME NEW w \in Workers, FencedStep(w) \/ EnterFence(w) \/ Ends(w) PROVE TypeOK'
  BY <1>1, <1>2, TypeJob, TypePass DEF FencedStep, Ends
<1>3. CASE OwnerStep \/ SessionStep \/ WriterStep \/ UNCHANGED vars
  BY <1>1, <1>3, TypeOthers DEF OwnerStep, SessionStep, WriterStep
<1> QED BY <1>2, <1>3, NextCases

LEMMA Inductive == IInv /\ FenceInv' /\ [Next]_vars => IInv'
<1> SUFFICES ASSUME IInv, FenceInv', [Next]_vars PROVE IInv'
  OBVIOUS
<1>1. TypeOK'
  BY TypeStep
<1> QED BY <1>1, CallsStep, ReceiptsStep, HoldsStep, RetainedStep, RecheckedStep, SoleStep,
           JournaledStep DEF IInv

LEMMA Invariance == Spec => []IInv
<1>1. Spec => []FenceInv
  BY UsesFence, FenceInvariance, PTL
<1> QED BY <1>1, InvInit, Inductive, PTL DEF Spec

\* The state keeps its type.
THEOREM TypeCorrect == Spec => []TypeOK
<1>1. IInv => TypeOK
  BY DEF IInv
<1> QED BY <1>1, Invariance, PTL

\* A site that is kept for external links stays pinned and in IPFS, whatever the cleanups
\* of other jobs that replaced the same objects do.
THEOREM RetainedSurvive == Spec => []RetainedStays
<1>1. IInv => RetainedStays
  BY DEF IInv
<1> QED BY <1>1, Invariance, PTL

\* While passes do not overlap, what is unpinned and not collected is on the journal of a
\* job that is not closed.
THEOREM NothingForgotten == Spec => []UnpinnedIsJournaled
<1>1. IInv => UnpinnedIsJournaled
  BY DEF IInv
<1> QED BY <1>1, Invariance, PTL

\* No pass takes back what another recorded, and no closed job is opened again.
THEOREM JournalsOnlyGrow == Spec => ProgressKept
<1> DEFINE Kept == \A j \in Jobs :
         /\ out[j].status \in Closed => out'[j] = out[j]
         /\ out[j].detached => /\ out'[j].detached
                               /\ \A o \in Objects : Rank(out[j].fate[o]) <= Rank(out'[j].fate[o])
<1>1. IInv /\ [Next]_vars => [Kept]_vars
  BY AnyGoesOn DEF GoesOn
<1> QED BY <1>1, Invariance, PTL DEF Spec, ProgressKept

\* No object that anybody uses but strays is collected from a batch, while the session lives.
THEOREM RecheckedOnly == Spec => BatchRechecked
<1> DEFINE Unused == \A w \in Workers, o \in Objects :
         Sweep(w, o) /\ alive[w] /\ (\E j \in Batch(w) : row[w][j].fate[o] = "unpinned")
             => refs[o] \subseteq {"stray"}
<1>1. IInv => Unused
  <2> SUFFICES ASSUME IInv, NEW w \in Workers, NEW o \in Objects, pc[w] = "collect", alive[w],
                      NEW j \in Batch(w), row[w][j].fate[o] = "unpinned"
               PROVE  refs[o] \subseteq {"stray"}
    BY DEF Sweep
  <2>1. j \in Jobs /\ row[w][j].status = "gc_pending"
    BY DEF Batch
  <2> QED BY <2>1 DEF IInv, RecheckedInv
<1>2. IInv /\ [Next]_vars => [Unused]_vars
  BY <1>1
<1> QED BY <1>2, Invariance, PTL DEF Spec, BatchRechecked
=============================================================================
