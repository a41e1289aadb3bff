---------------------------- MODULE ChatDelivery ----------------------------
(***************************************************************************)
(* How the messages of one conversation get from the node of their author  *)
(* to the node of a recipient (modules/chat: index.ts, delivery.ts,        *)
(* reconciliationQueue.ts, reconciliation.ts, models.ts).                  *)
(*                                                                         *)
(* The author's node numbers every message of the conversation, those for  *)
(* others too, and keeps a delivery row for the recipient.  Workers claim  *)
(* the due rows for a while and send them one by one; they write what came *)
(* of it whether they still have the claim or not.  The recipient's node   *)
(* stores a message once, takes it again when it comes again, and notes    *)
(* where it came from.  Its own workers, or a user, then ask the author's  *)
(* node for the messages after a cursor, page by page: a repair of what    *)
(* was lost or came out of order.                                          *)
(*                                                                         *)
(* Calls and answers get lost, a call may arrive after its caller has      *)
(* given up, claims run out, workers vanish, and the recipient revokes its *)
(* device: a message for a revoked device is refused for good.             *)
(***************************************************************************)
EXTENDS Integers, FiniteSets

CONSTANTS Senders,          \* concurrent runs of processDeliveryQueue
          Workers,          \* concurrent runs of processReconciliationQueue
          Users,            \* concurrent repairs a user has asked for
          NoOne,
          ClaimLimit,       \* rows a sender takes, 20 in the code
          MaximumAttempts,  \* sends of a message, 8 in the code
          PageSize,         \* messages in an answer, 10 in the code
          MaxPages,         \* pages one repair asks for
          MaxMessages,      \* bounds the conversation
          MaxTroubles       \* bounds what goes wrong

ASSUME ChatAssumption ==
    /\ NoOne \notin Workers /\ Workers \cap Users = {}
    /\ {ClaimLimit, MaximumAttempts, PageSize, MaxPages} \subseteq Nat \ {0}
    /\ {MaxMessages, MaxTroubles} \subseteq Nat

Repairers == Workers \cup Users

Messages == 1..MaxMessages        \* a message is its number at the author's node
Devices  == 1..(MaxTroubles + 1)  \* the devices of the recipient, in turn
None     == 0

VARIABLES
    last,       \* ChatConversationHead.lastSequence of the author's node
    device,     \* the device a message was encrypted for, None: for others
    delivery,   \* ChatDelivery: state, attempts, and whether claimed
    todo, seen, \* a sender's claimed rows, and their attempts as it read them
    sending,    \* the message it sends
    call,       \* what it knows of the call
    late,       \* calls under way whose callers have given up
    active,     \* the device of the recipient that is not revoked
    stored,     \* ChatEvent at the recipient's node
    sync,       \* ChatSyncState: known, scan, verified, head
    job,        \* ChatSyncJob: exists, claimed, and the holder of its token
    pc,         \* a repairer's step
    pages,      \* the pages it has had
    page,       \* its cursor, and the page it has: head, todo, more
    troubles

sourceVars == <<last, device, delivery>>
senderVars == <<todo, seen, sending, call, late>>
copyVars   == <<active, stored, sync, job>>
repairVars == <<pc, pages, page>>
vars == <<sourceVars, senderVars, copyVars, repairVars, troubles>>

Calls   == {"none", "accepted", "refused", "lost"}
NoPage  == [cursor |-> 0, head |-> 0, todo |-> {}, more |-> FALSE]
Numbers == 0..MaxMessages
Rows    == [state : {"none", "pending", "delivered", "failed"},
            attempts : 0..MaximumAttempts, claimed : BOOLEAN]
Syncs   == [known : BOOLEAN, scan : Numbers, verified : Numbers, head : Numbers]
Jobs    == [exists : BOOLEAN, claimed : BOOLEAN, holder : Workers \cup {NoOne}]
Pages   == [cursor : Numbers, head : Numbers, todo : SUBSET Messages, more : BOOLEAN]

TypeOK ==
    /\ last \in Numbers
    /\ device \in [Messages -> Devices \cup {None}]
    /\ delivery \in [Messages -> Rows]
    /\ todo \in [Senders -> SUBSET Messages]
    /\ seen \in [Senders -> [Messages -> 0..MaximumAttempts - 1]]
    /\ sending \in [Senders -> Numbers] /\ call \in [Senders -> Calls]
    /\ late \in SUBSET Messages
    /\ active \in Devices /\ stored \in SUBSET Messages
    /\ sync \in Syncs /\ job \in Jobs
    /\ pc \in [Repairers -> {"idle", "ask", "read", "import", "ended"}]
    /\ pages \in [Repairers -> 0..MaxPages - 1]
    /\ page \in [Repairers -> Pages]
    /\ troubles \in 0..MaxTroubles
    /\ \A s \in Senders : call[s] # "none" => sending[s] \in todo[s]

Init ==
    /\ last = 0
    /\ device = [m \in Messages |-> None]
    /\ delivery = [m \in Messages |-> [state |-> "none", attempts |-> 0, claimed |-> FALSE]]
    /\ todo = [s \in Senders |-> {}]
    /\ seen = [s \in Senders |-> [m \in Messages |-> 0]]
    /\ sending = [s \in Senders |-> None] /\ call = [s \in Senders |-> "none"]
    /\ late = {}
    /\ active = 1 /\ stored = {}
    /\ sync = [known |-> FALSE, scan |-> 0, verified |-> 0, head |-> 0]
    /\ job = [exists |-> FALSE, claimed |-> FALSE, holder |-> NoOne]
    /\ pc = [r \in Repairers |-> "idle"]
    /\ pages = [r \in Repairers |-> 0] /\ page = [r \in Repairers |-> NoPage]
    /\ troubles = 0

Trouble == troubles < MaxTroubles /\ troubles' = troubles + 1
Maximum(a, b) == IF a > b THEN a ELSE b
SetMax(S) == CHOOSE x \in S \cup {0} : \A y \in S : y <= x
SetMin(S) == CHOOSE x \in S : \A y \in S : x <= y

-----------------------------------------------------------------------------
(* The author's node. *)

Addressed == {m \in Messages : device[m] # None}

\* enqueueChatDeliveries leaves a row that is there as it is.
Enqueued(row) ==
    IF row.state = "none" THEN [row EXCEPT !.state = "pending"] ELSE row

\* acceptEncryptedEvent: a message for others, or for a device the recipient
\* has or had, with or without the address of its node.
Post(d, endpoint) ==
    /\ last < MaxMessages /\ last' = last + 1
    /\ d <= active
    /\ device' = [device EXCEPT ![last'] = d]
    /\ delivery' = IF endpoint /\ d # None
                   THEN [delivery EXCEPT ![last'] = Enqueued(@)] ELSE delivery
    /\ UNCHANGED <<senderVars, copyVars, repairVars, troubles>>

\* The author's browser posts a message again, now with the address.
PostAgain(m) ==
    /\ m \in Addressed /\ delivery[m].state = "none"
    /\ delivery' = [delivery EXCEPT ![m] = Enqueued(@)]
    /\ UNCHANGED <<last, device, senderVars, copyVars, repairVars, troubles>>

\* The time of the next attempt comes sooner or later: any row that waits.
Due == {m \in Messages : delivery[m].state = "pending" /\ ~delivery[m].claimed}

\* claimDue: some of the due rows, at most ClaimLimit.
Claim(s) ==
    /\ todo[s] = {}
    /\ \E rows \in SUBSET Due \ {{}} :
        /\ Cardinality(rows) <= ClaimLimit
        /\ delivery' = [m \in Messages |-> [delivery[m] EXCEPT !.claimed = @ \/ m \in rows]]
        /\ todo' = [todo EXCEPT ![s] = rows]
        /\ seen' = [seen EXCEPT ![s] =
                      [m \in Messages |-> IF m \in rows THEN delivery[m].attempts ELSE 0]]
    /\ UNCHANGED <<last, device, sending, call, late, copyVars, repairVars, troubles>>

Confirmed(s) == call[s] = "accepted"

\* The row after an attempt, by the number of attempts the sender has read.  What
\* is to be tried again the sender has read as pending: an update that leaves that
\* as it was does not write the state, whatever another sender made of it since.
Attempted(s, m) ==
    LET attempts == seen[s][m] + 1
        failed   == call[s] = "refused" \/ attempts >= MaximumAttempts IN
    IF Confirmed(s)
    THEN [delivery[m] EXCEPT !.state = "delivered", !.attempts = attempts, !.claimed = FALSE]
    ELSE [delivery[m] EXCEPT !.state = IF failed THEN "failed" ELSE @,
                             !.attempts = attempts, !.claimed = FALSE]

\* delivery.update: by the id of the row alone.
Record(s) ==
    LET m == sending[s] IN
    /\ call[s] # "none"
    /\ delivery' = [delivery EXCEPT ![m] = Attempted(s, m)]
    /\ todo' = [todo EXCEPT ![s] = @ \ {m}]
    /\ seen' = [seen EXCEPT ![s][m] = 0]
    /\ sending' = [sending EXCEPT ![s] = None]
    /\ call' = [call EXCEPT ![s] = "none"]
    /\ UNCHANGED <<last, device, late, copyVars, repairVars, troubles>>

\* A claim runs out, under a sender that is slow or that is no more.
ClaimEnds(m) ==
    /\ delivery[m].claimed
    /\ IF \E s \in Senders : m \in todo[s] THEN Trouble ELSE UNCHANGED troubles
    /\ delivery' = [delivery EXCEPT ![m].claimed = FALSE]
    /\ UNCHANGED <<last, device, senderVars, copyVars, repairVars>>

-----------------------------------------------------------------------------
(* The recipient's node. *)

\* rememberChatSyncSource: the cursors begin at 0, and the job is there.
Remember(m) ==
    /\ sync' = [sync EXCEPT !.known = TRUE, !.head = Maximum(@, m)]
    /\ job' = [job EXCEPT !.exists = TRUE]

Acceptable(m) == device[m] = active

\* acceptRemoteDelivery: stored once, taken again whenever it comes again.
Accept(m) ==
    /\ stored' = stored \cup {m}
    /\ Remember(m)

Ignore == UNCHANGED <<stored, sync, job>>

Calling(s, m, answer) ==
    /\ call[s] = "none" /\ m \in todo[s]
    /\ sending' = [sending EXCEPT ![s] = m]
    /\ call' = [call EXCEPT ![s] = answer]
    /\ UNCHANGED <<sourceVars, todo, seen, active, repairVars>>

\* processChatDelivery up to the answer, which the recipient's node gives.
Send(s, m) ==
    /\ Calling(s, m, IF Acceptable(m) THEN "accepted" ELSE "refused")
    /\ IF Acceptable(m) THEN Accept(m) ELSE Ignore
    /\ UNCHANGED <<late, troubles>>

HandleLate(m) ==
    /\ m \in late /\ late' = late \ {m}
    /\ IF Acceptable(m) THEN Accept(m) ELSE Ignore
    /\ UNCHANGED <<sourceVars, todo, seen, sending, call, active, repairVars, troubles>>

Goto(r, step) == pc' = [pc EXCEPT ![r] = step]

Begin(r) ==
    /\ Goto(r, "ask")
    /\ page' = [page EXCEPT ![r].cursor = sync.scan]
    /\ UNCHANGED pages

\* A user's repair is over; a worker's has yet to write its job.
Over(r) ==
    /\ Goto(r, IF r \in Workers THEN "ended" ELSE "idle")
    /\ page' = [page EXCEPT ![r] = NoPage]
    /\ pages' = [pages EXCEPT ![r] = 0]

\* processReconciliationQueue: a job that is missing is put back, and a due
\* one is claimed with a token of its own; its time comes sooner or later.
ClaimJob(r) ==
    /\ pc[r] = "idle" /\ sync.known
    /\ ~job.claimed
    /\ job' = [exists |-> TRUE, claimed |-> TRUE, holder |-> r]
    /\ Begin(r)
    /\ UNCHANGED <<sourceVars, senderVars, active, stored, sync, troubles>>

\* reconcileConversation by the recipient, who may know where to ask.
Reconcile(r) ==
    /\ pc[r] = "idle"
    /\ sync' = [sync EXCEPT !.known = TRUE]
    /\ Begin(r)
    /\ UNCHANGED <<sourceVars, senderVars, active, stored, job, troubles>>

\* createChatSyncResponse reads the last number ...
Ask(r) ==
    /\ pc[r] = "ask"
    /\ page' = [page EXCEPT ![r].head = SetMax(Addressed)]
    /\ Goto(r, "read")
    /\ UNCHANGED <<sourceVars, senderVars, copyVars, pages, troubles>>

\* ... then the messages after the cursor, one more than it sends.
After(r)   == {m \in Addressed : m > page[r].cursor}
Shown(r)   == {m \in After(r) : Cardinality({k \in After(r) : k < m}) < PageSize}
HasMore(r) == After(r) # Shown(r)

\* assertValidChatSyncPage
Valid(r) ==
    /\ page[r].head >= page[r].cursor
    /\ HasMore(r) => Shown(r) # {}
    /\ \A m \in Shown(r) : m <= page[r].head
    /\ ~HasMore(r) => SetMax(Shown(r) \cup {page[r].cursor}) >= page[r].head

\* getChatSyncPageCursor
Cursor(r) == IF Shown(r) # {} THEN SetMax(Shown(r)) ELSE page[r].head

ReadPage(r) ==
    /\ pc[r] = "read"
    /\ IF Valid(r)
       THEN /\ page' = [page EXCEPT ![r].todo = Shown(r), ![r].cursor = Cursor(r),
                                    ![r].more = HasMore(r)]
            /\ Goto(r, "import") /\ UNCHANGED pages
       ELSE Over(r)
    /\ UNCHANGED <<sourceVars, senderVars, copyVars, troubles>>

\* The messages of a page in turn; the first that is refused ends the repair.
Import(r) ==
    /\ pc[r] = "import" /\ page[r].todo # {}
    /\ LET m == SetMin(page[r].todo) IN
       IF Acceptable(m)
       THEN /\ Accept(m)
            /\ page' = [page EXCEPT ![r].todo = @ \ {m}]
            /\ UNCHANGED <<pc, pages>>
       ELSE Ignore /\ Over(r)
    /\ UNCHANGED <<sourceVars, senderVars, active, troubles>>

\* Mutant: progress is kept only when all is done.
AdvancedAtTheEnd(r) ==
    [sync EXCEPT !.scan = IF page[r].more THEN @ ELSE Maximum(@, page[r].cursor),
                 !.head = Maximum(@, page[r].head),
                 !.verified = IF page[r].more THEN @ ELSE Maximum(@, page[r].head)]

\* Mutant: the cursor of this page is kept, whatever another repair has kept.
AdvancedAsRead(r) ==
    [sync EXCEPT !.scan = page[r].cursor, !.head = Maximum(@, page[r].head),
                 !.verified = IF page[r].more THEN @ ELSE Maximum(@, page[r].head)]

\* persistChatSyncProgress
Advanced(r) ==
    [sync EXCEPT !.scan = Maximum(@, page[r].cursor), !.head = Maximum(@, page[r].head),
                 !.verified = IF page[r].more THEN @ ELSE Maximum(@, page[r].head)]

Persist(r) ==
    /\ pc[r] = "import" /\ page[r].todo = {}
    /\ sync' = Advanced(r)
    /\ IF sync'.verified >= sync'.head \/ pages[r] + 1 = MaxPages
       THEN Over(r)
       ELSE /\ Goto(r, "ask")
            /\ page' = [page EXCEPT ![r] = [NoPage EXCEPT !.cursor = sync'.scan]]
            /\ pages' = [pages EXCEPT ![r] = @ + 1]
    /\ UNCHANGED <<sourceVars, senderVars, active, stored, job, troubles>>

\* updateClaimedJob asks for the token of the claim; the next time is soon or
\* late by how the repair went.
EndRepair(r) ==
    /\ pc[r] = "ended"
    /\ job' = IF job.holder = r THEN [job EXCEPT !.claimed = FALSE, !.holder = NoOne] ELSE job
    /\ Goto(r, "idle")
    /\ UNCHANGED <<sourceVars, senderVars, active, stored, sync, pages, page, troubles>>

\* The claim of a repair runs out, that is slow or that is no more.
JobClaimEnds ==
    /\ job.claimed /\ job' = [job EXCEPT !.claimed = FALSE]
    /\ IF pc[job.holder] # "idle" THEN Trouble ELSE UNCHANGED troubles
    /\ UNCHANGED <<sourceVars, senderVars, active, stored, sync, repairVars>>

-----------------------------------------------------------------------------
(* What goes wrong. *)

\* A call does not arrive, or arrives when the sender waits no more.
LoseCall(s, m) ==
    /\ Calling(s, m, "lost") /\ Trouble
    /\ late' \in {late, late \cup {m}}
    /\ UNCHANGED <<stored, sync, job>>

LoseAnswer(s) ==
    /\ call[s] \in {"accepted", "refused"} /\ Trouble
    /\ call' = [call EXCEPT ![s] = "lost"]
    /\ UNCHANGED <<sourceVars, todo, seen, sending, late, copyVars, repairVars>>

\* The message is stored, and the call fails before its source is noted.
SendHalf(s, m) ==
    /\ Calling(s, m, "lost") /\ Acceptable(m) /\ Trouble
    /\ stored' = stored \cup {m}
    /\ UNCHANGED <<late, sync, job>>

SenderStops(s) ==
    /\ todo[s] # {} /\ Trouble
    /\ todo' = [todo EXCEPT ![s] = {}]
    /\ seen' = [seen EXCEPT ![s] = [m \in Messages |-> 0]]
    /\ sending' = [sending EXCEPT ![s] = None]
    /\ call' = [call EXCEPT ![s] = "none"]
    /\ UNCHANGED <<sourceVars, late, copyVars, repairVars>>

\* An answer that does not come, or a call that throws.
RepairFails(r) ==
    /\ pc[r] \in {"ask", "read", "import"} /\ Trouble
    /\ Over(r)
    /\ UNCHANGED <<sourceVars, senderVars, copyVars>>

WorkerStops(r) ==
    /\ pc[r] # "idle" /\ Trouble
    /\ Goto(r, "idle")
    /\ page' = [page EXCEPT ![r] = NoPage]
    /\ pages' = [pages EXCEPT ![r] = 0]
    /\ UNCHANGED <<sourceVars, senderVars, copyVars>>

\* revokeDevice, and registerDevice of the next one.
Revoke ==
    /\ active + 1 \in Devices /\ Trouble
    /\ active' = active + 1
    /\ UNCHANGED <<sourceVars, senderVars, stored, sync, job, repairVars>>

SendStep(s) == Claim(s) \/ (\E m \in todo[s] : Send(s, m)) \/ Record(s)
RepairStep(r) == Ask(r) \/ ReadPage(r) \/ Import(r) \/ Persist(r)

Next ==
    \/ \E d \in Devices \cup {None}, endpoint \in BOOLEAN : Post(d, endpoint)
    \/ \E m \in Messages : PostAgain(m) \/ ClaimEnds(m) \/ HandleLate(m)
    \/ \E s \in Senders : SendStep(s) \/ LoseAnswer(s) \/ SenderStops(s)
    \/ \E s \in Senders, m \in Messages : LoseCall(s, m) \/ SendHalf(s, m)
    \/ \E r \in Repairers : RepairStep(r) \/ RepairFails(r)
    \/ \E r \in Workers : ClaimJob(r) \/ EndRepair(r) \/ WorkerStops(r)
    \/ \E r \in Users : Reconcile(r)
    \/ JobClaimEnds \/ Revoke

Spec == Init /\ [][Next]_vars

\* Both nodes have their workers switched on, and time passes.
FairSpec ==
    /\ Spec
    /\ \A s \in Senders : WF_vars(SendStep(s))
    /\ \A r \in Workers : WF_vars(ClaimJob(r) \/ RepairStep(r) \/ EndRepair(r))
    /\ WF_vars(JobClaimEnds \/ \E m \in Messages : ClaimEnds(m))

-----------------------------------------------------------------------------
(* Properties. *)

\* The recipient has every message of its own below the cursor: no page, no
\* message that came early and no second repair moves the cursor past one.
CursorComplete ==
    /\ sync.verified <= sync.scan
    /\ \A m \in Addressed : m <= sync.scan => m \in stored

\* What was repaired is not to be repaired again: a slow repair does not take
\* back the progress of a faster one.
CursorsGrow == [][sync'.scan >= sync.scan /\ sync'.verified >= sync.verified]_sync

\* What a sender reports as delivered the recipient has, whatever answer was
\* lost and whichever of several senders wrote the row last.
DeliveredIsStored == \A m \in Messages : delivery[m].state = "delivered" => m \in stored

\* The repair stops at a message for a device that was revoked before the
\* cursor has passed it, even at one that is stored.
Refused(m) == \E k \in Addressed : k <= m /\ k > sync.scan /\ device[k] # active

\* Once the recipient's node knows where to ask, no message is lost for good,
\* if none before it is refused.
Repaired == []<>(sync.known => \A m \in Addressed : m \in stored \/ Refused(m))

\* What the author's node reports as delivered.
Delivered == {m \in Messages : delivery[m].state = "delivered"}

Log == INSTANCE MessageLog WITH
    posted <- Addressed, got <- stored, told <- Delivered, mark <- sync.scan

\* Lost, late and repeated calls, lapsed claims and repairs beside repairs leave the two
\* nodes the log: a message is reported when it is stored, a cursor passes what is
\* stored, and a new message is after every cursor (delivery.ts, reconciliation.ts).
KeepsLog == Log!Spec

-----------------------------------------------------------------------------
(* The inductive invariant of the safety properties. *)

\* No message and no cursor is ahead of the author's node.
Numbered ==
    /\ \A m \in Addressed : m <= last
    /\ sync.scan <= last
    /\ \A r \in Repairers : page[r].cursor <= last /\ page[r].head <= last

\* A row that is tried again has an attempt left.
AttemptsLeft ==
    \A m \in Messages : delivery[m].state \in {"none", "pending"} => delivery[m].attempts < MaximumAttempts

AcceptedIsStored == \A s \in Senders : call[s] = "accepted" => sending[s] \in stored

\* What a repairer's cursor has passed is stored, or on the page it has; the
\* last page reaches the head the author's node named before it read the page.
PageComplete(r) ==
    /\ pc[r] \in {"ask", "read"} => \A m \in Addressed : m <= page[r].cursor => m \in stored
    /\ pc[r] = "import" =>
         /\ \A m \in Addressed : m <= page[r].cursor => m \in stored \cup page[r].todo
         /\ ~page[r].more => page[r].head <= page[r].cursor

IInv ==
    /\ TypeOK /\ Numbered /\ AttemptsLeft /\ AcceptedIsStored
    /\ CursorComplete /\ DeliveredIsStored
    /\ \A r \in Repairers : PageComplete(r)
=============================================================================
