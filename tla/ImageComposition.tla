-------------------------- MODULE ImageComposition --------------------------
(***************************************************************************)
(* The revisions of one image composition (modules/imageComposition).      *)
(*                                                                         *)
(* A client creates the composition, or revises what it last saw, under an *)
(* idempotency key.  The call claims the operation of that key for a       *)
(* limited time, bakes and saves an immutable row, notes it on the         *)
(* operation, and swaps the composition's current row for it; an optional  *)
(* item of the file catalog is to follow.  A retry of the key finds what   *)
(* the calls before it left: their answer, their claim or their row.       *)
(*                                                                         *)
(* A manifest is a hash of the recipe, and a recipe names the manifest of  *)
(* the revision before it: so a manifest is the sequence of the edits it   *)
(* was made by, and its revision is its length.  Rows are not deleted.     *)
(***************************************************************************)
EXTENDS Integers, Sequences

CONSTANTS Calls,        \* slots for concurrent requests, of any process
          Asks,         \* requests: target, key, edit, folder, expected
          Nobody,       \* no operation or request; the holder of a claim whose call is gone
          MaxCalls,     \* bound: requests in all
          MaxTroubles   \* bound: crashes, lapses, failures, hidden items

\* target is the manifest to revise, empty for a creation, and with the key identifies
\* the operation; edit is what is to be drawn, folder the optional catalog folder of a
\* creation, expected the revision the client of a revision says it has seen.
Edits     == {q.edit : q \in Asks}
Manifests == Seq(Edits)
OpOf(q)   == [target |-> q.target, key |-> q.key]
Ops       == {OpOf(q) : q \in Asks}

ASSUME CompositionAssumption ==
    /\ Nobody \notin Calls \cup Ops \cup Asks
    /\ \A q \in Asks : /\ q.target \in Manifests
                       /\ q.folder \in BOOLEAN
                       /\ q.folder => q.target = <<>>
                       /\ q.expected \in Nat
    /\ MaxCalls \in Nat /\ MaxTroubles \in Nat

VARIABLES
    rows,                \* Content: the manifest of each row, and who made it
    identity,            \* ImageCompositionIdentity: root, current and catalog item
    items,               \* FileCatalogItem: what each shows, and whether it is shown
    ops,                 \* ImageCompositionOperation
    call,                \* what each request is doing
    refused,             \* history: operations whose last answer was a conflict
    started, troubles    \* bounds: requests and troubles so far

tables == <<rows, identity, items>>
bounds == <<started, troubles>>
vars == <<tables, ops, call, refused, bounds>>

Rows  == 1..Len(rows)
Items == 1..Len(items)
None  == 0                                 \* no row, no item

Phases == {"idle", "claim", "wait", "begin", "draw", "save", "note", "adopt",
           "place", "add", "bind", "resolve", "fail"}

Identities == [root : Nat, current : Nat, item : Nat]

TypeOK ==
    /\ rows \in Seq([manifest : Manifests, maker : Ops])
    /\ identity \in Identities
    /\ items \in Seq([content : Nat, shown : BOOLEAN])
    /\ ops \in [Ops -> [state : {"none", "pending", "succeeded", "failed"},
                        request : Asks \cup {Nobody}, holder : Calls \cup {Nobody},
                        expired : BOOLEAN, recovery : Manifests, result : Nat]]
    /\ call \in [Calls -> [pc : Phases, op : Ops \cup {Nobody}, request : Asks \cup {Nobody},
                           snap : Identities, base : Nat, rec : Manifests, row : Nat,
                           item : Nat]]
    /\ refused \subseteq Ops
    /\ started \in 0..MaxCalls /\ troubles \in 0..MaxTroubles

Nothing == [root |-> None, current |-> None, item |-> None]
Idle == [pc |-> "idle", op |-> Nobody, request |-> Nobody, snap |-> Nothing,
         base |-> None, rec |-> <<>>, row |-> None, item |-> None]

Init ==
    /\ rows = <<>> /\ identity = Nothing /\ items = <<>>
    /\ ops = [o \in Ops |-> [state |-> "none", request |-> Nobody, holder |-> Nobody,
                             expired |-> FALSE, recovery |-> <<>>, result |-> None]]
    /\ call = [c \in Calls |-> Idle]
    /\ refused = {}
    /\ started = 0 /\ troubles = 0

\* Rows with the same manifest are equal but for their ids.
WithManifest(m) == {r \in Rows : rows[r].manifest = m}
ManifestOf(r)   == IF r = None THEN <<>> ELSE rows[r].manifest

Op(c)      == call[c].op
Create(c)  == Op(c).target = <<>>
\* The manifest of the row that call c is to bake.
Goal(c)    == Append(Op(c).target, call[c].request.edit)
\* The claim c took is still on the row, though it may have run out.
Holds(c)   == ops[Op(c)].state = "pending" /\ ops[Op(c)].holder = c

Go(c, pc)     == call' = [call EXCEPT ![c].pc = pc]
GoWith(c, pc, r) == call' = [call EXCEPT ![c] = [@ EXCEPT !.pc = pc, !.row = r]]
Return(c)     == call' = [call EXCEPT ![c] = Idle]

-----------------------------------------------------------------------------
(* The claim of the operation.                                             *)

\* A creation reads nothing before its claim.  A revision reads its target and the
\* identity: of the rows with that manifest the current one, if it is among them.
\* A target nobody has is refused at once.
Start(c, q) ==
    /\ call[c].pc = "idle" /\ started < MaxCalls
    /\ \E b \in WithManifest(q.target) \cup {None} :
         /\ b = None <=> q.target = <<>>
         /\ ManifestOf(identity.current) = q.target => b = identity.current
         /\ call' = [call EXCEPT ![c] = [Idle EXCEPT !.pc = "claim", !.op = OpOf(q), !.request = q,
                        !.base = b, !.snap = IF b = None THEN Nothing ELSE identity]]
    /\ started' = started + 1
    /\ UNCHANGED <<tables, ops, refused, troubles>>

Take(c) ==
    /\ ops' = [ops EXCEPT ![Op(c)] = [@ EXCEPT !.state = "pending", !.request = call[c].request,
                                               !.holder = c, !.expired = FALSE]]
    /\ call' = [call EXCEPT ![c] = [@ EXCEPT !.pc = "begin", !.rec = ops[Op(c)].recovery]]
    /\ refused' = refused \ {Op(c)}

\* Mutant: an operation that was answered is taken again.
ReclaimableAnswered(o) == ops[o].state # "pending" \/ ops[o].expired

Reclaimable(o) ==
    \/ ops[o].state = "failed"
    \/ ops[o].state = "pending" /\ ops[o].expired

\* Another request under the key is refused, a result answered again.
Claim(c) ==
    /\ call[c].pc = "claim"
    /\ LET old == ops[Op(c)] IN
       \/ old.state = "none" /\ Take(c)
       \/ /\ old.state # "none" /\ old.request # call[c].request
          /\ Return(c) /\ UNCHANGED <<ops, refused>>
       \/ /\ old.state = "succeeded" /\ old.request = call[c].request
          /\ Return(c) /\ UNCHANGED <<ops, refused>>
       \/ /\ Reclaimable(Op(c)) /\ old.request = call[c].request
          /\ Take(c)
       \/ /\ old.state = "pending" /\ ~old.expired /\ old.request = call[c].request
          /\ Go(c, "wait") /\ UNCHANGED <<ops, refused>>
    /\ UNCHANGED <<tables, bounds>>

\* A waiting call looks for the end of the other; it does not take what ran out.
Poll(c) ==
    /\ call[c].pc = "wait"
    /\ \/ ops[Op(c)].state = "succeeded" /\ Return(c) /\ UNCHANGED <<ops, refused>>
       \/ ops[Op(c)].state = "failed" /\ Take(c)
    /\ UNCHANGED <<tables, bounds>>

\* After fifty polls.
GiveUp(c) ==
    /\ call[c].pc = "wait"
    /\ Return(c)
    /\ UNCHANGED <<tables, ops, refused, bounds>>

-----------------------------------------------------------------------------
(* The row.                                                                *)

\* It answers for the operation as long as no other call has its claim.
Refuse(c) ==
    /\ Go(c, "fail")
    /\ refused' = IF Holds(c) THEN refused \cup {Op(c)} ELSE refused

\* What a call before it baked under this key, or a row of its own.
Prepare(c) ==
    /\ \/ \E r \in WithManifest(call[c].rec) : GoWith(c, "adopt", r)
       \/ WithManifest(call[c].rec) = {} /\ Go(c, "draw")
    /\ UNCHANGED refused

AfterRoot(c) == IF call[c].request.folder THEN "place" ELSE "resolve"

\* A creation finds or makes the identity.  If it has a root that was asked for in the
\* same words, the answer is the current row, which descends from it.
BeginCreate(c) ==
    /\ call[c].pc = "begin" /\ Create(c)
    /\ \/ /\ identity.root = None
          /\ Prepare(c)
       \/ /\ identity.root # None /\ ManifestOf(identity.root) = Goal(c)
          /\ call' = [call EXCEPT ![c] = [@ EXCEPT !.pc = AfterRoot(c), !.snap = identity,
                                                  !.row = identity.current]]
          /\ UNCHANGED refused
       \/ /\ identity.root # None /\ ManifestOf(identity.root) # Goal(c)
          /\ Refuse(c)
    /\ UNCHANGED <<tables, ops, bounds>>

AsRead(c) == call[c].snap.current = call[c].base

\* The current row is the one a call before it has noted under this key.
IsOwn(c) ==
    /\ identity.current # None /\ call[c].rec = ManifestOf(identity.current)
    /\ Len(call[c].rec) = call[c].request.expected + 1

\* A revision compares its target with the identity as it read it.  If that had moved
\* it looks again, for its own row.  It is refused too if it names another revision than
\* its target's.
BeginRevision(c) ==
    /\ call[c].pc = "begin" /\ ~Create(c)
    /\ \/ AsRead(c) /\ call[c].request.expected = Len(Op(c).target) /\ Prepare(c)
       \/ AsRead(c) /\ call[c].request.expected # Len(Op(c).target) /\ Refuse(c)
       \/ ~AsRead(c) /\ IsOwn(c) /\ GoWith(c, "resolve", identity.current) /\ UNCHANGED refused
       \/ ~AsRead(c) /\ ~IsOwn(c) /\ Refuse(c)
    /\ UNCHANGED <<tables, ops, bounds>>

\* Each sticker that is stored renews the claim, which may have run out but must not
\* have been taken by another.  An image without stickers asks for nothing.
Draw(c) ==
    /\ call[c].pc = "draw"
    /\ \/ Go(c, "save") /\ UNCHANGED ops
       \/ Holds(c) /\ Go(c, "save") /\ ops' = [ops EXCEPT ![Op(c)].expired = FALSE]
       \/ ~Holds(c) /\ Go(c, "fail") /\ UNCHANGED ops
    /\ UNCHANGED <<tables, refused, bounds>>

\* The image is baked and stored as a new row, whether or not one like it is there.
Save(c) ==
    /\ call[c].pc = "save"
    /\ rows' = Append(rows, [manifest |-> Goal(c), maker |-> Op(c)])
    /\ GoWith(c, "note", Len(rows) + 1)
    /\ UNCHANGED <<identity, items, ops, refused, bounds>>

\* The row is noted for a retry before anything points at it.
Note(c) ==
    /\ call[c].pc = "note"
    /\ IF Holds(c)
       THEN /\ ops' = [ops EXCEPT ![Op(c)] = [@ EXCEPT !.recovery = Goal(c), !.expired = FALSE]]
            /\ call' = [call EXCEPT ![c] = [@ EXCEPT !.pc = "adopt", !.rec = Goal(c)]]
       ELSE Go(c, "fail") /\ UNCHANGED ops
    /\ UNCHANGED <<tables, refused, bounds>>

-----------------------------------------------------------------------------
(* The current row and the catalog item, each in one transaction.          *)

Winner(c) == IF identity.root = None THEN call[c].row ELSE identity.root

\* The first creation that comes writes the root; the others take it for theirs if it
\* was asked for in the same words.
WriteRoot(c) ==
    /\ call[c].pc = "adopt" /\ Create(c)
    /\ LET root == Winner(c) IN
       /\ identity' = IF identity.root = None
                      THEN [identity EXCEPT !.root = call[c].row, !.current = call[c].row]
                      ELSE identity
       /\ \/ ManifestOf(root) = Goal(c) /\ GoWith(c, AfterRoot(c), root) /\ UNCHANGED refused
          \/ ManifestOf(root) # Goal(c) /\ Refuse(c)
    /\ UNCHANGED <<rows, items, ops, bounds>>

Bound(i) == i # None /\ items[i].shown

\* Mutant: the identity is compared as it was read before the row was baked.
MovedAsRead(c) == call[c].snap.current # call[c].base

\* Another revision came first.
Moved(c) == identity.current # call[c].base

\* The bound item shows another row.
ItemMoved(c) == Bound(identity.item) /\ items[identity.item].content # call[c].base

\* A revision swaps the current row it was based on, and with it the content of the
\* bound item; an item that is hidden is unbound.
Advance(c) ==
    /\ call[c].pc = "adopt" /\ ~Create(c)
    /\ LET row == call[c].row
           i == identity.item
           stale == Moved(c) \/ ItemMoved(c)
       IN  \/ /\ identity.current = row
              /\ Go(c, "resolve") /\ UNCHANGED <<identity, items, refused>>
           \/ /\ identity.current # row /\ stale
              /\ Refuse(c) /\ UNCHANGED <<identity, items>>
           \/ /\ identity.current # row /\ ~stale
              /\ identity' = [identity EXCEPT !.current = row,
                                              !.item = IF Bound(i) THEN i ELSE None]
              /\ items' = IF Bound(i) THEN [items EXCEPT ![i].content = row] ELSE items
              /\ Go(c, "resolve") /\ UNCHANGED refused
    /\ UNCHANGED <<rows, ops, bounds>>

\* An item that was bound when the creation read the identity must show its row.
Place(c) ==
    /\ call[c].pc = "place"
    /\ LET i == call[c].snap.item IN
       \/ Bound(i) /\ items[i].content = call[c].row /\ Go(c, "resolve")
       \/ Bound(i) /\ items[i].content # call[c].row /\ Go(c, "fail")
       \/ ~Bound(i) /\ Go(c, "add")
    /\ UNCHANGED <<tables, ops, refused, bounds>>

\* The catalog has one shown item for a row in a folder; it is found or made.
Add(c) ==
    /\ call[c].pc = "add"
    /\ LET shown == {i \in Items : items[i].shown /\ items[i].content = call[c].row} IN
       \/ /\ \E i \in shown : /\ \A j \in shown : i <= j
                              /\ call' = [call EXCEPT ![c] = [@ EXCEPT !.pc = "bind", !.item = i]]
          /\ UNCHANGED items
       \/ /\ shown = {}
          /\ items' = Append(items, [content |-> call[c].row, shown |-> TRUE])
          /\ call' = [call EXCEPT ![c] = [@ EXCEPT !.pc = "bind", !.item = Len(items) + 1]]
    /\ UNCHANGED <<rows, identity, ops, refused, bounds>>

\* The item is bound unless another that is shown is; the current row is not looked at.
Bind(c) ==
    /\ call[c].pc = "bind"
    /\ \/ /\ identity.item # call[c].item /\ Bound(identity.item)
          /\ Go(c, "fail") /\ UNCHANGED identity
       \/ /\ identity.item = call[c].item \/ ~Bound(identity.item)
          /\ identity' = [identity EXCEPT !.item = call[c].item]
          /\ Go(c, "resolve")
    /\ UNCHANGED <<rows, items, ops, refused, bounds>>

-----------------------------------------------------------------------------
(* The end of a call, and its troubles.                                    *)

Succeed(c) ==
    /\ call[c].pc = "resolve"
    /\ \/ /\ Holds(c)
          /\ ops' = [ops EXCEPT ![Op(c)] = [@ EXCEPT !.state = "succeeded", !.result = call[c].row,
                          !.holder = Nobody, !.expired = FALSE, !.recovery = <<>>]]
          /\ Return(c)
       \/ ~Holds(c) /\ Go(c, "fail") /\ UNCHANGED ops
    /\ UNCHANGED <<tables, refused, bounds>>

\* Mutant: a failure forgets the row that was noted.
LeftNothing(c) == <<>>

\* What a failed call leaves to a retry of its key.
Left(c) == call[c].rec

\* The claim of another is left alone.
Fail(c) ==
    /\ call[c].pc = "fail"
    /\ \/ /\ Holds(c)
          /\ ops' = [ops EXCEPT ![Op(c)] = [@ EXCEPT !.state = "failed", !.holder = Nobody,
                          !.expired = FALSE, !.recovery = Left(c)]]
       \/ ~Holds(c) /\ UNCHANGED ops
    /\ Return(c)
    /\ UNCHANGED <<tables, refused, bounds>>

Trouble == troubles < MaxTroubles /\ troubles' = troubles + 1 /\ UNCHANGED started

\* A step of the work throws.
Fault(c) ==
    /\ call[c].pc \notin {"idle", "claim", "wait", "fail"}
    /\ Trouble
    /\ Go(c, "fail")
    /\ UNCHANGED <<tables, ops, refused>>

\* The process dies; the claim stays on the row until it runs out.
Crash(c) ==
    /\ call[c].pc # "idle"
    /\ Trouble
    /\ Return(c)
    /\ ops' = [o \in Ops |-> IF ops[o].holder = c THEN [ops[o] EXCEPT !.holder = Nobody]
                                                 ELSE ops[o]]
    /\ UNCHANGED <<tables, refused>>

\* A claim runs out after five minutes, in time if its call is gone.
Expire(o) ==
    /\ ops[o].state = "pending" /\ ~ops[o].expired
    /\ IF ops[o].holder = Nobody THEN UNCHANGED bounds ELSE Trouble
    /\ ops' = [ops EXCEPT ![o].expired = TRUE]
    /\ UNCHANGED <<tables, call, refused>>

\* The user deletes the item from the catalog.
HideItem(i) ==
    /\ items[i].shown
    /\ Trouble
    /\ items' = [items EXCEPT ![i].shown = FALSE]
    /\ UNCHANGED <<rows, identity, ops, call, refused>>

Step(c) ==
    \/ Claim(c) \/ Poll(c) \/ GiveUp(c) \/ BeginCreate(c) \/ BeginRevision(c)
    \/ Draw(c) \/ Save(c) \/ Note(c) \/ WriteRoot(c) \/ Advance(c)
    \/ Place(c) \/ Add(c) \/ Bind(c) \/ Succeed(c) \/ Fail(c)

Next ==
    \/ \E c \in Calls : Step(c) \/ Fault(c) \/ Crash(c)
    \/ \E c \in Calls, q \in Asks : Start(c, q)
    \/ \E o \in Ops : Expire(o)
    \/ \E i \in Items : HideItem(i)

Spec == Init /\ [][Next]_vars

-----------------------------------------------------------------------------
(* Properties.                                                             *)

Extends(m, n) == Len(n) <= Len(m) /\ \A i \in 1..Len(n) : m[i] = n[i]

Current == ManifestOf(identity.current)

\* The revisions form one line: the current row is first a root and then replaced by
\* rows that add one edit to it, whatever calls overlap, lapse, crash or are sent again,
\* so no revision overwrites one its author had not seen (advanceComposite).
RevisionsChain ==
    [][identity'.current # identity.current =>
          \E e \in Edits : Current' = Append(Current, e)]_vars

\* A request that was answered with success is in the line of the current row for ever,
\* as it was asked for: a replay never answers with a row that lost the race.
SuccessTookEffect ==
    \A o \in Ops : ops[o].state = "succeeded" =>
        LET won  == ManifestOf(ops[o].result)
            goal == Append(o.target, ops[o].request.edit)
        IN  /\ Extends(Current, won)
            /\ o.target # <<>> => won = goal
            /\ o.target = <<>> => Extends(won, goal)

Twin(r) == \E s \in Rows \ {r} : rows[s].manifest = rows[r].manifest

\* A request is not told that another one came first when the current row is its own,
\* made by a call before it that died or was given up for dead (the recovery note);
\* unless a second row has that manifest, which the search by manifest may find instead.
RefusedIsOthers ==
    [][\A o \in refused' \ refused :
          LET now == identity.current IN
          now # None /\ rows[now].maker = o => Twin(now)]_vars

\* What the clients of the composition see: the line of the current row, what the
\* operations were asked for, and their answers.
AskedOf(o)  == IF ops[o].state = "none" THEN {} ELSE {ops[o].request.edit}
AnswerOf(o) == IF ops[o].state = "succeeded" THEN ManifestOf(ops[o].result) ELSE <<>>

Line == INSTANCE RevisionLine WITH
    line <- Current, asked <- [o \in Ops |-> AskedOf(o)],
    answer <- [o \in Ops |-> AnswerOf(o)]

\* However its calls overlap, lapse and crash, the composition is the line: an operation
\* adds what it was first asked for, at most once, before it is answered, and is
\* answered once (ImageCompositionOperation, advanceComposite).
KeepsLine == Line!Spec

-----------------------------------------------------------------------------
(* The inductive invariant behind them.                                    *)

\* What operation o was first asked for, and keeps being asked for.
Wanted(o)  == Append(o.target, ops[o].request.edit)
Claimed(c) == call[c].pc \notin {"idle", "claim", "wait"}
HasRow(o)  == \E r \in Rows : rows[r].maker = o

\* A retry of the key that made row r finds it, or its answer.
Kept(r) ==
    LET o == ops[rows[r].maker] IN
    o.state = "succeeded" \/ o.recovery # <<>> \/ Twin(r)

RowsInv ==
    \A r \in Rows :
       LET o == rows[r].maker IN
       /\ ops[o].state # "none" /\ rows[r].manifest = Wanted(o)
       /\ o.target # <<>> => ops[o].request.expected = Len(o.target)

\* The current row descends from the root, and is found again.
IdentityInv ==
    /\ identity.root \in Rows \cup {None} /\ identity.current \in Rows \cup {None}
    /\ identity.item \in Items \cup {None}
    /\ identity.root = None <=> identity.current = None
    /\ identity.root # None =>
         /\ Len(ManifestOf(identity.root)) = 1
         /\ Extends(Current, ManifestOf(identity.root))
         /\ Kept(identity.current)

\* A note is of a row the operation made; an answer is in the line.
OpsInv ==
    \A o \in Ops :
       /\ ops[o].state # "none" => ops[o].request \in Asks /\ OpOf(ops[o].request) = o
       /\ ops[o].recovery # <<>> =>
            ops[o].state # "none" /\ ops[o].recovery = Wanted(o) /\ HasRow(o)
       /\ ops[o].state = "succeeded" => ops[o].result \in Rows

\* The answer that call c is about to give.
Answer(c) ==
    LET m == ManifestOf(call[c].row) IN
    /\ call[c].row \in Rows /\ identity.current # None /\ Extends(Current, m)
    /\ IF Create(c) THEN Extends(m, Goal(c)) ELSE m = Goal(c)

RequestInv(c) ==
    call[c].pc # "idle" =>
       /\ call[c].request \in Asks /\ Op(c) = OpOf(call[c].request)
       /\ ~Create(c) => call[c].base \in Rows /\ ManifestOf(call[c].base) = Op(c).target

AskedInv(c) ==
    call[c].pc \notin {"idle", "claim"} =>
       ops[Op(c)].state # "none" /\ ops[Op(c)].request = call[c].request

NoteInv(c) ==
    Claimed(c) =>
       /\ call[c].rec # <<>> =>
            /\ call[c].rec = Goal(c) /\ HasRow(Op(c))
            /\ ops[Op(c)].state = "succeeded" \/ ops[Op(c)].recovery # <<>>
       /\ Holds(c) => ops[Op(c)].recovery = call[c].rec

RowInv(c) ==
    /\ call[c].pc \in {"draw", "save", "note", "adopt"} /\ ~Create(c) =>
         call[c].request.expected = Len(Op(c).target)
    /\ call[c].pc \in {"note", "adopt"} =>
         call[c].row \in Rows /\ ManifestOf(call[c].row) = Goal(c)
    /\ call[c].pc = "note" => rows[call[c].row].maker = Op(c)
    /\ call[c].pc = "adopt" => Kept(call[c].row)
    /\ call[c].pc \in {"place", "add", "bind", "resolve"} => Answer(c)
    /\ call[c].pc = "bind" => call[c].item \in Items

CallsInv == \A c \in Calls : RequestInv(c) /\ AskedInv(c) /\ NoteInv(c) /\ RowInv(c)

IInv == TypeOK /\ RowsInv /\ IdentityInv /\ OpsInv /\ SuccessTookEffect /\ CallsInv
=============================================================================
