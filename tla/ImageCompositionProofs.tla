---------------------- MODULE ImageCompositionProofs ----------------------
(***************************************************************************)
(* The line of revisions, for any number of calls, keys, edits and         *)
(* troubles.                                                               *)
(***************************************************************************)
EXTENDS ImageComposition, SequenceTheorems, TLAPS

LEMMA ExtendsItself ==
  ASSUME NEW m \in Manifests
  PROVE  Extends(m, m)
  BY DEF Extends, Manifests

LEMMA ExtendsThrough ==
  ASSUME NEW m \in Manifests, NEW n \in Manifests, NEW k \in Manifests,
         Extends(m, n), Extends(n, k)
  PROVE  Extends(m, k)
  BY DEF Extends, Manifests

LEMMA ExtendsByOne ==
  ASSUME NEW m \in Manifests, NEW e \in Edits
  PROVE  /\ Append(m, e) \in Manifests /\ Append(m, e) # <<>> /\ Extends(Append(m, e), m)
         /\ Len(Append(m, e)) = Len(m) + 1
  BY AppendProperties DEF Extends, Manifests

LEMMA Asking ==
  ASSUME NEW q \in Asks
  PROVE  /\ q.target \in Manifests /\ q.edit \in Edits
         /\ OpOf(q) \in Ops /\ OpOf(q).target = q.target
         /\ q # Nobody
  BY CompositionAssumption DEF CompositionAssumption, Ops, OpOf, Edits

LEMMA Operations ==
  ASSUME NEW o \in Ops
  PROVE  o.target \in Manifests /\ o # Nobody
  BY CompositionAssumption DEF CompositionAssumption, Ops, OpOf

CallType == [pc : Phases, op : Ops \cup {Nobody}, request : Asks \cup {Nobody},
             snap : Identities, base : Nat, rec : Manifests, row : Nat, item : Nat]
OpType == [state : {"none", "pending", "succeeded", "failed"},
           request : Asks \cup {Nobody}, holder : Calls \cup {Nobody},
           expired : BOOLEAN, recovery : Manifests, result : Nat]
RowType == [manifest : Manifests, maker : Ops]
ItemType == [content : Nat, shown : BOOLEAN]

LEMMA TypeFacts ==
  ASSUME TypeOK
  PROVE  /\ rows \in Seq(RowType) /\ items \in Seq(ItemType)
         /\ Len(rows) \in Nat /\ Len(items) \in Nat
         /\ \A r \in Rows : rows[r] \in RowType /\ r \in Nat /\ r # None
         /\ \A i \in Items : items[i] \in ItemType /\ i \in Nat /\ i # None
         /\ identity \in Identities
         /\ ops \in [Ops -> OpType] /\ call \in [Calls -> CallType]
         /\ <<>> \in Manifests
         /\ \A r \in Rows \cup {None} : ManifestOf(r) \in Manifests
<1>1. rows \in Seq(RowType) /\ items \in Seq(ItemType)
  BY DEF TypeOK, RowType, ItemType
<1>2. /\ Len(rows) \in Nat /\ Len(items) \in Nat
      /\ \A r \in Rows : rows[r] \in RowType /\ r \in Nat /\ r # None
      /\ \A i \in Items : items[i] \in ItemType /\ i \in Nat /\ i # None
  BY <1>1 DEF Rows, Items, None
<1>3. identity \in Identities /\ ops \in [Ops -> OpType] /\ call \in [Calls -> CallType]
  BY DEF TypeOK, OpType, CallType
<1>4. <<>> \in Manifests
  BY DEF Manifests
<1>5. ASSUME NEW r \in Rows \cup {None} PROVE ManifestOf(r) \in Manifests
  BY <1>2, <1>4 DEF ManifestOf, RowType
<1> QED BY <1>1, <1>2, <1>3, <1>4, <1>5

LEMMA InitTyped == Init => TypeOK
<1> SUFFICES ASSUME Init PROVE TypeOK
  OBVIOUS
<1>1. <<>> \in Manifests /\ Nothing \in Identities
  BY DEF Manifests, Nothing, Identities, None
<1>2. Idle \in CallType
  BY <1>1 DEF Idle, CallType, Phases, None
<1>3. rows \in Seq([manifest : Manifests, maker : Ops]) /\ items \in Seq([content : Nat, shown : BOOLEAN])
  BY DEF Init
<1>4. started \in 0..MaxCalls /\ troubles \in 0..MaxTroubles
  BY CompositionAssumption DEF Init, CompositionAssumption
<1> QED BY <1>1, <1>2, <1>3, <1>4 DEF Init, TypeOK, CallType, None

-----------------------------------------------------------------------------
(* What a step leaves of the types.                                        *)

LEMMA CallFacts ==
  ASSUME IInv, NEW c \in Calls, call[c].pc # "idle"
  PROVE  /\ Op(c) \in Ops /\ call[c].request \in Asks /\ Op(c) = OpOf(call[c].request)
         /\ Op(c).target \in Manifests
         /\ Goal(c) = Append(Op(c).target, call[c].request.edit)
         /\ Goal(c) \in Manifests /\ Goal(c) # <<>> /\ Extends(Goal(c), Op(c).target)
         /\ Len(Goal(c)) = Len(Op(c).target) + 1
         /\ call[c].request.edit \in Edits
<1>1. call[c].request \in Asks /\ Op(c) = OpOf(call[c].request)
  BY DEF IInv, CallsInv, RequestInv
<1>2. /\ Op(c) \in Ops /\ Op(c).target \in Manifests /\ call[c].request.edit \in Edits
  BY <1>1, Asking
<1> QED BY <1>1, <1>2, ExtendsByOne DEF Goal

LEMMA StepFacts ==
  ASSUME IInv, NEW c \in Calls, Step(c) \/ Fault(c) \/ Crash(c)
  PROVE  call[c].pc # "idle"
  BY DEF Step, Claim, Poll, GiveUp, BeginCreate, BeginRevision, Draw, Save, Note, WriteRoot,
         Advance, Place, Add, Bind, Succeed, Fail, Fault, Crash

OthersStay(c) == \A d \in Calls \ {c} : call'[d] = call[d]

\* A step changes its own call only, and leaves it typed.
LEMMA StepCalls ==
  ASSUME IInv, NEW c \in Calls, Step(c) \/ Fault(c) \/ Crash(c)
  PROVE  call' \in [Calls -> CallType] /\ OthersStay(c)
<1>0. call \in [Calls -> CallType] /\ ops \in [Ops -> OpType] /\ identity \in Identities
      /\ Len(rows) \in Nat /\ Len(items) \in Nat /\ (\A r \in Rows : r \in Nat)
      /\ (\A i \in Items : i \in Nat)
  BY TypeFacts DEF IInv
<1>1. Op(c) \in Ops /\ Goal(c) \in Manifests
  BY CallFacts, StepFacts
<1>a. ASSUME NEW x \in CallType, call' = [call EXCEPT ![c] = x]
      PROVE  call' \in [Calls -> CallType] /\ OthersStay(c)
  BY <1>0, <1>a DEF OthersStay
<1>2. \A p \in Phases : Go(c, p) => call' \in [Calls -> CallType] /\ OthersStay(c)
  <2> SUFFICES ASSUME NEW p \in Phases, Go(c, p)
               PROVE  call' \in [Calls -> CallType] /\ OthersStay(c)
    OBVIOUS
  <2> DEFINE x == [call[c] EXCEPT !.pc = p]
  <2>1. x \in CallType
    BY <1>0 DEF CallType
  <2>2. call' = [call EXCEPT ![c] = x]
    BY DEF Go
  <2> HIDE DEF x
  <2> QED BY <1>a, <2>1, <2>2
<1>3. \A p \in Phases, r \in Nat :
         GoWith(c, p, r) => call' \in [Calls -> CallType] /\ OthersStay(c)
  <2> SUFFICES ASSUME NEW p \in Phases, NEW r \in Nat, GoWith(c, p, r)
               PROVE  call' \in [Calls -> CallType] /\ OthersStay(c)
    OBVIOUS
  <2> DEFINE x == [call[c] EXCEPT !.pc = p, !.row = r]
  <2>1. x \in CallType
    BY <1>0 DEF CallType
  <2>2. call' = [call EXCEPT ![c] = x]
    BY DEF GoWith
  <2> HIDE DEF x
  <2> QED BY <1>a, <2>1, <2>2
<1>4. Idle \in CallType
  BY DEF Idle, Nothing, Identities, CallType, Phases, None, Manifests
<1>5. Return(c) => call' \in [Calls -> CallType] /\ OthersStay(c)
  BY <1>0, <1>4 DEF Return, OthersStay
<1>6. Take(c) => call' \in [Calls -> CallType] /\ OthersStay(c)
  <2>1. "begin" \in Phases /\ ops[Op(c)].recovery \in Manifests
    BY <1>0, <1>1 DEF OpType, Phases
  <2>2. ASSUME call' = [call EXCEPT ![c] = [@ EXCEPT !.pc = "begin", !.rec = ops[Op(c)].recovery]]
        PROVE  call' \in [Calls -> CallType] /\ OthersStay(c)
    <3> DEFINE x == [call[c] EXCEPT !.pc = "begin", !.rec = ops[Op(c)].recovery]
    <3>1. x \in CallType
      BY <1>0, <2>1 DEF CallType
    <3> HIDE DEF x
    <3> QED BY <1>a, <2>2, <3>1 DEF x
  <2> QED BY <2>2 DEF Take
<1>7. CASE Claim(c)
  BY <1>2, <1>5, <1>6, <1>7 DEF Claim, Phases
<1>8. CASE Poll(c)
  BY <1>5, <1>6, <1>8 DEF Poll
<1>9. CASE GiveUp(c)
  BY <1>5, <1>9 DEF GiveUp
<1>10. Prepare(c) => call' \in [Calls -> CallType] /\ OthersStay(c)
  BY <1>0, <1>2, <1>3 DEF Prepare, WithManifest, Phases
<1>11. Refuse(c) => call' \in [Calls -> CallType] /\ OthersStay(c)
  BY <1>2 DEF Refuse, Phases
<1>12. AfterRoot(c) \in Phases /\ identity.current \in Nat /\ identity.root \in Nat
  BY <1>0 DEF AfterRoot, Phases, Identities
<1>13. CASE BeginCreate(c)
  <2>1. ASSUME call' = [call EXCEPT ![c] = [@ EXCEPT !.pc = AfterRoot(c), !.snap = identity,
                                                  !.row = identity.current]]
        PROVE  call' \in [Calls -> CallType] /\ OthersStay(c)
    <3> DEFINE x == [call[c] EXCEPT !.pc = AfterRoot(c), !.snap = identity,
                                    !.row = identity.current]
    <3>1. x \in CallType
      BY <1>0, <1>12 DEF CallType
    <3> HIDE DEF x
    <3> QED BY <1>a, <2>1, <3>1 DEF x
  <2> QED BY <2>1, <1>10, <1>11, <1>13 DEF BeginCreate
<1>14. CASE BeginRevision(c)
  BY <1>3, <1>10, <1>11, <1>12, <1>14 DEF BeginRevision, Phases
<1>15. CASE Draw(c)
  BY <1>2, <1>15 DEF Draw, Phases
<1>16. CASE Save(c)
  BY <1>0, <1>3, <1>16 DEF Save, Phases
<1>17. CASE Note(c)
  <2>1. ASSUME call' = [call EXCEPT ![c] = [@ EXCEPT !.pc = "adopt", !.rec = Goal(c)]]
        PROVE  call' \in [Calls -> CallType] /\ OthersStay(c)
    <3> DEFINE x == [call[c] EXCEPT !.pc = "adopt", !.rec = Goal(c)]
    <3>1. call[c] \in CallType /\ "adopt" \in Phases
      BY <1>0 DEF Phases
    <3>2. x \in CallType
      BY <3>1, <1>1 DEF CallType
    <3> HIDE DEF x
    <3> QED BY <1>a, <2>1, <3>2 DEF x
  <2> QED BY <2>1, <1>2, <1>17 DEF Note, Phases
<1>18. CASE WriteRoot(c)
  <2>1. Winner(c) \in Nat
    BY <1>0, <1>12 DEF Winner, CallType
  <2> QED BY <2>1, <1>3, <1>11, <1>12, <1>18 DEF WriteRoot
<1>19. CASE Advance(c)
  BY <1>2, <1>11, <1>19 DEF Advance, Phases
<1>20. CASE Place(c)
  BY <1>2, <1>20 DEF Place, Phases
<1>21. CASE Add(c)
  <2>1. ASSUME NEW i \in Nat, call' = [call EXCEPT ![c] = [@ EXCEPT !.pc = "bind", !.item = i]]
        PROVE  call' \in [Calls -> CallType] /\ OthersStay(c)
    <3> DEFINE x == [call[c] EXCEPT !.pc = "bind", !.item = i]
    <3>1. call[c] \in CallType /\ "bind" \in Phases
      BY <1>0 DEF Phases
    <3>2. x \in CallType
      BY <3>1 DEF CallType
    <3> HIDE DEF x
    <3> QED BY <1>a, <2>1, <3>2 DEF x
  <2>2. PICK i \in Nat : call' = [call EXCEPT ![c] = [@ EXCEPT !.pc = "bind", !.item = i]]
    <3>1. Len(items) + 1 \in Nat
      BY <1>0
    <3> QED BY <3>1, <1>0, <1>21 DEF Add
  <2> QED BY <2>1, <2>2
<1>22. CASE Bind(c)
  BY <1>2, <1>22 DEF Bind, Phases
<1>23. CASE Succeed(c)
  BY <1>2, <1>5, <1>23 DEF Succeed, Phases
<1>24. CASE Fail(c)
  BY <1>5, <1>24 DEF Fail
<1>25. CASE Fault(c)
  BY <1>2, <1>25 DEF Fault, Phases
<1>26. CASE Crash(c)
  BY <1>5, <1>26 DEF Crash
<1> QED BY <1>7, <1>8, <1>9, <1>13, <1>14, <1>15, <1>16, <1>17, <1>18, <1>19, <1>20, <1>21,
           <1>22, <1>23, <1>24, <1>25, <1>26 DEF Step

\* Which actions write which table.
LEMMA Writers ==
  ASSUME IInv, [Next]_vars
  PROVE  /\ UNCHANGED rows \/ \E c \in Calls : Save(c)
         /\ \/ UNCHANGED <<identity.root, identity.current>>
            \/ \E c \in Calls : WriteRoot(c) \/ Advance(c)
         /\ \/ UNCHANGED identity
            \/ \E c \in Calls : WriteRoot(c) \/ Advance(c) \/ Bind(c)
         /\ \/ UNCHANGED items
            \/ \E c \in Calls : Add(c) \/ Advance(c)
            \/ \E i \in Items : HideItem(i)
<1>1. CASE UNCHANGED vars
  BY <1>1 DEF vars, tables
<1>2. CASE \E c \in Calls : Fault(c) \/ Crash(c)
  BY <1>2 DEF Fault, Crash, tables
<1>3. CASE (\E c \in Calls, q \in Asks : Start(c, q)) \/ (\E o \in Ops : Expire(o))
  BY <1>3 DEF Start, Expire, tables
<1>4. CASE \E i \in Items : HideItem(i)
  BY <1>4 DEF HideItem
<1>5. CASE \E c \in Calls : Step(c)
  <2>1. PICK c \in Calls : Step(c)
    BY <1>5
  <2>2. CASE Claim(c) \/ Poll(c) \/ GiveUp(c) \/ BeginCreate(c) \/ BeginRevision(c) \/ Draw(c)
             \/ Note(c) \/ Place(c) \/ Succeed(c) \/ Fail(c)
    BY <2>2 DEF Claim, Poll, GiveUp, BeginCreate, BeginRevision, Draw, Note, Place, Succeed,
                Fail, tables
  <2>3. CASE Save(c) \/ WriteRoot(c) \/ Advance(c) \/ Add(c)
    BY <2>3 DEF Save, WriteRoot, Advance, Add
  <2>4. CASE Bind(c)
    BY <2>4, TypeFacts DEF Bind, IInv, Identities
  <2> QED BY <2>1, <2>2, <2>3, <2>4 DEF Step
<1> QED BY <1>1, <1>2, <1>3, <1>4, <1>5 DEF Next

LEMMA StepRows ==
  ASSUME IInv, [Next]_vars
  PROVE  /\ rows' \in Seq(RowType) /\ Len(rows) <= Len(rows')
         /\ \A r \in Rows : r \in Rows' /\ rows'[r] = rows[r]
<1>0. rows \in Seq(RowType) /\ Len(rows) \in Nat
  BY TypeFacts DEF IInv
<1>1. CASE UNCHANGED rows
  BY <1>0, <1>1 DEF Rows
<1>2. CASE \E c \in Calls : Save(c)
  <2>1. PICK c \in Calls : Save(c)
    BY <1>2
  <2>2. [manifest |-> Goal(c), maker |-> Op(c)] \in RowType
    BY <2>1, CallFacts DEF RowType, Save
  <2> QED BY <1>0, <2>1, <2>2, AppendProperties DEF Save, Rows
<1> QED BY <1>1, <1>2, Writers

LEMMA StepItems ==
  ASSUME IInv, [Next]_vars
  PROVE  items' \in Seq(ItemType) /\ Len(items) <= Len(items')
<1>0. items \in Seq(ItemType) /\ Len(items) \in Nat /\ call \in [Calls -> CallType]
      /\ \A i \in Items : items[i] \in ItemType
  BY TypeFacts DEF IInv
<1>1. ASSUME NEW i \in Items, NEW x \in ItemType, items' = [items EXCEPT ![i] = x]
      PROVE  items' \in Seq(ItemType) /\ Len(items) <= Len(items')
  BY <1>0, <1>1, ExceptSeq DEF Items
<1>2. CASE UNCHANGED items
  BY <1>0, <1>2
<1>3. CASE \E c \in Calls : Add(c)
  <2>1. PICK c \in Calls : Add(c)
    BY <1>3
  <2>2. [content |-> call[c].row, shown |-> TRUE] \in ItemType
    BY <1>0 DEF ItemType, CallType
  <2>3. \/ UNCHANGED items
        \/ items' = Append(items, [content |-> call[c].row, shown |-> TRUE])
    BY <2>1 DEF Add
  <2> QED BY <1>0, <2>2, <2>3, AppendProperties
<1>4. CASE \E c \in Calls : Advance(c)
  <2>1. PICK c \in Calls : Advance(c)
    BY <1>4
  <2>2. Bound(identity.item) => identity.item \in Items
    BY DEF IInv, IdentityInv, Bound
  <2>3. call[c].row \in Nat
    BY <1>0 DEF CallType
  <2>4. CASE /\ Bound(identity.item)
             /\ items' = [items EXCEPT ![identity.item].content = call[c].row]
    <3> DEFINE x == [items[identity.item] EXCEPT !.content = call[c].row]
    <3>1. x \in ItemType
      BY <1>0, <2>2, <2>3, <2>4 DEF ItemType
    <3>2. items' = [items EXCEPT ![identity.item] = x]
      BY <2>4
    <3> QED BY <1>1, <2>2, <2>4, <3>1, <3>2
  <2> QED BY <1>0, <2>1, <2>4 DEF Advance
<1>5. CASE \E i \in Items : HideItem(i)
  <2>1. PICK i \in Items : items' = [items EXCEPT ![i].shown = FALSE]
    BY <1>5 DEF HideItem
  <2> DEFINE x == [items[i] EXCEPT !.shown = FALSE]
  <2>2. x \in ItemType
    BY <1>0 DEF ItemType
  <2>3. items' = [items EXCEPT ![i] = x]
    BY <2>1
  <2> QED BY <1>1, <2>2, <2>3
<1> QED BY <1>2, <1>3, <1>4, <1>5, Writers

-----------------------------------------------------------------------------
(* What a step leaves of the operations.                                   *)

\* A request stays, a note stays until there is an answer, an answer stays.
OpSteady(o) ==
    /\ ops[o].state # "none" => ops'[o].state # "none" /\ ops'[o].request = ops[o].request
    /\ ops[o].state = "succeeded" =>
         ops'[o].state = "succeeded" /\ ops'[o].result = ops[o].result
    /\ ops[o].recovery # <<>> =>
         ops'[o].recovery = ops[o].recovery \/ ops'[o].state = "succeeded"

\* A claim of call d is what it was.
ClaimSteady(o, d) ==
    ops'[o].state = "pending" /\ ops'[o].holder = d =>
       /\ ops[o].state = "pending" /\ ops[o].holder = d
       /\ ops'[o].recovery = ops[o].recovery

OpsSteady(D) ==
    /\ ops' \in [Ops -> OpType]
    /\ \A o \in Ops : OpSteady(o) /\ \A d \in D : ClaimSteady(o, d)

LEMMA OpsWriters ==
  ASSUME NEW c \in Calls, Step(c) \/ Fault(c) \/ Crash(c)
  PROVE  \/ UNCHANGED ops
         \/ /\ Take(c) /\ ops[Op(c)].state # "succeeded" /\ call[c].pc \in {"claim", "wait"}
            /\ \/ ops[Op(c)].state = "none"
               \/ ops[Op(c)].request = call[c].request
               \/ call[c].pc = "wait"
         \/ Draw(c) \/ Note(c) \/ Succeed(c) \/ Fail(c) \/ Crash(c)
<1>1. CASE Claim(c) \/ Poll(c) \/ GiveUp(c)
  BY <1>1 DEF Claim, Poll, GiveUp, Reclaimable
<1>2. CASE BeginCreate(c) \/ BeginRevision(c) \/ Save(c) \/ WriteRoot(c) \/ Advance(c) \/ Place(c)
           \/ Add(c) \/ Bind(c) \/ Fault(c)
  BY <1>2 DEF BeginCreate, BeginRevision, Save, WriteRoot, Advance, Place, Add, Bind, Fault
<1> QED BY <1>1, <1>2 DEF Step

\* To write fields of one operation that a call has is steady.
LEMMA WriteSteady ==
  ASSUME IInv, NEW c \in Calls, NEW o \in Ops, NEW x \in OpType,
         ops' = [ops EXCEPT ![o] = x],
         ops[o].state # "none" => x.state # "none" /\ x.request = ops[o].request,
         ops[o].state # "succeeded",
         ops[o].recovery # <<>> => x.recovery = ops[o].recovery \/ x.state = "succeeded",
         x.holder \in {c, Nobody}
  PROVE  OpsSteady(Calls \ {c})
<1>1. ops \in [Ops -> OpType] /\ Nobody \notin Calls
  BY TypeFacts, CompositionAssumption DEF IInv, CompositionAssumption
<1>2. ops' \in [Ops -> OpType] /\ ops'[o] = x
  BY <1>1
<1>3. ASSUME NEW p \in Ops PROVE OpSteady(p) /\ \A d \in Calls \ {c} : ClaimSteady(p, d)
  <2>1. CASE p = o
    BY <1>1, <1>2, <2>1 DEF OpSteady, ClaimSteady
  <2>2. CASE p # o
    BY <1>1, <2>2 DEF OpSteady, ClaimSteady
  <2> QED BY <2>1, <2>2
<1> QED BY <1>2, <1>3 DEF OpsSteady

LEMMA StepOps ==
  ASSUME IInv, NEW c \in Calls, Step(c) \/ Fault(c) \/ Crash(c)
  PROVE  OpsSteady(Calls \ {c})
<1> DEFINE o == Op(c)
<1>0. /\ ops \in [Ops -> OpType] /\ o \in Ops /\ ops[o] \in OpType /\ Goal(c) \in Manifests
      /\ call[c] \in CallType /\ call[c].request \in Asks
  BY TypeFacts, StepFacts, CallFacts DEF IInv
<1>1. /\ ops[o].recovery # <<>> => ops[o].recovery = Wanted(o)
      /\ call[c].pc \notin {"idle", "claim"} =>
           ops[o].state # "none" /\ ops[o].request = call[c].request /\ Wanted(o) = Goal(c)
      /\ Claimed(c) /\ Holds(c) => ops[o].recovery = call[c].rec
  BY <1>0 DEF IInv, OpsInv, CallsInv, AskedInv, NoteInv, Wanted, Goal
<1>2. CASE UNCHANGED ops
  BY <1>0, <1>2 DEF OpsSteady, OpSteady, ClaimSteady
<1>3. CASE /\ Take(c) /\ ops[o].state # "succeeded" /\ call[c].pc \in {"claim", "wait"}
           /\ \/ ops[o].state = "none"
              \/ ops[o].request = call[c].request
              \/ call[c].pc = "wait"
  <2> DEFINE x == [ops[o] EXCEPT !.state = "pending", !.request = call[c].request,
                                 !.holder = c, !.expired = FALSE]
  <2>1. x \in OpType /\ ops' = [ops EXCEPT ![o] = x]
    BY <1>0, <1>3 DEF Take, OpType
  <2>2. /\ ops[o].state # "none" => call[c].request = ops[o].request
        /\ ops[o].state # "succeeded"
    BY <1>1, <1>3
  <2>3. /\ x.state = "pending" /\ x.request = call[c].request /\ x.holder = c
        /\ x.recovery = ops[o].recovery
    BY <1>0 DEF OpType
  <2> HIDE DEF x, o
  <2> QED BY <1>0, <2>1, <2>2, <2>3, WriteSteady
<1>4. CASE Draw(c)
  <2> DEFINE x == [ops[o] EXCEPT !.expired = FALSE]
  <2>1. x \in OpType /\ x.state = ops[o].state /\ x.request = ops[o].request
        /\ x.holder = ops[o].holder /\ x.recovery = ops[o].recovery
    BY <1>0 DEF OpType
  <2>2. UNCHANGED ops \/ (Holds(c) /\ ops' = [ops EXCEPT ![o] = x])
    BY <1>4 DEF Draw
  <2>3. Holds(c) => ops[o].state = "pending" /\ ops[o].holder = c
    BY DEF Holds
  <2> HIDE DEF x, o
  <2> QED BY <1>0, <1>2, <2>1, <2>2, <2>3, WriteSteady
<1>5. CASE Note(c)
  <2> DEFINE x == [ops[o] EXCEPT !.recovery = Goal(c), !.expired = FALSE]
  <2>1. x \in OpType /\ x.state = ops[o].state /\ x.request = ops[o].request
        /\ x.holder = ops[o].holder /\ x.recovery = Goal(c)
    BY <1>0 DEF OpType
  <2>2. UNCHANGED ops \/ (Holds(c) /\ ops' = [ops EXCEPT ![o] = x])
    BY <1>5 DEF Note
  <2>3. Holds(c) => ops[o].state = "pending" /\ ops[o].holder = c
    BY DEF Holds
  <2>4. ops[o].recovery # <<>> => ops[o].recovery = Goal(c)
    BY <1>1, <1>5 DEF Note
  <2> HIDE DEF x, o
  <2> QED BY <1>0, <1>2, <2>1, <2>2, <2>3, <2>4, WriteSteady
<1>6. CASE Succeed(c)
  <2> DEFINE x == [ops[o] EXCEPT !.state = "succeeded", !.result = call[c].row,
                                 !.holder = Nobody, !.expired = FALSE, !.recovery = <<>>]
  <2>1. x \in OpType /\ x.state = "succeeded" /\ x.request = ops[o].request
        /\ x.holder = Nobody
    <3>1. call[c].row \in Nat /\ <<>> \in Manifests
      BY <1>0, TypeFacts DEF CallType, IInv
    <3> QED BY <1>0, <3>1 DEF OpType
  <2>2. UNCHANGED ops \/ (Holds(c) /\ ops' = [ops EXCEPT ![o] = x])
    BY <1>6 DEF Succeed
  <2>3. Holds(c) => ops[o].state = "pending"
    BY DEF Holds
  <2> HIDE DEF x, o
  <2> QED BY <1>0, <1>2, <2>1, <2>2, <2>3, WriteSteady
<1>7. CASE Fail(c)
  <2> DEFINE x == [ops[o] EXCEPT !.state = "failed", !.holder = Nobody, !.expired = FALSE,
                                 !.recovery = Left(c)]
  <2>1. x \in OpType /\ x.state = "failed" /\ x.request = ops[o].request
        /\ x.holder = Nobody /\ x.recovery = Left(c)
    BY <1>0 DEF OpType, CallType, Left
  <2>2. UNCHANGED ops \/ (Holds(c) /\ ops' = [ops EXCEPT ![o] = x])
    BY <1>7 DEF Fail
  <2>3. Holds(c) => ops[o].state = "pending"
    BY DEF Holds
  <2>4. Holds(c) => Left(c) = ops[o].recovery
    BY <1>1, <1>7 DEF Left, Claimed, Fail
  <2> HIDE DEF x, o
  <2> QED BY <1>0, <1>2, <2>1, <2>2, <2>3, <2>4, WriteSteady
<1>8. CASE Crash(c)
  <2>1. ASSUME NEW p \in Ops
        PROVE  /\ ops'[p] \in OpType /\ ops'[p].holder \in {ops[p].holder, Nobody}
               /\ ops'[p].state = ops[p].state /\ ops'[p].request = ops[p].request
               /\ ops'[p].result = ops[p].result /\ ops'[p].recovery = ops[p].recovery
    BY <1>0, <1>8 DEF Crash, OpType
  <2>2. Nobody \notin Calls
    BY CompositionAssumption DEF CompositionAssumption
  <2>3. ops' \in [Ops -> OpType]
    BY <1>8, <2>1 DEF Crash
  <2> QED BY <2>1, <2>2, <2>3 DEF OpsSteady, OpSteady, ClaimSteady
<1> QED BY <1>2, <1>3, <1>4, <1>5, <1>6, <1>7, <1>8, OpsWriters

LEMMA ExpireOps ==
  ASSUME IInv, NEW o \in Ops, Expire(o)
  PROVE  OpsSteady(Calls)
<1>1. ops \in [Ops -> OpType]
  BY TypeFacts DEF IInv
<1>2. ops' = [ops EXCEPT ![o].expired = TRUE]
  BY DEF Expire
<1> QED BY <1>1, <1>2 DEF OpsSteady, OpSteady, ClaimSteady, OpType

-----------------------------------------------------------------------------
(* What a step leaves of the line.                                         *)

\* A call at the adoption of a row has baked what it was asked for.
LEMMA AdoptFacts ==
  ASSUME IInv, NEW c \in Calls, call[c].pc = "adopt"
  PROVE  /\ call[c].row \in Rows /\ call[c].row # None /\ Kept(call[c].row)
         /\ rows[call[c].row].manifest = Goal(c)
         /\ ~Create(c) => /\ call[c].base \in Rows /\ call[c].base # None
                          /\ rows[call[c].base].manifest = Op(c).target
<1>1. \A r \in Rows : r # None
  BY TypeFacts DEF IInv
<1>2. RequestInv(c) /\ RowInv(c)
  BY DEF IInv, CallsInv
<1> QED BY <1>1, <1>2 DEF RequestInv, RowInv, ManifestOf

\* The line grows by one edit, at WriteRoot and Advance.
LineGrows ==
    /\ identity'.current \in Rows /\ rows' = rows
    /\ \E e \in Edits : Current' = Append(Current, e)

LEMMA RootLine ==
  ASSUME IInv, NEW c \in Calls, WriteRoot(c), ~UNCHANGED identity
  PROVE  /\ LineGrows
         /\ identity' = [identity EXCEPT !.root = call[c].row, !.current = call[c].row]
         /\ identity.root = None /\ identity.current = None /\ Create(c)
<1>1. /\ identity' = [identity EXCEPT !.root = call[c].row, !.current = call[c].row]
      /\ identity.root = None /\ rows' = rows /\ call[c].pc = "adopt" /\ Create(c)
  BY DEF WriteRoot
<1>2. identity.current = None /\ identity \in Identities
  BY <1>1, TypeFacts DEF IInv, IdentityInv
<1>3. identity'.current = call[c].row
  BY <1>1, <1>2 DEF Identities
<1>4. call[c].row \in Rows /\ call[c].row # None /\ rows[call[c].row].manifest = Goal(c)
  BY <1>1, AdoptFacts
<1>5. Goal(c) = Append(<<>>, call[c].request.edit) /\ call[c].request.edit \in Edits
  BY <1>1, CallFacts DEF Create
<1>6. Current = <<>> /\ Current' = Goal(c)
  BY <1>1, <1>2, <1>3, <1>4 DEF Current, ManifestOf
<1> QED BY <1>1, <1>2, <1>3, <1>4, <1>5, <1>6 DEF LineGrows

LEMMA AdvanceLine ==
  ASSUME IInv, NEW c \in Calls, Advance(c), ~UNCHANGED identity
  PROVE  /\ LineGrows
         /\ identity' = [identity EXCEPT !.current = call[c].row,
                             !.item = IF Bound(identity.item) THEN identity.item ELSE None]
         /\ identity.current \in Rows /\ identity.current # None /\ ~Create(c)
<1>1. /\ identity' = [identity EXCEPT !.current = call[c].row,
                             !.item = IF Bound(identity.item) THEN identity.item ELSE None]
      /\ ~Moved(c) /\ rows' = rows /\ call[c].pc = "adopt" /\ ~Create(c)
  BY DEF Advance
<1>2. identity \in Identities
  BY TypeFacts DEF IInv
<1>3. identity'.current = call[c].row
  BY <1>1, <1>2 DEF Identities
<1>4. /\ call[c].row \in Rows /\ call[c].row # None /\ rows[call[c].row].manifest = Goal(c)
      /\ call[c].base \in Rows /\ call[c].base # None
      /\ rows[call[c].base].manifest = Op(c).target
  BY <1>1, AdoptFacts
<1>5. Goal(c) = Append(Op(c).target, call[c].request.edit) /\ call[c].request.edit \in Edits
  BY <1>1, CallFacts
<1>6. identity.current = call[c].base
  BY <1>1 DEF Moved
<1>7. Current = Op(c).target /\ Current' = Goal(c)
  BY <1>1, <1>3, <1>4, <1>6 DEF Current, ManifestOf
<1> QED BY <1>1, <1>3, <1>4, <1>5, <1>6, <1>7 DEF LineGrows

LEMMA StepLine ==
  ASSUME IInv, [Next]_vars
  PROVE  /\ identity' \in Identities
         /\ identity'.current # identity.current =>
              \E e \in Edits : Current' = Append(Current, e)
         /\ identity.current # None =>
              identity'.current # None /\ Extends(Current', Current)
<1>0. /\ identity \in Identities /\ call \in [Calls -> CallType]
      /\ \A r \in Rows : r # None
      /\ identity.current \in Rows \cup {None} /\ Current \in Manifests
  BY TypeFacts DEF IInv, IdentityInv, Current
<1>1. \A r \in Rows : rows'[r] = rows[r]
  BY StepRows
<1>2. \A c \in Calls : call[c].row \in Nat /\ call[c].item \in Nat
  BY <1>0 DEF CallType
<1>3. LineGrows => /\ \E e \in Edits : Current' = Append(Current, e)
                   /\ identity'.current # None /\ Extends(Current', Current)
  BY <1>0, ExtendsByOne DEF LineGrows
<1>4. ASSUME UNCHANGED identity.current, identity' \in Identities
      PROVE  /\ identity.current # None =>
                  identity'.current # None /\ Extends(Current', Current)
  <2>1. Current' = Current
    BY <1>0, <1>1, <1>4 DEF Current, ManifestOf
  <2> QED BY <1>0, <1>4, <2>1, ExtendsItself
<1>5. CASE UNCHANGED identity
  BY <1>0, <1>4, <1>5
<1>6. CASE \E c \in Calls : Bind(c)
  <2>1. PICK c \in Calls : Bind(c)
    BY <1>6
  <2>2. UNCHANGED identity \/ identity' = [identity EXCEPT !.item = call[c].item]
    BY <2>1 DEF Bind
  <2>3. UNCHANGED identity.current /\ identity' \in Identities
    BY <1>0, <1>2, <2>2 DEF Identities
  <2> QED BY <1>4, <2>3
<1>7. CASE \E c \in Calls : WriteRoot(c) /\ ~UNCHANGED identity
  <2>1. PICK c \in Calls : WriteRoot(c) /\ ~UNCHANGED identity
    BY <1>7
  <2>2. /\ LineGrows
        /\ identity' = [identity EXCEPT !.root = call[c].row, !.current = call[c].row]
    BY <2>1, RootLine
  <2>3. identity' \in Identities
    BY <1>0, <1>2, <2>2 DEF Identities
  <2> QED BY <1>3, <2>2, <2>3
<1>8. CASE \E c \in Calls : Advance(c) /\ ~UNCHANGED identity
  <2>1. PICK c \in Calls : Advance(c) /\ ~UNCHANGED identity
    BY <1>8
  <2>2. /\ LineGrows
        /\ identity' = [identity EXCEPT !.current = call[c].row,
                             !.item = IF Bound(identity.item) THEN identity.item ELSE None]
    BY <2>1, AdvanceLine
  <2>3. identity' \in Identities
    BY <1>0, <1>2, <2>2 DEF Identities, None
  <2> QED BY <1>3, <2>2, <2>3
<1> QED BY <1>5, <1>6, <1>7, <1>8, Writers

\* Whatever is in the line stays in it.
LEMMA LineKept ==
  ASSUME IInv, [Next]_vars
  PROVE  Current \in Manifests /\ Current' \in Manifests /\ Extends(Current', Current)
<1>0. /\ identity.current \in Rows \cup {None} /\ Current \in Manifests /\ <<>> \in Manifests
  BY TypeFacts DEF IInv, IdentityInv, Current
<1>1. Current' \in Manifests
  <2>1. CASE identity'.current = identity.current
    <3>1. \A r \in Rows : rows'[r] = rows[r]
      BY StepRows
    <3> QED BY <1>0, <2>1, <3>1 DEF Current, ManifestOf
  <2>2. CASE identity'.current # identity.current
    BY <1>0, <2>2, StepLine, ExtendsByOne
  <2> QED BY <2>1, <2>2
<1>2. CASE identity.current # None
  BY <1>0, <1>1, <1>2, StepLine
<1>3. CASE identity.current = None
  <2>1. Current = <<>>
    BY <1>3 DEF Current, ManifestOf
  <2> QED BY <1>0, <1>1, <2>1 DEF Extends, Manifests
<1> QED BY <1>0, <1>1, <1>2, <1>3

LEMMA SplitStep ==
  ASSUME [Next]_vars
  PROVE  \/ UNCHANGED vars
         \/ \E c \in Calls : Step(c) \/ Fault(c) \/ Crash(c)
         \/ \E c \in Calls, q \in Asks : Start(c, q)
         \/ \E o \in Ops : Expire(o)
         \/ \E i \in Items : HideItem(i)
  BY DEF Next

\* In every step each operation is steady.
LEMMA AllSteady ==
  ASSUME IInv, [Next]_vars
  PROVE  ops' \in [Ops -> OpType] /\ \A o \in Ops : OpSteady(o)
<1>1. CASE UNCHANGED ops
  <2>1. ops \in [Ops -> OpType]
    BY TypeFacts DEF IInv
  <2> QED BY <1>1, <2>1 DEF OpSteady
<1>2. CASE \E c \in Calls : Step(c) \/ Fault(c) \/ Crash(c)
  BY <1>2, StepOps DEF OpsSteady
<1>3. CASE \E o \in Ops : Expire(o)
  BY <1>3, ExpireOps DEF OpsSteady
<1>4. (\E c \in Calls, q \in Asks : Start(c, q)) \/ (\E i \in Items : HideItem(i)) \/ UNCHANGED vars
         => UNCHANGED ops
  BY DEF Start, HideItem, vars
<1> QED BY <1>1, <1>2, <1>3, <1>4, SplitStep

\* A row keeps its maker, its manifest and the way it is found again.
LEMMA RowsKept ==
  ASSUME IInv, [Next]_vars
  PROVE  /\ \A r \in Rows : r \in Rows' /\ r # None /\ rows'[r] = rows[r] /\ rows[r] \in RowType
         /\ \A r \in Rows \cup {None} : ManifestOf(r)' = ManifestOf(r)
         /\ \A r \in Rows : Kept(r) => Kept(r)'
         /\ \A o \in Ops : HasRow(o) => HasRow(o)'
<1>1. \A r \in Rows : r \in Rows' /\ r # None /\ rows'[r] = rows[r] /\ rows[r] \in RowType
  BY TypeFacts, StepRows DEF IInv
<1>2. \A r \in Rows \cup {None} : ManifestOf(r)' = ManifestOf(r)
  BY <1>1 DEF ManifestOf
<1>3. ASSUME NEW r \in Rows, Kept(r)
      PROVE  Kept(r)'
  <2> DEFINE o == rows[r].maker
  <2>1. o \in Ops /\ rows'[r].maker = o
    BY <1>1 DEF RowType
  <2>2. OpSteady(o)
    BY <2>1, AllSteady
  <2>3. Twin(r) => Twin(r)'
    BY <1>1 DEF Twin
  <2>4. ops[o].state = "succeeded" \/ ops[o].recovery # <<>> \/ Twin(r)
    BY <1>3 DEF Kept
  <2>5. ops'[o].state = "succeeded" \/ ops'[o].recovery # <<>> \/ Twin(r)'
    BY <2>2, <2>3, <2>4 DEF OpSteady
  <2> QED BY <2>1, <2>5 DEF Kept
<1>4. \A o \in Ops : HasRow(o) => HasRow(o)'
  BY <1>1 DEF HasRow
<1> QED BY <1>1, <1>2, <1>3, <1>4

\* The inductive claim for one row, its maker named.
RowOf(r, o) ==
    /\ rows[r].maker = o /\ ops[o].state # "none"
    /\ rows[r].manifest = Append(o.target, ops[o].request.edit)
    /\ o.target # <<>> => ops[o].request.expected = Len(o.target)

LEMMA RowsOf == RowsInv <=> \A r \in Rows : RowOf(r, rows[r].maker)
  BY DEF RowsInv, RowOf, Wanted

LEMMA RowsInvStep ==
  ASSUME IInv, [Next]_vars
  PROVE  RowsInv'
<1>1. ASSUME NEW r \in Rows'
      PROVE  RowOf(r, rows[r].maker)'
  <2>1. CASE r \in Rows
    <3>1. PICK o \in Ops : RowOf(r, o)
      BY <2>1, RowsKept, RowsOf DEF RowType, IInv
    <3>2. rows'[r] = rows[r] /\ rows[r].maker = o
      BY <2>1, <3>1, RowsKept DEF RowOf
    <3>3. ops'[o].state # "none" /\ ops'[o].request = ops[o].request
      BY <3>1, AllSteady DEF OpSteady, RowOf
    <3>4. RowOf(r, o)'
      BY <3>1, <3>2, <3>3 DEF RowOf
    <3> QED BY <3>2, <3>4
  <2>2. CASE r \notin Rows
    <3>1. PICK c \in Calls : Save(c)
      BY <2>2, Writers DEF Rows
    <3>2. /\ rows' = Append(rows, [manifest |-> Goal(c), maker |-> Op(c)]) /\ ops' = ops
          /\ call[c].pc = "save"
      BY <3>1 DEF Save
    <3>3. PICK o \in Ops : o = Op(c)
      BY <3>2, CallFacts
    <3>4. rows'[r].manifest = Goal(c) /\ rows'[r].maker = o
      <4>1. rows \in Seq(RowType) /\ Len(rows) \in Nat
        BY TypeFacts DEF IInv
      <4>2. r = Len(rows) + 1
        BY <2>2, <3>2, <4>1, AppendProperties DEF Rows
      <4> QED BY <3>2, <3>3, <4>1, <4>2, AppendProperties
    <3>5. AskedInv(c) /\ RowInv(c)
      BY DEF IInv, CallsInv
    <3>6. ops[o].state # "none" /\ ops[o].request = call[c].request
      BY <3>2, <3>3, <3>5 DEF AskedInv
    <3>7. o.target # <<>> => call[c].request.expected = Len(o.target)
      BY <3>2, <3>3, <3>5 DEF RowInv, Create
    <3>8. Goal(c) = Append(o.target, ops[o].request.edit)
      BY <3>3, <3>6 DEF Goal
    <3>9. RowOf(r, o)'
      BY <3>2, <3>4, <3>6, <3>7, <3>8 DEF RowOf
    <3> QED BY <3>4, <3>9
  <2> QED BY <2>1, <2>2
<1> QED BY <1>1 DEF RowsInv, RowOf, Wanted

\* The root found or written, as the line.
LEMMA IdentityInvStep ==
  ASSUME IInv, [Next]_vars
  PROVE  IdentityInv'
<1>0. /\ identity \in Identities /\ call \in [Calls -> CallType] /\ Len(items) \in Nat
      /\ identity.root \in Rows \cup {None} /\ identity.current \in Rows \cup {None}
      /\ identity.item \in Items \cup {None}
      /\ identity.root = None <=> identity.current = None
      /\ identity.root # None =>
         /\ Len(ManifestOf(identity.root)) = 1
         /\ Extends(Current, ManifestOf(identity.root))
         /\ Kept(identity.current)
  BY TypeFacts DEF IInv, IdentityInv
<1>1. \A i \in Items \cup {None} : i \in Items' \cup {None}
  <2>1. items' \in Seq(ItemType) /\ Len(items) <= Len(items')
    BY StepItems
  <2> QED BY <1>0, <2>1 DEF Items
<1>2. CASE UNCHANGED <<identity.root, identity.current>>
  <2>1. identity'.item \in Items' \cup {None}
    <3>1. CASE UNCHANGED identity
      BY <1>0, <1>1, <3>1
    <3>2. CASE \E c \in Calls : Bind(c)
      <4>1. PICK c \in Calls : Bind(c)
        BY <3>2
      <4>2. /\ UNCHANGED identity \/ identity' = [identity EXCEPT !.item = call[c].item]
            /\ call[c].pc = "bind"
        BY <4>1 DEF Bind
      <4>3. call[c].item \in Items
        BY <4>2 DEF IInv, CallsInv, RowInv
      <4> QED BY <1>0, <1>1, <4>2, <4>3 DEF Identities
    <3>3. CASE \E c \in Calls : WriteRoot(c) /\ ~UNCHANGED identity
      <4>1. PICK c \in Calls : identity' = [identity EXCEPT !.root = call[c].row, !.current = call[c].row]
        BY <3>3, RootLine
      <4> QED BY <1>0, <1>1, <4>1 DEF Identities
    <3>4. CASE \E c \in Calls : Advance(c) /\ ~UNCHANGED identity
      <4>1. PICK c \in Calls : identity' = [identity EXCEPT !.current = call[c].row,
                             !.item = IF Bound(identity.item) THEN identity.item ELSE None]
        BY <3>4, AdvanceLine
      <4> QED BY <1>0, <1>1, <4>1 DEF Identities
    <3> QED BY <3>1, <3>2, <3>3, <3>4, Writers
  <2>2. Current' = Current /\ ManifestOf(identity.root)' = ManifestOf(identity.root)
    BY <1>0, <1>2, RowsKept DEF Current, ManifestOf
  <2>3. identity.root # None => Kept(identity.current)'
    BY <1>0, <1>2, RowsKept DEF Kept, Twin
  <2> QED BY <1>0, <1>2, <2>1, <2>2, <2>3, RowsKept DEF IdentityInv
<1>3. CASE \E c \in Calls : WriteRoot(c) /\ ~UNCHANGED identity
  <2>1. PICK c \in Calls : WriteRoot(c) /\ ~UNCHANGED identity
    BY <1>3
  <2>2. /\ identity' = [identity EXCEPT !.root = call[c].row, !.current = call[c].row]
        /\ Create(c)
    BY <2>1, RootLine
  <2>3. /\ identity'.root = call[c].row /\ identity'.current = call[c].row
        /\ identity'.item = identity.item
    BY <1>0, <2>2 DEF Identities
  <2>4. /\ call[c].row \in Rows /\ call[c].row # None /\ Kept(call[c].row)
        /\ rows[call[c].row].manifest = Goal(c)
    BY <2>1, AdoptFacts DEF WriteRoot
  <2>5. PICK r \in Rows : r = call[c].row /\ Kept(r)' /\ r \in Rows' /\ rows'[r].manifest = Goal(c)
    BY <2>4, RowsKept
  <2>6. Goal(c) \in Manifests /\ Len(Goal(c)) = 1
    <3>1. call[c].pc # "idle"
      BY <2>1 DEF WriteRoot
    <3>2. /\ Goal(c) \in Manifests /\ Len(Goal(c)) = Len(Op(c).target) + 1
          /\ Op(c).target = <<>>
      BY <2>2, <3>1, CallFacts DEF Create
    <3>3. Len(<<>>) = 0
      OBVIOUS
    <3> QED BY <3>2, <3>3
  <2>7. ManifestOf(identity.root)' = Goal(c) /\ Current' = Goal(c)
    BY <2>3, <2>4, <2>5 DEF ManifestOf, Current
  <2>8. Extends(Current', ManifestOf(identity.root)')
    BY <2>6, <2>7, ExtendsItself
  <2>9. Kept(identity.current)'
    BY <2>3, <2>5
  <2> QED BY <1>0, <1>1, <2>3, <2>4, <2>5, <2>6, <2>7, <2>8, <2>9 DEF IdentityInv
<1>4. CASE \E c \in Calls : Advance(c) /\ ~UNCHANGED identity
  <2>1. PICK c \in Calls : Advance(c) /\ ~UNCHANGED identity
    BY <1>4
  <2>2. /\ identity' = [identity EXCEPT !.current = call[c].row,
                             !.item = IF Bound(identity.item) THEN identity.item ELSE None]
        /\ identity.current \in Rows /\ identity.current # None
    BY <2>1, AdvanceLine
  <2>3. /\ identity'.root = identity.root /\ identity'.current = call[c].row
        /\ identity'.item \in Items \cup {None}
    BY <1>0, <2>2 DEF Identities
  <2>4. call[c].row \in Rows /\ call[c].row # None /\ Kept(call[c].row)
    BY <2>1, AdoptFacts DEF Advance
  <2>5. PICK r \in Rows : r = call[c].row /\ Kept(r)' /\ r \in Rows'
    BY <2>4, RowsKept
  <2>6. ManifestOf(identity.root)' = ManifestOf(identity.root)
    BY <1>0, <2>3, RowsKept DEF ManifestOf
  <2>7. Extends(Current', ManifestOf(identity.root))
    <3>1. Current \in Manifests /\ Current' \in Manifests /\ Extends(Current', Current)
      BY LineKept
    <3>2. ManifestOf(identity.root) \in Manifests /\ Extends(Current, ManifestOf(identity.root))
      BY <1>0, <2>2, TypeFacts DEF IInv
    <3> QED BY <3>1, <3>2, ExtendsThrough
  <2>9. Kept(identity.current)'
    BY <2>3, <2>5
  <2>10. identity.root # None /\ identity.root \in Rows'
    BY <1>0, <2>2, RowsKept
  <2> QED BY <1>0, <1>1, <2>3, <2>4, <2>5, <2>6, <2>7, <2>9, <2>10 DEF IdentityInv
<1> QED BY <1>2, <1>3, <1>4, Writers

-----------------------------------------------------------------------------
(* The invariant of the operations, and their answers.                     *)

\* The inductive claim for one operation, and its answer.
OpOk(o) ==
    /\ ops[o].state # "none" => ops[o].request \in Asks /\ OpOf(ops[o].request) = o
    /\ ops[o].recovery # <<>> =>
         /\ ops[o].state # "none" /\ ops[o].recovery = Append(o.target, ops[o].request.edit)
         /\ HasRow(o)
    /\ ops[o].state = "succeeded" => ops[o].result \in Rows

TookEffect(o) ==
    ops[o].state = "succeeded" =>
        /\ Extends(Current, ManifestOf(ops[o].result))
        /\ o.target # <<>> => ManifestOf(ops[o].result) = Append(o.target, ops[o].request.edit)
        /\ o.target = <<>> => Extends(ManifestOf(ops[o].result), Append(o.target, ops[o].request.edit))

LEMMA OpsOf ==
  ASSUME IInv
  PROVE  \A o \in Ops : OpOk(o) /\ TookEffect(o)
  BY DEF IInv, OpsInv, SuccessTookEffect, OpOk, TookEffect, Wanted

SameOp(o) ==
    /\ ops'[o].state = ops[o].state /\ ops'[o].request = ops[o].request
    /\ ops'[o].recovery = ops[o].recovery /\ ops'[o].result = ops[o].result

LEMMA OpKept ==
  ASSUME IInv, [Next]_vars, NEW o \in Ops, SameOp(o)
  PROVE  OpOk(o)' /\ TookEffect(o)'
<1>1. OpOk(o) /\ TookEffect(o) /\ (HasRow(o) => HasRow(o)')
  BY OpsOf, RowsKept
<1>2. OpOk(o)'
  BY <1>1, RowsKept DEF OpOk, SameOp
<1>3. CASE ops[o].state # "succeeded"
  BY <1>2, <1>3 DEF TookEffect, SameOp
<1>4. CASE ops[o].state = "succeeded"
  <2>1. PICK r \in Rows : r = ops[o].result
    BY <1>1, <1>4 DEF OpOk
  <2>2. ManifestOf(r)' = ManifestOf(r) /\ ops'[o].result = r
    BY <2>1, RowsKept DEF SameOp
  <2>3. Extends(Current', ManifestOf(r))
    <3>1. Extends(Current, ManifestOf(r)) /\ ManifestOf(r) \in Manifests
      BY <1>1, <1>4, <2>1, TypeFacts DEF TookEffect, IInv
    <3> QED BY <3>1, LineKept, ExtendsThrough
  <2>4. ManifestOf(ops[o].result)' = ManifestOf(r)
    BY <2>2
  <2> QED BY <1>1, <1>2, <1>4, <2>1, <2>3, <2>4 DEF TookEffect, SameOp
<1> QED BY <1>2, <1>3, <1>4

\* What the acting call writes to its operation is right.
LEMMA OwnOp ==
  ASSUME IInv, [Next]_vars, NEW c \in Calls, Step(c) \/ Fault(c) \/ Crash(c)
  PROVE  \A o \in Ops : SameOp(o) \/ (OpOk(o)' /\ TookEffect(o)')
<1>0. /\ ops \in [Ops -> OpType] /\ Op(c) \in Ops
      /\ call[c] \in CallType /\ call[c].request \in Asks /\ Op(c) = OpOf(call[c].request)
      /\ Goal(c) = Append(Op(c).target, call[c].request.edit) /\ Goal(c) \in Manifests
  BY TypeFacts, StepFacts, CallFacts DEF IInv
<1>1. PICK o \in Ops : o = Op(c)
  BY <1>0
<1>2. /\ OpOk(o) /\ TookEffect(o)
      /\ call[c].pc \notin {"idle", "claim"} =>
           ops[o].state # "none" /\ ops[o].request = call[c].request
      /\ Claimed(c) /\ Holds(c) => ops[o].recovery = call[c].rec
      /\ HasRow(o) => HasRow(o)'
  BY <1>1, OpsOf, RowsKept DEF IInv, CallsInv, AskedInv, NoteInv
<1>3. ASSUME NEW x \in OpType, ops' = [ops EXCEPT ![o] = x],
             x.state \in {"pending", "failed"} /\ x.request = call[c].request,
             x.recovery # <<>> => x.recovery = Goal(c) /\ HasRow(o)
      PROVE  \A p \in Ops : SameOp(p) \/ (OpOk(p)' /\ TookEffect(p)')
  <2>1. ops'[o] = x
    BY <1>0, <1>3
  <2>2. OpOk(o)' /\ TookEffect(o)'
    BY <1>0, <1>1, <1>2, <1>3, <2>1 DEF OpOk, TookEffect
  <2>3. ASSUME NEW p \in Ops, p # o PROVE SameOp(p)
    BY <1>0, <1>3, <2>3 DEF SameOp
  <2> QED BY <2>2, <2>3
<1>4. CASE UNCHANGED ops
  BY <1>4 DEF SameOp
<1>5. CASE /\ Take(c) /\ ops[Op(c)].state # "succeeded" /\ call[c].pc \in {"claim", "wait"}
           /\ \/ ops[Op(c)].state = "none"
              \/ ops[Op(c)].request = call[c].request
              \/ call[c].pc = "wait"
  <2> DEFINE x == [ops[o] EXCEPT !.state = "pending", !.request = call[c].request,
                                 !.holder = c, !.expired = FALSE]
  <2>1. x \in OpType /\ ops' = [ops EXCEPT ![o] = x]
    BY <1>0, <1>1, <1>5 DEF Take, OpType
  <2>2. /\ x.state = "pending" /\ x.request = call[c].request /\ x.recovery = ops[o].recovery
    BY <1>0 DEF OpType
  <2>3. ops[o].recovery # <<>> => ops[o].recovery = Goal(c) /\ HasRow(o)
    BY <1>0, <1>1, <1>2, <1>5 DEF OpOk
  <2> HIDE DEF x
  <2> QED BY <1>3, <2>1, <2>2, <2>3
<1>6. CASE Draw(c)
  <2>1. UNCHANGED ops \/ ops' = [ops EXCEPT ![o].expired = FALSE]
    BY <1>1, <1>6 DEF Draw
  <2> QED BY <1>0, <2>1 DEF SameOp, OpType
<1>7. CASE Note(c)
  <2> DEFINE x == [ops[o] EXCEPT !.recovery = Goal(c), !.expired = FALSE]
  <2>1. UNCHANGED ops \/ (Holds(c) /\ ops' = [ops EXCEPT ![o] = x])
    BY <1>1, <1>7 DEF Note
  <2>2. x \in OpType /\ x.state = ops[o].state /\ x.request = ops[o].request
        /\ x.recovery = Goal(c)
    BY <1>0 DEF OpType
  <2>3. call[c].row \in Rows /\ rows[call[c].row].maker = o /\ ops[o].request = call[c].request
    BY <1>1, <1>2, <1>7 DEF Note, IInv, CallsInv, RowInv
  <2>4. Holds(c) => ops[o].state = "pending"
    BY <1>1 DEF Holds
  <2>5. HasRow(o)
    BY <2>3 DEF HasRow
  <2> HIDE DEF x
  <2> QED BY <1>3, <1>4, <2>1, <2>2, <2>3, <2>4, <2>5
<1>8. CASE Fail(c)
  <2> DEFINE x == [ops[o] EXCEPT !.state = "failed", !.holder = Nobody, !.expired = FALSE,
                                 !.recovery = Left(c)]
  <2>1. UNCHANGED ops \/ (Holds(c) /\ ops' = [ops EXCEPT ![o] = x])
    BY <1>1, <1>8 DEF Fail
  <2>a. ops[o] \in OpType /\ call[c].rec \in Manifests /\ Left(c) = call[c].rec
    BY <1>0 DEF CallType, Left
  <2>2. x \in OpType /\ x.state = "failed" /\ x.request = ops[o].request
        /\ x.recovery = call[c].rec
    BY <2>a DEF OpType
  <2>3. /\ ops[o].request = call[c].request
        /\ Holds(c) => ops[o].recovery = call[c].rec
    BY <1>2, <1>8 DEF Fail, Claimed
  <2>4. ops[o].recovery # <<>> => ops[o].recovery = Goal(c) /\ HasRow(o)
    BY <1>0, <1>1, <1>2, <2>3 DEF OpOk
  <2> HIDE DEF x
  <2> QED BY <1>3, <1>4, <2>1, <2>2, <2>3, <2>4
<1>9. CASE Succeed(c)
  <2> DEFINE x == [ops[o] EXCEPT !.state = "succeeded", !.result = call[c].row,
                                 !.holder = Nobody, !.expired = FALSE, !.recovery = <<>>]
  <2>1. UNCHANGED ops \/ (Holds(c) /\ ops' = [ops EXCEPT ![o] = x])
    BY <1>1, <1>9 DEF Succeed
  <2>2. /\ x.state = "succeeded" /\ x.request = ops[o].request /\ x.result = call[c].row
        /\ x.recovery = <<>>
    BY <1>0 DEF OpType
  <2>3. ops[o].request = call[c].request /\ Answer(c) /\ call[c].pc = "resolve"
    BY <1>2, <1>9 DEF Succeed, IInv, CallsInv, RowInv
  <2>4. PICK r \in Rows : r = call[c].row
    BY <2>3 DEF Answer
  <2>5. /\ Extends(Current, ManifestOf(r))
        /\ o.target # <<>> => ManifestOf(r) = Goal(c)
        /\ o.target = <<>> => Extends(ManifestOf(r), Goal(c))
    BY <1>1, <2>3, <2>4 DEF Answer, Create
  <2>6. Extends(Current', ManifestOf(r))
    <3>1. ManifestOf(r) \in Manifests
      BY TypeFacts DEF IInv
    <3> QED BY <2>5, <3>1, LineKept, ExtendsThrough
  <2>7. ManifestOf(r)' = ManifestOf(r) /\ r \in Rows'
    BY RowsKept
  <2>8. CASE ops' = [ops EXCEPT ![o] = x]
    <3>1. ops'[o] = x
      BY <1>0, <2>8
    <3>2. ops'[o].result = r /\ ops'[o].request = call[c].request /\ ops'[o].recovery = <<>>
      BY <2>2, <2>3, <2>4, <3>1
    <3> HIDE DEF x
    <3>3. ManifestOf(ops[o].result)' = ManifestOf(r)
      BY <2>7, <3>2
    <3>4. OpOk(o)'
      BY <1>0, <1>1, <2>7, <3>2 DEF OpOk
    <3>5. TookEffect(o)'
      BY <1>0, <1>1, <2>5, <2>6, <3>2, <3>3 DEF TookEffect
    <3>6. ASSUME NEW p \in Ops, p # o PROVE SameOp(p)
      BY <1>0, <2>8, <3>6 DEF SameOp
    <3> QED BY <3>4, <3>5, <3>6
  <2> QED BY <1>4, <2>1, <2>8
<1>10. CASE Crash(c)
  <2>1. ASSUME NEW p \in Ops PROVE SameOp(p)
    BY <1>0, <1>10 DEF Crash, OpType, SameOp
  <2> QED BY <2>1
<1> QED BY <1>4, <1>5, <1>6, <1>7, <1>8, <1>9, <1>10, OpsWriters

LEMMA OpsInvStep ==
  ASSUME IInv, [Next]_vars
  PROVE  OpsInv' /\ SuccessTookEffect'
<1>1. ASSUME NEW o \in Ops PROVE OpOk(o)' /\ TookEffect(o)'
  <2>1. CASE \E c \in Calls : Step(c) \/ Fault(c) \/ Crash(c)
    BY <2>1, OwnOp, OpKept
  <2>2. CASE \E p \in Ops : Expire(p)
    <3>1. ops \in [Ops -> OpType]
      BY TypeFacts DEF IInv
    <3>2. SameOp(o)
      BY <2>2, <3>1 DEF Expire, SameOp, OpType
    <3> QED BY <3>2, OpKept
  <2>3. CASE (\E c \in Calls, q \in Asks : Start(c, q)) \/ (\E i \in Items : HideItem(i)) \/ UNCHANGED vars
    <3>1. SameOp(o)
      BY <2>3 DEF Start, HideItem, vars, SameOp
    <3> QED BY <3>1, OpKept
  <2> QED BY <2>1, <2>2, <2>3, SplitStep
<1> QED BY <1>1 DEF OpsInv, SuccessTookEffect, OpOk, TookEffect, Wanted

-----------------------------------------------------------------------------
(* The invariant of the calls.                                             *)

CallOk(c) == RequestInv(c) /\ AskedInv(c) /\ NoteInv(c) /\ RowInv(c)

\* The call goes on with the request it was made with.
SameCall(c) ==
    /\ call'[c].op = call[c].op /\ call'[c].request = call[c].request
    /\ call'[c].base = call[c].base

LEMMA RequestKept ==
  ASSUME IInv, [Next]_vars, NEW c \in Calls, call[c].pc # "idle", SameCall(c)
  PROVE  /\ RequestInv(c)' /\ Op(c)' = Op(c) /\ Goal(c)' = Goal(c)
         /\ Create(c)' = Create(c)
<1>1. Op(c)' = Op(c) /\ Goal(c)' = Goal(c) /\ Create(c)' = Create(c)
  BY DEF SameCall, Op, Goal, Create
<1>2. /\ call[c].request \in Asks /\ Op(c) = OpOf(call[c].request)
      /\ ~Create(c) => call[c].base \in Rows /\ ManifestOf(call[c].base) = Op(c).target
  BY DEF IInv, CallsInv, RequestInv
<1>3. ~Create(c) => /\ call[c].base \in Rows' /\ ManifestOf(call[c].base)' = Op(c).target
  <2>1. CASE ~Create(c)
    <3>1. PICK b \in Rows : b = call[c].base
      BY <1>2, <2>1
    <3>2. b \in Rows' /\ ManifestOf(b)' = ManifestOf(b) /\ call'[c].base = b
      BY <3>1, RowsKept DEF SameCall
    <3> QED BY <1>2, <2>1, <3>1, <3>2
  <2> QED BY <2>1
<1> QED BY <1>1, <1>2, <1>3 DEF RequestInv, SameCall, OpOf

LEMMA AskedKept ==
  ASSUME IInv, [Next]_vars, NEW c \in Calls, call[c].pc \notin {"idle", "claim"}, SameCall(c)
  PROVE  AskedInv(c)'
<1>1. Op(c) \in Ops /\ Op(c)' = Op(c) /\ call'[c].request = call[c].request
  BY CallFacts, RequestKept DEF SameCall
<1>2. ops[Op(c)].state # "none" /\ ops[Op(c)].request = call[c].request
  BY DEF IInv, CallsInv, AskedInv
<1>3. OpSteady(Op(c))
  BY <1>1, AllSteady
<1>4. ops'[Op(c)].state # "none" /\ ops'[Op(c)].request = call'[c].request
  BY <1>1, <1>2, <1>3 DEF OpSteady
<1> QED BY <1>1, <1>4 DEF AskedInv

LEMMA NoteKept ==
  ASSUME IInv, [Next]_vars, NEW c \in Calls, Claimed(c), SameCall(c), call'[c].rec = call[c].rec,
         ClaimSteady(Op(c), c)
  PROVE  NoteInv(c)'
<1>1. /\ Op(c) \in Ops /\ Op(c)' = Op(c) /\ Goal(c)' = Goal(c)
      /\ HasRow(Op(c)) => HasRow(Op(c))' /\ OpSteady(Op(c))
  <2>1. call[c].pc # "idle"
    BY DEF Claimed
  <2>2. PICK o \in Ops : o = Op(c)
    BY <2>1, CallFacts
  <2>3. (HasRow(o) => HasRow(o)') /\ OpSteady(o) /\ Op(c)' = o
    BY <2>1, <2>2, RowsKept, AllSteady, RequestKept
  <2>4. HasRow(Op(c))' <=> HasRow(o)'
    BY <2>3
  <2> QED BY <2>1, <2>2, <2>3, <2>4, RequestKept
<1>2. /\ call[c].rec # <<>> =>
            /\ call[c].rec = Goal(c) /\ HasRow(Op(c))
            /\ ops[Op(c)].state = "succeeded" \/ ops[Op(c)].recovery # <<>>
      /\ Holds(c) => ops[Op(c)].recovery = call[c].rec
  BY DEF IInv, CallsInv, NoteInv
<1>3. Holds(c)' => Holds(c) /\ ops'[Op(c)].recovery = ops[Op(c)].recovery
  BY <1>1 DEF Holds, ClaimSteady
<1>4. call[c].rec # <<>> => ops'[Op(c)].state = "succeeded" \/ ops'[Op(c)].recovery # <<>>
  BY <1>1, <1>2 DEF OpSteady
<1> QED BY <1>1, <1>2, <1>3, <1>4 DEF NoteInv

\* An answer that a call has found stays one.
LEMMA AnswerKept ==
  ASSUME IInv, [Next]_vars, NEW c \in Calls, call[c].pc # "idle", Answer(c), SameCall(c),
         call'[c].row = call[c].row
  PROVE  Answer(c)'
<1>1. PICK r \in Rows : r = call[c].row
  BY DEF Answer
<1>2. /\ identity.current # None /\ Extends(Current, ManifestOf(r))
      /\ IF Create(c) THEN Extends(ManifestOf(r), Goal(c)) ELSE ManifestOf(r) = Goal(c)
  BY <1>1 DEF Answer
<1>3. ManifestOf(r)' = ManifestOf(r) /\ r \in Rows' /\ ManifestOf(r) \in Manifests
  BY RowsKept, TypeFacts DEF IInv
<1>4. identity'.current # None /\ Extends(Current', ManifestOf(r))
  BY <1>2, <1>3, StepLine, LineKept, ExtendsThrough
<1>5. Create(c)' = Create(c) /\ Goal(c)' = Goal(c)
  BY RequestKept
<1>6. call'[c].row = r /\ ManifestOf(call[c].row)' = ManifestOf(r)
  BY <1>1, <1>3
<1> QED BY <1>2, <1>3, <1>4, <1>5, <1>6 DEF Answer

\* A call that stands still stays right while its claim is not touched.
LEMMA CallStays ==
  ASSUME IInv, [Next]_vars, NEW c \in Calls, call'[c] = call[c],
         call[c].pc # "idle" => ClaimSteady(Op(c), c)
  PROVE  CallOk(c)'
<1>0. CASE call[c].pc = "idle"
  <2>1. call'[c].pc = "idle"
    BY <1>0
  <2> QED BY <2>1 DEF CallOk, RequestInv, AskedInv, NoteInv, RowInv, Claimed
<1>1. CASE call[c].pc # "idle"
  <2>1. SameCall(c) /\ call'[c].row = call[c].row /\ call'[c].pc = call[c].pc
    BY DEF SameCall
  <2>2. RequestInv(c)' /\ Op(c)' = Op(c) /\ Goal(c)' = Goal(c) /\ Create(c)' = Create(c)
    BY <1>1, <2>1, RequestKept
  <2>3. AskedInv(c)'
    <3>1. CASE call[c].pc = "claim"
      BY <2>1, <3>1 DEF AskedInv
    <3> QED BY <1>1, <2>1, <3>1, AskedKept
  <2>4. NoteInv(c)'
    <3>1. CASE Claimed(c)
      BY <1>1, <2>1, <3>1, NoteKept
    <3>2. CASE ~Claimed(c)
      BY <2>1, <3>2 DEF Claimed, NoteInv
    <3> QED BY <3>1, <3>2
  <2>5. RowInv(c)
    BY DEF IInv, CallsInv
  <2>6. call[c].pc \in {"draw", "save", "note", "adopt"} /\ ~Create(c)
          => call'[c].request.expected = Len(Op(c)'.target)
    BY <2>1, <2>2, <2>5 DEF RowInv, SameCall
  <2>7. call[c].pc \in {"note", "adopt"} =>
           /\ call[c].row \in Rows' /\ ManifestOf(call[c].row)' = Goal(c)
           /\ call[c].pc = "note" => rows'[call[c].row].maker = Op(c)
           /\ call[c].pc = "adopt" => Kept(call[c].row)'
    <3>1. CASE call[c].pc \in {"note", "adopt"}
      <4>1. PICK r \in Rows : r = call[c].row
        BY <2>5, <3>1 DEF RowInv
      <4>2. /\ r \in Rows' /\ ManifestOf(r)' = ManifestOf(r) /\ rows'[r] = rows[r]
            /\ Kept(r) => Kept(r)'
            /\ call'[c].row = r
        BY <2>1, <4>1, RowsKept
      <4>3. ManifestOf(call[c].row)' = ManifestOf(r)
        BY <4>2
      <4>4. Kept(r)' => Kept(call[c].row)'
        BY <4>2
      <4> QED BY <2>5, <3>1, <4>1, <4>2, <4>3, <4>4 DEF RowInv
    <3> QED BY <3>1
  <2>8. call[c].pc \in {"place", "add", "bind", "resolve"} => Answer(c)'
    BY <1>1, <2>1, <2>5, AnswerKept DEF RowInv
  <2>9. call[c].pc = "bind" => call[c].item \in Items'
    BY <2>5, StepItems, TypeFacts DEF RowInv, Items, IInv
  <2>10. RowInv(c)'
    BY <2>1, <2>2, <2>6, <2>7, <2>8, <2>9 DEF RowInv
  <2> QED BY <2>2, <2>3, <2>4, <2>10 DEF CallOk
<1> QED BY <1>0, <1>1

LEMMA ReturnOk ==
  ASSUME IInv, NEW c \in Calls, call' = [call EXCEPT ![c] = Idle]
  PROVE  CallOk(c)'
<1>1. call'[c].pc = "idle"
  BY TypeFacts DEF IInv, Idle
<1> QED BY <1>1 DEF CallOk, RequestInv, AskedInv, NoteInv, RowInv, Claimed

\* A call at work that keeps its note and its claim is right if its row is.
LEMMA WorkOk ==
  ASSUME IInv, [Next]_vars, NEW c \in Calls, Claimed(c), SameCall(c), call'[c].rec = call[c].rec,
         ClaimSteady(Op(c), c), RowInv(c)'
  PROVE  CallOk(c)'
<1>1. call[c].pc \notin {"idle", "claim"}
  BY DEF Claimed
<1> QED BY <1>1, RequestKept, AskedKept, NoteKept DEF CallOk

LEMMA GoFacts ==
  ASSUME IInv, NEW c \in Calls
  PROVE  /\ \A p \in Phases : Go(c, p) =>
              /\ SameCall(c) /\ call'[c].rec = call[c].rec /\ call'[c].row = call[c].row
              /\ call'[c].item = call[c].item /\ call'[c].pc = p
         /\ \A p \in Phases, r \in Nat : GoWith(c, p, r) =>
              /\ SameCall(c) /\ call'[c].rec = call[c].rec /\ call'[c].row = r
              /\ call'[c].pc = p
         /\ UNCHANGED ops => \A o \in Ops : ClaimSteady(o, c)
<1>1. call \in [Calls -> CallType]
  BY TypeFacts DEF IInv
<1>2. \A p \in Phases : Go(c, p) =>
        /\ SameCall(c) /\ call'[c].rec = call[c].rec /\ call'[c].row = call[c].row
        /\ call'[c].item = call[c].item /\ call'[c].pc = p
  BY <1>1 DEF Go, SameCall, CallType
<1>3. \A p \in Phases, r \in Nat : GoWith(c, p, r) =>
        /\ SameCall(c) /\ call'[c].rec = call[c].rec /\ call'[c].row = r
        /\ call'[c].pc = p
  BY <1>1 DEF GoWith, SameCall, CallType
<1>4. UNCHANGED ops => \A o \in Ops : ClaimSteady(o, c)
  BY DEF ClaimSteady
<1> QED BY <1>2, <1>3, <1>4

\* On the way to its failure a call claims nothing about its row.
LEMMA FailOk ==
  ASSUME IInv, [Next]_vars, NEW c \in Calls, Claimed(c), Go(c, "fail"), UNCHANGED ops
  PROVE  CallOk(c)'
<1>1. "fail" \in Phases
  BY DEF Phases
<1>2. SameCall(c) /\ call'[c].rec = call[c].rec /\ call'[c].pc = "fail"
  BY <1>1, GoFacts
<1>3. ClaimSteady(Op(c), c)
  BY GoFacts, CallFacts DEF Claimed
<1>4. RowInv(c)'
  BY <1>2 DEF RowInv
<1> QED BY <1>2, <1>3, <1>4, WorkOk

LEMMA TakeOk ==
  ASSUME IInv, [Next]_vars, NEW c \in Calls, Take(c), call[c].pc \in {"claim", "wait"},
         \/ ops[Op(c)].state = "none"
         \/ ops[Op(c)].request = call[c].request
         \/ call[c].pc = "wait"
  PROVE  CallOk(c)'
<1>0. /\ ops \in [Ops -> OpType] /\ call \in [Calls -> CallType]
      /\ Goal(c) = Append(Op(c).target, call[c].request.edit)
  BY TypeFacts, CallFacts DEF IInv
<1>1. PICK o \in Ops : o = Op(c)
  BY CallFacts
<1>2. /\ ops' = [ops EXCEPT ![o] = [@ EXCEPT !.state = "pending", !.request = call[c].request,
                                              !.holder = c, !.expired = FALSE]]
      /\ call' = [call EXCEPT ![c] = [@ EXCEPT !.pc = "begin", !.rec = ops[o].recovery]]
  BY <1>1 DEF Take
<1>3. /\ ops'[o].state = "pending" /\ ops'[o].request = call[c].request
      /\ ops'[o].recovery = ops[o].recovery
  BY <1>0, <1>2 DEF OpType
<1>4. /\ SameCall(c) /\ call'[c].pc = "begin" /\ call'[c].rec = ops[o].recovery
      /\ call'[c].request = call[c].request
  BY <1>0, <1>2 DEF CallType, SameCall
<1>5. RequestInv(c)' /\ Op(c)' = o /\ Goal(c)' = Goal(c)
  BY <1>1, <1>4, RequestKept
<1>6. AskedInv(c)'
  BY <1>3, <1>4, <1>5 DEF AskedInv
<1>7. /\ OpOk(o) /\ (HasRow(o) => HasRow(o)')
      /\ call[c].pc = "wait" => ops[o].request = call[c].request
  BY <1>1, OpsOf, RowsKept DEF IInv, CallsInv, AskedInv
<1>8. ops[o].recovery # <<>> => ops[o].recovery = Goal(c) /\ HasRow(o)
  BY <1>0, <1>1, <1>7 DEF OpOk
<1>9. HasRow(o)' => HasRow(Op(c))'
  BY <1>5
<1>10. NoteInv(c)'
  BY <1>3, <1>4, <1>5, <1>7, <1>8, <1>9 DEF NoteInv
<1>11. RowInv(c)'
  BY <1>4 DEF RowInv
<1> QED BY <1>5, <1>6, <1>10, <1>11 DEF CallOk

\* The row that a note leads to is found again too.
LEMMA PrepareOk ==
  ASSUME IInv, [Next]_vars, NEW c \in Calls, call[c].pc = "begin", Prepare(c), UNCHANGED ops,
         ~Create(c) => call[c].request.expected = Len(Op(c).target)
  PROVE  CallOk(c)'
<1>0. /\ Claimed(c) /\ "draw" \in Phases /\ "adopt" \in Phases /\ ClaimSteady(Op(c), c)
      /\ Op(c) \in Ops
  BY GoFacts, CallFacts DEF Claimed, Phases
<1>1. CASE Go(c, "draw")
  <2>1. SameCall(c) /\ call'[c].rec = call[c].rec /\ call'[c].pc = "draw"
    BY <1>0, <1>1, GoFacts
  <2>2. RowInv(c)'
    BY <2>1, RequestKept DEF RowInv, SameCall
  <2> QED BY <1>0, <2>1, <2>2, WorkOk
<1>2. CASE \E r \in WithManifest(call[c].rec) : GoWith(c, "adopt", r)
  <2>1. PICK r \in Rows : rows[r].manifest = call[c].rec /\ GoWith(c, "adopt", r)
    BY <1>2 DEF WithManifest
  <2>2. SameCall(c) /\ call'[c].rec = call[c].rec /\ call'[c].row = r /\ call'[c].pc = "adopt"
    BY <1>0, <2>1, GoFacts, TypeFacts DEF IInv
  <2>3. call[c].rec # <<>>
    <3>1. PICK o \in Ops : RowOf(r, o)
      BY RowsOf, RowsKept DEF IInv, RowType
    <3>2. o.target \in Manifests /\ ops[o].request.edit \in Edits
      BY <3>1, Operations, Asking, OpsOf DEF RowOf, OpOk
    <3> QED BY <2>1, <3>1, <3>2, ExtendsByOne DEF RowOf
  <2>4. /\ call[c].rec = Goal(c) /\ HasRow(Op(c))
        /\ ops[Op(c)].state = "succeeded" \/ ops[Op(c)].recovery # <<>>
        /\ ops[Op(c)].request = call[c].request
    BY <1>0, <2>3 DEF IInv, CallsInv, NoteInv, AskedInv, Claimed
  <2>5. Kept(r)
    <3>1. PICK s \in Rows : rows[s].maker = Op(c)
      BY <2>4 DEF HasRow
    <3>2. rows[s].manifest = Goal(c)
      BY <2>4, <3>1 DEF IInv, RowsInv, Wanted, Goal
    <3>3. CASE s = r
      BY <2>4, <3>1, <3>3 DEF Kept
    <3>4. CASE s # r
      BY <2>1, <2>4, <3>2, <3>4 DEF Kept, Twin
    <3> QED BY <3>3, <3>4
  <2>6. Kept(r)' /\ r \in Rows' /\ ManifestOf(r)' = Goal(c)
    BY <2>1, <2>4, <2>5, RowsKept DEF ManifestOf
  <2>7. (Kept(r)' => Kept(call[c].row)') /\ ManifestOf(call[c].row)' = ManifestOf(r)'
    BY <2>2
  <2>8. Op(c)' = Op(c) /\ Goal(c)' = Goal(c) /\ Create(c)' = Create(c)
    BY <2>2, RequestKept
  <2>9. RowInv(c)'
    BY <2>2, <2>6, <2>7, <2>8 DEF RowInv, SameCall
  <2> QED BY <1>0, <2>2, <2>9, WorkOk
<1> QED BY <1>1, <1>2 DEF Prepare

\* To answer with row r, which is in the line and was asked for.
LEMMA AnswerOk ==
  ASSUME IInv, [Next]_vars, NEW c \in Calls, Claimed(c), SameCall(c), call'[c].rec = call[c].rec,
         UNCHANGED ops, call'[c].pc \in {"place", "resolve"},
         NEW r \in Rows, call'[c].row = r,
         identity'.current # None, Extends(Current', ManifestOf(r)),
         IF Create(c) THEN Extends(ManifestOf(r), Goal(c)) ELSE ManifestOf(r) = Goal(c)
  PROVE  CallOk(c)'
<1>1. ClaimSteady(Op(c), c) /\ Create(c)' = Create(c) /\ Goal(c)' = Goal(c)
  BY GoFacts, CallFacts, RequestKept DEF Claimed
<1>2. ManifestOf(r)' = ManifestOf(r) /\ r \in Rows'
  BY RowsKept
<1>3. ManifestOf(call[c].row)' = ManifestOf(r)
  BY <1>2
<1>4. Answer(c)'
  BY <1>1, <1>2, <1>3 DEF Answer
<1>5. RowInv(c)'
  BY <1>4 DEF RowInv
<1> QED BY <1>1, <1>5, WorkOk

LEMMA BeginCreateOk ==
  ASSUME IInv, [Next]_vars, NEW c \in Calls, BeginCreate(c)
  PROVE  CallOk(c)'
<1>0. /\ call[c].pc = "begin" /\ Create(c) /\ Claimed(c) /\ UNCHANGED ops
      /\ UNCHANGED <<rows, identity>>
  BY DEF BeginCreate, Claimed, tables
<1>1. CASE Prepare(c)
  BY <1>0, <1>1, PrepareOk
<1>2. CASE Refuse(c)
  BY <1>0, <1>2, FailOk DEF Refuse
<1>3. CASE /\ identity.root # None /\ ManifestOf(identity.root) = Goal(c)
           /\ call' = [call EXCEPT ![c] = [@ EXCEPT !.pc = AfterRoot(c), !.snap = identity,
                                                  !.row = identity.current]]
  <2>1. /\ SameCall(c) /\ call'[c].rec = call[c].rec /\ call'[c].row = identity.current
        /\ call'[c].pc \in {"place", "resolve"}
    BY <1>3, TypeFacts DEF IInv, CallType, SameCall, AfterRoot
  <2>2. PICK r \in Rows : r = identity.current
    BY <1>3 DEF IInv, IdentityInv
  <2>3. ManifestOf(r) = Current /\ Current' = Current /\ r # None /\ Current \in Manifests
    BY <1>0, <2>2, LineKept, RowsKept DEF Current, ManifestOf
  <2>4. Extends(Current', ManifestOf(r)) /\ Extends(ManifestOf(r), Goal(c))
    BY <1>3, <2>3, ExtendsItself DEF IInv, IdentityInv
  <2> QED BY <1>0, <2>1, <2>2, <2>3, <2>4, AnswerOk
<1> QED BY <1>1, <1>2, <1>3 DEF BeginCreate

LEMMA BeginRevisionOk ==
  ASSUME IInv, [Next]_vars, NEW c \in Calls, BeginRevision(c)
  PROVE  CallOk(c)'
<1>0. /\ call[c].pc = "begin" /\ ~Create(c) /\ Claimed(c) /\ UNCHANGED ops
      /\ UNCHANGED <<rows, identity>>
  BY DEF BeginRevision, Claimed, tables
<1>1. CASE call[c].request.expected = Len(Op(c).target) /\ Prepare(c)
  BY <1>0, <1>1, PrepareOk
<1>2. CASE Refuse(c)
  BY <1>0, <1>2, FailOk DEF Refuse
<1>3. CASE IsOwn(c) /\ GoWith(c, "resolve", identity.current)
  <2>1. PICK r \in Rows : r = identity.current
    BY <1>3 DEF IInv, IdentityInv, IsOwn
  <2>2. SameCall(c) /\ call'[c].rec = call[c].rec /\ call'[c].row = r /\ call'[c].pc = "resolve"
    <3>1. "resolve" \in Phases /\ r \in Nat
      BY TypeFacts DEF Phases, IInv
    <3> QED BY <1>3, <2>1, <3>1, GoFacts
  <2>3. ManifestOf(r) = Current /\ Current' = Current /\ r # None /\ Current \in Manifests
    BY <1>0, <2>1, LineKept, RowsKept DEF Current, ManifestOf
  <2>4. call[c].rec = Current /\ Len(call[c].rec) = call[c].request.expected + 1
    BY <1>3 DEF IsOwn, Current
  <2>5. Current # <<>>
    <3>1. /\ Len(ManifestOf(identity.root)) = 1 /\ Extends(Current, ManifestOf(identity.root))
      BY <2>1, <2>3 DEF IInv, IdentityInv
    <3> QED BY <3>1 DEF Extends
  <2>6. Current = Goal(c)
    BY <1>0, <2>4, <2>5 DEF IInv, CallsInv, NoteInv
  <2> QED BY <1>0, <2>1, <2>2, <2>3, <2>6, ExtendsItself, AnswerOk
<1> QED BY <1>1, <1>2, <1>3 DEF BeginRevision

LEMMA DrawOk ==
  ASSUME IInv, [Next]_vars, NEW c \in Calls, Draw(c)
  PROVE  CallOk(c)'
<1>0. call[c].pc = "draw" /\ Claimed(c) /\ "save" \in Phases /\ Op(c) \in Ops
  BY CallFacts DEF Draw, Claimed, Phases
<1>1. CASE Go(c, "fail") /\ UNCHANGED ops
  BY <1>0, <1>1, FailOk
<1>2. CASE Go(c, "save")
  <2>1. SameCall(c) /\ call'[c].rec = call[c].rec /\ call'[c].pc = "save"
    BY <1>0, <1>2, GoFacts
  <2>2. ClaimSteady(Op(c), c)
    <3>1. UNCHANGED ops \/ ops' = [ops EXCEPT ![Op(c)].expired = FALSE]
      BY DEF Draw
    <3> QED BY <1>0, <3>1, TypeFacts DEF ClaimSteady, OpType, IInv
  <2>3. RowInv(c)
    BY DEF IInv, CallsInv
  <2>4. RowInv(c)'
    BY <1>0, <2>1, <2>3, RequestKept DEF RowInv, SameCall
  <2> QED BY <1>0, <2>1, <2>2, <2>4, WorkOk
<1> QED BY <1>1, <1>2 DEF Draw

LEMMA SaveOk ==
  ASSUME IInv, [Next]_vars, NEW c \in Calls, Save(c)
  PROVE  CallOk(c)'
<1>0. /\ call[c].pc = "save" /\ Claimed(c) /\ "note" \in Phases /\ UNCHANGED ops
      /\ rows' = Append(rows, [manifest |-> Goal(c), maker |-> Op(c)])
      /\ GoWith(c, "note", Len(rows) + 1)
  BY DEF Save, Claimed, Phases
<1>1. rows \in Seq(RowType) /\ Len(rows) + 1 \in Nat /\ Len(rows) + 1 # None
  BY TypeFacts DEF IInv, None
<1>2. SameCall(c) /\ call'[c].rec = call[c].rec /\ call'[c].pc = "note" /\ call'[c].row = Len(rows) + 1
  BY <1>0, <1>1, GoFacts
<1>3. /\ Len(rows) + 1 \in Rows'
      /\ rows'[Len(rows) + 1] = [manifest |-> Goal(c), maker |-> Op(c)]
  BY <1>0, <1>1, AppendProperties DEF Rows
<1>4. /\ call'[c].row \in Rows' /\ ManifestOf(call[c].row)' = Goal(c)
      /\ rows'[call'[c].row].maker = Op(c)
  BY <1>1, <1>2, <1>3 DEF ManifestOf
<1>5. Op(c)' = Op(c) /\ Goal(c)' = Goal(c) /\ Create(c)' = Create(c)
  BY <1>0, <1>2, RequestKept
<1>6. RowInv(c)
  BY DEF IInv, CallsInv
<1>7. RowInv(c)'
  BY <1>0, <1>2, <1>4, <1>5, <1>6 DEF RowInv, SameCall
<1>8. ClaimSteady(Op(c), c)
  BY <1>0, GoFacts, CallFacts
<1> QED BY <1>0, <1>2, <1>7, <1>8, WorkOk

LEMMA NoteOk ==
  ASSUME IInv, [Next]_vars, NEW c \in Calls, Note(c)
  PROVE  CallOk(c)'
<1>0. /\ call[c].pc = "note" /\ Claimed(c) /\ Op(c) \in Ops /\ Goal(c) # <<>>
      /\ ops \in [Ops -> OpType] /\ call \in [Calls -> CallType] /\ RowInv(c)
  BY CallFacts, TypeFacts DEF Note, Claimed, IInv, CallsInv
<1>1. CASE Go(c, "fail") /\ UNCHANGED ops
  BY <1>0, <1>1, FailOk
<1>2. CASE /\ ops' = [ops EXCEPT ![Op(c)] = [@ EXCEPT !.recovery = Goal(c), !.expired = FALSE]]
           /\ call' = [call EXCEPT ![c] = [@ EXCEPT !.pc = "adopt", !.rec = Goal(c)]]
  <2>1. PICK o \in Ops : o = Op(c)
    BY <1>0
  <2>2. PICK r \in Rows : r = call[c].row /\ rows[r].maker = o /\ ManifestOf(r) = Goal(c)
    BY <1>0, <2>1 DEF RowInv
  <2>3. /\ SameCall(c) /\ call'[c].rec = Goal(c) /\ call'[c].row = r /\ call'[c].pc = "adopt"
        /\ call'[c].request = call[c].request
    BY <1>0, <1>2, <2>2 DEF CallType, SameCall
  <2>4. ops'[o].recovery = Goal(c)
    BY <1>0, <1>2, <2>1 DEF OpType
  <2>5. RequestInv(c)' /\ AskedInv(c)' /\ Op(c)' = o /\ Goal(c)' = Goal(c) /\ Create(c)' = Create(c)
    BY <1>0, <2>1, <2>3, RequestKept, AskedKept
  <2>6. rows'[r] = rows[r] /\ r \in Rows' /\ ManifestOf(r)' = Goal(c)
    BY <2>2, RowsKept
  <2>7. HasRow(o)'
    BY <2>2, <2>6 DEF HasRow
  <2>8. Kept(r)'
    BY <1>0, <2>2, <2>4, <2>6 DEF Kept
  <2>9. /\ HasRow(o)' => HasRow(Op(c))'
        /\ Kept(r)' => Kept(call[c].row)'
        /\ ManifestOf(call[c].row)' = ManifestOf(r)'
    BY <2>3, <2>5
  <2>10. NoteInv(c)'
    BY <1>0, <2>3, <2>4, <2>5, <2>7, <2>9 DEF NoteInv
  <2>11. RowInv(c)'
    BY <1>0, <2>1, <2>3, <2>5, <2>6, <2>8, <2>9 DEF RowInv
  <2> QED BY <2>5, <2>10, <2>11 DEF CallOk
<1> QED BY <1>1, <1>2 DEF Note

LEMMA WriteRootOk ==
  ASSUME IInv, [Next]_vars, NEW c \in Calls, WriteRoot(c)
  PROVE  CallOk(c)'
<1>0. /\ call[c].pc = "adopt" /\ Create(c) /\ Claimed(c) /\ UNCHANGED ops
      /\ AfterRoot(c) \in Phases /\ AfterRoot(c) \in {"place", "resolve"}
  BY DEF WriteRoot, Claimed, AfterRoot, Phases
<1>1. CASE Refuse(c)
  BY <1>0, <1>1, FailOk DEF Refuse
<1>2. CASE ManifestOf(Winner(c)) = Goal(c) /\ GoWith(c, AfterRoot(c), Winner(c))
  <2>1. PICK r \in Rows : r = Winner(c)
    BY <1>0, AdoptFacts DEF Winner, IInv, IdentityInv
  <2>2. /\ SameCall(c) /\ call'[c].rec = call[c].rec /\ call'[c].row = r
        /\ call'[c].pc \in {"place", "resolve"}
    BY <1>0, <1>2, <2>1, GoFacts, TypeFacts DEF IInv
  <2>3. Goal(c) \in Manifests /\ r # None
    BY <1>0, CallFacts, RowsKept
  <2>4. identity'.current # None /\ Extends(Current', Goal(c))
    <3>1. CASE identity.root = None
      <4>1. identity' = [identity EXCEPT !.root = call[c].row, !.current = call[c].row]
        BY <3>1 DEF WriteRoot
      <4>2. identity'.current = r
        BY <2>1, <3>1, <4>1, TypeFacts DEF Winner, IInv, Identities
      <4>3. Current' = ManifestOf(r)
        BY <2>3, <4>2, RowsKept DEF Current, ManifestOf
      <4> QED BY <1>2, <2>1, <2>3, <4>2, <4>3, ExtendsItself
    <3>2. CASE identity.root # None
      <4>1. /\ identity.current # None /\ Extends(Current, ManifestOf(identity.root))
            /\ r = identity.root
        BY <2>1, <3>2 DEF IInv, IdentityInv, Winner
      <4>2. identity'.current # None
        BY <4>1, StepLine
      <4> QED BY <1>2, <2>1, <2>3, <4>1, <4>2, LineKept, ExtendsThrough
    <3> QED BY <3>1, <3>2
  <2> QED BY <1>0, <1>2, <2>1, <2>2, <2>3, <2>4, ExtendsItself, AnswerOk
<1> QED BY <1>1, <1>2 DEF WriteRoot

LEMMA AdvanceOk ==
  ASSUME IInv, [Next]_vars, NEW c \in Calls, Advance(c)
  PROVE  CallOk(c)'
<1>0. /\ call[c].pc = "adopt" /\ ~Create(c) /\ Claimed(c) /\ UNCHANGED <<ops, rows>>
      /\ "resolve" \in Phases
  BY DEF Advance, Claimed, Phases
<1>1. CASE Refuse(c)
  BY <1>0, <1>1, FailOk DEF Refuse
<1>2. CASE /\ Go(c, "resolve")
           /\ \/ identity.current = call[c].row /\ UNCHANGED identity
              \/ identity' = [identity EXCEPT !.current = call[c].row,
                                 !.item = IF Bound(identity.item) THEN identity.item ELSE None]
  <2>1. PICK r \in Rows : r = call[c].row /\ r # None /\ rows[r].manifest = Goal(c)
    BY <1>0, AdoptFacts
  <2>2. SameCall(c) /\ call'[c].rec = call[c].rec /\ call'[c].row = r /\ call'[c].pc = "resolve"
    BY <1>0, <1>2, <2>1, GoFacts
  <2>3. identity'.current = r
    BY <1>2, <2>1, TypeFacts DEF IInv, Identities
  <2>4. ManifestOf(r) = Goal(c) /\ Goal(c) \in Manifests
    BY <1>0, <2>1, CallFacts DEF ManifestOf
  <2>5. Current' = Goal(c)
    BY <2>1, <2>3, <2>4, RowsKept DEF Current, ManifestOf
  <2> QED BY <1>0, <2>1, <2>2, <2>3, <2>4, <2>5, ExtendsItself, AnswerOk
<1> QED BY <1>1, <1>2 DEF Advance

\* A call that has an answer keeps it on its way.
LEMMA OnwardOk ==
  ASSUME IInv, [Next]_vars, NEW c \in Calls, call[c].pc \in {"place", "add", "bind", "resolve"},
         UNCHANGED ops, SameCall(c), call'[c].rec = call[c].rec, call'[c].row = call[c].row,
         \/ call'[c].pc \in {"add", "resolve", "fail"}
         \/ call'[c].pc = "bind" /\ call'[c].item \in Items'
  PROVE  CallOk(c)'
<1>1. Claimed(c) /\ Answer(c)
  BY DEF Claimed, IInv, CallsInv, RowInv
<1>2. Answer(c)' /\ ClaimSteady(Op(c), c)
  BY <1>1, AnswerKept, GoFacts, CallFacts
<1>3. RowInv(c)'
  BY <1>2 DEF RowInv
<1> QED BY <1>1, <1>2, <1>3, WorkOk

LEMMA CatalogOk ==
  ASSUME IInv, [Next]_vars, NEW c \in Calls, Place(c) \/ Add(c) \/ Bind(c)
  PROVE  CallOk(c)'
<1>0. {"add", "resolve", "fail", "bind"} \subseteq Phases
  BY DEF Phases
<1>1. CASE Place(c) \/ Bind(c)
  <2>1. PICK p \in {"add", "resolve", "fail"} : Go(c, p)
    BY <1>1 DEF Place, Bind
  <2>2. SameCall(c) /\ call'[c].rec = call[c].rec /\ call'[c].row = call[c].row /\ call'[c].pc = p
    BY <1>0, <2>1, GoFacts
  <2>3. call[c].pc \in {"place", "bind"} /\ UNCHANGED ops
    BY <1>1 DEF Place, Bind
  <2> QED BY <2>1, <2>2, <2>3, OnwardOk
<1>2. CASE Add(c)
  <2>1. Len(items) \in Nat /\ items \in Seq(ItemType)
    BY TypeFacts DEF IInv
  <2>2. PICK i \in Items' : call' = [call EXCEPT ![c] = [@ EXCEPT !.pc = "bind", !.item = i]]
    <3>1. CASE items' = items
      <4>1. Items' = Items
        BY <3>1 DEF Items
      <4>2. Len(items) + 1 # Len(items) /\ Append(items, [content |-> call[c].row, shown |-> TRUE]) # items
        BY <2>1, AppendProperties, TypeFacts DEF ItemType, CallType, IInv
      <4> QED BY <1>2, <3>1, <4>1, <4>2 DEF Add
    <3>2. CASE items' = Append(items, [content |-> call[c].row, shown |-> TRUE])
      <4>1. [content |-> call[c].row, shown |-> TRUE] \in ItemType
        BY TypeFacts DEF ItemType, CallType, IInv
      <4>2. Len(items') = Len(items) + 1
        BY <2>1, <3>2, <4>1, AppendProperties
      <4>3. \A i \in 1..(Len(items) + 1) : i \in Items'
        BY <4>2 DEF Items
      <4>4. (\A i \in Items : i \in Items') /\ Len(items) + 1 \in Items'
        BY <2>1, <4>3 DEF Items
      <4> QED BY <1>2, <4>4 DEF Add
    <3> QED BY <1>2, <3>1, <3>2 DEF Add
  <2>3. /\ SameCall(c) /\ call'[c].rec = call[c].rec /\ call'[c].row = call[c].row
        /\ call'[c].pc = "bind" /\ call'[c].item = i
    BY <2>2, TypeFacts DEF IInv, CallType, SameCall
  <2>4. call[c].pc = "add" /\ UNCHANGED ops
    BY <1>2 DEF Add
  <2> QED BY <2>2, <2>3, <2>4, OnwardOk
<1> QED BY <1>1, <1>2

LEMMA ClaimOk ==
  ASSUME IInv, [Next]_vars, NEW c \in Calls, Claim(c) \/ Poll(c) \/ GiveUp(c)
  PROVE  CallOk(c)'
<1>1. CASE Return(c)
  BY <1>1, ReturnOk DEF Return
<1>2. CASE /\ Take(c) /\ call[c].pc \in {"claim", "wait"}
           /\ \/ ops[Op(c)].state = "none"
              \/ ops[Op(c)].request = call[c].request
              \/ call[c].pc = "wait"
  BY <1>2, TakeOk
<1>3. CASE /\ Go(c, "wait") /\ call[c].pc = "claim" /\ UNCHANGED ops
           /\ ops[Op(c)].state = "pending" /\ ops[Op(c)].request = call[c].request
  <2>1. SameCall(c) /\ call'[c].pc = "wait" /\ call'[c].request = call[c].request
    BY <1>3, GoFacts DEF Phases, SameCall
  <2>2. RequestInv(c)' /\ Op(c)' = Op(c)
    BY <1>3, <2>1, RequestKept
  <2>3. AskedInv(c)' /\ NoteInv(c)' /\ RowInv(c)'
    BY <1>3, <2>1, <2>2 DEF AskedInv, NoteInv, RowInv, Claimed
  <2> QED BY <2>2, <2>3 DEF CallOk
<1> QED BY <1>1, <1>2, <1>3 DEF Claim, Poll, GiveUp

LEMMA EndOk ==
  ASSUME IInv, [Next]_vars, NEW c \in Calls, Succeed(c) \/ Fail(c) \/ Fault(c) \/ Crash(c)
  PROVE  CallOk(c)'
<1>1. CASE Return(c)
  BY <1>1, ReturnOk DEF Return
<1>2. CASE Go(c, "fail") /\ UNCHANGED ops /\ call[c].pc \notin {"idle", "claim", "wait", "fail"}
  BY <1>2, FailOk DEF Claimed
<1> QED BY <1>1, <1>2 DEF Succeed, Fail, Fault, Crash

LEMMA OwnCall ==
  ASSUME IInv, [Next]_vars, NEW c \in Calls, Step(c) \/ Fault(c) \/ Crash(c)
  PROVE  CallOk(c)'
  BY ClaimOk, BeginCreateOk, BeginRevisionOk, DrawOk, SaveOk, NoteOk, WriteRootOk, AdvanceOk,
     CatalogOk, EndOk DEF Step

LEMMA StartOk ==
  ASSUME IInv, [Next]_vars, NEW c \in Calls, NEW q \in Asks, Start(c, q)
  PROVE  CallOk(c)' /\ call' \in [Calls -> CallType] /\ OthersStay(c)
<1>0. call \in [Calls -> CallType] /\ identity \in Identities /\ Nothing \in Identities
  BY TypeFacts DEF IInv, Nothing, Identities, None
<1>1. PICK b \in WithManifest(q.target) \cup {None} :
        /\ b = None <=> q.target = <<>>
        /\ call' = [call EXCEPT ![c] = [Idle EXCEPT !.pc = "claim", !.op = OpOf(q), !.request = q,
                        !.base = b, !.snap = IF b = None THEN Nothing ELSE identity]]
  BY DEF Start
<1>2. OpOf(q) \in Ops /\ OpOf(q).target = q.target
  BY Asking
<1>3. /\ call'[c].pc = "claim" /\ call'[c].op = OpOf(q) /\ call'[c].request = q
      /\ call'[c].base = b
  BY <1>0, <1>1 DEF Idle
<1>4. call' \in [Calls -> CallType] /\ OthersStay(c)
  <2>1. b \in Nat
    BY TypeFacts DEF IInv, WithManifest, None
  <2> DEFINE x == [Idle EXCEPT !.pc = "claim", !.op = OpOf(q), !.request = q,
                        !.base = b, !.snap = IF b = None THEN Nothing ELSE identity]
  <2>2. x \in CallType
    BY <1>0, <1>2, <2>1, TypeFacts DEF Idle, CallType, Phases, None, IInv
  <2>3. call' = [call EXCEPT ![c] = x]
    BY <1>1
  <2> HIDE DEF x
  <2> QED BY <1>0, <2>2, <2>3 DEF OthersStay
<1>5. q.target # <<>> => b \in Rows' /\ ManifestOf(b)' = q.target
  <2>1. CASE q.target # <<>>
    <3>1. b \in Rows /\ b # None /\ rows[b].manifest = q.target
      BY <1>1, <2>1 DEF WithManifest
    <3> QED BY <3>1, RowsKept DEF ManifestOf
  <2> QED BY <2>1
<1>6. ManifestOf(call[c].base)' = ManifestOf(b)'
  BY <1>3
<1>7. RequestInv(c)' /\ AskedInv(c)' /\ NoteInv(c)' /\ RowInv(c)'
  BY <1>2, <1>3, <1>5, <1>6 DEF RequestInv, AskedInv, NoteInv, RowInv, Claimed, Op, Create, OpOf
<1> QED BY <1>4, <1>7 DEF CallOk

\* Every call stays right, and typed.
LEMMA CallsStep ==
  ASSUME IInv, [Next]_vars
  PROVE  CallsInv' /\ call' \in [Calls -> CallType]
<1>0. call \in [Calls -> CallType] /\ \A c \in Calls : call[c].pc # "idle" => Op(c) \in Ops
  BY TypeFacts, CallFacts DEF IInv
<1>1. ASSUME UNCHANGED call, \A c \in Calls, o \in Ops : ClaimSteady(o, c)
      PROVE  CallsInv' /\ call' \in [Calls -> CallType]
  <2>1. ASSUME NEW c \in Calls PROVE CallOk(c)'
    BY <1>0, <1>1, CallStays
  <2> QED BY <1>0, <1>1, <2>1 DEF CallsInv, CallOk
<1>2. ASSUME NEW c \in Calls, CallOk(c)', OthersStay(c),
             \A d \in Calls \ {c}, o \in Ops : ClaimSteady(o, d)
      PROVE  CallsInv'
  <2>1. ASSUME NEW d \in Calls PROVE CallOk(d)'
    <3>1. CASE d = c
      BY <1>2, <3>1
    <3>2. CASE d # c
      BY <1>0, <1>2, <3>2, CallStays DEF OthersStay
    <3> QED BY <3>1, <3>2
  <2> QED BY <2>1 DEF CallsInv, CallOk
<1>3. UNCHANGED ops => \A c \in Calls, o \in Ops : ClaimSteady(o, c)
  BY DEF ClaimSteady
<1>4. CASE UNCHANGED vars \/ (\E i \in Items : HideItem(i))
  BY <1>1, <1>3, <1>4 DEF vars, HideItem
<1>5. CASE \E c \in Calls : Step(c) \/ Fault(c) \/ Crash(c)
  BY <1>2, <1>5, StepCalls, StepOps, OwnCall DEF OpsSteady
<1>6. CASE \E c \in Calls, q \in Asks : Start(c, q)
  <2>1. PICK c \in Calls, q \in Asks : Start(c, q)
    BY <1>6
  <2>2. UNCHANGED ops
    BY <2>1 DEF Start
  <2> QED BY <1>2, <1>3, <2>1, <2>2, StartOk
<1>7. CASE \E o \in Ops : Expire(o)
  BY <1>1, <1>7, ExpireOps DEF OpsSteady, Expire
<1> QED BY <1>4, <1>5, <1>6, <1>7, SplitStep

\* What else a step may write: the history and the bounds.
LEMMA BoundsStep ==
  ASSUME IInv, [Next]_vars
  PROVE  /\ refused' \subseteq Ops
         /\ started' \in 0..MaxCalls /\ troubles' \in 0..MaxTroubles
<1>0. /\ refused \subseteq Ops /\ started \in 0..MaxCalls /\ troubles \in 0..MaxTroubles
      /\ MaxCalls \in Nat /\ MaxTroubles \in Nat
  BY CompositionAssumption DEF IInv, TypeOK, CompositionAssumption
<1>1. /\ UNCHANGED started \/ (started < MaxCalls /\ started' = started + 1)
      /\ UNCHANGED troubles \/ Trouble
  <2>1. CASE \E c \in Calls : Step(c)
    BY <2>1 DEF Step, Claim, Poll, GiveUp, BeginCreate, BeginRevision, Draw, Save, Note, WriteRoot,
         Advance, Place, Add, Bind, Succeed, Fail, bounds
  <2>2. CASE \E c \in Calls : Fault(c) \/ Crash(c)
    BY <2>2 DEF Fault, Crash, Trouble
  <2>3. CASE \E c \in Calls, q \in Asks : Start(c, q)
    BY <2>3 DEF Start
  <2>4. CASE (\E o \in Ops : Expire(o)) \/ (\E i \in Items : HideItem(i))
    BY <2>4 DEF Expire, HideItem, Trouble, bounds
  <2>5. CASE UNCHANGED vars
    BY <2>5 DEF vars, bounds
  <2> QED BY <2>1, <2>2, <2>3, <2>4, <2>5, SplitStep
<1>2. refused' \subseteq refused \cup Ops
  <2>1. ASSUME NEW c \in Calls, Step(c) \/ Fault(c) \/ Crash(c)
        PROVE  refused' \subseteq refused \cup {Op(c)}
    BY <2>1 DEF Step, Claim, Poll, GiveUp, BeginCreate, BeginRevision, Draw, Save, Note, WriteRoot,
         Advance, Place, Add, Bind, Succeed, Fail, Fault, Crash, Take, Prepare, Refuse
  <2>2. CASE \E c \in Calls : Step(c) \/ Fault(c) \/ Crash(c)
    BY <2>1, <2>2, StepFacts, CallFacts
  <2>3. (\E c \in Calls, q \in Asks : Start(c, q)) \/ (\E o \in Ops : Expire(o))
          \/ (\E i \in Items : HideItem(i)) \/ UNCHANGED vars => refused' = refused
    BY DEF Start, Expire, HideItem, vars
  <2> QED BY <2>2, <2>3, SplitStep
<1> QED BY <1>0, <1>1, <1>2 DEF Trouble

-----------------------------------------------------------------------------

LEMMA InitInv == Init => IInv
<1> SUFFICES ASSUME Init PROVE IInv
  OBVIOUS
<1>1. TypeOK
  BY InitTyped
<1>2. Rows = {} /\ identity = Nothing /\ \A c \in Calls : call[c] = Idle
  BY <1>1, TypeFacts DEF Init, Rows
<1>3. RowsInv /\ IdentityInv
  BY <1>2 DEF RowsInv, IdentityInv, Nothing
<1>4. OpsInv /\ SuccessTookEffect
  BY DEF Init, OpsInv, SuccessTookEffect
<1>5. CallsInv
  <2>1. Idle.pc = "idle"
    BY DEF Idle
  <2>2. \A c \in Calls : call[c].pc = "idle"
    BY <1>2, <2>1
  <2> QED BY <2>2 DEF CallsInv, RequestInv, AskedInv, NoteInv, RowInv, Claimed
<1> QED BY <1>1, <1>3, <1>4, <1>5 DEF IInv

LEMMA StepInv == IInv /\ [Next]_vars => IInv'
<1> SUFFICES ASSUME IInv, [Next]_vars PROVE IInv'
  OBVIOUS
<1>1. TypeOK'
  BY StepRows, StepItems, StepLine, AllSteady, CallsStep, BoundsStep
  DEF TypeOK, RowType, ItemType, OpType, CallType
<1> QED BY <1>1, RowsInvStep, IdentityInvStep, OpsInvStep, CallsStep DEF IInv

\* Every reachable state satisfies the inductive invariant: rows are kept by who made
\* them, the current row descends from the root, and each call knows its own row or
\* its answer (the operation's recovery note and claim).
THEOREM Invariance == Spec => []IInv
<1> QED BY InitInv, StepInv, PTL DEF Spec

\* All tables and calls keep their types.
THEOREM TypeCorrect == Spec => []TypeOK
<1>1. IInv => TypeOK
  BY DEF IInv
<1> QED BY Invariance, <1>1, PTL

\* An answer of success is in the line of the current row for ever, for any number of
\* overlapping, repeated, lapsed and crashed calls (advanceComposite, the idempotent operation).
THEOREM AnswersTakeEffect == Spec => []SuccessTookEffect
<1>1. IInv => SuccessTookEffect
  BY DEF IInv
<1> QED BY Invariance, <1>1, PTL

\* Revisions come one by one, each made on the current row (advanceComposite swaps the
\* row it was based on).
THEOREM RevisionsInLine == Spec => RevisionsChain
<1>1. IInv /\ [Next]_vars => [identity'.current # identity.current =>
          \E e \in Edits : Current' = Append(Current, e)]_vars
  BY StepLine
<1> QED BY Invariance, <1>1, PTL DEF Spec, RevisionsChain

\* A refusal is of an operation whose call holds the claim, at one of four places.
LEMMA Refusals ==
  ASSUME IInv, [Next]_vars, NEW o \in Ops, o \in refused' \ refused
  PROVE  \E c \in Calls :
            /\ call[c].pc \in {"begin", "adopt"} /\ o = Op(c) /\ Holds(c)
            /\ \/ BeginCreate(c) /\ identity.root # None /\ ManifestOf(identity.root) # Goal(c)
               \/ BeginRevision(c) /\ call[c].request.expected # Len(Op(c).target)
               \/ BeginRevision(c) /\ ~IsOwn(c)
               \/ WriteRoot(c) /\ ManifestOf(Winner(c)) # Goal(c)
               \/ Advance(c) /\ identity.current # call[c].row
<1>1. PICK c \in Calls : Step(c)
  BY SplitStep DEF Start, Expire, HideItem, vars, Fault, Crash
<1>2. Refuse(c) => o = Op(c) /\ Holds(c)
  BY DEF Refuse
<1>3. CASE Claim(c) \/ Poll(c) \/ GiveUp(c) \/ Draw(c) \/ Save(c) \/ Note(c) \/ Place(c) \/ Add(c)
           \/ Bind(c) \/ Succeed(c) \/ Fail(c)
  BY <1>3 DEF Claim, Poll, GiveUp, Draw, Save, Note, Place, Add, Bind, Succeed, Fail, Take
<1>4. CASE BeginCreate(c)
  BY <1>2, <1>4 DEF BeginCreate, Prepare
<1>5. CASE BeginRevision(c)
  BY <1>2, <1>5 DEF BeginRevision, Prepare
<1>6. CASE WriteRoot(c)
  BY <1>2, <1>6 DEF WriteRoot
<1>7. CASE Advance(c)
  BY <1>2, <1>7 DEF Advance
<1> QED BY <1>1, <1>3, <1>4, <1>5, <1>6, <1>7 DEF Step

LEMMA StepRefused ==
  ASSUME IInv, [Next]_vars, NEW o \in Ops, o \in refused' \ refused,
         identity.current # None, rows[identity.current].maker = o
  PROVE  Twin(identity.current)
<1>1. PICK c \in Calls :
            /\ call[c].pc \in {"begin", "adopt"} /\ o = Op(c) /\ Holds(c)
            /\ \/ BeginCreate(c) /\ identity.root # None /\ ManifestOf(identity.root) # Goal(c)
               \/ BeginRevision(c) /\ call[c].request.expected # Len(Op(c).target)
               \/ BeginRevision(c) /\ ~IsOwn(c)
               \/ WriteRoot(c) /\ ManifestOf(Winner(c)) # Goal(c)
               \/ Advance(c) /\ identity.current # call[c].row
  BY Refusals
<1>2. /\ identity.current \in Rows /\ identity.root # None
      /\ Len(ManifestOf(identity.root)) = 1 /\ Extends(Current, ManifestOf(identity.root))
      /\ Kept(identity.current)
  BY DEF IInv, IdentityInv
<1>3. /\ ops[o].request = call[c].request
      /\ ops[o].recovery = call[c].rec /\ ops[o].state = "pending"
  BY <1>1 DEF IInv, CallsInv, AskedInv, NoteInv, Claimed, Holds
<1>4. Current = Goal(c) /\ (o.target # <<>> => call[c].request.expected = Len(o.target))
  BY <1>1, <1>2, <1>3, RowsOf DEF IInv, RowOf, Current, ManifestOf, Goal
<1>5. /\ Goal(c) \in Manifests /\ Len(Goal(c)) = Len(o.target) + 1 /\ Goal(c) # <<>>
      /\ Len(<<>>) = 0
  BY <1>1, CallFacts
<1>6. Create(c) => ManifestOf(identity.root) = Goal(c)
  <2>1. CASE Create(c)
    <3>1. Len(Goal(c)) = 1
      BY <1>1, <1>5, <2>1 DEF Create
    <3>2. ManifestOf(identity.root) \in Manifests
      BY TypeFacts DEF IInv, IdentityInv
    <3>3. ManifestOf(identity.root)[1] = Goal(c)[1]
      BY <1>2, <1>4, <3>1 DEF Extends
    <3> QED BY <1>2, <1>5, <3>1, <3>2, <3>3 DEF Manifests
  <2> QED BY <2>1
<1>7. CASE BeginCreate(c) \/ WriteRoot(c)
  BY <1>1, <1>2, <1>6, <1>7 DEF BeginCreate, WriteRoot, BeginRevision, Advance, Winner
<1>8. CASE BeginRevision(c)
  <2>1. ~Create(c) /\ call[c].request.expected = Len(o.target)
    BY <1>1, <1>4, <1>8 DEF BeginRevision, Create
  <2>2. ~IsOwn(c)
    BY <1>1, <1>8, <2>1 DEF BeginCreate, BeginRevision, WriteRoot, Advance
  <2>3. CASE ops[o].recovery # <<>>
    <3>1. ops[o].recovery = Goal(c)
      BY <1>1, <1>3, <2>3, OpsOf DEF OpOk, Goal
    <3> QED BY <1>3, <1>4, <1>5, <2>1, <2>2, <3>1 DEF IsOwn, Current
  <2> QED BY <1>2, <1>3, <2>3 DEF Kept
<1>9. CASE Advance(c)
  <2>1. call[c].row \in Rows /\ rows[call[c].row].manifest = Goal(c)
    BY <1>9, AdoptFacts DEF Advance
  <2>2. identity.current # call[c].row
    BY <1>1, <1>9 DEF BeginCreate, WriteRoot, BeginRevision, Advance
  <2>3. rows[identity.current].manifest = Goal(c)
    BY <1>4 DEF Current, ManifestOf
  <2> QED BY <2>1, <2>2, <2>3 DEF Twin
<1> QED BY <1>1, <1>7, <1>8, <1>9

\* A retry is not told of a conflict with the row that its own operation put first,
\* whatever crash or lapse cut the call before it (the recovery note of the operation);
\* unless the search by manifest finds a twin of that row.
THEOREM OwnRowNoConflict == Spec => RefusedIsOthers
<1>1. IInv /\ [Next]_vars => [\A o \in refused' \ refused :
          LET now == identity.current IN
          now # None /\ rows[now].maker = o => Twin(now)]_vars
  <2> SUFFICES ASSUME IInv, [Next]_vars, NEW o \in refused' \ refused,
                      identity.current # None, rows[identity.current].maker = o
               PROVE  Twin(identity.current)
    OBVIOUS
  <2>1. o \in Ops
    BY BoundsStep
  <2> QED BY <2>1, StepRefused
<1> QED BY Invariance, <1>1, PTL DEF Spec, RefusedIsOthers

-----------------------------------------------------------------------------
(* The line as its clients see it, RevisionLine.                           *)

\* A revision that the line has is where it should be.
LEMMA PrefixOf ==
  ASSUME NEW m \in Manifests, NEW n \in Manifests, Extends(m, n)
  PROVE  SubSeq(m, 1, Len(n)) = n
<1>1. n \in Seq(Edits) /\ m \in Seq(Edits)
  BY DEF Manifests
<1>2. /\ Len(n) \in Nat /\ Len(m) \in Nat /\ Len(n) <= Len(m)
      /\ \A i \in 1..Len(n) : m[i] = n[i]
  BY <1>1 DEF Extends
<1> DEFINE p == SubSeq(m, 1, Len(n))
<1>3. /\ p \in Seq(Edits) /\ Len(p) = Len(n)
      /\ \A i \in 1..Len(n) : p[i] = m[i]
  BY <1>1, <1>2
<1> HIDE DEF p
<1>4. p = n
  BY <1>1, <1>2, <1>3
<1> QED BY <1>4 DEF p

\* Only a claim makes an operation known, by its call's request.
LEMMA Admission ==
  ASSUME IInv, [Next]_vars, NEW o \in Ops, ops[o].state = "none", ops'[o].state # "none"
  PROVE  \E c \in Calls : Claim(c) /\ Take(c) /\ o = Op(c)
<1>0. ops \in [Ops -> OpType]
  BY TypeFacts DEF IInv
<1>1. \E c \in Calls : Step(c) \/ Fault(c) \/ Crash(c)
  <2>1. CASE \E p \in Ops : Expire(p)
    BY <1>0, <2>1 DEF Expire
  <2> QED BY <2>1, SplitStep DEF Start, HideItem, vars
<1>2. PICK c \in Calls : Step(c) \/ Fault(c) \/ Crash(c)
  BY <1>1
<1>3. Op(c) \in Ops /\ call[c].pc # "idle"
  BY <1>2, StepFacts, CallFacts
<1>4. CASE Crash(c)
  <2>1. ops'[o].state = ops[o].state
    BY <1>0, <1>4 DEF Crash, OpType
  <2> QED BY <2>1
<1>5. CASE o # Op(c) /\ ~Crash(c)
  BY <1>0, <1>2, <1>5, OpsWriters DEF Take, Draw, Note, Succeed, Fail
<1>6. CASE o = Op(c) /\ ~Crash(c)
  <2>1. AskedInv(c)
    BY DEF IInv, CallsInv
  <2>2. call[c].pc = "claim"
    BY <1>3, <1>6, <2>1 DEF AskedInv
  <2>3. Claim(c)
    BY <1>2, <1>6, <2>2 DEF Step, Poll, GiveUp, BeginCreate, BeginRevision, Draw, Save, Note,
         WriteRoot, Advance, Place, Add, Bind, Succeed, Fail, Fault
  <2> QED BY <1>6, <2>3 DEF Claim
<1> QED BY <1>4, <1>5, <1>6

\* Only the end of a call that has the claim answers, once.
LEMMA Answering ==
  ASSUME IInv, [Next]_vars, NEW o \in Ops, ops[o].state # "succeeded",
         ops'[o].state = "succeeded"
  PROVE  \E c \in Calls : Succeed(c) /\ Holds(c) /\ o = Op(c)
<1>0. ops \in [Ops -> OpType]
  BY TypeFacts DEF IInv
<1>1. \E c \in Calls : Step(c) \/ Fault(c) \/ Crash(c)
  <2>1. CASE \E p \in Ops : Expire(p)
    BY <1>0, <2>1 DEF Expire, OpType
  <2> QED BY <2>1, SplitStep DEF Start, HideItem, vars
<1>2. PICK c \in Calls : Step(c) \/ Fault(c) \/ Crash(c)
  BY <1>1
<1>3. Op(c) \in Ops
  BY <1>2, StepFacts, CallFacts
<1>4. CASE Crash(c)
  <2>1. ops'[o].state = ops[o].state
    BY <1>0, <1>4 DEF Crash, OpType
  <2> QED BY <2>1
<1>5. CASE Take(c) \/ Draw(c) \/ Note(c) \/ Fail(c)
  <2>1. CASE Take(c)
    <3>1. ops'[o].state \in {"pending", ops[o].state}
      BY <1>0, <2>1 DEF Take, OpType
    <3> QED BY <3>1
  <2>2. CASE Draw(c)
    <3>1. ops'[o].state = ops[o].state
      BY <1>0, <2>2 DEF Draw, OpType
    <3> QED BY <3>1
  <2>3. CASE Note(c)
    <3>0. \/ UNCHANGED ops
          \/ ops' = [ops EXCEPT ![Op(c)] = [@ EXCEPT !.recovery = Goal(c), !.expired = FALSE]]
      BY <2>3 DEF Note
    <3>1. ops'[o].state = ops[o].state
      <4>1. CASE UNCHANGED ops
        BY <4>1
      <4>2. CASE ~ UNCHANGED ops
        <5>1. PICK p \in Ops : p = Op(c)
          BY <1>3
        <5>2. ops[p] \in OpType
          BY <1>0, <5>1
        <5>3. ops'[o] = IF o = p THEN [ops[p] EXCEPT !.recovery = Goal(c), !.expired = FALSE]
                                 ELSE ops[o]
          BY <1>0, <3>0, <4>2, <5>1
        <5> QED BY <5>2, <5>3 DEF OpType
      <4> QED BY <4>1, <4>2
    <3> QED BY <3>1
  <2>4. CASE Fail(c)
    <3>1. ops'[o].state \in {"failed", ops[o].state}
      BY <1>0, <2>4 DEF Fail, OpType
    <3> QED BY <3>1
  <2> QED BY <1>5, <2>1, <2>2, <2>3, <2>4
<1>6. CASE Succeed(c)
  BY <1>0, <1>3, <1>6 DEF Succeed, OpType
<1> QED BY <1>2, <1>4, <1>5, <1>6, OpsWriters

\* Where neither happens the clients see of an operation what they saw.
LEMMA SeenStays ==
  ASSUME IInv, [Next]_vars, NEW o \in Ops
  PROVE  /\ (ops[o].state = "none" <=> ops'[o].state = "none") => AskedOf(o)' = AskedOf(o)
         /\ (ops[o].state = "succeeded" <=> ops'[o].state = "succeeded") =>
              AnswerOf(o)' = AnswerOf(o)
<1>1. OpSteady(o)
  BY AllSteady
<1>2. (ops[o].state = "none" <=> ops'[o].state = "none") => AskedOf(o)' = AskedOf(o)
  BY <1>1 DEF OpSteady, AskedOf
<1>3. CASE ops[o].state = "succeeded"
  <2>1. PICK r \in Rows : ops[o].result = r
    BY <1>3 DEF IInv, OpsInv
  <2>2. ManifestOf(r)' = ManifestOf(r)
    BY RowsKept
  <2>3. ops'[o].result = r
    BY <1>1, <1>3, <2>1 DEF OpSteady
  <2> QED BY <1>2, <1>3, <2>1, <2>2, <2>3 DEF AnswerOf
<1>4. CASE ops[o].state # "succeeded"
  BY <1>2, <1>4 DEF AnswerOf
<1> QED BY <1>3, <1>4

AskedNow  == [o \in Ops |-> AskedOf(o)]
AnswerNow == [o \in Ops |-> AnswerOf(o)]

\* A known operation was asked for an edit; one that is answered, for what the line has.
LEMMA SeenFacts ==
  ASSUME IInv, NEW o \in Ops
  PROVE  /\ ops[o].state # "none" => ops[o].request.edit \in Edits
         /\ o.target \in Manifests
         /\ AnswerOf(o) # <<>> => Len(Current) > Len(o.target)
<1>0. o.target \in Manifests
  BY Operations
<1>1. ops[o].state # "none" => ops[o].request.edit \in Edits
  BY Asking DEF IInv, OpsInv
<1>2. ASSUME ops[o].state = "succeeded"
      PROVE  Len(Current) > Len(o.target)
  <2> DEFINE goal == Append(o.target, ops[o].request.edit)
             won  == ManifestOf(ops[o].result)
  <2>1. goal \in Manifests /\ Len(goal) = Len(o.target) + 1
    BY <1>0, <1>1, <1>2, ExtendsByOne
  <2>2. won \in Manifests /\ Current \in Manifests
    BY <1>2, TypeFacts DEF IInv, OpsInv, IdentityInv, Current
  <2>3. Extends(Current, won) /\ Extends(won, goal)
    <3>1. /\ Extends(Current, won)
          /\ o.target # <<>> => won = goal
          /\ o.target = <<>> => Extends(won, goal)
      BY <1>2 DEF IInv, SuccessTookEffect
    <3> QED BY <2>1, <3>1, ExtendsItself
  <2> HIDE DEF won, goal
  <2>4. Len(goal) <= Len(won) /\ Len(won) <= Len(Current)
    BY <2>3 DEF Extends
  <2> QED BY <1>0, <2>1, <2>2, <2>4 DEF Manifests
<1> QED BY <1>0, <1>1, <1>2 DEF AnswerOf

LEMMA StepAdmits ==
  ASSUME IInv, [Next]_vars, NEW c \in Calls, Claim(c), Take(c), ops[Op(c)].state = "none"
  PROVE  Line!Admit(Op(c), call[c].request.edit) /\ Op(c) \in Ops /\ call[c].request.edit \in Edits
<1>a. Op(c) \in Ops /\ call[c].request.edit \in Edits /\ ops \in [Ops -> OpType]
  BY CallFacts, TypeFacts DEF Claim, IInv
<1>b. PICK o \in Ops : o = Op(c)
  BY <1>a
<1>c. PICK e \in Edits : e = call[c].request.edit
  BY <1>a
<1>1. o \in Ops /\ e \in Edits /\ ops \in [Ops -> OpType]
  BY <1>a
<1>2. ops' = [ops EXCEPT ![o] = [@ EXCEPT !.state = "pending", !.request = call[c].request,
                                          !.holder = c, !.expired = FALSE]]
  BY <1>b DEF Take
<1>3. ops[o].state = "none"
  BY <1>b
<1>4. Current' = Current
  BY DEF Claim, tables, Current, ManifestOf
<1>5. ops'[o].state = "pending" /\ ops'[o].request = call[c].request
  BY <1>1, <1>2 DEF OpType
<1>6. AskedOf(o) = {} /\ AskedOf(o)' = {e} /\ AnswerOf(o) = <<>> /\ AnswerOf(o)' = <<>>
  BY <1>3, <1>5, <1>c DEF AskedOf, AnswerOf
<1>7. ASSUME NEW p \in Ops, p # o
      PROVE  AskedOf(p)' = AskedOf(p) /\ AnswerOf(p)' = AnswerOf(p)
  <2>1. ops'[p] = ops[p]
    BY <1>1, <1>2, <1>7
  <2> QED BY <2>1, SeenStays
<1>8. AskedNow' = [AskedNow EXCEPT ![o] = {e}] /\ AskedNow[o] = {} /\ AnswerNow' = AnswerNow
  BY <1>1, <1>6, <1>7 DEF AskedNow, AnswerNow
<1>9. Line!Admit(o, e)
  BY <1>4, <1>8 DEF Line!Admit, AskedNow, AnswerNow
<1> QED BY <1>a, <1>b, <1>c, <1>9

\* Where no operation is taken or answered its clients see what they saw.
LEMMA NothingSeen ==
  ASSUME IInv, [Next]_vars, UNCHANGED ops
  PROVE  AskedNow' = AskedNow /\ AnswerNow' = AnswerNow
<1>1. \A o \in Ops : AskedOf(o)' = AskedOf(o) /\ AnswerOf(o)' = AnswerOf(o)
  BY SeenStays
<1> QED BY <1>1 DEF AskedNow, AnswerNow

LEMMA StepCommits ==
  ASSUME IInv, [Next]_vars, NEW c \in Calls, WriteRoot(c) \/ Advance(c), Current' # Current
  PROVE  Line!Commit(Op(c)) /\ Op(c) \in Ops
<1> DEFINE o == Op(c)
           e == call[c].request.edit
<1>1. /\ call[c].pc = "adopt" /\ UNCHANGED ops
      /\ rows' = rows
  BY DEF WriteRoot, Advance
<1>2. o \in Ops /\ e \in Edits /\ Goal(c) = Append(o.target, e) /\ o.target \in Manifests
  BY <1>1, CallFacts
<1>3. ~UNCHANGED identity
  BY <1>1 DEF Current, ManifestOf
<1>4. Current = o.target /\ Current' = Append(o.target, e)
  <2>1. CASE WriteRoot(c)
    <3>1. /\ identity' = [identity EXCEPT !.root = call[c].row, !.current = call[c].row]
          /\ identity.current = None /\ Create(c)
      BY <1>3, <2>1, RootLine
    <3>2. identity'.current = call[c].row
      BY <3>1, TypeFacts DEF IInv, Identities
    <3>3. Current' = Goal(c)
      BY <1>1, <3>2, AdoptFacts DEF Current, ManifestOf
    <3> QED BY <1>2, <3>1, <3>3 DEF Current, ManifestOf, Create
  <2>2. CASE Advance(c)
    <3>1. /\ identity' = [identity EXCEPT !.current = call[c].row,
                             !.item = IF Bound(identity.item) THEN identity.item ELSE None]
          /\ ~Create(c)
      BY <1>3, <2>2, AdvanceLine
    <3>2. identity'.current = call[c].row
      BY <3>1, TypeFacts DEF IInv, Identities
    <3>3. Current' = Goal(c)
      BY <1>1, <3>2, AdoptFacts DEF Current, ManifestOf
    <3>4. identity.current = call[c].base
      BY <1>3, <2>2 DEF Advance, Moved
    <3>5. Current = o.target
      BY <1>1, <3>1, <3>4, AdoptFacts DEF Current, ManifestOf
    <3> QED BY <1>2, <3>3, <3>5
  <2> QED BY <2>1, <2>2
<1>5. AskedOf(o) = {e}
  <2>1. AskedInv(c)
    BY DEF IInv, CallsInv
  <2> QED BY <1>1, <2>1 DEF AskedInv, AskedOf
<1>6. AnswerOf(o) = <<>>
  <2>1. Len(o.target) \in Nat
    BY <1>2 DEF Manifests
  <2> QED BY <1>2, <1>4, <2>1, SeenFacts
<1>7. AskedNow' = AskedNow /\ AnswerNow' = AnswerNow
  BY <1>1, NothingSeen
<1> HIDE DEF o, e
<1>8. AskedNow[o] = {e} /\ AnswerNow[o] = <<>>
  BY <1>2, <1>5, <1>6 DEF AskedNow, AnswerNow
<1>9. Line!Commit(o)
  BY <1>4, <1>7, <1>8 DEF Line!Commit, AskedNow, AnswerNow
<1> QED BY <1>2, <1>9 DEF o

LEMMA StepAnswers ==
  ASSUME IInv, [Next]_vars, NEW c \in Calls, Succeed(c), Holds(c)
  PROVE  Line!Answer(Op(c)) /\ Op(c) \in Ops
<1>a. /\ Op(c) \in Ops /\ call[c].request.edit \in Edits
      /\ ManifestOf(call[c].row) \in Manifests
  BY CallFacts, TypeFacts DEF Succeed, IInv, CallsInv, RowInv, Answer
<1>b. PICK o \in Ops : o = Op(c)
  BY <1>a
<1>c. PICK e \in Edits : e = call[c].request.edit
  BY <1>a
<1>d. PICK m \in Manifests : m = ManifestOf(call[c].row)
  BY <1>a
<1>1. /\ call[c].pc = "resolve" /\ UNCHANGED tables
      /\ ops' = [ops EXCEPT ![o] = [@ EXCEPT !.state = "succeeded", !.result = call[c].row,
                          !.holder = Nobody, !.expired = FALSE, !.recovery = <<>>]]
      /\ ops[o].state = "pending"
  BY <1>b DEF Succeed, Holds
<1>2. /\ o \in Ops /\ e \in Edits /\ Goal(c) = Append(o.target, e) /\ o.target \in Manifests
      /\ Goal(c) \in Manifests /\ Len(Goal(c)) = Len(o.target) + 1
  BY <1>1, <1>b, <1>c, CallFacts
<1>3. Answer(c) /\ AskedInv(c)
  BY <1>1 DEF IInv, CallsInv, RowInv
<1>4. Current \in Manifests /\ m \in Manifests
  BY <1>3, TypeFacts DEF IInv, IdentityInv, Current
<1>5. /\ Extends(Current, m) /\ Extends(m, Goal(c)) /\ Extends(Current, Goal(c))
      /\ o.target # <<>> => m = Goal(c)
  <2>1. Extends(Current, m)
    BY <1>3, <1>d DEF Answer
  <2>2. Create(c) => Extends(m, Goal(c))
    BY <1>3, <1>d DEF Answer
  <2>3. ~Create(c) => m = Goal(c)
    BY <1>3, <1>d DEF Answer
  <2>4. Extends(m, Goal(c))
    BY <1>2, <2>2, <2>3, ExtendsItself
  <2>5. Extends(Current, Goal(c))
    BY <1>2, <1>4, <2>1, <2>4, ExtendsThrough
  <2> QED BY <1>b, <2>1, <2>3, <2>4, <2>5 DEF Create
<1>6. Current' = Current /\ ManifestOf(call[c].row) = m /\ rows' = rows
  BY <1>1, <1>d DEF tables, Current, ManifestOf
<1>7. AskedOf(o) = {e} /\ AnswerOf(o) = <<>>
  BY <1>1, <1>3, <1>b, <1>c DEF AskedInv, AskedOf, AnswerOf
<1>8. ops \in [Ops -> OpType]
  BY TypeFacts DEF IInv
<1>9. ops'[o].state = "succeeded" /\ ops'[o].result = call[c].row
  BY <1>1, <1>2, <1>8 DEF OpType
<1>10. AnswerOf(o)' = m
  BY <1>6, <1>9 DEF AnswerOf, ManifestOf
<1>11. AskedOf(o)' = {e}
  BY <1>1, <1>7, <1>9, <1>2, SeenStays
<1>12. ASSUME NEW p \in Ops, p # o
       PROVE  AskedOf(p)' = AskedOf(p) /\ AnswerOf(p)' = AnswerOf(p)
  <2>1. ops'[p] = ops[p]
    BY <1>1, <1>12
  <2> QED BY <2>1, SeenStays
<1>13. /\ SubSeq(Current, 1, Len(m)) = m
       /\ SubSeq(Current, 1, Len(o.target) + 1) = Append(o.target, e)
  BY <1>2, <1>4, <1>5, PrefixOf
<1>14. /\ Len(m) \in 1..Len(Current) /\ Len(m) > Len(o.target)
       /\ o.target # <<>> => Len(m) = Len(o.target) + 1
  <2>1. Len(m) <= Len(Current) /\ Len(Goal(c)) <= Len(m)
    BY <1>5 DEF Extends
  <2>2. Len(m) \in Nat /\ Len(Current) \in Nat /\ Len(o.target) \in Nat
    BY <1>2, <1>4 DEF Manifests
  <2> QED BY <1>2, <1>5, <2>1, <2>2
<1>15. /\ AskedNow' = AskedNow /\ AskedNow[o] = {e} /\ AnswerNow[o] = <<>>
       /\ AnswerNow' = [AnswerNow EXCEPT ![o] = m]
  BY <1>2, <1>7, <1>10, <1>11, <1>12 DEF AskedNow, AnswerNow
<1>16. AnswerNow' = [AnswerNow EXCEPT ![o] = SubSeq(Current, 1, Len(m))]
  BY <1>13, <1>15
<1>17. \E d \in AskedNow[o], n \in 1..Len(Current) :
         /\ n > Len(o.target) /\ SubSeq(Current, 1, Len(o.target) + 1) = Append(o.target, d)
         /\ o.target # <<>> => n = Len(o.target) + 1
         /\ AnswerNow' = [AnswerNow EXCEPT ![o] = SubSeq(Current, 1, n)]
  BY <1>13, <1>14, <1>15, <1>16
<1>18. Line!Answer(o)
  BY <1>6, <1>15, <1>17 DEF Line!Answer, AskedNow, AnswerNow
<1> QED BY <1>2, <1>b, <1>18

\* The composition implements the line: a claim admits, the root or the current row
\* commits, the end of a call answers, and whatever else its calls do is not seen.
THEOREM Refinement == Spec => KeepsLine
<1>1. Init => Line!Init
  <2> SUFFICES ASSUME Init PROVE Line!Init
    OBVIOUS
  <2>1. Current = <<>>
    BY DEF Init, Current, ManifestOf, Nothing
  <2>2. \A o \in Ops : AskedOf(o) = {} /\ AnswerOf(o) = <<>>
    BY DEF Init, AskedOf, AnswerOf
  <2> QED BY <2>1, <2>2 DEF Line!Init
<1>2. ASSUME IInv, [Next]_vars PROVE [Line!Next]_(Line!vars)
  <2>1. CASE \E o \in Ops : ops[o].state = "none" /\ ops'[o].state # "none"
    <3>1. PICK c \in Calls : Claim(c) /\ Take(c) /\ ops[Op(c)].state = "none"
      BY <1>2, <2>1, Admission
    <3> QED BY <1>2, <3>1, StepAdmits DEF Line!Next
  <2>2. CASE \E o \in Ops : ops[o].state # "succeeded" /\ ops'[o].state = "succeeded"
    <3>1. PICK c \in Calls : Succeed(c) /\ Holds(c)
      BY <1>2, <2>2, Answering
    <3> QED BY <1>2, <3>1, StepAnswers DEF Line!Next
  <2>3. CASE Current' # Current
    <3>1. identity'.current # identity.current
      <4>1. CASE identity'.current = identity.current
        <5>1. identity.current \in Rows \cup {None}
          BY <1>2 DEF IInv, IdentityInv
        <5>2. PICK r \in Rows \cup {None} : r = identity.current
          BY <5>1
        <5>3. ManifestOf(r)' = ManifestOf(r)
          BY <1>2, RowsKept
        <5> QED BY <2>3, <4>1, <5>2, <5>3 DEF Current
      <4> QED BY <4>1
    <3>2. PICK c \in Calls : WriteRoot(c) \/ Advance(c)
      BY <1>2, <3>1, Writers
    <3> QED BY <1>2, <2>3, <3>2, StepCommits DEF Line!Next
  <2>4. CASE /\ Current' = Current
             /\ ~ \E o \in Ops : ops[o].state = "none" /\ ops'[o].state # "none"
             /\ ~ \E o \in Ops : ops[o].state # "succeeded" /\ ops'[o].state = "succeeded"
    <3>1. \A o \in Ops : AskedOf(o)' = AskedOf(o) /\ AnswerOf(o)' = AnswerOf(o)
      <4> SUFFICES ASSUME NEW o \in Ops
                   PROVE  AskedOf(o)' = AskedOf(o) /\ AnswerOf(o)' = AnswerOf(o)
        OBVIOUS
      <4>1. OpSteady(o)
        BY <1>2, AllSteady
      <4>2. /\ ops[o].state = "none" <=> ops'[o].state = "none"
            /\ ops[o].state = "succeeded" <=> ops'[o].state = "succeeded"
        BY <2>4, <4>1 DEF OpSteady
      <4> QED BY <1>2, <4>2, SeenStays
    <3>2. AskedNow' = AskedNow /\ AnswerNow' = AnswerNow
      BY <3>1 DEF AskedNow, AnswerNow
    <3> QED BY <2>4, <3>2 DEF Line!vars, AskedNow, AnswerNow
  <2> QED BY <2>1, <2>2, <2>3, <2>4
<1> QED BY <1>1, <1>2, Invariance, PTL DEF Spec, KeepsLine, Line!Spec

-----------------------------------------------------------------------------
(* What the line says of the answers. *)

\* An answer is in the line, and does what the operation was asked for.
AnswerStands(o) ==
    /\ Extends(Current, AnswerOf(o))
    /\ \E e \in AskedOf(o) :
         /\ o.target # <<>> => AnswerOf(o) = Append(o.target, e)
         /\ Extends(AnswerOf(o), Append(o.target, e))

AnswersStand == \A o \in Ops : AnswerOf(o) # <<>> => AnswerStands(o)

LineInv ==
    /\ Current \in Manifests
    /\ \A o \in Ops : AskedOf(o) \subseteq Edits /\ AnswerOf(o) \in Manifests
    /\ AnswersStand

LEMMA LineAdmits ==
  ASSUME LineInv, NEW p \in Ops, NEW d \in Edits, Line!Admit(p, d)
  PROVE  LineInv'
<1>1. /\ Current' = Current /\ AnswerNow' = AnswerNow
      /\ AskedNow[p] = {} /\ AskedNow' = [AskedNow EXCEPT ![p] = {d}]
  BY DEF Line!Admit, AskedNow, AnswerNow
<1>2. ASSUME NEW o \in Ops
      PROVE  AnswerOf(o)' = AnswerOf(o) /\ AskedOf(o)' = IF o = p THEN {d} ELSE AskedOf(o)
  BY <1>1 DEF AskedNow, AnswerNow
<1>3. AskedOf(p) = {}
  BY <1>1 DEF AskedNow
<1> QED BY <1>1, <1>2, <1>3 DEF LineInv, AnswersStand, AnswerStands, Extends

LEMMA LineCommits ==
  ASSUME LineInv, NEW p \in Ops, Line!Commit(p)
  PROVE  LineInv'
<1>1. PICK e \in AskedOf(p) : Current' = Append(Current, e)
  BY DEF Line!Commit
<1>2. AskedNow' = AskedNow /\ AnswerNow' = AnswerNow
  BY DEF Line!Commit, AskedNow, AnswerNow
<1>3. \A o \in Ops : AnswerOf(o)' = AnswerOf(o) /\ AskedOf(o)' = AskedOf(o)
  BY <1>2 DEF AskedNow, AnswerNow
<1>4. Current \in Manifests /\ Current' \in Manifests /\ Extends(Current', Current)
  BY <1>1, ExtendsByOne DEF LineInv
<1>5. ASSUME NEW o \in Ops, AnswerOf(o) # <<>> PROVE Extends(Current', AnswerOf(o))
  BY <1>4, <1>5, ExtendsThrough DEF LineInv, AnswersStand, AnswerStands
<1> QED BY <1>3, <1>4, <1>5 DEF LineInv, AnswersStand, AnswerStands, Extends

LEMMA LineAnswers ==
  ASSUME LineInv, NEW p \in Ops, Line!Answer(p)
  PROVE  LineInv'
<1>1. PICK e \in AskedOf(p), n \in 1..Len(Current) :
        /\ n > Len(p.target) /\ SubSeq(Current, 1, Len(p.target) + 1) = Append(p.target, e)
        /\ p.target # <<>> => n = Len(p.target) + 1
        /\ AnswerNow' = [AnswerNow EXCEPT ![p] = SubSeq(Current, 1, n)]
  BY DEF Line!Answer, AskedNow, AnswerNow
<1>2. Current' = Current /\ AskedNow' = AskedNow
  BY DEF Line!Answer, AskedNow
<1>3. ASSUME NEW o \in Ops
      PROVE  /\ AskedOf(o)' = AskedOf(o)
             /\ AnswerOf(o)' = IF o = p THEN SubSeq(Current, 1, n) ELSE AnswerOf(o)
  BY <1>1, <1>2 DEF AskedNow, AnswerNow
<1> DEFINE won  == SubSeq(Current, 1, n)
           goal == Append(p.target, e)
<1>4. /\ Current \in Seq(Edits) /\ p.target \in Seq(Edits) /\ e \in Edits
      /\ n \in Nat /\ n <= Len(Current)
  BY <1>1, Operations DEF LineInv, Manifests
<1>5. won \in Manifests /\ Len(won) = n /\ \A i \in 1..n : won[i] = Current[i]
  BY <1>1, <1>4 DEF Manifests
<1>6. goal \in Manifests /\ Len(goal) = Len(p.target) + 1
  BY <1>4, ExtendsByOne DEF Manifests
<1>7. \A i \in 1..(Len(p.target) + 1) : goal[i] = Current[i]
  <2> DEFINE k == Len(p.target) + 1
             part == SubSeq(Current, 1, k)
  <2>1. k \in Nat /\ k <= Len(Current)
    BY <1>1, <1>4
  <2> HIDE DEF k
  <2>2. \A i \in 1..k : part[i] = Current[i]
    BY <1>4, <2>1
  <2>3. part = goal
    BY <1>1 DEF k
  <2> HIDE DEF part
  <2> QED BY <2>2, <2>3 DEF k
<1> HIDE DEF won, goal
<1>a. Len(p.target) \in Nat /\ Len(goal) \in Nat /\ Len(goal) <= n
  BY <1>1, <1>4, <1>6
<1>b. \A i \in 1..Len(goal) : won[i] = goal[i]
  BY <1>4, <1>5, <1>6, <1>7, <1>a
<1>8. Extends(Current, won) /\ Extends(won, goal)
  BY <1>4, <1>5, <1>a, <1>b DEF Extends
<1>9. p.target # <<>> => won = goal
  <2>1. p.target # <<>> => Len(won) = Len(goal)
    BY <1>1, <1>5, <1>6
  <2>2. won \in Seq(Edits) /\ goal \in Seq(Edits)
    BY <1>5, <1>6 DEF Manifests
  <2> QED BY <1>b, <2>1, <2>2
<1>10. AnswerOf(p)' = won /\ AskedOf(p)' = AskedOf(p)
  BY <1>3 DEF won
<1>11. (AnswerOf(p) # <<>> => AnswerStands(p))'
  BY <1>1, <1>2, <1>8, <1>9, <1>10 DEF AnswerStands, Extends, goal
<1> QED BY <1>2, <1>3, <1>5, <1>10, <1>11 DEF LineInv, AnswersStand, AnswerStands, Extends

\* Whatever implements the line keeps its answers: what was answered with a revision has
\* taken effect and stays in the line of the current row (SuccessTookEffect).
THEOREM LineKeepsAnswers == KeepsLine => []AnswersStand
<1>1. Line!Init => LineInv
  <2> SUFFICES ASSUME Line!Init PROVE LineInv
    OBVIOUS
  <2>1. Current = <<>> /\ \A o \in Ops : AskedOf(o) = {} /\ AnswerOf(o) = <<>>
    <3>1. Current = <<>> /\ AskedNow = [o \in Ops |-> {}] /\ AnswerNow = [o \in Ops |-> <<>>]
      BY DEF Line!Init, AskedNow, AnswerNow
    <3> QED BY <3>1 DEF AskedNow, AnswerNow
  <2>2. <<>> \in Manifests
    BY DEF Manifests
  <2> QED BY <2>1, <2>2 DEF LineInv, AnswersStand
<1>2. ASSUME LineInv, [Line!Next]_(Line!vars) PROVE LineInv'
  <2>1. CASE UNCHANGED Line!vars
    <3>1. Current' = Current /\ AskedNow' = AskedNow /\ AnswerNow' = AnswerNow
      BY <2>1 DEF Line!vars, AskedNow, AnswerNow
    <3>2. \A o \in Ops : AskedOf(o)' = AskedOf(o) /\ AnswerOf(o)' = AnswerOf(o)
      BY <3>1 DEF AskedNow, AnswerNow
    <3> QED BY <1>2, <3>1, <3>2 DEF LineInv, AnswersStand, AnswerStands, Extends
  <2> QED BY <1>2, <2>1, LineAdmits, LineCommits, LineAnswers DEF Line!Next
<1>3. LineInv => AnswersStand
  BY DEF LineInv
<1> QED BY <1>1, <1>2, <1>3, PTL DEF KeepsLine, Line!Spec
=============================================================================
