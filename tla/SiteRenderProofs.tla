-------------------------- MODULE SiteRenderProofs --------------------------
(***************************************************************************)
(* The render queue, for any number of processes, requests, operations,    *)
(* recoveries, edits, cancellations, crashes and failures: a request has   *)
(* one result, accepted recoveries wait for their drain, and a checkpoint  *)
(* keeps what was asked for.                                               *)
(***************************************************************************)
EXTENDS SiteRender, FiniteSetTheorems, WellFoundedInduction, TLAPS

USE DEF NoId

LEMMA Parameters ==
    /\ NoNode \notin Nodes
    /\ Kinds \subseteq {"list", "group"} /\ Old \subseteq Queues
    /\ Queues \subseteq Nat \ {0} /\ OpIds \subseteq Nat \ {0} /\ MaxTroubles \in Nat
    /\ IsFiniteSet(Queues) /\ IsFiniteSet(OpIds)
<1>1. /\ IsFiniteSet(1..MaxQueues) /\ IsFiniteSet(1..MaxOps)
      /\ 1..MaxQueues \subseteq Nat \ {0} /\ 1..MaxOps \subseteq Nat \ {0}
  BY RenderAssumption, FS_Interval DEF RenderAssumption
<1> QED BY <1>1, RenderAssumption DEF RenderAssumption, Queues, OpIds

\* Of the sets of what is not above an element of S, the smallest is that of
\* the smallest element.
LEMMA MinimumIs ==
  ASSUME NEW S \in SUBSET Nat, IsFiniteSet(S), S # {}
  PROVE  Minimum(S) \in S
<1> DEFINE Down(x) == {y \in S : y <= x}
           T == {Down(x) : x \in S}
           R == StrictSubsetOrdering(S)
<1>1. T \subseteq FiniteSubsetsOf(S) /\ T # {}
  <2>1. \A x \in S : IsFiniteSet(Down(x))
    BY FS_Subset
  <2> QED BY <2>1 DEF FiniteSubsetsOf
<1>2. PICK U \in T : \A V \in T : ~(<<V, U>> \in R)
  <2> HIDE DEF T, R
  <2> QED BY <1>1, FS_StrictSubsetOrderingWellFounded, WFMin DEF R
<1>3. PICK x \in S : U = Down(x)
  <2> HIDE DEF Down, R
  <2> QED BY <1>2
<1>4. ASSUME NEW y \in S, y < x PROVE FALSE
  <2>0. x \in Nat /\ y \in Nat /\ \A z \in S : z \in Nat
    OBVIOUS
  <2>1. (\A z \in S : z <= y => z <= x) /\ x <= x /\ ~(x <= y)
    BY <2>0, <1>4
  <2>2. Down(y) \subseteq Down(x) /\ x \in Down(x) /\ x \notin Down(y)
    BY <2>1
  <2>3. <<Down(y), Down(x)>> \in R
    BY <2>2, <1>1, <1>3 DEF StrictSubsetOrdering
  <2> QED BY <2>3, <1>2, <1>3
<1>5. \A y \in S : x <= y
  BY <1>4
<1> QED BY <1>5 DEF Minimum

LEMMA NextOpIsNew ==
  ASSUME OpIds # Made
  PROVE  NextOp \in OpIds /\ NextOp \notin Made
<1>1. /\ OpIds \ Made \in SUBSET Nat /\ OpIds \ Made # {}
      /\ IsFiniteSet(OpIds \ Made)
  BY Parameters, FS_Subset DEF Made
<1>2. Minimum(OpIds \ Made) \in OpIds \ Made
  BY <1>1, MinimumIs
<1> QED BY <1>2 DEF NextOp

LEMMA NextRowIsNew ==
  ASSUME Queues # Added
  PROVE  Minimum(Queues \ Added) \in Queues /\ rows[Minimum(Queues \ Added)].kind = "none"
<1>1. /\ Queues \ Added \in SUBSET Nat /\ Queues \ Added # {}
      /\ IsFiniteSet(Queues \ Added)
  BY Parameters, FS_Subset DEF Added
<1>2. Minimum(Queues \ Added) \in Queues \ Added
  BY <1>1, MinimumIs
<1> QED BY <1>2 DEF Added

LEMMA OldestWaits ==
  ASSUME NEW n \in Nodes, Candidates(n) # {}
  PROVE  Minimum(Candidates(n)) \in Queues /\ rows[Minimum(Candidates(n))].waiting
<1>1. Candidates(n) \in SUBSET Waiting /\ Waiting \in SUBSET Queues
  BY DEF Candidates, Waiting
<1>2. Candidates(n) \in SUBSET Nat /\ IsFiniteSet(Candidates(n))
  BY <1>1, Parameters, FS_Subset
<1>3. Minimum(Candidates(n)) \in Candidates(n)
  BY <1>2, MinimumIs
<1> QED BY <1>1, <1>3 DEF Waiting

-----------------------------------------------------------------------------
(* What a change of one row, or of one operation, leaves alone.            *)

\* The parts of the type invariant.
LEMMA Typed ==
  ASSUME TypeOK
  PROVE  /\ version \in Nat /\ latest \in Nat /\ version \in 1..latest
         /\ rows \in [Queues -> RowType] /\ ops \in [OpIds -> OpType]
         /\ rendered \in [OpIds -> Nat]
         /\ site \in OpIds \cup {NoId} /\ lock \in Nodes \cup {NoNode}
         /\ pc \in [Nodes -> Steps] /\ target \in [Nodes -> Queues \cup {NoId}]
         /\ row \in [Nodes -> Queues \cup {NoId}] /\ op \in [Nodes -> OpIds \cup {NoId}]
         /\ result \in [Nodes -> OpIds \cup {NoId}]
         /\ troubles \in 0..MaxTroubles /\ troubles \in Nat
         /\ \A q \in Queues :
              /\ rows[q].op \in OpIds \cup {NoId} /\ rows[q].result \in OpIds \cup {NoId}
              /\ rows[q].frozen \in Nat
         /\ \A o \in OpIds : ops[o].queue \in Queues \cup {NoId}
<1>1. latest \in Nat /\ version \in Nat
  BY Parameters DEF TypeOK
<1>2. rows \in [Queues -> RowType] /\ ops \in [OpIds -> OpType]
  BY DEF TypeOK
<1>3. rendered \in [OpIds -> Nat]
  BY Parameters DEF TypeOK
<1>4. /\ troubles \in 0..MaxTroubles /\ troubles \in Nat
  BY Parameters DEF TypeOK
<1>5. \A q \in Queues :
         /\ rows[q].op \in OpIds \cup {NoId} /\ rows[q].result \in OpIds \cup {NoId}
         /\ rows[q].frozen \in Nat
  BY Parameters, <1>2 DEF RowType
<1>6. \A o \in OpIds : ops[o].queue \in Queues \cup {NoId}
  BY <1>2 DEF OpType
<1> QED BY <1>1, <1>2, <1>3, <1>4, <1>5, <1>6 DEF TypeOK

-----------------------------------------------------------------------------
(* The drain.                                                              *)

OwedTyped == owed \in [Nodes -> Nat]

DrainTyped ==
    /\ lock \in Nodes \cup {NoNode}
    /\ pc \in [Nodes -> Steps] /\ target \in [Nodes -> Queues \cup {NoId}]
    /\ row \in [Nodes -> Queues \cup {NoId}] /\ op \in [Nodes -> OpIds \cup {NoId}]
    /\ result \in [Nodes -> OpIds \cup {NoId}]
    /\ \A n \in Nodes : row[n] # NoId <=> pc[n] \notin {"down", "idle", "look", "leave"}
    /\ \A n \in Nodes : lock = n <=> pc[n] \notin {"down", "idle"}

LinksTyped == \A q \in Queues : rows[q].op # NoId => ops[rows[q].op].queue = q

DataTyped ==
    /\ version \in 1..latest /\ latest \in 1..(MaxTroubles + 1)
    /\ rows \in [Queues -> RowType] /\ ops \in [OpIds -> OpType]
    /\ rendered \in [OpIds -> 0..(MaxTroubles + 1)]
    /\ site \in OpIds \cup {NoId}
    /\ {reverted, unrecorded} \subseteq BOOLEAN
    /\ troubles \in 0..MaxTroubles
    /\ LinksTyped

DataInv ==
    DataTyped /\ VersionsGrow /\ RowsOK /\ OpsOK /\ OutputsOK /\ AcceptedStaysQueued

LEMMA Parts ==
    /\ IInv <=> OwedTyped /\ DrainTyped /\ DataInv /\ \A n \in Nodes : DrainOK(n)
    /\ IInv' <=> OwedTyped' /\ DrainTyped' /\ DataInv' /\ \A n \in Nodes : DrainOK(n)'
  BY DEF IInv, TypeOK, OwedTyped, DrainTyped, DataTyped, DataInv, LinksTyped

\* Only one process drains the queue.
LEMMA OneDrain ==
  ASSUME TypeOK, NEW n \in Nodes, pc[n] \notin {"down", "idle"}, NEW m \in Nodes, m # n
  PROVE  pc[m] \in {"down", "idle"} /\ row[m] = NoId
  BY DEF TypeOK

LEMMA FreeLock ==
  ASSUME TypeOK, NEW n \in Nodes, LockFree(n)
  PROVE  lock = NoNode /\ \A m \in Nodes : pc[m] \in {"down", "idle"} /\ row[m] = NoId
  BY Parameters DEF TypeOK, LockFree

\* A drain that has no row.
LEMMA EmptyDrain ==
  ASSUME NEW m \in Nodes, pc'[m] \in {"down", "idle", "look", "leave"}, row'[m] = NoId, op'[m] = NoId
  PROVE  DrainOK(m)'
  BY DEF DrainOK, DrainHasOp, DrainBegan, DrainHasResult, DrainIsCurrent

LEMMA OtherDrains ==
  ASSUME IInv, NEW n \in Nodes, pc[n] \notin {"down", "idle"}, NEW m \in Nodes, m # n,
         pc'[m] = pc[m], row'[m] = row[m], op'[m] = op[m]
  PROVE  DrainOK(m)'
<1>1. pc[m] \in {"down", "idle"} /\ row[m] = NoId
  BY OneDrain DEF IInv
<1>2. op[m] = NoId
  BY <1>1 DEF IInv, DrainOK, DrainHasOp
<1> QED BY <1>1, <1>2, EmptyDrain

\* A drain goes to another step of its row, or to a row.
LEMMA Moved ==
  ASSUME IInv, NEW n \in Nodes, pc[n] \notin {"down", "idle"},
         NEW s \in Steps \ {"down", "idle", "look", "leave"}, Goto(n, s), UNCHANGED <<lock, target>>,
         NEW q \in Queues, row' = [row EXCEPT ![n] = q],
         NEW o \in OpIds \cup {NoId}, op' = [op EXCEPT ![n] = o],
         NEW r \in OpIds \cup {NoId}, result' = [result EXCEPT ![n] = r],
         DrainOK(n)'
  PROVE  DrainTyped' /\ \A m \in Nodes : DrainOK(m)'
<1>1. DrainTyped'
  <2>1. pc' \in [Nodes -> Steps] /\ row' \in [Nodes -> Queues \cup {NoId}]
        /\ op' \in [Nodes -> OpIds \cup {NoId}] /\ result' \in [Nodes -> OpIds \cup {NoId}]
    BY DEF IInv, TypeOK, Goto
  <2>2. ASSUME NEW m \in Nodes
        PROVE  /\ row'[m] # NoId <=> pc'[m] \notin {"down", "idle", "look", "leave"}
               /\ lock' = m <=> pc'[m] \notin {"down", "idle"}
    <3>1. q # NoId
      BY Parameters
    <3>2. CASE m = n
      BY <3>1, <3>2 DEF IInv, TypeOK, Goto
    <3>3. CASE m # n
      BY <3>3 DEF IInv, TypeOK, Goto
    <3> QED BY <3>2, <3>3
  <2> QED BY <2>1, <2>2 DEF IInv, TypeOK, DrainTyped
<1>2. ASSUME NEW m \in Nodes, m # n PROVE DrainOK(m)'
  <2>1. pc'[m] = pc[m] /\ row'[m] = row[m] /\ op'[m] = op[m]
    BY <1>2 DEF IInv, TypeOK, Goto
  <2> QED BY <1>2, <2>1, OtherDrains
<1> QED BY <1>1, <1>2

\* A drain leaves its row, or the queue.
LEMMA Left ==
  ASSUME IInv, NEW n \in Nodes, pc[n] \notin {"down", "idle"}, Leave(n) \/ Next1(n)
  PROVE  DrainTyped' /\ \A m \in Nodes : DrainOK(m)'
<1>1. \/ UNCHANGED <<lock, target>> /\ Goto(n, "look")
      \/ lock' = NoNode /\ target' = [target EXCEPT ![n] = NoId] /\ Goto(n, "idle")
  <2>1. CASE Leave(n)
    BY <2>1 DEF Leave
  <2>2. CASE Next1(n) /\ target[n] = NoId
    BY <2>2 DEF Next1
  <2>3. CASE Next1(n) /\ target[n] # NoId
    BY <2>3 DEF Next1, Leave
  <2> QED BY <2>1, <2>2, <2>3
<1>2. /\ row' = [row EXCEPT ![n] = NoId] /\ op' = [op EXCEPT ![n] = NoId]
      /\ result' = [result EXCEPT ![n] = NoId]
  BY DEF Leave, Next1, Forget
<1>3. DrainTyped'
  <2>1. CASE UNCHANGED <<lock, target>> /\ Goto(n, "look")
    BY <2>1, <1>2 DEF IInv, TypeOK, DrainTyped, Goto, Steps
  <2>2. CASE lock' = NoNode /\ target' = [target EXCEPT ![n] = NoId] /\ Goto(n, "idle")
    BY <2>2, <1>2, Parameters DEF IInv, TypeOK, DrainTyped, Goto, Steps
  <2> QED BY <2>1, <2>2, <1>1
<1>4. DrainOK(n)'
  <2>1. pc'[n] \in {"look", "idle"} /\ row'[n] = NoId /\ op'[n] = NoId
    BY <1>1, <1>2 DEF IInv, TypeOK, Goto
  <2> QED BY <2>1, EmptyDrain
<1>5. ASSUME NEW m \in Nodes, m # n PROVE DrainOK(m)'
  <2>1. pc'[m] = pc[m] /\ row'[m] = row[m] /\ op'[m] = op[m]
    BY <1>5, <1>1, <1>2 DEF IInv, TypeOK, Goto
  <2> QED BY <1>5, <2>1, OtherDrains
<1> QED BY <1>3, <1>4, <1>5

-----------------------------------------------------------------------------
(* Steps that change neither rows nor operations.                          *)

Tables == <<version, latest, rows, ops, site, rendered>>

LEMMA TablesKept ==
  ASSUME IInv, UNCHANGED Tables, reverted' = reverted, unrecorded' \in BOOLEAN,
         troubles' \in troubles..MaxTroubles
  PROVE  DataInv'
<1>0. UNCHANGED <<version, latest, rows, ops, site, rendered>>
  BY DEF Tables
<1>1. troubles \in Nat /\ latest \in Nat /\ MaxTroubles \in Nat /\ troubles' \in Nat
  BY Typed, Parameters DEF IInv
<1>2. VersionsGrow'
  <2>1. latest <= troubles + 1
    BY DEF IInv, VersionsGrow
  <2>2. latest' = latest /\ troubles <= troubles'
    BY <1>0, <1>1
  <2>3. latest' <= troubles' + 1
    <3>1. \A a, b, c \in Nat : a <= b + 1 /\ b <= c => a <= c + 1
      OBVIOUS
    <3> QED BY <3>1, <2>1, <2>2, <1>1, Zenon
  <2> QED BY <2>3, <1>0 DEF IInv, VersionsGrow
<1>3. RowsOK' /\ AcceptedStaysQueued'
  BY <1>0 DEF IInv, RowsOK, AcceptedStaysQueued, Startable
<1>4. OpsOK'
  BY <1>0 DEF IInv, OpsOK, Made, HasReceipt
<1>5. OutputsOK'
  BY <1>0 DEF IInv, OutputsOK, Made, HasReceipt
<1>6. DataTyped'
  <2>1. {reverted', unrecorded'} \subseteq BOOLEAN
    BY DEF IInv, TypeOK
  <2>2. troubles' \in 0..MaxTroubles
    BY <1>1
  <2> QED BY <1>0, <2>1, <2>2 DEF IInv, TypeOK, DataTyped, LinksTyped
<1> QED BY <1>2, <1>3, <1>4, <1>5, <1>6 DEF DataInv

LEMMA TroubleKeeps ==
  ASSUME IInv, Trouble \/ troubles' = troubles
  PROVE  troubles' \in troubles..MaxTroubles
<1>1. troubles \in Nat /\ MaxTroubles \in Nat /\ troubles <= MaxTroubles
  BY Typed, Parameters DEF IInv
<1> QED BY <1>1 DEF Trouble

LEMMA StartInv ==
  ASSUME IInv, OwedTyped', NEW n \in Nodes, NEW q \in Queues \cup {NoId}, Start(n, q)
  PROVE  IInv'
<1>1. TypeOK'
  BY FreeLock DEF IInv, TypeOK, OwedTyped, Start, Goto, LockFree, Steps, dbVars, countVars
<1>2. DataInv'
  <2>1. /\ UNCHANGED Tables /\ reverted' = reverted /\ troubles' = troubles
        /\ unrecorded' \in BOOLEAN
    BY DEF Start, Tables, dbVars, countVars, IInv, TypeOK
  <2> QED BY <2>1, TroubleKeeps, TablesKept
<1>3. ASSUME NEW m \in Nodes PROVE DrainOK(m)'
  <2>1. pc[m] \in {"down", "idle"} /\ row[m] = NoId /\ op[m] = NoId
    BY FreeLock DEF IInv, Start, DrainOK, DrainHasOp
  <2>2. pc'[m] \in {"down", "idle", "look", "leave"}
    BY <2>1 DEF IInv, TypeOK, Start, Goto
  <2> QED BY <2>1, <2>2, EmptyDrain DEF Start
<1> QED BY <1>1, <1>2, <1>3 DEF IInv, DataInv

LEMMA LeaveInv ==
  ASSUME IInv, OwedTyped', NEW n \in Nodes, Unlock(n) \/ Breaks(n)
  PROVE  IInv'
<1>1. pc[n] \notin {"down", "idle"} /\ Leave(n)
  BY DEF Unlock, Breaks
<1>2. UNCHANGED Tables /\ reverted' = reverted /\ unrecorded' \in BOOLEAN
  BY DEF Unlock, Breaks, Tables, sourceVars, dbVars, countVars, IInv, TypeOK
<1>3. Trouble \/ troubles' = troubles
  BY DEF Unlock, Breaks, countVars
<1> QED BY <1>1, <1>2, <1>3, Left, TablesKept, TroubleKeeps, Parts

LEMMA IdleInv ==
  ASSUME IInv, OwedTyped', NEW n \in Nodes, Idle(n)
  PROVE  IInv'
<1>1. /\ pc[n] = "look" /\ pc' = [pc EXCEPT ![n] = "leave"]
      /\ UNCHANGED <<lock, target, row, op, result>>
  BY DEF Idle, Goto
<1>2. UNCHANGED Tables /\ reverted' = reverted /\ unrecorded' \in BOOLEAN /\ troubles' = troubles
  BY DEF Idle, Tables, sourceVars, dbVars, countVars, IInv, TypeOK
<1>3. DrainTyped'
  BY <1>1 DEF IInv, TypeOK, DrainTyped, Steps
<1>4. DrainOK(n)'
  <2>1. pc'[n] = "leave" /\ row'[n] = NoId /\ op'[n] = NoId
    BY <1>1 DEF IInv, TypeOK, DrainOK, DrainHasOp
  <2> QED BY <2>1, EmptyDrain
<1>5. ASSUME NEW m \in Nodes, m # n PROVE DrainOK(m)'
  <2>1. pc'[m] = pc[m] /\ row'[m] = row[m] /\ op'[m] = op[m]
    BY <1>5, <1>1 DEF IInv, TypeOK
  <2>2. pc[n] \notin {"down", "idle"}
    BY <1>1
  <2> QED BY <1>5, <2>1, <2>2, OtherDrains
<1> QED BY <1>2, <1>3, <1>4, <1>5, TablesKept, TroubleKeeps, Parts

LEMMA MoveInv ==
  ASSUME IInv, OwedTyped', NEW n \in Nodes, pc[n] \notin {"down", "idle"},
         NEW s \in Steps \ {"down", "idle", "look", "leave"}, Goto(n, s), UNCHANGED <<lock, target>>,
         NEW q \in Queues, row' = [row EXCEPT ![n] = q],
         NEW o \in OpIds \cup {NoId}, op' = [op EXCEPT ![n] = o],
         NEW r \in OpIds \cup {NoId}, result' = [result EXCEPT ![n] = r],
         UNCHANGED <<sourceVars, dbVars, rendered, reverted, unrecorded>>,
         Trouble \/ troubles' = troubles, DrainOK(n)'
  PROVE  IInv'
<1>1. UNCHANGED Tables /\ reverted' = reverted /\ unrecorded' \in BOOLEAN
  BY DEF Tables, sourceVars, dbVars, IInv, TypeOK
<1> QED BY <1>1, Moved, TablesKept, TroubleKeeps, Parts

LEMMA TakeInv ==
  ASSUME IInv, OwedTyped', NEW n \in Nodes, Take(n)
  PROVE  IInv'
<1> DEFINE q == Minimum(Candidates(n))
           o == rows[q].op
           s == IF o = NoId THEN "create" ELSE "link"
<1>1. q \in Queues /\ rows[q].waiting
  BY OldestWaits DEF Take
<1>2. o \in OpIds \cup {NoId} /\ rows[q].kind # "none"
  BY <1>1, Typed DEF IInv, RowsOK
<1> HIDE DEF q
<1>3. /\ row' = [row EXCEPT ![n] = q] /\ op' = [op EXCEPT ![n] = o] /\ Goto(n, s)
      /\ UNCHANGED <<lock, target, result, sourceVars, dbVars, rendered, countVars>>
      /\ pc[n] = "look" /\ (o = NoId \/ Startable(o))
  BY DEF Take, q
<1>4. s \in Steps \ {"down", "idle", "look", "leave"}
  BY DEF Steps
<1>5. /\ row'[n] = q /\ op'[n] = o /\ pc'[n] = s /\ rows' = rows /\ ops' = ops
      /\ rendered' = rendered
  BY <1>3 DEF IInv, TypeOK, Goto, dbVars
<1>6. DrainHasOp(n)'
  <2>1. o # NoId => ops[o].queue = q
    BY <1>1 DEF IInv, TypeOK
  <2>2. o # NoId => ops[o].of # NoId
    BY <1>2, <1>3 DEF IInv, OpsOK, Startable
  <2>3. q # NoId
    BY <1>1, Parameters
  <2> QED BY <1>1, <1>2, <1>5, <2>1, <2>2, <2>3 DEF DrainHasOp, IsAttempt
<1>7. DrainBegan(n)'
  <2>1. o # NoId => rendered[o] = 0
    BY <1>2, <1>3 DEF IInv, OpsOK, Startable
  <2> QED BY <1>5, <2>1, <1>6 DEF DrainBegan, DrainHasOp
<1>8. DrainHasResult(n)' /\ DrainIsCurrent(n)'
  BY <1>5 DEF DrainHasResult, DrainIsCurrent
<1>9. result' = [result EXCEPT ![n] = result[n]] /\ result[n] \in OpIds \cup {NoId}
  BY <1>3 DEF IInv, TypeOK
<1> QED BY <1>1, <1>2, <1>3, <1>4, <1>6, <1>7, <1>8, <1>9, MoveInv DEF DrainOK, countVars

LEMMA FindStaleInv ==
  ASSUME IInv, OwedTyped', NEW n \in Nodes, FindStale(n)
  PROVE  IInv'
<1> DEFINE q == Minimum(Candidates(n))
           o == rows[q].op
<1>1. q \in Queues /\ rows[q].waiting
  BY OldestWaits DEF FindStale
<1>2. o \in OpIds /\ rows[q].kind # "none"
  BY <1>1, Typed DEF IInv, RowsOK, FindStale
<1> HIDE DEF q
<1>3. /\ row' = [row EXCEPT ![n] = q] /\ op' = [op EXCEPT ![n] = o] /\ Goto(n, "stale")
      /\ UNCHANGED <<lock, target, result, sourceVars, dbVars, rendered, countVars>>
      /\ pc[n] = "look" /\ ~ops[o].running
  BY DEF FindStale, q
<1>4. "stale" \in Steps \ {"down", "idle", "look", "leave"}
  BY DEF Steps
<1>5. /\ row'[n] = q /\ op'[n] = o /\ pc'[n] = "stale" /\ rows' = rows /\ ops' = ops
      /\ rendered' = rendered
  BY <1>3 DEF IInv, TypeOK, Goto, dbVars
<1>6. DrainHasOp(n)'
  <2>1. o # NoId => ops[o].queue = q
    BY <1>1 DEF IInv, TypeOK
  <2>2. q # NoId /\ o # NoId
    BY <1>1, <1>2, Parameters
  <2> QED BY <1>2, <1>3, <1>5, <2>1, <2>2 DEF DrainHasOp
<1>7. DrainBegan(n)' /\ DrainHasResult(n)' /\ DrainIsCurrent(n)'
  BY <1>5 DEF DrainBegan, DrainHasResult, DrainIsCurrent
<1>8. result' = [result EXCEPT ![n] = result[n]] /\ result[n] \in OpIds \cup {NoId}
  BY <1>3 DEF IInv, TypeOK
<1> QED BY <1>1, <1>2, <1>3, <1>4, <1>6, <1>7, <1>8, MoveInv DEF DrainOK, countVars

\* A drain that has a row goes on with it.
LEMMA StayInv ==
  ASSUME IInv, OwedTyped', NEW n \in Nodes, row[n] # NoId,
         NEW s \in Steps \ {"down", "idle", "look", "leave"}, Goto(n, s),
         UNCHANGED <<lock, target, row, op>>,
         NEW r \in OpIds \cup {NoId}, result' = [result EXCEPT ![n] = r],
         UNCHANGED <<sourceVars, dbVars, rendered, reverted, unrecorded>>,
         Trouble \/ troubles' = troubles,
         DrainHasOp(n)', DrainBegan(n)', DrainHasResult(n)', DrainIsCurrent(n)'
  PROVE  IInv'
<1>1. /\ row[n] \in Queues /\ op[n] \in OpIds \cup {NoId} /\ pc[n] \notin {"down", "idle"}
      /\ row' = [row EXCEPT ![n] = row[n]] /\ op' = [op EXCEPT ![n] = op[n]]
  BY DEF IInv, TypeOK
<1> QED BY <1>1, MoveInv DEF DrainOK

\* What is known of a drain, and of what it goes on with.
LEMMA AtWork ==
  ASSUME IInv, NEW n \in Nodes, pc[n] \notin {"down", "idle", "look", "leave"}
  PROVE  /\ row[n] \in Queues /\ row[n] # NoId /\ rows[row[n]].kind # "none"
         /\ op[n] \in OpIds \cup {NoId} /\ result[n] \in OpIds \cup {NoId}
         /\ op[n] # NoId => op[n] \in OpIds /\ ops[op[n]].queue = row[n]
         /\ pc[n] \notin {"create", "drop"} => op[n] # NoId
         /\ DrainHasOp(n) /\ DrainBegan(n) /\ DrainHasResult(n) /\ DrainIsCurrent(n)
<1>1. row[n] # NoId /\ row[n] \in Queues /\ op[n] \in OpIds \cup {NoId}
      /\ result[n] \in OpIds \cup {NoId}
  BY DEF IInv, TypeOK
<1>2. DrainHasOp(n) /\ DrainBegan(n) /\ DrainHasResult(n) /\ DrainIsCurrent(n)
  BY DEF IInv, DrainOK
<1> QED BY <1>1, <1>2 DEF DrainHasOp

LEMMA PrepareInv ==
  ASSUME IInv, OwedTyped', NEW n \in Nodes, Prepare(n)
  PROVE  IInv'
<1> DEFINE r == rows[row[n]].result
           s == IF r # NoId THEN "check" ELSE IF SourcesOK(row[n]) THEN "render" ELSE "error"
<1>1. /\ pc[n] = "prepare" /\ row[n] \in Queues /\ row[n] # NoId /\ op[n] # NoId
      /\ DrainHasOp(n) /\ DrainBegan(n)
  BY AtWork DEF Prepare
<1>2. r \in OpIds \cup {NoId}
  BY <1>1, Typed DEF IInv
<1>3. /\ Goto(n, s) /\ result' = [result EXCEPT ![n] = r]
      /\ UNCHANGED <<lock, target, row, op, sourceVars, dbVars, rendered, countVars>>
  BY DEF Prepare
<1>4. s \in Steps \ {"down", "idle", "look", "leave"}
  BY DEF Steps
<1>5. /\ row' = row /\ op' = op /\ pc'[n] = s /\ rows' = rows /\ ops' = ops
      /\ rendered' = rendered /\ site' = site /\ result'[n] = r
  BY <1>3 DEF IInv, TypeOK, Goto, dbVars
<1> HIDE DEF r
<1>6. DrainHasOp(n)'
  BY <1>1, <1>5 DEF DrainHasOp
<1>7. DrainBegan(n)'
  BY <1>1, <1>5 DEF DrainBegan, Unbegun
<1>8. DrainHasResult(n)'
  BY <1>1, <1>5 DEF DrainHasResult, r
<1>9. DrainIsCurrent(n)'
  BY <1>1, <1>5 DEF DrainIsCurrent, r
<1> QED BY <1>1, <1>2, <1>3, <1>4, <1>6, <1>7, <1>8, <1>9, StayInv DEF countVars

LEMMA CheckInv ==
  ASSUME IInv, OwedTyped', NEW n \in Nodes, Check(n)
  PROVE  IInv'
<1> DEFINE s == IF ~HasReceipt(row[n]) THEN "close"
                ELSE IF ~Settled(n) THEN "error"
                ELSE IF rows[row[n]].result = NoId THEN "store" ELSE "close"
<1>1. /\ pc[n] = "check" /\ row[n] \in Queues /\ row[n] # NoId /\ op[n] # NoId
      /\ DrainHasOp(n) /\ DrainBegan(n) /\ DrainHasResult(n) /\ DrainIsCurrent(n)
      /\ result[n] \in OpIds \cup {NoId} /\ op[n] \in OpIds
  BY AtWork DEF Check
<1>2. /\ Goto(n, s)
      /\ UNCHANGED <<lock, target, row, op, result, sourceVars, dbVars, rendered, countVars>>
  BY DEF Check
<1>3. s \in Steps \ {"down", "idle", "look", "leave"}
  BY DEF Steps
<1>4. /\ row' = row /\ op' = op /\ pc'[n] = s /\ rows' = rows /\ ops' = ops
      /\ rendered' = rendered /\ site' = site /\ result' = result /\ version' = version
      /\ reverted' = reverted
  BY <1>2 DEF IInv, TypeOK, Goto, dbVars, sourceVars, countVars
<1>5. DrainHasOp(n)'
  BY <1>1, <1>4 DEF DrainHasOp
<1>6. DrainBegan(n)'
  BY <1>1, <1>4 DEF DrainBegan, Unbegun
<1>7. DrainHasResult(n)'
  <2>1. s = "store" => rows[row[n]].kind = "list" /\ rows[row[n]].result = NoId
    BY <1>1 DEF IInv, RowsOK, HasReceipt
  <2>2. s = "close" /\ HasReceipt(row[n]) => rows[row[n]].result = result[n]
    BY <1>1 DEF Settled
  <2> QED BY <1>1, <1>4, <2>1, <2>2 DEF DrainHasResult, HasReceipt
<1>8. DrainIsCurrent(n)'
  <2>1. ASSUME ~reverted, s = "store" PROVE rendered[result[n]] = rows[row[n]].frozen
    <3>1. rows[row[n]].result = NoId /\ version = rows[row[n]].frozen
      BY <2>1 DEF Settled, SourcesOK
    <3>2. result[n] = op[n]
      BY <3>1, <1>1 DEF DrainHasResult
    <3>3. rows[row[n]].frozen <= rendered[op[n]]
      BY <2>1, <3>1, <1>1 DEF DrainIsCurrent
    <3>4. version = latest /\ rendered[op[n]] <= latest
      BY <2>1, <1>1 DEF IInv, VersionsGrow
    <3>5. rendered[op[n]] \in Nat /\ latest \in Nat
      BY <1>1, Typed DEF IInv
    <3>6. rendered[op[n]] = latest
      BY <3>1, <3>3, <3>4, <3>5
    <3> QED BY <3>1, <3>2, <3>4, <3>6
  <2> QED BY <1>1, <1>4, <2>1 DEF DrainIsCurrent
<1>9. result' = [result EXCEPT ![n] = result[n]]
  BY <1>4 DEF IInv, TypeOK
<1> QED BY <1>1, <1>2, <1>3, <1>5, <1>6, <1>7, <1>8, <1>9, StayInv DEF countVars

LEMMA ThrowsInv ==
  ASSUME IInv, OwedTyped', NEW n \in Nodes, Throws(n)
  PROVE  IInv'
<1> DEFINE s == IF op[n] = NoId THEN "drop" ELSE "error"
<1>1. /\ pc[n] \notin {"down", "idle", "look", "leave", "drop"} /\ row[n] # NoId
      /\ DrainHasOp(n) /\ result[n] \in OpIds \cup {NoId}
  <2>1. pc[n] \notin {"down", "idle", "look", "leave", "drop"}
    BY DEF Throws
  <2> QED BY <2>1, AtWork
<1>2. /\ Goto(n, s) /\ Trouble
      /\ UNCHANGED <<lock, target, row, op, result, sourceVars, dbVars, rendered, reverted,
                     unrecorded>>
  BY DEF Throws
<1>3. s \in Steps \ {"down", "idle", "look", "leave"}
  BY DEF Steps
<1>4. row' = row /\ op' = op /\ pc'[n] = s /\ rows' = rows /\ ops' = ops
  BY <1>2 DEF IInv, TypeOK, Goto, dbVars
<1>5. DrainHasOp(n)'
  BY <1>1, <1>4 DEF DrainHasOp
<1>6. DrainBegan(n)' /\ DrainHasResult(n)' /\ DrainIsCurrent(n)'
  BY <1>4 DEF DrainBegan, DrainHasResult, DrainIsCurrent
<1>7. result' = [result EXCEPT ![n] = result[n]]
  BY <1>2 DEF IInv, TypeOK
<1> QED BY <1>1, <1>2, <1>3, <1>5, <1>6, <1>7, StayInv

LEMMA CrashInv ==
  ASSUME IInv, OwedTyped', NEW n \in Nodes, Crash(n)
  PROVE  IInv'
<1>1. /\ pc' = [pc EXCEPT ![n] = "down"] /\ row' = [row EXCEPT ![n] = NoId]
      /\ op' = [op EXCEPT ![n] = NoId] /\ result' = [result EXCEPT ![n] = NoId]
      /\ target' = [target EXCEPT ![n] = NoId]
      /\ lock' = IF lock = n THEN NoNode ELSE lock
  BY DEF Crash, Goto, Forget
<1>2. DrainTyped'
  BY <1>1, Parameters DEF IInv, TypeOK, DrainTyped, Steps
<1>3. DataInv'
  <2>1. UNCHANGED Tables /\ reverted' = reverted /\ unrecorded' \in BOOLEAN
    BY DEF Crash, Tables, sourceVars, dbVars, IInv, TypeOK
  <2> QED BY <2>1, TablesKept, TroubleKeeps DEF Crash
<1>4. ASSUME NEW m \in Nodes PROVE DrainOK(m)'
  <2>1. CASE m = n
    BY <2>1, <1>1, EmptyDrain DEF IInv, TypeOK
  <2>2. CASE m # n
    <3>1. pc'[m] = pc[m] /\ row'[m] = row[m] /\ op'[m] = op[m] /\ result'[m] = result[m]
      BY <1>1, <2>2 DEF IInv, TypeOK
    <3>2. UNCHANGED <<rows, ops, rendered, site, reverted>>
      BY DEF Crash, dbVars
    <3>3. DrainHasOp(m) /\ DrainBegan(m) /\ DrainHasResult(m) /\ DrainIsCurrent(m)
      BY DEF IInv, DrainOK
    <3>4. DrainHasOp(m)' /\ DrainBegan(m)'
      BY <3>1, <3>2, <3>3 DEF DrainHasOp, DrainBegan, IsAttempt, Unbegun
    <3>5. DrainHasResult(m)' /\ DrainIsCurrent(m)'
      BY <3>1, <3>2, <3>3 DEF DrainHasResult, DrainIsCurrent, HasReceipt
    <3> QED BY <3>4, <3>5 DEF DrainOK
  <2> QED BY <2>1, <2>2
<1> QED BY <1>2, <1>3, <1>4, Parts

-----------------------------------------------------------------------------
(* Steps that close rows.                                                  *)

\* Rows are closed, none of them one that an accepted recovery waits in.
ClosesRows ==
    /\ rows' \in [Queues -> RowType]
    /\ \A q \in Queues :
         /\ rows'[q].kind = rows[q].kind /\ rows'[q].op = rows[q].op
         /\ rows'[q].frozen = rows[q].frozen /\ rows'[q].result = rows[q].result
         /\ rows'[q].waiting => rows[q].waiting
         /\ Startable(rows[q].op) => rows'[q].waiting

LEMMA ClosedKeeps ==
  ASSUME IInv, ClosesRows, UNCHANGED <<version, latest, ops, site, rendered, countVars>>
  PROVE  DataInv'
<1>0. UNCHANGED <<version, latest, ops, site, rendered, reverted, unrecorded, troubles>>
  BY DEF countVars
<1>1. VersionsGrow'
  BY <1>0 DEF ClosesRows, IInv, VersionsGrow
<1>2. RowsOK'
  BY <1>0 DEF ClosesRows, IInv, RowsOK
<1>3. AcceptedStaysQueued'
  BY <1>0 DEF ClosesRows, AcceptedStaysQueued, Startable
<1>4. /\ Made' = Made
      /\ \A o \in Made : ops[o].queue \in Queues
      /\ \A q \in Queues : HasReceipt(q)' <=> HasReceipt(q)
  BY <1>0, Typed DEF ClosesRows, Made, HasReceipt, IInv
<1>5. OpsOK'
  <2>1. \A o \in OpIds : ops[o].of # NoId => o \in Made
    BY DEF IInv, OpsOK, NoOp
  <2> QED BY <2>1, <1>0, <1>4 DEF ClosesRows, IInv, OpsOK
<1>6. OutputsOK'
  BY <1>0, <1>4 DEF ClosesRows, IInv, OutputsOK
<1>7. DataTyped'
  BY <1>0 DEF ClosesRows, IInv, TypeOK, DataTyped, LinksTyped
<1> QED BY <1>1, <1>2, <1>3, <1>5, <1>6, <1>7 DEF DataInv

LEMMA CloseLinkedCloses ==
  ASSUME IInv, NEW n \in Nodes, CloseLinked(n), ~Startable(op[n])
  PROVE  ClosesRows
<1>1. ASSUME NEW q \in Queues
      PROVE  rows'[q] = IF q \in Linked(n) THEN [rows[q] EXCEPT !.waiting = FALSE] ELSE rows[q]
  BY DEF CloseLinked
<1>2. rows \in [Queues -> RowType]
  BY Typed DEF IInv
<1>3. ASSUME NEW q \in Queues
      PROVE  /\ rows'[q] \in RowType
             /\ rows'[q].kind = rows[q].kind /\ rows'[q].op = rows[q].op
             /\ rows'[q].frozen = rows[q].frozen /\ rows'[q].result = rows[q].result
             /\ rows'[q].waiting => rows[q].waiting
  BY <1>1, <1>2 DEF RowType
<1>4. ASSUME NEW q \in Queues, Startable(rows[q].op) PROVE rows'[q].waiting
  BY <1>1, <1>4 DEF Linked, IInv, AcceptedStaysQueued
<1>5. rows' \in [Queues -> RowType]
  BY <1>3 DEF CloseLinked
<1> QED BY <1>3, <1>4, <1>5 DEF ClosesRows

LEMMA CloseStaleInv ==
  ASSUME IInv, OwedTyped', NEW n \in Nodes, CloseStale(n)
  PROVE  IInv'
<1>1. pc[n] = "stale" /\ CloseLinked(n) /\ Next1(n)
  BY DEF CloseStale
<1>2. ~Startable(op[n])
  BY <1>1 DEF IInv, DrainOK, DrainHasOp, Startable
<1>3. DataInv'
  BY <1>1, <1>2, CloseLinkedCloses, ClosedKeeps DEF CloseStale, sourceVars
<1> QED BY <1>1, <1>3, Left, Parts

LEMMA CloseInv ==
  ASSUME IInv, OwedTyped', NEW n \in Nodes, Close(n)
  PROVE  IInv'
<1>1. /\ pc[n] = "close" /\ row[n] \in Queues /\ row[n] # NoId /\ op[n] # NoId
      /\ DrainHasOp(n) /\ DrainBegan(n) /\ DrainHasResult(n)
      /\ result[n] \in OpIds \cup {NoId} /\ op[n] \in OpIds
  BY AtWork DEF Close
<1>2. /\ CloseLinked(n) /\ Goto(n, "finish")
      /\ UNCHANGED <<sourceVars, ops, rendered, site, lock, target, row, op, result, countVars>>
  BY DEF Close
<1>3. ~Startable(op[n])
  BY <1>1 DEF DrainBegan, Startable
<1>4. ClosesRows /\ DataInv'
  BY <1>2, <1>3, CloseLinkedCloses, ClosedKeeps DEF sourceVars
<1>5. /\ pc'[n] = "finish" /\ row' = row /\ op' = op /\ result' = result /\ ops' = ops
      /\ rendered' = rendered /\ site' = site
  BY <1>2 DEF IInv, TypeOK, Goto
<1>6. rows[row[n]].op \in OpIds \cup {NoId}
  BY <1>1, Typed DEF IInv
<1>7. DrainHasOp(n)' /\ DrainBegan(n)'
  BY <1>1, <1>4, <1>5 DEF DrainHasOp, DrainBegan, ClosesRows, Unbegun
<1>8. DrainHasResult(n)' /\ DrainIsCurrent(n)'
  BY <1>1, <1>4, <1>5 DEF DrainHasResult, DrainIsCurrent, ClosesRows, HasReceipt
<1>9. /\ row' = [row EXCEPT ![n] = row[n]] /\ op' = [op EXCEPT ![n] = op[n]]
      /\ result' = [result EXCEPT ![n] = result[n]] /\ pc[n] \notin {"down", "idle"}
      /\ "finish" \in Steps \ {"down", "idle", "look", "leave"}
  BY <1>1, <1>2 DEF IInv, TypeOK, Steps
<1> QED BY <1>1, <1>2, <1>4, <1>7, <1>8, <1>9, Moved, Parts DEF DrainOK

LEMMA DropInv ==
  ASSUME IInv, OwedTyped', NEW n \in Nodes, Drop(n)
  PROVE  IInv'
<1>1. /\ pc[n] = "drop" /\ Next1(n) /\ row[n] \in Queues
      /\ rows' = [rows EXCEPT ![row[n]].waiting = FALSE] /\ rows[row[n]].op = NoId
  BY AtWork DEF Drop, DrainHasOp
<1>2. rows \in [Queues -> RowType]
  BY Typed DEF IInv
<1>3. ASSUME NEW q \in Queues
      PROVE  /\ rows'[q] \in RowType
             /\ rows'[q].kind = rows[q].kind /\ rows'[q].op = rows[q].op
             /\ rows'[q].frozen = rows[q].frozen /\ rows'[q].result = rows[q].result
             /\ rows'[q].waiting => rows[q].waiting
             /\ q # row[n] => rows'[q] = rows[q]
  <2>1. CASE q = row[n]
    <3>1. rows'[q] = [rows[q] EXCEPT !.waiting = FALSE] /\ rows[q] \in RowType
      BY <1>1, <1>2, <2>1
    <3> QED BY <2>1, <3>1 DEF RowType
  <2>2. CASE q # row[n]
    BY <1>1, <1>2, <2>2
  <2> QED BY <2>1, <2>2
<1>4. ASSUME NEW q \in Queues, Startable(rows[q].op) PROVE rows'[q].waiting
  BY <1>1, <1>3, <1>4 DEF Startable, IInv, AcceptedStaysQueued
<1>5. rows' \in [Queues -> RowType]
  BY <1>1, <1>2, <1>3
<1>6. DataInv'
  BY <1>3, <1>4, <1>5, ClosedKeeps DEF ClosesRows, Drop, sourceVars
<1> QED BY <1>1, <1>6, Left, Parts

-----------------------------------------------------------------------------
(* Steps that end operations, or bring them nearer to their end.           *)

EndsOps ==
    /\ ops' \in [OpIds -> OpType]
    /\ \A o \in OpIds :
         /\ ops'[o].queue = ops[o].queue /\ ops'[o].of = ops[o].of
         /\ ops[o].queue = NoId => ops'[o] = ops[o]
         /\ ops[o].of = NoId => ops'[o].state = ops[o].state
         /\ ops'[o].state = "pending" => ops[o].state = "pending"
         /\ ops'[o].running => ops[o].running
         /\ ~ops'[o].restarted => ~ops[o].restarted
         /\ ~ops'[o].cancel => ~ops[o].cancel

LEMMA EndedKeeps ==
  ASSUME IInv, EndsOps, UNCHANGED <<version, latest, rows, site, rendered, reverted, unrecorded>>,
         Trouble \/ troubles' = troubles
  PROVE  /\ DataTyped' /\ VersionsGrow' /\ RowsOK' /\ OpsOK' /\ AcceptedStaysQueued'
         /\ Made' = Made /\ \A q \in Queues : HasReceipt(q)' <=> HasReceipt(q)
<1>1. VersionsGrow'
  <2>1. /\ troubles \in Nat /\ latest \in Nat /\ MaxTroubles \in Nat
        /\ troubles' \in Nat /\ troubles <= troubles'
    <3>1. troubles' \in troubles..MaxTroubles
      BY TroubleKeeps
    <3> QED BY <3>1, Typed, Parameters DEF IInv
  <2>2. latest <= troubles + 1
    BY DEF IInv, VersionsGrow
  <2>3. latest' <= troubles' + 1
    <3>1. \A a, b, c \in Nat : a <= b + 1 /\ b <= c => a <= c + 1
      OBVIOUS
    <3> QED BY <3>1, <2>1, <2>2, Zenon
  <2> QED BY <2>3 DEF IInv, VersionsGrow
<1>2. Made' = Made /\ \A q \in Queues : HasReceipt(q)' <=> HasReceipt(q)
  BY DEF EndsOps, Made, HasReceipt
<1>3. RowsOK'
  BY DEF IInv, RowsOK
<1>4. OpsOK'
  <2>1. \A o \in OpIds : ops[o].of # NoId => o \in Made
    BY DEF IInv, OpsOK, NoOp
  <2>2. \A o \in Made : ops[o].queue \in Queues
    BY Typed DEF Made, IInv
  <2>3. ASSUME NEW o \in OpIds, o \notin Made PROVE ops'[o] = NoOp /\ rendered[o] = 0
    BY <2>3 DEF EndsOps, IInv, OpsOK, Made
  <2>4. ASSUME NEW o \in OpIds
        PROVE  /\ o \in Made => rows[ops'[o].queue].kind # "none"
               /\ ops'[o].of = NoId => ops'[o].state = "none"
               /\ ops'[o].of # NoId => HasReceipt(ops'[o].queue)
               /\ ops'[o].state = "pending" => rendered[o] = 0
    BY <2>1, <2>2 DEF EndsOps, IInv, OpsOK
  <2>5. \A q \in Queues : HasReceipt(q)' <=> HasReceipt(q)
    BY <1>2
  <2>6. site' # NoId => rendered'[site'] # 0
    BY DEF IInv, OpsOK
  <2> QED BY <1>2, <2>1, <2>2, <2>3, <2>4, <2>5, <2>6 DEF OpsOK, EndsOps
<1>5. AcceptedStaysQueued'
  <2>1. \A q \in Queues : rows[q].op \in OpIds \cup {NoId}
    BY Typed DEF IInv
  <2> QED BY <2>1 DEF EndsOps, AcceptedStaysQueued, Startable, IInv
<1>6. DataTyped'
  <2>1. LinksTyped'
    BY Typed DEF EndsOps, LinksTyped, IInv, TypeOK
  <2>2. troubles' \in 0..MaxTroubles
    BY Typed, Parameters, TroubleKeeps DEF IInv
  <2> QED BY <2>1, <2>2 DEF EndsOps, IInv, TypeOK, DataTyped
<1> QED BY <1>1, <1>2, <1>3, <1>4, <1>5, <1>6

\* Where no output is written, outputs still agree.
LEMMA OutputsKept ==
  ASSUME IInv, EndsOps, UNCHANGED rows, \A o \in OpIds : ops'[o].output = ops[o].output
  PROVE  OutputsOK'
<1>1. Made' = Made /\ \A q \in Queues : HasReceipt(q)' <=> HasReceipt(q)
  BY DEF EndsOps, Made, HasReceipt
<1>2. \A o \in Made : o \in OpIds /\ ops[o].queue \in Queues
  BY Typed DEF Made, IInv
<1> QED BY <1>1, <1>2 DEF EndsOps, OutputsOK, IInv

\* What a drain knows does not depend on what has ended.
LEMMA DrainKept ==
  ASSUME IInv, EndsOps, UNCHANGED <<rows, rendered, site, reverted>>,
         NEW m \in Nodes,
         pc'[m] = pc[m], row'[m] = row[m], op'[m] = op[m], result'[m] = result[m]
  PROVE  DrainOK(m)'
<1>1. DrainHasOp(m) /\ DrainBegan(m) /\ DrainHasResult(m) /\ DrainIsCurrent(m)
  BY DEF IInv, DrainOK
<1>2. op[m] \in OpIds \cup {NoId} /\ row[m] \in Queues \cup {NoId}
  BY DEF IInv, TypeOK
<1>3. DrainHasOp(m)'
  <2>1. /\ row[m] # NoId => rows[row[m]].kind # "none"
        /\ op[m] # NoId => row[m] # NoId /\ ops'[op[m]].queue = row[m]
        /\ pc[m] \in {"create", "drop"} => op[m] = NoId /\ rows[row[m]].op = NoId
        /\ row[m] # NoId /\ pc[m] \notin {"create", "drop"} => op[m] # NoId
    BY <1>1, <1>2 DEF DrainHasOp, EndsOps
  <2>2. pc[m] = "stale" => ~ops'[op[m]].running
    BY <1>1, <1>2 DEF DrainHasOp, EndsOps, IInv, TypeOK
  <2>3. /\ pc[m] \in {"mark", "complete", "fail"} => ops'[op[m]].of # NoId
        /\ pc[m] \in {"create", "link"} => rows[row[m]].waiting
        /\ pc[m] = "link" /\ ops'[op[m]].of = NoId => rows[row[m]].op = NoId
    BY <1>1, <1>2 DEF DrainHasOp, IsAttempt, EndsOps, IInv, TypeOK
  <2> QED BY <2>1, <2>2, <2>3 DEF DrainHasOp, IsAttempt
<1>4. DrainBegan(m)'
  <2>1. CASE row[m] = NoId
    BY <2>1 DEF DrainBegan, IInv, TypeOK
  <2>2. CASE row[m] # NoId
    <3>1. rows[row[m]].op \in OpIds \cup {NoId}
      BY <1>2, <2>2, Typed DEF IInv
    <3>2. op[m] \in OpIds \/ pc[m] \in {"create", "drop"}
      BY <1>1, <1>2, <2>2 DEF DrainHasOp
    <3> QED BY <1>1, <3>1, <3>2 DEF DrainBegan, Unbegun, EndsOps
  <2> QED BY <2>1, <2>2
<1>5. DrainHasResult(m)' /\ DrainIsCurrent(m)'
  BY <1>1 DEF DrainHasResult, DrainIsCurrent, HasReceipt
<1> QED BY <1>3, <1>4, <1>5 DEF DrainOK

\* The operation of a drain changes.
LEMMA OneOpEnds ==
  ASSUME IInv, NEW o \in OpIds, ops[o].queue # NoId, NEW v \in OpType,
         ops' = [ops EXCEPT ![o] = v],
         v.queue = ops[o].queue, v.of = ops[o].of,
         v.of = NoId => v.state = ops[o].state,
         v.state = "pending" => ops[o].state = "pending",
         v.running => ops[o].running, ~v.restarted => ~ops[o].restarted,
         ~v.cancel => ~ops[o].cancel
  PROVE  EndsOps
<1>1. ops \in [OpIds -> OpType]
  BY Typed DEF IInv
<1>2. \A a \in OpIds : ops'[a] = IF a = o THEN v ELSE ops[a]
  BY <1>1
<1>3. ops' \in [OpIds -> OpType]
  BY <1>1
<1> QED BY <1>2, <1>3 DEF EndsOps

LEMMA StateEnds ==
  ASSUME IInv, NEW o \in OpIds, ops[o].of # NoId, NEW s \in States \ {"pending"},
         ops' = [ops EXCEPT ![o].state = s]
  PROVE  EndsOps /\ ops'[o].state = s /\ \A a \in OpIds : ops'[a].output = ops[a].output
<1> DEFINE v == [ops[o] EXCEPT !.state = s]
<1>1. ops \in [OpIds -> OpType]
  BY Typed DEF IInv
<1>2. /\ v \in OpType /\ v.queue = ops[o].queue /\ v.of = ops[o].of /\ v.state = s
      /\ v.running = ops[o].running /\ v.restarted = ops[o].restarted
      /\ v.cancel = ops[o].cancel /\ v.output = ops[o].output
  BY <1>1 DEF OpType
<1>3. ops' = [ops EXCEPT ![o] = v]
  BY <1>1
<1>4. ops[o].queue # NoId
  BY DEF IInv, OpsOK, Made, NoOp
<1> HIDE DEF v
<1>5. /\ v.of = NoId => v.state = ops[o].state
      /\ v.state = "pending" => ops[o].state = "pending"
      /\ v.running => ops[o].running
      /\ ~v.restarted => ~ops[o].restarted
      /\ ~v.cancel => ~ops[o].cancel
  BY <1>2
<1>6. EndsOps
  BY <1>2, <1>3, <1>4, <1>5, OneOpEnds
<1> QED BY <1>1, <1>2, <1>3, <1>6

LEMMA CancelInv ==
  ASSUME IInv, OwedTyped', NEW o \in OpIds, Cancel(o)
  PROVE  IInv'
<1> DEFINE v == [ops[o] EXCEPT !.cancel = TRUE]
<1>1. ops \in [OpIds -> OpType]
  BY Typed DEF IInv
<1>2. /\ v \in OpType /\ v.queue = ops[o].queue /\ v.of = ops[o].of /\ v.state = ops[o].state
      /\ v.running = ops[o].running /\ v.restarted = ops[o].restarted
      /\ v.cancel /\ v.output = ops[o].output
  BY <1>1 DEF OpType
<1>3. ops' = [ops EXCEPT ![o] = v]
  BY <1>1 DEF Cancel
<1>4. ops[o].queue # NoId
  BY DEF Cancel, IInv, OpsOK, Made, NoOp
<1> HIDE DEF v
<1>5. EndsOps
  BY <1>2, <1>3, <1>4, OneOpEnds
<1>6. \A a \in OpIds : ops'[a].output = ops[a].output
  BY <1>1, <1>2, <1>3
<1>7. UNCHANGED <<version, latest, rows, site, rendered, reverted, unrecorded, lock, drainVars>>
  BY DEF Cancel, sourceVars
<1>8. DataInv'
  BY <1>5, <1>6, <1>7, EndedKeeps, OutputsKept DEF DataInv, Cancel
<1>9. DrainTyped'
  BY <1>7 DEF IInv, TypeOK, DrainTyped, drainVars
<1>10. \A m \in Nodes : DrainOK(m)'
  BY <1>5, <1>7, DrainKept DEF drainVars
<1> QED BY <1>8, <1>9, <1>10, Parts

LEMMA TickInv ==
  ASSUME IInv, OwedTyped', NEW n \in Nodes, NEW o \in OpIds, Tick(n, o)
  PROVE  IInv'
<1>1. ops[o].state = "pending" /\ ops[o].of # NoId /\ ops[o].queue \in Queues \cup {NoId}
  BY Typed DEF Tick, IInv, OpsOK
<1>2. CASE Start(n, ops[o].queue)
  BY <1>1, <1>2, StartInv
<1>3. CASE /\ ops' = [ops EXCEPT ![o].state = "interrupted"]
           /\ UNCHANGED <<sourceVars, rows, rendered, site, lock, drainVars, countVars>>
  <2>1. EndsOps /\ \A a \in OpIds : ops'[a].output = ops[a].output
    BY <1>1, <1>3, StateEnds DEF States
  <2>2. /\ UNCHANGED <<version, latest, rows, site, rendered, reverted, unrecorded, lock, drainVars>>
        /\ troubles' = troubles
    BY <1>3 DEF sourceVars, countVars
  <2>3. DataInv'
    BY <2>1, <2>2, EndedKeeps, OutputsKept DEF DataInv
  <2>4. DrainTyped'
    BY <2>2 DEF IInv, TypeOK, DrainTyped, drainVars
  <2>5. \A m \in Nodes : DrainOK(m)'
    BY <2>1, <2>2, DrainKept DEF drainVars
  <2> QED BY <2>3, <2>4, <2>5, Parts
<1> QED BY <1>2, <1>3 DEF Tick

LEMMA BootInv ==
  ASSUME IInv, OwedTyped', NEW n \in Nodes, Boot(n)
  PROVE  IInv'
<1>1. ops \in [OpIds -> OpType]
  BY Typed DEF IInv
<1>2. ASSUME NEW o \in OpIds
      PROVE  /\ Stopped(o) \in OpType /\ Stopped(o).queue = ops[o].queue
             /\ Stopped(o).of = ops[o].of /\ Stopped(o).state = ops[o].state
             /\ ~Stopped(o).running /\ Stopped(o).restarted
             /\ Stopped(o).cancel = ops[o].cancel /\ Stopped(o).output = ops[o].output
  BY <1>1 DEF Stopped, OpType
<1>3. ops' = [o \in OpIds |-> IF ops[o].running THEN Stopped(o) ELSE ops[o]]
  BY DEF Boot
<1>4. \A o \in OpIds : ops[o].queue = NoId => ~ops[o].running
  BY DEF IInv, OpsOK, Made, NoOp
<1>5. ops' \in [OpIds -> OpType]
  BY <1>1, <1>2, <1>3
<1>6. EndsOps
  BY <1>2, <1>3, <1>4, <1>5 DEF EndsOps
<1>7. \A a \in OpIds : ops'[a].output = ops[a].output
  BY <1>2, <1>3
<1>8. /\ UNCHANGED <<version, latest, rows, site, rendered, reverted, unrecorded, troubles>>
      /\ UNCHANGED <<lock, target, row, op, result>> /\ Goto(n, "idle") /\ pc[n] = "down"
  BY DEF Boot, sourceVars, countVars
<1>9. DataInv'
  BY <1>6, <1>7, <1>8, EndedKeeps, OutputsKept DEF DataInv
<1>10. DrainTyped'
  BY <1>8 DEF IInv, TypeOK, DrainTyped, Goto, Steps
<1>11. ASSUME NEW m \in Nodes PROVE DrainOK(m)'
  <2>1. CASE m = n
    <3>1. pc'[n] = "idle" /\ row'[n] = NoId
      BY <1>8 DEF IInv, TypeOK, Goto
    <3>2. op'[n] = NoId
      BY <1>8, <3>1 DEF IInv, DrainOK, DrainHasOp
    <3> QED BY <2>1, <3>1, <3>2, EmptyDrain
  <2>2. CASE m # n
    <3>1. pc'[m] = pc[m] /\ row'[m] = row[m] /\ op'[m] = op[m] /\ result'[m] = result[m]
      BY <1>8, <2>2 DEF IInv, TypeOK, Goto
    <3> QED BY <3>1, <1>6, <1>8, DrainKept
  <2> QED BY <2>1, <2>2
<1> QED BY <1>9, <1>10, <1>11, Parts

\* A drain stays with its row while the operation is written.
LEMMA OpMoved ==
  ASSUME IInv, NEW n \in Nodes, row[n] # NoId,
         NEW s \in Steps \ {"down", "idle", "look", "leave"}, Goto(n, s),
         UNCHANGED <<lock, target, row, op, result>>, DrainOK(n)'
  PROVE  DrainTyped' /\ \A m \in Nodes : DrainOK(m)'
<1>1. /\ row[n] \in Queues /\ op[n] \in OpIds \cup {NoId} /\ pc[n] \notin {"down", "idle"}
      /\ result[n] \in OpIds \cup {NoId}
      /\ row' = [row EXCEPT ![n] = row[n]] /\ op' = [op EXCEPT ![n] = op[n]]
      /\ result' = [result EXCEPT ![n] = result[n]]
  BY DEF IInv, TypeOK
<1> QED BY <1>1, Moved

LEMMA MarkInv ==
  ASSUME IInv, OwedTyped', NEW n \in Nodes, Mark(n)
  PROVE  IInv'
<1>1. /\ pc[n] = "mark" /\ row[n] \in Queues /\ row[n] # NoId /\ op[n] # NoId
      /\ DrainHasOp(n) /\ DrainBegan(n) /\ op[n] \in OpIds
  BY AtWork DEF Mark
<1>2. ops[op[n]].of # NoId
  BY <1>1 DEF DrainHasOp, IsAttempt
<1>3. /\ ops' = [ops EXCEPT ![op[n]].state = "running"] /\ Goto(n, "prepare")
      /\ UNCHANGED <<sourceVars, rows, rendered, site, lock, target, row, op, result, countVars>>
  BY DEF Mark, SetState
<1>4. /\ EndsOps /\ ops'[op[n]].state = "running"
      /\ \A a \in OpIds : ops'[a].output = ops[a].output
  BY <1>1, <1>2, <1>3, StateEnds DEF States
<1>5. DataInv'
  BY <1>3, <1>4, EndedKeeps, OutputsKept DEF DataInv, sourceVars, countVars
<1>6. pc'[n] = "prepare"
  BY <1>3 DEF IInv, TypeOK, Goto
<1>7. DrainHasOp(n)'
  BY <1>1, <1>3, <1>4, <1>6 DEF DrainHasOp, EndsOps
<1>8. DrainBegan(n)'
  <2>1. rows[row[n]].op \in OpIds \cup {NoId}
    BY <1>1, Typed DEF IInv
  <2> QED BY <1>1, <1>3, <1>4, <1>6, <2>1 DEF DrainBegan, Unbegun, EndsOps
<1>9. DrainHasResult(n)' /\ DrainIsCurrent(n)'
  BY <1>6 DEF DrainHasResult, DrainIsCurrent
<1>10. "prepare" \in Steps \ {"down", "idle", "look", "leave"}
  BY DEF Steps
<1> QED BY <1>1, <1>3, <1>5, <1>7, <1>8, <1>9, <1>10, OpMoved, Parts DEF DrainOK

\* The state of an attempt that ended is recorded.
LEMMA RecordedInv ==
  ASSUME IInv, OwedTyped', NEW n \in Nodes, Complete(n) \/ Fail(n)
  PROVE  IInv'
<1>1. /\ pc[n] \in {"complete", "fail"} /\ Next1(n)
      /\ UNCHANGED <<sourceVars, rows, rendered, site, countVars>>
  BY DEF Complete, Fail
<1>2. op[n] \in OpIds /\ ops[op[n]].of # NoId
  BY <1>1, AtWork DEF DrainHasOp, IsAttempt
<1>3. PICK s \in {"complete", "failed"} : ops' = [ops EXCEPT ![op[n]].state = s]
  BY DEF Complete, Fail, SetState
<1>4. s \in States \ {"pending"}
  BY DEF States
<1>5. EndsOps /\ \A a \in OpIds : ops'[a].output = ops[a].output
  BY <1>2, <1>3, <1>4, StateEnds
<1>6. DataInv'
  BY <1>1, <1>5, EndedKeeps, OutputsKept DEF DataInv, sourceVars, countVars
<1> QED BY <1>1, <1>6, Left, Parts

\* An operation ends, in success or not.
LEMMA EndOfOp ==
  ASSUME IInv, NEW n \in Nodes, pc[n] \notin {"down", "idle", "look", "leave", "create", "drop"},
         NEW x \in OpIds \cup {NoId},
         ops' = [ops EXCEPT ![op[n]].running = FALSE, ![op[n]].output = x]
  PROVE  /\ op[n] \in OpIds /\ EndsOps /\ ops'[op[n]].output = x
         /\ \A a \in OpIds : a # op[n] => ops'[a] = ops[a]
<1> DEFINE o == op[n]
           v == [ops[o] EXCEPT !.running = FALSE, !.output = x]
<1>1. ops \in [OpIds -> OpType] /\ o \in OpIds
  BY Typed, AtWork DEF IInv
<1>2. /\ v \in OpType /\ v.queue = ops[o].queue /\ v.of = ops[o].of /\ v.state = ops[o].state
      /\ ~v.running /\ v.restarted = ops[o].restarted
      /\ v.cancel = ops[o].cancel /\ v.output = x
  <2>1. ops[o] \in OpType
    BY <1>1
  <2> HIDE DEF o
  <2> QED BY <2>1 DEF OpType
<1>3. ops' = [ops EXCEPT ![o] = v]
  BY <1>1
<1>4. ops[o].queue # NoId
  BY AtWork
<1>5. v.of = NoId => v.state = ops[o].state
  BY <1>2 DEF IInv, OpsOK
<1> HIDE DEF v, o
<1>6. /\ v.state = "pending" => ops[o].state = "pending"
      /\ ~v.restarted => ~ops[o].restarted
      /\ ~v.cancel => ~ops[o].cancel
  BY <1>2
<1>7. EndsOps
  BY <1>1, <1>2, <1>3, <1>4, <1>5, <1>6, OneOpEnds
<1> QED BY <1>1, <1>2, <1>3, <1>7 DEF o

\* Of an operation that ended, an attempt's is recorded next.
LEMMA EndMoves ==
  ASSUME IInv, NEW n \in Nodes, pc[n] \notin {"down", "idle", "look", "leave", "create", "drop"},
         EndsOps, UNCHANGED <<rows, rendered>>, NEW s \in {"complete", "fail"},
         IF IsAttempt(n) THEN Goto(n, s) /\ UNCHANGED <<lock, target, row, op, result>>
                         ELSE Next1(n)
  PROVE  DrainTyped' /\ \A m \in Nodes : DrainOK(m)'
<1>1. CASE ~IsAttempt(n)
  BY <1>1, Left
<1>2. CASE IsAttempt(n)
  <2>1. /\ row[n] \in Queues /\ row[n] # NoId /\ op[n] # NoId /\ op[n] \in OpIds
        /\ DrainHasOp(n)
    BY AtWork
  <2>2. pc'[n] = s /\ s \in Steps \ {"down", "idle", "look", "leave"}
    BY <1>2 DEF IInv, TypeOK, Goto, Steps
  <2>3. DrainHasOp(n)'
    BY <1>2, <2>1, <2>2 DEF DrainHasOp, IsAttempt, EndsOps
  <2>4. DrainBegan(n)' /\ DrainHasResult(n)' /\ DrainIsCurrent(n)'
    BY <2>2 DEF DrainBegan, DrainHasResult, DrainIsCurrent
  <2> QED BY <1>2, <2>1, <2>2, <2>3, <2>4, OpMoved DEF DrainOK
<1> QED BY <1>1, <1>2

LEMMA FinishInv ==
  ASSUME IInv, OwedTyped', NEW n \in Nodes, Finish(n)
  PROVE  IInv'
<1>1. /\ pc[n] = "finish" /\ UNCHANGED <<sourceVars, rows, rendered, site, countVars>>
      /\ row[n] \in Queues /\ ops[op[n]].queue = row[n]
      /\ result[n] \in OpIds \cup {NoId} /\ DrainBegan(n) /\ DrainHasResult(n)
  BY AtWork DEF Finish
<1>2. /\ op[n] \in OpIds /\ EndsOps /\ ops'[op[n]].output = result[n]
      /\ \A a \in OpIds : a # op[n] => ops'[a] = ops[a]
  BY <1>1, EndOfOp DEF Finish
<1>3. /\ DataTyped' /\ VersionsGrow' /\ RowsOK' /\ OpsOK' /\ AcceptedStaysQueued'
      /\ Made' = Made /\ \A q \in Queues : HasReceipt(q)' <=> HasReceipt(q)
  BY <1>1, <1>2, EndedKeeps DEF sourceVars, countVars
<1>4. HasReceipt(row[n]) => rows[row[n]].result = result[n]
  BY <1>1 DEF DrainHasResult
<1>5. ~HasReceipt(row[n]) => rows[row[n]].op = op[n]
  <2>1. rows[row[n]].op = op[n] \/ Unbegun(rows[row[n]].op)
    BY <1>1 DEF DrainBegan
  <2>2. ASSUME Unbegun(rows[row[n]].op) PROVE HasReceipt(row[n])
    <3>1. rows[row[n]].op \in OpIds /\ ops[rows[row[n]].op].queue = row[n]
      BY <1>1, <2>2, Typed DEF Unbegun, IInv, TypeOK
    <3> QED BY <2>2, <3>1 DEF Unbegun, IInv, OpsOK
  <2> QED BY <2>1, <2>2
<1>6. OutputsOK'
  <2>1. ASSUME NEW o \in Made, ops'[o].output # NoId
        PROVE  /\ ops'[o].queue = ops[o].queue /\ ops[o].queue \in Queues
               /\ IF HasReceipt(ops[o].queue) THEN rows[ops[o].queue].result = ops'[o].output
                                              ELSE rows[ops[o].queue].op = o
    <3>1. ops'[o].queue = ops[o].queue /\ ops[o].queue \in Queues
      BY <1>2, Typed DEF EndsOps, Made, IInv
    <3>2. CASE o = op[n]
      BY <1>1, <1>2, <1>4, <1>5, <3>1, <3>2
    <3>3. CASE o # op[n]
      BY <1>2, <2>1, <3>1, <3>3 DEF IInv, OutputsOK, Made
    <3> QED BY <3>1, <3>2, <3>3
  <2> QED BY <1>1, <1>3, <2>1 DEF OutputsOK
<1>7. DrainTyped' /\ \A m \in Nodes : DrainOK(m)'
  BY <1>1, <1>2, EndMoves DEF Finish
<1> QED BY <1>3, <1>6, <1>7, Parts DEF DataInv

LEMMA ErrorInv ==
  ASSUME IInv, OwedTyped', NEW n \in Nodes, Error(n)
  PROVE  IInv'
<1>1. pc[n] = "error" /\ UNCHANGED <<sourceVars, rows, rendered, site, countVars>>
  BY DEF Error
<1>2. op[n] \in OpIds
  BY <1>1, AtWork
<1>3. /\ ops[op[n]].output \in OpIds \cup {NoId}
      /\ ops' = [ops EXCEPT ![op[n]].running = FALSE, ![op[n]].output = ops[op[n]].output]
  BY <1>2, Typed DEF Error, IInv, OpType
<1>4. /\ EndsOps /\ ops'[op[n]].output = ops[op[n]].output
      /\ \A a \in OpIds : a # op[n] => ops'[a] = ops[a]
  BY <1>1, <1>3, EndOfOp
<1>5. DataInv'
  BY <1>1, <1>4, EndedKeeps, OutputsKept DEF DataInv, sourceVars, countVars
<1>6. DrainTyped' /\ \A m \in Nodes : DrainOK(m)'
  BY <1>1, <1>4, EndMoves DEF Error
<1> QED BY <1>5, <1>6, Parts

-----------------------------------------------------------------------------
(* Requests, new operations and recoveries.                                *)

\* An operation that is created is new to everything.
LEMMA NewOp ==
  ASSUME IInv, OpIds # Made, NEW v \in OpType, v.queue # NoId,
         ops' = [ops EXCEPT ![NextOp] = v]
  PROVE  /\ NextOp \in OpIds /\ NextOp # NoId /\ rendered[NextOp] = 0 /\ site # NextOp
         /\ ops' \in [OpIds -> OpType] /\ ops'[NextOp] = v
         /\ \A a \in OpIds : a # NextOp => ops'[a] = ops[a]
         /\ NextOp \notin Made /\ Made' = Made \cup {NextOp}
         /\ \A q \in Queues : rows[q].op # NextOp
         /\ \A m \in Nodes : op[m] # NextOp
<1>1. NextOp \in OpIds /\ NextOp \notin Made /\ NextOp # NoId
  BY NextOpIsNew, Parameters
<1>2. rendered[NextOp] = 0 /\ ops[NextOp].queue = NoId
  BY <1>1 DEF IInv, OpsOK, Made
<1>3. site # NextOp
  BY <1>1, <1>2 DEF IInv, OpsOK
<1>4. ops \in [OpIds -> OpType]
  BY Typed DEF IInv
<1> HIDE DEF NextOp
<1>5. /\ ops' \in [OpIds -> OpType] /\ ops'[NextOp] = v
      /\ \A a \in OpIds : a # NextOp => ops'[a] = ops[a]
  BY <1>1, <1>4
<1>6. Made' = Made \cup {NextOp}
  BY <1>1, <1>5 DEF Made
<1>7. \A q \in Queues : rows[q].op # NextOp
  BY <1>1, <1>2, Parameters DEF IInv, TypeOK
<1>8. \A m \in Nodes : op[m] # NextOp
  BY <1>1, <1>2 DEF IInv, DrainOK, DrainHasOp
<1> QED BY <1>1, <1>2, <1>3, <1>5, <1>6, <1>7, <1>8

LEMMA CreateInv ==
  ASSUME IInv, OwedTyped', NEW n \in Nodes, Create(n)
  PROVE  IInv'
<1> DEFINE v == [NoOp EXCEPT !.queue = row[n], !.running = TRUE]
<1>1. /\ pc[n] = "create" /\ OpIds # Made /\ row[n] \in Queues /\ row[n] # NoId
      /\ rows[row[n]].kind # "none" /\ DrainHasOp(n) /\ result[n] \in OpIds \cup {NoId}
  BY AtWork DEF Create
<1>2. /\ v \in OpType /\ v.queue = row[n] /\ v.of = NoId /\ v.state = "none"
      /\ v.output = NoId
  BY <1>1 DEF OpType, NoOp, States
<1>3. /\ ops' = [ops EXCEPT ![NextOp] = v] /\ op' = [op EXCEPT ![n] = NextOp]
      /\ Goto(n, "link")
      /\ UNCHANGED <<version, latest, rows, rendered, site, lock, target, row, result,
                     reverted, unrecorded, troubles>>
  BY DEF Create, sourceVars, countVars
<1> HIDE DEF v
<1> DEFINE x == NextOp
<1>4. /\ x \in OpIds /\ x # NoId /\ rendered[x] = 0
      /\ ops' \in [OpIds -> OpType] /\ ops'[x] = v
      /\ \A a \in OpIds : a # x => ops'[a] = ops[a]
      /\ x \notin Made /\ Made' = Made \cup {x}
      /\ \A q \in Queues : rows[q].op # x
  BY <1>1, <1>2, <1>3, NewOp
<1>5. op' = [op EXCEPT ![n] = x]
  BY <1>3
<1> HIDE DEF x
<1>6. \A q \in Queues : /\ HasReceipt(q)' <=> HasReceipt(q)
                        /\ rows[q].op \in OpIds \cup {NoId}
  BY <1>3, Typed DEF HasReceipt, IInv
<1>7. VersionsGrow' /\ RowsOK'
  BY <1>3 DEF VersionsGrow, RowsOK, IInv
<1>8. OpsOK'
  <2>1. \A o \in Made : o \in OpIds /\ ops[o].queue \in Queues
    BY Typed DEF Made, IInv
  <2>2. \A o \in OpIds : ops[o].of # NoId => o \in Made
    BY DEF IInv, OpsOK, NoOp
  <2>3. ASSUME NEW o \in OpIds
        PROVE  /\ o \notin Made' => ops'[o] = NoOp /\ rendered[o] = 0
               /\ o \in Made' => rows[ops'[o].queue].kind # "none"
               /\ ops'[o].of = NoId => ops'[o].state = "none"
               /\ ops'[o].of # NoId => HasReceipt(ops[o].queue)'
               /\ ops'[o].state = "pending" => rendered[o] = 0
    <3>1. CASE o = x
      BY <3>1, <1>1, <1>2, <1>4
    <3>2. CASE o # x
      <4>1. ops'[o] = ops[o] /\ (o \in Made' <=> o \in Made)
        BY <3>2, <1>4
      <4>2. /\ o \notin Made => ops[o] = NoOp /\ rendered[o] = 0
            /\ o \in Made => rows[ops[o].queue].kind # "none"
            /\ ops[o].of = NoId => ops[o].state = "none"
            /\ ops[o].of # NoId => HasReceipt(ops[o].queue)
            /\ ops[o].state = "pending" => rendered[o] = 0
        BY DEF IInv, OpsOK
      <4>3. ops[o].of # NoId => HasReceipt(ops[o].queue)'
        BY <4>1, <4>2, <1>6, <2>1, <2>2
      <4> QED BY <4>1, <4>2, <4>3
    <3> QED BY <3>1, <3>2
  <2>4. site # NoId => rendered[site] # 0
    BY DEF OpsOK, IInv
  <2>5. \A o \in OpIds : ops'[o].of # NoId => ops'[o].queue = ops[o].queue
    BY <1>2, <1>4
  <2> QED BY <2>3, <2>4, <2>5, <1>3 DEF OpsOK
<1>9. OutputsOK'
  <2>1. \A o \in Made : o # x /\ o \in OpIds /\ ops[o].queue \in Queues
    BY <1>4, Typed DEF Made, IInv
  <2> QED BY <2>1, <1>2, <1>3, <1>4, <1>6 DEF OutputsOK, IInv
<1>10. AcceptedStaysQueued'
  BY <1>3, <1>4, <1>6 DEF AcceptedStaysQueued, Startable, IInv
<1>11. DataTyped'
  <2>1. LinksTyped'
    BY <1>3, <1>4, <1>6 DEF LinksTyped, IInv, TypeOK
  <2> QED BY <2>1, <1>3, <1>4 DEF DataTyped, IInv, TypeOK
<1>12. pc'[n] = "link" /\ op'[n] = x
  BY <1>3, <1>5 DEF IInv, TypeOK, Goto
<1>13. DrainHasOp(n)'
  BY <1>1, <1>2, <1>3, <1>4, <1>12 DEF DrainHasOp
<1>14. DrainBegan(n)' /\ DrainHasResult(n)' /\ DrainIsCurrent(n)'
  BY <1>3, <1>4, <1>12 DEF DrainBegan, DrainHasResult, DrainIsCurrent
<1>15. /\ row' = [row EXCEPT ![n] = row[n]] /\ result' = [result EXCEPT ![n] = result[n]]
       /\ "link" \in Steps \ {"down", "idle", "look", "leave"} /\ pc[n] \notin {"down", "idle"}
  BY <1>1, <1>3 DEF IInv, TypeOK, Steps
<1> QED BY <1>1, <1>3, <1>4, <1>5, <1>7, <1>8, <1>9, <1>10, <1>11, <1>13, <1>14, <1>15, Moved,
        Parts DEF DrainOK, DataInv

LEMMA AdmitInv ==
  ASSUME IInv, OwedTyped', NEW n \in Nodes, NEW kind \in Kinds, Admit(n, kind)
  PROVE  IInv'
<1> DEFINE q0 == Minimum(Queues \ Added)
           v == [NoRow EXCEPT !.kind = kind, !.waiting = TRUE,
                              !.frozen = IF kind = "list" THEN version ELSE NoId]
<1>1. q0 \in Queues /\ rows[q0].kind = "none"
  BY NextRowIsNew DEF Admit
<1>2. /\ rows' = [rows EXCEPT ![q0] = v]
      /\ UNCHANGED <<version, latest, ops, rendered, site, lock, drainVars, reverted, unrecorded,
                     troubles>>
  BY DEF Admit, sourceVars, countVars
<1>3. /\ kind \in {"list", "group"} /\ version \in Nat \ {0} /\ version <= latest
      /\ version \in 0..(MaxTroubles + 1)
  <2>1. version \in Nat /\ latest \in Nat /\ version \in 1..latest /\ latest <= MaxTroubles + 1
    BY Typed, Parameters DEF IInv, TypeOK
  <2> QED BY <2>1, Parameters
<1>4. /\ v \in RowType /\ v.kind = kind /\ v.waiting /\ v.op = NoId /\ v.result = NoId
      /\ v.frozen = IF kind = "list" THEN version ELSE NoId
  <2>1. (IF kind = "list" THEN version ELSE NoId) \in 0..(MaxTroubles + 1)
    BY <1>3, Parameters
  <2> QED BY <1>3, <2>1 DEF RowType, NoRow
<1> HIDE DEF q0, v
<1>5. /\ rows' \in [Queues -> RowType] /\ rows'[q0] = v
      /\ \A q \in Queues : q # q0 => rows'[q] = rows[q]
  BY <1>1, <1>2, <1>4, Typed DEF IInv
<1>6. \A o \in Made : o \in OpIds /\ ops[o].queue \in Queues /\ ops[o].queue # q0
  BY <1>1, Typed DEF Made, IInv, OpsOK
<1>7. \A q \in Queues : q # q0 => (HasReceipt(q)' <=> HasReceipt(q))
  BY <1>5 DEF HasReceipt
<1>8. Made' = Made
  BY <1>2 DEF Made
<1>9. VersionsGrow'
  <2>1. v.frozen <= latest
    BY <1>3, <1>4, Typed DEF IInv
  <2> QED BY <1>2, <1>5, <2>1 DEF VersionsGrow, IInv
<1>10. RowsOK'
  <2>1. kind # "none" /\ (v.frozen # NoId <=> kind = "list")
    BY <1>3, <1>4
  <2> QED BY <1>4, <1>5, <2>1 DEF RowsOK, IInv
<1>11. OpsOK'
  <2>1. \A o \in OpIds : ops[o].of # NoId => o \in Made
    BY DEF IInv, OpsOK, NoOp
  <2> QED BY <1>2, <1>5, <1>6, <1>7, <1>8, <2>1 DEF OpsOK, IInv
<1>12. OutputsOK'
  BY <1>2, <1>5, <1>6, <1>7, <1>8 DEF OutputsOK, IInv
<1>13. AcceptedStaysQueued'
  BY <1>2, <1>4, <1>5 DEF AcceptedStaysQueued, Startable, IInv
<1>14. DataTyped'
  BY <1>2, <1>4, <1>5 DEF DataTyped, LinksTyped, IInv, TypeOK
<1>15. DrainTyped'
  BY <1>2 DEF DrainTyped, IInv, TypeOK, drainVars
<1>16. ASSUME NEW m \in Nodes PROVE DrainOK(m)'
  <2>1. /\ pc' = pc /\ row' = row /\ op' = op /\ result' = result /\ ops' = ops
        /\ rendered' = rendered /\ site' = site
    BY <1>2 DEF drainVars
  <2>2. CASE row[m] = NoId
    <3>1. pc[m] \in {"down", "idle", "look", "leave"} /\ op[m] = NoId
      BY <2>2 DEF IInv, TypeOK, DrainOK, DrainHasOp
    <3> QED BY <2>1, <2>2, <3>1, EmptyDrain
  <2>3. CASE row[m] # NoId
    <3>1. /\ DrainHasOp(m) /\ DrainBegan(m) /\ DrainHasResult(m) /\ DrainIsCurrent(m)
          /\ row[m] \in Queues
      BY <2>3 DEF IInv, TypeOK, DrainOK
    <3>2. rows'[row[m]] = rows[row[m]]
      BY <1>1, <1>5, <2>3, <3>1 DEF DrainHasOp
    <3>3. DrainHasOp(m)' /\ DrainBegan(m)'
      BY <2>1, <3>1, <3>2 DEF DrainHasOp, DrainBegan, IsAttempt, Unbegun
    <3>4. DrainHasResult(m)' /\ DrainIsCurrent(m)'
      BY <2>1, <1>2, <3>1, <3>2 DEF DrainHasResult, DrainIsCurrent, HasReceipt
    <3> QED BY <3>3, <3>4 DEF DrainOK
  <2> QED BY <2>2, <2>3
<1> QED BY <1>9, <1>10, <1>11, <1>12, <1>13, <1>14, <1>15, <1>16, Parts DEF DataInv

LEMMA EditInv ==
  ASSUME IInv, OwedTyped', Edit
  PROVE  IInv'
<1>1. /\ version' \in 1..(latest + 1) \ {version}
      /\ latest' = IF version' > latest THEN version' ELSE latest
      /\ reverted' = (reverted \/ version' <= latest)
      /\ UNCHANGED <<rows, ops, site, rendered, lock, drainVars, unrecorded>>
      /\ troubles < MaxTroubles /\ troubles' = troubles + 1
  BY DEF Edit, Trouble, dbVars
<1>2. /\ latest \in Nat /\ latest \in 1..(MaxTroubles + 1) /\ troubles \in Nat
      /\ latest <= troubles + 1 /\ MaxTroubles \in Nat
  BY Typed, Parameters DEF IInv, TypeOK, VersionsGrow
<1>3. /\ version' \in 1..latest' /\ latest' \in 1..(MaxTroubles + 1) /\ latest <= latest'
      /\ latest' <= troubles' + 1 /\ latest' \in Nat /\ troubles' \in 0..MaxTroubles
  BY <1>1, <1>2
<1>4. ~reverted' => version' = latest' /\ ~reverted
  <2>1. ~reverted' => ~reverted /\ ~(version' <= latest)
    BY <1>1, Zenon
  <2>2. ~(version' <= latest) => version' = latest'
    BY <1>1, <1>2
  <2> QED BY <2>1, <2>2
<1>5. VersionsGrow'
  <2>1. \A a, b, c \in Nat : a <= b /\ b <= c => a <= c
    OBVIOUS
  <2>2. \A q \in Queues : rows[q].frozen \in Nat /\ rows[q].frozen <= latest
    BY Typed DEF IInv, VersionsGrow
  <2>3. \A o \in OpIds : rendered[o] \in Nat /\ rendered[o] <= latest
    BY Typed DEF IInv, VersionsGrow
  <2>4. /\ \A q \in Queues : rows[q].frozen <= latest'
        /\ \A o \in OpIds : rendered[o] <= latest'
    BY <1>2, <1>3, <2>1, <2>2, <2>3
  <2> QED BY <1>1, <1>3, <1>4, <2>4 DEF VersionsGrow
<1>6. RowsOK' /\ OpsOK' /\ OutputsOK' /\ AcceptedStaysQueued'
  <2>1. RowsOK' /\ AcceptedStaysQueued'
    BY <1>1 DEF RowsOK, AcceptedStaysQueued, Startable, IInv
  <2>2. OpsOK'
    BY <1>1 DEF OpsOK, Made, HasReceipt, IInv
  <2>3. OutputsOK'
    BY <1>1 DEF OutputsOK, Made, HasReceipt, IInv
  <2> QED BY <2>1, <2>2, <2>3
<1>7. DataTyped'
  <2>1. reverted' \in BOOLEAN
    BY <1>1 DEF IInv, TypeOK
  <2> QED BY <1>1, <1>3, <2>1 DEF DataTyped, LinksTyped, IInv, TypeOK
<1>8. DrainTyped'
  BY <1>1 DEF DrainTyped, IInv, TypeOK, drainVars
<1>9. ASSUME NEW m \in Nodes PROVE DrainOK(m)'
  <2>1. /\ pc' = pc /\ row' = row /\ op' = op /\ result' = result /\ rows' = rows /\ ops' = ops
        /\ rendered' = rendered /\ site' = site
    BY <1>1 DEF drainVars
  <2>2. DrainHasOp(m) /\ DrainBegan(m) /\ DrainHasResult(m) /\ DrainIsCurrent(m)
    BY DEF IInv, DrainOK
  <2>3. DrainHasOp(m)' /\ DrainBegan(m)'
    BY <2>1, <2>2 DEF DrainHasOp, DrainBegan, IsAttempt, Unbegun
  <2>4. DrainHasResult(m)'
    BY <2>1, <2>2 DEF DrainHasResult, HasReceipt
  <2>5. DrainIsCurrent(m)'
    BY <2>1, <2>2, <1>4 DEF DrainIsCurrent
  <2> QED BY <2>3, <2>4, <2>5 DEF DrainOK
<1> QED BY <1>5, <1>6, <1>7, <1>8, <1>9, Parts DEF DataInv

\* A recovery adopts what a drain of the row has published, and nothing else.
LEMMA AdoptedIs ==
  ASSUME IInv, NEW q \in Queues, rows[q].op # NoId
  PROVE  /\ Adopted(q, rows[q].op) \in OpIds \cup {NoId}
         /\ rows[q].result # NoId => Adopted(q, rows[q].op) = rows[q].result
         /\ Adopted(q, rows[q].op) # NoId /\ rows[q].result = NoId =>
              site = rows[q].op /\ Adopted(q, rows[q].op) = rows[q].op
         /\ rows[q].result = NoId /\ rows[q].kind # "group" /\ site = rows[q].op =>
              Adopted(q, rows[q].op) = rows[q].op
  BY Typed DEF IInv, Adopted, PublishedBy

LEMMA RecoverInv ==
  ASSUME IInv, OwedTyped', NEW n \in Nodes, NEW q \in Queues, Recover(n, q)
  PROVE  IInv'
<1> DEFINE o == rows[q].op
           d == Adopted(q, o)
           v == [NoOp EXCEPT !.queue = q, !.running = TRUE, !.of = o, !.state = "pending"]
           x == NextOp
           w == [rows[q] EXCEPT !.op = x, !.waiting = TRUE, !.result = d]
<1>1. /\ o # NoId /\ OpIds # Made
      /\ rows[q].kind = "list" \/ (rows[q].kind = "legacy" /\ d # NoId)
      /\ ops[o].output # NoId => ops[o].output = d
      /\ ops' = [ops EXCEPT ![x] = v]
      /\ rows' = [rows EXCEPT ![q].op = x, ![q].waiting = TRUE, ![q].result = d]
      /\ UNCHANGED <<version, latest, rendered, site, lock, drainVars, reverted, unrecorded,
                     troubles>>
  BY DEF Recover, sourceVars, countVars
<1>2. /\ d \in OpIds \cup {NoId} /\ o \in OpIds /\ rows[q] \in RowType
      /\ rows \in [Queues -> RowType]
      /\ rows[q].result # NoId => d = rows[q].result
      /\ d # NoId /\ rows[q].result = NoId => site = o /\ d = o
  BY <1>1, AdoptedIs, Typed DEF IInv
<1>3. /\ v \in OpType /\ v.queue = q /\ v.of = o /\ v.state = "pending" /\ v.output = NoId
      /\ v.queue # NoId
  BY <1>2, Parameters DEF OpType, NoOp, States
<1> HIDE DEF v
<1>4. /\ x \in OpIds /\ x # NoId /\ rendered[x] = 0 /\ site # x
      /\ ops' \in [OpIds -> OpType] /\ ops'[x] = v
      /\ \A a \in OpIds : a # x => ops'[a] = ops[a]
      /\ x \notin Made /\ Made' = Made \cup {x}
      /\ \A p \in Queues : rows[p].op # x
      /\ \A m \in Nodes : op[m] # x
  BY <1>1, <1>3, NewOp
<1> HIDE DEF x, d
<1>5. /\ w \in RowType /\ w.kind = rows[q].kind /\ w.waiting /\ w.op = x
      /\ w.frozen = rows[q].frozen /\ w.result = d
  BY <1>2, <1>4 DEF RowType
<1>6. rows' = [rows EXCEPT ![q] = w]
  BY <1>1, <1>2
<1> HIDE DEF w, o
<1>7. /\ rows' \in [Queues -> RowType] /\ rows'[q] = w
      /\ \A p \in Queues : p # q => rows'[p] = rows[p]
  BY <1>2, <1>5, <1>6
<1>8. HasReceipt(q)' /\ \A p \in Queues : p # q => (HasReceipt(p)' <=> HasReceipt(p))
  <2>1. rows[q].kind = "list" => rows[q].frozen # NoId
    BY DEF IInv, RowsOK
  <2> QED BY <1>1, <1>5, <1>7, <2>1 DEF HasReceipt
<1>9. \A a \in Made : a \in OpIds /\ ops[a].queue \in Queues /\ a # x
  BY <1>4, Typed DEF Made, IInv
<1>10. VersionsGrow'
  BY <1>1, <1>5, <1>7 DEF VersionsGrow, IInv
<1>11. RowsOK'
  BY <1>1, <1>5, <1>7 DEF RowsOK, IInv
<1>12. OpsOK'
  <2>1. ASSUME NEW a \in OpIds
        PROVE  /\ a \notin Made' => ops'[a] = NoOp /\ rendered[a] = 0
               /\ a \in Made' => rows'[ops'[a].queue].kind # "none"
               /\ ops'[a].of = NoId => ops'[a].state = "none"
               /\ ops'[a].of # NoId => HasReceipt(ops[a].queue)'
               /\ ops'[a].state = "pending" => rendered[a] = 0
    <3>1. CASE a = x
      <4>1. HasReceipt(ops[a].queue)'
        BY <3>1, <1>3, <1>4, <1>8
      <4>2. rows'[ops'[a].queue].kind # "none"
        BY <3>1, <1>1, <1>3, <1>4, <1>5, <1>7
      <4> QED BY <3>1, <4>1, <4>2, <1>1, <1>3, <1>4
    <3>2. CASE a # x
      <4>1. ops'[a] = ops[a] /\ (a \in Made' <=> a \in Made)
        BY <3>2, <1>4
      <4>2. /\ a \notin Made => ops[a] = NoOp /\ rendered[a] = 0
            /\ a \in Made => rows[ops[a].queue].kind # "none"
            /\ ops[a].of = NoId => ops[a].state = "none"
            /\ ops[a].of # NoId => HasReceipt(ops[a].queue) /\ a \in Made
            /\ ops[a].state = "pending" => rendered[a] = 0
        BY DEF IInv, OpsOK, NoOp
      <4>3. ops[a].of # NoId => HasReceipt(ops[a].queue)'
        BY <4>1, <4>2, <1>8, <1>9
      <4>4. a \in Made => rows'[ops[a].queue].kind # "none"
        BY <4>2, <1>5, <1>7, <1>9
      <4> QED BY <4>1, <4>2, <4>3, <4>4
    <3> QED BY <3>1, <3>2
  <2>2. site # NoId => rendered[site] # 0
    BY DEF OpsOK, IInv
  <2> QED BY <2>1, <2>2, <1>1 DEF OpsOK
<1>13. OutputsOK'
  <2>1. ASSUME NEW a \in Made', ops'[a].output # NoId
        PROVE  IF HasReceipt(ops[a].queue)' THEN rows'[ops'[a].queue].result = ops'[a].output
                                            ELSE rows'[ops'[a].queue].op = a
    <3>1. /\ a \in Made /\ a \in OpIds /\ ops'[a] = ops[a] /\ ops[a].queue \in Queues
          /\ ops[a].output # NoId
      BY <2>1, <1>3, <1>4, <1>9
    <3>2. IF HasReceipt(ops[a].queue) THEN rows[ops[a].queue].result = ops[a].output
                                      ELSE rows[ops[a].queue].op = a
      BY <3>1 DEF OutputsOK, IInv
    <3>3. CASE ops[a].queue # q
      BY <3>1, <3>2, <3>3, <1>7, <1>8
    <3>4. CASE ops[a].queue = q
      <4>1. ops[a].output = d
        BY <3>1, <3>2, <3>4, <1>1, <1>2 DEF o
      <4> QED BY <3>1, <3>4, <4>1, <1>5, <1>7, <1>8
    <3> QED BY <3>3, <3>4
  <2> QED BY <2>1 DEF OutputsOK
<1>14. AcceptedStaysQueued'
  BY <1>4, <1>5, <1>7, Typed DEF AcceptedStaysQueued, Startable, IInv
<1>15. DataTyped'
  <2>1. LinksTyped'
    BY <1>3, <1>4, <1>5, <1>7, Typed DEF LinksTyped, IInv, TypeOK
  <2> QED BY <2>1, <1>1, <1>4, <1>7 DEF DataTyped, IInv, TypeOK
<1>16. DrainTyped'
  BY <1>1 DEF DrainTyped, IInv, TypeOK, drainVars
<1>17. ASSUME NEW m \in Nodes PROVE DrainOK(m)'
  <2>1. /\ pc' = pc /\ row' = row /\ op' = op /\ result' = result
        /\ rendered' = rendered /\ site' = site /\ reverted' = reverted
    BY <1>1 DEF drainVars
  <2>2. CASE row[m] = NoId
    <3>1. pc[m] \in {"down", "idle", "look", "leave"} /\ op[m] = NoId
      BY <2>2 DEF IInv, TypeOK, DrainOK, DrainHasOp
    <3> QED BY <2>1, <2>2, <3>1, EmptyDrain
  <2>3. CASE row[m] # NoId
    <3>1. /\ DrainHasOp(m) /\ DrainBegan(m) /\ DrainHasResult(m) /\ DrainIsCurrent(m)
          /\ row[m] \in Queues /\ op[m] \in OpIds \cup {NoId}
      BY <2>3 DEF IInv, TypeOK, DrainOK
    <3>2. op[m] # NoId => ops'[op[m]] = ops[op[m]]
      BY <3>1, <1>4
    <3>3. rows[row[m]].op # NoId => ops'[rows[row[m]].op] = ops[rows[row[m]].op]
      BY <3>1, <1>4, Typed DEF IInv
    <3>4. CASE row[m] # q
      <4>1. rows'[row[m]] = rows[row[m]]
        BY <3>1, <3>4, <1>7
      <4>2. DrainHasOp(m)'
        BY <2>1, <2>3, <3>1, <3>2, <4>1 DEF DrainHasOp, IsAttempt
      <4>3. DrainBegan(m)'
        BY <2>1, <2>3, <3>1, <3>2, <3>3, <4>1 DEF DrainBegan, DrainHasOp, Unbegun
      <4>4. DrainHasResult(m)' /\ DrainIsCurrent(m)'
        BY <2>1, <3>1, <4>1 DEF DrainHasResult, DrainIsCurrent, HasReceipt
      <4> QED BY <4>2, <4>3, <4>4 DEF DrainOK
    <3>5. CASE row[m] = q
      <4>1. /\ rows'[row[m]] = w /\ w.kind = rows[q].kind /\ w.waiting /\ w.op = x
            /\ w.frozen = rows[q].frozen /\ w.result = d
        BY <3>5, <1>5, <1>7
      <4>2. pc[m] \notin {"create", "drop"} /\ op[m] # NoId
        BY <2>3, <3>1, <3>5, <1>1 DEF DrainHasOp, o
      <4>3. DrainHasOp(m)'
        <5>1. pc[m] = "link" => IsAttempt(m)
          BY <3>1, <3>5, <1>1 DEF DrainHasOp, o
        <5> QED BY <2>1, <2>3, <3>1, <3>2, <3>5, <4>1, <4>2, <5>1 DEF DrainHasOp, IsAttempt
      <4>4. DrainBegan(m)'
        <5>1. ops'[x].of # NoId
          BY <1>1, <1>3, <1>4
        <5> QED BY <2>1, <3>1, <3>2, <4>1, <4>2, <5>1, <1>4 DEF DrainBegan, Unbegun
      \* What the recovery adopts is the result the drain has.
      <4>5. /\ pc[m] \in {"render", "publish"} => d = NoId
            /\ pc[m] \in {"check", "store", "close", "finish"} => d \in {NoId, result[m]}
        <5>1. ASSUME d # NoId, rows[q].result = NoId,
                     pc[m] \in {"render", "publish", "check", "store", "close", "finish"}
              PROVE  op[m] = d /\ site = d
          <6>1. site = o /\ d = o /\ site # NoId
            BY <5>1, <1>2, <1>1
          <6>2. rendered[o] # 0
            BY <6>1 DEF IInv, OpsOK
          <6>3. o = op[m]
            BY <5>1, <6>2, <3>1, <3>5 DEF DrainBegan, Unbegun, o
          <6> QED BY <6>1, <6>3
        <5>2. pc[m] = "render" => rendered[op[m]] = 0
          BY <3>1 DEF DrainBegan
        <5>3. d # NoId => rendered[site] # 0 \/ site = NoId
          BY DEF IInv, OpsOK
        <5>4. pc[m] = "render" => d = NoId
          BY <5>1, <5>2, <5>3, <3>1, <3>5, <4>2 DEF DrainHasResult
        <5>5. pc[m] = "publish" => d = NoId
          BY <5>1, <3>1, <3>5 DEF DrainHasResult
        <5>6. pc[m] \in {"check", "store", "close", "finish"} => d \in {NoId, result[m]}
          BY <5>1, <3>1, <3>5, <1>2 DEF DrainHasResult
        <5> QED BY <5>4, <5>5, <5>6
      <4>6. rows[q].result # NoId => d # NoId
        BY <1>2
      <4>7. DrainHasResult(m)'
        <5>1. pc[m] \in {"close", "finish"} => d = result[m]
          <6>1. CASE rows[q].result # NoId
            BY <6>1, <4>5, <1>2
          <6>2. CASE rows[q].result = NoId /\ pc[m] \in {"close", "finish"}
            <7>1. result[m] = op[m] /\ (rows[q].kind = "group" \/ site = op[m])
                  /\ result[m] # NoId /\ ~HasReceipt(q)
              BY <6>2, <3>1, <3>5 DEF DrainHasResult
            <7>2. rows[q].kind = "legacy" /\ d # NoId
              BY <7>1, <1>1 DEF HasReceipt, IInv, RowsOK
            <7> QED BY <7>2, <4>5, <6>2
          <6> QED BY <6>1, <6>2
        <5> QED BY <2>1, <3>1, <3>5, <4>1, <4>5, <5>1, <1>2 DEF DrainHasResult, HasReceipt
      <4>8. DrainIsCurrent(m)'
        BY <2>1, <3>1, <3>5, <4>1, <4>6 DEF DrainIsCurrent
      <4> QED BY <4>3, <4>4, <4>7, <4>8 DEF DrainOK
    <3> QED BY <3>4, <3>5
  <2> QED BY <2>2, <2>3
<1> QED BY <1>10, <1>11, <1>12, <1>13, <1>14, <1>15, <1>16, <1>17, Parts DEF DataInv

-----------------------------------------------------------------------------
(* The steps of a render.                                                  *)

LEMMA LinkInv ==
  ASSUME IInv, OwedTyped', NEW n \in Nodes, Link(n)
  PROVE  IInv'
<1> DEFINE q == row[n]
           o == op[n]
           w == [rows[q] EXCEPT !.op = o]
           s == IF IsAttempt(n) THEN "mark" ELSE "prepare"
<1>1. /\ pc[n] = "link" /\ q \in Queues /\ q # NoId /\ o # NoId /\ o \in OpIds
      /\ ops[o].queue = q /\ rows[q].kind # "none" /\ DrainHasOp(n) /\ DrainBegan(n)
  BY AtWork DEF Link
<1>2. /\ rows' = [rows EXCEPT ![q].op = o] /\ Goto(n, s)
      /\ UNCHANGED <<version, latest, ops, rendered, site, lock, target, row, op, result,
                     reverted, unrecorded, troubles>>
  BY DEF Link, sourceVars, countVars
<1>3. rows \in [Queues -> RowType] /\ rows[q] \in RowType
  BY <1>1, Typed DEF IInv
<1>4. rows[q].waiting /\ (~IsAttempt(n) => rows[q].op = NoId)
  BY <1>1 DEF DrainHasOp
<1> HIDE DEF q, o
<1>5. /\ w \in RowType /\ w.kind = rows[q].kind /\ w.waiting /\ w.op = o
      /\ w.frozen = rows[q].frozen /\ w.result = rows[q].result
  BY <1>1, <1>3, <1>4 DEF RowType
<1>6. rows' = [rows EXCEPT ![q] = w]
  BY <1>1, <1>2, <1>3
<1> HIDE DEF w
<1>7. /\ rows' \in [Queues -> RowType] /\ rows'[q] = w
      /\ \A p \in Queues : p # q => rows'[p] = rows[p]
  BY <1>1, <1>3, <1>5, <1>6
<1>8. /\ Made' = Made /\ \A p \in Queues : HasReceipt(p)' <=> HasReceipt(p)
      /\ \A a \in Made : a \in OpIds /\ ops[a].queue \in Queues
  BY <1>2, <1>5, <1>7, Typed DEF Made, HasReceipt, IInv
<1>9. VersionsGrow' /\ RowsOK'
  <2>1. VersionsGrow'
    BY <1>2, <1>5, <1>7 DEF VersionsGrow, IInv
  <2>2. RowsOK'
    BY <1>1, <1>5, <1>7 DEF RowsOK, IInv
  <2> QED BY <2>1, <2>2
<1>10. OpsOK'
  <2>1. \A a \in OpIds : ops[a].of # NoId => a \in Made
    BY DEF IInv, OpsOK, NoOp
  <2>2. \A p \in Queues : rows'[p].kind = rows[p].kind
    BY <1>5, <1>7
  <2> QED BY <1>2, <1>8, <2>1, <2>2 DEF OpsOK, IInv
<1>11. OutputsOK'
  <2>1. ASSUME NEW a \in Made, ops[a].output # NoId
        PROVE  IF HasReceipt(ops[a].queue) THEN rows'[ops[a].queue].result = ops[a].output
                                           ELSE rows'[ops[a].queue].op = a
    <3>1. IF HasReceipt(ops[a].queue) THEN rows[ops[a].queue].result = ops[a].output
                                      ELSE rows[ops[a].queue].op = a
      BY <2>1 DEF OutputsOK, IInv
    <3>2. CASE ops[a].queue # q \/ HasReceipt(ops[a].queue)
      BY <3>1, <3>2, <1>5, <1>7, <1>8
    <3>3. CASE ops[a].queue = q /\ ~HasReceipt(q)
      <4>1. ~IsAttempt(n)
        BY <3>3, <1>1 DEF IsAttempt, IInv, OpsOK, o
      <4>2. rows[q].op = a /\ a # NoId
        BY <3>1, <3>3, <1>8, Parameters
      <4> QED BY <4>1, <4>2, <1>4
    <3> QED BY <3>2, <3>3
  <2>2. /\ ops' = ops /\ \A a \in Made : HasReceipt(ops[a].queue)' <=> HasReceipt(ops[a].queue)
    BY <1>2, <1>8
  <2> QED BY <1>2, <1>8, <2>1, <2>2 DEF OutputsOK
<1>12. AcceptedStaysQueued'
  BY <1>2, <1>5, <1>7 DEF AcceptedStaysQueued, Startable, IInv
<1>13. DataTyped'
  <2>1. LinksTyped'
    BY <1>1, <1>2, <1>5, <1>7 DEF LinksTyped, IInv, TypeOK
  <2> QED BY <2>1, <1>2, <1>7 DEF DataTyped, IInv, TypeOK
<1>14. pc'[n] = s /\ s \in Steps \ {"down", "idle", "look", "leave"} /\ row'[n] = q /\ op'[n] = o
  BY <1>2 DEF IInv, TypeOK, Goto, Steps, q, o
<1>15. DrainHasOp(n)'
  BY <1>1, <1>2, <1>5, <1>7, <1>14 DEF DrainHasOp, IsAttempt, q, o
<1>16. DrainBegan(n)'
  <2>1. s = "prepare" => ops[o].state # "pending"
    BY <1>1 DEF IsAttempt, IInv, OpsOK, o
  <2> QED BY <1>1, <1>2, <1>5, <1>7, <1>14, <2>1 DEF DrainBegan, q, o
<1>17. DrainHasResult(n)' /\ DrainIsCurrent(n)'
  BY <1>14 DEF DrainHasResult, DrainIsCurrent
<1>18. DrainTyped' /\ \A m \in Nodes : DrainOK(m)'
  BY <1>1, <1>2, <1>14, <1>15, <1>16, <1>17, OpMoved DEF DrainOK, q
<1> QED BY <1>9, <1>10, <1>11, <1>12, <1>13, <1>18, Parts DEF DataInv

LEMMA RenderInv ==
  ASSUME IInv, OwedTyped', NEW n \in Nodes, Render(n)
  PROVE  IInv'
<1> DEFINE o == op[n]
<1>1. /\ pc[n] = "render" /\ row[n] \in Queues /\ row[n] # NoId /\ o \in OpIds
      /\ ops[o].queue = row[n] /\ rows[row[n]].kind # "none"
      /\ DrainHasOp(n) /\ DrainBegan(n) /\ DrainHasResult(n)
  BY AtWork DEF Render
<1>2. /\ rendered' = [rendered EXCEPT ![o] = version] /\ result' = [result EXCEPT ![n] = o]
      /\ Goto(n, "publish")
      /\ UNCHANGED <<version, latest, rows, ops, site, lock, target, row, op,
                     reverted, unrecorded, troubles>>
  BY DEF Render, sourceVars, dbVars, countVars
<1>3. /\ rendered[o] = 0 /\ ops[o].state # "pending" /\ o \in Made /\ o # NoId /\ site # o
      /\ rows[row[n]].op \in OpIds \cup {NoId}
      /\ rows[row[n]].op = o \/ Unbegun(rows[row[n]].op)
  <2>1. rendered[o] = 0 /\ ops[o].state # "pending"
        /\ (rows[row[n]].op = o \/ Unbegun(rows[row[n]].op))
    BY <1>1 DEF DrainBegan
  <2>2. o \in Made /\ o # NoId
    BY <1>1, Parameters DEF Made
  <2> QED BY <1>1, <2>1, <2>2, Typed DEF IInv, OpsOK
<1>4. /\ version \in Nat \ {0} /\ version <= latest /\ version \in 0..(MaxTroubles + 1)
      /\ latest \in Nat
  <2>1. version \in Nat /\ latest \in Nat /\ version \in 1..latest /\ latest <= MaxTroubles + 1
    BY Typed, Parameters DEF IInv, TypeOK
  <2> QED BY <2>1, Parameters
<1> HIDE DEF o
<1>5. \A a \in OpIds : rendered'[a] = IF a = o THEN version ELSE rendered[a]
  BY <1>1, <1>2 DEF IInv, TypeOK
<1>6. /\ Made' = Made /\ (\A p : HasReceipt(p)' <=> HasReceipt(p))
  BY <1>2 DEF Made, HasReceipt
<1>7. VersionsGrow'
  BY <1>2, <1>4, <1>5 DEF VersionsGrow, IInv
<1>8. RowsOK' /\ AcceptedStaysQueued'
  BY <1>2 DEF RowsOK, AcceptedStaysQueued, Startable, IInv
<1>9. OpsOK'
  <2>1. ASSUME NEW a \in OpIds
        PROVE  /\ a \notin Made => rendered'[a] = 0
               /\ ops[a].state = "pending" => rendered'[a] = 0
    BY <1>3, <1>5 DEF IInv, OpsOK
  <2>2. site # NoId => rendered'[site] # 0
    BY <1>4, <1>5 DEF IInv, OpsOK, TypeOK
  <2> QED BY <1>2, <1>6, <2>1, <2>2 DEF OpsOK, IInv, HasReceipt
<1>10. OutputsOK'
  BY <1>2, <1>6 DEF OutputsOK, IInv, HasReceipt
<1>11. DataTyped'
  <2>1. rendered' \in [OpIds -> 0..(MaxTroubles + 1)]
    BY <1>2, <1>4 DEF IInv, TypeOK
  <2> QED BY <1>2, <2>1 DEF DataTyped, LinksTyped, IInv, TypeOK
<1>12. /\ pc'[n] = "publish" /\ row' = row /\ op' = op /\ result'[n] = o /\ rows' = rows
       /\ ops' = ops /\ site' = site /\ reverted' = reverted
       /\ "publish" \in Steps \ {"down", "idle", "look", "leave"}
  BY <1>2 DEF IInv, TypeOK, Goto, Steps
<1>13. DrainHasOp(n)'
  BY <1>1, <1>12 DEF DrainHasOp
<1>14. DrainBegan(n)'
  <2>1. rows[row[n]].op = o \/ Unbegun(rows[row[n]].op)'
    BY <1>3, <1>5, <1>12 DEF Unbegun
  <2> QED BY <1>3, <1>12, <2>1 DEF DrainBegan, o, Unbegun
<1>15. DrainHasResult(n)'
  <2>1. rendered'[o] # 0
    BY <1>1, <1>4, <1>5
  <2> QED BY <1>1, <1>3, <1>12, <2>1 DEF DrainHasResult, o
<1>16. DrainIsCurrent(n)'
  <2>1. ~reverted => rows[row[n]].frozen <= rendered'[o]
    BY <1>1, <1>5 DEF IInv, VersionsGrow
  <2> QED BY <1>12, <2>1 DEF DrainIsCurrent, o
<1>17. DrainTyped' /\ \A m \in Nodes : DrainOK(m)'
  <2>1. /\ row' = [row EXCEPT ![n] = row[n]] /\ op' = [op EXCEPT ![n] = o]
        /\ pc[n] \notin {"down", "idle"}
    BY <1>1, <1>2 DEF IInv, TypeOK, o
  <2> QED BY <1>1, <1>2, <1>12, <1>13, <1>14, <1>15, <1>16, <2>1, Moved DEF DrainOK
<1> QED BY <1>7, <1>8, <1>9, <1>10, <1>11, <1>17, Parts DEF DataInv

LEMMA PublishInv ==
  ASSUME IInv, OwedTyped', NEW n \in Nodes, Publish(n)
  PROVE  IInv'
<1>1. /\ pc[n] = "publish" /\ row[n] \in Queues /\ row[n] # NoId /\ op[n] \in OpIds
      /\ rows[row[n]].kind # "none" /\ op[n] # NoId
      /\ DrainHasOp(n) /\ DrainBegan(n) /\ DrainHasResult(n) /\ DrainIsCurrent(n)
      /\ result[n] \in OpIds \cup {NoId}
  BY AtWork DEF Publish
<1>2. /\ site' = IF rows[row[n]].kind = "group" THEN site ELSE op[n]
      /\ Goto(n, "check")
      /\ UNCHANGED <<version, latest, rows, ops, rendered, lock, target, row, op, result,
                     reverted, unrecorded, troubles>>
  BY DEF Publish, sourceVars, countVars
<1>3. rendered[op[n]] # 0 /\ result[n] = op[n] /\ rows[row[n]].result = NoId
  BY <1>1 DEF DrainHasResult
<1>4. VersionsGrow' /\ RowsOK' /\ AcceptedStaysQueued'
  BY <1>2 DEF VersionsGrow, RowsOK, AcceptedStaysQueued, Startable, IInv
<1>5. OpsOK'
  <2>1. site' # NoId => rendered[site'] # 0
    BY <1>2, <1>3 DEF IInv, OpsOK
  <2> QED BY <2>1, <1>2 DEF OpsOK, Made, HasReceipt, IInv
<1>6. OutputsOK'
  BY <1>2 DEF OutputsOK, Made, HasReceipt, IInv
<1>7. DataTyped'
  BY <1>1, <1>2 DEF DataTyped, LinksTyped, IInv, TypeOK
<1>8. pc'[n] = "check" /\ "check" \in Steps \ {"down", "idle", "look", "leave"}
  BY <1>2 DEF IInv, TypeOK, Goto, Steps
<1>9. DrainHasOp(n)' /\ DrainBegan(n)'
  BY <1>1, <1>2, <1>8 DEF DrainHasOp, DrainBegan, Unbegun
<1>10. DrainHasResult(n)' /\ DrainIsCurrent(n)'
  BY <1>1, <1>2, <1>3, <1>8 DEF DrainHasResult, DrainIsCurrent
<1>11. DrainTyped' /\ \A m \in Nodes : DrainOK(m)'
  BY <1>1, <1>2, <1>8, <1>9, <1>10, OpMoved DEF DrainOK
<1> QED BY <1>4, <1>5, <1>6, <1>7, <1>11, Parts DEF DataInv

LEMMA StoreInv ==
  ASSUME IInv, OwedTyped', NEW n \in Nodes, Store(n)
  PROVE  IInv'
<1> DEFINE q == row[n]
           r == result[n]
           w == [rows[q] EXCEPT !.result = r]
<1>1. /\ pc[n] = "store" /\ q \in Queues /\ q # NoId /\ op[n] # NoId /\ op[n] \in OpIds
      /\ rows[q].kind # "none" /\ r \in OpIds \cup {NoId}
      /\ DrainHasOp(n) /\ DrainBegan(n) /\ DrainHasResult(n)
  BY AtWork DEF Store
<1>2. /\ rows' = [rows EXCEPT ![q].result = r] /\ Goto(n, "close")
      /\ UNCHANGED <<version, latest, ops, rendered, site, lock, target, row, op, result,
                     reverted, unrecorded, troubles>>
  BY DEF Store, sourceVars, countVars
<1>3. rows \in [Queues -> RowType] /\ rows[q] \in RowType
  BY <1>1, Typed DEF IInv
<1>4. rows[q].kind = "list" /\ r # NoId /\ rows[q].result \in {NoId, r}
  BY <1>1 DEF DrainHasResult
<1> HIDE DEF q, r
<1>5. /\ w \in RowType /\ w.kind = rows[q].kind /\ w.waiting = rows[q].waiting
      /\ w.op = rows[q].op /\ w.frozen = rows[q].frozen /\ w.result = r
  BY <1>1, <1>3 DEF RowType
<1>6. rows' = [rows EXCEPT ![q] = w]
  BY <1>1, <1>2, <1>3
<1> HIDE DEF w
<1>7. /\ rows' \in [Queues -> RowType] /\ rows'[q] = w
      /\ \A p \in Queues : p # q => rows'[p] = rows[p]
  BY <1>1, <1>3, <1>5, <1>6
<1>8. /\ Made' = Made /\ HasReceipt(q) /\ (\A p \in Queues : HasReceipt(p)' <=> HasReceipt(p))
      /\ \A a \in Made : a \in OpIds /\ ops[a].queue \in Queues
  <2>1. HasReceipt(q)
    BY <1>1, <1>4 DEF HasReceipt, IInv, RowsOK
  <2>2. ASSUME NEW p \in Queues PROVE HasReceipt(p)' <=> HasReceipt(p)
    <3>1. CASE p = q
      BY <2>1, <3>1, <1>4, <1>5, <1>7 DEF HasReceipt
    <3>2. CASE p # q
      BY <3>2, <1>7 DEF HasReceipt
    <3> QED BY <3>1, <3>2
  <2> QED BY <1>2, <1>7, <2>1, <2>2, Typed DEF Made, HasReceipt, IInv
<1>9. VersionsGrow' /\ RowsOK' /\ AcceptedStaysQueued'
  <2>1. VersionsGrow'
    BY <1>2, <1>5, <1>7 DEF VersionsGrow, IInv
  <2>2. RowsOK'
    BY <1>4, <1>5, <1>7 DEF RowsOK, IInv
  <2>3. AcceptedStaysQueued'
    BY <1>2, <1>5, <1>7 DEF AcceptedStaysQueued, Startable, IInv
  <2> QED BY <2>1, <2>2, <2>3
<1>10. OpsOK'
  <2>1. \A a \in OpIds : ops[a].of # NoId => a \in Made
    BY DEF IInv, OpsOK, NoOp
  <2>2. \A p \in Queues : rows'[p].kind = rows[p].kind
    BY <1>5, <1>7
  <2> QED BY <1>2, <1>8, <2>1, <2>2 DEF OpsOK, IInv
<1>11. OutputsOK'
  <2>1. ASSUME NEW a \in Made, ops[a].output # NoId
        PROVE  IF HasReceipt(ops[a].queue) THEN rows'[ops[a].queue].result = ops[a].output
                                           ELSE rows'[ops[a].queue].op = a
    <3>1. /\ IF HasReceipt(ops[a].queue) THEN rows[ops[a].queue].result = ops[a].output
                                         ELSE rows[ops[a].queue].op = a
      BY <2>1 DEF OutputsOK, IInv
    <3>2. CASE ops[a].queue # q
      BY <3>1, <3>2, <1>7, <1>8
    <3>3. CASE ops[a].queue = q
      BY <2>1, <3>1, <3>3, <1>4, <1>5, <1>7, <1>8
    <3> QED BY <3>2, <3>3
  <2>2. /\ ops' = ops /\ \A a \in Made : HasReceipt(ops[a].queue)' <=> HasReceipt(ops[a].queue)
    BY <1>2, <1>8
  <2> QED BY <1>2, <1>8, <2>1, <2>2 DEF OutputsOK
<1>12. DataTyped'
  <2>1. LinksTyped'
    BY <1>2, <1>5, <1>7 DEF LinksTyped, IInv, TypeOK
  <2> QED BY <2>1, <1>2, <1>7 DEF DataTyped, IInv, TypeOK
<1>13. /\ pc'[n] = "close" /\ row' = row /\ op' = op /\ result' = result
       /\ "close" \in Steps \ {"down", "idle", "look", "leave"}
  BY <1>2 DEF IInv, TypeOK, Goto, Steps
<1>14. DrainHasOp(n)'
  BY <1>1, <1>2, <1>5, <1>7, <1>13 DEF DrainHasOp, q
<1>15. DrainBegan(n)'
  BY <1>1, <1>2, <1>5, <1>7, <1>13 DEF DrainBegan, Unbegun, q
<1>16. DrainHasResult(n)' /\ DrainIsCurrent(n)'
  BY <1>4, <1>5, <1>7, <1>13 DEF DrainHasResult, DrainIsCurrent, q, r
<1>17. DrainTyped' /\ \A m \in Nodes : DrainOK(m)'
  BY <1>1, <1>2, <1>13, <1>14, <1>15, <1>16, OpMoved DEF DrainOK, q
<1> QED BY <1>9, <1>10, <1>11, <1>12, <1>17, Parts DEF DataInv

-----------------------------------------------------------------------------
(* The theorems.                                                           *)

LEMMA InitIInv == Init => IInv
<1> SUFFICES ASSUME Init PROVE IInv
  OBVIOUS
<1>1. PICK old \in SUBSET Old :
        rows = [q \in Queues |-> IF q \in old THEN [NoRow EXCEPT !.kind = "legacy", !.waiting = TRUE]
                                              ELSE NoRow]
  BY DEF Init
<1>2. ASSUME NEW q \in Queues
      PROVE  /\ rows[q] \in RowType /\ rows[q].op = NoId /\ rows[q].frozen = NoId
             /\ rows[q].result = NoId /\ rows[q].kind # "list"
             /\ rows[q].waiting => rows[q].kind # "none"
  <2>1. \/ rows[q] = NoRow
        \/ rows[q] = [NoRow EXCEPT !.kind = "legacy", !.waiting = TRUE]
    BY <1>1
  <2>2. 0 \in 0..(MaxTroubles + 1)
    BY Parameters
  <2>3. CASE rows[q] = NoRow
    BY <2>2, <2>3 DEF RowType, NoRow
  <2>4. CASE rows[q] = [NoRow EXCEPT !.kind = "legacy", !.waiting = TRUE]
    <3>1. rows[q] = [kind |-> "legacy", waiting |-> TRUE, op |-> NoId, frozen |-> NoId,
                     result |-> NoId]
      BY <2>4 DEF NoRow
    <3> QED BY <2>2, <3>1 DEF RowType
  <2> QED BY <2>1, <2>3, <2>4
<1>3. rows \in [Queues -> RowType]
  BY <1>1, <1>2
<1>4. /\ ops = [o \in OpIds |-> NoOp] /\ NoOp \in OpType /\ NoOp.queue = NoId /\ NoOp.of = NoId
      /\ NoOp.state = "none"
  BY DEF Init, NoOp, OpType, States
<1>5. DrainTyped
  BY Parameters DEF Init, DrainTyped, Steps
<1>6. DataTyped
  <2>1. /\ 0 \in 0..(MaxTroubles + 1) /\ 1 \in 1..(MaxTroubles + 1) /\ 1 \in 1..1
        /\ 0 \in 0..MaxTroubles
    BY Parameters
  <2>2. LinksTyped
    BY <1>2 DEF LinksTyped
  <2>3. ops \in [OpIds -> OpType]
    BY <1>4
  <2> QED BY <1>3, <2>1, <2>2, <2>3 DEF Init, DataTyped
<1>7. VersionsGrow
  BY <1>2, Parameters DEF Init, VersionsGrow
<1>8. RowsOK /\ AcceptedStaysQueued
  BY <1>2 DEF RowsOK, AcceptedStaysQueued, Startable
<1>9. OpsOK /\ OutputsOK
  BY <1>4 DEF Init, OpsOK, OutputsOK, Made
<1>10. ASSUME NEW m \in Nodes PROVE DrainOK(m)
  <2>1. pc[m] = "idle" /\ row[m] = NoId /\ op[m] = NoId
    BY DEF Init
  <2> QED BY <2>1 DEF DrainOK, DrainHasOp, DrainBegan, DrainHasResult, DrainIsCurrent
<1>11. OwedTyped
  BY DEF Init, OwedTyped
<1> QED BY <1>5, <1>6, <1>7, <1>8, <1>9, <1>10, <1>11, Parts DEF DataInv

LEMMA StutterInv ==
  ASSUME IInv, OwedTyped',
         UNCHANGED <<version, latest, dbVars, rendered, lock, drainVars, countVars>>
  PROVE  IInv'
<1>1. /\ UNCHANGED Tables /\ reverted' = reverted /\ unrecorded' \in BOOLEAN
      /\ troubles' = troubles
  BY DEF Tables, dbVars, countVars, IInv, TypeOK
<1>2. UNCHANGED <<lock, pc, target, row, op, result, rows, ops, site, rendered>>
  BY DEF drainVars, dbVars
<1>3. DataInv'
  BY <1>1, TroubleKeeps, TablesKept
<1>4. DrainTyped'
  BY <1>2 DEF DrainTyped, IInv, TypeOK
<1>5. ASSUME NEW m \in Nodes PROVE DrainOK(m)'
  <2>1. DrainHasOp(m) /\ DrainBegan(m) /\ DrainHasResult(m) /\ DrainIsCurrent(m)
    BY DEF IInv, DrainOK
  <2>2. DrainHasOp(m)' /\ DrainBegan(m)'
    BY <1>2, <2>1 DEF DrainHasOp, DrainBegan, IsAttempt, Unbegun
  <2>3. DrainHasResult(m)' /\ DrainIsCurrent(m)'
    BY <1>1, <1>2, <2>1 DEF DrainHasResult, DrainIsCurrent, HasReceipt
  <2> QED BY <2>2, <2>3 DEF DrainOK
<1> QED BY <1>3, <1>4, <1>5, Parts

\* Calls are owed by requests, and made or lost one by one.
LEMMA OwedStays ==
  ASSUME TypeOK, [Next]_vars
  PROVE  OwedTyped'
<1>1. owed \in [Nodes -> Nat]
  BY DEF TypeOK
<1>2. ASSUME NEW n \in Nodes, Called(n) PROVE OwedTyped'
  <2>1. owed[n] - 1 \in Nat
    BY <1>1, <1>2 DEF Called
  <2> QED BY <1>1, <1>2, <2>1 DEF Called, OwedTyped
<1>3. ASSUME NEW n \in Nodes, NEW kind \in Kinds, Admit(n, kind) PROVE OwedTyped'
  BY <1>1, <1>3 DEF Admit, OwedTyped
<1>4. ASSUME NEW n \in Nodes, Crash(n) PROVE OwedTyped'
  BY <1>1, <1>4 DEF Crash, OwedTyped
<1>5. CASE UNCHANGED owed
  BY <1>1, <1>5 DEF OwedTyped
<1>6. ASSUME NEW n \in Nodes, Step(n) PROVE UNCHANGED owed
  <2>1. CASE \/ Idle(n) \/ Unlock(n) \/ Take(n) \/ FindStale(n) \/ CloseStale(n) \/ Create(n)
             \/ Link(n)
    BY <2>1 DEF Idle, Unlock, Take, FindStale, CloseStale, Create, Link, sourceVars
  <2>2. CASE \/ Mark(n) \/ Prepare(n) \/ Render(n) \/ Publish(n) \/ Check(n) \/ Store(n)
    BY <2>2 DEF Mark, Prepare, Render, Publish, Check, Store, sourceVars
  <2>3. CASE Close(n) \/ Finish(n) \/ Complete(n) \/ Error(n) \/ Fail(n) \/ Drop(n)
    BY <2>3 DEF Close, Finish, Complete, Error, Fail, Drop, sourceVars
  <2> QED BY <1>6, <2>1, <2>2, <2>3 DEF Step
<1>7. ASSUME NEW n \in Nodes,
             \/ Throws(n) \/ Breaks(n) \/ Boot(n)
             \/ \E q \in Queues : Recover(n, q) \/ CallAgain(n, q)
             \/ \E o \in OpIds : Tick(n, o)
      PROVE  UNCHANGED owed
  <2>1. CASE Throws(n) \/ Breaks(n) \/ Boot(n)
    BY <2>1 DEF Throws, Breaks, Boot, sourceVars
  <2>2. CASE \E q \in Queues : Recover(n, q) \/ CallAgain(n, q)
    BY <2>2 DEF Recover, CallAgain, sourceVars
  <2>3. CASE \E o \in OpIds : Tick(n, o)
    BY <2>3 DEF Tick, sourceVars
  <2> QED BY <1>7, <2>1, <2>2, <2>3
<1>8. CASE Edit \/ (\E o \in OpIds : Cancel(o)) \/ UNCHANGED vars
  <2>1. UNCHANGED owed
    BY <1>8 DEF Edit, Cancel, vars, sourceVars
  <2> QED BY <2>1, <1>5
<1> QED BY <1>2, <1>3, <1>4, <1>5, <1>6, <1>7, <1>8 DEF Next, Call, CallBusy

LEMMA NextIInv == IInv /\ [Next]_vars => IInv'
<1> SUFFICES ASSUME IInv, [Next]_vars PROVE IInv'
  OBVIOUS
<1>0. OwedTyped'
  BY OwedStays DEF IInv
<1>1. ASSUME NEW n \in Nodes, NEW kind \in Kinds, Admit(n, kind) PROVE IInv'
  BY <1>0, <1>1, AdmitInv
<1>2. ASSUME NEW n \in Nodes, Call(n) \/ CallBusy(n) PROVE IInv'
  BY <1>0, <1>2, StartInv, StutterInv DEF Call, CallBusy
<1>3. ASSUME NEW n \in Nodes, NEW q \in Queues, Recover(n, q) \/ CallAgain(n, q) PROVE IInv'
  BY <1>0, <1>3, RecoverInv, StartInv DEF CallAgain
<1>4. ASSUME NEW n \in Nodes, NEW o \in OpIds, Tick(n, o) PROVE IInv'
  BY <1>0, <1>4, TickInv
<1>5. ASSUME NEW n \in Nodes, Step(n) PROVE IInv'
  BY <1>0, <1>5, IdleInv, LeaveInv, TakeInv, FindStaleInv, CloseStaleInv, CreateInv, LinkInv, MarkInv, PrepareInv,
     RenderInv, PublishInv, CheckInv, StoreInv, CloseInv, FinishInv, RecordedInv, ErrorInv, DropInv
     DEF Step
<1>6. ASSUME NEW n \in Nodes, Throws(n) \/ Breaks(n) \/ Crash(n) \/ Boot(n) PROVE IInv'
  BY <1>0, <1>6, ThrowsInv, LeaveInv, CrashInv, BootInv
<1>7. CASE Edit
  BY <1>0, <1>7, EditInv
<1>8. ASSUME NEW o \in OpIds, Cancel(o) PROVE IInv'
  BY <1>0, <1>8, CancelInv
<1>9. CASE UNCHANGED vars
  BY <1>0, <1>9, StutterInv DEF vars, sourceVars
<1> QED BY <1>1, <1>2, <1>3, <1>4, <1>5, <1>6, <1>7, <1>8, <1>9 DEF Next

\* The invariant of the render queue: one drain, which has what its row and
\* operation say, rows and receipts in step with what has finished.
THEOREM Invariance == Spec => []IInv
  BY InitIInv, NextIInv, PTL DEF Spec

\* Every reachable state is typed.
THEOREM TypeCorrect == Spec => []TypeOK
<1>1. IInv => TypeOK
  BY DEF IInv
<1> QED BY Invariance, <1>1, PTL

\* Finished operations of one request report one site, that of its receipt
\* (OutputsAgree): renders that were interrupted, recovered, repeated or
\* adopted count as one.
THEOREM OneResult == Spec => []OutputsAgree
<1>1. IInv => OutputsAgree
  <2> SUFFICES ASSUME IInv, NEW o1 \in Made, NEW o2 \in Made,
                      ops[o1].queue = ops[o2].queue, ops[o1].output # NoId
               PROVE  /\ HasReceipt(ops[o1].queue) => rows[ops[o1].queue].result = ops[o1].output
                      /\ ops[o2].output \in {NoId, ops[o1].output}
    BY DEF OutputsAgree
  <2>1. CASE HasReceipt(ops[o1].queue)
    BY <2>1 DEF IInv, OutputsOK
  <2>2. CASE ~HasReceipt(ops[o1].queue)
    BY <2>2 DEF IInv, OutputsOK
  <2> QED BY <2>1, <2>2
<1> QED BY Invariance, <1>1, PTL

\* An accepted recovery waits for its drain (AcceptedStaysQueued), whatever
\* drains of the operation it replaces still close.
THEOREM AcceptedWaits == Spec => []AcceptedStaysQueued
<1>1. IInv => AcceptedStaysQueued
  BY DEF IInv
<1> QED BY Invariance, <1>1, PTL

\* A checkpoint keeps a render of what was asked for, unless an edit was taken
\* back while it ran (StoredIsFrozen).
THEOREM CheckpointKeepsRequest == Spec => StoredIsFrozen
<1>1. IInv /\ [Next]_vars =>
        [\A n \in Nodes, q \in Queues :
           Store(n) /\ row[n] = q /\ ~reverted => rendered[rows'[q].result] = rows[q].frozen]_vars
  <2> SUFFICES ASSUME IInv, NEW n \in Nodes, NEW q \in Queues, Store(n), row[n] = q, ~reverted
               PROVE  rendered[rows'[q].result] = rows[q].frozen
    OBVIOUS
  <2>1. pc[n] = "store" /\ DrainIsCurrent(n)
    BY DEF Store, IInv, DrainOK
  <2>2. rows \in [Queues -> RowType]
    BY Typed DEF IInv
  <2>3. rows'[q].result = result[n]
    BY <2>2 DEF Store, RowType
  <2> QED BY <2>1, <2>3 DEF DrainIsCurrent
<1> QED BY Invariance, <1>1, PTL DEF Spec, StoredIsFrozen
-----------------------------------------------------------------------------
(* The queue implements RenderLedger.                                      *)

OwnerNow  == [o \in OpIds |-> ops[o].queue]
AnswerNow == [q \in Queues |-> AnswersOf(q)]

\* Neither a row's result nor whose an operation is, nor what it reports, changes.
Quiet ==
    /\ \A q \in Queues : rows'[q].kind = rows[q].kind /\ rows'[q].result = rows[q].result
    /\ \A o \in OpIds : ops'[o].queue = ops[o].queue /\ ops'[o].output = ops[o].output

LEMMA Answered ==
  ASSUME NEW q \in Queues
  PROVE  /\ \A x : x \in AnswersOf(q) <=>
              /\ x # NoId
              /\ x = rows[q].result \/ \E o \in OpIds : ops[o].queue = q /\ ops[o].output = x
         /\ \A x : x \in AnswersOf(q)' <=>
              /\ x # NoId
              /\ x = rows'[q].result \/ \E o \in OpIds : ops'[o].queue = q /\ ops'[o].output = x
<1>1. q # NoId
  BY Parameters
<1> QED BY <1>1 DEF AnswersOf, Made

\* What the queue knows of an operation that was made, and of a row's answers.
LEMMA OwnFacts ==
  ASSUME IInv, OwnResults, NEW o \in OpIds, ops[o].queue # NoId, ops[o].output # NoId
  PROVE  /\ ops[o].queue \in Queues
         /\ rows[ops[o].queue].result # NoId => ops[o].output = rows[ops[o].queue].result
         /\ rows[ops[o].queue].result = NoId =>
              /\ ops[o].output = o /\ rows[ops[o].queue].op = o
              /\ rows[ops[o].queue].frozen = NoId
<1>1. o \in Made /\ ops[o].queue \in Queues
  BY Typed DEF Made, IInv
<1>2. /\ HasReceipt(ops[o].queue) => rows[ops[o].queue].result = ops[o].output
      /\ ~HasReceipt(ops[o].queue) => rows[ops[o].queue].op = o
  BY <1>1 DEF IInv, OutputsOK
<1> QED BY <1>1, <1>2 DEF OwnResults, HasReceipt

\* Every answer of a request is a render of its own.
LEMMA OwnAnswers ==
  ASSUME IInv, OwnResults, NEW q \in Queues, NEW x \in AnswersOf(q)
  PROVE  x \in OpIds /\ ops[x].queue = q /\ AnswersOf(q) = {x}
<1>1. /\ x # NoId
      /\ x = rows[q].result \/ \E o \in OpIds : ops[o].queue = q /\ ops[o].output = x
  BY Answered
<1>2. rows[q].result \in OpIds \cup {NoId} /\ q # NoId
  BY Typed, Parameters DEF IInv
<1>3. CASE rows[q].result # NoId
  <2>1. ASSUME NEW y \in AnswersOf(q) PROVE y = rows[q].result
    <3>1. y # NoId /\ (y = rows[q].result \/ \E o \in OpIds : ops[o].queue = q /\ ops[o].output = y)
      BY Answered
    <3>2. CASE y # rows[q].result
      <4>1. PICK o \in OpIds : ops[o].queue = q /\ ops[o].output = y
        BY <3>1, <3>2
      <4> QED BY <1>2, <1>3, <3>1, <4>1, OwnFacts
    <3> QED BY <3>2
  <2> QED BY <1>2, <1>3, <2>1 DEF OwnResults
<1>4. CASE rows[q].result = NoId
  <2>1. ASSUME NEW y \in AnswersOf(q) PROVE y = rows[q].op /\ y \in OpIds /\ ops[y].queue = q
    <3>1. PICK o \in OpIds : ops[o].queue = q /\ ops[o].output = y /\ y # NoId
      BY <1>4, Answered
    <3> QED BY <1>2, <1>4, <3>1, OwnFacts
  <2> QED BY <2>1
<1> QED BY <1>3, <1>4

LEMMA QuietRows ==
  ASSUME IInv, NEW n \in Nodes, CloseStale(n) \/ Close(n) \/ Drop(n) \/ Link(n)
  PROVE  Quiet
<1>1. rows \in [Queues -> RowType] /\ UNCHANGED ops
  BY Typed DEF IInv, CloseStale, Close, Drop, Link
<1>2. CASE CloseLinked(n)
  BY <1>1, <1>2 DEF CloseLinked, Quiet, RowType
<1>3. CASE Drop(n)
  BY <1>1, <1>3 DEF Drop, Quiet, RowType
<1>4. CASE Link(n)
  BY <1>1, <1>4 DEF Link, Quiet, RowType
<1> QED BY <1>2, <1>3, <1>4 DEF CloseStale, Close

LEMMA QuietOps ==
  ASSUME IInv,
         \/ \E n \in Nodes : Mark(n) \/ Complete(n) \/ Fail(n) \/ Error(n) \/ Boot(n)
         \/ \E o \in OpIds : Cancel(o)
         \/ \E o \in OpIds : ops' = [ops EXCEPT ![o].state = "interrupted"] /\ UNCHANGED rows
  PROVE  Quiet
<1>1. ops \in [OpIds -> OpType]
  BY Typed DEF IInv
<1>2. UNCHANGED rows
  BY DEF Mark, Complete, Fail, Error, Boot, Cancel
<1>3. CASE \E n \in Nodes : Mark(n) \/ Complete(n) \/ Fail(n)
  BY <1>1, <1>2, <1>3 DEF Mark, Complete, Fail, SetState, Quiet, OpType
<1>4. CASE \E n \in Nodes : Error(n)
  BY <1>1, <1>2, <1>4 DEF Error, Quiet, OpType
<1>5. CASE \E n \in Nodes : Boot(n)
  <2>1. \A o \in OpIds : Stopped(o).queue = ops[o].queue /\ Stopped(o).output = ops[o].output
    BY <1>1 DEF Stopped, OpType
  <2>2. ops' = [o \in OpIds |-> IF ops[o].running THEN Stopped(o) ELSE ops[o]]
    BY <1>5 DEF Boot
  <2> QED BY <1>2, <2>1, <2>2 DEF Quiet
<1>6. CASE \E o \in OpIds : Cancel(o)
  BY <1>1, <1>2, <1>6 DEF Cancel, Quiet, OpType
<1>7. CASE \E o \in OpIds : ops' = [ops EXCEPT ![o].state = "interrupted"]
  BY <1>1, <1>2, <1>7 DEF Quiet, OpType
<1> QED BY <1>3, <1>4, <1>5, <1>6, <1>7

LEMMA QuietBoth ==
  ASSUME UNCHANGED <<rows, ops>>
  PROVE  Quiet
  BY DEF Quiet

\* The ledger does not see a quiet step.
LEMMA QuietKeeps ==
  ASSUME IInv, OwnResults, Quiet
  PROVE  OwnResults' /\ UNCHANGED <<Added, OwnerNow, AnswerNow>>
<1>1. Made' = Made /\ Added' = Added
  BY DEF Quiet, Made, Added
<1>2. OwnResults'
  <2>1. \A q \in Queues : rows[q].result \in OpIds \cup {NoId}
    BY Typed DEF IInv
  <2>2. \A o \in Made : o \in OpIds /\ ops[o].queue \in Queues
    BY Typed DEF IInv, Made
  <2> QED BY <1>1, <2>1, <2>2 DEF OwnResults, Quiet
<1>3. ASSUME NEW q \in Queues PROVE AnswersOf(q)' = AnswersOf(q)
  <2>1. \A x : x \in AnswersOf(q)' <=> x \in AnswersOf(q)
    BY Answered DEF Quiet
  <2> QED BY <2>1
<1>4. OwnerNow' = OwnerNow
  BY DEF OwnerNow, Quiet
<1> QED BY <1>1, <1>2, <1>3, <1>4 DEF AnswerNow
\* A request is asked.
LEMMA AdmitAsks ==
  ASSUME IInv, OwnResults, NEW n \in Nodes, NEW kind \in Kinds, Admit(n, kind)
  PROVE  OwnResults' /\ \E q \in Queues : Ledger!Ask(q)
<1>1. PICK q0 \in Queues : q0 = Minimum(Queues \ Added) /\ rows[q0].kind = "none"
  BY NextRowIsNew DEF Admit
<1>2. /\ rows \in [Queues -> RowType] /\ \A q \in Queues : rows[q].result \in OpIds \cup {NoId}
      /\ rows[q0].result = NoId /\ UNCHANGED ops
  BY <1>1, Typed DEF IInv, Admit, RowsOK
<1>3. /\ rows'[q0].kind = kind /\ rows'[q0].result = NoId
      /\ \A q \in Queues : q # q0 => rows'[q] = rows[q]
  BY <1>1, <1>2 DEF Admit, NoRow, RowType
<1>4. kind # "none"
  BY Parameters
<1>5. \A o \in Made : o \in OpIds /\ ops[o].queue \in Queues /\ ops[o].queue # q0
  BY <1>1, Typed DEF Made, IInv, OpsOK
<1>6. Made' = Made
  BY <1>2 DEF Made
<1>7. \A q \in Queues : rows'[q].result = rows[q].result
  BY <1>2, <1>3
<1>8. OwnResults'
  BY <1>2, <1>5, <1>6, <1>7 DEF OwnResults
<1>9. ASSUME NEW q \in Queues PROVE AnswersOf(q)' = AnswersOf(q)
  <2>1. \A x : x \in AnswersOf(q)' <=> x \in AnswersOf(q)
    BY <1>2, <1>7, Answered
  <2> QED BY <2>1
<1>10. Added' = Added \cup {q0}
  BY <1>1, <1>3, <1>4 DEF Added
<1>11. Ledger!Ask(q0)
  BY <1>2, <1>9, <1>10 DEF Ledger!Ask
<1> QED BY <1>8, <1>11

\* A new operation is begun for the request of its row.
LEMMA OwnerBegins ==
  ASSUME IInv, NEW x \in OpIds, x \notin Made, NEW q \in Queues, rows[q].kind # "none",
         ops'[x].queue = q, \A a \in OpIds : a # x => ops'[a] = ops[a]
  PROVE  Ledger!Begins(x, q)
<1>1. ops[x].queue = NoId /\ q \in Added
  BY DEF Made, Added
<1>2. OwnerNow' = [OwnerNow EXCEPT ![x] = q]
  BY DEF OwnerNow
<1>3. OwnerNow[x] = NoId
  BY <1>1 DEF OwnerNow
<1> QED BY <1>1, <1>2, <1>3 DEF Ledger!Begins, OwnerNow

LEMMA CreateBegins ==
  ASSUME IInv, OwnResults, NEW n \in Nodes, Create(n)
  PROVE  OwnResults' /\ \E x \in OpIds, q \in Queues : Ledger!Begin(x, q)
<1> DEFINE v == [NoOp EXCEPT !.queue = row[n], !.running = TRUE]
<1>1. /\ pc[n] = "create" /\ OpIds # Made /\ row[n] \in Queues /\ row[n] # NoId
      /\ rows[row[n]].kind # "none"
  BY AtWork DEF Create
<1>2. v \in OpType /\ v.queue = row[n] /\ v.output = NoId
  BY <1>1 DEF OpType, NoOp, States
<1>3. ops' = [ops EXCEPT ![NextOp] = v] /\ UNCHANGED rows
  BY DEF Create
<1> HIDE DEF v
<1>4. /\ NextOp \in OpIds /\ ops'[NextOp] = v
      /\ \A a \in OpIds : a # NextOp => ops'[a] = ops[a]
      /\ NextOp \notin Made /\ Made' = Made \cup {NextOp}
  BY <1>1, <1>2, <1>3, NewOp
<1>5. PICK x \in OpIds : x = NextOp
  BY <1>4
<1>6. PICK p \in Queues : p = row[n]
  BY <1>1
<1>7. ops[x].output = NoId
  BY <1>4, <1>5 DEF IInv, OpsOK, NoOp
<1>8. \A q \in Queues : rows[q].result \in OpIds \cup {NoId}
  BY Typed DEF IInv
<1>9. OwnResults'
  <2>1. ASSUME NEW q \in Queues, rows[q].result # NoId PROVE ops'[rows[q].result].queue = q
    <3>1. rows[q].result \in OpIds /\ ops[rows[q].result].queue = q /\ q # NoId
      BY <1>8, <2>1, Parameters DEF OwnResults
    <3> QED BY <1>4, <3>1 DEF Made
  <2>2. ASSUME NEW o \in Made', rows[ops'[o].queue].result = NoId
        PROVE  ops'[o].output \in {NoId, o}
    BY <1>2, <1>4, <2>2 DEF OwnResults, Made
  <2> QED BY <1>3, <2>1, <2>2 DEF OwnResults
<1>10. ASSUME NEW q \in Queues PROVE AnswersOf(q)' = AnswersOf(q)
  <2>1. ASSUME NEW o \in OpIds, NEW y, y # NoId
        PROVE  ops'[o].queue = q /\ ops'[o].output = y <=> ops[o].queue = q /\ ops[o].output = y
    BY <1>2, <1>4, <1>5, <1>7, <2>1
  <2>2. \A y : y \in AnswersOf(q)' <=> y \in AnswersOf(q)
    BY <1>3, <2>1, Answered
  <2> QED BY <2>2
<1>11. Ledger!Begins(x, p)
  BY <1>1, <1>2, <1>4, <1>5, <1>6, OwnerBegins
<1>12. Ledger!Begin(x, p)
  BY <1>3, <1>10, <1>11 DEF Ledger!Begin, Added
<1> QED BY <1>9, <1>12

LEMMA AnswerIs ==
  ASSUME NEW q \in Queues, NEW x \in OpIds, ops[x].queue = q, AnswersOf(q) = {},
         AnswersOf(q)' = {x}, \A p \in Queues : p # q => AnswersOf(p)' = AnswersOf(p)
  PROVE  Ledger!Answers(q)
<1>1. AnswerNow' = [AnswerNow EXCEPT ![q] = {x}]
  BY DEF AnswerNow
<1>2. AnswerNow[q] = {} /\ OwnerNow[x] = q
  BY DEF AnswerNow, OwnerNow
<1> QED BY <1>1, <1>2 DEF Ledger!Answers, AnswerNow, OwnerNow

\* A recovery begins a render, which a site that was published before answers.
LEMMA RecoverBegins ==
  ASSUME IInv, OwnResults, NEW n \in Nodes, NEW q \in Queues, Recover(n, q)
  PROVE  OwnResults' /\ \E x \in OpIds : Ledger!Begin(x, q) \/ Ledger!Adopt(x, q)
<1>1. PICK o \in OpIds : o = rows[q].op /\ ops[o].queue = q
  BY Typed DEF Recover, IInv, TypeOK
<1>2. PICK d \in OpIds \cup {NoId} : d = Adopted(q, o)
  BY <1>1, AdoptedIs DEF Recover
<1>3. /\ d # rows[q].result => rows[q].result = NoId /\ d = o
      /\ rows[q].kind # "none" /\ q # NoId
  BY <1>1, <1>2, AdoptedIs, Parameters DEF Recover
<1>4. /\ rows \in [Queues -> RowType] /\ \A p \in Queues : rows[p].result \in OpIds \cup {NoId}
  BY Typed DEF IInv
<1> DEFINE v == [NoOp EXCEPT !.queue = q, !.running = TRUE, !.of = o, !.state = "pending"]
<1>5. v \in OpType /\ v.queue = q /\ v.output = NoId
  BY DEF OpType, NoOp, States
<1>6. OpIds # Made /\ ops' = [ops EXCEPT ![NextOp] = v]
  BY <1>1 DEF Recover
<1> HIDE DEF v
<1>7. /\ NextOp \in OpIds /\ ops'[NextOp] = v
      /\ \A a \in OpIds : a # NextOp => ops'[a] = ops[a]
      /\ NextOp \notin Made /\ Made' = Made \cup {NextOp}
  BY <1>3, <1>5, <1>6, NewOp
<1>8. PICK x \in OpIds : x = NextOp
  BY <1>7
<1>9. ops[x].output = NoId /\ ops'[x].output = NoId /\ ops'[x].queue = q
  BY <1>5, <1>7, <1>8 DEF IInv, OpsOK, NoOp
<1>10. /\ rows'[q].kind = rows[q].kind /\ rows'[q].result = d
       /\ \A p \in Queues : p # q => rows'[p] = rows[p]
  BY <1>1, <1>2, <1>4 DEF Recover, RowType
<1>11. OwnResults'
  <2>1. ASSUME NEW p \in Queues, rows'[p].result # NoId PROVE ops'[rows'[p].result].queue = p
    <3>1. PICK y \in OpIds : y = rows'[p].result /\ ops[y].queue = p /\ p # NoId
      BY <1>1, <1>3, <1>4, <1>10, <2>1, Parameters DEF OwnResults
    <3> QED BY <1>7, <3>1 DEF Made
  <2>2. ASSUME NEW a \in Made', rows'[ops'[a].queue].result = NoId
        PROVE  ops'[a].output \in {NoId, a}
    <3>1. CASE a = x
      BY <1>9, <3>1
    <3>2. CASE a # x
      <4>1. a \in Made /\ ops'[a] = ops[a] /\ ops[a].queue \in Queues
        BY <1>7, <1>8, <3>2, Typed DEF Made, IInv
      <4>2. rows[ops[a].queue].result = NoId
        BY <1>1, <1>3, <1>10, <2>2, <4>1
      <4> QED BY <4>1, <4>2 DEF OwnResults
    <3> QED BY <3>1, <3>2
  <2> QED BY <2>1, <2>2 DEF OwnResults
<1>12. ASSUME NEW p \in Queues, NEW a \in OpIds, NEW y, y # NoId
       PROVE  ops'[a].queue = p /\ ops'[a].output = y <=> ops[a].queue = p /\ ops[a].output = y
  BY <1>7, <1>8, <1>9, <1>12
<1>13. ASSUME NEW p \in Queues, rows'[p].result = rows[p].result
       PROVE  AnswersOf(p)' = AnswersOf(p)
  <2>1. ASSUME NEW y PROVE y \in AnswersOf(p)' <=> y \in AnswersOf(p)
    <3>1. CASE y = NoId
      BY <3>1, Answered
    <3>2. CASE y # NoId
      <4>1. (\E a \in OpIds : ops'[a].queue = p /\ ops'[a].output = y)
              <=> \E a \in OpIds : ops[a].queue = p /\ ops[a].output = y
        <5>1. ASSUME NEW a \in OpIds
              PROVE  (ops'[a].queue = p /\ ops'[a].output = y)
                       <=> (ops[a].queue = p /\ ops[a].output = y)
          BY <1>7, <1>8, <1>9, <3>2
        <5> QED BY <5>1
      <4> QED BY <1>13, <3>2, <4>1, Answered
    <3> QED BY <3>1, <3>2
  <2> QED BY <2>1
<1>14. Ledger!Begins(x, q) /\ Added' = Added
  <2>1. Added' = Added
    BY <1>10 DEF Added
  <2> QED BY <1>3, <1>7, <1>8, <1>9, <2>1, OwnerBegins
<1>15. CASE d = rows[q].result
  <2>1. \A p \in Queues : AnswersOf(p)' = AnswersOf(p)
    BY <1>10, <1>13, <1>15
  <2>2. Ledger!Begin(x, q)
    BY <1>14, <2>1 DEF Ledger!Begin
  <2> QED BY <1>11, <2>2
<1>16. CASE d # rows[q].result
  <2>1. ASSUME NEW y \in AnswersOf(q) PROVE y = o
    <3>1. PICK a \in OpIds : ops[a].queue = q /\ ops[a].output = y /\ y # NoId
      BY <1>3, <1>16, Answered
    <3> QED BY <1>1, <1>3, <1>16, <3>1, OwnFacts
  <2>2. ASSUME NEW y PROVE y \in AnswersOf(q)' <=> y = o
    <3>1. y = o => y \in AnswersOf(q)'
      BY <1>3, <1>4, <1>10, <1>16, Answered
    <3>2. ASSUME y \in AnswersOf(q)', y # o PROVE FALSE
      <4>1. y # NoId /\ \E a \in OpIds : ops'[a].queue = q /\ ops'[a].output = y
        BY <1>3, <1>10, <1>16, <3>2, Answered
      <4>2. y \in AnswersOf(q)
        BY <1>12, <4>1, Answered
      <4> QED BY <2>1, <3>2, <4>2
    <3> QED BY <3>1, <3>2
  <2>3. AnswersOf(q)' = {o} /\ AnswersOf(q) \in {{}, {o}}
    BY <2>1, <2>2
  <2>4. \A p \in Queues : p # q => AnswersOf(p)' = AnswersOf(p)
    BY <1>10, <1>13
  <2>5. CASE AnswersOf(q) = {}
    <3>1. Ledger!Adopt(x, q)
      BY <1>1, <1>14, <2>3, <2>4, <2>5, AnswerIs DEF Ledger!Adopt
    <3> QED BY <1>11, <3>1
  <2>6. CASE AnswersOf(q) = {o}
    <3>1. \A p \in Queues : AnswersOf(p)' = AnswersOf(p)
      BY <2>3, <2>4, <2>6
    <3>2. Ledger!Begin(x, q)
      BY <1>14, <3>1 DEF Ledger!Begin
    <3> QED BY <1>11, <3>2
  <2> QED BY <2>3, <2>5, <2>6
<1> QED BY <1>15, <1>16

\* The checkpoint answers, unless the receipt has the result.
LEMMA StoreAnswers ==
  ASSUME IInv, OwnResults, NEW n \in Nodes, Store(n)
  PROVE  /\ OwnResults'
         /\ (\E q \in Queues : Ledger!Answer(q)) \/ UNCHANGED <<Added, OwnerNow, AnswerNow>>
<1>1. /\ pc[n] = "store" /\ row[n] \in Queues /\ op[n] # NoId /\ op[n] \in OpIds
      /\ ops[op[n]].queue = row[n] /\ DrainHasResult(n)
  BY AtWork DEF Store
<1>2. PICK q \in Queues : q = row[n]
  BY <1>1
<1>3. /\ rows[q].kind = "list" /\ result[n] # NoId
      /\ rows[q].result # NoId => rows[q].result = result[n]
      /\ rows[q].result = NoId => result[n] = op[n]
  BY <1>1, <1>2 DEF DrainHasResult
<1>4. /\ rows \in [Queues -> RowType] /\ \A p \in Queues : rows[p].result \in OpIds \cup {NoId}
  BY Typed DEF IInv
<1>5. /\ UNCHANGED ops /\ rows'[q].kind = rows[q].kind /\ rows'[q].result = result[n]
      /\ \A p \in Queues : p # q => rows'[p] = rows[p]
  BY <1>2, <1>4 DEF Store, RowType
<1>6. CASE rows[q].result # NoId
  <2>1. Quiet
    BY <1>3, <1>5, <1>6 DEF Quiet
  <2> QED BY <2>1, QuietKeeps
<1>7. CASE rows[q].result = NoId
  <2>1. PICK x \in OpIds : x = op[n] /\ ops[x].queue = q /\ rows'[q].result = x /\ x # NoId
    BY <1>1, <1>2, <1>3, <1>5, <1>7
  <2>2. ASSUME NEW o \in OpIds, ops[o].queue = q PROVE ops[o].output = NoId
    <3>1. rows[q].frozen # NoId /\ q # NoId
      BY <1>3, Parameters DEF IInv, RowsOK
    <3> QED BY <1>7, <2>2, <3>1, OwnFacts
  <2>3. AnswersOf(q) = {} /\ AnswersOf(q)' = {x}
    <3>1. \A y : ~(y \in AnswersOf(q))
      BY <1>7, <2>2, Answered
    <3>2. \A y : y \in AnswersOf(q)' <=> y = x
      BY <1>5, <2>1, <2>2, Answered
    <3> QED BY <3>1, <3>2
  <2>4. ASSUME NEW p \in Queues, p # q PROVE AnswersOf(p)' = AnswersOf(p)
    <3>1. \A y : y \in AnswersOf(p)' <=> y \in AnswersOf(p)
      BY <1>5, <2>4, Answered
    <3> QED BY <3>1
  <2>5. Ledger!Answer(q)
    <3>1. Added' = Added
      BY <1>5 DEF Added
    <3> QED BY <1>5, <2>1, <2>3, <2>4, <3>1, AnswerIs DEF Ledger!Answer
  <2>6. OwnResults'
    <3>1. \A p \in Queues : rows'[p].result # NoId => ops'[rows'[p].result].queue = p
      BY <1>5, <2>1 DEF OwnResults
    <3>2. ASSUME NEW o \in Made, rows'[ops[o].queue].result = NoId
          PROVE  ops[o].output \in {NoId, o}
      <4>1. ops[o].queue \in Queues /\ ops[o].queue # q
        BY <2>1, <3>2, Typed DEF Made, IInv
      <4> QED BY <1>5, <3>2, <4>1 DEF OwnResults
    <3>3. Made' = Made
      BY <1>5 DEF Made
    <3> QED BY <1>5, <3>1, <3>2, <3>3 DEF OwnResults
  <2> QED BY <2>5, <2>6
<1> QED BY <1>6, <1>7

\* The end of an operation answers where there is no receipt.
LEMMA FinishAnswers ==
  ASSUME IInv, OwnResults, NEW n \in Nodes, Finish(n)
  PROVE  /\ OwnResults'
         /\ (\E q \in Queues : Ledger!Answer(q)) \/ UNCHANGED <<Added, OwnerNow, AnswerNow>>
<1>1. /\ pc[n] = "finish" /\ UNCHANGED rows /\ row[n] \in Queues /\ op[n] # NoId
      /\ ops[op[n]].queue = row[n]
      /\ result[n] \in OpIds \cup {NoId} /\ DrainBegan(n) /\ DrainHasResult(n)
  BY AtWork DEF Finish
<1>2. /\ op[n] \in OpIds /\ EndsOps /\ ops'[op[n]].output = result[n]
      /\ \A a \in OpIds : a # op[n] => ops'[a] = ops[a]
  BY <1>1, EndOfOp DEF Finish
<1>3. PICK q \in Queues : q = row[n] /\ q # NoId
  BY <1>1, Parameters
<1>4. PICK o \in OpIds : o = op[n] /\ ops[o].queue = q
  BY <1>1, <1>2, <1>3
<1>5. PICK r \in OpIds : r = result[n] /\ ops'[o].output = r /\ r # NoId
  BY <1>1, <1>2, <1>4, Parameters DEF DrainHasResult
<1>6. /\ Made' = Made /\ OwnerNow' = OwnerNow /\ Added' = Added
      /\ \A a \in OpIds : ops'[a].queue = ops[a].queue
      /\ \A a \in OpIds : a # o => ops'[a] = ops[a]
  BY <1>1, <1>2, <1>4 DEF EndsOps, Made, OwnerNow, Added
<1>7. ASSUME NEW p \in Queues, p # q PROVE AnswersOf(p)' = AnswersOf(p)
  <2>1. \A y : y \in AnswersOf(p)' <=> y \in AnswersOf(p)
    BY <1>1, <1>4, <1>6, <1>7, Answered
  <2> QED BY <2>1
<1>8. OwnResults' \/ (rows[q].result = NoId /\ r # o)
  <2>1. \A p \in Queues : rows[p].result \in OpIds \cup {NoId}
    BY Typed DEF IInv
  <2>2. \A p \in Queues : rows'[p].result # NoId => ops'[rows'[p].result].queue = p
    BY <1>1, <1>6, <2>1 DEF OwnResults
  <2>3. ASSUME rows[q].result # NoId \/ r = o, NEW a \in Made, rows[ops[a].queue].result = NoId
        PROVE  ops'[a].output \in {NoId, a}
    BY <1>4, <1>5, <1>6, <2>3 DEF OwnResults, Made
  <2> QED BY <1>1, <1>6, <2>2, <2>3 DEF OwnResults, Made
<1>9. CASE rows[q].result # NoId
  <2>1. rows[q].result = r
    BY <1>1, <1>3, <1>5, <1>9 DEF DrainHasResult, HasReceipt
  <2>2. AnswersOf(q)' = AnswersOf(q)
    <3>1. r \in AnswersOf(q)
      BY <1>5, <2>1, Answered
    <3>2. AnswersOf(q) = {r}
      <4>1. \A y \in AnswersOf(q) : AnswersOf(q) = {y}
        BY OwnAnswers
      <4> QED BY <3>1, <4>1
    <3>3. ASSUME NEW y PROVE y \in AnswersOf(q)' <=> y \in AnswersOf(q)
      <4>1. CASE y = r
        BY <1>1, <1>5, <2>1, <3>1, <4>1, Answered
      <4>2. CASE y # r
        <5>1. ASSUME NEW a \in OpIds
              PROVE  ops'[a].queue = q /\ ops'[a].output = y
                       <=> ops[a].queue = q /\ ops[a].output = y /\ a # o
          BY <1>4, <1>5, <1>6, <4>2
        <5>2. y \notin AnswersOf(q)
          BY <3>2, <4>2
        <5>3. y \notin AnswersOf(q)'
          <6>1. y # NoId => ~\E a \in OpIds : ops[a].queue = q /\ ops[a].output = y
            BY <5>2, Answered
          <6>2. y # NoId => ~\E a \in OpIds : ops'[a].queue = q /\ ops'[a].output = y
            BY <5>1, <6>1
          <6>3. y # rows'[q].result
            BY <1>1, <2>1, <4>2
          <6> QED BY <6>2, <6>3, Answered
        <5> QED BY <5>2, <5>3
      <4> QED BY <4>1, <4>2
    <3> QED BY <3>3
  <2>3. AnswerNow' = AnswerNow
    BY <1>7, <2>2 DEF AnswerNow
  <2> QED BY <1>6, <1>8, <1>9, <2>3
<1>10. CASE rows[q].result = NoId
  <2>1. r = o /\ ~HasReceipt(q)
    BY <1>1, <1>3, <1>4, <1>5, <1>10 DEF DrainHasResult
  <2>2. rows[q].op = o
    <3>1. rows[q].op = o \/ Unbegun(rows[q].op)
      BY <1>1, <1>3, <1>4 DEF DrainBegan
    <3>2. ASSUME Unbegun(rows[q].op) PROVE HasReceipt(q)
      <4>1. rows[q].op \in OpIds /\ ops[rows[q].op].queue = q
        BY <3>2, Typed DEF Unbegun, IInv, TypeOK
      <4> QED BY <3>2, <4>1 DEF Unbegun, IInv, OpsOK
    <3> QED BY <2>1, <3>1, <3>2
  <2>3. ASSUME NEW a \in OpIds, ops[a].queue = q, a # o PROVE ops[a].output = NoId
    BY <1>3, <1>10, <2>2, <2>3, OwnFacts
  <2>4. \A y : y \in AnswersOf(q)' <=> y = o
    BY <1>1, <1>4, <1>5, <1>6, <1>10, <2>1, <2>3, Answered
  <2>5. ASSUME NEW y \in AnswersOf(q) PROVE y = o
    <3>1. PICK a \in OpIds : ops[a].queue = q /\ ops[a].output = y /\ y # NoId
      BY <1>10, Answered
    <3> QED BY <1>3, <1>10, <2>2, <3>1, OwnFacts
  <2>6. AnswersOf(q)' = {o} /\ AnswersOf(q) \in {{}, {o}}
    BY <2>4, <2>5
  <2>7. CASE AnswersOf(q) = {}
    <3>1. Ledger!Answers(q)
      BY <1>4, <1>7, <2>6, <2>7, AnswerIs
    <3>2. Ledger!Answer(q)
      BY <1>6, <3>1 DEF Ledger!Answer, OwnerNow
    <3> QED BY <1>8, <2>1, <3>2
  <2>8. CASE AnswersOf(q) = {o}
    <3>1. AnswerNow' = AnswerNow
      BY <1>7, <2>6, <2>8 DEF AnswerNow
    <3> QED BY <1>6, <1>8, <2>1, <3>1
  <2> QED BY <2>6, <2>7, <2>8
<1> QED BY <1>9, <1>10

LEMMA StepKeepsLedger ==
  ASSUME IInv, OwnResults, [Next]_vars
  PROVE  OwnResults' /\ [Ledger!Next]_(Ledger!vars)
<1>1. CASE Quiet
  <2>1. OwnResults' /\ UNCHANGED <<Added, OwnerNow, AnswerNow>>
    BY <1>1, QuietKeeps
  <2> QED BY <2>1 DEF Ledger!vars, OwnerNow, AnswerNow
<1>2. ASSUME NEW n \in Nodes, NEW kind \in Kinds, Admit(n, kind)
      PROVE  OwnResults' /\ [Ledger!Next]_(Ledger!vars)
  BY <1>2, AdmitAsks DEF Ledger!Next
<1>3. ASSUME NEW n \in Nodes, NEW q \in Queues, Recover(n, q)
      PROVE  OwnResults' /\ [Ledger!Next]_(Ledger!vars)
  BY <1>3, RecoverBegins DEF Ledger!Next
<1>4. ASSUME NEW n \in Nodes, Create(n)
      PROVE  OwnResults' /\ [Ledger!Next]_(Ledger!vars)
  BY <1>4, CreateBegins DEF Ledger!Next
<1>5. ASSUME NEW n \in Nodes, Store(n) \/ Finish(n)
      PROVE  OwnResults' /\ [Ledger!Next]_(Ledger!vars)
  <2>1. /\ OwnResults'
        /\ (\E q \in Queues : Ledger!Answer(q)) \/ UNCHANGED <<Added, OwnerNow, AnswerNow>>
    BY <1>5, StoreAnswers, FinishAnswers
  <2> QED BY <2>1 DEF Ledger!Next, Ledger!vars, OwnerNow, AnswerNow
<1>6. ASSUME NEW n \in Nodes, Step(n), ~Create(n), ~Store(n), ~Finish(n) PROVE Quiet
  <2>1. CASE CloseStale(n) \/ Close(n) \/ Drop(n) \/ Link(n)
    BY <2>1, QuietRows
  <2>2. CASE Mark(n) \/ Complete(n) \/ Fail(n) \/ Error(n)
    BY <2>2, QuietOps
  <2>3. CASE \/ Idle(n) \/ Unlock(n) \/ Take(n) \/ FindStale(n) \/ Prepare(n) \/ Render(n)
             \/ Publish(n) \/ Check(n)
    BY <2>3, QuietBoth DEF Idle, Unlock, Take, FindStale, Prepare, Render, Publish, Check, dbVars
  <2> QED BY <1>6, <2>1, <2>2, <2>3 DEF Step
<1>7. ASSUME NEW n \in Nodes,
             \/ Call(n) \/ CallBusy(n) \/ Throws(n) \/ Breaks(n) \/ Crash(n)
             \/ \E q \in Queues : CallAgain(n, q)
      PROVE  Quiet
  BY <1>7, QuietBoth DEF Call, CallBusy, CallAgain, Start, Throws, Breaks, Crash, dbVars
<1>8. ASSUME NEW n \in Nodes, NEW o \in OpIds, Tick(n, o) PROVE Quiet
  <2>1. CASE Start(n, ops[o].queue)
    BY <2>1, QuietBoth DEF Start, dbVars
  <2>2. CASE ops' = [ops EXCEPT ![o].state = "interrupted"] /\ UNCHANGED rows
    BY <2>2, QuietOps
  <2> QED BY <1>8, <2>1, <2>2 DEF Tick
<1>9. CASE \/ \E n \in Nodes : Boot(n)
           \/ \E o \in OpIds : Cancel(o)
  BY <1>1, <1>9, QuietOps
<1>10. CASE Edit \/ UNCHANGED vars
  BY <1>1, <1>10, QuietBoth DEF Edit, vars, dbVars
<1> QED BY <1>1, <1>2, <1>3, <1>4, <1>5, <1>6, <1>7, <1>8, <1>9, <1>10 DEF Next

\* A result is a render of the request it is the result of (OwnResults): no
\* recovery adopts, and no drain that comes late stores, the render of another.
THEOREM OwnRenders == Spec => []OwnResults
<1>1. Init => OwnResults
  BY DEF Init, OwnResults, Made, NoOp, NoRow
<1> QED BY Invariance, <1>1, StepKeepsLedger, PTL DEF Spec

\* The queue implements the ledger (KeepsRenders): a request is added, an operation
\* begins its render, a checkpoint, a recovery or the end of the operation answers it,
\* and nothing else a drain, a crash or a boot does is seen.
THEOREM Refinement == Spec => KeepsRenders
<1>1. Init => Ledger!Init
  <2> SUFFICES ASSUME Init PROVE Ledger!Init
    OBVIOUS
  <2>1. ops = [o \in OpIds |-> NoOp]
    BY DEF Init
  <2>2. \A q \in Queues : rows[q].result = NoId
    BY DEF Init, NoRow
  <2>3. \A q \in Queues : AnswersOf(q) = {}
    <3>1. ASSUME NEW q \in Queues, NEW y \in AnswersOf(q) PROVE FALSE
      BY <2>1, <2>2, Answered DEF NoOp
    <3> QED BY <3>1
  <2> QED BY <2>1, <2>3 DEF Ledger!Init, Added, NoOp
<1>2. IInv /\ OwnResults /\ [Next]_vars => [Ledger!Next]_(Ledger!vars)
  BY StepKeepsLedger
<1> QED BY Invariance, OwnRenders, <1>1, <1>2, PTL DEF Spec, KeepsRenders, Ledger!Spec
=============================================================================
