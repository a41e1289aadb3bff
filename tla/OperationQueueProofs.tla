------------------------ MODULE OperationQueueProofs ------------------------
(***************************************************************************)
(* The safety properties of the job queue, for any number of processes,    *)
(* clients, inputs, rows, crashes and failed statements.                   *)
(***************************************************************************)
EXTENDS OperationQueue, TLAPS

USE ConfigAssumption, DrainAssumption DEF NoId, QueueIds, OpIds, Steps, Errors

LEMMA InitIInv == Init => IInv
  BY DEF Init, IInv, TypeOK, DrainInv, RowsInv, HandInv, HandOK, OutcomeInv, Active

\* At most one drain is at work, so a step of the drain at work has only its
\* own hands to answer for.
LEMMA HandOfOne ==
  ASSUME TypeOK, DrainInv, NEW n \in Nodes, Active(n), HandOK(n)',
         \A m \in Nodes : m # n => pc'[m] = pc[m]
  PROVE  HandInv'
  BY DEF TypeOK, DrainInv, HandInv, HandOK, Active

LEMMA InHands ==
  ASSUME TypeOK, HandInv, NEW n \in Nodes, pc[n] \notin {"down", "idle", "next"}
  PROVE  /\ queue[n] \in QueueIds
         /\ pc[n] \notin {"drop", "payload", "create"} => operation[n] \in OpIds
  BY DEF TypeOK, HandInv, HandOK

LEMMA FindDuplicateStep ==
  ASSUME IInv, NEW c \in Clients, FindDuplicate(c) PROVE IInv'
<1> USE DEF IInv, FindDuplicate, Goto, Active, queueVars, opVars, nodeVars, histVars, boundVars
<1>1. TypeOK'     BY DEF TypeOK
<1>2. DrainInv'   BY DEF TypeOK, DrainInv
<1>3. RowsInv'    BY DEF TypeOK, RowsInv, HandInv, HandOK
<1>4. HandInv'    BY DEF TypeOK, RowsInv, HandInv, HandOK, OutcomeInv, Resumable
<1>5. OutcomeInv' BY DEF TypeOK, RowsInv, HandInv, HandOK, OutcomeInv
<1> QED BY <1>1, <1>2, <1>3, <1>4, <1>5

LEMMA InsertQueueStep ==
  ASSUME IInv, NEW c \in Clients, InsertQueue(c) PROVE IInv'
<1> USE DEF IInv, InsertQueue, Goto, Active, queueVars, opVars, nodeVars, histVars, boundVars
<1>1. TypeOK'     BY DEF TypeOK
<1>2. DrainInv'   BY DEF TypeOK, DrainInv
<1>3. RowsInv'    BY DEF TypeOK, RowsInv, HandInv, HandOK
<1>4. HandInv'    BY DEF TypeOK, RowsInv, HandInv, HandOK, OutcomeInv, Resumable
<1>5. OutcomeInv' BY DEF TypeOK, RowsInv, HandInv, HandOK, OutcomeInv
<1> QED BY <1>1, <1>2, <1>3, <1>4, <1>5

LEMMA CancelOperationStep ==
  ASSUME IInv, NEW o \in OpIds, CancelOperation(o) PROVE IInv'
<1> USE DEF IInv, CancelOperation, Goto, Active, queueVars, opVars, nodeVars, histVars, boundVars
<1>1. TypeOK'     BY DEF TypeOK
<1>2. DrainInv'   BY DEF TypeOK, DrainInv
<1>3. RowsInv'    BY DEF TypeOK, RowsInv, HandInv, HandOK
<1>4. HandInv'    BY DEF TypeOK, RowsInv, HandInv, HandOK, OutcomeInv, Resumable
<1>5. OutcomeInv' BY DEF TypeOK, RowsInv, HandInv, HandOK, OutcomeInv
<1> QED BY <1>1, <1>2, <1>3, <1>4, <1>5

LEMMA StartDrainStep ==
  ASSUME IInv, NEW n \in Nodes, StartDrain(n) PROVE IInv'
<1> USE DEF IInv, StartDrain, LockFree, Goto, Active, queueVars, opVars, nodeVars, histVars, boundVars
<1>1. TypeOK'     BY DEF TypeOK
<1>2. DrainInv'   BY DEF TypeOK, DrainInv
<1>3. RowsInv'    BY DEF TypeOK, RowsInv, HandInv, HandOK
<1>4. HandInv'    BY DEF TypeOK, RowsInv, HandInv, HandOK, OutcomeInv, Resumable
<1>5. OutcomeInv' BY DEF TypeOK, RowsInv, HandInv, HandOK, OutcomeInv
<1> QED BY <1>1, <1>2, <1>3, <1>4, <1>5

LEMMA ReadNextStep ==
  ASSUME IInv, NEW n \in Nodes, ReadNext(n) PROVE IInv'
<1> USE DEF IInv, ReadNext, Waiting, Oldest, Return, Resumable, Goto, Active, queueVars, opVars, nodeVars, histVars, boundVars
<1>0. \/ Return(n)
      \/ /\ drain' = drain
         /\ \E q \in Waiting : /\ queue' = [queue EXCEPT ![n] = q]
                             /\ operation' = [operation EXCEPT ![n] = opOf[q]]
         /\ pc' = [pc EXCEPT ![n] = "payload"] \/ pc' = [pc EXCEPT ![n] = "drop"]
  OBVIOUS
<1>1. TypeOK'
  <2>1. CASE Return(n)  BY <2>1 DEF TypeOK
  <2>2. CASE ~Return(n)
    <3>1. PICK q \in Waiting : /\ queue' = [queue EXCEPT ![n] = q]
                              /\ operation' = [operation EXCEPT ![n] = opOf[q]]
      BY <2>2, <1>0
    <3>2. q \in QueueIds /\ q # NoId /\ opOf[q] \in OpIds \cup {NoId}  BY DEF TypeOK
    <3>3. PICK s \in {"payload", "drop"} : pc' = [pc EXCEPT ![n] = s]
      BY <2>2, <1>0
    <3>4. drain' = drain /\ UNCHANGED <<queueVars, opVars, wants, histVars, boundVars>>
      BY <2>2, <1>0
    <3>5. \A m \in Nodes : queue'[m] = NoId <=> pc'[m] \in {"down", "idle", "next"}
      BY <3>1, <3>2, <3>3 DEF TypeOK
    <3>6. /\ queue' \in [Nodes -> QueueIds \cup {NoId}]
          /\ operation' \in [Nodes -> OpIds \cup {NoId}]
          /\ pc' \in [Nodes -> Steps]
      BY <3>1, <3>2, <3>3 DEF TypeOK
    <3> HIDE DEF ReadNext
    <3> QED BY <3>4, <3>5, <3>6 DEF TypeOK
  <2> QED BY <2>1, <2>2
<1>2. DrainInv'
  <2>1. CASE Return(n)  BY <2>1 DEF TypeOK, DrainInv
  <2>2. CASE ~Return(n) BY <2>2, <1>0 DEF TypeOK, DrainInv
  <2> QED BY <2>1, <2>2
<1>3. RowsInv'    BY DEF TypeOK, RowsInv, HandInv, HandOK
<1>4. HandInv'
  <2>1. HandOK(n)'  BY SMTT(30) DEF TypeOK, RowsInv, HandInv, HandOK, OutcomeInv, Resumable
  <2>2. Active(n) /\ \A m \in Nodes : m # n => pc'[m] = pc[m]  BY DEF TypeOK
  <2> QED BY <2>1, <2>2, HandOfOne
<1>5. OutcomeInv' BY DEF TypeOK, RowsInv, HandInv, HandOK, OutcomeInv
<1> QED BY <1>1, <1>2, <1>3, <1>4, <1>5

LEMMA DropQueueStep ==
  ASSUME IInv, NEW n \in Nodes, DropQueue(n) PROVE IInv'
<1> USE DEF IInv, DropQueue, NextItem, Return, Resumable, Goto, Active, queueVars, opVars, nodeVars, histVars, boundVars
<1>1. TypeOK'     BY ZenonT(60) DEF TypeOK
<1>2. DrainInv'   BY DEF TypeOK, DrainInv
<1>3. RowsInv'    BY DEF TypeOK, RowsInv, HandInv, HandOK
<1>4. HandInv'
  <2>1. HandOK(n)'  BY SMTT(30) DEF TypeOK, RowsInv, HandInv, HandOK, OutcomeInv, Resumable
  <2>2. Active(n) /\ \A m \in Nodes : m # n => pc'[m] = pc[m]  BY DEF TypeOK
  <2> QED BY <2>1, <2>2, HandOfOne
<1>5. OutcomeInv' BY DEF TypeOK, RowsInv, HandInv, HandOK, OutcomeInv
<1> QED BY <1>1, <1>2, <1>3, <1>4, <1>5

LEMMA GetPayloadStep ==
  ASSUME IInv, NEW n \in Nodes, GetPayload(n) PROVE IInv'
<1> USE DEF IInv, GetPayload, Resumable, Goto, Active, queueVars, opVars, nodeVars, histVars, boundVars
<1>0. queue[n] \in QueueIds /\ (pc[n] \notin {"drop", "payload", "create"} => operation[n] \in OpIds)
  BY InHands
<1>1. TypeOK'     BY <1>0, ZenonT(60) DEF TypeOK
<1>2. DrainInv'   BY DEF TypeOK, DrainInv
<1>3. RowsInv'    BY <1>0 DEF TypeOK, RowsInv, HandInv, HandOK
<1>4. HandInv'
  <2>1. HandOK(n)'  BY <1>0, SMTT(30) DEF TypeOK, RowsInv, HandInv, HandOK, OutcomeInv, Resumable
  <2>2. Active(n) /\ \A m \in Nodes : m # n => pc'[m] = pc[m]  BY DEF TypeOK
  <2> QED BY <2>1, <2>2, HandOfOne
<1>5. OutcomeInv' BY <1>0 DEF TypeOK, RowsInv, HandInv, HandOK, OutcomeInv
<1> QED BY <1>1, <1>2, <1>3, <1>4, <1>5

LEMMA CreateOperationStep ==
  ASSUME IInv, NEW n \in Nodes, CreateOperation(n) PROVE IInv'
<1> USE DEF IInv, CreateOperation, Goto, Active, queueVars, opVars, nodeVars, histVars, boundVars
<1>1. TypeOK'     BY DEF TypeOK
<1>2. DrainInv'   BY DEF TypeOK, DrainInv
<1>3. RowsInv'    BY DEF TypeOK, RowsInv, HandInv, HandOK
<1>4. HandInv'
  <2>1. HandOK(n)'  BY SMTT(30) DEF TypeOK, RowsInv, HandInv, HandOK, OutcomeInv, Resumable
  <2>2. Active(n) /\ \A m \in Nodes : m # n => pc'[m] = pc[m]  BY DEF TypeOK
  <2> QED BY <2>1, <2>2, HandOfOne
<1>5. OutcomeInv' BY DEF TypeOK, RowsInv, HandInv, HandOK, OutcomeInv
<1> QED BY <1>1, <1>2, <1>3, <1>4, <1>5

LEMMA LinkOperationStep ==
  ASSUME IInv, NEW n \in Nodes, LinkOperation(n) PROVE IInv'
<1> USE DEF IInv, LinkOperation, Goto, Active, queueVars, opVars, nodeVars, histVars, boundVars
<1>0. queue[n] \in QueueIds /\ (pc[n] \notin {"drop", "payload", "create"} => operation[n] \in OpIds)
  BY InHands
<1>1. TypeOK'     BY <1>0 DEF TypeOK
<1>2. DrainInv'   BY DEF TypeOK, DrainInv
<1>3. RowsInv'    BY <1>0 DEF TypeOK, RowsInv, HandInv, HandOK
<1>4. HandInv'
  <2>1. HandOK(n)'  BY <1>0, SMTT(30) DEF TypeOK, RowsInv, HandInv, HandOK, OutcomeInv, Resumable
  <2>2. Active(n) /\ \A m \in Nodes : m # n => pc'[m] = pc[m]  BY DEF TypeOK
  <2> QED BY <2>1, <2>2, HandOfOne
<1>5. OutcomeInv' BY <1>0 DEF TypeOK, RowsInv, HandInv, HandOK, OutcomeInv
<1> QED BY <1>1, <1>2, <1>3, <1>4, <1>5

LEMMA ResumeOperationStep ==
  ASSUME IInv, NEW n \in Nodes, ResumeOperation(n) PROVE IInv'
<1> USE DEF IInv, ResumeOperation, Goto, Active, queueVars, opVars, nodeVars, histVars, boundVars
<1>1. TypeOK'     BY DEF TypeOK
<1>2. DrainInv'   BY DEF TypeOK, DrainInv
<1>3. RowsInv'    BY DEF TypeOK, RowsInv, HandInv, HandOK
<1>4. HandInv'
  <2>1. HandOK(n)'  BY SMTT(30) DEF TypeOK, RowsInv, HandInv, HandOK, OutcomeInv, Resumable
  <2>2. Active(n) /\ \A m \in Nodes : m # n => pc'[m] = pc[m]  BY DEF TypeOK
  <2> QED BY <2>1, <2>2, HandOfOne
<1>5. OutcomeInv' BY DEF TypeOK, RowsInv, HandInv, HandOK, OutcomeInv
<1> QED BY <1>1, <1>2, <1>3, <1>4, <1>5

LEMMA CheckCancelStep ==
  ASSUME IInv, NEW n \in Nodes, CheckCancel(n) PROVE IInv'
<1> USE DEF IInv, CheckCancel, AfterCheck, Goto, Active, queueVars, opVars, nodeVars, histVars, boundVars
<1>1. TypeOK'     BY DEF TypeOK
<1>2. DrainInv'   BY DEF TypeOK, DrainInv
<1>3. RowsInv'    BY DEF TypeOK, RowsInv, HandInv, HandOK
<1>4. HandInv'
  <2>1. HandOK(n)'  BY SMTT(30) DEF TypeOK, RowsInv, HandInv, HandOK, OutcomeInv, Resumable
  <2>2. Active(n) /\ \A m \in Nodes : m # n => pc'[m] = pc[m]  BY DEF TypeOK
  <2> QED BY <2>1, <2>2, HandOfOne
<1>5. OutcomeInv' BY DEF TypeOK, RowsInv, HandInv, HandOK, OutcomeInv
<1> QED BY <1>1, <1>2, <1>3, <1>4, <1>5

LEMMA StopCanceledStep ==
  ASSUME IInv, NEW n \in Nodes, StopCanceled(n) PROVE IInv'
<1> USE DEF IInv, StopCanceled, Fails, Goto, Active, queueVars, opVars, nodeVars, histVars, boundVars
<1>1. TypeOK'     BY DEF TypeOK
<1>2. DrainInv'   BY DEF TypeOK, DrainInv
<1>3. RowsInv'    BY DEF TypeOK, RowsInv, HandInv, HandOK
<1>4. HandInv'
  <2>1. HandOK(n)'  BY SMTT(30) DEF TypeOK, RowsInv, HandInv, HandOK, OutcomeInv, Resumable
  <2>2. Active(n) /\ \A m \in Nodes : m # n => pc'[m] = pc[m]  BY DEF TypeOK
  <2> QED BY <2>1, <2>2, HandOfOne
<1>5. OutcomeInv' BY DEF TypeOK, RowsInv, HandInv, HandOK, OutcomeInv
<1> QED BY <1>1, <1>2, <1>3, <1>4, <1>5

LEMMA StartRunStep ==
  ASSUME IInv, NEW n \in Nodes, StartRun(n) PROVE IInv'
<1> USE DEF IInv, StartRun, Goto, Active, queueVars, opVars, nodeVars, histVars, boundVars
<1>1. TypeOK'     BY DEF TypeOK
<1>2. DrainInv'   BY DEF TypeOK, DrainInv
<1>3. RowsInv'    BY DEF TypeOK, RowsInv, HandInv, HandOK
<1>4. HandInv'
  <2>1. HandOK(n)'  BY SMTT(30) DEF TypeOK, RowsInv, HandInv, HandOK, OutcomeInv, Resumable
  <2>2. Active(n) /\ \A m \in Nodes : m # n => pc'[m] = pc[m]  BY DEF TypeOK
  <2> QED BY <2>1, <2>2, HandOfOne
<1>5. OutcomeInv' BY DEF TypeOK, RowsInv, HandInv, HandOK, OutcomeInv
<1> QED BY <1>1, <1>2, <1>3, <1>4, <1>5

LEMMA RunReturnsStep ==
  ASSUME IInv, NEW n \in Nodes, RunReturns(n) PROVE IInv'
<1> USE DEF IInv, RunReturns, Goto, Active, queueVars, opVars, nodeVars, histVars, boundVars
<1>1. TypeOK'     BY DEF TypeOK
<1>2. DrainInv'   BY DEF TypeOK, DrainInv
<1>3. RowsInv'    BY DEF TypeOK, RowsInv, HandInv, HandOK
<1>4. HandInv'
  <2>1. HandOK(n)'  BY SMTT(30) DEF TypeOK, RowsInv, HandInv, HandOK, OutcomeInv, Resumable
  <2>2. Active(n) /\ \A m \in Nodes : m # n => pc'[m] = pc[m]  BY DEF TypeOK
  <2> QED BY <2>1, <2>2, HandOfOne
<1>5. OutcomeInv' BY DEF TypeOK, RowsInv, HandInv, HandOK, OutcomeInv
<1> QED BY <1>1, <1>2, <1>3, <1>4, <1>5

LEMMA RunThrowsStep ==
  ASSUME IInv, NEW n \in Nodes, RunThrows(n) PROVE IInv'
<1> USE DEF IInv, RunThrows, Fails, Goto, Active, queueVars, opVars, nodeVars, histVars, boundVars
<1>0. queue[n] \in QueueIds /\ (pc[n] \notin {"drop", "payload", "create"} => operation[n] \in OpIds)
  BY InHands
<1>1. TypeOK'     BY <1>0 DEF TypeOK
<1>2. DrainInv'   BY DEF TypeOK, DrainInv
<1>3. RowsInv'    BY <1>0 DEF TypeOK, RowsInv, HandInv, HandOK
<1>4. HandInv'
  <2>1. HandOK(n)'  BY <1>0, SMTT(30) DEF TypeOK, RowsInv, HandInv, HandOK, OutcomeInv, Resumable
  <2>2. Active(n) /\ \A m \in Nodes : m # n => pc'[m] = pc[m]  BY DEF TypeOK
  <2> QED BY <2>1, <2>2, HandOfOne
<1>5. OutcomeInv' BY <1>0 DEF TypeOK, RowsInv, HandInv, HandOK, OutcomeInv
<1> QED BY <1>1, <1>2, <1>3, <1>4, <1>5

LEMMA RunCanceledStep ==
  ASSUME IInv, NEW n \in Nodes, RunCanceled(n) PROVE IInv'
<1> USE DEF IInv, RunCanceled, Goto, Active, queueVars, opVars, nodeVars, histVars, boundVars
<1>0. queue[n] \in QueueIds /\ (pc[n] \notin {"drop", "payload", "create"} => operation[n] \in OpIds)
  BY InHands
<1>1. TypeOK'     BY <1>0 DEF TypeOK
<1>2. DrainInv'   BY DEF TypeOK, DrainInv
<1>3. RowsInv'    BY <1>0 DEF TypeOK, RowsInv, HandInv, HandOK
<1>4. HandInv'
  <2>1. HandOK(n)'  BY <1>0, SMTT(30) DEF TypeOK, RowsInv, HandInv, HandOK, OutcomeInv, Resumable
  <2>2. Active(n) /\ \A m \in Nodes : m # n => pc'[m] = pc[m]  BY DEF TypeOK
  <2> QED BY <2>1, <2>2, HandOfOne
<1>5. OutcomeInv' BY <1>0 DEF TypeOK, RowsInv, HandInv, HandOK, OutcomeInv
<1> QED BY <1>1, <1>2, <1>3, <1>4, <1>5

LEMMA FinishOperationStep ==
  ASSUME IInv, NEW n \in Nodes, FinishOperation(n) PROVE IInv'
<1> USE DEF IInv, FinishOperation, NextItem, Return, Goto, Active, queueVars, opVars, nodeVars, histVars, boundVars
<1>0. queue[n] \in QueueIds /\ (pc[n] \notin {"drop", "payload", "create"} => operation[n] \in OpIds)
  BY InHands
<1>1. TypeOK'     BY <1>0, ZenonT(60) DEF TypeOK
<1>2. DrainInv'   BY DEF TypeOK, DrainInv
<1>3. RowsInv'    BY <1>0 DEF TypeOK, RowsInv, HandInv, HandOK
<1>4. HandInv'
  <2>1. HandOK(n)'  BY <1>0, SMTT(30) DEF TypeOK, RowsInv, HandInv, HandOK, OutcomeInv, Resumable
  <2>2. Active(n) /\ \A m \in Nodes : m # n => pc'[m] = pc[m]  BY DEF TypeOK
  <2> QED BY <2>1, <2>2, HandOfOne
<1>5. OutcomeInv' BY <1>0 DEF TypeOK, RowsInv, HandInv, HandOK, OutcomeInv
<1> QED BY <1>1, <1>2, <1>3, <1>4, <1>5

LEMMA CloseQueueStep ==
  ASSUME IInv, NEW n \in Nodes, CloseQueue(n) PROVE IInv'
<1> USE DEF IInv, CloseQueue, CloseRows, RowsOf, NextItem, Return, Goto, Active, queueVars, opVars, nodeVars, histVars, boundVars
<1>0. queue[n] \in QueueIds /\ (pc[n] \notin {"drop", "payload", "create"} => operation[n] \in OpIds)
  BY InHands
<1>1. TypeOK'     BY <1>0, ZenonT(60) DEF TypeOK
<1>2. DrainInv'   BY DEF TypeOK, DrainInv
<1>3. RowsInv'    BY <1>0 DEF TypeOK, RowsInv, HandInv, HandOK
<1>4. HandInv'
  <2>1. HandOK(n)'  BY <1>0, SMTT(30) DEF TypeOK, RowsInv, HandInv, HandOK, OutcomeInv, Resumable
  <2>2. Active(n) /\ \A m \in Nodes : m # n => pc'[m] = pc[m]  BY DEF TypeOK
  <2> QED BY <2>1, <2>2, HandOfOne
<1>5. OutcomeInv' BY <1>0 DEF TypeOK, RowsInv, HandInv, HandOK, OutcomeInv
<1> QED BY <1>1, <1>2, <1>3, <1>4, <1>5

LEMMA FailCloseStep ==
  ASSUME IInv, NEW n \in Nodes, FailClose(n) PROVE IInv'
<1> USE DEF IInv, FailClose, CloseRows, RowsOf, Goto, Active, queueVars, opVars, nodeVars, histVars, boundVars
<1>0. queue[n] \in QueueIds /\ (pc[n] \notin {"drop", "payload", "create"} => operation[n] \in OpIds)
  BY InHands
<1>1. TypeOK'     BY <1>0 DEF TypeOK
<1>2. DrainInv'   BY DEF TypeOK, DrainInv
<1>3. RowsInv'    BY <1>0 DEF TypeOK, RowsInv, HandInv, HandOK
<1>4. HandInv'
  <2>1. HandOK(n)'  BY <1>0, SMTT(30) DEF TypeOK, RowsInv, HandInv, HandOK, OutcomeInv, Resumable
  <2>2. Active(n) /\ \A m \in Nodes : m # n => pc'[m] = pc[m]  BY DEF TypeOK
  <2> QED BY <2>1, <2>2, HandOfOne
<1>5. OutcomeInv' BY <1>0 DEF TypeOK, RowsInv, HandInv, HandOK, OutcomeInv
<1> QED BY <1>1, <1>2, <1>3, <1>4, <1>5

LEMMA FailErrorStep ==
  ASSUME IInv, NEW n \in Nodes, FailError(n) PROVE IInv'
<1> USE DEF IInv, FailError, NextItem, Return, Goto, Active, queueVars, opVars, nodeVars, histVars, boundVars
<1>1. TypeOK'     BY ZenonT(60) DEF TypeOK
<1>2. DrainInv'   BY DEF TypeOK, DrainInv
<1>3. RowsInv'    BY DEF TypeOK, RowsInv, HandInv, HandOK
<1>4. HandInv'
  <2>1. HandOK(n)'  BY SMTT(30) DEF TypeOK, RowsInv, HandInv, HandOK, OutcomeInv, Resumable
  <2>2. Active(n) /\ \A m \in Nodes : m # n => pc'[m] = pc[m]  BY DEF TypeOK
  <2> QED BY <2>1, <2>2, HandOfOne
<1>5. OutcomeInv' BY DEF TypeOK, RowsInv, HandInv, HandOK, OutcomeInv
<1> QED BY <1>1, <1>2, <1>3, <1>4, <1>5

LEMMA FaultCaughtStep ==
  ASSUME IInv, NEW n \in Nodes, FaultCaught(n) PROVE IInv'
<1> USE DEF IInv, FaultCaught, Fails, Goto, Active, queueVars, opVars, nodeVars, histVars, boundVars
<1>0. queue[n] \in QueueIds /\ operation[n] \in OpIds
  BY InHands
<1>1. TypeOK'     BY DEF TypeOK
<1>2. DrainInv'   BY DEF TypeOK, DrainInv
<1>3. RowsInv'    BY DEF TypeOK, RowsInv, HandInv, HandOK
<1>4. HandInv'
  <2>1. HandOK(n)'  BY <1>0, SMTT(30) DEF TypeOK, RowsInv, HandInv, HandOK, OutcomeInv, Resumable
  <2>2. Active(n) /\ \A m \in Nodes : m # n => pc'[m] = pc[m]  BY DEF TypeOK
  <2> QED BY <2>1, <2>2, HandOfOne
<1>5. OutcomeInv' BY DEF TypeOK, RowsInv, HandInv, HandOK, OutcomeInv
<1> QED BY <1>1, <1>2, <1>3, <1>4, <1>5

LEMMA FaultThrownStep ==
  ASSUME IInv, NEW n \in Nodes, FaultThrown(n) PROVE IInv'
<1> USE DEF IInv, FaultThrown, Return, Goto, Active, queueVars, opVars, nodeVars, histVars, boundVars
<1>1. TypeOK'     BY DEF TypeOK
<1>2. DrainInv'   BY DEF TypeOK, DrainInv
<1>3. RowsInv'    BY DEF TypeOK, RowsInv, HandInv, HandOK
<1>4. HandInv'
  <2>1. HandOK(n)'  BY SMTT(30) DEF TypeOK, RowsInv, HandInv, HandOK, OutcomeInv, Resumable
  <2>2. Active(n) /\ \A m \in Nodes : m # n => pc'[m] = pc[m]  BY DEF TypeOK
  <2> QED BY <2>1, <2>2, HandOfOne
<1>5. OutcomeInv' BY DEF TypeOK, RowsInv, HandInv, HandOK, OutcomeInv
<1> QED BY <1>1, <1>2, <1>3, <1>4, <1>5

LEMMA CrashStep ==
  ASSUME IInv, NEW n \in Nodes, Crash(n) PROVE IInv'
<1> USE DEF IInv, Crash, Goto, Active, queueVars, opVars, nodeVars, histVars, boundVars
<1>1. TypeOK'     BY DEF TypeOK
<1>2. DrainInv'   BY DEF TypeOK, DrainInv
<1>3. RowsInv'    BY DEF TypeOK, RowsInv, HandInv, HandOK
<1>4. HandInv'    BY DEF TypeOK, RowsInv, HandInv, HandOK, OutcomeInv, Resumable
<1>5. OutcomeInv' BY DEF TypeOK, RowsInv, HandInv, HandOK, OutcomeInv
<1> QED BY <1>1, <1>2, <1>3, <1>4, <1>5

LEMMA BootStep ==
  ASSUME IInv, NEW n \in Nodes, Boot(n) PROVE IInv'
<1> USE DEF IInv, Boot, CloseAll, Stale, InHand, RowsOf, Goto, Active, queueVars, opVars, nodeVars, histVars, boundVars
<1>1. TypeOK'     BY DEF TypeOK
<1>2. DrainInv'   BY DEF TypeOK, DrainInv
<1>3. RowsInv'
  <2>1. ASSUME NEW q \in QueueIds, isWaiting[q] PROVE q \in rows'
    BY <2>1, ZenonT(60) DEF TypeOK, RowsInv
  <2> QED BY <2>1, SMTT(30) DEF TypeOK, RowsInv
<1>4. HandInv'    BY DEF TypeOK, RowsInv, HandInv, HandOK, OutcomeInv, Resumable
<1>5. OutcomeInv' BY DEF TypeOK, RowsInv, HandInv, HandOK, OutcomeInv
<1> QED BY <1>1, <1>2, <1>3, <1>4, <1>5

LEMMA StutterStep == ASSUME IInv, UNCHANGED vars PROVE IInv'
  BY DEF vars, queueVars, opVars, nodeVars, histVars, boundVars, IInv, TypeOK, DrainInv,
         RowsInv, HandInv, HandOK, OutcomeInv, Active, Resumable

LEMMA NextIInv == IInv /\ [Next]_vars => IInv'
<1> SUFFICES ASSUME IInv, [Next]_vars PROVE IInv'  OBVIOUS
<1>1. ASSUME NEW c \in Clients, FindDuplicate(c) \/ InsertQueue(c) PROVE IInv'
  BY <1>1, FindDuplicateStep, InsertQueueStep
<1>2. ASSUME NEW o \in OpIds, CancelOperation(o) PROVE IInv'
  BY <1>2, CancelOperationStep
<1>3. ASSUME NEW n \in Nodes, Drain(n) PROVE IInv'
  BY <1>3, StartDrainStep, ReadNextStep, DropQueueStep, GetPayloadStep, CreateOperationStep,
     LinkOperationStep, ResumeOperationStep, CheckCancelStep, StopCanceledStep, StartRunStep,
     RunReturnsStep, RunThrowsStep, RunCanceledStep, FinishOperationStep, CloseQueueStep,
     FailCloseStep, FailErrorStep DEF Drain
<1>4. ASSUME NEW n \in Nodes, FaultCaught(n) \/ FaultThrown(n) \/ Crash(n) \/ Boot(n)
      PROVE  IInv'
  BY <1>4, FaultCaughtStep, FaultThrownStep, CrashStep, BootStep
<1> QED BY <1>1, <1>2, <1>3, <1>4, StutterStep DEF Next

\* Every step of a request, a drain, a crash, a failed statement or a start keeps rows,
\* operations and what the drains have in hand in agreement.
THEOREM Invariance == Spec => []IInv
  BY InitIInv, NextIInv, PTL DEF Spec

-----------------------------------------------------------------------------
\* The status a client polls only moves forward along the ledger's moves.
LEMMA LedgerInit == Init => Ledger!Init
  BY DEF Init, Ledger!Init, StatusOf

Settled == \A q \in QueueIds :
    StatusOf(q)' = StatusOf(q) \/ <<StatusOf(q), StatusOf(q)'>> \in Ledger!Moves

\* Steps that change nothing a client can poll.
LEMMA QuietMoves ==
  ASSUME UNCHANGED <<lastQueue, rows, isWaiting, opOf, finished, inProcess>> PROVE Settled
  BY DEF Settled, StatusOf

LEMMA InsertQueueMoves ==
  ASSUME IInv, NEW c \in Clients, InsertQueue(c) PROVE Settled
  BY DEF Settled, StatusOf, Ledger!Moves, IInv, TypeOK, RowsInv, InsertQueue, opVars

LEMMA DropQueueMoves ==
  ASSUME IInv, NEW n \in Nodes, DropQueue(n) PROVE Settled
  BY DEF Settled, StatusOf, Ledger!Moves, IInv, TypeOK, RowsInv, HandInv, HandOK,
         OutcomeInv, DropQueue, queueVars, opVars

LEMMA CreateOperationMoves ==
  ASSUME IInv, NEW n \in Nodes, CreateOperation(n) PROVE Settled
  BY DEF Settled, StatusOf, Ledger!Moves, IInv, TypeOK, RowsInv, HandInv, HandOK,
         OutcomeInv, CreateOperation, queueVars, opVars

LEMMA LinkOperationMoves ==
  ASSUME IInv, NEW n \in Nodes, LinkOperation(n) PROVE Settled
  BY DEF Settled, StatusOf, Ledger!Moves, IInv, TypeOK, RowsInv, HandInv, HandOK,
         OutcomeInv, LinkOperation, queueVars, opVars

LEMMA ResumeOperationMoves ==
  ASSUME IInv, NEW n \in Nodes, ResumeOperation(n) PROVE Settled
  BY DEF Settled, StatusOf, Ledger!Moves, IInv, TypeOK, RowsInv, HandInv, HandOK,
         OutcomeInv, ResumeOperation, Resumable, queueVars, opVars

LEMMA StopCanceledMoves ==
  ASSUME IInv, NEW n \in Nodes, StopCanceled(n) PROVE Settled
  BY DEF Settled, StatusOf, Ledger!Moves, IInv, TypeOK, RowsInv, HandInv, HandOK,
         OutcomeInv, StopCanceled, queueVars, opVars

LEMMA FinishOperationMoves ==
  ASSUME IInv, NEW n \in Nodes, FinishOperation(n) PROVE Settled
  BY DEF Settled, StatusOf, Ledger!Moves, IInv, TypeOK, RowsInv, HandInv, HandOK,
         OutcomeInv, FinishOperation, queueVars, opVars

LEMMA CloseQueueMoves ==
  ASSUME IInv, NEW n \in Nodes, CloseQueue(n) PROVE Settled
  BY DEF Settled, StatusOf, Ledger!Moves, IInv, TypeOK, RowsInv, HandInv, HandOK,
         OutcomeInv, CloseQueue, CloseRows, RowsOf, queueVars, opVars

LEMMA FailCloseMoves ==
  ASSUME IInv, NEW n \in Nodes, FailClose(n) PROVE Settled
  BY DEF Settled, StatusOf, Ledger!Moves, IInv, TypeOK, RowsInv, HandInv, HandOK,
         OutcomeInv, FailClose, CloseRows, RowsOf, queueVars, opVars

LEMMA FailErrorMoves ==
  ASSUME IInv, NEW n \in Nodes, FailError(n) PROVE Settled
  BY DEF Settled, StatusOf, Ledger!Moves, IInv, TypeOK, RowsInv, HandInv, HandOK,
         OutcomeInv, FailError, queueVars, opVars

LEMMA BootMoves ==
  ASSUME IInv, NEW n \in Nodes, Boot(n) PROVE Settled
  BY DEF Settled, StatusOf, Ledger!Moves, IInv, TypeOK, RowsInv, HandInv, HandOK,
         OutcomeInv, Boot, CloseAll, Stale, RowsOf, queueVars, opVars

LEMMA NextMoves == IInv /\ [Next]_vars => Settled
<1> SUFFICES ASSUME IInv, [Next]_vars PROVE Settled  OBVIOUS
<1>1. ASSUME NEW c \in Clients, FindDuplicate(c) \/ InsertQueue(c) PROVE Settled
  BY <1>1, QuietMoves, InsertQueueMoves DEF FindDuplicate, queueVars, opVars
<1>2. ASSUME NEW o \in OpIds, CancelOperation(o) PROVE Settled
  BY <1>2, QuietMoves DEF CancelOperation, queueVars
<1>3. ASSUME NEW n \in Nodes, Drain(n) PROVE Settled
  <2>1. CASE \/ StartDrain(n) \/ ReadNext(n) \/ GetPayload(n) \/ CheckCancel(n)
             \/ StartRun(n) \/ RunReturns(n) \/ RunThrows(n) \/ RunCanceled(n)
    BY <2>1, QuietMoves DEF StartDrain, ReadNext, GetPayload, CheckCancel, StartRun,
       RunReturns, RunThrows, RunCanceled, queueVars, opVars
  <2>2. CASE ~(\/ StartDrain(n) \/ ReadNext(n) \/ GetPayload(n) \/ CheckCancel(n)
               \/ StartRun(n) \/ RunReturns(n) \/ RunThrows(n) \/ RunCanceled(n))
    BY <1>3, <2>2, DropQueueMoves, CreateOperationMoves, LinkOperationMoves,
       ResumeOperationMoves, StopCanceledMoves, FinishOperationMoves, CloseQueueMoves,
       FailCloseMoves, FailErrorMoves DEF Drain
  <2> QED BY <2>1, <2>2
<1>4. ASSUME NEW n \in Nodes, FaultCaught(n) \/ FaultThrown(n) \/ Crash(n) PROVE Settled
  BY <1>4, QuietMoves DEF FaultCaught, FaultThrown, Crash, queueVars, opVars
<1>5. CASE UNCHANGED vars
  BY <1>5, QuietMoves DEF vars, queueVars, opVars
<1> QED BY <1>1, <1>2, <1>3, <1>4, <1>5, BootMoves DEF Next

\* The queue implements the ledger: whatever crashes, failed statements and
\* startup cleanups come between, a polled job goes from open to done or
\* failed once, never back, and is forgotten only afterwards.
THEOREM Refinement == Spec => KeepsLedger
<1>1. ASSUME IInv, [Next]_vars
      PROVE  [Ledger!Next]_([q \in QueueIds |-> StatusOf(q)])
  <2>1. Settled  BY <1>1, NextMoves
  <2>2. \A q \in QueueIds : StatusOf(q)' \in Ledger!Statuses
    BY DEF StatusOf, Ledger!Statuses
  <2> QED BY <2>1, <2>2 DEF Settled, Ledger!Next
<1> QED BY <1>1, LedgerInit, Invariance, PTL DEF Spec, KeepsLedger, Ledger!Spec

-----------------------------------------------------------------------------
\* The state of every run of the queue has the declared shape.
THEOREM TypeCorrect == Spec => []TypeOK
  BY Invariance, PTL DEF IInv

\* No two drains ever hold the same job: under the worker lock because the
\* lock's holder is the only drain at work, and otherwise because one process
\* runs one drain.
THEOREM Exclusion == Spec => []OneDrainPerJob
<1>1. IInv => OneDrainPerJob
  BY DEF IInv, TypeOK, DrainInv, OneDrainPerJob, Active
<1> QED BY <1>1, Invariance, PTL

\* A crash never drops a resumable job.
THEOREM NothingDropped == Spec => []CrashNeverDropsJob
<1>1. IInv => CrashNeverDropsJob
  BY DEF IInv, TypeOK, OutcomeInv, CrashNeverDropsJob
<1> QED BY <1>1, Invariance, PTL

\* A job that cannot be resumed starts at most once.
THEOREM StartsAtMostOnce == Spec => []AtMostOnce
<1>1. IInv => AtMostOnce
  BY DEF IInv, OutcomeInv, AtMostOnce
<1> QED BY <1>1, Invariance, PTL

\* A finished job never runs again: only a job whose operation is unfinished
\* reaches the start of its callback.
THEOREM NoRerun == Spec => FinishedNeverReruns
<1>1. ASSUME IInv, [Next]_vars, NEW q \in QueueIds, outcome[q] = "finished"
      PROVE  runs'[q] = runs[q]
  <2>1. ASSUME NEW n \in Nodes, StartRun(n) PROVE runs'[q] = runs[q]
    BY <1>1, <2>1 DEF IInv, TypeOK, HandInv, HandOK, OutcomeInv, StartRun
  <2>2. CASE ~ \E n \in Nodes : StartRun(n)
    BY <1>1, <2>2 DEF Next, Drain, FindDuplicate, InsertQueue, CancelOperation,
       StartDrain, ReadNext, DropQueue, GetPayload, CreateOperation, LinkOperation,
       ResumeOperation, CheckCancel, StopCanceled, RunReturns, RunThrows, RunCanceled,
       FinishOperation, CloseQueue, FailClose, FailError, FaultCaught, FaultThrown,
       Crash, Boot, histVars, vars
  <2> QED BY <2>1, <2>2
<1>2. IInv /\ [Next]_vars =>
        [\A q \in QueueIds : outcome[q] = "finished" => runs'[q] = runs[q]]_vars
  BY <1>1
<1> QED BY <1>2, Invariance, PTL DEF Spec, FinishedNeverReruns

-----------------------------------------------------------------------------
\* Rows only stop waiting, but for those that are inserted.
LEMMA OthersAdmitNothing ==
  ASSUME IInv, [Next]_vars, ~ \E c \in Clients : FindDuplicate(c) \/ InsertQueue(c)
  PROVE  Waiting' \subseteq Waiting /\ UNCHANGED <<inputOf, wants>>
<1>1. CASE \E o \in OpIds : CancelOperation(o)
  BY <1>1 DEF CancelOperation, queueVars, Waiting
<1>2. ASSUME NEW n \in Nodes, DropQueue(n)
      PROVE  Waiting' \subseteq Waiting /\ UNCHANGED <<inputOf, wants>>
  BY <1>2 DEF DropQueue, Waiting, IInv, TypeOK, RowsInv
<1>3. ASSUME NEW n \in Nodes, CloseQueue(n) \/ FailClose(n)
      PROVE  Waiting' \subseteq Waiting /\ UNCHANGED <<inputOf, wants>>
  <2>1. UNCHANGED <<rows, inputOf, wants>> /\ CloseRows(operation[n])
    BY <1>3 DEF CloseQueue, FailClose
  <2>2. \A q \in QueueIds : isWaiting'[q] => isWaiting[q]
    BY <2>1 DEF CloseRows
  <2>3. rows \subseteq QueueIds
    BY DEF IInv, TypeOK, QueueIds
  <2> QED BY <2>1, <2>2, <2>3 DEF Waiting
<1>4. ASSUME NEW n \in Nodes, Drain(n), ~DropQueue(n), ~CloseQueue(n), ~FailClose(n)
      PROVE  Waiting' \subseteq Waiting /\ UNCHANGED <<inputOf, wants>>
  <2>1. UNCHANGED <<rows, isWaiting, inputOf, wants>>
    BY <1>4 DEF Drain, StartDrain, ReadNext, GetPayload, CreateOperation, LinkOperation,
       ResumeOperation, CheckCancel, StopCanceled, StartRun, RunReturns, RunThrows, RunCanceled,
       FinishOperation, FailError, queueVars
  <2> QED BY <2>1 DEF Waiting
<1>5. ASSUME NEW n \in Nodes, FaultCaught(n) \/ FaultThrown(n) \/ Crash(n)
      PROVE  Waiting' \subseteq Waiting /\ UNCHANGED <<inputOf, wants>>
  BY <1>5 DEF FaultCaught, FaultThrown, Crash, queueVars, Waiting
<1>6. ASSUME NEW n \in Nodes, Boot(n)
      PROVE  Waiting' \subseteq Waiting /\ UNCHANGED <<inputOf, wants>>
  BY <1>6 DEF Boot, CloseAll, Stale, queueVars, Waiting
<1>7. CASE UNCHANGED vars
  BY <1>7 DEF vars, queueVars, Waiting
<1> QED BY <1>1, <1>2, <1>3, <1>4, <1>5, <1>6, <1>7 DEF Next

LEMMA AdmissionStep ==
  ASSUME SourceLocked, IInv, AdmissionInv, [Next]_vars
  PROVE  AdmissionInv'
<1>1. ASSUME NEW c \in Clients, FindDuplicate(c) PROVE AdmissionInv'
  <2>1. UNCHANGED <<rows, isWaiting, inputOf>>
    BY <1>1 DEF FindDuplicate, queueVars
  <2>2. PICK i \in Inputs : /\ \A d \in Clients : wants[d] # i
                            /\ ~AlreadyQueued(i) /\ wants' = [wants EXCEPT ![c] = i]
    BY <1>1 DEF FindDuplicate, MayAdmit
  <2>3. wants \in [Clients -> Inputs \cup {NoInput}]
    BY DEF IInv, TypeOK
  <2>4. NoDuplicateWaiting'
    BY <2>1 DEF AdmissionInv, NoDuplicateWaiting, Waiting
  <2>5. ASSUME NEW d \in Clients, wants'[d] # NoInput
        PROVE  /\ \A r \in Waiting' : inputOf'[r] # wants'[d]
               /\ \A b \in Clients : wants'[b] = wants'[d] => d = b
    <3>1. wants'[d] = IF d = c THEN i ELSE wants[d]
      BY <2>2, <2>3
    <3>2. \A b \in Clients : wants'[b] = IF b = c THEN i ELSE wants[b]
      BY <2>2, <2>3
    <3>3. \A r \in Waiting : inputOf[r] # wants'[d]
      BY <2>2, <2>5, <3>1 DEF AdmissionInv, AlreadyQueued
    <3>4. \A r \in Waiting' : inputOf'[r] # wants'[d]
      BY <2>1, <3>3 DEF Waiting
    <3> QED BY <2>2, <2>5, <3>1, <3>2, <3>4 DEF AdmissionInv
  <2> QED BY <2>4, <2>5 DEF AdmissionInv
<1>2. ASSUME NEW c \in Clients, InsertQueue(c) PROVE AdmissionInv'
  <2> DEFINE q == lastQueue + 1
  <2>1. /\ wants \in [Clients -> Inputs \cup {NoInput}] /\ q \in QueueIds /\ q \notin rows
        /\ isWaiting \in [QueueIds -> BOOLEAN] /\ rows \subseteq QueueIds
        /\ inputOf \in [QueueIds -> Inputs \cup {NoInput}]
    BY <1>2 DEF IInv, TypeOK, InsertQueue
  <2>2. /\ rows' = rows \cup {q} /\ isWaiting' = [isWaiting EXCEPT ![q] = TRUE]
        /\ inputOf' = [inputOf EXCEPT ![q] = wants[c]]
        /\ wants' = [wants EXCEPT ![c] = NoInput] /\ wants[c] # NoInput
    BY <1>2 DEF InsertQueue
  <2>3. Waiting' = Waiting \cup {q} /\ q \notin Waiting
    BY <2>1, <2>2 DEF Waiting
  <2>4. inputOf'[q] = wants[c] /\ \A r \in Waiting : inputOf'[r] = inputOf[r]
    BY <2>1, <2>2, <2>3 DEF Waiting
  <2>5. \A r \in Waiting : inputOf[r] # wants[c]
    BY <2>2 DEF AdmissionInv
  <2>6. NoDuplicateWaiting'
    BY <2>3, <2>4, <2>5 DEF AdmissionInv, NoDuplicateWaiting
  <2>7. ASSUME NEW d \in Clients, wants'[d] # NoInput
        PROVE  /\ \A r \in Waiting' : inputOf'[r] # wants'[d]
               /\ \A b \in Clients : wants'[b] = wants'[d] => d = b
    <3>1. d # c /\ wants'[d] = wants[d]
      BY <2>1, <2>2, <2>7
    <3>2. wants[d] # wants[c]
      BY <2>2, <3>1 DEF AdmissionInv
    <3>3. \A r \in Waiting : inputOf[r] # wants[d]
      BY <2>7, <3>1 DEF AdmissionInv
    <3>4. \A r \in Waiting' : inputOf'[r] # wants'[d]
      BY <2>3, <2>4, <3>1, <3>2, <3>3
    <3>5. \A b \in Clients : wants'[b] = wants'[d] => wants[b] = wants[d]
      BY <2>1, <2>2, <2>7, <3>1
    <3> QED BY <2>7, <3>1, <3>4, <3>5 DEF AdmissionInv
  <2> QED BY <2>6, <2>7 DEF AdmissionInv
<1>3. CASE ~ \E c \in Clients : FindDuplicate(c) \/ InsertQueue(c)
  BY <1>3, OthersAdmitNothing DEF AdmissionInv, NoDuplicateWaiting, Waiting
<1> QED BY <1>1, <1>2, <1>3

\* Where the caller holds the lock of its source from the check to the commit, two
\* requests for the same input never leave two waiting rows.
THEOREM NoDuplicates ==
  ASSUME SourceLocked
  PROVE  Spec => []NoDuplicateWaiting
<1>1. Init => AdmissionInv
  BY DEF Init, AdmissionInv, NoDuplicateWaiting, Waiting
<1>2. IInv /\ AdmissionInv /\ [Next]_vars => AdmissionInv'
  BY AdmissionStep
<1>3. AdmissionInv => NoDuplicateWaiting
  BY DEF AdmissionInv
<1> QED BY <1>1, <1>2, <1>3, Invariance, PTL DEF Spec

-----------------------------------------------------------------------------
\* A cancelled job, linked to its operation, which no drain is about to start.
Stopped(q) ==
    /\ opOf[q] # NoId /\ cancel[opOf[q]]
    /\ \A n \in Nodes : queue[n] = q => pc[n] # "run"

\* A row keeps its operation, and an operation its cancellation.
LEMMA StaysCanceled ==
  ASSUME IInv, [Next]_vars, NEW q \in QueueIds, opOf[q] # NoId, cancel[opOf[q]]
  PROVE  opOf'[q] = opOf[q] /\ cancel'[opOf[q]]
<1>1. opOf \in [QueueIds -> OpIds \cup {NoId}] /\ cancel \in [OpIds -> BOOLEAN]
  BY DEF IInv, TypeOK
<1>2. opOf'[q] = opOf[q]
  <2>1. ASSUME NEW n \in Nodes, LinkOperation(n) PROVE opOf'[q] = opOf[q]
    <3>1. opOf[queue[n]] = NoId
      BY <2>1 DEF IInv, HandInv, HandOK, LinkOperation
    <3>2. opOf' = [opOf EXCEPT ![queue[n]] = operation[n]]
      BY <2>1 DEF LinkOperation
    <3> QED BY <1>1, <3>1, <3>2
  <2>2. CASE ~ \E n \in Nodes : LinkOperation(n)
    <3>1. opOf' = opOf
      BY <2>2 DEF Next, Drain, FindDuplicate, InsertQueue, CancelOperation,
         StartDrain, ReadNext, DropQueue, GetPayload, CreateOperation, ResumeOperation,
         CheckCancel, StopCanceled, StartRun, RunReturns, RunThrows, RunCanceled,
         FinishOperation, CloseQueue, FailClose, FailError, FaultCaught, FaultThrown,
         Crash, Boot, queueVars, vars
    <3> QED BY <3>1
  <2> QED BY <2>1, <2>2
<1>3. cancel'[opOf[q]]
  <2>1. ASSUME NEW o \in OpIds, CancelOperation(o) PROVE cancel'[opOf[q]]
    BY <1>1, <2>1 DEF CancelOperation
  <2>2. CASE ~ \E o \in OpIds : CancelOperation(o)
    <3>1. cancel' = cancel
      BY <2>2 DEF Next, Drain, FindDuplicate, InsertQueue, LinkOperation,
         StartDrain, ReadNext, DropQueue, GetPayload, CreateOperation, ResumeOperation,
         CheckCancel, StopCanceled, StartRun, RunReturns, RunThrows, RunCanceled,
         FinishOperation, CloseQueue, FailClose, FailError, FaultCaught, FaultThrown,
         Crash, Boot, CloseAll, opVars, vars
    <3> QED BY <3>1
  <2> QED BY <2>1, <2>2
<1> QED BY <1>2, <1>3

\* A drain gets to the start of a callback from two steps: from the check of the
\* cancellation, and from the link of an operation that was just created.
LEMMA WhoRuns ==
  ASSUME IInv, [Next]_vars, NEW n \in Nodes, pc'[n] = "run"
  PROVE  /\ queue'[n] = queue[n]
         /\ \/ pc[n] = "run"
            \/ LinkOperation(n)
            \/ CheckCancel(n) /\ ~cancel[operation[n]]
<1> DEFINE Goal == /\ queue'[n] = queue[n]
                   /\ \/ pc[n] = "run"
                      \/ LinkOperation(n)
                      \/ CheckCancel(n) /\ ~cancel[operation[n]]
<1>1. pc \in [Nodes -> Steps] /\ queue \in [Nodes -> QueueIds \cup {NoId}]
  BY DEF IInv, TypeOK
<1>2. CASE pc'[n] = pc[n] /\ queue'[n] = queue[n]
  BY <1>2
<1>3. ASSUME NEW m \in Nodes,
             Drain(m) \/ FaultCaught(m) \/ FaultThrown(m) \/ Crash(m) \/ Boot(m)
      PROVE  Goal
  <2>1. /\ \E s : pc' = [pc EXCEPT ![m] = s]
        /\ queue' = queue \/ \E r : queue' = [queue EXCEPT ![m] = r]
    BY <1>3 DEF Drain, StartDrain, ReadNext, DropQueue, GetPayload, CreateOperation,
       LinkOperation, ResumeOperation, CheckCancel, AfterCheck, StopCanceled, StartRun,
       RunReturns, RunThrows, RunCanceled, FinishOperation, CloseQueue, FailClose,
       FailError, FaultCaught, FaultThrown, Crash, Boot, Goto, NextItem, Return,
       nodeVars
  <2>2. CASE m # n
    BY <1>1, <1>2, <2>1, <2>2
  <2>3. CASE LinkOperation(n) \/ CheckCancel(n)
    BY <1>1, <2>3 DEF LinkOperation, CheckCancel, Goto, AfterCheck
  <2>4. CASE m = n /\ ~LinkOperation(n) /\ ~CheckCancel(n)
    <3>1. pc'[n] # "run"
      BY <1>1, <1>3, <2>4 DEF Drain, StartDrain, ReadNext, DropQueue, GetPayload,
         CreateOperation, ResumeOperation, StopCanceled, StartRun, RunReturns, RunThrows,
         RunCanceled, FinishOperation, CloseQueue, FailClose, FailError, FaultCaught,
         FaultThrown, Crash, Boot, Goto, NextItem, Return
    <3> QED BY <3>1
  <2> QED BY <2>2, <2>3, <2>4
<1>4. CASE \/ \E c \in Clients : FindDuplicate(c) \/ InsertQueue(c)
           \/ \E o \in OpIds : CancelOperation(o)
           \/ UNCHANGED vars
  BY <1>2, <1>4 DEF FindDuplicate, InsertQueue, CancelOperation, nodeVars, vars
<1> QED BY <1>3, <1>4 DEF Next

LEMMA StaysStopped ==
  ASSUME IInv, [Next]_vars, NEW q \in QueueIds, Stopped(q)
  PROVE  Stopped(q)' /\ runs'[q] = runs[q]
<1>1. opOf'[q] = opOf[q] /\ cancel'[opOf[q]]
  BY StaysCanceled DEF Stopped
<1>2. ASSUME NEW n \in Nodes, queue'[n] = q PROVE pc'[n] # "run"
  <2> SUFFICES ASSUME pc'[n] = "run" PROVE FALSE
    OBVIOUS
  <2>1. queue[n] = q
    BY <1>2, WhoRuns
  <2>2. ~LinkOperation(n)
    BY <2>1 DEF Stopped, LinkOperation, IInv, HandInv, HandOK
  <2>3. CheckCancel(n) => operation[n] = opOf[q]
    BY <2>1 DEF CheckCancel, IInv, HandInv, HandOK
  <2> QED BY <2>1, <2>2, <2>3, WhoRuns DEF Stopped
<1>3. runs'[q] = runs[q]
  <2>1. ASSUME NEW n \in Nodes, StartRun(n) PROVE runs'[q] = runs[q]
    BY <2>1 DEF StartRun, Stopped, IInv, TypeOK
  <2>2. CASE ~ \E n \in Nodes : StartRun(n)
    BY <2>2 DEF Next, Drain, FindDuplicate, InsertQueue, CancelOperation,
       StartDrain, ReadNext, DropQueue, GetPayload, CreateOperation, LinkOperation,
       ResumeOperation, CheckCancel, StopCanceled, RunReturns, RunThrows, RunCanceled,
       FinishOperation, CloseQueue, FailClose, FailError, FaultCaught, FaultThrown,
       Crash, Boot, histVars, vars
  <2> QED BY <2>1, <2>2
<1> QED BY <1>1, <1>2, <1>3 DEF Stopped

\* A job that was cancelled while no drain had it in hand, between a crash and the
\* restart too, is never started again: whatever drain takes it up reads the
\* cancellation before it starts the callback.
THEOREM CanceledStaysStopped == Spec => CancelSurvivesRestart
<1> SUFFICES ASSUME NEW q \in QueueIds, NEW k \in 0..(1 + MaxCrashes + MaxFaults)
             PROVE  Spec => [](/\ opOf[q] # NoId /\ cancel[opOf[q]] /\ runs[q] = k
                               /\ \A n \in Nodes : queue[n] # q
                               => [](runs[q] = k))
  BY DEF CancelSurvivesRestart
<1> DEFINE Kept == Stopped(q) /\ runs[q] = k
           Idle == /\ opOf[q] # NoId /\ cancel[opOf[q]] /\ runs[q] = k
                   /\ \A n \in Nodes : queue[n] # q
<1>1. Idle => Kept
  BY DEF Stopped
<1>2. IInv /\ [Next]_vars /\ Kept => Kept'
  BY StaysStopped
<1>3. Kept => runs[q] = k
  OBVIOUS
<1> QED BY <1>1, <1>2, <1>3, Invariance, PTL DEF Spec
=============================================================================
