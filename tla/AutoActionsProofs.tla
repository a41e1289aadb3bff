------------------------- MODULE AutoActionsProofs -------------------------
(***************************************************************************)
(* Claims, attempts and identities of auto actions, for any finite number  *)
(* of processes and any number of actions, lapses, crashes and failures;   *)
(* and, in a section of its own, the queues of one process (CronQueues).   *)
(***************************************************************************)
EXTENDS AutoActions, CronQueues, FiniteSetTheorems, SequenceTheorems, TLAPS

Claimed(a) == IF claim[a] = "held" THEN 1 ELSE 0
Bound(a) == Cardinality(Holders(a)) <= lapses[a] + Claimed(a)

LEMMA HoldersFinite ==
  ASSUME NEW a \in Actions
  PROVE  IsFiniteSet(Holders(a)) /\ Cardinality(Holders(a)) \in Nat
<1>1. IsFiniteSet(Nodes)
  BY ActionsAssumption DEF ActionsAssumption
<1>2. Holders(a) \in SUBSET Nodes
  BY DEF Holders
<1> QED BY <1>1, <1>2, FS_Subset, FS_CardinalityType

LEMMA InitClaims == Init => TypeOK /\ OneProcessPerClaim /\ KeyPointsToActive
<1> SUFFICES ASSUME Init PROVE TypeOK /\ OneProcessPerClaim /\ KeyPointsToActive
  OBVIOUS
<1>1. Total \in Nat /\ MaxCrashes \in Nat /\ MaxFaults \in Nat
  BY ActionsAssumption DEF ActionsAssumption
<1>2. TypeOK
  BY <1>1 DEF Init, TypeOK, Phases
<1>3. ASSUME NEW a \in Actions PROVE Bound(a)
  <2>0. \A n \in Nodes : job[n][a] = "idle"
    BY DEF Init
  <2>1. Holders(a) = {}
    BY <2>0 DEF Holders
  <2> QED BY <2>1, FS_EmptySet DEF Init, Bound, Claimed
<1>4. KeyPointsToActive
  BY ActionsAssumption DEF Init, KeyPointsToActive, ActionsAssumption
<1> QED BY <1>2, <1>3, <1>4 DEF OneProcessPerClaim, Bound, Claimed

-----------------------------------------------------------------------------
(* The bound on duplicates, by what a step does to one action.              *)

\* No process comes to have the action, and its claim and lapses stay.
LEMMA BoundShrinks ==
  ASSUME NEW a \in Actions, TypeOK, Bound(a),
         Holders(a)' \subseteq Holders(a), claim'[a] = claim[a], lapses'[a] = lapses[a]
  PROVE  Bound(a)'
<1>1. Cardinality(Holders(a)') <= Cardinality(Holders(a)) /\ Cardinality(Holders(a)') \in Nat
  BY HoldersFinite, FS_Subset, FS_CardinalityType
<1>2. Claimed(a)' = Claimed(a)
  BY DEF Claimed
<1>3. lapses[a] \in Nat /\ Claimed(a) \in Nat /\ Cardinality(Holders(a)) \in Nat
  BY HoldersFinite DEF TypeOK, Claimed
<1>4. Cardinality(Holders(a)) <= lapses[a] + Claimed(a)
  BY DEF Bound
<1>5. Cardinality(Holders(a)') <= lapses[a] + Claimed(a)
  BY <1>1, <1>3, <1>4
<1>6. Cardinality(Holders(a)') <= lapses'[a] + Claimed(a)'
  BY <1>2, <1>5
<1> QED BY <1>6 DEF Bound

\* A process that had the action writes its outcome and releases the claim.
LEMMA BoundReleased ==
  ASSUME NEW a \in Actions, NEW n \in Nodes, TypeOK, Bound(a), n \in Holders(a),
         Holders(a)' = Holders(a) \ {n}, lapses'[a] = lapses[a]
  PROVE  Bound(a)'
<1>1. Cardinality(Holders(a)') = Cardinality(Holders(a)) - 1
  BY HoldersFinite, FS_RemoveElement
<1>2. lapses[a] \in Nat /\ Cardinality(Holders(a)) \in Nat
  BY HoldersFinite DEF TypeOK
<1>3. Cardinality(Holders(a)) <= lapses[a] + 1
  BY <1>2 DEF Bound, Claimed
<1>4. Cardinality(Holders(a)') <= lapses'[a] /\ lapses'[a] \in Nat
  BY <1>1, <1>2, <1>3
<1>5. Cardinality(Holders(a)') \in Int
  BY <1>1, <1>2
<1> QED BY <1>4, <1>5 DEF Bound, Claimed

\* A process claims the action, which no live claim covered.
LEMMA BoundClaimed ==
  ASSUME NEW a \in Actions, NEW n \in Nodes, TypeOK, Bound(a),
         claim[a] # "held", claim'[a] = "held", lapses'[a] = lapses[a],
         Holders(a)' \subseteq Holders(a) \cup {n}
  PROVE  Bound(a)'
<1>0. IsFiniteSet(Holders(a)) /\ Cardinality(Holders(a)) \in Nat
  BY HoldersFinite
<1>1. /\ IsFiniteSet(Holders(a) \cup {n})
      /\ Cardinality(Holders(a) \cup {n}) <= Cardinality(Holders(a)) + 1
  <2> DEFINE H == Holders(a)
  <2> HIDE DEF H
  <2>1. /\ IsFiniteSet(H \cup {n})
        /\ Cardinality(H \cup {n}) = IF n \in H THEN Cardinality(H) ELSE Cardinality(H) + 1
    BY <1>0, FS_AddElement DEF H
  <2>2. Cardinality(H) \in Nat
    BY <1>0 DEF H
  <2>3. Cardinality(H \cup {n}) <= Cardinality(H) + 1
    BY <2>1, <2>2
  <2> QED BY <2>1, <2>3 DEF H
<1>2. /\ Cardinality(Holders(a)') <= Cardinality(Holders(a) \cup {n})
      /\ Cardinality(Holders(a)') \in Nat /\ Cardinality(Holders(a) \cup {n}) \in Nat
  BY <1>1, FS_Subset, FS_CardinalityType
<1>3. lapses[a] \in Nat /\ Cardinality(Holders(a)) \in Nat
  BY HoldersFinite DEF TypeOK
<1>4. Cardinality(Holders(a)) <= lapses[a]
  BY <1>3 DEF Bound, Claimed
<1>5. Cardinality(Holders(a)') <= lapses'[a] + 1
  BY <1>1, <1>2, <1>3, <1>4
<1> QED BY <1>5 DEF Bound, Claimed

\* A claim is lost: counted if some process has the action.
LEMMA BoundLapsed ==
  ASSUME NEW a \in Actions, TypeOK, Bound(a), Holders(a)' = Holders(a),
         lapses'[a] = IF claim[a] = "held" /\ Holders(a) # {} THEN lapses[a] + 1 ELSE lapses[a]
  PROVE  Bound(a)'
<1>1. lapses[a] \in Nat /\ Cardinality(Holders(a)) \in Nat
  BY HoldersFinite DEF TypeOK
<1>2. Cardinality(Holders(a)) <= lapses'[a]
  <2>1. CASE Holders(a) = {}
    <3>1. Cardinality(Holders(a)) = 0
      BY <2>1, FS_EmptySet
    <3> QED BY <1>1, <2>1, <3>1
  <2>2. CASE claim[a] = "held" /\ Holders(a) # {}
    BY <1>1, <2>2 DEF Bound, Claimed
  <2>3. CASE claim[a] # "held"
    BY <1>1, <2>3 DEF Bound, Claimed
  <2> QED BY <2>1, <2>2, <2>3
<1>3. lapses'[a] \in Nat
  BY <1>1
<1> QED BY <1>1, <1>2, <1>3 DEF Bound, Claimed

-----------------------------------------------------------------------------
(* Types.                                                                  *)

LEMMA DoneTyped ==
  ASSUME TypeOK, NEW n \in Nodes, NEW a \in Actions, Done(n, a),
         active' \in [Actions -> BOOLEAN], due' \in [Actions -> BOOLEAN],
         claim' \in [Actions -> {"none", "held", "expired"}],
         left' \in [Actions -> Int], \A b \in Actions : left'[b] <= Total
  PROVE  TypeOK'
<1>1. Total \in Nat
  BY ActionsAssumption DEF ActionsAssumption
<1>2. job' \in [Nodes -> [Actions -> Phases]]
  BY DEF Done, TypeOK, Phases
<1>3. /\ seen' \in [Nodes -> [Actions -> Int]]
      /\ \A m \in Nodes, b \in Actions : seen'[m][b] <= Total
  BY <1>1 DEF Done, TypeOK
<1> QED BY <1>2, <1>3 DEF Done, TypeOK, keyVars

LEMMA UpdateTyped ==
  ASSUME TypeOK, NEW a \in Actions, NEW p \in BOOLEAN, NEW c \in Int, c <= Total,
         UpdateExecuteOn(a, p, c)
  PROVE  /\ active' \in [Actions -> BOOLEAN] /\ due' \in [Actions -> BOOLEAN]
         /\ claim' \in [Actions -> {"none", "held", "expired"}]
         /\ left' \in [Actions -> Int] /\ \A b \in Actions : left'[b] <= Total
<1>1. active' \in [Actions -> BOOLEAN] /\ claim' \in [Actions -> {"none", "held", "expired"}]
  BY DEF UpdateExecuteOn, TypeOK
<1>2. due' \in [Actions -> BOOLEAN]
  <2>1. (due[a] /\ ~(a \in Recurring /\ active[a])) \in BOOLEAN
    OBVIOUS
  <2> QED BY <2>1 DEF UpdateExecuteOn, TypeOK
<1>3. left' \in [Actions -> Int] /\ \A b \in Actions : left'[b] <= Total
  BY DEF UpdateExecuteOn, TypeOK
<1> QED BY <1>1, <1>2, <1>3

LEMMA DeactivatedTyped ==
  ASSUME TypeOK, NEW a \in Actions, NEW c \in Int, c <= Total, Deactivated(a, c)
  PROVE  /\ active' \in [Actions -> BOOLEAN] /\ due' \in [Actions -> BOOLEAN]
         /\ claim' \in [Actions -> {"none", "held", "expired"}]
         /\ left' \in [Actions -> Int] /\ \A b \in Actions : left'[b] <= Total
  BY DEF Deactivated, TypeOK

LEMMA AttemptsTyped == Total \in Int /\ Total >= 1
  BY ActionsAssumption DEF ActionsAssumption

LEMMA NextTypeOK == TypeOK /\ [Next]_vars => TypeOK'
<1> SUFFICES ASSUME TypeOK, [Next]_vars PROVE TypeOK'
  OBVIOUS
<1> USE AttemptsTyped
<1>1. CASE UNCHANGED vars
  BY <1>1 DEF TypeOK, vars, rowVars, keyVars, jobVars
<1>2. ASSUME NEW n \in Nodes, Claim(n) PROVE TypeOK'
  BY <1>2 DEF Claim, TypeOK, Phases, keyVars
<1>3. ASSUME NEW n \in Nodes, Crash(n) PROVE TypeOK'
  <2>1. crashes' \in 0..MaxCrashes
    BY <1>3, ActionsAssumption DEF Crash, TypeOK, ActionsAssumption
  <2>2. job' \in [Nodes -> [Actions -> Phases]]
    BY <1>3 DEF Crash, TypeOK, Phases
  <2>3. /\ seen' \in [Nodes -> [Actions -> Int]]
        /\ \A m \in Nodes, b \in Actions : seen'[m][b] <= Total
    BY <1>3 DEF Crash, TypeOK
  <2> QED BY <1>3, <2>1, <2>2, <2>3 DEF Crash, TypeOK, rowVars, keyVars
<1>4. ASSUME NEW n \in Nodes, NEW a \in Actions, Begin(n, a) PROVE TypeOK'
  <2>0. PICK p \in Phases : job' = [job EXCEPT ![n][a] = p]
    BY <1>4 DEF Begin, To, Phases
  <2>1. job' \in [Nodes -> [Actions -> Phases]]
    BY <2>0 DEF TypeOK
  <2>2. tries' \in [Actions -> Nat]
    <3>1. tries' = tries \/ tries' = [tries EXCEPT ![a] = IF a \in Recurring THEN @ ELSE @ + 1]
      BY <1>4 DEF Begin
    <3>2. tries[a] \in Nat /\ tries[a] + 1 \in Nat
      BY DEF TypeOK
    <3> QED BY <3>1, <3>2 DEF TypeOK
  <2> QED BY <1>4, <2>1, <2>2 DEF Begin, TypeOK, rowVars, keyVars
<1>5. ASSUME NEW n \in Nodes, NEW a \in Actions, FunctionReturns(n, a) PROVE TypeOK'
  BY <1>5 DEF FunctionReturns, At, To, TypeOK, Phases, rowVars, keyVars
<1>6. ASSUME NEW n \in Nodes, NEW a \in Actions, NEW p \in {"retry", "terminal"},
             ReadAttempts(n, a, p)
      PROVE  /\ job' \in [Nodes -> [Actions -> Phases]]
             /\ seen' \in [Nodes -> [Actions -> Int]]
             /\ \A m \in Nodes, b \in Actions : seen'[m][b] <= Total
  BY <1>6 DEF ReadAttempts, TypeOK, Phases
<1>7. ASSUME NEW n \in Nodes, NEW a \in Actions, FunctionThrows(n, a) PROVE TypeOK'
  <2>1. PICK p \in {"retry", "terminal"} : ReadAttempts(n, a, p)
    BY <1>7 DEF FunctionThrows
  <2> QED BY <1>6, <1>7, <2>1 DEF FunctionThrows, TypeOK, rowVars, keyVars
<1>8. ASSUME NEW n \in Nodes, NEW a \in Actions, SuccessLost(n, a) PROVE TypeOK'
  <2>1. faults' \in 0..MaxFaults
    BY <1>8, ActionsAssumption DEF SuccessLost, TypeOK, ActionsAssumption
  <2>2. ReadAttempts(n, a, "retry")
    BY <1>8 DEF SuccessLost
  <2> QED BY <1>6, <1>8, <2>1, <2>2 DEF SuccessLost, TypeOK, rowVars, keyVars
<1>9. ASSUME NEW n \in Nodes, NEW a \in Actions, Write(n, a) PROVE TypeOK'
  <2>0. Done(n, a)
    BY <1>9 DEF Write, WriteSuccess, WriteDenied, WriteRetry, WriteTerminal
  <2>1. /\ seen[n][a] \in Int /\ seen[n][a] <= Total /\ left[a] \in Int /\ left[a] <= Total
        /\ active[a] \in BOOLEAN
    BY DEF TypeOK
  <2>2. /\ Decremented(seen[n][a]) \in Int /\ Decremented(seen[n][a]) <= Total
        /\ StaysActive(a) \in BOOLEAN
    BY <2>1 DEF Decremented, StaysActive
  <2>3. CASE WriteSuccess(n, a)
    BY <2>0, <2>2, <2>3, UpdateTyped, DoneTyped DEF WriteSuccess
  <2>4. CASE WriteDenied(n, a)
    BY <2>0, <2>1, <2>4, UpdateTyped, DoneTyped DEF WriteDenied
  <2>5. CASE WriteRetry(n, a)
    <3>1. \/ UpdateExecuteOn(a, active[a], Decremented(seen[n][a]))
          \/ Deactivated(a, Decremented(seen[n][a]))
      BY <2>5 DEF WriteRetry
    <3> QED BY <2>0, <2>1, <2>2, <3>1, UpdateTyped, DeactivatedTyped, DoneTyped
  <2>6. CASE WriteTerminal(n, a)
    BY <2>0, <2>1, <2>6, DeactivatedTyped, DoneTyped DEF WriteTerminal
  <2> QED BY <1>9, <2>3, <2>4, <2>5, <2>6 DEF Write
<1>10. ASSUME NEW n \in Nodes, NEW a \in Actions, WriteFails(n, a) PROVE TypeOK'
  <2>1. faults' \in 0..MaxFaults
    BY <1>10, ActionsAssumption DEF WriteFails, TypeOK, ActionsAssumption
  <2>2. job' \in [Nodes -> [Actions -> Phases]]
    BY <1>10 DEF WriteFails, TypeOK, Phases
  <2>3. /\ seen' \in [Nodes -> [Actions -> Int]]
        /\ \A m \in Nodes, b \in Actions : seen'[m][b] <= Total
    BY <1>10 DEF WriteFails, TypeOK
  <2> QED BY <1>10, <2>1, <2>2, <2>3 DEF WriteFails, TypeOK, rowVars, keyVars
<1>11. ASSUME NEW a \in Actions, Expire(a) PROVE TypeOK'
  BY <1>11 DEF Expire, TypeOK, keyVars, jobVars
<1>12. ASSUME NEW a \in Actions, ComesDue(a) PROVE TypeOK'
  BY <1>12 DEF ComesDue, TypeOK, keyVars, jobVars
<1>13. CASE AddUnique
  BY <1>13, ActionsAssumption DEF AddUnique, TypeOK, jobVars, ActionsAssumption
<1>14. CASE Deactivate
  BY <1>14, ActionsAssumption DEF Deactivate, TypeOK, keyVars, jobVars, ActionsAssumption
<1>15. CASE CleanupDedupeKeys
  BY <1>15 DEF CleanupDedupeKeys, TypeOK, rowVars, jobVars
<1> QED BY <1>1, <1>2, <1>3, <1>4, <1>5, <1>7, <1>8, <1>9, <1>10, <1>11, <1>12, <1>13, <1>14,
           <1>15 DEF Next, Work, Fail

-----------------------------------------------------------------------------
(* Claims.                                                                 *)

\* A step that leaves a process's share in the action as it was.
LEMMA HoldersSame ==
  ASSUME NEW a \in Actions, \A m \in Nodes : job'[m][a] = "idle" <=> job[m][a] = "idle"
  PROVE  Holders(a)' = Holders(a)
  BY DEF Holders

\* A step of one process with one action.
LEMMA OthersKept ==
  ASSUME TypeOK, NEW n \in Nodes, NEW b \in Actions, NEW p, job' = [job EXCEPT ![n][b] = p]
  PROVE  \A m \in Nodes, a \in Actions :
            job'[m][a] = IF m = n /\ a = b THEN p ELSE job[m][a]
  BY DEF TypeOK

LEMMA StillHeld ==
  ASSUME TypeOK, NEW n \in Nodes, NEW b \in Actions, NEW p, p # "idle", job[n][b] # "idle",
         job' = [job EXCEPT ![n][b] = p], NEW a \in Actions
  PROVE  Holders(a)' = Holders(a)
  BY OthersKept DEF Holders

LEMMA Dropped ==
  ASSUME TypeOK, NEW n \in Nodes, NEW b \in Actions, job' = [job EXCEPT ![n][b] = "idle"],
         NEW a \in Actions
  PROVE  Holders(a)' = IF a = b THEN Holders(a) \ {n} ELSE Holders(a)
<1>1. \A m \in Nodes : job'[m][a] = IF m = n /\ a = b THEN "idle" ELSE job[m][a]
  BY DEF TypeOK
<1>2. CASE a = b
  BY <1>1, <1>2 DEF Holders
<1>3. CASE a # b
  BY <1>1, <1>3 DEF Holders
<1> QED BY <1>2, <1>3

LEMMA WriteBound ==
  ASSUME TypeOK, NEW n \in Nodes, NEW b \in Actions, Write(n, b), NEW a \in Actions, Bound(a)
  PROVE  Bound(a)'
<1>1. Done(n, b) /\ n \in Holders(b)
  BY DEF Write, WriteSuccess, WriteDenied, WriteRetry, WriteTerminal, At, Holders
<1>2. /\ Holders(a)' = IF a = b THEN Holders(a) \ {n} ELSE Holders(a)
      /\ lapses' = lapses
  BY <1>1, Dropped DEF Done
<1>3. CASE a = b /\ \E p, c : UpdateExecuteOn(b, p, c)
  BY <1>1, <1>2, <1>3, BoundReleased
<1>4. CASE a # b /\ \E p, c : UpdateExecuteOn(b, p, c)
  <2>1. claim'[a] = claim[a]
    BY <1>4 DEF UpdateExecuteOn, TypeOK
  <2> QED BY <1>2, <1>4, <2>1, BoundShrinks
<1>5. CASE \E c : Deactivated(b, c)
  <2>1. claim' = claim
    BY <1>5 DEF Deactivated
  <2> QED BY <1>2, <2>1, BoundShrinks
<1>6. (\E p, c : UpdateExecuteOn(b, p, c)) \/ (\E c : Deactivated(b, c))
  BY DEF Write, WriteSuccess, WriteDenied, WriteRetry, WriteTerminal
<1> QED BY <1>3, <1>4, <1>5, <1>6

LEMMA NextBound ==
  ASSUME TypeOK, [Next]_vars, NEW a \in Actions, Bound(a)
  PROVE  Bound(a)'
<1>1. CASE UNCHANGED vars
  <2>1. Holders(a)' = Holders(a) /\ claim' = claim /\ lapses' = lapses
    BY <1>1 DEF vars, rowVars, jobVars, Holders
  <2> QED BY <2>1, BoundShrinks
<1>2. ASSUME NEW n \in Nodes, Claim(n) PROVE Bound(a)'
  <2>1. \A m \in Nodes : m # n => job'[m][a] = job[m][a]
    BY <1>2 DEF Claim, TypeOK
  <2>2. lapses' = lapses
    BY <1>2 DEF Claim
  <2>3. CASE Claimable(a)
    <3>1. claim[a] # "held" /\ claim'[a] = "held"
      BY <1>2, <2>3 DEF Claim, Claimable
    <3>2. Holders(a)' \subseteq Holders(a) \cup {n}
      BY <2>1 DEF Holders
    <3> QED BY <2>2, <3>1, <3>2, BoundClaimed
  <2>4. CASE ~Claimable(a)
    <3>1. claim'[a] = claim[a]
      BY <1>2, <2>4 DEF Claim
    <3>2. job'[n][a] = job[n][a]
      BY <1>2, <2>4 DEF Claim, TypeOK
    <3>3. Holders(a)' = Holders(a)
      BY <2>1, <3>2, HoldersSame
    <3> QED BY <2>2, <3>1, <3>3, BoundShrinks
  <2> QED BY <2>3, <2>4
<1>3. ASSUME NEW n \in Nodes, Crash(n) PROVE Bound(a)'
  <2>1. \A m \in Nodes : job'[m][a] = IF m = n THEN "idle" ELSE job[m][a]
    BY <1>3 DEF Crash, TypeOK
  <2>2. Holders(a)' \subseteq Holders(a) /\ claim' = claim /\ lapses' = lapses
    BY <1>3, <2>1 DEF Crash, Holders, rowVars
  <2> QED BY <2>2, BoundShrinks
<1>4. ASSUME NEW n \in Nodes, NEW b \in Actions,
             Begin(n, b) \/ FunctionReturns(n, b) \/ FunctionThrows(n, b) \/ SuccessLost(n, b)
      PROVE  Bound(a)'
  <2>1. /\ job[n][b] # "idle"
        /\ \E p \in Phases \ {"idle"} : job' = [job EXCEPT ![n][b] = p]
    BY <1>4 DEF Begin, FunctionReturns, FunctionThrows, SuccessLost, At, To, ReadAttempts, Phases
  <2>2. Holders(a)' = Holders(a)
    BY <2>1, StillHeld
  <2>3. claim' = claim /\ lapses' = lapses
    BY <1>4 DEF Begin, FunctionReturns, FunctionThrows, SuccessLost, rowVars
  <2> QED BY <2>2, <2>3, BoundShrinks
<1>5. ASSUME NEW n \in Nodes, NEW b \in Actions, Write(n, b) PROVE Bound(a)'
  BY <1>5, WriteBound
<1>6. ASSUME NEW n \in Nodes, NEW b \in Actions, WriteFails(n, b) PROVE Bound(a)'
  <2>1. job' = [job EXCEPT ![n][b] = "idle"] /\ claim' = claim /\ lapses' = lapses
    BY <1>6 DEF WriteFails, rowVars
  <2>2. Holders(a)' \subseteq Holders(a)
    BY <2>1, Dropped
  <2> QED BY <2>1, <2>2, BoundShrinks
<1>7. ASSUME NEW b \in Actions, Expire(b) PROVE Bound(a)'
  <2>1. Holders(a)' = Holders(a)
    BY <1>7 DEF Expire, jobVars, Holders
  <2>2. CASE a = b
    <3>1. lapses'[a] = IF claim[a] = "held" /\ Holders(a) # {} THEN lapses[a] + 1 ELSE lapses[a]
      BY <1>7, <2>2 DEF Expire, TypeOK
    <3> QED BY <2>1, <3>1, BoundLapsed
  <2>3. CASE a # b
    <3>1. claim'[a] = claim[a] /\ lapses'[a] = lapses[a]
      BY <1>7, <2>3 DEF Expire, TypeOK
    <3> QED BY <2>1, <3>1, BoundShrinks
  <2> QED BY <2>2, <2>3
<1>8. CASE Deactivate
  <2>1. Holders(a)' = Holders(a)
    BY <1>8 DEF Deactivate, jobVars, Holders
  <2>2. CASE a = key
    <3>1. lapses'[a] = IF claim[a] = "held" /\ Holders(a) # {} THEN lapses[a] + 1 ELSE lapses[a]
      BY <1>8, <2>2 DEF Deactivate, TypeOK
    <3> QED BY <2>1, <3>1, BoundLapsed
  <2>3. CASE a # key
    <3>1. claim'[a] = claim[a] /\ lapses'[a] = lapses[a]
      BY <1>8, <2>3 DEF Deactivate, TypeOK
    <3> QED BY <2>1, <3>1, BoundShrinks
  <2> QED BY <2>2, <2>3
<1>9. ASSUME AddUnique \/ CleanupDedupeKeys \/ \E b \in Actions : ComesDue(b) PROVE Bound(a)'
  <2>1. Holders(a)' = Holders(a) /\ claim' = claim /\ lapses' = lapses
    BY <1>9 DEF AddUnique, CleanupDedupeKeys, ComesDue, rowVars, jobVars, Holders
  <2> QED BY <2>1, BoundShrinks
<1> QED BY <1>1, <1>2, <1>3, <1>4, <1>5, <1>6, <1>7, <1>8, <1>9 DEF Next, Work, Fail

-----------------------------------------------------------------------------
(* The identity.                                                           *)

\* The outcome of an execution never activates an action of the identity.
LEMMA WriteDeactivates ==
  ASSUME TypeOK, NEW n \in Nodes, NEW b \in Actions, Write(n, b), NEW a \in Unique, active'[a]
  PROVE  active[a]
<1>1. a \in Actions /\ a \notin Recurring
  BY ActionsAssumption DEF ActionsAssumption
<1>2. \E p \in {StaysActive(b), active[b], FALSE} : active' = [active EXCEPT ![b] = p]
  BY DEF Write, WriteSuccess, WriteDenied, WriteRetry, WriteTerminal, UpdateExecuteOn, Deactivated
<1>3. PICK p \in {StaysActive(b), active[b], FALSE} : active' = [active EXCEPT ![b] = p]
  BY <1>2
<1>4. CASE a # b
  BY <1>1, <1>3, <1>4 DEF TypeOK
<1>5. CASE a = b
  <2>1. active'[a] = p
    BY <1>1, <1>3, <1>5 DEF TypeOK
  <2> QED BY <1>1, <1>3, <1>5, <2>1 DEF StaysActive
<1> QED BY <1>4, <1>5

LEMMA NextKey ==
  ASSUME TypeOK, KeyPointsToActive, [Next]_vars
  PROVE  KeyPointsToActive'
<1>0. ActionsAssumption
  BY ActionsAssumption
<1> SUFFICES ASSUME NEW a \in Unique, active'[a] PROVE key' = a
  BY DEF KeyPointsToActive
<1>a. a \in Actions
  BY <1>0 DEF ActionsAssumption
<1>b. ASSUME key' = key, active[a] PROVE key' = a
  BY <1>b DEF KeyPointsToActive
<1>1. ASSUME key' = key, active' = active PROVE key' = a
  BY <1>1, <1>b
<1>2. CASE UNCHANGED vars
  BY <1>1, <1>2 DEF vars, rowVars, keyVars
<1>3. ASSUME NEW n \in Nodes, Claim(n) \/ Crash(n) PROVE key' = a
  BY <1>1, <1>3 DEF Claim, Crash, rowVars, keyVars
<1>4. ASSUME NEW n \in Nodes, NEW b \in Actions,
             Begin(n, b) \/ FunctionReturns(n, b) \/ FunctionThrows(n, b) \/ Fail(n, b)
      PROVE  key' = a
  BY <1>1, <1>4 DEF Begin, FunctionReturns, FunctionThrows, Fail, SuccessLost, WriteFails,
                    rowVars, keyVars
<1>5. ASSUME NEW n \in Nodes, NEW b \in Actions, Write(n, b) PROVE key' = a
  <2>1. key' = key
    BY <1>5 DEF Write, WriteSuccess, WriteDenied, WriteRetry, WriteTerminal, Done, keyVars
  <2> QED BY <1>5, <1>b, <2>1, WriteDeactivates
<1>6. ASSUME NEW b \in Actions, Expire(b) \/ ComesDue(b) PROVE key' = a
  BY <1>1, <1>6 DEF Expire, ComesDue, keyVars
<1>7. CASE AddUnique
  <2>1. PICK c \in Unique : key' = c /\ active' = [active EXCEPT ![c] = TRUE]
    BY <1>7 DEF AddUnique
  <2>2. ~active[a]
    BY <1>7 DEF AddUnique, KeyPointsToActive
  <2> QED BY <1>a, <2>1, <2>2 DEF TypeOK
<1>8. CASE Deactivate
  <2>1. key' = key /\ active' = [active EXCEPT ![key] = FALSE]
    BY <1>8 DEF Deactivate, keyVars
  <2> QED BY <1>a, <1>b, <2>1 DEF TypeOK
<1>9. CASE CleanupDedupeKeys
  <2>1. active' = active /\ key \in Unique /\ ~active[key]
    BY <1>9 DEF CleanupDedupeKeys, Stale, rowVars
  <2> QED BY <2>1 DEF KeyPointsToActive
<1> QED BY <1>2, <1>3, <1>4, <1>5, <1>6, <1>7, <1>8, <1>9 DEF Next, Work

-----------------------------------------------------------------------------
(* The attempts.                                                           *)

LEMMA AllowedTyped ==
  ASSUME TypeOK
  PROVE  /\ Total \in Nat /\ Total >= 1 /\ crashes \in Nat /\ faults \in Nat
         /\ Allowed \in Nat /\ Allowed >= Total
  BY ActionsAssumption DEF ActionsAssumption, TypeOK, Allowed

LEMMA RowTyped ==
  ASSUME TypeOK, NEW a \in Actions
  PROVE  /\ tries[a] \in Nat /\ left[a] \in Int /\ active[a] \in BOOLEAN /\ lapses[a] \in Nat
         /\ \A n \in Nodes : seen[n][a] \in Int /\ job[n][a] \in Phases
  BY DEF TypeOK

\* An action whose claims never lapsed is had by one process, which holds the
\* claim.
LEMMA OneHolder ==
  ASSUME TypeOK, NEW a \in Actions, Bound(a), lapses[a] = 0, NEW n \in Nodes, job[n][a] # "idle"
  PROVE  /\ claim[a] = "held"
         /\ \A m \in Nodes : m # n => job[m][a] = "idle"
<1>1. IsFiniteSet(Holders(a)) /\ Cardinality(Holders(a)) \in Nat /\ n \in Holders(a)
  BY HoldersFinite DEF Holders
<1>2. Cardinality(Holders(a)) <= Claimed(a)
  BY DEF Bound, Claimed
<1> DEFINE H == Holders(a)
<1>3. H \subseteq Nodes /\ \A m \in Nodes : m \notin H => job[m][a] = "idle"
  BY DEF Holders
<1>4. IsFiniteSet(H) /\ Cardinality(H) \in Nat /\ n \in H /\ Cardinality(H) <= Claimed(a)
  BY <1>1, <1>2
<1> HIDE DEF H
<1>5. Cardinality(H \ {n}) = Cardinality(H) - 1 /\ IsFiniteSet(H \ {n})
  BY <1>4, FS_RemoveElement
<1>6. Cardinality(H \ {n}) \in Nat
  BY <1>5, FS_CardinalityType
<1>7. Cardinality(H) >= 1
  BY <1>4, <1>5, <1>6
<1>8. claim[a] = "held"
  BY <1>4, <1>7 DEF Claimed
<1>9. Cardinality(H \ {n}) = 0
  BY <1>4, <1>5, <1>6 DEF Claimed
<1>10. H \ {n} = {}
  BY <1>5, <1>9, FS_EmptySet
<1> QED BY <1>3, <1>8, <1>10

\* A step that leaves the row and the executions of the action as they were.
Spared(a) ==
    /\ active'[a] = active[a] /\ left'[a] = left[a] /\ tries'[a] = tries[a]
    /\ \A m \in Nodes : /\ job'[m][a] = job[m][a]
                        /\ job[m][a] # "idle" => seen'[m][a] = seen[m][a]

\* A process drops the action.
Drops(n, a) == \A m \in Nodes : job'[m][a] = IF m = n THEN "idle" ELSE job[m][a]

LEMMA StepOfOne ==
  ASSUME TypeOK, NEW n \in Nodes, NEW b \in Actions, Work(n, b) \/ Fail(n, b),
         NEW a \in Actions, a # b
  PROVE  Spared(a)
<1>1. /\ \E p : job' = [job EXCEPT ![n][b] = p]
      /\ seen' = seen \/ \E s : seen' = [seen EXCEPT ![n][b] = s]
  BY DEF Work, Fail, Begin, FunctionReturns, FunctionThrows, SuccessLost, WriteFails, Write,
         WriteSuccess, WriteDenied, WriteRetry, WriteTerminal, Done, ReadAttempts, To
<1>2. \A m \in Nodes : job'[m][a] = job[m][a] /\ seen'[m][a] = seen[m][a]
  BY <1>1 DEF TypeOK
<1>3. tries'[a] = tries[a]
  BY DEF Work, Fail, Begin, FunctionReturns, FunctionThrows, SuccessLost, WriteFails, Write,
         WriteSuccess, WriteDenied, WriteRetry, WriteTerminal, Done, TypeOK
<1>4. \/ active' = active /\ left' = left
      \/ \E p, c : active' = [active EXCEPT ![b] = p] /\ left' = [left EXCEPT ![b] = c]
  <2>1. CASE Write(n, b)
    BY <2>1 DEF Write, WriteSuccess, WriteDenied, WriteRetry, WriteTerminal, UpdateExecuteOn,
                Deactivated
  <2>2. CASE ~Write(n, b)
    BY <2>2 DEF Work, Fail, Begin, FunctionReturns, FunctionThrows, SuccessLost, WriteFails,
                rowVars
  <2> QED BY <2>1, <2>2
<1>5. active'[a] = active[a] /\ left'[a] = left[a]
  BY <1>4 DEF TypeOK
<1> QED BY <1>2, <1>3, <1>5 DEF Spared

\* What the executions leave alone.
LEMMA WorkKeeps ==
  ASSUME NEW n \in Nodes, NEW b \in Actions, Work(n, b) \/ Fail(n, b)
  PROVE  /\ created' = created /\ lapses' = lapses /\ crashes' = crashes
         /\ faults' = faults \/ faults' = faults + 1
         /\ tries' = tries \/ Begin(n, b)
<1>1. CASE Write(n, b)
  <2>1. Done(n, b)
    BY <1>1 DEF Write, WriteSuccess, WriteDenied, WriteRetry, WriteTerminal
  <2> QED BY <2>1 DEF Done, keyVars
<1>2. CASE Begin(n, b)
  BY <1>2 DEF Begin, keyVars
<1>3. CASE FunctionReturns(n, b) \/ FunctionThrows(n, b)
  BY <1>3 DEF FunctionReturns, FunctionThrows, keyVars
<1>4. CASE Fail(n, b)
  BY <1>4 DEF Fail, SuccessLost, WriteFails, keyVars
<1> QED BY <1>1, <1>2, <1>3, <1>4 DEF Work

\* What the other steps leave alone.
LEMMA OthersKeep ==
  ASSUME [Next]_vars, ~\E n \in Nodes, b \in Actions : Work(n, b) \/ Fail(n, b)
  PROVE  /\ created' = created \/ AddUnique
         /\ lapses' = lapses \/ Deactivate \/ \E b \in Actions : Expire(b)
         /\ crashes' = crashes \/ crashes' = crashes + 1
         /\ faults' = faults /\ tries' = tries
<1> DEFINE Goal == /\ created' = created \/ AddUnique
                   /\ lapses' = lapses \/ Deactivate \/ \E b \in Actions : Expire(b)
                   /\ crashes' = crashes \/ crashes' = crashes + 1
                   /\ faults' = faults /\ tries' = tries
<1>1. ASSUME UNCHANGED vars PROVE Goal
  BY <1>1 DEF vars, keyVars
<1>2. ASSUME NEW n \in Nodes, Claim(n) \/ Crash(n) PROVE Goal
  BY <1>2 DEF Claim, Crash, keyVars
<1>3. ASSUME NEW b \in Actions, Expire(b) \/ ComesDue(b) PROVE Goal
  <2>1. created' = created /\ crashes' = crashes /\ faults' = faults /\ tries' = tries
    BY <1>3 DEF Expire, ComesDue, keyVars
  <2>2. lapses' = lapses \/ Expire(b)
    BY <1>3 DEF ComesDue
  <2>3. lapses' = lapses \/ \E c \in Actions : Expire(c)
    BY <2>2, Zenon
  <2> QED BY <2>1, <2>3
<1>4. ASSUME AddUnique PROVE Goal
  BY <1>4 DEF AddUnique, keyVars
<1>5. ASSUME Deactivate PROVE Goal
  BY <1>5 DEF Deactivate, keyVars
<1>6. ASSUME CleanupDedupeKeys PROVE Goal
  BY <1>6 DEF CleanupDedupeKeys, keyVars
<1>7. Goal
  <2> HIDE DEF Goal
  <2> QED BY <1>1, <1>2, <1>3, <1>4, <1>5, <1>6 DEF Next
<1> QED BY <1>7

LEMMA StepOfClaim ==
  ASSUME TypeOK, NEW n \in Nodes, Claim(n), NEW a \in Actions, ~Claimable(a)
  PROVE  Spared(a)
<1>1. \A m \in Nodes : job'[m][a] = job[m][a]
  BY DEF Claim, TypeOK
<1>2. active' = active /\ left' = left /\ tries' = tries /\ seen' = seen
  BY DEF Claim
<1> QED BY <1>1, <1>2 DEF Spared

LEMMA StepOfRow ==
  ASSUME \/ \E b \in Actions : Expire(b) \/ ComesDue(b)
         \/ CleanupDedupeKeys
         \/ UNCHANGED vars,
         NEW a \in Actions
  PROVE  Spared(a) /\ created' = created /\ tries' = tries
  BY DEF Expire, ComesDue, CleanupDedupeKeys, Spared, vars, rowVars, keyVars, jobVars

-----------------------------------------------------------------------------
LEMMA UntouchedSpared ==
  ASSUME TypeOK, NEW a \in Actions, Untouched(a), Spared(a)
  PROVE  Untouched(a)'
<1>1. Holders(a)' = Holders(a)
  BY DEF Spared, Holders
<1> QED BY <1>1 DEF Untouched, Spared

LEMMA NextUntouched ==
  ASSUME TypeOK, KeyPointsToActive, [Next]_vars, NEW a \in Unique \ created', Accounted
  PROVE  Untouched(a)'
<1>0. ActionsAssumption
  BY ActionsAssumption
<1>1. a \in Actions /\ a \in Unique
  BY <1>0 DEF ActionsAssumption
<1>2. created \subseteq created'
  <2>1. CASE AddUnique
    BY <2>1 DEF AddUnique
  <2>2. CASE ~AddUnique
    BY <2>2, WorkKeeps, OthersKeep
  <2> QED BY <2>1, <2>2
<1>3. Untouched(a)
  BY <1>1, <1>2 DEF Accounted
<1>4. \A n \in Nodes : job[n][a] = "idle"
  BY <1>3 DEF Untouched, Holders
<1>5. ASSUME Spared(a) PROVE Untouched(a)'
  BY <1>1, <1>3, <1>5, UntouchedSpared
<1>6. ASSUME NEW n \in Nodes, Claim(n) PROVE Untouched(a)'
  BY <1>1, <1>3, <1>5, <1>6, StepOfClaim DEF Untouched, Claimable
<1>7. ASSUME NEW n \in Nodes, Crash(n) PROVE Untouched(a)'
  <2>1. \A m \in Nodes : job'[m][a] = IF m = n THEN "idle" ELSE job[m][a]
    BY <1>1, <1>7 DEF Crash, TypeOK
  <2>2. \A m \in Nodes : job'[m][a] = job[m][a]
    BY <1>4, <2>1
  <2>3. active' = active /\ left' = left /\ tries' = tries
    BY <1>7 DEF Crash, rowVars
  <2> QED BY <1>4, <1>5, <2>2, <2>3 DEF Spared
<1>8. ASSUME NEW n \in Nodes, NEW b \in Actions, Work(n, b) \/ Fail(n, b) PROVE Untouched(a)'
  <2>1. job[n][b] # "idle"
    BY <1>8 DEF Work, Fail, Begin, FunctionReturns, FunctionThrows, SuccessLost, WriteFails,
                Write, WriteSuccess, WriteDenied, WriteRetry, WriteTerminal, At
  <2>2. a # b
    BY <1>4, <2>1
  <2> QED BY <1>1, <1>5, <1>8, <2>2, StepOfOne
<1>9. ASSUME \/ \E b \in Actions : Expire(b) \/ ComesDue(b)
             \/ CleanupDedupeKeys
             \/ UNCHANGED vars
      PROVE  Untouched(a)'
  BY <1>1, <1>5, <1>9, StepOfRow
<1>10. CASE AddUnique
  <2>1. PICK c \in Unique : c \in created' /\ active' = [active EXCEPT ![c] = TRUE]
    BY <1>10 DEF AddUnique
  <2>2. active'[a] = active[a]
    BY <1>1, <2>1 DEF TypeOK
  <2> QED BY <1>5, <1>10, <2>2 DEF AddUnique, Spared, jobVars
<1>11. CASE Deactivate
  <2>1. a # key
    BY <1>3, <1>11 DEF Deactivate, Untouched
  <2>2. active'[a] = active[a]
    BY <1>1, <1>11, <2>1 DEF Deactivate, TypeOK
  <2> QED BY <1>5, <1>11, <2>2 DEF Deactivate, Spared, jobVars
<1> QED BY <1>6, <1>7, <1>8, <1>9, <1>10, <1>11 DEF Next

LEMMA NextUncounted ==
  ASSUME TypeOK, [Next]_vars, NEW a \in Recurring, tries[a] = 0
  PROVE  tries'[a] = 0
<1>1. a \in Actions
  BY ActionsAssumption DEF ActionsAssumption
<1>2. CASE \E n \in Nodes, b \in Actions : Begin(n, b)
  BY <1>1, <1>2 DEF Begin, TypeOK
<1>3. CASE ~\E n \in Nodes, b \in Actions : Begin(n, b)
  BY <1>3, WorkKeeps, OthersKeep
<1> QED BY <1>2, <1>3

-----------------------------------------------------------------------------
(* What a step does to the account of one action.                          *)

LEMMA CountedSpared ==
  ASSUME TypeOK, TypeOK', NEW a \in Actions, Counted(a), Spared(a), Allowed <= Allowed'
  PROVE  Counted(a)'
<1>0. Allowed' \in Int
  BY ActionsAssumption DEF TypeOK, Allowed, ActionsAssumption
<1>1. Allowed \in Int /\ Allowed' \in Int /\ tries[a] \in Int /\ left[a] \in Int
  BY <1>0, AllowedTyped, RowTyped
<1> DEFINE A == Allowed'
<1>2. /\ Allowed <= A /\ A \in Int /\ Allowed \in Int /\ A = Allowed'
  BY <1>1
<1> HIDE DEF A
<1>3. tries'[a] <= A /\ (active'[a] => left'[a] >= 1)
  BY <1>1, <1>2 DEF Counted, Spared
<1>4. ASSUME active'[a], \A n \in Nodes : job'[n][a] \notin Begun
      PROVE  tries'[a] + left'[a] <= A
  <2>1. tries[a] + left[a] <= Allowed
    BY <1>4 DEF Counted, Spared
  <2> QED BY <1>1, <1>2, <2>1 DEF Spared
<1>5. ASSUME NEW n \in Nodes, job'[n][a] # "idle"
      PROVE  active'[a] /\ tries'[a] + left'[a] <= A + 1
  <2>1. active[a] /\ tries[a] + left[a] <= Allowed + 1
    BY <1>5 DEF Counted, Spared
  <2> QED BY <1>1, <1>2, <2>1 DEF Spared
<1>6. ASSUME NEW n \in Nodes, job'[n][a] \in {"retry", "terminal"} PROVE seen'[n][a] = left'[a]
  BY <1>6 DEF Counted, Spared
<1> QED BY <1>2, <1>3, <1>4, <1>5, <1>6 DEF Counted, Begun

\* Nobody has the action after the step, and its row is inactive.
LEMMA CountedEnded ==
  ASSUME TypeOK, TypeOK', NEW a \in Actions, Counted(a), Allowed <= Allowed',
         tries'[a] = tries[a], ~active'[a], \A m \in Nodes : job'[m][a] = "idle"
  PROVE  Counted(a)'
<1>1. Allowed \in Int /\ tries[a] \in Int
  BY AllowedTyped, RowTyped
<1>2. Allowed' \in Int
  BY ActionsAssumption DEF TypeOK, Allowed, ActionsAssumption
<1>3. tries'[a] <= Allowed'
  BY <1>1, <1>2 DEF Counted
<1> QED BY <1>3 DEF Counted

\* Nobody executes the action after the step: it is queued at most, or was
\* refused, and the row counts for all that was executed.
LEMMA CountedFull ==
  ASSUME TypeOK, TypeOK', NEW a \in Actions, active'[a], left'[a] >= 1,
         tries'[a] + left'[a] <= Allowed',
         \A m \in Nodes : job'[m][a] \in {"idle", "queued", "denied"}
  PROVE  Counted(a)'
<1>1. Allowed' \in Int
  BY ActionsAssumption DEF TypeOK, Allowed, ActionsAssumption
<1>2. tries'[a] \in Int /\ left'[a] \in Int
  BY DEF TypeOK
<1> DEFINE A == Allowed'  t == tries'[a]  l == left'[a]
<1>3. A \in Int /\ t \in Int /\ l \in Int /\ l >= 1 /\ t + l <= A
  BY <1>1, <1>2
<1> HIDE DEF A, t, l
<1>4. t <= A /\ t + l <= A + 1
  BY <1>3
<1>5. tries'[a] <= Allowed' /\ tries'[a] + left'[a] <= Allowed' + 1
  BY <1>4 DEF A, t, l
<1> QED BY <1>5 DEF Counted

\* One process executes the action after the step, and nobody else has it.
LEMMA CountedExecuting ==
  ASSUME TypeOK, TypeOK', NEW a \in Actions, NEW n \in Nodes, active'[a], left'[a] >= 1,
         tries'[a] + left'[a] <= Allowed' + 1, job'[n][a] \in Begun,
         job'[n][a] \in {"retry", "terminal"} => seen'[n][a] = left'[a],
         \A m \in Nodes : m # n => job'[m][a] = "idle"
  PROVE  Counted(a)'
<1>1. Allowed' \in Int
  BY ActionsAssumption DEF TypeOK, Allowed, ActionsAssumption
<1>2. tries'[a] \in Int /\ left'[a] \in Int
  BY DEF TypeOK
<1> DEFINE A == Allowed'  t == tries'[a]  l == left'[a]
<1>3. A \in Int /\ t \in Int /\ l \in Int /\ l >= 1 /\ t + l <= A + 1
  BY <1>1, <1>2
<1> HIDE DEF A, t, l
<1>4. t <= A
  BY <1>3
<1>5. tries'[a] <= Allowed'
  BY <1>4 DEF A, t
<1> QED BY <1>5 DEF Counted

\* A crash or a failed write loses the outcome: the row counts one attempt less
\* than were executed, and one more is allowed.
LEMMA CountedLost ==
  ASSUME TypeOK, TypeOK', NEW a \in Actions, NEW n \in Nodes, Counted(a),
         job[n][a] # "idle", Allowed' = Allowed + 1,
         active'[a] = active[a], left'[a] = left[a], tries'[a] = tries[a],
         \A m \in Nodes : job'[m][a] = "idle"
  PROVE  Counted(a)'
<1>1. active[a] /\ left[a] >= 1 /\ tries[a] + left[a] <= Allowed + 1
  BY DEF Counted
<1> QED BY <1>1, CountedFull

LEMMA AllowedKept ==
  ASSUME TypeOK, [Next]_vars
  PROVE  Allowed <= Allowed'
<1>1. /\ crashes' = crashes \/ crashes' = crashes + 1
      /\ faults' = faults \/ faults' = faults + 1
  BY WorkKeeps, OthersKeep
<1> QED BY <1>1, AllowedTyped DEF Allowed

\* A lapse is not forgotten.
LEMMA LapsesKept ==
  ASSUME TypeOK, [Next]_vars, NEW a \in Actions, lapses'[a] = 0
  PROVE  lapses[a] = 0
<1>1. CASE Deactivate
  <2>1. lapses'[a] = lapses[a] \/ lapses'[a] = lapses[a] + 1
    BY <1>1 DEF Deactivate, TypeOK
  <2> QED BY <2>1, RowTyped
<1>2. ASSUME NEW b \in Actions, Expire(b) PROVE lapses[a] = 0
  <2>1. lapses'[a] = lapses[a] \/ lapses'[a] = lapses[a] + 1
    BY <1>2 DEF Expire, TypeOK
  <2> QED BY <2>1, RowTyped
<1>3. CASE ~Deactivate /\ ~\E b \in Actions : Expire(b)
  <2>1. lapses' = lapses
    BY <1>3, WorkKeeps, OthersKeep
  <2> QED BY <2>1
<1> QED BY <1>1, <1>2, <1>3

-----------------------------------------------------------------------------
\* What a step of the process that has the action does to its account.
LEMMA WorkCounted ==
  ASSUME TypeOK, TypeOK', NEW a \in Actions \ Recurring, Bound(a), lapses[a] = 0, Counted(a),
         NEW n \in Nodes, Work(n, a) \/ Fail(n, a), Allowed <= Allowed'
  PROVE  Counted(a)'
<1>0. job[n][a] # "idle"
  BY DEF Work, Fail, Begin, FunctionReturns, FunctionThrows, SuccessLost, WriteFails, Write,
         WriteSuccess, WriteDenied, WriteRetry, WriteTerminal, At
<1>1. \A m \in Nodes : m # n => job[m][a] = "idle"
  BY <1>0, OneHolder
<1>2. /\ active[a] /\ left[a] >= 1 /\ tries[a] + left[a] <= Allowed + 1
      /\ tries[a] \in Int /\ left[a] \in Int /\ Allowed \in Int
  BY <1>0, AllowedTyped, RowTyped DEF Counted
<1>3. Allowed' \in Int
  BY ActionsAssumption DEF TypeOK, Allowed, ActionsAssumption
<1>4. ASSUME NEW p, job' = [job EXCEPT ![n][a] = p]
      PROVE  job'[n][a] = p /\ \A m \in Nodes : m # n => job'[m][a] = "idle"
  BY <1>1, <1>4 DEF TypeOK
<1>5. ASSUME Allowed' = Allowed, active' = active, left' = left, tries' = tries,
             NEW p \in Begun, job' = [job EXCEPT ![n][a] = p],
             p \in {"retry", "terminal"} => seen'[n][a] = left[a]
      PROVE  Counted(a)'
  <2>1. job'[n][a] = p /\ \A m \in Nodes : m # n => job'[m][a] = "idle"
    BY <1>4, <1>5
  <2> QED BY <1>2, <1>5, <2>1, CountedExecuting
<1>6. ASSUME NEW p, ReadAttempts(n, a, p)
      PROVE  job' = [job EXCEPT ![n][a] = p] /\ seen'[n][a] = left[a]
  BY <1>6 DEF ReadAttempts, TypeOK
<1>7. CASE Begin(n, a)
  <2>1. job[n][a] = "queued"
    BY <1>7 DEF Begin, At
  <2>2. tries[a] + left[a] <= Allowed
    BY <1>1, <1>2, <2>1 DEF Counted, Begun
  <2>3. /\ active' = active /\ left' = left /\ Allowed' = Allowed
    BY <1>7 DEF Begin, rowVars, Allowed
  <2>4. CASE To(n, a, "denied") /\ UNCHANGED tries
    <3>1. \A m \in Nodes : job'[m][a] \in {"idle", "queued", "denied"}
      BY <1>4, <2>4 DEF To
    <3> QED BY <1>2, <2>2, <2>3, <2>4, <3>1, CountedFull
  <2>5. CASE To(n, a, "running") /\ tries' = [tries EXCEPT ![a] = @ + 1]
    <3>1. tries'[a] = tries[a] + 1
      BY <2>5 DEF TypeOK
    <3>2. tries'[a] + left'[a] <= Allowed' + 1
      BY <1>2, <2>2, <2>3, <3>1
    <3>3. job'[n][a] = "running" /\ \A m \in Nodes : m # n => job'[m][a] = "idle"
      BY <1>4, <2>5 DEF To
    <3> QED BY <1>2, <2>3, <3>2, <3>3, CountedExecuting DEF Begun
  <2> QED BY <1>7, <2>4, <2>5 DEF Begin
<1>8. CASE FunctionReturns(n, a)
  <2>1. /\ Allowed' = Allowed /\ active' = active /\ left' = left /\ tries' = tries
        /\ job' = [job EXCEPT ![n][a] = "ran"]
    BY <1>8 DEF FunctionReturns, To, rowVars, Allowed
  <2> QED BY <1>5, <2>1 DEF Begun
<1>9. CASE FunctionThrows(n, a)
  <2>1. /\ Allowed' = Allowed /\ active' = active /\ left' = left /\ tries' = tries
    BY <1>9 DEF FunctionThrows, rowVars, Allowed
  <2>2. PICK p \in {"retry", "terminal"} : ReadAttempts(n, a, p)
    BY <1>9 DEF FunctionThrows
  <2> QED BY <1>5, <1>6, <2>1, <2>2 DEF Begun
<1>10. CASE SuccessLost(n, a)
  <2>1. ReadAttempts(n, a, "retry") /\ active' = active /\ left' = left /\ tries' = tries
    BY <1>10 DEF SuccessLost, rowVars
  <2>2. job'[n][a] = "retry" /\ \A m \in Nodes : m # n => job'[m][a] = "idle"
    BY <1>4, <1>6, <2>1
  <2>3. seen'[n][a] = left'[a]
    BY <1>6, <2>1
  <2>4. tries'[a] + left'[a] <= Allowed' + 1
    BY <1>2, <1>3, <2>1
  <2> QED BY <1>2, <2>1, <2>2, <2>3, <2>4, CountedExecuting DEF Begun
<1>11. CASE WriteFails(n, a)
  <2>1. /\ job' = [job EXCEPT ![n][a] = "idle"]
        /\ active' = active /\ left' = left /\ tries' = tries
        /\ crashes' = crashes /\ faults' = faults + 1
    BY <1>11 DEF WriteFails, rowVars
  <2>2. Allowed' = Allowed + 1
    BY <2>1, AllowedTyped DEF Allowed
  <2>3. \A m \in Nodes : job'[m][a] = "idle"
    BY <1>4, <2>1
  <2> QED BY <1>0, <2>1, <2>2, <2>3, CountedLost
<1>12. CASE Write(n, a)
  <2>1. /\ job' = [job EXCEPT ![n][a] = "idle"] /\ tries' = tries /\ Allowed' = Allowed
    BY <1>12 DEF Write, WriteSuccess, WriteDenied, WriteRetry, WriteTerminal, Done, Allowed
  <2>2. \A m \in Nodes : job'[m][a] = "idle"
    BY <1>4, <2>1
  <2>3. CASE WriteSuccess(n, a) \/ WriteDenied(n, a) \/ WriteTerminal(n, a)
    <3>1. ~active'[a]
      BY <2>3 DEF WriteSuccess, WriteDenied, WriteTerminal, UpdateExecuteOn, Deactivated,
                  StaysActive, TypeOK
    <3> QED BY <2>1, <2>2, <3>1, CountedEnded
  <2>4. CASE WriteRetry(n, a) /\ Exhausted(seen[n][a])
    <3>1. ~active'[a]
      BY <2>4 DEF WriteRetry, Deactivated, TypeOK
    <3> QED BY <2>1, <2>2, <3>1, CountedEnded
  <2>5. CASE WriteRetry(n, a) /\ ~Exhausted(seen[n][a])
    <3>1. seen[n][a] = left[a]
      BY <2>5 DEF WriteRetry, At, Counted
    <3>2. left[a] > 1
      BY <1>2, <2>5, <3>1 DEF Exhausted
    <3>3. active'[a] = active[a] /\ left'[a] = left[a] - 1
      BY <2>5, <3>1 DEF WriteRetry, UpdateExecuteOn, Decremented, TypeOK
    <3>4. left'[a] >= 1 /\ tries'[a] + left'[a] <= Allowed'
      BY <1>2, <2>1, <3>2, <3>3
    <3> QED BY <1>2, <2>2, <3>3, <3>4, CountedFull
  <2> QED BY <1>12, <2>3, <2>4, <2>5 DEF Write
<1> QED BY <1>7, <1>8, <1>9, <1>10, <1>11, <1>12 DEF Work, Fail

LEMMA NextCounted ==
  ASSUME TypeOK, TypeOK', [Next]_vars, NEW a \in Actions \ Recurring, Bound(a),
         lapses'[a] = 0, Counted(a), Accounted
  PROVE  Counted(a)'
<1>1. lapses[a] = 0 /\ Allowed <= Allowed'
  BY LapsesKept, AllowedKept
<1>2. ASSUME Spared(a) PROVE Counted(a)'
  BY <1>1, <1>2, CountedSpared
<1>3. ASSUME NEW n \in Nodes, Claim(n) PROVE Counted(a)'
  <2>1. CASE ~Claimable(a)
    BY <1>2, <1>3, <2>1, StepOfClaim
  <2>2. CASE Claimable(a)
    <3>1. \A m \in Nodes : job[m][a] = "idle"
      BY <1>1, <2>2, OneHolder DEF Claimable
    <3>2. \A m \in Nodes : job'[m][a] \in {"idle", "queued", "denied"}
      BY <1>3, <3>1 DEF Claim, TypeOK
    <3>3. /\ active[a] /\ active' = active /\ left' = left /\ tries' = tries
          /\ Allowed' = Allowed
      BY <1>3, <2>2 DEF Claim, Claimable, Allowed
    <3>4. left[a] >= 1 /\ tries[a] + left[a] <= Allowed
      BY <3>1, <3>3 DEF Counted, Begun
    <3> QED BY <3>2, <3>3, <3>4, CountedFull
  <2> QED BY <2>1, <2>2
<1>4. ASSUME NEW n \in Nodes, Crash(n) PROVE Counted(a)'
  <2>1. \A m \in Nodes : job'[m][a] = IF m = n THEN "idle" ELSE job[m][a]
    BY <1>4 DEF Crash, TypeOK
  <2>2. /\ active' = active /\ left' = left /\ tries' = tries
        /\ crashes' = crashes + 1 /\ faults' = faults
    BY <1>4 DEF Crash, rowVars
  <2>3. \A m \in Nodes : m # n => seen'[m][a] = seen[m][a]
    BY <1>4 DEF Crash, TypeOK
  <2>4. CASE job[n][a] = "idle"
    BY <1>2, <2>1, <2>2, <2>3, <2>4 DEF Spared
  <2>5. CASE job[n][a] # "idle"
    <3>1. \A m \in Nodes : job'[m][a] = "idle"
      BY <1>1, <2>1, <2>5, OneHolder
    <3>2. Allowed' = Allowed + 1
      BY <2>2, AllowedTyped DEF Allowed
    <3> QED BY <2>2, <2>5, <3>1, <3>2, CountedLost
  <2> QED BY <2>4, <2>5
<1>5. ASSUME NEW n \in Nodes, NEW b \in Actions, Work(n, b) \/ Fail(n, b) PROVE Counted(a)'
  <2>1. CASE a = b
    BY <1>1, <1>5, <2>1, WorkCounted
  <2>2. CASE a # b
    BY <1>2, <1>5, <2>2, StepOfOne
  <2> QED BY <2>1, <2>2
<1>6. ASSUME \/ \E b \in Actions : Expire(b) \/ ComesDue(b)
             \/ CleanupDedupeKeys
             \/ UNCHANGED vars
      PROVE  Counted(a)'
  BY <1>2, <1>6, StepOfRow
<1>7. CASE AddUnique
  <2>1. PICK c \in Unique \ created : active' = [active EXCEPT ![c] = TRUE]
    BY <1>7 DEF AddUnique
  <2>2. left' = left /\ tries' = tries /\ job' = job /\ seen' = seen /\ Allowed' = Allowed
    BY <1>7 DEF AddUnique, jobVars, Allowed
  <2>3. CASE a = c
    <3>1. Untouched(a)
      BY <2>1, <2>3 DEF Accounted
    <3>2. /\ active'[a] /\ \A m \in Nodes : job'[m][a] = "idle"
          /\ tries'[a] = 0 /\ left'[a] = Total
      BY <2>1, <2>2, <2>3, <3>1 DEF Untouched, Holders, TypeOK
    <3>3. left'[a] >= 1 /\ tries'[a] + left'[a] <= Allowed'
      BY <2>2, <3>2, AllowedTyped
    <3> QED BY <3>2, <3>3, CountedFull
  <2>4. CASE a # c
    <3>1. active'[a] = active[a]
      BY <2>1, <2>4 DEF TypeOK
    <3> QED BY <1>2, <2>2, <3>1 DEF Spared
  <2> QED BY <2>3, <2>4
<1>8. CASE Deactivate
  <2>1. /\ active' = [active EXCEPT ![key] = FALSE]
        /\ left' = left /\ tries' = tries /\ job' = job /\ seen' = seen
    BY <1>8 DEF Deactivate, jobVars
  <2>2. CASE a = key
    <3>1. lapses'[a] = IF claim[a] = "held" /\ Holders(a) # {} THEN lapses[a] + 1 ELSE lapses[a]
      BY <1>8, <2>2 DEF Deactivate, TypeOK
    <3>2. ~(claim[a] = "held" /\ Holders(a) # {})
      BY <1>1, <3>1
    <3>3. \A m \in Nodes : job[m][a] = "idle"
      BY <1>1, <3>2, OneHolder DEF Holders
    <3>4. ~active'[a]
      BY <2>1, <2>2 DEF TypeOK
    <3> QED BY <1>1, <2>1, <3>3, <3>4, CountedEnded
  <2>3. CASE a # key
    <3>1. active'[a] = active[a]
      BY <2>1, <2>3 DEF TypeOK
    <3> QED BY <1>2, <2>1, <3>1 DEF Spared
  <2> QED BY <2>2, <2>3
<1> QED BY <1>3, <1>4, <1>5, <1>6, <1>7, <1>8 DEF Next

LEMMA InitAccounted == Init => Accounted
<1> SUFFICES ASSUME Init PROVE Accounted
  OBVIOUS
<1>1. ActionsAssumption
  BY ActionsAssumption
<1>2. \A a \in Unique : Untouched(a)
  BY <1>1 DEF Init, Untouched, Holders, ActionsAssumption
<1>3. \A a \in Recurring : tries[a] = 0
  BY <1>1 DEF Init, ActionsAssumption
<1>4. ASSUME NEW a \in Actions PROVE Counted(a)
  <2>1. /\ tries[a] = 0 /\ left[a] = Total /\ \A n \in Nodes : job[n][a] = "idle"
    BY DEF Init
  <2>2. Total \in Nat /\ Total >= 1 /\ Allowed = Total
    BY <1>1 DEF Init, Allowed, ActionsAssumption
  <2> QED BY <2>1, <2>2 DEF Counted
<1> QED BY <1>2, <1>3, <1>4 DEF Accounted

LEMMA NextAccounted ==
  ASSUME TypeOK, TypeOK', KeyPointsToActive, Accounted, [Next]_vars, \A a \in Actions : Bound(a)
  PROVE  Accounted'
<1>1. \A a \in Unique \ created' : Untouched(a)'
  BY NextUntouched
<1>2. \A a \in Recurring : tries'[a] = 0
  BY NextUncounted DEF Accounted
<1>3. ASSUME NEW a \in Actions \ Recurring, lapses'[a] = 0 PROVE Counted(a)'
  <2>1. Counted(a)
    BY <1>3, LapsesKept DEF Accounted
  <2> QED BY <1>3, <2>1, NextCounted
<1> QED BY <1>1, <1>2, <1>3 DEF Accounted

-----------------------------------------------------------------------------
(* Theorems.                                                               *)

\* Every reachable state is typed, has no more holders of an action than its
\* claim and its lapses allow, has the dedupe row at the active action and accounts
\* for the attempts: the writes of claimDue, executeAction's outcomes and
\* addUniqueAutoAction keep it.
THEOREM Invariance == Spec => []IInv
<1>1. Init => IInv
  BY InitClaims, InitAccounted DEF IInv
<1>2. IInv /\ [Next]_vars => IInv'
  <2> SUFFICES ASSUME IInv, [Next]_vars PROVE IInv'
    OBVIOUS
  <2>1. TypeOK'
    BY NextTypeOK DEF IInv
  <2>0. \A a \in Actions : Bound(a)
    BY DEF IInv, OneProcessPerClaim, Bound, Claimed
  <2>2. OneProcessPerClaim'
    <3> SUFFICES ASSUME NEW a \in Actions PROVE Bound(a)'
      BY DEF OneProcessPerClaim, Bound, Claimed
    <3> QED BY <2>0, NextBound DEF IInv
  <2>3. KeyPointsToActive'
    BY NextKey DEF IInv
  <2>4. Accounted'
    BY <2>0, <2>1, NextAccounted DEF IInv
  <2> QED BY <2>1, <2>2, <2>3, <2>4 DEF IInv
<1> QED BY <1>1, <1>2, PTL DEF Spec

\* The rows, the dedupe row and what the processes remember keep their types;
\* an attempt count never exceeds the total.
THEOREM TypeCorrect == Spec => []TypeOK
<1>1. IInv => TypeOK
  BY DEF IInv
<1> QED BY <1>1, Invariance, PTL

\* Two processes have one action only if claims on it lapsed, whatever the
\* order of claims, late outcomes, failed writes and restarts.
THEOREM DuplicatesNeedLapses == Spec => []OneProcessPerClaim
<1>1. IInv => OneProcessPerClaim
  BY DEF IInv
<1> QED BY <1>1, Invariance, PTL

\* An action whose claims never lapsed is executed totalExecuteAttempts times at
\* most, and once more for each crash and each failed write, whatever the
\* process that reads the attempts that are left and the one that writes them.
THEOREM BudgetKept == Spec => []RetryBudget
<1>1. IInv => RetryBudget
  <2> SUFFICES ASSUME IInv, NEW a \in Actions, lapses[a] = 0
               PROVE  tries[a] <= Total + crashes + faults
    BY DEF RetryBudget
  <2>1. CASE a \in Recurring
    BY <2>1, AllowedTyped DEF IInv, Accounted, Allowed
  <2>2. CASE a \notin Recurring
    BY <2>2 DEF IInv, Accounted, Counted, Allowed
  <2> QED BY <2>1, <2>2
<1> QED BY <1>1, Invariance, PTL

\* Producers that ask for the same identity never leave two active actions,
\* whatever executions finish or dedupe rows are cleaned up in between.
THEOREM OneActive == Spec => []OneActivePerIdentity
<1>1. KeyPointsToActive => OneActivePerIdentity
  <2> SUFFICES ASSUME KeyPointsToActive PROVE OneActivePerIdentity
    OBVIOUS
  <2> DEFINE A == {a \in Unique : active[a]}
  <2>1. A \subseteq {key}
    BY DEF KeyPointsToActive
  <2> HIDE DEF A
  <2>2. IsFiniteSet({key}) /\ Cardinality({key}) = 1
    BY FS_Singleton
  <2>3. IsFiniteSet(A) /\ Cardinality(A) <= Cardinality({key})
    BY <2>1, <2>2, FS_Subset
  <2>4. Cardinality(A) <= 1
    BY <2>2, <2>3
  <2> QED BY <2>4 DEF OneActivePerIdentity, A
<1>2. IInv => KeyPointsToActive
  BY DEF IInv
<1> QED BY <1>1, <1>2, Invariance, PTL

-----------------------------------------------------------------------------
(* The queues of one process, CronQueues: for any finite number of actions *)
(* and any modules, chains, schedules and failed calls.                    *)

\* The queues q have each action in the queue of its module, once, and none that
\* executes.
Well(q) ==
    \A m \in Modules : \A i \in DOMAIN q[m] :
       /\ setup.moduleOf[q[m][i]] = m
       /\ q[m][i] # current[m]
       /\ \A j \in DOMAIN q[m] : q[m][i] = q[m][j] => i = j

Members(m, S) == {a \in S : setup.moduleOf[a] = m}

LEMMA SetupTyped ==
  ASSUME QueuesTypeOK
  PROVE  /\ setup.moduleOf \in [ActionIds -> Modules]
         /\ setup.chained \in [ActionIds -> Seq(ActionIds)]
         /\ setup.scheduled \subseteq ActionIds
<1>1. setup \in Setup
  BY QueuesAssumption DEF QueuesAssumption, QueuesTypeOK
<1> QED BY <1>1 DEF Setup

LEMMA OrderingTyped ==
  ASSUME NEW S \in SUBSET ActionIds, NEW s \in Orderings(S)
  PROVE  s \in Seq(ActionIds) /\ s \in Seq(S) /\ Elements(s) = S
<1>1. Cardinality(S) \in Nat
  BY FS_Subset, FS_CardinalityType, QueuesAssumption DEF QueuesAssumption
<1>2. s \in [1..Cardinality(S) -> S] /\ Elements(s) = S
  BY DEF Orderings
<1> DEFINE c == Cardinality(S)
<1>3. c \in Nat /\ s \in [1..c -> S]
  BY <1>1, <1>2
<1> HIDE DEF c
<1>4. s \in Seq(S) /\ s \in Seq(ActionIds)
  BY <1>3
<1> QED BY <1>2, <1>4

LEMMA InOrderOnce ==
  ASSUME NEW S \in SUBSET ActionIds, NEW list \in Seq(ActionIds),
         NEW s \in InOrder(list, S)
  PROVE  /\ s \in Seq(ActionIds) /\ Elements(s) = S
         /\ \A i, j \in DOMAIN s : s[i] = s[j] => i = j
<1>1. s \in Seq(ActionIds) /\ Elements(s) = S
  BY OrderingTyped DEF InOrder
<1>2. ASSUME NEW i \in DOMAIN s, NEW j \in DOMAIN s, i < j PROVE s[i] # s[j]
  <2>1. Precedes(list, s[i], s[j])
    BY <1>2 DEF InOrder
  <2>2. PICK k \in DOMAIN list : list[k] = s[i] /\ \A l \in 1..k : list[l] # s[j]
    BY <2>1 DEF Precedes
  <2>3. k \in 1..k
    BY <2>2
  <2> QED BY <2>2, <2>3
<1>3. \A i, j \in DOMAIN s : i \in Int /\ j \in Int
  BY <1>1
<1>4. \A i, j \in DOMAIN s : i < j \/ j < i \/ i = j
  BY <1>3
<1> QED BY <1>1, <1>2, <1>4

\* Appending to a queue the fresh actions of its module.
LEMMA EnqueuedWell ==
  ASSUME QueuesTypeOK, Placed, Exact, NEW list \in Seq(ActionIds),
         NEW q \in Enqueued(list)
  PROVE  /\ q \in [Modules -> Seq(ActionIds)] /\ Well(q)
         /\ \A m \in Modules :
              Elements(q[m]) = Elements(queue[m]) \cup Members(m, Fresh(list))
<1>0. Fresh(list) \subseteq ActionIds /\ Fresh(list) \cap held = {}
  BY DEF Fresh, Elements
<1>1. \A m \in Modules : q[m] \in Joined(list, m)
  BY DEF Enqueued
<1>2. ASSUME NEW m \in Modules
      PROVE  /\ q[m] \in Seq(ActionIds)
             /\ Elements(q[m]) = Elements(queue[m]) \cup Members(m, Fresh(list))
             /\ \A i \in DOMAIN q[m] :
                  /\ setup.moduleOf[q[m][i]] = m
                  /\ q[m][i] # current[m]
                  /\ \A j \in DOMAIN q[m] : q[m][i] = q[m][j] => i = j
  <2> DEFINE S == Members(m, Fresh(list))
             o == queue[m]
  <2>1. PICK s \in InOrder(list, S) : q[m] = o \o s
    BY <1>1 DEF Joined, Members
  <2>2. S \in SUBSET ActionIds
    BY <1>0 DEF Members
  <2>3. s \in Seq(ActionIds) /\ Elements(s) = S /\ \A i, j \in DOMAIN s : s[i] = s[j] => i = j
    BY <2>2, InOrderOnce
  <2>4. o \in Seq(ActionIds)
    BY DEF QueuesTypeOK
  <2>5. /\ \A i \in DOMAIN o : /\ setup.moduleOf[o[i]] = m /\ o[i] # current[m] /\ o[i] \in held
                               /\ \A j \in DOMAIN o : o[i] = o[j] => i = j
        /\ current[m] # None => current[m] \in held
    <3>1. ASSUME NEW i \in DOMAIN o PROVE o[i] \in held
      <4>1. o[i] \in ActionIds
        BY <2>4
      <4>2. Queued(o[i])
        BY DEF Queued, Elements
      <4> QED BY <4>1, <4>2 DEF Exact
    <3>2. current[m] # None => current[m] \in held
      BY DEF Exact, InExecution, QueuesTypeOK, MaybeAction
    <3> QED BY <3>1, <3>2 DEF Placed
  <2>6. \A a \in S : a \notin held /\ setup.moduleOf[a] = m /\ a \in ActionIds
    BY <1>0 DEF Members
  <2>7. None \notin ActionIds
    BY QueuesAssumption DEF QueuesAssumption
  <2>8. \A i \in DOMAIN s : s[i] \in S
    BY <2>3 DEF Elements
  <2> HIDE DEF S, o
  <2> DEFINE t == o \o s
  <2>9. /\ t \in Seq(ActionIds)
        /\ DOMAIN t = 1..(Len(o) + Len(s)) /\ DOMAIN o = 1..Len(o) /\ DOMAIN s = 1..Len(s)
        /\ Len(o) \in Nat /\ Len(s) \in Nat
        /\ \A i \in DOMAIN t : t[i] = IF i <= Len(o) THEN o[i] ELSE s[i - Len(o)]
    BY <2>3, <2>4, ConcatProperties
  <2> HIDE DEF t
  <2>10. ASSUME NEW i \in DOMAIN t
         PROVE  \/ i \in DOMAIN o /\ t[i] = o[i]
                \/ i - Len(o) \in DOMAIN s /\ t[i] = s[i - Len(o)] /\ i \notin DOMAIN o
    BY <2>9
  <2>11. Elements(t) = Elements(o) \cup Elements(s)
    <3>1. Elements(t) \subseteq Elements(o) \cup Elements(s)
      BY <2>10 DEF Elements
    <3>2. ASSUME NEW i \in DOMAIN o PROVE o[i] \in Elements(t)
      <4>1. i \in DOMAIN t /\ t[i] = o[i]
        BY <2>9
      <4> QED BY <4>1 DEF Elements
    <3>3. ASSUME NEW i \in DOMAIN s PROVE s[i] \in Elements(t)
      <4>1. i + Len(o) \in DOMAIN t /\ t[i + Len(o)] = s[i]
        BY <2>9
      <4> QED BY <4>1 DEF Elements
    <3> QED BY <3>1, <3>2, <3>3 DEF Elements
  <2>12. ASSUME NEW i \in DOMAIN t
         PROVE  setup.moduleOf[t[i]] = m /\ t[i] # current[m]
    BY <2>5, <2>6, <2>7, <2>8, <2>10
  <2>13. ASSUME NEW i \in DOMAIN t, NEW j \in DOMAIN t, t[i] = t[j] PROVE i = j
    <3>1. CASE i \in DOMAIN o /\ j \in DOMAIN o
      BY <2>5, <2>9, <2>13, <3>1
    <3>2. CASE i \notin DOMAIN o /\ j \notin DOMAIN o
      <4>1. i - Len(o) = j - Len(o)
        BY <2>3, <2>10, <2>13, <3>2
      <4> QED BY <2>9, <4>1
    <3>3. CASE i \in DOMAIN o /\ j \notin DOMAIN o
      BY <2>5, <2>6, <2>8, <2>10, <2>13, <3>3
    <3>4. CASE i \notin DOMAIN o /\ j \in DOMAIN o
      BY <2>5, <2>6, <2>8, <2>10, <2>13, <3>4
    <3> QED BY <3>1, <3>2, <3>3, <3>4
  <2>14. q[m] = t
    BY <2>1 DEF t
  <2> QED BY <2>3, <2>9, <2>11, <2>12, <2>13, <2>14 DEF S, o
<1>3. q \in [Modules -> Seq(ActionIds)]
  <2>1. q \in [Modules -> UNION {Joined(list, m) : m \in Modules}]
    BY DEF Enqueued
  <2> QED BY <1>2, <2>1
<1> QED BY <1>2, <1>3 DEF Well

-----------------------------------------------------------------------------
LEMMA TailElements ==
  ASSUME NEW t \in Seq(ActionIds), t # <<>>,
         \A i, j \in DOMAIN t : t[i] = t[j] => i = j
  PROVE  /\ Tail(t) \in Seq(ActionIds) /\ Head(t) \in ActionIds
         /\ Head(t) = t[1] /\ 1 \in DOMAIN t
         /\ \A i \in DOMAIN Tail(t) :
              i + 1 \in DOMAIN t /\ Tail(t)[i] = t[i + 1] /\ Tail(t)[i] # Head(t)
         /\ Elements(t) = Elements(Tail(t)) \cup {Head(t)}
<1>1. /\ Tail(t) \in Seq(ActionIds) /\ Head(t) \in ActionIds /\ Head(t) = t[1]
      /\ Len(t) \in Nat /\ Len(t) >= 1 /\ DOMAIN t = 1..Len(t)
      /\ Len(Tail(t)) = Len(t) - 1 /\ DOMAIN Tail(t) = 1..(Len(t) - 1)
      /\ \A i \in 1..(Len(t) - 1) : Tail(t)[i] = t[i + 1]
  BY HeadTailProperties
<1>2. ASSUME NEW i \in DOMAIN Tail(t)
      PROVE  i + 1 \in DOMAIN t /\ Tail(t)[i] = t[i + 1] /\ Tail(t)[i] # Head(t)
  <2>1. i + 1 \in DOMAIN t /\ Tail(t)[i] = t[i + 1] /\ 1 \in DOMAIN t /\ i + 1 # 1
    BY <1>1
  <2> QED BY <1>1, <2>1
<1>3. Elements(t) \subseteq Elements(Tail(t)) \cup {Head(t)}
  <2> SUFFICES ASSUME NEW i \in DOMAIN t PROVE t[i] \in Elements(Tail(t)) \cup {Head(t)}
    BY DEF Elements
  <2>1. CASE i = 1
    BY <1>1, <2>1
  <2>2. CASE i # 1
    <3>1. i - 1 \in DOMAIN Tail(t) /\ Tail(t)[i - 1] = t[i]
      BY <1>1, <2>2
    <3> QED BY <3>1 DEF Elements
  <2> QED BY <2>1, <2>2
<1>4. Elements(Tail(t)) \cup {Head(t)} \subseteq Elements(t)
  <2>1. 1 \in DOMAIN t
    BY <1>1
  <2>2. t[1] \in Elements(t)
    BY <2>1 DEF Elements
  <2>3. \A i \in DOMAIN Tail(t) : Tail(t)[i] \in Elements(t)
    BY <1>2 DEF Elements
  <2> QED BY <1>1, <2>2, <2>3 DEF Elements
<1> QED BY <1>1, <1>2, <1>3, <1>4

\* A loop's step from one execution to the next, or from idle to its first.
Carries(q, S, r, done) ==
    /\ q \in [Modules -> Seq(ActionIds)] /\ Well(q)
    /\ S \subseteq Modules /\ \A m \in S : current[m] = None /\ q[m] # <<>>
    /\ done \subseteq Modules /\ \A m \in done : current[m] # None
    /\ setup' = setup /\ Advance(q, S, r, done)

LEMMA AdvanceWell ==
  ASSUME QueuesTypeOK, Placed, NEW q, NEW S, NEW r, NEW done, Carries(q, S, r, done)
  PROVE  /\ Placed'
         /\ \A a \in ActionIds :
              (Queued(a)' \/ InExecution(a)')
                <=> /\ \E m \in Modules : a \in Elements(q[m]) \/ current[m] = a
                    /\ \A m \in done : a # current[m]
<1> USE DEF Carries
<1>0. None \notin ActionIds
  BY QueuesAssumption DEF QueuesAssumption
<1> DEFINE T == S \cup {m \in done : q[m] # <<>>}
<1>1. ASSUME NEW m \in T
      PROVE  queue'[m] = Tail(q[m]) /\ current'[m] = Head(q[m]) /\ q[m] # <<>>
  BY <1>1 DEF Advance
<1>2. ASSUME NEW m \in done, m \notin T
      PROVE  queue'[m] = q[m] /\ current'[m] = None /\ q[m] = <<>>
  BY <1>2 DEF Advance
<1>3. ASSUME NEW m \in Modules, m \notin T, m \notin done
      PROVE  queue'[m] = q[m] /\ current'[m] = current[m]
  BY <1>3 DEF Advance
<1>4. \A m \in T : m \in Modules /\ (m \in S \/ m \in done)
  OBVIOUS
<1>5. \A m \in S : m \notin done
  OBVIOUS
<1> HIDE DEF T
<1>6. ASSUME NEW m \in Modules
      PROVE  /\ q[m] \in Seq(ActionIds)
             /\ \A i \in DOMAIN q[m] :
                  /\ setup.moduleOf[q[m][i]] = m
                  /\ q[m][i] # current[m]
                  /\ \A j \in DOMAIN q[m] : q[m][i] = q[m][j] => i = j
  BY DEF Well
<1>7. ASSUME NEW m \in Modules
      PROVE  /\ current'[m] # None => setup.moduleOf[current'[m]] = m
             /\ \A i \in DOMAIN queue'[m] :
                  /\ setup.moduleOf[queue'[m][i]] = m
                  /\ queue'[m][i] # current'[m]
                  /\ \A j \in DOMAIN queue'[m] : queue'[m][i] = queue'[m][j] => i = j
             /\ \A a \in ActionIds : (a \in Elements(queue'[m]) \/ current'[m] = a)
                  <=> a \in Elements(q[m]) \/ (current[m] = a /\ m \notin done)
  <2>1. CASE m \in T
    <3> DEFINE t == q[m]
    <3>1. t \in Seq(ActionIds) /\ t # <<>> /\ \A i, j \in DOMAIN t : t[i] = t[j] => i = j
      BY <1>1, <1>6, <2>1
    <3>2. queue'[m] = Tail(t) /\ current'[m] = Head(t)
      BY <1>1, <2>1
    <3>3. \A i \in DOMAIN t : setup.moduleOf[t[i]] = m
      BY <1>6
    <3>4. current[m] = None \/ m \in done
      BY <1>4, <2>1
    <3> HIDE DEF t
    <3>5. /\ Tail(t) \in Seq(ActionIds) /\ Head(t) \in ActionIds
          /\ Head(t) = t[1] /\ 1 \in DOMAIN t
          /\ \A i \in DOMAIN Tail(t) :
               i + 1 \in DOMAIN t /\ Tail(t)[i] = t[i + 1] /\ Tail(t)[i] # Head(t)
          /\ Elements(t) = Elements(Tail(t)) \cup {Head(t)}
      BY <3>1, TailElements
    <3>6. \A i, j \in DOMAIN Tail(t) : Tail(t)[i] = Tail(t)[j] => i = j
      <4> SUFFICES ASSUME NEW i \in DOMAIN Tail(t), NEW j \in DOMAIN Tail(t),
                          Tail(t)[i] = Tail(t)[j]
                   PROVE  i = j
        OBVIOUS
      <4>1. i + 1 = j + 1
        BY <3>1, <3>5
      <4>2. i \in Int /\ j \in Int
        BY <3>5
      <4> QED BY <4>1, <4>2
    <3>7. \A a \in ActionIds :
             (a \in Elements(Tail(t)) \/ Head(t) = a) <=> a \in Elements(t)
      BY <3>5
    <3>8. \A a \in ActionIds : current[m] = a => m \in done
      BY <1>0, <3>4
    <3> QED BY <3>2, <3>3, <3>5, <3>6, <3>7, <3>8 DEF t
  <2>2. CASE m \notin T /\ m \in done
    <3>1. queue'[m] = q[m] /\ current'[m] = None
      BY <1>2, <2>2
    <3>2. \A i \in DOMAIN q[m] : q[m][i] \in ActionIds
      BY <1>6
    <3> QED BY <1>0, <1>6, <2>2, <3>1, <3>2
  <2>3. CASE m \notin T /\ m \notin done
    <3>1. queue'[m] = q[m] /\ current'[m] = current[m]
      BY <1>3, <2>3
    <3> QED BY <1>6, <2>3, <3>1 DEF Placed
  <2> QED BY <2>1, <2>2, <2>3
<1>8. Placed'
  BY <1>7 DEF Placed
<1>9. ASSUME NEW a \in ActionIds
      PROVE  (Queued(a)' \/ InExecution(a)')
                <=> \E m \in Modules :
                      a \in Elements(q[m]) \/ (current[m] = a /\ m \notin done)
  <2>1. (Queued(a)' \/ InExecution(a)')
          <=> \E m \in Modules : a \in Elements(queue'[m]) \/ current'[m] = a
    <3>1. Queued(a)' <=> \E m \in Modules : a \in Elements(queue'[m])
      BY DEF Queued
    <3>2. InExecution(a)' <=> \E m \in Modules : current'[m] = a
      BY DEF InExecution
    <3> QED BY <3>1, <3>2
  <2> QED BY <1>7, <2>1
<1>10. ASSUME NEW a \in ActionIds, NEW m \in Modules, NEW k \in done, a = current[k],
              a \in Elements(q[m]) \/ current[m] = a
       PROVE  a \notin Elements(q[m]) /\ m \in done
  <2>1. setup.moduleOf[a] = k
    BY <1>10 DEF Placed
  <2>2. m = k
    BY <1>0, <1>6, <1>10, <2>1 DEF Placed, Elements
  <2> QED BY <1>6, <1>10, <2>2 DEF Elements
<1>11. ASSUME NEW a \in ActionIds
       PROVE  (\E m \in Modules : a \in Elements(q[m]) \/ (current[m] = a /\ m \notin done))
              <=> /\ \E m \in Modules : a \in Elements(q[m]) \/ current[m] = a
                  /\ \A m \in done : a # current[m]
  <2>1. ASSUME NEW m \in Modules, a \in Elements(q[m]) \/ (current[m] = a /\ m \notin done),
               NEW k \in done
        PROVE  a # current[k]
    BY <1>10, <2>1
  <2>2. ASSUME NEW m \in Modules, a \in Elements(q[m]) \/ current[m] = a,
               \A k \in done : a # current[k]
        PROVE  a \in Elements(q[m]) \/ (current[m] = a /\ m \notin done)
    <3>1. m \in done => a # current[m]
      BY <2>2
    <3> QED BY <2>2, <3>1
  <2> QED BY <2>1, <2>2
<1> QED BY <1>8, <1>9, <1>11
-----------------------------------------------------------------------------
(* Types.                                                                  *)

LEMMA AdvanceTyped ==
  ASSUME QueuesTypeOK, NEW q \in [Modules -> Seq(ActionIds)],
         NEW r \in MaybeAction,
         NEW S \in SUBSET Modules, NEW done \in SUBSET Modules,
         \A m \in S : q[m] # <<>>, Advance(q, S, r, done)
  PROVE  /\ queue' \in [Modules -> Seq(ActionIds)]
         /\ current' \in [Modules -> MaybeAction]
         /\ loopRoot' \in [Modules -> MaybeAction] /\ asRoot' \in [Modules -> MaybeAction]
         /\ step' \in [Modules -> {"run", "next"}]
<1> DEFINE T == S \cup {m \in done : q[m] # <<>>}
<1>1. ASSUME NEW m \in T PROVE Tail(q[m]) \in Seq(ActionIds) /\ Head(q[m]) \in ActionIds
  <2>1. q[m] \in Seq(ActionIds) /\ q[m] # <<>>
    OBVIOUS
  <2> QED BY <2>1
<1>2. queue' = [m \in Modules |-> IF m \in T THEN Tail(q[m]) ELSE q[m]]
  BY DEF Advance
<1>3. current' = [m \in Modules |-> IF m \in T THEN Head(q[m])
                                    ELSE IF m \in done \ T THEN None ELSE current[m]]
  BY DEF Advance
<1>4. loopRoot' = LoopRoots(S, r, done \ T)
  BY DEF Advance
<1>5. asRoot' = [m \in Modules |-> IF m \in T \cup (done \ T) THEN loopRoot'[m] ELSE asRoot[m]]
  BY DEF Advance
<1>6. step' = [m \in Modules |-> IF m \in T \cup (done \ T) THEN "run" ELSE step[m]]
  BY DEF Advance
<1> HIDE DEF T
<1>7. loopRoot' \in [Modules -> MaybeAction]
  BY <1>4 DEF LoopRoots, QueuesTypeOK, MaybeAction
<1> QED BY <1>1, <1>2, <1>3, <1>5, <1>6, <1>7 DEF QueuesTypeOK, MaybeAction

\* The counts and the results of the roots, after an action left a root's list.
LEMMA ClearedTyped ==
  ASSUME QueuesTypeOK, NEW r \in MaybeAction, NEW a \in ActionIds,
         NEW n \in [ActionIds -> [ActionIds -> 0..MaxLinks]], NEW c \in Cleared(n, r, a)
  PROVE  /\ c \in [ActionIds -> [ActionIds -> 0..MaxLinks]]
         /\ KeptResults(c, r) \in [ActionIds -> SUBSET ActionIds]
<1>1. KeptResults(c, r) \in [ActionIds -> SUBSET ActionIds]
  BY DEF KeptResults, QueuesTypeOK, MaybeAction
<1>2. CASE r = None
  BY <1>1, <1>2 DEF Cleared
<1>3. CASE r # None
  <2>1. r \in ActionIds
    BY <1>3 DEF MaybeAction
  <2>2. n[r][a] \in 0..MaxLinks /\ MaxLinks \in Nat \ {0}
    BY <2>1, QueuesAssumption DEF QueuesAssumption
  <2>3. Fewer(n[r][a]) \subseteq 0..MaxLinks
    <3> DEFINE x == n[r][a]
    <3>1. x \in 0..MaxLinks /\ MaxLinks \in Nat
      BY <2>2
    <3> HIDE DEF x
    <3>2. Fewer(x) \subseteq 0..MaxLinks
      BY <3>1 DEF Fewer
    <3> QED BY <3>2 DEF x
  <2>4. PICK k \in Fewer(n[r][a]) : c = [n EXCEPT ![r][a] = k]
    BY <1>3 DEF Cleared
  <2> QED BY <1>1, <2>1, <2>3, <2>4
<1> QED BY <1>2, <1>3

LEMMA LoopThrowsTyped ==
  ASSUME QueuesTypeOK, NEW m \in Modules, current[m] # None,
         LoopThrows(m),
         callFaults' \in 0..MaxCallFaults
  PROVE  QueuesTypeOK'
<1>1. current' = [current EXCEPT ![m] = None] /\ awaited' = IF m \in awaited THEN {} ELSE awaited
  BY DEF LoopThrows, StopsAwaiting
<1>2. awaited' \subseteq {k \in Modules : current'[k] # None}
  BY <1>1 DEF QueuesTypeOK
<1> QED BY <1>1, <1>2 DEF LoopThrows, Forget, QueuesTypeOK, MaybeAction,
                          chainVars

LEMMA CronTyped ==
  ASSUME QueuesTypeOK, Placed, Exact, [QueuesNext]_queuesVars
  PROVE  QueuesTypeOK'
<1>0. None \notin ActionIds /\ MaxLinks \in Nat /\ MaxCallFaults \in Nat
  BY QueuesAssumption DEF QueuesAssumption
<1>1. CASE UNCHANGED queuesVars
  BY <1>1 DEF queuesVars, loopVars, chainVars, QueuesTypeOK
<1>2. CASE Pass
  <2>a. PICK Z \in SUBSET setup.scheduled : \E list \in Orderings(Z) :
           /\ \E q \in Enqueued(list) :
                Advance(q, Startable(q), None, {}) /\ awaited' = Startable(q)
           /\ NoteCause(list, None, None) /\ held' = held \cup Fresh(list)
    BY <1>2 DEF Pass
  <2>b. PICK list \in Orderings(Z) :
           /\ \E q \in Enqueued(list) :
                Advance(q, Startable(q), None, {}) /\ awaited' = Startable(q)
           /\ NoteCause(list, None, None) /\ held' = held \cup Fresh(list)
    BY <2>a
  <2>1. PICK q \in Enqueued(list) :
           /\ Advance(q, Startable(q), None, {}) /\ awaited' = Startable(q)
           /\ NoteCause(list, None, None) /\ held' = held \cup Fresh(list)
    BY <2>b
  <2>2. list \in Seq(ActionIds)
    BY OrderingTyped, SetupTyped
  <2>3. q \in [Modules -> Seq(ActionIds)]
    BY <2>2, EnqueuedWell
  <2>4. /\ Startable(q) \subseteq Modules
        /\ \A m \in Startable(q) : q[m] # <<>> /\ current[m] = None
    BY DEF Startable
  <2>5. /\ queue' \in [Modules -> Seq(ActionIds)]
        /\ current' \in [Modules -> MaybeAction]
        /\ loopRoot' \in [Modules -> MaybeAction] /\ asRoot' \in [Modules -> MaybeAction]
        /\ step' \in [Modules -> {"run", "next"}]
    <3>1. /\ None \in MaybeAction
          /\ Startable(q) \in SUBSET Modules /\ {} \in SUBSET Modules
          /\ \A m \in Startable(q) : q[m] # <<>>
      BY <2>4 DEF MaybeAction
    <3>2. Advance(q, Startable(q), None, {})
      BY <2>1
    <3> HIDE DEF MaybeAction
    <3> QED BY <2>3, <3>1, <3>2, AdvanceTyped
  <2>6. \A m \in Startable(q) : current'[m] # None
    <3> SUFFICES ASSUME NEW m \in Startable(q) PROVE current'[m] # None
      OBVIOUS
    <3>1. current'[m] = Head(q[m])
      BY <2>1, <2>4 DEF Advance
    <3>2. Head(q[m]) \in ActionIds
      BY <2>3, <2>4
    <3> QED BY <1>0, <3>1, <3>2
  <2>7. held' \subseteq ActionIds
    BY <2>1, <2>2 DEF Fresh, Elements, QueuesTypeOK
  <2>8. cause' \in [ActionIds -> MaybeAction]
    BY <2>1 DEF NoteCause, QueuesTypeOK, MaybeAction
  <2> QED BY <1>2, <2>1, <2>4, <2>5, <2>6, <2>7, <2>8 DEF Pass, QueuesTypeOK, chainVars
<1>3. ASSUME NEW m \in Modules, Succeed(m) PROVE QueuesTypeOK'
  <2>1. current[m] \in ActionIds /\ RootOf(m) \in ActionIds
    BY <1>3 DEF Succeed, RootOf, QueuesTypeOK, MaybeAction
  <2> QED BY <1>3, <2>1 DEF Succeed, QueuesTypeOK, MaybeAction
<1>4. ASSUME NEW m \in Modules, ActionFails(m) PROVE QueuesTypeOK'
  <2>0. /\ Advance(queue, {}, None, {m})
        /\ current[m] \in ActionIds /\ asRoot[m] \in MaybeAction
    BY <1>4 DEF ActionFails, QueuesTypeOK, MaybeAction
  <2>1. /\ queue' \in [Modules -> Seq(ActionIds)]
        /\ current' \in [Modules -> MaybeAction]
        /\ loopRoot' \in [Modules -> MaybeAction] /\ asRoot' \in [Modules -> MaybeAction]
        /\ step' \in [Modules -> {"run", "next"}]
    <3>1. /\ None \in MaybeAction /\ {} \in SUBSET Modules /\ {m} \in SUBSET Modules
          /\ queue \in [Modules -> Seq(ActionIds)] /\ \A k \in {} : queue[k] # <<>>
      BY DEF MaybeAction, QueuesTypeOK
    <3> QED BY <2>0, <3>1, AdvanceTyped
  <2>2. /\ noted' \in [ActionIds -> [ActionIds -> 0..MaxLinks]]
        /\ results' \in [ActionIds -> SUBSET ActionIds]
    BY <1>4, <2>0, ClearedTyped DEF ActionFails, QueuesTypeOK
  <2>3. awaited' \subseteq {k \in Modules : current'[k] # None}
    <3>1. \A k \in Modules : k # m => current'[k] = current[k]
      BY <2>0 DEF Advance
    <3>2. CASE queue[m] = <<>>
      BY <1>4, <3>1, <3>2 DEF ActionFails, Returns, QueuesTypeOK
    <3>3. CASE queue[m] # <<>>
      <4>1. current'[m] = Head(queue[m]) /\ Head(queue[m]) \in ActionIds
        BY <2>0, <3>3 DEF Advance, QueuesTypeOK
      <4> QED BY <1>0, <1>4, <3>1, <3>3, <4>1 DEF ActionFails, Returns, QueuesTypeOK
    <3> QED BY <3>2, <3>3
  <2> QED BY <1>4, <2>0, <2>1, <2>2, <2>3 DEF ActionFails, Forget, QueuesTypeOK, MaybeAction
<1>5. ASSUME NEW m \in Modules, FailUnlisted(m) PROVE QueuesTypeOK'
  BY <1>5, LoopThrowsTyped DEF FailUnlisted, QueuesTypeOK
<1>6. ASSUME NEW m \in Modules, Fault(m) PROVE QueuesTypeOK'
  <2>1. callFaults' \in 0..MaxCallFaults
    BY <1>0, <1>6 DEF Fault, QueuesTypeOK
  <2> QED BY <1>6, <2>1, LoopThrowsTyped DEF Fault
<1>7. ASSUME NEW m \in Modules, QueueNext(m) PROVE QueuesTypeOK'
  <2> DEFINE list == setup.chained[current[m]]
  <2>0. current[m] \in ActionIds /\ asRoot[m] \in MaybeAction /\ list \in Seq(ActionIds)
    BY <1>7, SetupTyped DEF QueueNext, QueuesTypeOK, MaybeAction
  <2>1. /\ NoteCause(list, asRoot[m], current[m])
        /\ noted' \in Cleared(Added(list, asRoot[m]), asRoot[m], current[m])
        /\ results' = KeptResults(noted', asRoot[m])
        /\ held' = (held \cup Fresh(list)) \ {current[m]}
        /\ setup' = setup /\ callFaults' = callFaults
    BY <1>7 DEF QueueNext
  <2>2. PICK q \in Enqueued(list) :
           Advance(q, Startable(q), asRoot[m], {m}) /\ Returns(m, q)
    BY <1>7 DEF QueueNext
  <2> HIDE DEF list
  <2>3. q \in [Modules -> Seq(ActionIds)]
    BY <2>0, EnqueuedWell
  <2>4. /\ Startable(q) \subseteq Modules
        /\ \A k \in Startable(q) : q[k] # <<>> /\ current[k] = None
    BY DEF Startable
  <2>5. /\ queue' \in [Modules -> Seq(ActionIds)]
        /\ current' \in [Modules -> MaybeAction]
        /\ loopRoot' \in [Modules -> MaybeAction] /\ asRoot' \in [Modules -> MaybeAction]
        /\ step' \in [Modules -> {"run", "next"}]
    <3>1. /\ Startable(q) \in SUBSET Modules /\ {m} \in SUBSET Modules
          /\ \A k \in Startable(q) : q[k] # <<>>
      BY <2>4
    <3>2. Advance(q, Startable(q), asRoot[m], {m})
      BY <2>2
    <3> QED BY <2>0, <2>3, <3>1, <3>2, AdvanceTyped
  <2>6. Added(list, asRoot[m]) \in [ActionIds -> [ActionIds -> 0..MaxLinks]]
    <3> DEFINE r == asRoot[m]
               New == [a \in ActionIds |-> IF a \in Fresh(list) /\ noted[r][a] < MaxLinks
                                         THEN noted[r][a] + 1 ELSE noted[r][a]]
    <3>1. Added(list, r) = [noted EXCEPT ![r] = New]
      BY DEF Added, QueuesTypeOK
    <3>2. noted \in [ActionIds -> [ActionIds -> 0..MaxLinks]]
      BY DEF QueuesTypeOK
    <3>3. r \in ActionIds => New \in [ActionIds -> 0..MaxLinks]
      BY <1>0, <3>2
    <3> HIDE DEF r, New
    <3> QED BY <3>1, <3>2, <3>3 DEF r
  <2>7. /\ noted' \in [ActionIds -> [ActionIds -> 0..MaxLinks]]
        /\ results' \in [ActionIds -> SUBSET ActionIds]
    BY <2>0, <2>1, <2>6, ClearedTyped
  <2>8. awaited' \subseteq {k \in Modules : current'[k] # None}
    <3>1. \A k \in awaited : k # m => current'[k] # None
      BY <2>2, <2>4 DEF Advance, QueuesTypeOK
    <3>2. CASE q[m] = <<>>
      BY <2>2, <3>1, <3>2 DEF Returns, QueuesTypeOK
    <3>3. CASE q[m] # <<>>
      <4>1. current'[m] = Head(q[m]) /\ Head(q[m]) \in ActionIds
        BY <2>2, <2>3, <3>3 DEF Advance
      <4> QED BY <1>0, <2>2, <3>1, <3>3, <4>1 DEF Returns, QueuesTypeOK
    <3> QED BY <3>2, <3>3
  <2>9. held' \subseteq ActionIds
    BY <2>0, <2>1 DEF Fresh, Elements, QueuesTypeOK
  <2>10. cause' \in [ActionIds -> MaybeAction]
    BY <2>0, <2>1 DEF NoteCause, QueuesTypeOK, MaybeAction
  <2> QED BY <2>1, <2>5, <2>7, <2>8, <2>9, <2>10 DEF QueuesTypeOK
<1> QED BY <1>1, <1>2, <1>3, <1>4, <1>5, <1>6, <1>7 DEF QueuesNext, Execute
-----------------------------------------------------------------------------
(* Where the actions are.                                                  *)

LEMMA PlacedIsWell ==
  ASSUME QueuesTypeOK, Placed
  PROVE  Well(queue) /\ queue \in [Modules -> Seq(ActionIds)]
  BY DEF Placed, Well, QueuesTypeOK

\* The loop ends with the execution that threw.
LEMMA LoopThrowsPlaced ==
  ASSUME QueuesTypeOK, Placed, Exact, NEW m \in Modules,
         current[m] # None, LoopThrows(m)
  PROVE  Placed' /\ Exact'
<1>0. None \notin ActionIds
  BY QueuesAssumption DEF QueuesAssumption
<1>1. /\ queue' = queue /\ setup' = setup /\ held' = held \ {current[m]}
      /\ \A k \in Modules : current'[k] = IF k = m THEN None ELSE current[k]
  BY DEF LoopThrows, QueuesTypeOK
<1>2. \A k \in Modules : \A i \in DOMAIN queue[k] : queue[k][i] \in ActionIds
  BY DEF QueuesTypeOK
<1>3. Placed'
  BY <1>0, <1>1, <1>2 DEF Placed
<1>4. ASSUME NEW a \in ActionIds
      PROVE  a \in held' <=> (Queued(a)' \/ InExecution(a)')
  <2>1. Queued(a)' <=> Queued(a)
    BY <1>1 DEF Queued
  <2>2. InExecution(a)' <=> \E k \in Modules : k # m /\ current[k] = a
    BY <1>0, <1>1 DEF InExecution
  <2>3. a \in held <=> (Queued(a) \/ InExecution(a))
    BY DEF Exact
  <2>4. CASE a = current[m]
    <3>1. ~Queued(a)
      <4> SUFFICES ASSUME NEW k \in Modules, NEW i \in DOMAIN queue[k], a = queue[k][i]
                   PROVE  FALSE
        BY DEF Queued, Elements
      <4>1. setup.moduleOf[queue[k][i]] = k /\ queue[k][i] # current[k]
        BY DEF Placed
      <4>2. setup.moduleOf[current[m]] = m
        BY DEF Placed
      <4>3. queue[k][i] = current[m]
        BY <2>4
      <4>4. k = m
        BY <4>1, <4>2, <4>3
      <4> QED BY <4>1, <4>3, <4>4
    <3>2. \A k \in Modules : current[k] = a => k = m
      BY <1>0, <2>4 DEF Placed
    <3> QED BY <1>1, <2>1, <2>2, <2>4, <3>1, <3>2
  <2>5. CASE a # current[m]
    <3>1. InExecution(a)' <=> InExecution(a)
      BY <2>2, <2>5 DEF InExecution
    <3> QED BY <1>1, <2>1, <2>3, <2>5, <3>1
  <2> QED BY <2>4, <2>5
<1>5. held' \subseteq ActionIds
  BY <1>1 DEF QueuesTypeOK
<1> QED BY <1>3, <1>4, <1>5 DEF Exact

\* A list is queued and loops advance.
LEMMA QueuedPlaced ==
  ASSUME QueuesTypeOK, Placed, Exact, setup' = setup,
         NEW F \in SUBSET ActionIds,
         NEW q \in [Modules -> Seq(ActionIds)], Well(q),
         \A m \in Modules : Elements(q[m]) = Elements(queue[m]) \cup Members(m, F),
         NEW S \in SUBSET Modules, NEW r, NEW done \in SUBSET Modules,
         \A m \in S : current[m] = None /\ q[m] # <<>>,
         \A m \in done : current[m] # None,
         Advance(q, S, r, done), held' = (held \cup F) \ {current[m] : m \in done}
  PROVE  Placed' /\ Exact'
<1>1. /\ Placed'
      /\ \A a \in ActionIds :
           (Queued(a)' \/ InExecution(a)')
             <=> /\ \E m \in Modules : a \in Elements(q[m]) \/ current[m] = a
                 /\ \A m \in done : a # current[m]
  <2>1. Carries(q, S, r, done)
    BY DEF Carries
  <2> QED BY <2>1, AdvanceWell
<1>2. ASSUME NEW a \in ActionIds
      PROVE  (\E m \in Modules : a \in Elements(q[m]) \/ current[m] = a)
               <=> a \in held \cup F
  <2>1. setup.moduleOf[a] \in Modules
    BY SetupTyped
  <2>2. a \in F <=> \E m \in Modules : a \in Members(m, F)
    BY <2>1 DEF Members
  <2>3. a \in held <=> \E m \in Modules : a \in Elements(queue[m]) \/ current[m] = a
    BY DEF Exact, Queued, InExecution
  <2> QED BY <2>2, <2>3
<1>3. \A a \in ActionIds : a \in held' <=> (Queued(a)' \/ InExecution(a)')
  BY <1>1, <1>2
<1>4. held' \subseteq ActionIds
  BY DEF QueuesTypeOK
<1> QED BY <1>1, <1>3, <1>4 DEF Exact

\* What Pass, ActionFails and QueueNext do to the queues and the loops.
Moves(F, q, r, done) ==
    /\ Advance(q, Startable(q), r, done)
    /\ held' = (held \cup F) \ {current[m] : m \in done}
    /\ \A a \in ActionIds :
         cause'[a] = IF a \in F THEN r
                     ELSE IF \E m \in done : a = current[m] THEN None ELSE cause[a]
    /\ setup' = setup

Joins(F, q) ==
    /\ F \subseteq ActionIds /\ F \cap held = {}
    /\ q \in [Modules -> Seq(ActionIds)] /\ Well(q)
    /\ \A m \in Modules : Elements(q[m]) = Elements(queue[m]) \cup Members(m, F)

LEMMA EnqueuedJoins ==
  ASSUME QueuesTypeOK, Placed, Exact, NEW list \in Seq(ActionIds),
         NEW q \in Enqueued(list)
  PROVE  Joins(Fresh(list), q)
<1>1. Fresh(list) \subseteq ActionIds /\ Fresh(list) \cap held = {}
  BY DEF Fresh, Elements
<1>2. /\ q \in [Modules -> Seq(ActionIds)] /\ Well(q)
      /\ \A m \in Modules : Elements(q[m]) = Elements(queue[m]) \cup Members(m, Fresh(list))
  BY EnqueuedWell
<1> QED BY <1>1, <1>2 DEF Joins

LEMMA PassMoves ==
  ASSUME QueuesTypeOK, Placed, Exact, Pass
  PROVE  \E F, q : Joins(F, q) /\ Moves(F, q, None, {})
<1>a. PICK Z \in SUBSET setup.scheduled : \E list \in Orderings(Z) :
         /\ \E q \in Enqueued(list) : Advance(q, Startable(q), None, {})
         /\ NoteCause(list, None, None) /\ held' = held \cup Fresh(list)
  BY DEF Pass
<1>b. PICK list \in Orderings(Z) :
         /\ \E q \in Enqueued(list) : Advance(q, Startable(q), None, {})
         /\ NoteCause(list, None, None) /\ held' = held \cup Fresh(list)
  BY <1>a
<1>1. PICK q \in Enqueued(list) : Advance(q, Startable(q), None, {})
  BY <1>b
<1>2. list \in Seq(ActionIds)
  BY OrderingTyped, SetupTyped
<1>3. Joins(Fresh(list), q)
  BY <1>2, EnqueuedJoins
<1>4. held' = (held \cup Fresh(list)) \ {current[m] : m \in {}}
  BY <1>b
<1>5. \A a \in ActionIds : cause'[a] = IF a \in Fresh(list) THEN None
                                     ELSE IF \E m \in {} : a = current[m] THEN None ELSE cause[a]
  BY <1>b, QueuesAssumption DEF NoteCause, QueuesAssumption
<1>6. setup' = setup
  BY DEF Pass
<1> QED BY <1>1, <1>3, <1>4, <1>5, <1>6 DEF Moves

LEMMA FailMoves ==
  ASSUME QueuesTypeOK, Placed, Exact, NEW m \in Modules,
         ActionFails(m),
         \A k \in Modules : current[k] = None => queue[k] = <<>>
  PROVE  Joins({}, queue) /\ Moves({}, queue, None, {m})
<1>1. Joins({}, queue)
  BY PlacedIsWell DEF Joins, Members
<1>2. Startable(queue) = {}
  BY DEF Startable
<1>3. \A a \in ActionIds : cause'[a] = IF \E k \in {m} : a = current[k] THEN None ELSE cause[a]
  BY DEF ActionFails, Forget, QueuesTypeOK
<1>4. held' = (held \cup {}) \ {current[k] : k \in {m}}
  BY DEF ActionFails
<1> QED BY <1>1, <1>2, <1>3, <1>4 DEF Moves, ActionFails

LEMMA QueueNextMoves ==
  ASSUME QueuesTypeOK, Placed, Exact, NEW m \in Modules,
         QueueNext(m)
  PROVE  \E q : LET F == Fresh(setup.chained[current[m]])
                IN  Joins(F, q) /\ Moves(F, q, asRoot[m], {m})
<1> DEFINE list == setup.chained[current[m]]
<1>1. list \in Seq(ActionIds)
  BY SetupTyped DEF QueueNext, QueuesTypeOK, MaybeAction
<1>2. /\ NoteCause(list, asRoot[m], current[m]) /\ setup' = setup
      /\ held' = (held \cup Fresh(list)) \ {current[m]}
      /\ \E q \in Enqueued(list) : Advance(q, Startable(q), asRoot[m], {m})
  BY DEF QueueNext
<1> HIDE DEF list
<1>3. PICK q \in Enqueued(list) : Advance(q, Startable(q), asRoot[m], {m})
  BY <1>2
<1>4. Joins(Fresh(list), q)
  BY <1>1, EnqueuedJoins
<1>5. \A a \in ActionIds : cause'[a] = IF a \in Fresh(list) THEN asRoot[m]
                                     ELSE IF \E k \in {m} : a = current[k] THEN None ELSE cause[a]
  BY <1>2 DEF NoteCause
<1>6. held' = (held \cup Fresh(list)) \ {current[k] : k \in {m}}
  BY <1>2
<1>7. Moves(Fresh(list), q, asRoot[m], {m})
  BY <1>2, <1>3, <1>5, <1>6 DEF Moves
<1> QED BY <1>4, <1>7 DEF list

LEMMA MovesPlaced ==
  ASSUME QueuesTypeOK, Placed, Exact, NEW F, NEW q, NEW r,
         NEW done \in SUBSET Modules,
         \A m \in done : current[m] # None, Joins(F, q), Moves(F, q, r, done)
  PROVE  Placed' /\ Exact'
<1>1. /\ Startable(q) \in SUBSET Modules
      /\ \A m \in Startable(q) : current[m] = None /\ q[m] # <<>>
  BY DEF Startable
<1> QED BY <1>1, QueuedPlaced DEF Joins, Moves

LEMMA NextPlaced ==
  ASSUME QueuesTypeOK, Placed, Exact, [QueuesNext]_queuesVars
  PROVE  Placed' /\ Exact'
<1>1. CASE UNCHANGED queuesVars
  BY <1>1 DEF queuesVars, loopVars, Placed, Exact, Queued, InExecution
<1>2. CASE Pass
  <2>1. PICK F, q : Joins(F, q) /\ Moves(F, q, None, {})
    BY <1>2, PassMoves
  <2> QED BY <2>1, MovesPlaced
<1>3. ASSUME NEW m \in Modules, Succeed(m) PROVE Placed' /\ Exact'
  BY <1>3 DEF Succeed, Placed, Exact, Queued, InExecution
<1>4. ASSUME NEW m \in Modules, ActionFails(m) PROVE Placed' /\ Exact'
  <2> DEFINE F == {}  S == {}  D == {m}
  <2>1. Well(queue) /\ queue \in [Modules -> Seq(ActionIds)]
    BY PlacedIsWell
  <2>2. \A k \in Modules : Elements(queue[k]) = Elements(queue[k]) \cup Members(k, F)
    BY DEF Members
  <2>3. /\ Advance(queue, S, None, D) /\ setup' = setup
        /\ held' = (held \cup F) \ {current[k] : k \in D}
    BY <1>4 DEF ActionFails
  <2>4. F \in SUBSET ActionIds /\ S \in SUBSET Modules /\ D \in SUBSET Modules
    OBVIOUS
  <2>5. \A k \in S : current[k] = None /\ queue[k] # <<>>
    OBVIOUS
  <2>6. \A k \in D : current[k] # None
    BY <1>4 DEF ActionFails
  <2> HIDE DEF F, S, D
  <2> QED BY <2>1, <2>2, <2>3, <2>4, <2>5, <2>6, QueuedPlaced
<1>5. ASSUME NEW m \in Modules,
             FailUnlisted(m) \/ Fault(m) PROVE Placed' /\ Exact'
  BY <1>5, LoopThrowsPlaced DEF FailUnlisted, Fault
<1>6. ASSUME NEW m \in Modules, QueueNext(m) PROVE Placed' /\ Exact'
  <2> DEFINE F == Fresh(setup.chained[current[m]])
  <2>1. PICK q : Joins(F, q) /\ Moves(F, q, asRoot[m], {m})
    BY <1>6, QueueNextMoves
  <2>2. {m} \in SUBSET Modules /\ \A k \in {m} : current[k] # None
    BY <1>6 DEF QueueNext
  <2> HIDE DEF F
  <2> QED BY <2>1, <2>2, MovesPlaced
<1> QED BY <1>1, <1>2, <1>3, <1>4, <1>5, <1>6 DEF QueuesNext, Execute
-----------------------------------------------------------------------------
(* The roots.                                                              *)

LEMMA ApartAlone ==
  ASSUME Apart, NEW a \in ActionIds, NEW c \in ActionIds,
         IsChained(a) \/ IsChained(c), a # c
  PROVE  setup.moduleOf[a] # setup.moduleOf[c]
  BY DEF Apart

\* Nothing waits in the module of a chained action that executes.
LEMMA NothingBehind ==
  ASSUME QueuesTypeOK, Placed, Apart, NEW m \in Modules,
         current[m] # None,
         IsChained(current[m])
  PROVE  queue[m] = <<>>
<1> SUFFICES ASSUME queue[m] # <<>> PROVE FALSE
  OBVIOUS
<1>1. queue[m] \in Seq(ActionIds)
  BY DEF QueuesTypeOK
<1>2. 1 \in DOMAIN queue[m] /\ queue[m][1] \in ActionIds
  BY <1>1
<1>3. setup.moduleOf[queue[m][1]] = m /\ queue[m][1] # current[m]
  BY <1>2 DEF Placed
<1>4. setup.moduleOf[current[m]] = m /\ current[m] \in ActionIds
  BY DEF Placed, QueuesTypeOK, MaybeAction
<1> QED BY <1>2, <1>3, <1>4, ApartAlone

LEMMA LoopThrowsRooted ==
  ASSUME QueuesTypeOK, Placed, Exact, Apart, Rooted,
         NEW m \in Modules, FailUnlisted(m)
  PROVE  Rooted'
<1>0. None \notin ActionIds
  BY QueuesAssumption DEF QueuesAssumption
<1>1. /\ current[m] # None /\ step[m] = "run" /\ asRoot[m] # None /\ LoopThrows(m)
  BY DEF FailUnlisted, Unlisted
<1>2. current[m] \in ActionIds /\ cause[current[m]] # None
  BY <1>1 DEF Rooted, QueuesTypeOK, MaybeAction
<1>3. queue[m] = <<>>
  BY <1>1, <1>2, NothingBehind DEF Rooted
<1>4. /\ \A k \in Modules : current'[k] = IF k = m THEN None ELSE current[k]
      /\ \A k \in Modules : k # m => loopRoot'[k] = loopRoot[k] /\ asRoot'[k] = asRoot[k]
                                      /\ step'[k] = step[k]
      /\ queue' = queue /\ setup' = setup
      /\ \A a \in ActionIds : cause'[a] = IF a = current[m] THEN None ELSE cause[a]
  BY <1>1 DEF LoopThrows, Forget, QueuesTypeOK
<1>5. \A a \in ActionIds : cause'[a] # None => IsChained(a)'
  BY <1>4 DEF Rooted, IsChained
<1>6. ASSUME NEW k \in Modules, k # m, current[k] # None PROVE current[k] # current[m]
  BY <1>1, <1>6 DEF Placed
<1>7. ASSUME NEW k \in Modules, current'[k] = None PROVE queue'[k] = <<>>
  BY <1>3, <1>4, <1>7 DEF Rooted
<1>8. ASSUME NEW k \in Modules, current'[k] # None
      PROVE  /\ loopRoot'[k] = cause'[current'[k]]
             /\ step'[k] = "run" => asRoot'[k] = loopRoot'[k]
  <2>1. k # m /\ current'[k] = current[k] /\ current[k] \in ActionIds
    BY <1>4, <1>8 DEF QueuesTypeOK, MaybeAction
  <2>2. cause'[current[k]] = cause[current[k]]
    BY <1>4, <1>6, <1>8, <2>1
  <2>3. loopRoot'[k] = loopRoot[k] /\ asRoot'[k] = asRoot[k] /\ step'[k] = step[k]
    BY <1>4, <2>1
  <2> QED BY <1>8, <2>1, <2>2, <2>3 DEF Rooted
<1> QED BY <1>5, <1>7, <1>8 DEF Rooted

LEMMA MovesRooted ==
  ASSUME QueuesTypeOK, Placed, Exact, Apart, Rooted,
         NEW F, NEW q, NEW r, NEW done \in SUBSET Modules, \A m \in done : current[m] # None,
         r # None => \A a \in F : IsChained(a), Joins(F, q), Moves(F, q, r, done)
  PROVE  Rooted'
<1>0. None \notin ActionIds
  BY QueuesAssumption DEF QueuesAssumption
<1>1. /\ F \subseteq ActionIds /\ F \cap held = {}
      /\ q \in [Modules -> Seq(ActionIds)]
      /\ \A m \in Modules : Elements(q[m]) = Elements(queue[m]) \cup Members(m, F)
      /\ \A m \in Modules : \A i \in DOMAIN q[m] :
            setup.moduleOf[q[m][i]] = m /\ q[m][i] # current[m]
  BY DEF Joins, Well
<1>2. /\ Advance(q, Startable(q), r, done) /\ setup' = setup
      /\ \A a \in ActionIds :
           cause'[a] = IF a \in F THEN r
                       ELSE IF \E m \in done : a = current[m] THEN None ELSE cause[a]
  BY DEF Moves
<1>3. ASSUME NEW a \in ActionIds, cause'[a] # None PROVE IsChained(a)
  BY <1>2, <1>3 DEF Rooted
<1>4. \A a \in ActionIds : cause'[a] # None => IsChained(a)'
  <2>1. \A a \in ActionIds : IsChained(a)' <=> IsChained(a)
    BY <1>2 DEF IsChained
  <2> QED BY <1>3, <2>1
<1> DEFINE T == Startable(q) \cup {m \in done : q[m] # <<>>}
<1>5. /\ \A m \in T : /\ current'[m] = Head(q[m]) /\ asRoot'[m] = loopRoot'[m]
      /\ \A m \in done \ T : queue'[m] = q[m] /\ current'[m] = None
      /\ \A m \in Modules : m \notin T /\ m \notin done =>
           /\ queue'[m] = q[m] /\ current'[m] = current[m]
           /\ asRoot'[m] = asRoot[m] /\ step'[m] = step[m]
      /\ loopRoot' = LoopRoots(Startable(q), r, done \ T)
  BY <1>2 DEF Advance, Startable
<1>6. /\ \A m \in T : m \in Modules /\ q[m] # <<>>
      /\ \A m \in Modules : m \in Startable(q) <=> current[m] = None /\ q[m] # <<>>
      /\ \A m \in T : m \in Startable(q) \/ m \in done
      /\ \A m \in done : m \in T <=> q[m] # <<>>
      /\ \A m \in Startable(q) : m \in T
  BY DEF Startable
<1>7. /\ \A m \in Startable(q) : loopRoot'[m] = r
      /\ \A m \in Modules : m \notin Startable(q) /\ (m \in T \/ m \notin done)
            => loopRoot'[m] = loopRoot[m]
  BY <1>5, <1>6 DEF LoopRoots
<1> HIDE DEF T
<1>8. ASSUME NEW m \in T
      PROVE  Head(q[m]) \in ActionIds /\ Head(q[m]) \in Elements(q[m])
             /\ setup.moduleOf[Head(q[m])] = m /\ Head(q[m]) # current[m]
  <2>1. q[m] \in Seq(ActionIds) /\ q[m] # <<>>
    BY <1>1, <1>6
  <2>2. Head(q[m]) = q[m][1] /\ 1 \in DOMAIN q[m] /\ Head(q[m]) \in ActionIds
    BY <2>1
  <2> QED BY <1>1, <1>6, <2>2 DEF Elements
<1>9. ASSUME NEW m \in Modules, current'[m] = None PROVE queue'[m] = <<>>
  <2>1. m \notin T
    BY <1>0, <1>5, <1>8, <1>9
  <2>2. queue'[m] = q[m]
    BY <1>5, <2>1
  <2>3. CASE m \in done
    BY <1>6, <2>1, <2>2, <2>3
  <2>4. CASE m \notin done
    <3>1. current[m] = None
      BY <1>5, <1>9, <2>1, <2>4
    <3> QED BY <1>6, <2>1, <2>2, <3>1
  <2> QED BY <2>3, <2>4
<1>10. ASSUME NEW m \in Modules, current'[m] # None
       PROVE  /\ loopRoot'[m] = cause'[current'[m]]
              /\ step'[m] = "run" => asRoot'[m] = loopRoot'[m]
  <2>1. CASE m \in T /\ m \in Startable(q)
    <3>1. queue[m] = <<>>
      BY <1>6, <2>1 DEF Rooted
    <3>2. Elements(queue[m]) = {}
      BY <3>1 DEF Elements
    <3>3. Head(q[m]) \in F
      BY <1>1, <1>8, <2>1, <3>2 DEF Members
    <3>4. cause'[Head(q[m])] = r
      BY <1>2, <1>8, <2>1, <3>3
    <3> QED BY <1>5, <1>7, <2>1, <3>4
  <2>2. CASE m \in T /\ m \notin Startable(q)
    <3> DEFINE a == Head(q[m])
               c == current[m]
    <3>1. m \in done /\ c \in ActionIds /\ c # None
      BY <1>6, <2>2 DEF QueuesTypeOK, MaybeAction
    <3>2. a \in ActionIds /\ setup.moduleOf[a] = m /\ a # c
      BY <1>8, <2>2
    <3>3. setup.moduleOf[c] = m
      BY <3>1 DEF Placed
    <3>4. ~IsChained(a) /\ ~IsChained(c)
      BY <3>1, <3>2, <3>3, ApartAlone
    <3>5. cause'[a] = None
      BY <1>3, <3>2, <3>4
    <3>6. loopRoot[m] = None
      BY <3>1, <3>4 DEF Rooted
    <3>7. loopRoot'[m] = None
      BY <1>7, <2>2, <3>6
    <3> QED BY <1>5, <2>2, <3>5, <3>7
  <2>3. CASE m \notin T
    <3>1. m \notin done
      BY <1>5, <1>10, <2>3
    <3>2. /\ current'[m] = current[m] /\ current[m] # None /\ current[m] \in ActionIds
          /\ asRoot'[m] = asRoot[m] /\ step'[m] = step[m]
      BY <1>5, <1>10, <2>3, <3>1 DEF QueuesTypeOK, MaybeAction
    <3>3. loopRoot'[m] = loopRoot[m]
      BY <1>6, <1>7, <2>3, <3>1
    <3>4. current[m] \notin F
      BY <1>1, <3>2 DEF Exact, InExecution
    <3>5. ASSUME NEW k \in done, current[m] = current[k] PROVE FALSE
      <4>1. setup.moduleOf[current[k]] = k /\ setup.moduleOf[current[m]] = m
        BY <3>2, <3>5 DEF Placed
      <4> QED BY <3>1, <3>5, <4>1
    <3>6. cause'[current[m]] = cause[current[m]]
      BY <1>2, <3>2, <3>4, <3>5
    <3> QED BY <3>2, <3>3, <3>6 DEF Rooted
  <2> QED BY <2>1, <2>2, <2>3
<1> QED BY <1>4, <1>9, <1>10 DEF Rooted

LEMMA NextRooted ==
  ASSUME QueuesTypeOK, Placed, Exact,
         (Apart /\ callFaults = 0) => Rooted, [QueuesNext]_queuesVars
  PROVE  (Apart' /\ callFaults' = 0) => Rooted'
<1>0. setup' = setup
  BY DEF QueuesNext, Pass, Execute, Succeed, ActionFails, FailUnlisted,
         QueueNext, Fault, LoopThrows, queuesVars
<1>1. Apart' <=> Apart
  BY <1>0 DEF Apart, IsChained
<1>2. callFaults \in Nat
  BY QueuesAssumption DEF QueuesAssumption, QueuesTypeOK
<1> SUFFICES ASSUME Apart, callFaults' = 0 PROVE Rooted'
  BY <1>1
<1>3. callFaults' = callFaults \/ callFaults' = callFaults + 1
  BY DEF QueuesNext, Pass, Execute, Succeed, ActionFails, FailUnlisted,
         QueueNext, Fault, queuesVars
<1>4. callFaults = 0 /\ callFaults' # callFaults + 1
  BY <1>2, <1>3
<1>5. Rooted
  BY <1>4
<1>6. CASE UNCHANGED queuesVars
  BY <1>5, <1>6 DEF queuesVars, loopVars, Rooted, IsChained
<1>7. CASE Pass
  <2>1. PICK F, q : Joins(F, q) /\ Moves(F, q, None, {})
    BY <1>7, PassMoves
  <2> QED BY <1>5, <2>1, MovesRooted
<1>8. ASSUME NEW m \in Modules, Succeed(m) PROVE Rooted'
  <2>1. /\ current' = current /\ loopRoot' = loopRoot /\ cause' = cause /\ queue' = queue
        /\ step'[m] = "next"
        /\ \A k \in Modules : k # m => asRoot'[k] = asRoot[k] /\ step'[k] = step[k]
    BY <1>8 DEF Succeed, QueuesTypeOK
  <2>2. \A a \in ActionIds : cause'[a] # None => IsChained(a)'
    BY <1>0, <1>5, <2>1 DEF Rooted, IsChained
  <2> QED BY <1>5, <2>1, <2>2 DEF Rooted
<1>9. ASSUME NEW m \in Modules, ActionFails(m) PROVE Rooted'
  <2> DEFINE F == {}  D == {m}
  <2>1. Joins(F, queue) /\ Moves(F, queue, None, D)
    BY <1>5, <1>9, FailMoves DEF Rooted
  <2>2. D \in SUBSET Modules /\ \A k \in D : current[k] # None
    BY <1>9 DEF ActionFails
  <2> HIDE DEF F, D
  <2> QED BY <1>5, <2>1, <2>2, MovesRooted
<1>10. ASSUME NEW m \in Modules, FailUnlisted(m) PROVE Rooted'
  BY <1>5, <1>10, LoopThrowsRooted
<1>11. ASSUME NEW m \in Modules, Fault(m) PROVE Rooted'
  BY <1>4, <1>11 DEF Fault
<1>12. ASSUME NEW m \in Modules, QueueNext(m) PROVE Rooted'
  <2> DEFINE F == Fresh(setup.chained[current[m]])  D == {m}
  <2>1. PICK q : Joins(F, q) /\ Moves(F, q, asRoot[m], D)
    BY <1>12, QueueNextMoves
  <2>2. D \in SUBSET Modules /\ \A k \in D : current[k] # None
    BY <1>12 DEF QueueNext
  <2>3. current[m] \in ActionIds
    BY <1>12 DEF QueueNext, QueuesTypeOK, MaybeAction
  <2>4. \A a \in F : IsChained(a)
    BY <2>3 DEF Fresh, IsChained
  <2> HIDE DEF F, D
  <2> QED BY <1>5, <2>1, <2>2, <2>4, MovesRooted
<1> QED BY <1>6, <1>7, <1>8, <1>9, <1>10, <1>11, <1>12 DEF QueuesNext, Execute

-----------------------------------------------------------------------------
(* Theorems about the queues.                                              *)

LEMMA CronInit ==
  ASSUME QueuesInit
  PROVE  QueuesInv
<1>1. None \notin ActionIds /\ MaxLinks \in Nat /\ MaxCallFaults \in Nat
  BY QueuesAssumption DEF QueuesAssumption
<1>2. noted \in [ActionIds -> [ActionIds -> 0..MaxLinks]] /\ callFaults \in 0..MaxCallFaults
  BY <1>1 DEF QueuesInit, Nobody
<1>3. QueuesTypeOK
  BY <1>2 DEF QueuesInit, QueuesTypeOK, MaybeAction
<1>4. \A m \in Modules : queue[m] = <<>> /\ current[m] = None
  BY DEF QueuesInit
<1>5. \A m \in Modules : DOMAIN queue[m] = {}
  BY <1>4
<1>6. Placed
  BY <1>4, <1>5 DEF Placed
<1>7. Exact
  BY <1>1, <1>4, <1>5 DEF Exact, Queued, InExecution, Elements, QueuesInit
<1>8. Rooted
  BY <1>4 DEF Rooted, QueuesInit
<1> QED BY <1>3, <1>6, <1>7, <1>8 DEF QueuesInv

\* However passes, chains, failures and throwing loops interleave: an action waits
\* in the queue of its module only, once, and not while it executes; the ids held
\* are those of the actions that wait or execute; and, where modules are apart
\* and no call failed, every loop has the root of what it executes.
THEOREM CronInvariance == QueuesSpec => []QueuesInv
<1>1. QueuesInit => QueuesInv
  BY CronInit
<1>2. QueuesInv /\ [QueuesNext]_queuesVars => QueuesInv'
  BY CronTyped, NextPlaced, NextRooted DEF QueuesInv
<1> QED BY <1>1, <1>2, PTL DEF QueuesSpec

\* The queues, the loops, the lists and the results of the roots keep their types.
THEOREM CronTypeCorrect == QueuesSpec => []QueuesTypeOK
<1>1. QueuesInv => QueuesTypeOK
  BY DEF QueuesInv
<1> QED BY <1>1, CronInvariance, PTL

LEMMA LengthIsCount ==
  ASSUME NEW s \in Seq(ActionIds), \A i, j \in DOMAIN s : s[i] = s[j] => i = j
  PROVE  Cardinality(Elements(s)) = Len(s)
<1>1. Len(s) \in Nat /\ DOMAIN s = 1..Len(s)
  OBVIOUS
<1>2. s \in Bijection(1..Len(s), Elements(s))
  <2> DEFINE E == Elements(s)
  <2>1. s \in [1..Len(s) -> E]
    BY <1>1 DEF Elements
  <2>2. \A e \in E : \E i \in 1..Len(s) : s[i] = e
    BY <1>1 DEF Elements
  <2> HIDE DEF E
  <2>3. \A i, j \in 1..Len(s) : s[i] = s[j] => i = j
    BY <1>1
  <2>4. s \in Injection(1..Len(s), E)
    BY <2>1, <2>3 DEF Injection, IsInjective
  <2>5. s \in Surjection(1..Len(s), E)
    BY <2>1, <2>2 DEF Surjection
  <2> QED BY <2>4, <2>5 DEF Bijection, E
<1>3. ExistsBijection(1..Len(s), Elements(s))
  BY <1>2 DEF ExistsBijection
<1> QED BY <1>1, <1>3, FS_CountingElements

\* actionIdsInQueueOrProcess is exact: no id is left behind, which would keep its
\* action from ever running again, and none is lost, which would let it run twice
\* at once, also when executions throw or a list names an action twice.
THEOREM CronHeld == QueuesSpec => []HeldExact
<1>1. QueuesInv => HeldExact
  <2> SUFFICES ASSUME QueuesInv PROVE HeldExact
    OBVIOUS
  <2>1. ASSUME NEW a \in ActionIds, Queued(a), InExecution(a) PROVE FALSE
    <3>1. PICK m \in Modules : \E i \in DOMAIN queue[m] : a = queue[m][i]
      BY <2>1 DEF Queued, Elements
    <3>2. PICK k \in Modules : current[k] = a
      BY <2>1 DEF InExecution
    <3>3. k = m
      BY <3>1, <3>2, QueuesAssumption DEF QueuesInv, Placed, QueuesAssumption
    <3> QED BY <3>1, <3>2, <3>3 DEF QueuesInv, Placed
  <2>2. \A m \in Modules : Cardinality(Elements(queue[m])) = Len(queue[m])
    BY LengthIsCount DEF QueuesInv, QueuesTypeOK, Placed
  <2> QED BY <2>1, <2>2 DEF HeldExact, QueuesInv, Exact
<1> QED BY <1>1, CronInvariance, PTL

\* Where a chained action shares its module with no other, every execution has the
\* root its action was queued under: a chain's results reach its actions, and an
\* action that is scheduled too is not taken into a chain, nor out of one.
THEOREM CronRoots == QueuesSpec => []ApartKeepsRoot
<1>1. QueuesInv => ApartKeepsRoot
  BY DEF QueuesInv, ApartKeepsRoot, Rooted, ChainKeepsRoot
<1> QED BY <1>1, CronInvariance, PTL
=============================================================================
