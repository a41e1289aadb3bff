--------------------------- MODULE TreasuryProofs ---------------------------
(***************************************************************************)
(* The collection worker, for any number of processes and jobs, any        *)
(* amounts and fees, and any number of failures and repricings.            *)
(***************************************************************************)
EXTENDS Treasury, FiniteSetTheorems, WellFoundedInduction, TLAPS

PcTypes == {"idle", "enqueue", "pending", "receipt", "broadcast", "terminal",
            "pick", "job", "send", "advance", "finish", "release"}

LEMMA Parameters ==
    /\ Jobs \subseteq Nat \ {0} /\ Tokens \subseteq Jobs
    /\ \A j \in Jobs : Amount[j] \in Nat \ {0} /\ Refill[j] \in Nat \ {0}
    /\ None \notin Nodes /\ None \notin Jobs
    /\ Low \in Nat /\ Float \subseteq Nat /\ Fees \subseteq Nat \ {0}
    /\ MaxReprices \in Nat /\ MaxFaults \in Nat
  BY TreasuryAssumption DEF TreasuryAssumption

\* Whoever does something is alone.
LEMMA Alone ==
  ASSUME IInv, NEW n \in Nodes, pc[n] # "idle" \/ holder = None
  PROVE  \A m \in Nodes : m # n => pc[m] = "idle" /\ ~recover[m]
<1>1. \A m \in Nodes : m # n => pc[m] = "idle"
  BY Parameters DEF IInv, LockInv
<1> QED BY <1>1 DEF IInv, HandInv

LEMMA UnconfirmedIs ==
  ASSUME NEW j \in Jobs, NEW s \in Steps
  PROVE  /\ <<j, s>> \in Unconfirmed <=> status[j][s] \in {"prepared", "broadcast"}
         /\ <<j, s>> \in Unconfirmed' <=> status'[j][s] \in {"prepared", "broadcast"}
BY DEF Unconfirmed

LEMMA InitIInv == Init => IInv
<1> SUFFICES ASSUME Init PROVE IInv
  OBVIOUS
<1>1. TypeOK
  BY Parameters DEF Init, TypeOK, Steps, Gas, FromDeposit, NoCap, Open
<1>2. Unconfirmed = {}
  BY DEF Init, Unconfirmed
<1>3. LockInv /\ JournalInv /\ OneUnconfirmed /\ Covered
  BY <1>2 DEF Init, LockInv, JournalInv, OneUnconfirmed, Covered
<1>4. ASSUME NEW n \in Nodes PROVE HandInv(n) /\ RequestInv(n)
  BY DEF Init, HandInv, RequestInv
<1>5. ASSUME NEW j \in Jobs PROVE PlanInv(j)
  BY Parameters DEF Init, PlanInv, FromDeposit, Steps
<1>6. OwnReceipts
  BY Parameters DEF Init, OwnReceipts, Takes, FromDeposit, Steps
<1>7. DoneIsPaid
  BY DEF Init, DoneIsPaid
<1> QED BY <1>1, <1>3, <1>4, <1>5, <1>6, <1>7 DEF IInv

-----------------------------------------------------------------------------
(* Types. *)

RunTypes ==
    /\ holder \in Nodes \cup {None} /\ pc \in [Nodes -> PcTypes]
    /\ at \in [Nodes -> Jobs \cup {None}] /\ step \in [Nodes -> Steps \cup {None}]
    /\ recover \in [Nodes -> BOOLEAN]
    /\ cap \in [Nodes -> Nat \cup {NoCap}] /\ request \in [Nodes -> Nat]

JobTypes ==
    /\ state \in [Jobs -> Open \cup {"absent", "done", "action_required"}]
    /\ reserve \in [Jobs -> Nat] /\ remainder \in [Jobs -> Nat]
    /\ delayed \in [Jobs -> 0..2] /\ error \in [Jobs -> BOOLEAN]

TxTypes ==
    /\ status \in [Jobs -> [Steps -> {"none", "prepared", "broadcast", "confirmed", "failed"}]]
    /\ value \in [Jobs -> [Steps -> Nat]] /\ cost \in [Jobs -> [Steps -> Nat]]
    /\ funded \in [Jobs -> [FromDeposit -> Nat]]

ChainTypes ==
    /\ chain \in [Jobs -> [Steps -> {"unseen", "known", "ok", "reverted"}]]
    /\ deposit \in Nat /\ service \in Nat
    /\ tokens \in Int /\ stock \in Int /\ allowance \in Int

EnvTypes == paid \in SUBSET Jobs /\ fee \in Fees /\ reprices \in 0..MaxReprices

LEMMA Types ==
    /\ TypeOK => /\ RunTypes /\ JobTypes /\ TxTypes /\ ChainTypes /\ EnvTypes
                 /\ faults \in 0..MaxFaults
    /\ /\ RunTypes' /\ JobTypes' /\ TxTypes' /\ ChainTypes' /\ EnvTypes'
       /\ (faults \in 0..MaxFaults)'
       => TypeOK'
  BY DEF TypeOK, RunTypes, JobTypes, TxTypes, ChainTypes, EnvTypes, PcTypes

LEMMA EndedTypes ==
  ASSUME RunTypes, NEW n \in Nodes, Ended(n)
  PROVE  RunTypes'
  BY DEF RunTypes, Ended, Goto, PcTypes, NoCap

LEMMA GotoTypes ==
  ASSUME RunTypes, NEW n \in Nodes, NEW l \in PcTypes, Goto(n, l),
         UNCHANGED <<holder, at, step, recover, cap, request>>
  PROVE  RunTypes'
  BY DEF RunTypes, Goto

LEMMA SendsTypes ==
  ASSUME RunTypes, NEW n \in Nodes, NEW s \in Steps, NEW v \in Nat, NEW c \in Nat \cup {NoCap},
         Sends(n, s, v, c)
  PROVE  RunTypes' /\ UNCHANGED <<jobVars, txVars, chainVars, envVars, faults>>
  BY DEF RunTypes, Sends, Goto, PcTypes

\* The job a run works on.
LEMMA AtIs ==
  ASSUME IInv, NEW n \in Nodes,
         pc[n] \in {"job", "send", "receipt", "broadcast", "terminal", "advance", "finish"}
  PROVE  at[n] \in Jobs /\ (pc[n] \in {"send", "receipt", "broadcast", "advance"} => step[n] \in Steps)
  BY DEF IInv, HandInv

LEMMA ThrowsTypes ==
  ASSUME IInv, NEW n \in Nodes, at[n] \in Jobs, Throws(n)
  PROVE  RunTypes' /\ JobTypes' /\ TxTypes' /\ ChainTypes' /\ EnvTypes'
<1>1. RunTypes /\ JobTypes /\ TxTypes /\ ChainTypes /\ EnvTypes
  BY Types DEF IInv
<1>2. RunTypes'
  BY <1>1, EndedTypes DEF Throws
<1>3. JobTypes'
  BY <1>1 DEF Throws, JobTypes
<1> QED
  BY <1>1, <1>2, <1>3 DEF Throws, TxTypes, ChainTypes, EnvTypes, txVars, chainVars, envVars
\* A transaction the network knows is unconfirmed, and its sender can pay it.
LEMMA KnownIs ==
  ASSUME IInv, NEW j \in Jobs, NEW s \in Steps, chain[j][s] = "known"
  PROVE  /\ status[j][s] \in {"prepared", "broadcast"} /\ <<j, s>> \in Unconfirmed
         /\ Balance(s) >= cost[j][s] + (IF s \in Gas \/ (s \in FromDeposit /\ j \notin Tokens)
                                        THEN value[j][s] ELSE 0)
<1>1. status[j][s] \in {"none", "prepared", "broadcast", "confirmed", "failed"}
  BY DEF IInv, TypeOK
<1>2. status[j][s] \in {"prepared", "broadcast"}
  BY <1>1 DEF IInv, JournalInv
<1>3. <<j, s>> \in Unconfirmed
  BY <1>2 DEF Unconfirmed
<1> QED BY <1>2, <1>3 DEF IInv, Covered

LEMMA MinesTypes ==
  ASSUME IInv, NEW j \in Jobs, NEW s \in Steps, NEW result \in {"ok", "reverted"},
         Mines(j, s, result)
  PROVE  ChainTypes'
<1> DEFINE v == IF result = "ok" THEN value[j][s] ELSE 0
           c == cost[j][s]
           token == j \in Tokens
<1>1. value[j][s] \in Nat /\ v \in Nat /\ c \in Nat /\ v <= value[j][s]
  BY DEF IInv, TypeOK
<1>2. ChainTypes
  BY Types DEF IInv
<1>3. Balance(s) >= c + (IF s \in Gas \/ (s \in FromDeposit /\ ~token) THEN v ELSE 0)
  <2>1. Balance(s) >= c + (IF s \in Gas \/ (s \in FromDeposit /\ ~token) THEN value[j][s] ELSE 0)
    BY KnownIs DEF Mines
  <2>2. Balance(s) \in Nat
    BY <1>2 DEF Balance, ChainTypes
  <2> HIDE DEF v, c, token
  <2> QED BY <1>1, <2>1, <2>2
<1>4. /\ chain' = [chain EXCEPT ![j][s] = result]
      /\ deposit' = CASE s \in Gas -> deposit + v
                      [] s \in FromDeposit -> deposit - c - (IF token THEN 0 ELSE v)
                      [] OTHER -> deposit
      /\ service' = CASE s \in Gas -> service - c - v
                      [] s = "reserve" /\ ~token -> service + v
                      [] s = "swap" -> service - c + v
                      [] s \in {"approve", "reset"} -> service - c
                      [] OTHER -> service
      /\ tokens' = IF s \in FromDeposit /\ token THEN tokens - v ELSE tokens
      /\ stock' = CASE s = "reserve" /\ token -> stock + v
                    [] s = "swap" -> stock - v
                    [] OTHER -> stock
      /\ allowance' = CASE result # "ok" -> allowance
                        [] s = "approve" -> v
                        [] s = "reset" -> 0
                        [] s = "swap" -> allowance - v
                        [] OTHER -> allowance
  BY DEF Mines
<1> HIDE DEF v, c, token
<1>5. chain' \in [Jobs -> [Steps -> {"unseen", "known", "ok", "reverted"}]]
  BY <1>2, <1>4 DEF ChainTypes
<1>6. deposit' \in Nat
  <2>1. CASE s \in Gas
    <3>1. deposit' = deposit + v
      BY <1>4, <2>1 DEF Gas, FromDeposit
    <3> QED BY <1>1, <1>2, <3>1 DEF ChainTypes
  <2>2. CASE s \in FromDeposit
    BY <1>1, <1>2, <1>3, <1>4, <2>2 DEF ChainTypes, Balance, Gas, FromDeposit
  <2>3. CASE s \notin Gas \cup FromDeposit
    BY <1>2, <1>4, <2>3 DEF ChainTypes
  <2> QED BY <2>1, <2>2, <2>3
<1>7. service' \in Nat
  <2>1. CASE s \in Gas
    BY <1>1, <1>2, <1>3, <1>4, <2>1 DEF ChainTypes, Balance, Gas, FromDeposit
  <2>2. CASE s \in FromDeposit
    BY <1>1, <1>2, <1>4, <2>2 DEF ChainTypes, Gas, FromDeposit
  <2>3. CASE s \in {"swap", "approve", "reset"}
    BY <1>1, <1>2, <1>3, <1>4, <2>3 DEF ChainTypes, Balance, Gas, FromDeposit
  <2> QED BY <2>1, <2>2, <2>3 DEF Steps, FromDeposit
<1>8. tokens' \in Int /\ stock' \in Int
  BY <1>1, <1>2, <1>4 DEF ChainTypes
<1>9. allowance' \in Int
  BY <1>1, <1>2, <1>4 DEF ChainTypes
<1> QED BY <1>5, <1>6, <1>7, <1>8, <1>9 DEF ChainTypes

\* The network and the payers.
LEMMA EnvTypeStep ==
  ASSUME IInv, \/ Reprice
               \/ \E j \in Jobs : Pay(j) \/ RetryDue(j)
               \/ \E j \in Jobs, s \in Steps : Mine(j, s) \/ Revert(j, s)
  PROVE  TypeOK'
<1> USE Types, Parameters
<1>0. RunTypes /\ JobTypes /\ TxTypes /\ ChainTypes /\ EnvTypes /\ faults \in 0..MaxFaults
  BY DEF IInv
<1>1. ASSUME Reprice PROVE TypeOK'
  BY <1>0, <1>1 DEF Reprice, RunTypes, JobTypes, TxTypes, ChainTypes, EnvTypes,
     jobVars, txVars, chainVars, runVars
<1>2. ASSUME NEW j \in Jobs, Pay(j) PROVE TypeOK'
  BY <1>0, <1>2 DEF Pay, RunTypes, JobTypes, TxTypes, ChainTypes, EnvTypes,
     jobVars, txVars, runVars
<1>3. ASSUME NEW j \in Jobs, RetryDue(j) PROVE TypeOK'
  BY <1>0, <1>3 DEF RetryDue, RunTypes, JobTypes, TxTypes, ChainTypes, EnvTypes,
     txVars, chainVars, envVars, runVars
<1>4. ASSUME NEW j \in Jobs, NEW s \in Steps, Mine(j, s) \/ Revert(j, s) PROVE TypeOK'
  <2>1. ChainTypes'
    BY <1>4, MinesTypes DEF Mine, Revert
  <2>2. UNCHANGED <<jobVars, txVars, envVars, holder, runVars>> /\ faults' \in 0..MaxFaults
    BY <1>0, <1>4 DEF Mine, Revert
  <2> QED BY <1>0, <2>1, <2>2 DEF RunTypes, JobTypes, TxTypes, EnvTypes, jobVars, txVars,
     envVars, runVars
<1> QED BY <1>1, <1>2, <1>3, <1>4

\* A run outside of a job.
LEMMA RunTypeStep ==
  ASSUME IInv, NEW n \in Nodes,
         \/ Start(n) \/ Enqueue(n) \/ Pending(n) \/ Pick(n) \/ Release(n)
         \/ Finish(n) \/ Terminal(n) \/ RunFails(n) \/ Crash(n) \/ JobFails(n) \/ PlanRefused(n)
  PROVE  TypeOK'
<1> USE Types, Parameters
<1>0. RunTypes /\ JobTypes /\ TxTypes /\ ChainTypes /\ EnvTypes /\ faults \in 0..MaxFaults
  BY DEF IInv
<1>a. UNCHANGED txVars => TxTypes'
  BY <1>0 DEF TxTypes, txVars
<1>b. UNCHANGED chainVars => ChainTypes'
  BY <1>0 DEF ChainTypes, chainVars
<1>c. UNCHANGED envVars => EnvTypes'
  BY <1>0 DEF EnvTypes, envVars
<1>d. UNCHANGED jobVars => JobTypes'
  BY <1>0 DEF JobTypes, jobVars
<1>1. ASSUME Start(n) PROVE TypeOK'
  <2>1. RunTypes'
    BY <1>0, <1>1 DEF Start, Goto, RunTypes, PcTypes
  <2> QED BY <1>0, <1>1, <2>1, <1>a, <1>b, <1>c, <1>d DEF Start
<1>2. ASSUME Enqueue(n) PROVE TypeOK'
  <2>1. RunTypes'
    BY <1>0, <1>2 DEF Enqueue, Goto, RunTypes, PcTypes
  <2>2. JobTypes'
    BY <1>0, <1>2 DEF Enqueue, JobTypes, Open
  <2> QED BY <1>0, <1>2, <2>1, <2>2, <1>a, <1>b, <1>c DEF Enqueue
<1>3. ASSUME Pending(n) PROVE TypeOK'
  <2>1. RunTypes'
    <3>1. CASE Unconfirmed = {}
      BY <1>0, <1>3, <3>1 DEF Pending, Goto, RunTypes, PcTypes
    <3>2. CASE Unconfirmed # {}
      <4>1. PICK t \in Unconfirmed :
              /\ at' = [at EXCEPT ![n] = t[1]] /\ step' = [step EXCEPT ![n] = t[2]]
              /\ recover' = [recover EXCEPT ![n] = TRUE] /\ Goto(n, "receipt")
        BY <1>3, <3>2 DEF Pending
      <4>2. t[1] \in Jobs /\ t[2] \in Steps
        BY DEF Unconfirmed
      <4> QED BY <1>0, <1>3, <4>1, <4>2 DEF Pending, Goto, RunTypes, PcTypes
    <3> QED BY <3>1, <3>2
  <2> QED BY <1>0, <1>3, <2>1, <1>a, <1>b, <1>c, <1>d DEF Pending
<1>4. ASSUME Pick(n) PROVE TypeOK'
  <2>1. RunTypes'
    <3>1. CASE Ready = {}
      BY <1>0, <1>4, <3>1 DEF Pick, Goto, RunTypes, PcTypes
    <3>2. CASE Ready # {}
      BY <1>0, <1>4, <3>2 DEF Pick, Goto, RunTypes, PcTypes, Ready
    <3> QED BY <3>1, <3>2
  <2>2. JobTypes'
    BY <1>0, <1>4 DEF Pick, JobTypes, Lesser
  <2> QED BY <1>0, <1>4, <2>1, <2>2, <1>a, <1>b, <1>c DEF Pick
<1>5. ASSUME Release(n) PROVE TypeOK'
  BY <1>0, <1>5, EndedTypes, <1>a, <1>b, <1>c, <1>d DEF Release
<1>6. ASSUME Finish(n) PROVE TypeOK'
  <2>1. JobTypes'
    BY <1>0, <1>6, AtIs DEF Finish, JobTypes
  <2> QED BY <1>0, <1>6, <2>1, EndedTypes, <1>a, <1>b, <1>c DEF Finish
<1>7. ASSUME Terminal(n) PROVE TypeOK'
  <2>1. at[n] \in Jobs
    BY <1>7, AtIs DEF Terminal
  <2>2. JobTypes'
    <3>1. /\ state' = [state EXCEPT ![at[n]] = "action_required"]
          /\ error' = [error EXCEPT ![at[n]] = TRUE]
          /\ UNCHANGED <<reserve, remainder>>
      BY <1>7 DEF Terminal
    <3>2. \E d \in 0..2 : delayed' = [delayed EXCEPT ![at[n]] = d]
      <4>1. delayed[at[n]] \in 0..2 /\ 2 \in 0..2
        <5>1. delayed \in [Jobs -> 0..2]
          BY <1>0 DEF JobTypes
        <5>2. 2 \in 0..2
          OBVIOUS
        <5> QED BY ONLY <2>1, <5>1, <5>2
      <4>2. delayed' = [delayed EXCEPT ![at[n]] = IF recover[n] THEN delayed[at[n]] ELSE 2]
        BY <1>7 DEF Terminal
      <4> QED BY <4>1, <4>2
    <3> QED BY <1>0, <2>1, <3>1, <3>2 DEF JobTypes
  <2> QED BY <1>0, <1>7, <2>2, EndedTypes, <1>a, <1>b, <1>c DEF Terminal
<1>8. ASSUME RunFails(n) \/ Crash(n) PROVE TypeOK'
  BY <1>0, <1>8, EndedTypes, <1>a, <1>b, <1>c, <1>d DEF RunFails, Crash
<1>9. ASSUME JobFails(n) PROVE TypeOK'
  <2>1. at[n] \in Jobs
    BY <1>9, AtIs DEF JobFails
  <2> QED BY <1>0, <1>9, <2>1, ThrowsTypes DEF JobFails
<1>10. ASSUME PlanRefused(n) PROVE TypeOK'
  BY <1>0, <1>10, GotoTypes, <1>a, <1>b, <1>c, <1>d DEF PlanRefused, PcTypes
<1> QED BY <1>1, <1>2, <1>3, <1>4, <1>5, <1>6, <1>7, <1>8, <1>9, <1>10

LEMMA NativeTypes ==
  ASSUME IInv, NEW j \in Jobs
  PROVE  /\ Spent(j) \in Nat /\ fee \in Nat /\ Amount[j] \in Nat
         /\ \A s \in FromDeposit : Due(j, s) \in Nat /\ NativeValue(j, s) \in Int
<1>1. /\ \A s \in Steps : value[j][s] \in Nat /\ cost[j][s] \in Nat
      /\ reserve[j] \in Nat /\ remainder[j] \in Nat /\ fee \in Nat /\ Amount[j] \in Nat
  BY Parameters DEF IInv, TypeOK
<1>2. Spent(j) \in Nat
  BY <1>1 DEF Spent, Steps
<1>3. ASSUME NEW s \in FromDeposit PROVE Due(j, s) \in Nat
  BY <1>1, <1>3 DEF Due, FromDeposit
<1>4. ASSUME NEW s \in FromDeposit PROVE NativeValue(j, s) \in Int
  BY <1>1, <1>2, <1>3 DEF NativeValue, Lesser
<1> QED BY <1>1, <1>2, <1>3, <1>4

\* What a decision to send asks for.
LEMMA SendsIs ==
  ASSUME IInv, NEW n \in Nodes,
         Resume(n) \/ FundGas(n) \/ MoveToken(n) \/ MoveNative(n) \/ Swap(n)
  PROVE  /\ pc[n] = "job" /\ at[n] \in Jobs
         /\ \E s \in Steps, v \in Nat, c \in Nat \cup {NoCap} :
              /\ Sends(n, s, v, c) /\ state[at[n]] = StateOf(s)
              /\ s \in FromDeposit /\ status[at[n]][s] = "none" =>
                   /\ Due(at[n], s) > 0
                   /\ IF at[n] \in Tokens
                      THEN v = Due(at[n], s) /\ c = funded[at[n]][s]
                      ELSE c # NoCap /\ v + c <= Amount[at[n]] - Spent(at[n])
<1> DEFINE j == at[n]
<1>0. pc[n] = "job" /\ j \in Jobs
  BY AtIs DEF Resume, FundGas, MoveToken, MoveNative, Swap, Transfers
<1>1. /\ fee \in Nat /\ Spent(j) \in Nat /\ Amount[j] \in Nat /\ reserve[j] \in Nat
      /\ \A s \in FromDeposit : /\ Due(j, s) \in Nat /\ NativeValue(j, s) \in Int
                                /\ funded[j][s] \in Nat
  BY <1>0, NativeTypes DEF IInv, TypeOK
<1>2. FromDeposit \subseteq Steps /\ Gas \subseteq Steps /\ Gas \cap FromDeposit = {}
  BY DEF FromDeposit, Gas, Steps
<1>3. \A s \in FromDeposit : StateOf(s) = s
  BY DEF FromDeposit, StateOf
<1>4. NoCap = -1
  BY DEF NoCap
<1>5. ASSUME Resume(n)
      PROVE  \E s \in FromDeposit : Sends(n, s, 0, NoCap) /\ state[j] = s /\ status[j][s] # "none"
  BY <1>5 DEF Resume, Transfers
<1>6. ASSUME FundGas(n)
      PROVE  \E g \in Gas, v \in Nat : Sends(n, g, v, NoCap) /\ state[j] = StateOf(g)
  <2>1. PICK s \in FromDeposit :
          /\ Transfers(n, s) /\ fee > funded[j][s]
          /\ Sends(n, IF s = "reserve" THEN "gas:reserve" ELSE "gas:payout",
                   fee - funded[j][s], NoCap)
    BY <1>6 DEF FundGas
  <2>2. fee - funded[j][s] \in Nat
    BY <1>1, <2>1
  <2>3. state[j] = s
    BY <2>1 DEF Transfers
  <2> QED BY <2>1, <2>2, <2>3 DEF FromDeposit, Gas, StateOf
<1>7. ASSUME MoveToken(n)
      PROVE  /\ j \in Tokens
             /\ \E s \in FromDeposit : Sends(n, s, Due(j, s), funded[j][s]) /\ state[j] = s /\ Due(j, s) > 0
  BY <1>7 DEF MoveToken, Transfers, GasLimit
<1>8. ASSUME MoveNative(n)
      PROVE  /\ j \notin Tokens
             /\ \E s \in FromDeposit : /\ Sends(n, s, NativeValue(j, s), fee)
                                       /\ state[j] = s /\ Due(j, s) > 0
                                       /\ NativeValue(j, s) \in Nat
                                       /\ NativeValue(j, s) + fee <= Amount[j] - Spent(j)
  <2>1. j \notin Tokens
    BY <1>8 DEF MoveNative
  <2>2. PICK s \in FromDeposit :
          Transfers(n, s) /\ NativeValue(j, s) > 0 /\ Sends(n, s, NativeValue(j, s), fee)
    BY <1>8 DEF MoveNative
  <2>3. NativeValue(j, s) <= Amount[j] - Spent(j) - fee
    BY <1>1 DEF NativeValue, Lesser
  <2>4. NativeValue(j, s) \in Nat /\ NativeValue(j, s) + fee <= Amount[j] - Spent(j)
    BY <1>1, <2>2, <2>3
  <2> QED BY <2>1, <2>2, <2>4 DEF Transfers
<1>9. ASSUME Swap(n)
      PROVE  \E s \in {"reset", "approve", "swap"}, v \in Nat, c \in Nat \cup {NoCap} :
               Sends(n, s, v, c) /\ state[j] = "swap"
  <2>1. SwapKind(j) \in {"reset", "approve", "swap"}
    BY DEF SwapKind
  <2>2. state[j] = "swap"
    BY <1>9 DEF Swap
  <2>3. (IF SwapKind(j) = "reset" THEN 0 ELSE reserve[j]) \in Nat
    BY <1>1
  <2>4. (IF status[j][SwapKind(j)] = "none" THEN fee ELSE NoCap) \in Nat \cup {NoCap}
    BY <1>1
  <2>5. Sends(n, SwapKind(j), IF SwapKind(j) = "reset" THEN 0 ELSE reserve[j],
              IF status[j][SwapKind(j)] = "none" THEN fee ELSE NoCap)
    BY <1>9 DEF Swap
  <2> QED BY <2>1, <2>2, <2>3, <2>4, <2>5
<1> HIDE DEF j
<1>10. \A s \in {"reset", "approve", "swap"} : s \in Steps \ FromDeposit /\ StateOf(s) = "swap"
  BY DEF FromDeposit, StateOf, Steps, Gas
<1>11. ASSUME Swap(n)
       PROVE  \E s \in Steps, v \in Nat, c \in Nat \cup {NoCap} :
                Sends(n, s, v, c) /\ state[j] = StateOf(s) /\ s \notin FromDeposit
  BY <1>9, <1>10, <1>11
<1>12. ASSUME MoveNative(n)
       PROVE  j \notin Tokens /\ \E s \in Steps, v \in Nat, c \in Nat :
                /\ Sends(n, s, v, c) /\ state[j] = StateOf(s) /\ Due(j, s) > 0
                /\ v + c <= Amount[j] - Spent(j)
  BY <1>1, <1>2, <1>3, <1>8, <1>12
<1>13. ASSUME MoveToken(n)
       PROVE  j \in Tokens /\ \E s \in Steps, v \in Nat, c \in Nat :
                /\ Sends(n, s, v, c) /\ state[j] = StateOf(s) /\ Due(j, s) > 0
                /\ v = Due(j, s) /\ c = funded[j][s]
  BY <1>1, <1>2, <1>3, <1>7, <1>13
<1>14. ASSUME FundGas(n)
       PROVE  \E s \in Steps, v \in Nat, c \in Nat \cup {NoCap} :
                Sends(n, s, v, c) /\ state[j] = StateOf(s) /\ s \notin FromDeposit
  BY <1>2, <1>6, <1>14
<1>15. ASSUME Resume(n)
       PROVE  \E s \in Steps, v \in Nat, c \in Nat \cup {NoCap} :
                Sends(n, s, v, c) /\ state[j] = StateOf(s) /\ status[j][s] # "none"
  BY <1>2, <1>3, <1>5, <1>15
<1>16. \A c \in Nat : c # NoCap /\ c \in Nat \cup {NoCap}
  BY <1>4
<1> QED BY <1>0, <1>11, <1>12, <1>13, <1>14, <1>15, <1>16 DEF j
\* Planning, sending and what comes after.
LEMMA JobTypeStep ==
  ASSUME IInv, NEW n \in Nodes,
         \/ Plan(n) \/ SkipReserve(n) \/ ReserveBelowFee(n) \/ NothingLeft(n) \/ NothingDue(n)
         \/ Prepare(n) \/ PrepareRefused(n) \/ SendAgain(n) \/ ReadReceipt(n)
         \/ Broadcast(n) \/ BroadcastLost(n) \/ Advance(n)
         \/ Resume(n) \/ FundGas(n) \/ MoveToken(n) \/ MoveNative(n) \/ Swap(n)
  PROVE  TypeOK'
<1> USE Types, Parameters
<1>0. RunTypes /\ JobTypes /\ TxTypes /\ ChainTypes /\ EnvTypes /\ faults \in 0..MaxFaults
  BY DEF IInv
<1>a. UNCHANGED txVars => TxTypes'
  BY <1>0 DEF TxTypes, txVars
<1>b. UNCHANGED chainVars => ChainTypes'
  BY <1>0 DEF ChainTypes, chainVars
<1>c. UNCHANGED envVars => EnvTypes'
  BY <1>0 DEF EnvTypes, envVars
<1>d. UNCHANGED jobVars => JobTypes'
  BY <1>0 DEF JobTypes, jobVars
<1>1. ASSUME NEW l \in PcTypes, Goto(n, l), UNCHANGED <<holder, at, step, recover, cap, request>>
      PROVE  RunTypes'
  BY <1>0, <1>1, GotoTypes
<1>2. ASSUME Plan(n) PROVE TypeOK'
  <2>1. at[n] \in Jobs
    BY <1>2, AtIs DEF Plan
  <2>2. JobTypes'
    <3> DEFINE r == IF service < Low THEN Lesser(Amount[at[n]], Refill[at[n]]) ELSE 0
    <3>1. /\ state' = [state EXCEPT ![at[n]] = "reserve"]
          /\ reserve' = [reserve EXCEPT ![at[n]] = r]
          /\ remainder' = [remainder EXCEPT ![at[n]] = Amount[at[n]] - r]
          /\ UNCHANGED <<delayed, error>>
      BY <1>2 DEF Plan
    <3>2. Amount[at[n]] \in Nat /\ Refill[at[n]] \in Nat
      BY <2>1
    <3>3. r \in Nat /\ Amount[at[n]] - r \in Nat
      BY <3>2 DEF Lesser
    <3> HIDE DEF r
    <3> QED BY <1>0, <2>1, <3>1, <3>3 DEF JobTypes, Open
  <2> QED BY <1>0, <1>1, <1>2, <2>2, <1>a, <1>b, <1>c DEF Plan, PcTypes
<1>3. ASSUME SkipReserve(n) PROVE TypeOK'
  <2>1. at[n] \in Jobs
    BY <1>3, AtIs DEF SkipReserve
  <2>2. JobTypes'
    BY <1>0, <1>3, <2>1 DEF SkipReserve, JobTypes
  <2> QED BY <1>0, <1>1, <1>3, <2>2, <1>a, <1>b, <1>c DEF SkipReserve, PcTypes
<1>4. ASSUME ReserveBelowFee(n) \/ PrepareRefused(n) PROVE TypeOK'
  <2>1. at[n] \in Jobs
    BY <1>4, AtIs DEF ReserveBelowFee, PrepareRefused
  <2> QED BY <1>0, <1>4, <2>1, ThrowsTypes DEF ReserveBelowFee, PrepareRefused
<1>5. ASSUME NothingLeft(n) PROVE TypeOK'
  <2>1. JobTypes'
    BY <1>0, <1>5 DEF NothingLeft, JobTypes
  <2> QED BY <1>0, <1>1, <1>5, <2>1, <1>a, <1>b, <1>c DEF NothingLeft, PcTypes
<1>6. ASSUME NothingDue(n) PROVE TypeOK'
  <2>0. at[n] \in Jobs
    BY <1>6, AtIs DEF NothingDue
  <2>1. JobTypes'
    BY <1>0, <1>6, <2>0 DEF NothingDue, JobTypes, Open
  <2> QED BY <1>0, <1>1, <1>6, <2>1, <1>a, <1>b, <1>c DEF NothingDue, PcTypes
<1>7. ASSUME Prepare(n) PROVE TypeOK'
  <2>1. at[n] \in Jobs /\ step[n] \in Steps /\ request[n] \in Nat /\ fee \in Nat
    BY <1>0, <1>7, AtIs DEF Prepare, RunTypes, EnvTypes
  <2>2. TxTypes'
    BY <1>0, <1>7, <2>1 DEF Prepare, TxTypes
  <2>3. ChainTypes'
    BY <1>0, <1>7, <2>1 DEF Prepare, ChainTypes
  <2> QED BY <1>0, <1>1, <1>7, <2>2, <2>3, <1>c, <1>d DEF Prepare, PcTypes
<1>8. ASSUME SendAgain(n) PROVE TypeOK'
  <2>1. \E l \in PcTypes : Goto(n, l)
    BY <1>8 DEF SendAgain, PcTypes
  <2> QED BY <1>0, <1>1, <1>8, <2>1, <1>a, <1>b, <1>c, <1>d DEF SendAgain
<1>9. ASSUME ReadReceipt(n) PROVE TypeOK'
  <2>1. at[n] \in Jobs /\ step[n] \in Steps
    BY <1>9, AtIs DEF ReadReceipt
  <2>2. \E l \in PcTypes : Goto(n, l)
    BY <1>9 DEF ReadReceipt, PcTypes
  <2>3. TxTypes'
    <3>1. \E x \in {"none", "prepared", "broadcast", "confirmed", "failed"} :
            status' = [status EXCEPT ![at[n]][step[n]] = x] \/ UNCHANGED status
      BY <1>9 DEF ReadReceipt
    <3>2. status' \in [Jobs -> [Steps -> {"none", "prepared", "broadcast", "confirmed", "failed"}]]
      BY <1>0, <2>1, <3>1 DEF TxTypes
    <3>3. \/ UNCHANGED funded
          \/ \E s \in FromDeposit : funded' = [funded EXCEPT ![at[n]][s] = @ + value[at[n]][step[n]]]
      BY <1>9 DEF ReadReceipt, FromDeposit
    <3>4. value[at[n]][step[n]] \in Nat
      <4>1. value \in [Jobs -> [Steps -> Nat]]
        BY <1>0 DEF TxTypes
      <4> QED BY ONLY <2>1, <4>1
    <3>5. funded' \in [Jobs -> [FromDeposit -> Nat]]
      <4>1. funded \in [Jobs -> [FromDeposit -> Nat]]
        BY <1>0 DEF TxTypes
      <4>2. ASSUME NEW s \in FromDeposit, funded' = [funded EXCEPT ![at[n]][s] = @ + value[at[n]][step[n]]]
            PROVE  funded' \in [Jobs -> [FromDeposit -> Nat]]
        <5>1. funded[at[n]][s] + value[at[n]][step[n]] \in Nat
          <6>1. funded[at[n]][s] \in Nat
            BY ONLY <2>1, <4>1
          <6> QED BY <3>4, <6>1
        <5> QED BY <2>1, <4>1, <4>2, <5>1
      <4> QED BY <3>3, <4>1, <4>2
    <3> QED BY <1>0, <1>9, <3>2, <3>5 DEF ReadReceipt, TxTypes
  <2> QED BY <1>0, <1>1, <1>9, <2>2, <2>3, <1>b, <1>c, <1>d DEF ReadReceipt
<1>10. ASSUME NEW seen \in {"unseen", "known"}, Broadcasts(n, seen), faults' \in 0..MaxFaults
       PROVE  TypeOK'
  <2>1. at[n] \in Jobs /\ step[n] \in Steps
    BY <1>10, AtIs DEF Broadcasts
  <2>2. \E l \in PcTypes : Goto(n, l)
    BY <1>10 DEF Broadcasts, PcTypes
  <2>3. TxTypes'
    BY <1>0, <1>10, <2>1 DEF Broadcasts, TxTypes
  <2>4. ChainTypes'
    <3>1. \E x \in {"unseen", "known", "ok", "reverted"} : chain' = [chain EXCEPT ![at[n]][step[n]] = x]
      <4>1. chain[at[n]][step[n]] \in {"unseen", "known", "ok", "reverted"}
        BY <1>0, <2>1, ZenonT(60) DEF ChainTypes
      <4>2. chain' = [chain EXCEPT ![at[n]][step[n]] =
                        IF chain[at[n]][step[n]] = "unseen" THEN seen ELSE chain[at[n]][step[n]]]
        BY <1>10 DEF Broadcasts
      <4> QED BY <4>1, <4>2
    <3> QED BY <1>0, <1>10, <2>1, <3>1 DEF Broadcasts, ChainTypes
  <2> QED BY <1>0, <1>1, <1>10, <2>2, <2>3, <2>4, <1>c, <1>d DEF Broadcasts
<1>11. ASSUME Broadcast(n) \/ BroadcastLost(n) PROVE TypeOK'
  BY <1>0, <1>10, <1>11 DEF Broadcast, BroadcastLost
<1>12. ASSUME Advance(n) PROVE TypeOK'
  <2>1. at[n] \in Jobs
    BY <1>12, AtIs DEF Advance
  <2>2. NextState(at[n], step[n]) \in Open \cup {"absent", "done", "action_required"}
    BY <1>0, <2>1 DEF NextState, JobTypes, Open
  <2>3. JobTypes'
    BY <1>0, <1>12, <2>1, <2>2 DEF Advance, JobTypes
  <2> QED BY <1>0, <1>1, <1>12, <2>3, <1>a, <1>b, <1>c DEF Advance, PcTypes
<1>13. ASSUME Resume(n) \/ FundGas(n) \/ MoveToken(n) \/ MoveNative(n) \/ Swap(n) PROVE TypeOK'
  <2>1. PICK s \in Steps, v \in Nat, c \in Nat \cup {NoCap} : Sends(n, s, v, c)
    BY <1>13, SendsIs
  <2> QED BY <1>0, <2>1, SendsTypes, <1>a, <1>b, <1>c, <1>d
<1> QED BY <1>2, <1>3, <1>4, <1>5, <1>6, <1>7, <1>8, <1>9, <1>11, <1>12, <1>13

LEMMA TypeStep == IInv /\ [Next]_vars => TypeOK'
<1> SUFFICES ASSUME IInv, [Next]_vars PROVE TypeOK'
  OBVIOUS
<1>1. CASE Next
  BY <1>1, EnvTypeStep, RunTypeStep, JobTypeStep DEF Next, Run, Fault, Decide, Send
<1>2. CASE UNCHANGED vars
  BY <1>2 DEF IInv, TypeOK, vars, jobVars, txVars, chainVars, envVars, runVars
<1> QED BY <1>1, <1>2
-----------------------------------------------------------------------------
(* What the runs have in their hands. *)

Hands == LockInv /\ \A n \in Nodes : HandInv(n) /\ RequestInv(n)

\* The network, the payers and the clock do not touch a run.
LEMMA HandsSame ==
  ASSUME IInv, UNCHANGED <<holder, runVars, state, reserve, remainder, txVars>>
  PROVE  Hands'
<1>1. /\ UNCHANGED <<holder, pc, at, step, recover, cap, request>>
      /\ UNCHANGED <<state, reserve, remainder, status, value, cost, funded>>
  BY DEF runVars, txVars
<1>2. Unconfirmed' = Unconfirmed
  BY <1>1 DEF Unconfirmed
<1>3. LockInv'
  BY <1>1 DEF IInv, LockInv
<1>4. ASSUME NEW n \in Nodes PROVE HandInv(n)'
  <2>1. HandInv(n)
    BY DEF IInv
  <2> QED BY <1>1, <1>2, <2>1 DEF HandInv
<1>5. ASSUME NEW n \in Nodes PROVE RequestInv(n)'
  <2>1. RequestInv(n)
    BY DEF IInv
  <2> QED BY <1>1, <2>1 DEF RequestInv, Due, Spent
<1> QED BY <1>3, <1>4, <1>5 DEF Hands

\* A step of one run: the others are idle.
LEMMA OneRun ==
  ASSUME IInv, NEW n \in Nodes, pc[n] # "idle" \/ holder = None,
         \A m \in Nodes : m # n => pc'[m] = pc[m] /\ recover'[m] = recover[m],
         pc'[n] # "idle" => holder' = n, HandInv(n)', RequestInv(n)'
  PROVE  Hands'
<1>1. \A m \in Nodes : m # n => pc'[m] = "idle" /\ ~recover'[m]
  BY Alone
<1>2. LockInv'
  BY <1>1 DEF LockInv
<1>3. ASSUME NEW m \in Nodes, m # n PROVE HandInv(m)' /\ RequestInv(m)'
  BY <1>1, <1>3 DEF HandInv, RequestInv
<1> QED BY <1>2, <1>3 DEF Hands

LEMMA EndedHands ==
  ASSUME IInv, NEW n \in Nodes, pc[n] # "idle", Ended(n)
  PROVE  Hands'
<1>1. /\ pc'[n] = "idle" /\ ~recover'[n]
      /\ \A m \in Nodes : m # n => pc'[m] = pc[m] /\ recover'[m] = recover[m]
  BY DEF Ended, Goto, IInv, TypeOK
<1>2. HandInv(n)' /\ RequestInv(n)'
  BY <1>1 DEF HandInv, RequestInv
<1> QED BY <1>1, <1>2, OneRun

\* A run goes on to a step that needs no more than its job.
LEMMA GotoHands ==
  ASSUME IInv, NEW n \in Nodes, pc[n] # "idle",
         NEW l \in {"enqueue", "pending", "terminal", "finish", "release"}, Goto(n, l),
         UNCHANGED <<holder, at, recover>>,
         l \in {"terminal", "finish"} => at[n] \in Jobs,
         recover[n] => l \in {"terminal", "release"}
  PROVE  Hands'
<1>1. /\ pc'[n] = l /\ \A m \in Nodes : m # n => pc'[m] = pc[m] /\ recover'[m] = recover[m]
  BY DEF Goto, IInv, TypeOK
<1>2. holder' = n
  BY DEF IInv, LockInv
<1>3. HandInv(n)' /\ RequestInv(n)'
  BY <1>1 DEF HandInv, RequestInv
<1> QED BY <1>1, <1>2, <1>3, OneRun

LEMMA SendsHands ==
  ASSUME IInv, NEW n \in Nodes,
         Resume(n) \/ FundGas(n) \/ MoveToken(n) \/ MoveNative(n) \/ Swap(n)
  PROVE  Hands'
<1>1. PICK s \in Steps, v \in Nat, c \in Nat \cup {NoCap} :
        /\ pc[n] = "job" /\ at[n] \in Jobs
        /\ Sends(n, s, v, c) /\ state[at[n]] = StateOf(s)
        /\ s \in FromDeposit /\ status[at[n]][s] = "none" =>
             /\ Due(at[n], s) > 0
             /\ IF at[n] \in Tokens
                THEN v = Due(at[n], s) /\ c = funded[at[n]][s]
                ELSE c # NoCap /\ v + c <= Amount[at[n]] - Spent(at[n])
  BY SendsIs
<1>2. /\ pc'[n] = "send" /\ step'[n] = s /\ request'[n] = v /\ cap'[n] = c
      /\ UNCHANGED <<holder, at, recover, state, reserve, remainder, status, value, cost, funded>>
      /\ \A m \in Nodes : m # n => pc'[m] = pc[m] /\ recover'[m] = recover[m]
  BY <1>1 DEF Sends, Goto, IInv, TypeOK, jobVars, txVars
<1>3. Unconfirmed = {} /\ ~recover[n] /\ holder = n
  BY <1>1 DEF IInv, HandInv, LockInv
<1>4. Unconfirmed' = {}
  BY <1>2, <1>3 DEF Unconfirmed
<1>5. HandInv(n)'
  BY <1>1, <1>2, <1>3, <1>4 DEF HandInv
<1>6. RequestInv(n)'
  BY <1>1, <1>2 DEF RequestInv, Due, Spent
<1> QED BY <1>1, <1>2, <1>3, <1>5, <1>6, OneRun

LEMMA RunHands ==
  ASSUME IInv, NEW n \in Nodes,
         \/ Start(n) \/ Enqueue(n) \/ Pending(n) \/ Pick(n) \/ Release(n)
         \/ Finish(n) \/ Terminal(n) \/ RunFails(n) \/ Crash(n) \/ JobFails(n) \/ PlanRefused(n)
         \/ Plan(n) \/ SkipReserve(n) \/ ReserveBelowFee(n) \/ NothingLeft(n) \/ NothingDue(n)
         \/ PrepareRefused(n) \/ Advance(n)
  PROVE  Hands'
<1>0. HandInv(n) /\ (pc[n] # "idle" => holder = n) /\ pc \in [Nodes -> PcTypes]
  BY DEF IInv, LockInv, TypeOK, PcTypes
<1>1. ASSUME Start(n) PROVE Hands'
  <2>1. /\ pc'[n] = "enqueue" /\ holder' = n /\ ~recover'[n]
        /\ \A m \in Nodes : m # n => pc'[m] = pc[m] /\ recover'[m] = recover[m]
    BY <1>0, <1>1 DEF Start, Goto, HandInv
  <2>2. HandInv(n)' /\ RequestInv(n)'
    BY <2>1 DEF HandInv, RequestInv
  <2> QED BY <1>1, <2>1, <2>2, OneRun DEF Start, LockFree
<1>2. ASSUME Pending(n) PROVE Hands'
  <2>1. CASE Unconfirmed = {}
    <3>1. /\ pc'[n] = "pick" /\ UNCHANGED <<holder, at, step, recover, status>> /\ ~recover[n]
          /\ \A m \in Nodes : m # n => pc'[m] = pc[m]
      BY <1>0, <1>2, <2>1 DEF Pending, Goto, HandInv, txVars
    <3>2. Unconfirmed' = {}
      BY <2>1, <3>1 DEF Unconfirmed
    <3>3. HandInv(n)' /\ RequestInv(n)'
      BY <3>1, <3>2 DEF HandInv, RequestInv
    <3> QED BY <1>0, <1>2, <3>1, <3>3, OneRun DEF Pending
  <2>2. CASE Unconfirmed # {}
    <3>1. PICK t \in Unconfirmed :
            /\ at' = [at EXCEPT ![n] = t[1]] /\ step' = [step EXCEPT ![n] = t[2]]
            /\ recover' = [recover EXCEPT ![n] = TRUE] /\ Goto(n, "receipt")
      BY <1>2, <2>2 DEF Pending
    <3>2. t[1] \in Jobs /\ t[2] \in Steps /\ t = <<t[1], t[2]>>
      BY DEF Unconfirmed
    <3>3. /\ pc'[n] = "receipt" /\ at'[n] = t[1] /\ step'[n] = t[2] /\ recover'[n]
          /\ \A m \in Nodes : m # n => pc'[m] = pc[m] /\ recover'[m] = recover[m]
      BY <1>0, <3>1 DEF Goto, IInv, TypeOK
    <3>4. UNCHANGED <<holder, status>>
      BY <1>2 DEF Pending, txVars
    <3>5. Unconfirmed' = Unconfirmed
      BY <3>4 DEF Unconfirmed
    <3>6. HandInv(n)' /\ RequestInv(n)'
      BY <3>2, <3>3, <3>5 DEF HandInv, RequestInv
    <3> QED BY <1>0, <1>2, <3>3, <3>4, <3>6, OneRun DEF Pending
  <2> QED BY <2>1, <2>2
<1>3. ASSUME Pick(n) PROVE Hands'
  <2>1. CASE Ready = {}
    BY <1>0, <1>3, <2>1, GotoHands DEF Pick
  <2>2. CASE Ready # {}
    <3>1. PICK j \in Ready : at' = [at EXCEPT ![n] = j] /\ Goto(n, "job")
      BY <1>3, <2>2 DEF Pick
    <3>2. /\ pc'[n] = "job" /\ at'[n] \in Jobs /\ ~recover[n] /\ Unconfirmed = {}
          /\ UNCHANGED <<holder, recover, status>>
          /\ \A m \in Nodes : m # n => pc'[m] = pc[m]
      BY <1>0, <1>3, <3>1 DEF Pick, Goto, HandInv, Ready, IInv, TypeOK, txVars
    <3>3. Unconfirmed' = {}
      BY <3>2 DEF Unconfirmed
    <3>4. HandInv(n)' /\ RequestInv(n)'
      BY <3>2, <3>3 DEF HandInv, RequestInv
    <3> QED BY <1>0, <1>3, <3>2, <3>4, OneRun DEF Pick
  <2> QED BY <2>1, <2>2
<1>4. ASSUME Release(n) \/ Finish(n) \/ Terminal(n) \/ RunFails(n) \/ Crash(n) PROVE Hands'
  <2>1. pc[n] # "idle"
    BY <1>0, <1>4 DEF Release, Finish, Terminal, RunFails, Crash, HandInv
  <2> QED BY <1>4, <2>1, EndedHands DEF Release, Finish, Terminal, RunFails, Crash
<1>5. ASSUME JobFails(n) \/ ReserveBelowFee(n) \/ PrepareRefused(n) PROVE Hands'
  <2>1. pc[n] # "idle" /\ Throws(n)
    BY <1>5 DEF JobFails, ReserveBelowFee, PrepareRefused, Transfers
  <2> QED BY <2>1, EndedHands DEF Throws
<1>6. ASSUME Enqueue(n) PROVE Hands'
  BY <1>0, <1>6, GotoHands DEF Enqueue, HandInv
<1>7. ASSUME PlanRefused(n) PROVE Hands'
  BY <1>0, <1>7, GotoHands DEF PlanRefused, HandInv
<1>8. ASSUME Plan(n) \/ SkipReserve(n) \/ NothingLeft(n) \/ NothingDue(n) \/ Advance(n)
      PROVE  Hands'
  <2>1. /\ pc[n] \in {"job", "advance"} /\ Goto(n, "finish") /\ UNCHANGED <<holder, at, recover>>
    BY <1>8 DEF Plan, SkipReserve, NothingLeft, NothingDue, Advance, Transfers
  <2>2. at[n] \in Jobs /\ ~recover[n]
    BY <1>0, <2>1 DEF HandInv
  <2> QED BY <2>1, <2>2, GotoHands
<1> QED BY <1>1, <1>2, <1>3, <1>4, <1>5, <1>6, <1>7, <1>8

LEMMA SendHands ==
  ASSUME IInv, NEW n \in Nodes,
         Prepare(n) \/ SendAgain(n) \/ ReadReceipt(n) \/ \E seen \in {"unseen", "known"} : Broadcasts(n, seen)
  PROVE  Hands'
<1> DEFINE j == at[n]
           s == step[n]
<1>0. /\ HandInv(n) /\ holder = n /\ pc \in [Nodes -> PcTypes] /\ j \in Jobs /\ s \in Steps
      /\ status \in [Jobs -> [Steps -> {"none", "prepared", "broadcast", "confirmed", "failed"}]]
      /\ recover[n] \in BOOLEAN
  BY AtIs DEF IInv, LockInv, TypeOK, PcTypes, Prepare, SendAgain, ReadReceipt, Broadcasts
<1>1. UNCHANGED <<holder, at, step, recover, state>>
  BY DEF Prepare, SendAgain, ReadReceipt, Broadcasts, jobVars
<1>2. ASSUME NEW l \in PcTypes, Goto(n, l)
      PROVE  /\ pc'[n] = l
             /\ \A m \in Nodes : m # n => pc'[m] = pc[m] /\ recover'[m] = recover[m]
  BY <1>0, <1>1, <1>2 DEF Goto
<1>3. ASSUME NEW l \in PcTypes \ {"send", "idle"}, Goto(n, l), HandInv(n)' PROVE Hands'
  <2>1. RequestInv(n)'
    BY <1>2, <1>3 DEF RequestInv
  <2> QED BY <1>0, <1>1, <1>2, <1>3, <2>1, OneRun DEF Prepare, SendAgain, ReadReceipt, Broadcasts
<1>4. CASE Prepare(n)
  <2>1. /\ Goto(n, "receipt") /\ status' = [status EXCEPT ![j][s] = "prepared"] /\ pc[n] = "send"
    BY <1>4 DEF Prepare
  <2>2. <<j, s>> \in Unconfirmed'
    BY <1>0, <2>1 DEF Unconfirmed
  <2>3. ~recover[n] /\ state[j] = StateOf(s)
    BY <1>0, <2>1 DEF HandInv
  <2>4. pc'[n] = "receipt"
    BY <1>2, <2>1 DEF PcTypes
  <2>5. HandInv(n)'
    BY <1>0, <1>1, <2>2, <2>3, <2>4 DEF HandInv
  <2> QED BY <1>3, <2>1, <2>5 DEF PcTypes
<1>5. CASE SendAgain(n)
  <2>1. /\ pc[n] = "send" /\ ~Fresh(j, s) /\ UNCHANGED status
        /\ Goto(n, CASE status[j][s] = "confirmed" -> "advance"
                     [] status[j][s] = "failed" -> "terminal"
                     [] OTHER -> "receipt")
    BY <1>5 DEF SendAgain, txVars
  <2>2. Unconfirmed = {} /\ ~recover[n] /\ state[j] = StateOf(s)
    BY <1>0, <2>1 DEF HandInv
  <2>3. status[j][s] \in {"confirmed", "failed"}
    <3>1. status[j][s] \in {"none", "prepared", "broadcast", "confirmed", "failed"}
      BY <1>0
    <3>2. status[j][s] \notin {"prepared", "broadcast"}
      BY <1>0, <2>2, UnconfirmedIs
    <3>3. status[j][s] # "none"
      BY <2>1 DEF Fresh
    <3> QED BY <3>1, <3>2, <3>3
  <2>4. CASE status[j][s] = "confirmed"
    <3>1. Goto(n, "advance")
      BY <2>1, <2>4
    <3>2. pc'[n] = "advance"
      BY <1>2, <3>1 DEF PcTypes
    <3>3. HandInv(n)'
      BY <1>0, <1>1, <2>1, <2>2, <2>4, <3>2 DEF HandInv
    <3> QED BY <1>3, <3>1, <3>3 DEF PcTypes
  <2>5. CASE status[j][s] = "failed"
    <3>1. Goto(n, "terminal")
      BY <2>1, <2>5
    <3> QED BY <1>0, <1>1, <2>1, <2>2, <3>1, GotoHands
  <2> QED BY <2>3, <2>4, <2>5
<1>6. CASE ReadReceipt(n)
  <2>0. pc[n] = "receipt" /\ <<j, s>> \in Unconfirmed
    BY <1>0, <1>6 DEF ReadReceipt, HandInv
  <2>1. CASE chain[j][s] = "ok"
    <3>1. /\ status' = [status EXCEPT ![j][s] = "confirmed"]
          /\ Goto(n, IF recover[n] THEN "release" ELSE "advance")
      BY <1>6, <2>1 DEF ReadReceipt
    <3>2. CASE recover[n]
      BY <1>0, <1>1, <2>0, <3>1, <3>2, GotoHands
    <3>3. CASE ~recover[n]
      <4>1. pc'[n] = "advance" /\ Goto(n, "advance")
        BY <1>2, <3>1, <3>3 DEF PcTypes
      <4>2. status'[j][s] = "confirmed" /\ state[j] = StateOf(s)
        BY <1>0, <2>0, <3>1, <3>3 DEF HandInv
      <4>3. HandInv(n)'
        BY <1>0, <1>1, <3>3, <4>1, <4>2 DEF HandInv
      <4> QED BY <1>3, <4>1, <4>3 DEF PcTypes
    <3> QED BY <3>2, <3>3
  <2>2. CASE chain[j][s] = "reverted"
    <3>1. Goto(n, "terminal")
      BY <1>6, <2>2 DEF ReadReceipt
    <3> QED BY <1>0, <1>1, <2>0, <3>1, GotoHands
  <2>3. CASE chain[j][s] \notin {"ok", "reverted"}
    <3>1. Goto(n, "broadcast") /\ UNCHANGED status
      BY <1>6, <2>3 DEF ReadReceipt
    <3>2. pc'[n] = "broadcast" /\ <<j, s>> \in Unconfirmed'
      BY <1>2, <2>0, <3>1 DEF PcTypes, Unconfirmed
    <3>3. HandInv(n)'
      BY <1>0, <1>1, <2>0, <3>2 DEF HandInv
    <3> QED BY <1>3, <3>1, <3>3 DEF PcTypes
  <2> QED BY <2>1, <2>2, <2>3
<1>7. ASSUME NEW seen \in {"unseen", "known"}, Broadcasts(n, seen) PROVE Hands'
  <2>1. pc[n] = "broadcast" /\ Goto(n, IF recover[n] THEN "release" ELSE "finish")
    BY <1>7 DEF Broadcasts
  <2>2. CASE recover[n]
    BY <1>0, <1>1, <2>1, <2>2, GotoHands
  <2>3. CASE ~recover[n]
    BY <1>0, <1>1, <2>1, <2>3, GotoHands
  <2> QED BY <2>2, <2>3
<1> QED BY <1>4, <1>5, <1>6, <1>7
-----------------------------------------------------------------------------
(* The journal, the plans and the chain. *)

Books ==
    /\ JournalInv /\ OneUnconfirmed /\ Covered
    /\ \A j \in Jobs : PlanInv(j)
    /\ OwnReceipts /\ DoneIsPaid

\* The numbers of a job.
LEMMA JobIs ==
  ASSUME IInv, NEW j \in Jobs
  PROVE  /\ state[j] \in Open \cup {"absent", "done", "action_required"}
         /\ reserve[j] \in Nat /\ remainder[j] \in Nat /\ Amount[j] \in Nat \ {0} /\ Spent(j) \in Nat
         /\ \A s \in Steps : /\ value[j][s] \in Nat /\ cost[j][s] \in Nat
                             /\ status[j][s] \in {"none", "prepared", "broadcast", "confirmed", "failed"}
                             /\ chain[j][s] \in {"unseen", "known", "ok", "reverted"}
         /\ \A s \in FromDeposit : funded[j][s] \in Nat /\ Due(j, s) \in Nat
         /\ PlanInv(j) /\ FromDeposit \subseteq Steps
<1>1. TypeOK /\ PlanInv(j) /\ Amount[j] \in Nat \ {0}
  BY Parameters DEF IInv
<1>2. /\ state \in [Jobs -> Open \cup {"absent", "done", "action_required"}]
      /\ reserve \in [Jobs -> Nat] /\ remainder \in [Jobs -> Nat]
  BY <1>1 DEF TypeOK
<1>3. /\ status \in [Jobs -> [Steps -> {"none", "prepared", "broadcast", "confirmed", "failed"}]]
      /\ value \in [Jobs -> [Steps -> Nat]] /\ cost \in [Jobs -> [Steps -> Nat]]
      /\ funded \in [Jobs -> [FromDeposit -> Nat]]
      /\ chain \in [Jobs -> [Steps -> {"unseen", "known", "ok", "reverted"}]]
  BY <1>1 DEF TypeOK
<1>4. FromDeposit \subseteq Steps
  BY DEF FromDeposit, Steps
<1> QED BY ONLY <1>1, <1>2, <1>3, <1>4, IInv, NativeTypes, j \in Jobs

\* Nobody's row or plan moves, and no address has less.
LEMMA BooksSame ==
  ASSUME IInv, UNCHANGED <<state, reserve, remainder, txVars, chain>>,
         deposit' \in Nat, service' \in Nat, deposit' >= deposit, service' >= service
  PROVE  Books'
<1>1. UNCHANGED <<state, reserve, remainder, status, value, cost, funded, chain>>
  BY DEF txVars
<1>2. Unconfirmed' = Unconfirmed
  BY <1>1 DEF Unconfirmed
<1>3. JournalInv' /\ OneUnconfirmed'
  BY <1>1, <1>2 DEF IInv, JournalInv, OneUnconfirmed
<1>4. Covered'
  <2> SUFFICES ASSUME NEW t \in Unconfirmed, chain[t[1]][t[2]] \in {"unseen", "known"}
               PROVE  Balance(t[2])' >= cost[t[1]][t[2]]
                        + (IF t[2] \in Gas \/ (t[2] \in FromDeposit /\ t[1] \notin Tokens)
                           THEN value[t[1]][t[2]] ELSE 0)
    BY <1>1, <1>2 DEF Covered
  <2>1. Balance(t[2]) >= cost[t[1]][t[2]]
                        + (IF t[2] \in Gas \/ (t[2] \in FromDeposit /\ t[1] \notin Tokens)
                           THEN value[t[1]][t[2]] ELSE 0)
    BY DEF IInv, Covered
  <2>2. Balance(t[2]) \in Nat /\ Balance(t[2])' \in Nat /\ Balance(t[2])' >= Balance(t[2])
    BY DEF Balance, IInv, TypeOK
  <2>3. value[t[1]][t[2]] \in Nat /\ cost[t[1]][t[2]] \in Nat
    BY JobIs DEF Unconfirmed
  <2> QED BY <2>1, <2>2, <2>3
<1>5. ASSUME NEW j \in Jobs PROVE PlanInv(j)'
  <2>1. PlanInv(j)
    BY JobIs
  <2> QED BY ONLY <1>1, <2>1 DEF PlanInv, Due
<1>6. OwnReceipts'
  BY <1>1 DEF IInv, OwnReceipts, Takes
<1>7. DoneIsPaid'
  BY <1>1 DEF IInv, DoneIsPaid, Spent
<1> QED BY <1>3, <1>4, <1>5, <1>6, <1>7 DEF Books

\* A job's state or plan moves.
LEMMA PlanMoves ==
  ASSUME IInv, NEW j \in Jobs, UNCHANGED <<txVars, chainVars>>,
         \A i \in Jobs : i # j => /\ state'[i] = state[i] /\ reserve'[i] = reserve[i]
                                  /\ remainder'[i] = remainder[i],
         PlanInv(j)',
         state'[j] = "done" =>
            \/ remainder'[j] = 0
            \/ chain[j]["payout"] = "ok" /\ (j \in Tokens => value[j]["payout"] = remainder'[j])
            \/ j \notin Tokens /\ \E f \in Fees : Amount[j] - Spent(j) <= f
  PROVE  Books'
<1>1. UNCHANGED <<status, value, cost, funded, chain, deposit, service>>
  BY DEF txVars, chainVars
<1>2. Unconfirmed' = Unconfirmed
  BY <1>1 DEF Unconfirmed
<1>3. JournalInv' /\ OneUnconfirmed' /\ Covered'
  BY <1>1, <1>2 DEF IInv, JournalInv, OneUnconfirmed, Covered, Balance
<1>4. ASSUME NEW i \in Jobs, i # j PROVE PlanInv(i)'
  <2>1. PlanInv(i)
    BY JobIs
  <2>2. state'[i] = state[i] /\ reserve'[i] = reserve[i] /\ remainder'[i] = remainder[i]
    BY <1>4
  <2> QED BY ONLY <1>1, <2>1, <2>2 DEF PlanInv, Due, FromDeposit
<1>5. OwnReceipts'
  BY <1>1 DEF IInv, OwnReceipts, Takes
<1>6. DoneIsPaid'
  <2> SUFFICES ASSUME NEW i \in Jobs, state'[i] = "done"
               PROVE  \/ remainder'[i] = 0
                      \/ chain[i]["payout"] = "ok" /\ (i \in Tokens => value[i]["payout"] = remainder'[i])
                      \/ i \notin Tokens /\ \E f \in Fees : Amount[i] - Spent(i) <= f
    BY <1>1 DEF DoneIsPaid, Spent
  <2> QED BY DEF IInv, DoneIsPaid
<1> QED BY <1>3, <1>4, <1>5, <1>6 DEF Books
LEMMA PlanBooks ==
  ASSUME IInv, NEW n \in Nodes,
         \/ Enqueue(n) \/ Plan(n) \/ SkipReserve(n) \/ NothingLeft(n) \/ NothingDue(n)
         \/ Terminal(n) \/ Advance(n)
  PROVE  Books'
<1>1. CASE Enqueue(n)
  <2>1. /\ UNCHANGED <<reserve, remainder, txVars, chainVars>>
        /\ state' = [i \in Jobs |-> IF i \in paid /\ state[i] = "absent" THEN "new" ELSE state[i]]
    BY <1>1 DEF Enqueue
  <2>2. UNCHANGED <<status, value, cost, funded, chain, deposit, service>>
    BY <2>1 DEF txVars, chainVars
  <2>3. \A i \in Jobs : state'[i] = state[i] \/ (state[i] = "absent" /\ state'[i] = "new")
    BY <2>1
  <2>4. Unconfirmed' = Unconfirmed
    BY <2>2 DEF Unconfirmed
  <2>5. JournalInv' /\ OneUnconfirmed' /\ Covered' /\ OwnReceipts'
    BY <2>2, <2>4 DEF IInv, JournalInv, OneUnconfirmed, Covered, Balance, OwnReceipts, Takes
  <2>6. ASSUME NEW i \in Jobs PROVE PlanInv(i)'
    <3>1. PlanInv(i)
      BY JobIs
    <3> QED BY ONLY <2>1, <2>2, <2>3, <3>1, i \in Jobs DEF PlanInv, Due
  <2>7. DoneIsPaid'
    BY <2>1, <2>2, <2>3 DEF IInv, DoneIsPaid, Spent
  <2> QED BY <2>5, <2>6, <2>7 DEF Books
<1>a. CASE ~Enqueue(n)
  <2>0. at[n] \in Jobs
    BY <1>a, AtIs DEF Plan, SkipReserve, NothingLeft, NothingDue, Terminal, Advance
  <2>1. PICK j \in Jobs : j = at[n]
    BY <2>0
  <2>h. HandInv(n)
    BY DEF IInv
  <2>2. /\ state[j] \in Open \cup {"absent", "done", "action_required"}
        /\ reserve[j] \in Nat /\ remainder[j] \in Nat /\ Amount[j] \in Nat /\ Spent(j) \in Nat
        /\ PlanInv(j)
        /\ \A s \in Steps : status[j][s] \in {"none", "prepared", "broadcast", "confirmed", "failed"}
    BY <2>1, JobIs
  <2>3. UNCHANGED <<txVars, chainVars, status, value, cost, funded, chain>>
    BY <1>a DEF Plan, SkipReserve, NothingLeft, NothingDue, Terminal, Advance, txVars, chainVars
  <2>4. /\ state \in [Jobs -> Open \cup {"absent", "done", "action_required"}]
        /\ reserve \in [Jobs -> Nat] /\ remainder \in [Jobs -> Nat]
    BY DEF IInv, TypeOK
  <2>5. {"reserve", "payout"} \subseteq Steps /\ FromDeposit = {"reserve", "payout"}
    BY DEF Steps, FromDeposit
  <2>6. CASE Plan(n)
    <3> DEFINE r == IF service < Low THEN Lesser(Amount[j], Refill[j]) ELSE 0
    <3>1. /\ state[j] = "new" /\ state' = [state EXCEPT ![j] = "reserve"]
          /\ reserve' = [reserve EXCEPT ![j] = r]
          /\ remainder' = [remainder EXCEPT ![j] = Amount[j] - r]
      BY <2>1, <2>6 DEF Plan
    <3>2. r \in Nat
      BY <2>1, Parameters DEF Lesser
    <3> HIDE DEF r
    <3>3. /\ state'[j] = "reserve" /\ reserve'[j] = r /\ remainder'[j] = Amount[j] - r
          /\ \A i \in Jobs : i # j => /\ state'[i] = state[i] /\ reserve'[i] = reserve[i]
                                      /\ remainder'[i] = remainder[i]
      BY <2>1, <2>4, <3>1
    <3>4. status[j]["reserve"] = "none" /\ status[j]["payout"] = "none"
      BY <2>2, <3>1 DEF PlanInv
    <3>5. PlanInv(j)'
      BY <2>2, <2>3, <2>5, <3>2, <3>3, <3>4 DEF PlanInv
    <3> QED BY <2>1, <2>3, <3>3, <3>5, PlanMoves
  <2>7. CASE SkipReserve(n)
    <3>1. /\ state[j] = "reserve" /\ status[j]["reserve"] = "none" /\ UNCHANGED state
          /\ reserve' = [reserve EXCEPT ![j] = 0]
          /\ remainder' = [remainder EXCEPT ![j] = Amount[j]]
      BY <2>1, <2>7 DEF SkipReserve, Refilled
    <3>3. /\ reserve'[j] = 0 /\ remainder'[j] = Amount[j]
          /\ \A i \in Jobs : i # j => /\ state'[i] = state[i] /\ reserve'[i] = reserve[i]
                                      /\ remainder'[i] = remainder[i]
      BY <2>1, <2>4, <3>1
    <3>4. status[j]["payout"] = "none"
      BY <2>2, <3>1 DEF PlanInv
    <3>5. PlanInv(j)'
      BY <2>2, <2>3, <2>5, <3>1, <3>3, <3>4 DEF PlanInv
    <3> QED BY <2>1, <2>3, <3>1, <3>3, <3>5, PlanMoves
  <2>8. ASSUME NEW x \in {"payout", "swap", "done", "action_required"},
               state' = [state EXCEPT ![j] = x], UNCHANGED <<reserve, remainder>>,
               x = "swap" => status[j]["payout"] = "none",
               x \in {"payout", "swap", "done"} => status[j]["reserve"] \in {"none", "confirmed"},
               x = "done" =>
                  \/ remainder[j] = 0
                  \/ chain[j]["payout"] = "ok" /\ (j \in Tokens => value[j]["payout"] = remainder[j])
                  \/ j \notin Tokens /\ \E f \in Fees : Amount[j] - Spent(j) <= f
        PROVE  Books'
    <3>1. /\ state'[j] = x
          /\ \A i \in Jobs : i # j => /\ state'[i] = state[i] /\ reserve'[i] = reserve[i]
                                      /\ remainder'[i] = remainder[i]
      BY <2>1, <2>4, <2>8
    <3>2. PlanInv(j)'
      <4>1. PlanInv(j)
        BY <2>2
      <4> QED BY ONLY <4>1, <2>3, <2>5, <2>8, <3>1 DEF PlanInv, Due
    <3> QED BY <2>1, <2>3, <2>8, <3>1, <3>2, PlanMoves
  <2>9. CASE NothingLeft(n)
    <3>1. /\ state[j] = "payout" /\ state' = [state EXCEPT ![j] = "done"]
          /\ UNCHANGED <<reserve, remainder>> /\ j \notin Tokens
          /\ NativeValue(j, "payout") <= 0 /\ Due(j, "payout") > 0
      BY <2>1, <2>9 DEF NothingLeft, Transfers
    <3>2. fee \in Fees /\ fee \in Nat /\ Due(j, "payout") \in Nat
      BY <2>1, <2>5, NativeTypes DEF IInv, TypeOK
    <3>3. Amount[j] - Spent(j) <= fee
      BY <2>2, <3>1, <3>2 DEF NativeValue, Lesser
    <3>4. status[j]["reserve"] \in {"none", "confirmed"}
      BY <2>2, <3>1 DEF PlanInv
    <3> QED BY <2>8, <3>1, <3>2, <3>3, <3>4
  <2>10. CASE NothingDue(n)
    <3>1. /\ pc[n] = "job" /\ state[j] \in {"reserve", "payout"} /\ Due(j, state[j]) = 0
          /\ state' = [state EXCEPT ![j] = IF state[j] = "reserve" THEN "payout" ELSE "done"]
          /\ UNCHANGED <<reserve, remainder>>
      BY <2>1, <2>5, <2>10 DEF NothingDue
    <3>2. CASE state[j] = "reserve"
      <4>1. reserve[j] = 0
        BY <3>1, <3>2 DEF Due
      <4>2. status[j]["reserve"] = "none"
        BY <2>2, <4>1 DEF PlanInv
      <4>3. state' = [state EXCEPT ![j] = "payout"]
        BY <3>1, <3>2
      <4> QED BY <2>8, <3>1, <4>2, <4>3
    <3>3. CASE state[j] = "payout"
      <4>1. remainder[j] = 0
        BY <3>1, <3>3 DEF Due
      <4>2. status[j]["reserve"] \in {"none", "confirmed"}
        BY <2>2, <3>3 DEF PlanInv
      <4>3. state' = [state EXCEPT ![j] = "done"]
        BY <3>1, <3>3
      <4> QED BY <2>8, <3>1, <4>1, <4>2, <4>3
    <3> QED BY <3>1, <3>2, <3>3
  <2>11. CASE Terminal(n)
    <3>1. state' = [state EXCEPT ![j] = "action_required"] /\ UNCHANGED <<reserve, remainder>>
      BY <2>1, <2>11 DEF Terminal
    <3> QED BY <2>8, <3>1
  <2>12. CASE Advance(n)
    <3> DEFINE s == step[n]
    <3>1. /\ pc[n] = "advance" /\ state' = [state EXCEPT ![j] = NextState(j, s)]
          /\ UNCHANGED <<reserve, remainder>>
      BY <2>1, <2>12 DEF Advance
    <3>2. s \in Steps /\ state[j] = StateOf(s) /\ status[j][s] = "confirmed" /\ chain[j][s] = "ok"
      BY <2>1, <2>h, <3>1 DEF HandInv, IInv, JournalInv
    <3>3. CASE s = "reserve"
      <4>1. state[j] = "reserve" /\ status[j]["payout"] = "none" /\ status[j]["reserve"] = "confirmed"
        BY <2>2, <3>2, <3>3 DEF StateOf, PlanInv
      <4>2. NextState(j, s) \in {"swap", "payout"}
        BY <3>3 DEF NextState
      <4> HIDE DEF s
      <4> QED BY <2>8, <3>1, <4>1, <4>2
    <3>4. CASE s = "payout"
      <4>1. state[j] = "payout" /\ status[j]["reserve"] \in {"none", "confirmed"}
        BY <2>2, <3>2, <3>4 DEF StateOf, PlanInv
      <4>2. NextState(j, s) = "done"
        BY <3>4 DEF NextState
      <4>3. j \in Tokens => value[j]["payout"] = remainder[j]
        BY <2>2, <2>5, <3>2, <3>4 DEF PlanInv, Due
      <4> QED BY <2>8, <3>1, <3>2, <3>4, <4>1, <4>2, <4>3
    <3>5. CASE s = "swap"
      <4>1. state[j] = "swap" /\ status[j]["reserve"] \in {"none", "confirmed"}
        BY <2>2, <3>2, <3>5 DEF StateOf, PlanInv
      <4>2. NextState(j, s) = "payout"
        BY <3>5 DEF NextState
      <4> HIDE DEF s
      <4> QED BY <2>8, <3>1, <4>1, <4>2
    <3>6. CASE s \notin {"reserve", "payout", "swap"}
      <4>1. NextState(j, s) = state[j]
        BY <3>6 DEF NextState
      <4>2. UNCHANGED state
        BY <2>1, <2>4, <3>1, <4>1
      <4>3. deposit' = deposit /\ service' = service /\ deposit \in Nat /\ service \in Nat
        BY <2>3 DEF chainVars, IInv, TypeOK
      <4>4. deposit' \in Nat /\ service' \in Nat /\ deposit' >= deposit /\ service' >= service
        BY <4>3
      <4> QED BY <2>3, <3>1, <4>2, <4>4, BooksSame
    <3> QED BY <3>3, <3>4, <3>5, <3>6
  <2> QED BY <1>a, <2>6, <2>7, <2>9, <2>10, <2>11, <2>12
<1> QED BY <1>1, <1>a

LEMMA MinesBooks ==
  ASSUME IInv, NEW j \in Jobs, NEW s \in Steps, NEW result \in {"ok", "reverted"},
         Mines(j, s, result), UNCHANGED <<jobVars, txVars>>
  PROVE  Books'
<1>1. /\ UNCHANGED <<state, reserve, remainder, status, value, cost, funded>>
      /\ chain[j][s] = "known" /\ chain' = [chain EXCEPT ![j][s] = result]
  BY DEF Mines, jobVars, txVars
<1>2. status[j][s] \in {"prepared", "broadcast"} /\ <<j, s>> \in Unconfirmed
  BY <1>1, KnownIs
<1>3. Unconfirmed' = Unconfirmed
  BY <1>1 DEF Unconfirmed
<1>4. /\ chain'[j][s] = result
      /\ \A i \in Jobs, q \in Steps : <<i, q>> # <<j, s>> => chain'[i][q] = chain[i][q]
  BY <1>1 DEF IInv, TypeOK
<1>5. JournalInv'
  <2> SUFFICES ASSUME NEW i \in Jobs, NEW q \in Steps
               PROVE  /\ status[i][q] = "none" => chain'[i][q] = "unseen"
                      /\ status[i][q] = "confirmed" => chain'[i][q] = "ok"
                      /\ status[i][q] = "failed" => chain'[i][q] = "reverted"
    BY <1>1 DEF JournalInv
  <2>1. CASE <<i, q>> = <<j, s>>
    BY <1>2, <2>1
  <2>2. CASE <<i, q>> # <<j, s>>
    BY <1>4, <2>2 DEF IInv, JournalInv
  <2> QED BY <2>1, <2>2
<1>6. OneUnconfirmed'
  BY <1>3 DEF IInv, OneUnconfirmed
<1>7. Covered'
  <2>1. \A t \in Unconfirmed : t = <<j, s>>
    BY <1>2 DEF IInv, OneUnconfirmed
  <2>2. \A t \in Unconfirmed : chain'[t[1]][t[2]] \notin {"unseen", "known"}
    BY <1>4, <2>1
  <2> QED BY <1>3, <2>2 DEF Covered
<1>8. ASSUME NEW i \in Jobs PROVE PlanInv(i)'
  <2>1. PlanInv(i)
    BY JobIs
  <2> QED BY ONLY <1>1, <2>1 DEF PlanInv, Due
<1>9. OwnReceipts'
  BY <1>1 DEF IInv, OwnReceipts, Takes
<1>10. DoneIsPaid'
  <2>1. \A i \in Jobs : chain[i]["payout"] = "ok" => chain'[i]["payout"] = "ok"
    BY <1>1, <1>4 DEF Steps
  <2> QED BY <1>1, <2>1 DEF IInv, DoneIsPaid, Spent
<1> QED BY <1>5, <1>6, <1>7, <1>8, <1>9, <1>10 DEF Books
\* A signed transaction is broadcast, or its receipt is read.
LEMMA SettleBooks ==
  ASSUME IInv, NEW j \in Jobs, NEW s \in Steps, NEW x \in {"broadcast", "confirmed", "failed"},
         status[j][s] \in {"prepared", "broadcast"}, status' = [status EXCEPT ![j][s] = x],
         UNCHANGED <<state, reserve, remainder, value, cost, deposit, service>>,
         \A i \in Jobs, q \in FromDeposit : funded'[i][q] \in Nat /\ funded'[i][q] >= funded[i][q],
         \A i \in Jobs, q \in Steps : \/ chain'[i][q] = chain[i][q]
                                      \/ i = j /\ q = s /\ chain[i][q] = "unseen"
                                         /\ chain'[i][q] \in {"unseen", "known"},
         x = "confirmed" => chain[j][s] = "ok", x = "failed" => chain[j][s] = "reverted"
  PROVE  Books'
<1>1. /\ status'[j][s] = x
      /\ \A i \in Jobs, q \in Steps : <<i, q>> # <<j, s>> => status'[i][q] = status[i][q]
  BY DEF IInv, TypeOK
<1>2. Unconfirmed' \subseteq Unconfirmed
  BY <1>1 DEF Unconfirmed
<1>3. JournalInv'
  <2> SUFFICES ASSUME NEW i \in Jobs, NEW q \in Steps
               PROVE  /\ status'[i][q] = "none" => chain'[i][q] = "unseen"
                      /\ status'[i][q] = "confirmed" => chain'[i][q] = "ok"
                      /\ status'[i][q] = "failed" => chain'[i][q] = "reverted"
    BY DEF JournalInv
  <2>1. CASE <<i, q>> = <<j, s>>
    BY <1>1, <2>1
  <2>2. CASE <<i, q>> # <<j, s>>
    <3>1. status'[i][q] = status[i][q] /\ chain'[i][q] = chain[i][q]
      BY <1>1, <2>2
    <3> QED BY <3>1 DEF IInv, JournalInv
  <2> QED BY <2>1, <2>2
<1>4. OneUnconfirmed'
  BY <1>2 DEF IInv, OneUnconfirmed
<1>5. Covered'
  <2> SUFFICES ASSUME NEW t \in Unconfirmed, chain'[t[1]][t[2]] \in {"unseen", "known"}
               PROVE  Balance(t[2]) >= cost[t[1]][t[2]]
                        + (IF t[2] \in Gas \/ (t[2] \in FromDeposit /\ t[1] \notin Tokens)
                           THEN value[t[1]][t[2]] ELSE 0)
    BY <1>2 DEF Covered, Balance
  <2>1. t[1] \in Jobs /\ t[2] \in Steps
    BY DEF Unconfirmed
  <2>2. chain[t[1]][t[2]] \in {"unseen", "known"}
    BY <2>1
  <2> QED BY <2>2 DEF IInv, Covered
<1>6. ASSUME NEW i \in Jobs PROVE PlanInv(i)'
  <2>1. PlanInv(i) /\ \A q \in Steps : cost[i][q] \in Nat
    BY JobIs
  <2>2. {"reserve", "payout"} \subseteq Steps /\ FromDeposit = {"reserve", "payout"}
    BY DEF Steps, FromDeposit
  <2>3. \A q \in Steps : /\ status'[i][q] = status[i][q] \/ status[i][q] \in {"prepared", "broadcast"}
                         /\ status'[i][q] = "none" <=> status[i][q] = "none"
    BY <1>1
  <2>4. /\ reserve[i] + remainder[i] <= Amount[i]
        /\ state'[i] \in {"absent", "new"} => status'[i]["reserve"] = "none"
        /\ state'[i] \in {"absent", "new", "reserve", "swap"} => status'[i]["payout"] = "none"
        /\ state'[i] \in {"swap", "payout", "done"} => status'[i]["reserve"] \in {"none", "confirmed"}
        /\ status'[i]["reserve"] # "none" => reserve[i] > 0
    BY <2>1, <2>2, <2>3 DEF PlanInv
  <2>5. ASSUME i \in Tokens, NEW q \in FromDeposit, status'[i][q] # "none"
        PROVE  value[i][q] = Due(i, q) /\ cost[i][q] <= funded'[i][q]
    <3>1. status[i][q] # "none"
      BY <2>2, <2>3, <2>5
    <3>2. value[i][q] = Due(i, q) /\ cost[i][q] <= funded[i][q]
      BY <2>1, <2>5, <3>1 DEF PlanInv
    <3>3. cost[i][q] \in Nat /\ funded[i][q] \in Nat /\ funded'[i][q] \in Nat
      BY <2>2, JobIs
    <3> QED BY <3>2, <3>3
  <2> QED BY <2>4, <2>5 DEF PlanInv, Due
<1>7. \A i \in Jobs, q \in Steps : Takes(i, q)' = Takes(i, q)
  BY <1>1 DEF Takes
<1>8. OwnReceipts'
  <2>1. FromDeposit = {"reserve", "payout"} /\ FromDeposit \subseteq Steps
    BY DEF Steps, FromDeposit
  <2>2. ASSUME NEW i \in Jobs
        PROVE  Takes(i, "reserve")' + Takes(i, "payout")' <= Amount[i]
    BY <1>7, <2>1 DEF IInv, OwnReceipts
  <2>3. ASSUME NEW i \in Jobs, i \in Tokens, NEW q \in FromDeposit, status'[i][q] # "none"
        PROVE  cost'[i][q] <= funded'[i][q]
    BY <1>6, <2>3 DEF PlanInv
  <2> QED BY <2>2, <2>3 DEF OwnReceipts
<1>9. ASSUME NEW i \in Jobs PROVE Spent(i)' >= Spent(i) /\ Spent(i)' \in Nat /\ Spent(i) \in Nat
  <2>1. {"reserve", "payout"} \subseteq Steps /\ \A q \in Steps : value[i][q] \in Nat /\ cost[i][q] \in Nat
    BY JobIs DEF Steps
  <2>2. \A q \in Steps : status[i][q] = "confirmed" => status'[i][q] = "confirmed"
    BY <1>1
  <2> QED BY <2>1, <2>2 DEF Spent
<1>10. DoneIsPaid'
  <2> SUFFICES ASSUME NEW i \in Jobs, state[i] = "done"
               PROVE  \/ remainder[i] = 0
                      \/ chain'[i]["payout"] = "ok" /\ (i \in Tokens => value[i]["payout"] = remainder[i])
                      \/ i \notin Tokens /\ \E f \in Fees : Amount[i] - Spent(i)' <= f
    BY DEF DoneIsPaid
  <2>1. \/ remainder[i] = 0
        \/ chain[i]["payout"] = "ok" /\ (i \in Tokens => value[i]["payout"] = remainder[i])
        \/ i \notin Tokens /\ \E f \in Fees : Amount[i] - Spent(i) <= f
    BY DEF IInv, DoneIsPaid
  <2>2. chain[i]["payout"] = "ok" => chain'[i]["payout"] = "ok"
    BY DEF Steps
  <2>3. \A f \in Fees : Amount[i] - Spent(i) <= f => Amount[i] - Spent(i)' <= f
    BY <1>9, Parameters
  <2> QED BY <2>1, <2>2, <2>3
<1> QED BY <1>3, <1>4, <1>5, <1>6, <1>8, <1>10 DEF Books

\* A transaction is signed: the job's step allows it and its sender can pay.
LEMMA PrepareBooks ==
  ASSUME IInv, NEW n \in Nodes, Prepare(n)
  PROVE  Books'
<1>1. PICK j \in Jobs, s \in Steps : j = at[n] /\ s = step[n]
  BY AtIs DEF Prepare
<1>2. /\ pc[n] = "send" /\ Fresh(j, s) /\ WithinCap(n) /\ Balance(s) >= Needed(j, s, request[n])
      /\ status' = [status EXCEPT ![j][s] = "prepared"]
      /\ value' = [value EXCEPT ![j][s] = request[n]]
      /\ cost' = [cost EXCEPT ![j][s] = fee]
      /\ chain' = [chain EXCEPT ![j][s] = "unseen"]
      /\ UNCHANGED <<state, reserve, remainder, funded, deposit, service>>
  BY <1>1 DEF Prepare, CanPay, jobVars
<1>3. Unconfirmed = {} /\ state[j] = StateOf(s) /\ RequestInv(n)
  BY <1>1, <1>2 DEF IInv, HandInv
<1>4. request[n] \in Nat /\ fee \in Nat /\ cap[n] \in Nat \cup {NoCap}
  BY Parameters DEF IInv, TypeOK
<1>5. /\ status'[j][s] = "prepared" /\ value'[j][s] = request[n] /\ cost'[j][s] = fee
      /\ chain'[j][s] = "unseen"
      /\ \A i \in Jobs, q \in Steps : <<i, q>> # <<j, s>> =>
           /\ status'[i][q] = status[i][q] /\ value'[i][q] = value[i][q]
           /\ cost'[i][q] = cost[i][q] /\ chain'[i][q] = chain[i][q]
  BY <1>2 DEF IInv, TypeOK
<1>6. Unconfirmed' \subseteq {<<j, s>>}
  <2> SUFFICES ASSUME NEW i \in Jobs, NEW q \in Steps, <<i, q>> \in Unconfirmed', <<i, q>> # <<j, s>>
               PROVE  FALSE
    BY DEF Unconfirmed
  <2>1. status[i][q] \in {"prepared", "broadcast"}
    BY <1>5, UnconfirmedIs
  <2> QED BY <1>3, <2>1, UnconfirmedIs
<1>7. JournalInv'
  <2> SUFFICES ASSUME NEW i \in Jobs, NEW q \in Steps
               PROVE  /\ status'[i][q] = "none" => chain'[i][q] = "unseen"
                      /\ status'[i][q] = "confirmed" => chain'[i][q] = "ok"
                      /\ status'[i][q] = "failed" => chain'[i][q] = "reverted"
    BY DEF JournalInv
  <2>1. CASE <<i, q>> = <<j, s>>
    BY <1>5, <2>1
  <2>2. CASE <<i, q>> # <<j, s>>
    BY <1>5, <2>2 DEF IInv, JournalInv
  <2> QED BY <2>1, <2>2
<1>8. OneUnconfirmed'
  BY <1>6 DEF OneUnconfirmed
<1>9. Covered'
  <2>1. Balance(s)' = Balance(s)
    BY <1>2 DEF Balance
  <2>2. Balance(s) >= cost'[j][s] + (IF s \in Gas \/ (s \in FromDeposit /\ j \notin Tokens)
                                     THEN value'[j][s] ELSE 0)
    BY <1>2, <1>4, <1>5 DEF Needed
  <2> QED BY <1>6, <2>1, <2>2 DEF Covered
<1>10. s \in FromDeposit =>
         /\ status[j][s] = "none" /\ Due(j, s) > 0
         /\ IF j \in Tokens THEN value'[j][s] = Due(j, s) /\ cost'[j][s] <= funded[j][s]
                            ELSE value'[j][s] + cost'[j][s] <= Amount[j] - Spent(j)
  <2> HAVE s \in FromDeposit
  <2>1. status[j][s] = "none"
    BY <1>2 DEF Fresh, Gas, FromDeposit
  <2>2. /\ Due(j, s) > 0
        /\ IF j \in Tokens THEN request[n] = Due(j, s) /\ cap[n] = funded[j][s]
           ELSE cap[n] # NoCap /\ request[n] + cap[n] <= Amount[j] - Spent(j)
    BY <1>1, <1>2, <1>3, <2>1 DEF RequestInv
  <2>3. funded[j][s] \in Nat /\ Spent(j) \in Nat /\ Amount[j] \in Nat
    BY JobIs
  <2>4. cap[n] # NoCap => fee <= cap[n]
    BY <1>2 DEF WithinCap
  <2>5. cap[n] # NoCap
    BY <2>2, <2>3 DEF NoCap
  <2> QED BY <1>4, <1>5, <2>1, <2>2, <2>3, <2>4, <2>5
<1>11. ASSUME NEW i \in Jobs PROVE PlanInv(i)'
  <2>1. PlanInv(i)
    BY JobIs
  <2>2. {"reserve", "payout"} \subseteq Steps /\ FromDeposit = {"reserve", "payout"}
    BY DEF Steps, FromDeposit
  <2>3. CASE i # j
    <3>1. \A q \in Steps : /\ status'[i][q] = status[i][q] /\ value'[i][q] = value[i][q]
                           /\ cost'[i][q] = cost[i][q]
      BY <1>5, <2>3
    <3> QED BY ONLY <1>2, <2>1, <2>2, <3>1 DEF PlanInv, Due
  <2>4. CASE i = j
    <3>1. \A q \in FromDeposit : q # s => /\ status'[j][q] = status[j][q]
                                          /\ value'[j][q] = value[j][q] /\ cost'[j][q] = cost[j][q]
      BY <1>5, <2>2
    <3>2. /\ s = "reserve" => state[j] = "reserve"
          /\ s = "payout" => state[j] = "payout"
      BY <1>3 DEF StateOf
    <3>3. s = "reserve" => reserve[j] > 0
      BY <1>10, <2>2 DEF Due
    <3>4. \A q \in FromDeposit : Due(j, q)' = Due(j, q)
      BY <1>2 DEF Due
    <3>5. j \in Tokens => \A q \in FromDeposit :
            status'[j][q] # "none" => value'[j][q] = Due(j, q) /\ cost'[j][q] <= funded[j][q]
      BY <1>10, <2>1, <2>4, <3>1 DEF PlanInv
    <3>6. /\ reserve[j] + remainder[j] <= Amount[j]
          /\ state[j] \in {"absent", "new"} => status'[j]["reserve"] = "none"
          /\ state[j] \in {"absent", "new", "reserve", "swap"} => status'[j]["payout"] = "none"
          /\ state[j] \in {"swap", "payout", "done"} => status'[j]["reserve"] \in {"none", "confirmed"}
          /\ status'[j]["reserve"] # "none" => reserve[j] > 0
      BY <2>1, <2>2, <2>4, <3>1, <3>2, <3>3 DEF PlanInv
    <3> QED BY <1>2, <2>4, <3>4, <3>5, <3>6 DEF PlanInv
  <2> QED BY <2>3, <2>4
<1>12. OwnReceipts'
  <2>1. {"reserve", "payout"} \subseteq Steps /\ FromDeposit = {"reserve", "payout"}
    BY DEF Steps, FromDeposit
  <2>2. ASSUME NEW i \in Jobs PROVE Takes(i, "reserve")' + Takes(i, "payout")' <= Amount[i]
    <3>0. Takes(i, "reserve") + Takes(i, "payout") <= Amount[i]
      BY DEF IInv, OwnReceipts
    <3>1. CASE i # j \/ s \notin FromDeposit
      <4>1. \A q \in FromDeposit : Takes(i, q)' = Takes(i, q)
        BY <1>5, <2>1, <3>1 DEF Takes
      <4> QED BY <2>1, <3>0, <4>1
    <3>2. CASE i = j /\ s \in FromDeposit /\ j \in Tokens
      <4>1. \A q \in FromDeposit : Takes(j, q)' \in Nat /\ Takes(j, q)' <= Due(j, q) /\ Due(j, q) \in Nat
        <5> TAKE q \in FromDeposit
        <5>1. Due(j, q) \in Nat
          BY JobIs
        <5>2. status'[j][q] # "none" => value'[j][q] = Due(j, q)'
          BY <1>11, <3>2 DEF PlanInv
        <5>3. Due(j, q)' = Due(j, q)
          BY <1>2 DEF Due
        <5> QED BY <3>2, <5>1, <5>2, <5>3 DEF Takes
      <4>2. Due(j, "reserve") + Due(j, "payout") <= Amount[j]
        BY JobIs DEF PlanInv, Due
      <4>3. Amount[j] \in Nat
        BY JobIs
      <4>4. /\ Takes(j, "reserve")' \in Nat /\ Takes(j, "reserve")' <= Due(j, "reserve")
            /\ Takes(j, "payout")' \in Nat /\ Takes(j, "payout")' <= Due(j, "payout")
            /\ Due(j, "reserve") \in Nat /\ Due(j, "payout") \in Nat
        BY <2>1, <4>1
      <4> HIDE DEF Takes
      <4> QED BY <3>2, <4>2, <4>3, <4>4
    <3>3. CASE i = j /\ s \in FromDeposit /\ j \notin Tokens
      <4>1. /\ value'[j][s] + cost'[j][s] <= Amount[j] - Spent(j) /\ status[j][s] = "none"
            /\ Takes(j, s)' = value'[j][s] + cost'[j][s]
        BY <1>5, <1>10, <3>3 DEF Takes
      <4>2. /\ Amount[j] \in Nat /\ Spent(j) \in Nat
            /\ \A q \in Steps : value[j][q] \in Nat /\ cost[j][q] \in Nat
        BY JobIs
      <4>3. CASE s = "reserve"
        <5>1. status[j]["payout"] = "none"
          BY <1>3, <4>3, JobIs DEF PlanInv, StateOf
        <5>2. Takes(j, "payout")' = 0
          BY <1>5, <2>1, <4>3, <5>1 DEF Takes
        <5> QED BY <1>4, <1>5, <3>3, <4>1, <4>2, <4>3, <5>2
      <4>4. CASE s = "payout"
        <5>1. status[j]["reserve"] \in {"none", "confirmed"}
          BY <1>3, <4>4, JobIs DEF PlanInv, StateOf
        <5>2. Takes(j, "reserve")' = Takes(j, "reserve")
          BY <1>5, <2>1, <4>4 DEF Takes
        <5>3. Takes(j, "reserve") = Spent(j)
          BY <2>1, <3>3, <4>1, <4>2, <4>4, <5>1 DEF Takes, Spent
        <5> QED BY <1>4, <1>5, <3>3, <4>1, <4>2, <4>4, <5>2, <5>3
      <4> QED BY <3>3, <4>3, <4>4 DEF FromDeposit
    <3> QED BY <3>1, <3>2, <3>3
  <2>3. ASSUME NEW i \in Jobs, i \in Tokens, NEW q \in FromDeposit, status'[i][q] # "none"
        PROVE  cost'[i][q] <= funded'[i][q]
    BY <1>11, <2>3 DEF PlanInv
  <2> QED BY <2>2, <2>3 DEF OwnReceipts
<1>13. DoneIsPaid'
  <2> SUFFICES ASSUME NEW i \in Jobs, state[i] = "done"
               PROVE  \/ remainder[i] = 0
                      \/ chain'[i]["payout"] = "ok" /\ (i \in Tokens => value'[i]["payout"] = remainder[i])
                      \/ i \notin Tokens /\ \E f \in Fees : Amount[i] - Spent(i)' <= f
    BY <1>2 DEF DoneIsPaid
  <2>1. i # j
    BY <1>3 DEF StateOf
  <2>2. {"reserve", "payout"} \subseteq Steps
    BY DEF Steps
  <2>3. /\ chain'[i]["payout"] = chain[i]["payout"] /\ value'[i]["payout"] = value[i]["payout"]
        /\ Spent(i)' = Spent(i)
    BY <1>5, <2>1, <2>2 DEF Spent
  <2> QED BY <2>3 DEF IInv, DoneIsPaid
<1> QED BY <1>7, <1>8, <1>9, <1>11, <1>12, <1>13 DEF Books
\* The rest of send().
LEMMA SendBooks ==
  ASSUME IInv, NEW n \in Nodes,
         Prepare(n) \/ SendAgain(n) \/ ReadReceipt(n) \/ \E seen \in {"unseen", "known"} : Broadcasts(n, seen)
  PROVE  Books'
<1>1. PICK j \in Jobs, s \in Steps : j = at[n] /\ s = step[n]
  BY AtIs DEF Prepare, SendAgain, ReadReceipt, Broadcasts
<1>2. pc[n] \in {"receipt", "broadcast"} => status[j][s] \in {"prepared", "broadcast"}
  BY <1>1, UnconfirmedIs DEF IInv, HandInv
<1>3. /\ funded \in [Jobs -> [FromDeposit -> Nat]] /\ value[j][s] \in Nat
      /\ status \in [Jobs -> [Steps -> {"none", "prepared", "broadcast", "confirmed", "failed"}]]
      /\ chain \in [Jobs -> [Steps -> {"unseen", "known", "ok", "reverted"}]]
      /\ deposit \in Nat /\ service \in Nat
  BY JobIs DEF IInv, TypeOK
<1>4. CASE Prepare(n)
  BY <1>4, PrepareBooks
<1>5. ASSUME UNCHANGED <<state, reserve, remainder, txVars, chainVars>> PROVE Books'
  <2>1. deposit' = deposit /\ service' = service /\ UNCHANGED chain
    BY <1>5 DEF chainVars
  <2>2. deposit' \in Nat /\ service' \in Nat /\ deposit' >= deposit /\ service' >= service
    BY <1>3, <2>1
  <2> QED BY <1>5, <2>1, <2>2, BooksSame
<1>6. CASE SendAgain(n)
  BY <1>5, <1>6 DEF SendAgain, jobVars
<1>7. CASE ReadReceipt(n)
  <2>0. /\ status[j][s] \in {"prepared", "broadcast"} /\ chain' = chain
        /\ UNCHANGED <<state, reserve, remainder, value, cost, deposit, service, chainVars>>
    BY <1>2, <1>7 DEF ReadReceipt, jobVars, chainVars
  <2>1. \A i \in Jobs, q \in FromDeposit : funded[i][q] \in Nat /\ funded[i][q] >= funded[i][q]
    BY <1>3
  <2>2. CASE chain[j][s] = "ok"
    <3>1. /\ status' = [status EXCEPT ![j][s] = "confirmed"]
          /\ \/ UNCHANGED funded
             \/ \E q \in FromDeposit : funded' = [funded EXCEPT ![j][q] = funded[j][q] + value[j][s]]
      BY <1>1, <1>7, <2>2 DEF ReadReceipt, FromDeposit
    <3>2. \A i \in Jobs, q \in FromDeposit : funded'[i][q] \in Nat /\ funded'[i][q] >= funded[i][q]
      <4>1. CASE UNCHANGED funded
        BY <2>1, <4>1
      <4>2. ASSUME NEW p \in FromDeposit, funded' = [funded EXCEPT ![j][p] = funded[j][p] + value[j][s]]
            PROVE  \A i \in Jobs, q \in FromDeposit : funded'[i][q] \in Nat /\ funded'[i][q] >= funded[i][q]
        <5> TAKE i \in Jobs, q \in FromDeposit
        <5>1. funded[i][q] \in Nat /\ funded[j][p] \in Nat
          BY <1>3
        <5>2. funded'[i][q] = IF i = j /\ q = p THEN funded[j][p] + value[j][s] ELSE funded[i][q]
          BY <1>3, <4>2
        <5> QED BY <1>3, <5>1, <5>2
      <4> QED BY <3>1, <4>1, <4>2
    <3> QED BY <2>0, <2>2, <3>1, <3>2, SettleBooks
  <2>3. CASE chain[j][s] = "reverted"
    <3>1. status' = [status EXCEPT ![j][s] = "failed"] /\ UNCHANGED funded
      BY <1>1, <1>7, <2>3 DEF ReadReceipt
    <3> QED BY <2>0, <2>1, <2>3, <3>1, SettleBooks
  <2>4. CASE chain[j][s] \notin {"ok", "reverted"}
    BY <1>1, <1>5, <1>7, <2>0, <2>4 DEF ReadReceipt, txVars
  <2> QED BY <2>2, <2>3, <2>4
<1>8. ASSUME NEW seen \in {"unseen", "known"}, Broadcasts(n, seen) PROVE Books'
  <2>1. /\ status[j][s] \in {"prepared", "broadcast"}
        /\ status' = [status EXCEPT ![j][s] = "broadcast"]
        /\ chain' = [chain EXCEPT ![j][s] = IF chain[j][s] = "unseen" THEN seen ELSE chain[j][s]]
        /\ UNCHANGED <<state, reserve, remainder, value, cost, funded, deposit, service>>
    BY <1>1, <1>2, <1>8 DEF Broadcasts, jobVars
  <2>2. \A i \in Jobs, q \in FromDeposit : funded'[i][q] \in Nat /\ funded'[i][q] >= funded[i][q]
    BY <1>3, <2>1
  <2>3. \A i \in Jobs, q \in Steps : \/ chain'[i][q] = chain[i][q]
                                     \/ i = j /\ q = s /\ chain[i][q] = "unseen"
                                        /\ chain'[i][q] \in {"unseen", "known"}
    <3>1. CASE chain[j][s] = "unseen"
      <4>1. chain' = [chain EXCEPT ![j][s] = seen]
        BY <2>1, <3>1
      <4>2. \A i \in Jobs, q \in Steps :
              chain'[i][q] = IF i = j /\ q = s THEN seen ELSE chain[i][q]
        BY <1>3, <4>1
      <4> QED BY <3>1, <4>2
    <3>2. CASE chain[j][s] # "unseen"
      <4>1. chain' = [chain EXCEPT ![j][s] = chain[j][s]]
        BY <2>1, <3>2
      <4>2. \A i \in Jobs, q \in Steps :
              chain'[i][q] = IF i = j /\ q = s THEN chain[j][s] ELSE chain[i][q]
        BY <1>3, <4>1
      <4>3. ASSUME NEW i \in Jobs, NEW q \in Steps PROVE chain'[i][q] = chain[i][q]
        <5>1. CASE i = j /\ q = s
          BY <4>2, <5>1
        <5>2. CASE ~(i = j /\ q = s)
          BY <4>2, <5>2
        <5> QED BY <5>1, <5>2
      <4> QED BY <4>3
    <3> QED BY <3>1, <3>2
  <2>4. PICK x \in {"broadcast", "confirmed", "failed"} : x = "broadcast"
    OBVIOUS
  <2>5. x # "confirmed" /\ x # "failed" /\ status' = [status EXCEPT ![j][s] = x]
    BY <2>1, <2>4
  <2>6. UNCHANGED <<state, reserve, remainder, value, cost, deposit, service>>
    BY <2>1
  <2>7. status[j][s] \in {"prepared", "broadcast"}
    BY <2>1
  <2>8. /\ x = "confirmed" => chain[j][s] = "ok"
        /\ x = "failed" => chain[j][s] = "reverted"
    BY <2>5
  <2> QED BY ONLY IInv, <2>2, <2>3, <2>4, <2>5, <2>6, <2>7, <2>8, SettleBooks, j \in Jobs, s \in Steps
<1> QED BY <1>4, <1>6, <1>7, <1>8

\* Every other step of a run leaves the books alone.
LEMMA OtherBooks ==
  ASSUME IInv, NEW n \in Nodes,
         \/ Start(n) \/ Pending(n) \/ Pick(n) \/ Release(n) \/ Finish(n) \/ RunFails(n) \/ Crash(n)
         \/ JobFails(n) \/ PlanRefused(n) \/ ReserveBelowFee(n) \/ PrepareRefused(n)
         \/ Resume(n) \/ FundGas(n) \/ MoveToken(n) \/ MoveNative(n) \/ Swap(n)
  PROVE  Books'
<1>1. UNCHANGED <<state, reserve, remainder, txVars, chainVars>>
  BY DEF Start, Pending, Pick, Release, Finish, RunFails, Crash, JobFails, PlanRefused,
     ReserveBelowFee, PrepareRefused, Throws, Resume, FundGas, MoveToken, MoveNative, Swap, Sends,
     jobVars
<1>2. deposit' = deposit /\ service' = service /\ chain' = chain /\ deposit \in Nat /\ service \in Nat
  BY <1>1 DEF chainVars, IInv, TypeOK
<1>3. deposit' \in Nat /\ service' \in Nat /\ deposit' >= deposit /\ service' >= service
  BY <1>2
<1> QED BY <1>1, <1>2, <1>3, BooksSame
-----------------------------------------------------------------------------
(* The theorems. *)

LEMMA InvStep == IInv /\ [Next]_vars => IInv'
<1> SUFFICES ASSUME IInv, [Next]_vars PROVE IInv'
  OBVIOUS
<1>0. TypeOK'
  BY TypeStep
<1>1. Hands' /\ Books' => IInv'
  BY <1>0 DEF IInv, Hands, Books
<1>2. deposit \in Nat /\ service \in Nat
  BY DEF IInv, TypeOK
<1>3. ASSUME UNCHANGED <<state, reserve, remainder, txVars, chain, holder, runVars, service>>,
             deposit' \in Nat, deposit' >= deposit
      PROVE  IInv'
  <2>1. service' \in Nat /\ service' >= service
    BY <1>2, <1>3
  <2>2. Books'
    BY <1>3, <2>1, BooksSame
  <2>3. Hands'
    BY <1>3, HandsSame
  <2> QED BY <1>1, <2>2, <2>3
<1>4. CASE UNCHANGED vars \/ Reprice \/ \E j \in Jobs : RetryDue(j)
  <2>1. /\ UNCHANGED <<state, reserve, remainder, txVars, chain, holder, runVars, service>>
        /\ deposit' = deposit
    BY <1>4 DEF vars, jobVars, chainVars, Reprice, RetryDue
  <2> QED BY <1>2, <1>3, <2>1
<1>5. ASSUME NEW j \in Jobs, Pay(j) PROVE IInv'
  <2>1. /\ UNCHANGED <<state, reserve, remainder, txVars, chain, holder, runVars, service>>
        /\ deposit' = deposit \/ deposit' = deposit + Amount[j]
    BY <1>5 DEF Pay, jobVars
  <2>2. Amount[j] \in Nat
    BY Parameters
  <2> QED BY <1>2, <1>3, <2>1, <2>2
<1>6. ASSUME NEW j \in Jobs, NEW s \in Steps, Mine(j, s) \/ Revert(j, s) PROVE IInv'
  <2>1. \E result \in {"ok", "reverted"} : Mines(j, s, result)
    BY <1>6 DEF Mine, Revert
  <2>2. UNCHANGED <<jobVars, txVars, holder, runVars>>
    BY <1>6 DEF Mine, Revert
  <2>3. Books'
    BY <2>1, <2>2, MinesBooks
  <2>4. Hands'
    BY <2>2, HandsSame DEF jobVars
  <2> QED BY <1>1, <2>3, <2>4
<1>7. ASSUME NEW n \in Nodes, Run(n) \/ Fault(n) PROVE IInv'
  <2>1. CASE \/ Enqueue(n) \/ Plan(n) \/ SkipReserve(n) \/ NothingLeft(n) \/ NothingDue(n)
             \/ Terminal(n) \/ Advance(n)
    BY <1>1, <2>1, PlanBooks, RunHands
  <2>2. CASE Prepare(n) \/ SendAgain(n) \/ ReadReceipt(n) \/ Broadcast(n) \/ BroadcastLost(n)
    <3>1. Prepare(n) \/ SendAgain(n) \/ ReadReceipt(n) \/ \E seen \in {"unseen", "known"} : Broadcasts(n, seen)
      BY <2>2 DEF Broadcast, BroadcastLost
    <3> QED BY <1>1, <3>1, SendBooks, SendHands
  <2>3. CASE Resume(n) \/ FundGas(n) \/ MoveToken(n) \/ MoveNative(n) \/ Swap(n)
    BY <1>1, <2>3, OtherBooks, SendsHands
  <2>4. CASE \/ Start(n) \/ Pending(n) \/ Pick(n) \/ Release(n) \/ Finish(n) \/ RunFails(n) \/ Crash(n)
             \/ JobFails(n) \/ PlanRefused(n) \/ ReserveBelowFee(n) \/ PrepareRefused(n)
    BY <1>1, <2>4, OtherBooks, RunHands
  <2> QED BY <1>7, <2>1, <2>2, <2>3, <2>4 DEF Run, Decide, Send, Fault
<1> QED BY <1>4, <1>5, <1>6, <1>7 DEF Next

\* The invariant holds in every state, whatever the amounts, the fees and the failures.
THEOREM Invariance == Spec => []IInv
<1> QED BY InitIInv, InvStep, PTL DEF Spec

\* Types, and with them that no native balance ever goes below zero: a transaction is
\* only signed when its sender can pay it, and nothing else of it is taken before it is mined.
THEOREM TypeCorrect == Spec => []TypeOK
<1>1. IInv => TypeOK
  BY DEF IInv
<1> QED BY <1>1, Invariance, PTL

\* processCollectionJob: the signed transactions of an invoice take no more than it
\* brought, and a token step's fee comes from gas that was sent for it.
THEOREM OwnReceiptsOnly == Spec => []OwnReceipts
<1>1. IInv => OwnReceipts
  BY DEF IInv
<1> QED BY <1>1, Invariance, PTL

\* The lock and pending(): the journal never has two unconfirmed transactions.
THEOREM OneAtATime == Spec => []OneUnconfirmed
<1>1. IInv => OneUnconfirmed
  BY DEF IInv
<1> QED BY <1>1, Invariance, PTL

\* A job that is done has sent its author everything it could.
THEOREM DoneMeansPaid == Spec => []DoneIsPaid
<1>1. IInv => DoneIsPaid
  BY DEF IInv
<1> QED BY <1>1, Invariance, PTL

(***************************************************************************)
(* Sums over finite sets, as SumFunctionOnSet folds them.                  *)
(***************************************************************************)

\* A set of subsets of a finite set has one that includes no other of it.
LEMMA MinimalSubset ==
  ASSUME NEW S, IsFiniteSet(S), NEW B \in SUBSET (SUBSET S), B # {}
  PROVE  \E U \in B : \A V \in SUBSET U : V # U => V \notin B
<1> DEFINE R == StrictSubsetOrdering(S)
<1>1. B \subseteq FiniteSubsetsOf(S)
  BY FS_Subset DEF FiniteSubsetsOf
<1>2. PICK U \in B : \A V \in B : ~(<<V, U>> \in R)
  <2> HIDE DEF R
  <2> QED BY <1>1, FS_StrictSubsetOrderingWellFounded, WFMin DEF R
<1>3. ASSUME NEW V \in SUBSET U, V # U, V \in B PROVE FALSE
  BY <1>1, <1>2, <1>3 DEF StrictSubsetOrdering
<1> QED BY <1>3

\* What the folds of the library compute: from a set they take one element after
\* the other, whichever CHOOSE gives.
Any(s) == CHOOSE x \in s : TRUE
Adds(f, D, g) ==
    g = [s \in D |-> IF s = {} THEN 0 ELSE f[Any(s)] + g[s \ {Any(s)}]]

LEMMA AnyIs == ASSUME NEW s, s # {} PROVE Any(s) \in s
  BY Zenon DEF Any

LEMMA AddsIs ==
  ASSUME NEW f, NEW D, NEW g, Adds(f, D, g), NEW s \in D
  PROVE  g[s] = IF s = {} THEN 0 ELSE f[Any(s)] + g[s \ {Any(s)}]
<1> DEFINE h == [t \in D |-> IF t = {} THEN 0 ELSE f[Any(t)] + g[t \ {Any(t)}]]
<1>1. g = h
  BY DEF Adds
<1>2. h[s] = IF s = {} THEN 0 ELSE f[Any(s)] + g[s \ {Any(s)}]
  OBVIOUS
<1> QED BY <1>1, <1>2

\* The sum of a finite set is there, by induction on the size of the subsets.
LEMMA SumExists ==
  ASSUME NEW f, NEW S, IsFiniteSet(S)
  PROVE  \E g : Adds(f, SUBSET S, g)
<1> DEFINE D(n) == {s \in SUBSET S : Cardinality(s) <= n}
           Has(n) == \E g : Adds(f, D(n), g)
           Bad == {n \in Nat : ~Has(n)}
           R == OpToRel(<, Nat)
<1>0. \A s \in SUBSET S : /\ IsFiniteSet(s) /\ Cardinality(s) \in Nat
                          /\ Cardinality(s) <= Cardinality(S)
                          /\ Cardinality(s) = 0 <=> s = {}
  BY FS_Subset, FS_CardinalityType, FS_EmptySet
<1>1. Bad = {}
  <2> SUFFICES ASSUME Bad # {} PROVE FALSE
    OBVIOUS
  <2>1. PICK n \in Bad : \A m \in Bad : ~(<<m, n>> \in R)
    <3>1. Bad \subseteq Nat
      OBVIOUS
    <3> HIDE DEF Bad, R
    <3> QED BY <3>1, NatLessThanWellFounded, WFMin DEF R
  <2>2. n \in Nat /\ \A m \in Nat : m < n => m \notin Bad
    BY <2>1 DEF OpToRel
  <2>3. n # 0
    <3> SUFFICES ASSUME n = 0 PROVE FALSE
      OBVIOUS
    <3>1. D(0) \subseteq {{}}
      BY <1>0
    <3>2. [s \in D(0) |-> 0] = [s \in D(0) |-> IF s = {} THEN 0 ELSE
                                  f[Any(s)] + [t \in D(0) |-> 0][s \ {Any(s)}]]
      BY <3>1
    <3>3. Adds(f, D(0), [s \in D(0) |-> 0])
      <4> HIDE DEF D
      <4> QED BY <3>2 DEF Adds
    <3> QED BY <2>1, <3>3
  <2>p. Has(n - 1)
    <3>1. n - 1 \in Nat /\ n - 1 < n
      BY <2>2, <2>3
    <3> HIDE DEF Has
    <3> QED BY <2>2, <3>1
  <2>4. PICK g : Adds(f, D(n - 1), g)
    <3> HIDE DEF D
    <3> QED BY <2>p
  <2> DEFINE h == [s \in D(n) |-> IF s = {} THEN 0 ELSE f[Any(s)] + g[s \ {Any(s)}]]
  <2>5. ASSUME NEW s \in D(n), s # {} PROVE h[s \ {Any(s)}] = g[s \ {Any(s)}]
    <3> DEFINE t == s \ {Any(s)}
    <3>1. Any(s) \in s
      BY <2>5, AnyIs
    <3>2. t \in D(n - 1) /\ t \in D(n)
      BY <1>0, <2>2, <3>1, FS_RemoveElement
    <3>3. g[t] = IF t = {} THEN 0 ELSE f[Any(t)] + g[t \ {Any(t)}]
      <4> HIDE DEF D, t
      <4> QED BY <2>4, <3>2, AddsIs
    <3>4. h[t] = IF t = {} THEN 0 ELSE f[Any(t)] + g[t \ {Any(t)}]
      <4> HIDE DEF D, t
      <4> QED BY <3>2
    <3> QED BY <3>3, <3>4
  <2>6. h = [s \in D(n) |-> IF s = {} THEN 0 ELSE f[Any(s)] + h[s \ {Any(s)}]]
    <3> DEFINE k == [s \in D(n) |-> IF s = {} THEN 0 ELSE f[Any(s)] + h[s \ {Any(s)}]]
    <3>1. ASSUME NEW s \in D(n) PROVE h[s] = k[s]
      <4>1. h[s] = IF s = {} THEN 0 ELSE f[Any(s)] + g[s \ {Any(s)}]
        <5> HIDE DEF D
        <5> QED OBVIOUS
      <4>2. k[s] = IF s = {} THEN 0 ELSE f[Any(s)] + h[s \ {Any(s)}]
        <5> HIDE DEF D, h
        <5> QED OBVIOUS
      <4> HIDE DEF D, h, k
      <4> QED BY <2>5, <4>1, <4>2
    <3> HIDE DEF D
    <3> QED BY <3>1
  <2>7. Adds(f, D(n), h)
    <3> HIDE DEF D, h
    <3> QED BY <2>6 DEF Adds
  <2> HIDE DEF D, h
  <2> QED BY <2>1, <2>7 
<1>2. D(Cardinality(S)) = SUBSET S /\ Cardinality(S) \in Nat
  BY <1>0
<1>3. \E g : Adds(f, D(Cardinality(S)), g)
  <2> HIDE DEF D
  <2> QED BY <1>1, <1>2
<1> QED BY <1>2, <1>3

LEMMA SumIs ==
  ASSUME NEW f, NEW S, IsFiniteSet(S)
  PROVE  \E g : Adds(f, SUBSET S, g) /\ SumFunctionOnSet(f, S) = g[S]
<1> DEFINE iter == CHOOSE g : Adds(f, SUBSET S, g)
<1>1. \E g : Adds(f, SUBSET S, g)
  BY SumExists
<1>2. Adds(f, SUBSET S, iter)
  BY <1>1, Zenon
<1>3. SumFunctionOnSet(f, S) = iter[S]
  BY DEF SumFunctionOnSet, FoldFunctionOnSet, MapThenFoldSet, Adds, Any
<1> QED BY <1>2, <1>3

LEMMA SumOfNone == ASSUME NEW f PROVE SumFunctionOnSet(f, {}) = 0
<1>1. PICK g : Adds(f, SUBSET {}, g) /\ SumFunctionOnSet(f, {}) = g[{}]
  BY SumIs, FS_EmptySet
<1>2. {} \in SUBSET {}
  OBVIOUS
<1> QED BY <1>1, <1>2, AddsIs

LEMMA AddsInt ==
  ASSUME NEW S, IsFiniteSet(S), NEW f, \A x \in S : f[x] \in Int,
         NEW g, Adds(f, SUBSET S, g), NEW s \in SUBSET S
  PROVE  g[s] \in Int
<1> DEFINE B == {t \in SUBSET S : g[t] \notin Int}
<1> SUFFICES ASSUME B # {} PROVE FALSE
  OBVIOUS
<1>1. PICK U \in B : \A V \in SUBSET U : V # U => V \notin B
  <2>1. B \in SUBSET (SUBSET S)
    OBVIOUS
  <2> HIDE DEF B
  <2> QED BY <2>1, MinimalSubset
<1>2. g[U] = IF U = {} THEN 0 ELSE f[Any(U)] + g[U \ {Any(U)}]
  <2>1. U \in SUBSET S
    BY <1>1
  <2> HIDE DEF B
  <2> QED BY <2>1, AddsIs
<1>3. U # {} => Any(U) \in U
  BY AnyIs
<1>4. CASE U = {}
  BY <1>1, <1>2, <1>4
<1>5. CASE U # {}
  <2>1. U \ {Any(U)} \in SUBSET U /\ U \ {Any(U)} # U /\ f[Any(U)] \in Int
    BY <1>1, <1>3, <1>5
  <2>2. g[U \ {Any(U)}] \in Int
    BY <1>1, <2>1
  <2> QED BY <1>1, <1>2, <1>5, <2>1, <2>2
<1> QED BY <1>4, <1>5

\* A sum does not depend on the order: it grows by whatever element is added.
LEMMA AddsMore ==
  ASSUME NEW S, IsFiniteSet(S), NEW f, \A x \in S : f[x] \in Int,
         NEW g, Adds(f, SUBSET S, g), NEW s \in SUBSET S, NEW x \in S \ s
  PROVE  g[s \cup {x}] = g[s] + f[x]
<1> DEFINE B == {t \in SUBSET S : \E y \in S \ t : g[t \cup {y}] # g[t] + f[y]}
<1> SUFFICES ASSUME B # {} PROVE FALSE
  OBVIOUS
<1>1. PICK U \in B : \A V \in SUBSET U : V # U => V \notin B
  <2>1. B \in SUBSET (SUBSET S)
    OBVIOUS
  <2> HIDE DEF B
  <2> QED BY <2>1, MinimalSubset
<1>2. PICK y \in S \ U : g[U \cup {y}] # g[U] + f[y]
  BY <1>1
<1> DEFINE W == U \cup {y}
           c == Any(W)
<1>3. c \in W /\ W \in SUBSET S /\ U \in SUBSET S
  BY <1>1, AnyIs
<1>4. g[W] = f[c] + g[W \ {c}]
  <2> HIDE DEF c
  <2>1. W # {}
    OBVIOUS
  <2> HIDE DEF W
  <2> QED BY <1>3, <2>1, AddsIs DEF c
<1>i. f[c] \in Int /\ f[y] \in Int /\ \A t \in SUBSET S : g[t] \in Int
  <2> HIDE DEF c
  <2> QED BY <1>3, AddsInt
<1> HIDE DEF c
<1>5. CASE c = y
  <2>1. W \ {c} = U
    BY <1>2, <1>5
  <2>2. g[W] = f[y] + g[U]
    BY <1>4, <1>5, <2>1
  <2>3. g[W] # g[U] + f[y] /\ g[U] \in Int
    BY <1>2, <1>3, <1>i
  <2> HIDE DEF W
  <2> QED BY <1>i, <2>2, <2>3
<1>6. CASE c # y
  <2> DEFINE t == U \ {c}
  <2>1. c \in U /\ t \in SUBSET U /\ t # U /\ t \in SUBSET S
    BY <1>3, <1>6
  <2>2. W \ {c} = t \cup {y} /\ t \cup {c} = U /\ y \in S \ t /\ c \in S \ t
    BY <1>2, <1>3, <1>6, <2>1
  <2>3. t \notin B
    BY <1>1, <2>1
  <2>4. g[t \cup {y}] = g[t] + f[y] /\ g[t \cup {c}] = g[t] + f[c]
    BY <2>1, <2>2, <2>3
  <2>5. g[t] \in Int
    BY <1>i, <2>1
  <2>6. g[W] = f[c] + (g[t] + f[y]) /\ g[U] = g[t] + f[c]
    <3> HIDE DEF t, W
    <3> QED BY <1>4, <2>2, <2>4
  <2>7. g[W] # g[U] + f[y]
    BY <1>2
  <2> HIDE DEF t, W
  <2> QED BY <1>i, <2>5, <2>6, <2>7
<1> QED BY <1>5, <1>6

\* Nor on the set it is a part of.
LEMMA AddsAgree ==
  ASSUME NEW S, IsFiniteSet(S), NEW f, NEW T \in SUBSET S,
         NEW g, Adds(f, SUBSET S, g), NEW h, Adds(f, SUBSET T, h)
  PROVE  g[T] = h[T]
<1> DEFINE B == {t \in SUBSET T : g[t] # h[t]}
<1> SUFFICES ASSUME B # {} PROVE FALSE
  OBVIOUS
<1>1. PICK U \in B : \A V \in SUBSET U : V # U => V \notin B
  <2>1. B \in SUBSET (SUBSET T) /\ IsFiniteSet(T)
    BY FS_Subset
  <2> HIDE DEF B
  <2> QED BY <2>1, MinimalSubset
<1>2. /\ g[U] = IF U = {} THEN 0 ELSE f[Any(U)] + g[U \ {Any(U)}]
      /\ h[U] = IF U = {} THEN 0 ELSE f[Any(U)] + h[U \ {Any(U)}]
  <2>1. U \in SUBSET S /\ U \in SUBSET T
    BY <1>1
  <2> HIDE DEF B
  <2> QED BY <2>1, AddsIs
<1>3. U # {} => U \ {Any(U)} \notin B
  BY <1>1, AnyIs
<1>4. U # {} => g[U \ {Any(U)}] = h[U \ {Any(U)}]
  BY <1>1, <1>3
<1> QED BY <1>1, <1>2, <1>4

\* Of numbers, the sum is one; sums of two functions add up.
LEMMA SumAdd ==
  ASSUME NEW S, IsFiniteSet(S), NEW x, x \notin S, NEW f, f[x] \in Int,
         \A y \in S : f[y] \in Int
  PROVE  /\ SumFunctionOnSet(f, S) \in Int
         /\ SumFunctionOnSet(f, S \cup {x}) = SumFunctionOnSet(f, S) + f[x]
<1> DEFINE T == S \cup {x}
<1>1. IsFiniteSet(T) /\ S \in SUBSET T /\ x \in T \ S /\ \A y \in T : f[y] \in Int
  BY FS_AddElement
<1>2. PICK g : Adds(f, SUBSET T, g) /\ SumFunctionOnSet(f, T) = g[T]
  BY <1>1, SumIs
<1>3. PICK h : Adds(f, SUBSET S, h) /\ SumFunctionOnSet(f, S) = h[S]
  BY SumIs
<1>4. g[S] = h[S]
  <2> HIDE DEF T
  <2> QED BY <1>1, <1>2, <1>3, AddsAgree
<1>5. g[S] \in Int
  <2> HIDE DEF T
  <2> QED BY <1>1, <1>2, AddsInt
<1>6. g[S \cup {x}] = g[S] + f[x]
  <2> HIDE DEF T
  <2> QED BY <1>1, <1>2, AddsMore
<1> QED BY <1>2, <1>3, <1>4, <1>5, <1>6

LEMMA SumSame ==
  ASSUME NEW S, IsFiniteSet(S), NEW f, NEW h, \A x \in S : f[x] \in Int /\ h[x] = f[x]
  PROVE  SumFunctionOnSet(h, S) = SumFunctionOnSet(f, S)
<1> DEFINE B == {T \in SUBSET S : SumFunctionOnSet(h, T) # SumFunctionOnSet(f, T)}
<1> SUFFICES ASSUME B # {} PROVE FALSE
  OBVIOUS
<1>1. PICK U \in B : \A V \in SUBSET U : V # U => V \notin B
  <2>1. B \in SUBSET (SUBSET S)
    OBVIOUS
  <2> HIDE DEF B
  <2> QED BY <2>1, MinimalSubset
<1>2. U \in SUBSET S /\ SumFunctionOnSet(h, U) # SumFunctionOnSet(f, U)
  BY <1>1
<1>3. PICK x : x \in U
  BY <1>2, SumOfNone
<1> DEFINE V == U \ {x}
<1>4. V \cup {x} = U /\ x \notin V /\ V \in SUBSET S /\ IsFiniteSet(V)
  BY <1>2, <1>3, FS_Subset
<1>5. SumFunctionOnSet(h, V) = SumFunctionOnSet(f, V)
  BY <1>1, <1>3, <1>4
<1>6. /\ \A y \in V : f[y] \in Int /\ h[y] \in Int
      /\ f[x] \in Int /\ h[x] = f[x]
  BY <1>2, <1>3
<1>7. /\ SumFunctionOnSet(f, V \cup {x}) = SumFunctionOnSet(f, V) + f[x]
      /\ SumFunctionOnSet(h, V \cup {x}) = SumFunctionOnSet(h, V) + h[x]
  <2> HIDE DEF V, B
  <2> QED BY <1>4, <1>6, SumAdd
<1> QED BY <1>2, <1>4, <1>5, <1>6, <1>7

\* Where one number changes the sum changes by as much.
LEMMA SumChange ==
  ASSUME NEW S, IsFiniteSet(S), NEW c \in S, NEW f, NEW h, h[c] \in Int,
         \A x \in S : f[x] \in Int, \A x \in S : x # c => h[x] = f[x]
  PROVE  SumFunctionOnSet(h, S) = SumFunctionOnSet(f, S) + (h[c] - f[c])
<1> DEFINE V == S \ {c}
<1>1. V \cup {c} = S /\ c \notin V /\ IsFiniteSet(V)
  BY FS_Subset
<1>2. /\ \A y \in V : f[y] \in Int /\ h[y] \in Int /\ h[y] = f[y]
      /\ f[c] \in Int
  OBVIOUS
<1>3. /\ SumFunctionOnSet(f, V \cup {c}) = SumFunctionOnSet(f, V) + f[c]
      /\ SumFunctionOnSet(h, V \cup {c}) = SumFunctionOnSet(h, V) + h[c]
      /\ SumFunctionOnSet(h, V) = SumFunctionOnSet(f, V)
      /\ SumFunctionOnSet(f, V) \in Int
  <2> HIDE DEF V
  <2> QED BY <1>1, <1>2, SumAdd, SumSame
<1>4. /\ SumFunctionOnSet(f, S) = SumFunctionOnSet(f, V) + f[c]
      /\ SumFunctionOnSet(h, S) = SumFunctionOnSet(f, V) + h[c]
  <2> HIDE DEF V
  <2> QED BY <1>1, <1>3
<1>5. SumFunctionOnSet(f, V) \in Int /\ f[c] \in Int /\ h[c] \in Int
  BY <1>2, <1>3
<1> HIDE DEF V
<1> QED BY <1>4, <1>5

\* A sum is no less than one over a part of its set, where the numbers of the part
\* are no less and the others not negative.
LEMMA SumAtLeast ==
  ASSUME NEW S, IsFiniteSet(S), NEW T, NEW f, NEW h,
         \A x \in S : f[x] \in Int /\ h[x] \in Int,
         \A x \in S : IF x \in T THEN f[x] >= h[x] ELSE f[x] >= 0
  PROVE  SumFunctionOnSet(f, S) >= SumFunctionOnSet(h, S \cap T)
<1> DEFINE B == {W \in SUBSET S : ~(SumFunctionOnSet(f, W) >= SumFunctionOnSet(h, W \cap T))}
<1> SUFFICES ASSUME B # {} PROVE FALSE
  OBVIOUS
<1>1. PICK U \in B : \A V \in SUBSET U : V # U => V \notin B
  <2>1. B \in SUBSET (SUBSET S)
    OBVIOUS
  <2> HIDE DEF B
  <2> QED BY <2>1, MinimalSubset
<1>2. U \in SUBSET S /\ ~(SumFunctionOnSet(f, U) >= SumFunctionOnSet(h, U \cap T))
  BY <1>1
<1>3. PICK x : x \in U
  <2> SUFFICES ASSUME U = {} PROVE FALSE
    OBVIOUS
  <2>1. U \cap T = {} /\ SumFunctionOnSet(f, U) = 0 /\ SumFunctionOnSet(h, {}) = 0
    BY SumOfNone
  <2> QED BY <1>2, <2>1
<1> DEFINE V == U \ {x}
           X == V \cap T
<1>4. /\ V \cup {x} = U /\ x \notin V /\ V \in SUBSET S /\ IsFiniteSet(V)
      /\ x \notin X /\ IsFiniteSet(X) /\ X \in SUBSET S
      /\ U \cap T = IF x \in T THEN X \cup {x} ELSE X
  <2>1. IsFiniteSet(V) /\ X \in SUBSET V
    BY <1>2, FS_Subset
  <2>2. IsFiniteSet(X)
    <3> HIDE DEF V, X
    <3> QED BY <2>1, FS_Subset
  <2> QED BY <1>2, <1>3, <2>1, <2>2
<1>5. SumFunctionOnSet(f, V) >= SumFunctionOnSet(h, X)
  BY <1>1, <1>3, <1>4
<1>6. /\ \A y \in V : f[y] \in Int
      /\ \A y \in X : h[y] \in Int
      /\ f[x] \in Int /\ h[x] \in Int
      /\ IF x \in T THEN f[x] >= h[x] ELSE f[x] >= 0
  BY <1>2, <1>3
<1>7. /\ SumFunctionOnSet(f, V \cup {x}) = SumFunctionOnSet(f, V) + f[x]
      /\ SumFunctionOnSet(h, X \cup {x}) = SumFunctionOnSet(h, X) + h[x]
      /\ SumFunctionOnSet(f, V) \in Int /\ SumFunctionOnSet(h, X) \in Int
  <2> HIDE DEF V, B, X
  <2> QED BY <1>4, <1>6, SumAdd
<1>8. CASE x \in T
  <2>1. SumFunctionOnSet(h, U \cap T) = SumFunctionOnSet(h, X) + h[x]
    BY <1>4, <1>7, <1>8
  <2> HIDE DEF V, B, X
  <2> QED BY <1>2, <1>4, <1>5, <1>6, <1>7, <1>8, <2>1
<1>9. CASE x \notin T
  <2>1. SumFunctionOnSet(h, U \cap T) = SumFunctionOnSet(h, X)
    BY <1>4, <1>9
  <2> HIDE DEF V, B, X
  <2> QED BY <1>2, <1>4, <1>5, <1>6, <1>7, <1>9, <2>1
<1> QED BY <1>8, <1>9

(***************************************************************************)
(* The accounts of the deposit address.                                    *)
(***************************************************************************)

\* A job's shares are numbers, and those of an unpaid one what it will bring.
LEMMA Shares ==
  ASSUME IInv, NEW j \in Jobs
  PROVE  /\ \A s \in FromDeposit : GasCame(j, s) \in Nat /\ Burnt(j, s) \in Nat /\ Moved(j, s) \in Nat
         /\ GasLeft(j) \in Int /\ NotMoved(j) \in Int
         /\ InDeposit[j] \in Int /\ InTokens[j] \in Int
<1>1. /\ Amount[j] \in Nat
      /\ \A s \in Steps : value[j][s] \in Nat /\ cost[j][s] \in Nat
      /\ \A s \in FromDeposit : funded[j][s] \in Nat
  BY JobIs
<1>2. \A s \in FromDeposit : s \in Steps /\ GasOf(s) \in Steps
  BY DEF FromDeposit, Steps, Gas, GasOf
<1>3. \A s \in FromDeposit : GasCame(j, s) \in Nat /\ Burnt(j, s) \in Nat /\ Moved(j, s) \in Nat
  BY <1>1, <1>2 DEF GasCame, Burnt, Moved
<1>4. {"reserve", "payout"} = FromDeposit
  BY DEF FromDeposit
<1>5. GasLeft(j) \in Int /\ NotMoved(j) \in Int
  <2>1. /\ GasCame(j, "reserve") \in Nat /\ GasCame(j, "payout") \in Nat
        /\ Burnt(j, "reserve") \in Nat /\ Burnt(j, "payout") \in Nat
        /\ Moved(j, "reserve") \in Nat /\ Moved(j, "payout") \in Nat
    BY <1>3, <1>4
  <2> QED BY <1>1, <2>1 DEF GasLeft, NotMoved
<1>6. /\ InDeposit[j] = GasLeft(j) + (IF j \in Tokens THEN 0 ELSE NotMoved(j))
      /\ InTokens[j] = IF j \in Tokens THEN NotMoved(j) ELSE 0
  BY DEF InDeposit, InTokens
<1> QED BY <1>3, <1>5, <1>6

LEMMA SharesThen ==
  ASSUME NEW j \in Jobs
  PROVE  /\ InDeposit'[j] = GasLeft(j)' + (IF j \in Tokens THEN 0 ELSE NotMoved(j)')
         /\ InTokens'[j] = IF j \in Tokens THEN NotMoved(j)' ELSE 0
         /\ InDeposit[j] = GasLeft(j) + (IF j \in Tokens THEN 0 ELSE NotMoved(j))
         /\ InTokens[j] = IF j \in Tokens THEN NotMoved(j) ELSE 0
  BY DEF InDeposit, InTokens

\* The job of an invoice that is not paid has taken nothing.
LEMMA UnpaidShares ==
  ASSUME IInv, Unpaid, NEW j \in Jobs \ paid
  PROVE  GasLeft(j) = 0 /\ NotMoved(j) = Amount[j]
<1>1. /\ \A s \in Steps : status[j][s] = "none" /\ chain[j][s] = "unseen"
      /\ \A s \in FromDeposit : funded[j][s] = 0
      /\ Amount[j] \in Nat
  BY Parameters DEF Unpaid, IInv, JournalInv
<1>2. \A s \in FromDeposit : s \in Steps /\ GasOf(s) \in Steps
  BY DEF FromDeposit, Steps, Gas, GasOf
<1>3. \A s \in FromDeposit : GasCame(j, s) = 0 /\ Burnt(j, s) = 0 /\ Moved(j, s) = 0
  BY <1>1, <1>2 DEF GasCame, Burnt, Moved
<1> QED BY <1>1, <1>3 DEF GasLeft, NotMoved, FromDeposit

\* As long as no share and neither balance moves they agree.
LEMMA BalancedSame ==
  ASSUME Balanced, UNCHANGED <<paid, deposit, tokens>>,
         \A j \in Jobs : GasLeft(j)' = GasLeft(j) /\ NotMoved(j)' = NotMoved(j)
  PROVE  Balanced'
<1>1. InDeposit' = InDeposit /\ InTokens' = InTokens
  BY DEF InDeposit, InTokens
<1> QED BY <1>1 DEF Balanced

\* A step at one job moves its share and the balance alike.
LEMMA BalancedOne ==
  ASSUME IInv, Accounts, NEW j \in paid, paid' = paid,
         \A i \in Jobs : i # j => GasLeft(i)' = GasLeft(i) /\ NotMoved(i)' = NotMoved(i),
         NEW g \in Int, GasLeft(j)' = GasLeft(j) + g,
         NEW m \in Int, NotMoved(j)' = NotMoved(j) + m,
         deposit' = deposit + g + (IF j \in Tokens THEN 0 ELSE m),
         tokens' = tokens + (IF j \in Tokens THEN m ELSE 0)
  PROVE  Balanced'
<1>1. paid \subseteq Jobs /\ IsFiniteSet(paid)
  BY DEF IInv, TypeOK, Accounts
<1>2. \A i \in paid : InDeposit[i] \in Int /\ InTokens[i] \in Int
  BY <1>1, Shares
<1>3. \A i \in paid : i # j => InDeposit'[i] = InDeposit[i] /\ InTokens'[i] = InTokens[i]
  BY <1>1, SharesThen
<1>4. /\ GasLeft(j) \in Int /\ NotMoved(j) \in Int
      /\ InDeposit'[j] = InDeposit[j] + (g + (IF j \in Tokens THEN 0 ELSE m))
      /\ InTokens'[j] = InTokens[j] + (IF j \in Tokens THEN m ELSE 0)
      /\ InDeposit'[j] \in Int /\ InTokens'[j] \in Int
  <2>1. GasLeft(j) \in Int /\ NotMoved(j) \in Int
    BY <1>1, Shares
  <2> QED BY <1>1, <2>1, SharesThen
<1> DEFINE F == InDeposit'
           H == InTokens'
<1>5. /\ SumFunctionOnSet(F, paid) = SumFunctionOnSet(InDeposit, paid) + (F[j] - InDeposit[j])
      /\ SumFunctionOnSet(H, paid) = SumFunctionOnSet(InTokens, paid) + (H[j] - InTokens[j])
  <2>1. /\ \A i \in paid : i # j => F[i] = InDeposit[i] /\ H[i] = InTokens[i]
        /\ F[j] \in Int /\ H[j] \in Int
    BY <1>3, <1>4
  <2> HIDE DEF F, H
  <2> QED BY <1>1, <1>2, <2>1, SumChange
<1>6. /\ deposit = SumFunctionOnSet(InDeposit, paid) /\ tokens = SumFunctionOnSet(InTokens, paid)
      /\ deposit \in Int /\ tokens \in Int
  BY DEF Accounts, Balanced, IInv, TypeOK
<1>7. deposit' = SumFunctionOnSet(F, paid) /\ tokens' = SumFunctionOnSet(H, paid)
  <2>1. F[j] - InDeposit[j] = g + (IF j \in Tokens THEN 0 ELSE m)
    BY <1>2, <1>4
  <2>2. H[j] - InTokens[j] = IF j \in Tokens THEN m ELSE 0
    BY <1>2, <1>4
  <2> HIDE DEF F, H
  <2> QED BY <1>5, <1>6, <2>1, <2>2
<1> QED BY <1>7 DEF Balanced

\* account scans settle an invoice: its money is at the address from then on.
LEMMA PayAccounts ==
  ASSUME IInv, Accounts, NEW j \in Jobs, Pay(j)
  PROVE  Accounts'
<1>1. /\ j \notin paid /\ paid' = paid \cup {j} /\ paid \subseteq Jobs /\ IsFiniteSet(paid)
      /\ UNCHANGED <<state, txVars, status, value, cost, funded, chain, at>>
  BY DEF Pay, IInv, TypeOK, Accounts, jobVars, txVars, runVars
<1>2. IsFiniteSet(paid')
  BY <1>1, FS_AddElement
<1>3. Unpaid'
  BY <1>1 DEF Accounts, Unpaid
<1>4. InDeposit' = InDeposit /\ InTokens' = InTokens
  BY <1>1 DEF InDeposit, InTokens, GasLeft, NotMoved, GasCame, Burnt, Moved
<1>5. /\ InDeposit[j] = IF j \in Tokens THEN 0 ELSE Amount[j]
      /\ InTokens[j] = IF j \in Tokens THEN Amount[j] ELSE 0
      /\ Amount[j] \in Nat
  <2>1. GasLeft(j) = 0 /\ NotMoved(j) = Amount[j] /\ Amount[j] \in Nat
    BY <1>1, UnpaidShares, Parameters DEF Accounts
  <2> QED BY <2>1, SharesThen
<1>6. \A i \in paid : InDeposit[i] \in Int /\ InTokens[i] \in Int
  BY <1>1, Shares
<1>7. /\ SumFunctionOnSet(InDeposit, paid \cup {j}) = SumFunctionOnSet(InDeposit, paid) + InDeposit[j]
      /\ SumFunctionOnSet(InTokens, paid \cup {j}) = SumFunctionOnSet(InTokens, paid) + InTokens[j]
  <2>1. InDeposit[j] \in Int /\ InTokens[j] \in Int
    BY Shares
  <2> QED BY <1>1, <1>6, <2>1, SumAdd, ZenonT(30)
<1>8. deposit = SumFunctionOnSet(InDeposit, paid) /\ tokens = SumFunctionOnSet(InTokens, paid)
  BY DEF Accounts, Balanced
<1>9. /\ deposit' = deposit + (IF j \in Tokens THEN 0 ELSE Amount[j])
      /\ tokens' = tokens + (IF j \in Tokens THEN Amount[j] ELSE 0)
  BY <1>5 DEF Pay, IInv, TypeOK
<1>10. Balanced'
  BY <1>1, <1>4, <1>5, <1>7, <1>8, <1>9 DEF Balanced
<1> QED BY <1>2, <1>3, <1>10 DEF Accounts

\* What is mined takes from its own invoice, or is gas.
LEMMA MinesAccounts ==
  ASSUME IInv, Accounts, NEW j \in Jobs, NEW s \in Steps, NEW result \in {"ok", "reverted"},
         Mines(j, s, result), UNCHANGED <<jobVars, txVars, paid, at>>
  PROVE  Accounts'
<1>1. /\ UNCHANGED <<state, status, value, cost, funded, paid, at>>
      /\ chain[j][s] = "known" /\ chain' = [chain EXCEPT ![j][s] = result]
  BY DEF Mines, jobVars, txVars
<1>2. status[j][s] \in {"prepared", "broadcast"}
  BY <1>1, KnownIs
<1>3. j \in paid
  BY <1>2 DEF Accounts, Unpaid
<1>4. /\ chain'[j][s] = result
      /\ \A i \in Jobs, q \in Steps : <<i, q>> # <<j, s>> => chain'[i][q] = chain[i][q]
  BY <1>1 DEF IInv, TypeOK
<1>5. /\ FromDeposit = {"reserve", "payout"} /\ Gas = {"gas:reserve", "gas:payout"}
      /\ {"reserve", "payout", "gas:reserve", "gas:payout"} \subseteq Steps
      /\ GasOf("reserve") = "gas:reserve" /\ GasOf("payout") = "gas:payout"
  BY DEF FromDeposit, Steps, Gas, GasOf
<1>6. ASSUME NEW i \in Jobs, i # j
      PROVE  GasLeft(i)' = GasLeft(i) /\ NotMoved(i)' = NotMoved(i)
  <2>1. \A q \in Steps : chain'[i][q] = chain[i][q]
    BY <1>4, <1>6
  <2> QED BY <1>1, <1>5, <2>1 DEF GasLeft, NotMoved, GasCame, Burnt, Moved
<1> DEFINE v == IF result = "ok" THEN value[j][s] ELSE 0
           g == CASE s \in Gas -> v [] s \in FromDeposit -> -cost[j][s] [] OTHER -> 0
           m == IF s \in FromDeposit THEN -v ELSE 0
<1>7. v \in Nat /\ cost[j][s] \in Nat /\ Amount[j] \in Nat
  BY JobIs
<1>8. g \in Int /\ m \in Int
  BY <1>5, <1>7
<1>9. \A q \in FromDeposit : GasCame(j, q) \in Nat /\ Burnt(j, q) \in Nat /\ Moved(j, q) \in Nat
  BY Shares
<1>10. \A q \in FromDeposit :
         /\ Moved(j, q)' = Moved(j, q) + (IF q = s THEN v ELSE 0)
         /\ Burnt(j, q)' = Burnt(j, q) + (IF q = s THEN cost[j][s] ELSE 0)
  <2> SUFFICES ASSUME NEW q \in FromDeposit
               PROVE  /\ Moved(j, q)' = Moved(j, q) + (IF q = s THEN v ELSE 0)
                      /\ Burnt(j, q)' = Burnt(j, q) + (IF q = s THEN cost[j][s] ELSE 0)
    OBVIOUS
  <2>1. CASE q = s
    BY <1>1, <1>4, <1>7, <2>1 DEF Moved, Burnt
  <2>2. CASE q # s
    <3>1. chain'[j][q] = chain[j][q]
      BY <1>4, <1>5, <2>2
    <3>2. Moved(j, q)' = Moved(j, q) /\ Burnt(j, q)' = Burnt(j, q)
      BY <1>1, <3>1 DEF Moved, Burnt
    <3> QED BY <1>9, <2>2, <3>2
  <2> QED BY <2>1, <2>2
<1>11. \A q \in FromDeposit : GasCame(j, q)' = GasCame(j, q) + (IF GasOf(q) = s THEN v ELSE 0)
  <2> SUFFICES ASSUME NEW q \in FromDeposit
               PROVE  GasCame(j, q)' = GasCame(j, q) + (IF GasOf(q) = s THEN v ELSE 0)
    OBVIOUS
  <2>0. funded[j][q] \in Nat
    BY JobIs
  <2>1. CASE GasOf(q) = s
    BY <1>1, <1>2, <1>4, <1>7, <2>0, <2>1 DEF GasCame
  <2>2. CASE GasOf(q) # s
    <3>1. chain'[j][GasOf(q)] = chain[j][GasOf(q)]
      BY <1>4, <1>5, <2>2
    <3>2. GasCame(j, q)' = GasCame(j, q)
      BY <1>1, <3>1 DEF GasCame
    <3> QED BY <1>9, <2>2, <3>2
  <2> QED BY <2>1, <2>2
<1>12. GasLeft(j)' = GasLeft(j) + g /\ NotMoved(j)' = NotMoved(j) + m
  <2>1. /\ GasLeft(j) = GasCame(j, "reserve") + GasCame(j, "payout")
                            - Burnt(j, "reserve") - Burnt(j, "payout")
        /\ NotMoved(j) = Amount[j] - Moved(j, "reserve") - Moved(j, "payout")
        /\ GasLeft(j)' = GasCame(j, "reserve")' + GasCame(j, "payout")'
                            - Burnt(j, "reserve")' - Burnt(j, "payout")'
        /\ NotMoved(j)' = Amount[j] - Moved(j, "reserve")' - Moved(j, "payout")'
    BY DEF GasLeft, NotMoved
  <2>2. CASE s \in Gas
    <3>1. /\ \A q \in FromDeposit : q # s
          /\ s = "gas:reserve" \/ s = "gas:payout"
      BY <1>5, <2>2
    <3>2. g = v /\ m = 0
      BY <1>5, <2>2
    <3> HIDE DEF g, m, v
    <3> QED BY <1>5, <1>7, <1>9, <1>10, <1>11, <2>1, <3>1, <3>2
  <2>3. CASE s \in FromDeposit
    <3>1. /\ \A q \in FromDeposit : GasOf(q) # s
          /\ s = "reserve" \/ s = "payout"
      BY <1>5, <2>3
    <3>2. g = -cost[j][s] /\ m = -v
      BY <1>5, <2>3
    <3> HIDE DEF g, m, v
    <3> QED BY <1>5, <1>7, <1>9, <1>10, <1>11, <2>1, <3>1, <3>2
  <2>4. CASE s \notin Gas /\ s \notin FromDeposit
    <3>1. \A q \in FromDeposit : GasOf(q) # s /\ q # s
      BY <1>5, <2>4
    <3>2. g = 0 /\ m = 0
      BY <2>4
    <3> HIDE DEF g, m, v
    <3> QED BY <1>5, <1>7, <1>9, <1>10, <1>11, <2>1, <3>1, <3>2
  <2> QED BY <2>2, <2>3, <2>4
<1>13. /\ deposit' = deposit + g + (IF j \in Tokens THEN 0 ELSE m)
       /\ tokens' = tokens + (IF j \in Tokens THEN m ELSE 0)
  <2>1. deposit \in Nat /\ tokens \in Int
    BY DEF IInv, TypeOK
  <2>2. /\ deposit' = CASE s \in Gas -> deposit + v
                        [] s \in FromDeposit -> deposit - cost[j][s] - (IF j \in Tokens THEN 0 ELSE v)
                        [] OTHER -> deposit
        /\ tokens' = IF s \in FromDeposit /\ j \in Tokens THEN tokens - v ELSE tokens
    BY DEF Mines
  <2>3. s \in Gas => s \notin FromDeposit
    BY <1>5
  <2> HIDE DEF v
  <2> QED BY <1>7, <2>1, <2>2, <2>3
<1>14. Balanced'
  <2> HIDE DEF g, m, v
  <2> QED BY <1>1, <1>3, <1>6, <1>8, <1>12, <1>13, BalancedOne
<1>15. IsFiniteSet(paid') /\ Unpaid'
  BY <1>1 DEF Accounts, Unpaid
<1> QED BY <1>14, <1>15 DEF Accounts

\* What a run does to rows, journal and chain, it does at the job in its hands; of a
\* step that the accounts count nothing changes before it is mined.
LEMMA RunPaid ==
  ASSUME IInv, Accounts, NEW n \in Nodes, Run(n) \/ Fault(n)
  PROVE  UNCHANGED <<paid, deposit, tokens>>
  BY DEF Run, Fault, Decide, Send, Start, Enqueue, Pending, Pick, Release, Finish, Terminal,
     Plan, SkipReserve, Resume, FundGas, MoveToken, MoveNative, Sends, ReserveBelowFee,
     NothingLeft, NothingDue, Swap, Prepare, PrepareRefused, SendAgain, ReadReceipt,
     Broadcast, Advance, PlanRefused, BroadcastLost, Broadcasts, JobFails, RunFails, Crash,
     Throws, chainVars, envVars

\* A run takes a job in hand only if it is paid.
LEMMA RunHand ==
  ASSUME IInv, Accounts, NEW n \in Nodes, Run(n) \/ Fault(n)
  PROVE  \A m \in Nodes : at'[m] \in paid \cup {None}
<1>0. at \in [Nodes -> Jobs \cup {None}] /\ \A m \in Nodes : at[m] \in paid \cup {None}
  BY DEF IInv, TypeOK, Accounts, Unpaid
<1>1. CASE Pending(n)
  <2>1. \A t \in Unconfirmed : t[1] \in paid
    BY DEF Unconfirmed, Accounts, Unpaid
  <2> QED BY <1>0, <1>1, <2>1 DEF Pending
<1>2. CASE Pick(n)
  <2>1. \A j \in Ready : j \in paid
    BY DEF Ready, Open, Accounts, Unpaid
  <2> QED BY <1>0, <1>2, <2>1 DEF Pick
<1>3. CASE Ended(n)
  BY <1>0, <1>3 DEF Ended
<1>4. CASE at' = at
  BY <1>0, <1>4
<1>5. Pending(n) \/ Pick(n) \/ Ended(n) \/ at' = at
  BY DEF Run, Fault, Decide, Send, Start, Enqueue, Release, Finish, Terminal,
     Plan, SkipReserve, Resume, FundGas, MoveToken, MoveNative, Sends, ReserveBelowFee,
     NothingLeft, NothingDue, Swap, Prepare, PrepareRefused, SendAgain, ReadReceipt,
     Broadcast, Advance, PlanRefused, BroadcastLost, Broadcasts, JobFails, RunFails, Crash,
     Throws
<1> QED BY <1>1, <1>2, <1>3, <1>4, <1>5

\* A step that signs nothing and settles nothing.
LEMMA QuietAccounts ==
  ASSUME IInv, Accounts, UNCHANGED <<paid, deposit, tokens, txVars, chain>>,
         \A j \in Jobs \ paid : state'[j] = state[j],
         \A m \in Nodes : at'[m] \in paid \cup {None}
  PROVE  Accounts'
<1>1. UNCHANGED <<status, value, cost, funded, chain, paid>>
  BY DEF txVars
<1>2. Balanced'
  <2>1. \A j \in Jobs : GasLeft(j)' = GasLeft(j) /\ NotMoved(j)' = NotMoved(j)
    BY <1>1 DEF GasLeft, NotMoved, GasCame, Burnt, Moved
  <2> QED BY <2>1, BalancedSame DEF Accounts
<1>3. Unpaid'
  BY <1>1 DEF Accounts, Unpaid
<1> QED BY <1>1, <1>2, <1>3 DEF Accounts

\* A step on one row of the journal.
LEMMA RowAccounts ==
  ASSUME IInv, Accounts, UNCHANGED <<paid, deposit, tokens, state, at>>,
         NEW j \in paid, NEW s \in Steps,
         \A i \in Jobs, q \in Steps : <<i, q>> # <<j, s>> =>
            /\ status'[i][q] = status[i][q] /\ value'[i][q] = value[i][q]
            /\ cost'[i][q] = cost[i][q] /\ chain'[i][q] = chain[i][q],
         \A i \in Jobs, q \in FromDeposit : i # j => funded'[i][q] = funded[i][q],
         \A q \in FromDeposit :
            /\ q = s => Burnt(j, q)' = Burnt(j, q) /\ Moved(j, q)' = Moved(j, q)
            /\ GasOf(q) = s => GasCame(j, q)' = GasCame(j, q)
            /\ GasOf(q) # s => funded'[j][q] = funded[j][q]
  PROVE  Accounts'
<1>1. paid \subseteq Jobs
  BY DEF IInv, TypeOK
<1>2. /\ FromDeposit = {"reserve", "payout"}
      /\ {"reserve", "payout", "gas:reserve", "gas:payout"} \subseteq Steps
      /\ GasOf("reserve") = "gas:reserve" /\ GasOf("payout") = "gas:payout"
  BY DEF FromDeposit, Steps, Gas, GasOf
<1>3. ASSUME NEW i \in Jobs, NEW q \in FromDeposit
      PROVE  Burnt(i, q)' = Burnt(i, q) /\ Moved(i, q)' = Moved(i, q)
  <2>1. CASE <<i, q>> = <<j, s>>
    BY <2>1
  <2>2. CASE <<i, q>> # <<j, s>>
    BY <1>2, <2>2 DEF Burnt, Moved
  <2> QED BY <2>1, <2>2
<1>4. ASSUME NEW i \in Jobs, NEW q \in FromDeposit
      PROVE  GasCame(i, q)' = GasCame(i, q)
  <2>1. CASE <<i, GasOf(q)>> = <<j, s>>
    BY <2>1
  <2>2. CASE <<i, GasOf(q)>> # <<j, s>>
    <3>1. funded'[i][q] = funded[i][q] /\ GasOf(q) \in Steps
      BY <1>2, <2>2
    <3> QED BY <2>2, <3>1 DEF GasCame
  <2> QED BY <2>1, <2>2
<1>5. Balanced'
  <2>1. \A i \in Jobs : GasLeft(i)' = GasLeft(i) /\ NotMoved(i)' = NotMoved(i)
    BY <1>2, <1>3, <1>4 DEF GasLeft, NotMoved
  <2> QED BY <2>1, BalancedSame DEF Accounts
<1>6. Unpaid'
  <2>1. \A i \in Jobs \ paid : i # j /\ \A q \in Steps : <<i, q>> # <<j, s>>
    OBVIOUS
  <2> QED BY <2>1 DEF Accounts, Unpaid
<1> QED BY <1>5, <1>6 DEF Accounts

LEMMA PrepareAccounts ==
  ASSUME IInv, Accounts, NEW n \in Nodes, Prepare(n)
  PROVE  Accounts'
<1>0. at[n] \in Jobs /\ step[n] \in Steps
  BY AtIs DEF Prepare
<1>1. PICK j \in Jobs, s \in Steps : j = at[n] /\ s = step[n]
  BY <1>0
<1>2. j \in paid
  BY <1>1, Parameters DEF Accounts, Unpaid
<1>3. /\ UNCHANGED <<paid, deposit, tokens, state, at, funded>> /\ Fresh(j, s)
      /\ status' = [status EXCEPT ![j][s] = "prepared"]
      /\ value' = [value EXCEPT ![j][s] = request[n]]
      /\ cost' = [cost EXCEPT ![j][s] = fee]
      /\ chain' = [chain EXCEPT ![j][s] = "unseen"]
  BY <1>1 DEF Prepare, envVars, jobVars
<1>4. /\ \A i \in Jobs, q \in Steps : <<i, q>> # <<j, s>> =>
            /\ status'[i][q] = status[i][q] /\ value'[i][q] = value[i][q]
            /\ cost'[i][q] = cost[i][q] /\ chain'[i][q] = chain[i][q]
      /\ status'[j][s] = "prepared" /\ chain'[j][s] = "unseen"
  BY <1>3 DEF IInv, TypeOK
<1>5. ASSUME NEW q \in FromDeposit, q = s
      PROVE  Burnt(j, q)' = Burnt(j, q) /\ Moved(j, q)' = Moved(j, q)
  <2>1. s \notin Gas
    BY <1>5 DEF FromDeposit, Gas
  <2>2. chain[j][s] = "unseen"
    BY <1>3, <2>1 DEF Fresh, IInv, JournalInv
  <2> QED BY <1>4, <1>5, <2>2 DEF Burnt, Moved
<1>6. ASSUME NEW q \in FromDeposit, GasOf(q) = s
      PROVE  GasCame(j, q)' = GasCame(j, q)
  <2>1. status[j][s] \in {"none", "confirmed", "failed"}
    BY <1>3 DEF Fresh
  <2>2. ~(chain[j][s] = "ok" /\ status[j][s] # "confirmed")
    BY <2>1 DEF IInv, JournalInv
  <2> QED BY <1>3, <1>4, <1>6, <2>2 DEF GasCame
<1> QED BY <1>2, <1>3, <1>4, <1>5, <1>6, RowAccounts

LEMMA SettleAccounts ==
  ASSUME IInv, Accounts, NEW n \in Nodes,
         ReadReceipt(n) \/ \E seen \in {"unseen", "known"} : Broadcasts(n, seen)
  PROVE  Accounts'
<1>0. at[n] \in Jobs /\ step[n] \in Steps /\ pc[n] \in {"receipt", "broadcast"}
  BY AtIs DEF ReadReceipt, Broadcasts
<1>1. PICK j \in Jobs, s \in Steps : j = at[n] /\ s = step[n]
  BY <1>0
<1>2. j \in paid
  BY <1>1, Parameters DEF Accounts, Unpaid
<1>3. status[j][s] \in {"prepared", "broadcast"}
  BY <1>0, <1>1, UnconfirmedIs DEF IInv, HandInv
<1>4. UNCHANGED <<paid, deposit, tokens, state, at, value, cost>>
  BY DEF ReadReceipt, Broadcasts, chainVars, envVars, jobVars
<1>5. /\ status \in [Jobs -> [Steps -> {"none", "prepared", "broadcast", "confirmed", "failed"}]]
      /\ chain \in [Jobs -> [Steps -> {"unseen", "known", "ok", "reverted"}]]
      /\ funded \in [Jobs -> [FromDeposit -> Nat]]
      /\ value[j][s] \in Nat
  BY DEF IInv, TypeOK
<1>6. /\ FromDeposit = {"reserve", "payout"} /\ Gas = {"gas:reserve", "gas:payout"}
      /\ \A q \in FromDeposit : q # GasOf(q) /\ GasOf(q) \in Gas /\ q \notin Gas
      /\ GasOf("reserve") = "gas:reserve" /\ GasOf("payout") = "gas:payout"
  BY DEF FromDeposit, Gas, GasOf
<1>7. CASE \E seen \in {"unseen", "known"} : Broadcasts(n, seen)
  <2>1. PICK seen \in {"unseen", "known"} :
           /\ status' = [status EXCEPT ![j][s] = "broadcast"]
           /\ chain' = [chain EXCEPT ![j][s] = IF @ = "unseen" THEN seen ELSE @]
           /\ funded' = funded
    BY <1>1, <1>7 DEF Broadcasts
  <2>2. /\ \A i \in Jobs, q \in Steps : <<i, q>> # <<j, s>> =>
              status'[i][q] = status[i][q] /\ chain'[i][q] = chain[i][q]
        /\ status'[j][s] = "broadcast"
        /\ \A c \in {"ok", "reverted"} : chain'[j][s] = c <=> chain[j][s] = c
    BY <1>5, <2>1
  <2>3. \A q \in FromDeposit :
          /\ q = s => Burnt(j, q)' = Burnt(j, q) /\ Moved(j, q)' = Moved(j, q)
          /\ GasOf(q) = s => GasCame(j, q)' = GasCame(j, q)
    BY <1>3, <1>4, <2>1, <2>2 DEF Burnt, Moved, GasCame
  <2> QED BY <1>2, <1>4, <2>1, <2>2, <2>3, RowAccounts
<1>8. CASE ReadReceipt(n)
  <2>1. CASE /\ funded' = funded
             /\ UNCHANGED chain
             /\ \/ status' = status
                \/ /\ status' = [status EXCEPT ![j][s] = "failed"]
                   /\ chain[j][s] = "reverted"
                \/ /\ status' = [status EXCEPT ![j][s] = "confirmed"]
                   /\ s \notin Gas
    <3>1. /\ \A i \in Jobs, q \in Steps : <<i, q>> # <<j, s>> => status'[i][q] = status[i][q]
          /\ \/ status'[j][s] = status[j][s] 
             \/ /\ status'[j][s] = "failed"
                /\ chain[j][s] = "reverted"
             \/ s \notin Gas
      BY <1>5, <2>1
    <3>2. \A q \in FromDeposit :
            /\ q = s => Burnt(j, q)' = Burnt(j, q) /\ Moved(j, q)' = Moved(j, q)
            /\ GasOf(q) = s => GasCame(j, q)' = GasCame(j, q)
      BY <1>4, <1>6, <2>1, <3>1 DEF Burnt, Moved, GasCame
    <3> QED BY <1>2, <1>4, <2>1, <3>1, <3>2, RowAccounts
  <2>2. CASE /\ chain[j][s] = "ok" /\ UNCHANGED chain /\ s \in Gas
             /\ status' = [status EXCEPT ![j][s] = "confirmed"]
             /\ funded' = [funded EXCEPT ![j][IF s = "gas:reserve" THEN "reserve" ELSE "payout"] =
                             @ + value[j][s]]
    <3>1. PICK p \in FromDeposit : /\ GasOf(p) = s /\ \A q \in FromDeposit : GasOf(q) = s => q = p
                                  /\ p = IF s = "gas:reserve" THEN "reserve" ELSE "payout"
      BY <1>6, <2>2
    <3>2. funded' = [funded EXCEPT ![j][p] = @ + value[j][s]]
      BY <2>2, <3>1
    <3>3. /\ \A i \in Jobs, q \in Steps : <<i, q>> # <<j, s>> => status'[i][q] = status[i][q]
          /\ status'[j][s] = "confirmed"
          /\ \A i \in Jobs, q \in FromDeposit : <<i, q>> # <<j, p>> => funded'[i][q] = funded[i][q]
          /\ funded'[j][p] = funded[j][p] + value[j][s] /\ funded[j][p] \in Nat
      BY <1>5, <2>2, <3>2
    <3>4. GasCame(j, p)' = GasCame(j, p)
      BY <1>3, <1>4, <1>5, <2>2, <3>1, <3>3 DEF GasCame
    <3>5. \A q \in FromDeposit : q # s
      BY <1>6, <2>2
    <3> QED BY <1>2, <1>4, <2>2, <3>1, <3>3, <3>4, <3>5, RowAccounts
  <2>3. \/ /\ chain[j][s] = "ok" /\ status' = [status EXCEPT ![j][s] = "confirmed"]
           /\ funded' = IF s \in Gas
                        THEN [funded EXCEPT ![j][IF s = "gas:reserve" THEN "reserve" ELSE "payout"] =
                                @ + value[j][s]]
                        ELSE funded
        \/ /\ chain[j][s] = "reverted" /\ status' = [status EXCEPT ![j][s] = "failed"]
           /\ funded' = funded
        \/ status' = status /\ funded' = funded
    BY <1>1, <1>8 DEF ReadReceipt
  <2>4. UNCHANGED chain
    BY <1>8 DEF ReadReceipt, chainVars
  <2> QED BY <2>1, <2>2, <2>3, <2>4
<1> QED BY <1>7, <1>8

LEMMA RunAccounts ==
  ASSUME IInv, Accounts, NEW n \in Nodes, Run(n) \/ Fault(n)
  PROVE  Accounts'
<1>1. UNCHANGED <<paid, deposit, tokens>> /\ \A m \in Nodes : at'[m] \in paid \cup {None}
  BY RunPaid, RunHand
<1>2. CASE \/ Prepare(n) \/ ReadReceipt(n) \/ Broadcast(n) \/ BroadcastLost(n)
  <2>1. CASE Prepare(n)
    BY <2>1, PrepareAccounts
  <2>2. CASE ReadReceipt(n) \/ Broadcast(n) \/ BroadcastLost(n)
    BY <2>2, SettleAccounts DEF Broadcast, BroadcastLost
  <2> QED BY <1>2, <2>1, <2>2
<1>3. CASE \/ Enqueue(n) \/ Plan(n) \/ SkipReserve(n) \/ NothingLeft(n) \/ NothingDue(n)
           \/ Terminal(n) \/ Advance(n)
  <2>1. UNCHANGED <<txVars, chain>>
    BY <1>3 DEF Enqueue, Plan, SkipReserve, NothingLeft, NothingDue, Terminal, Advance, chainVars
  <2>2. \A j \in Jobs \ paid : state'[j] = state[j]
    <3>1. CASE Enqueue(n)
      BY <3>1 DEF Enqueue, IInv, TypeOK
    <3>2. CASE ~Enqueue(n)
      <4>1. at[n] \in Jobs
        BY <1>3, <3>2, AtIs DEF Plan, SkipReserve, NothingLeft, NothingDue, Terminal, Advance
      <4>2. at[n] \in paid
        BY <4>1, Parameters DEF Accounts, Unpaid
      <4>3. state' = state \/ \E v : state' = [state EXCEPT ![at[n]] = v]
        BY <1>3, <3>2 DEF Plan, SkipReserve, NothingLeft, NothingDue, Terminal, Advance
      <4> QED BY <4>2, <4>3 DEF IInv, TypeOK
    <3> QED BY <3>1, <3>2
  <2> QED BY <1>1, <2>1, <2>2, QuietAccounts
<1>4. CASE \/ Start(n) \/ Pending(n) \/ Pick(n) \/ Release(n) \/ Finish(n) \/ RunFails(n) \/ Crash(n)
           \/ JobFails(n) \/ PlanRefused(n) \/ ReserveBelowFee(n) \/ PrepareRefused(n)
           \/ Resume(n) \/ FundGas(n) \/ MoveToken(n) \/ MoveNative(n) \/ Swap(n) \/ SendAgain(n)
  <2>1. UNCHANGED <<state, txVars, chain>>
    BY <1>4 DEF Start, Pending, Pick, Release, Finish, RunFails, Crash, JobFails, PlanRefused,
       ReserveBelowFee, PrepareRefused, Throws, Resume, FundGas, MoveToken, MoveNative, Swap,
       Sends, SendAgain, jobVars, chainVars
  <2> QED BY <1>1, <2>1, QuietAccounts
<1> QED BY <1>2, <1>3, <1>4 DEF Run, Decide, Send, Fault

LEMMA InitAccounts == Init => Accounts
<1> SUFFICES ASSUME Init PROVE Accounts
  OBVIOUS
<1>1. SumFunctionOnSet(InDeposit, {}) = 0 /\ SumFunctionOnSet(InTokens, {}) = 0
  BY SumOfNone
<1>2. IsFiniteSet({})
  BY FS_EmptySet
<1>3. Unpaid
  BY DEF Init, Unpaid
<1> QED BY <1>1, <1>2, <1>3 DEF Init, Accounts, Balanced

LEMMA AccountsStep == IInv /\ Accounts /\ [Next]_vars => Accounts'
<1> SUFFICES ASSUME IInv, Accounts, [Next]_vars PROVE Accounts'
  OBVIOUS
<1>1. CASE UNCHANGED vars \/ Reprice \/ \E j \in Jobs : RetryDue(j)
  <2>1. UNCHANGED <<paid, deposit, tokens, txVars, chain, state, at>>
    BY <1>1 DEF vars, jobVars, chainVars, envVars, runVars, Reprice, RetryDue
  <2> QED BY <2>1, QuietAccounts DEF Accounts, Unpaid
<1>2. ASSUME NEW j \in Jobs, Pay(j) PROVE Accounts'
  BY <1>2, PayAccounts
<1>3. ASSUME NEW j \in Jobs, NEW s \in Steps, Mine(j, s) \/ Revert(j, s) PROVE Accounts'
  <2>1. \E result \in {"ok", "reverted"} : Mines(j, s, result)
    BY <1>3 DEF Mine, Revert
  <2>2. UNCHANGED <<jobVars, txVars, paid, at>>
    BY <1>3 DEF Mine, Revert, envVars, runVars
  <2> QED BY <2>1, <2>2, MinesAccounts
<1>4. ASSUME NEW n \in Nodes, Run(n) \/ Fault(n) PROVE Accounts'
  BY <1>4, RunAccounts
<1> QED BY <1>1, <1>2, <1>3, <1>4 DEF Next

\* An invoice's share is no less than what its own job left.
LEMMA SharesAreLeft ==
  ASSUME IInv, NEW j \in Jobs
  PROVE  /\ Left[j] \in Int
         /\ j \in Tokens => InDeposit[j] >= 0 /\ InTokens[j] = Left[j]
         /\ j \notin Tokens => InDeposit[j] >= Left[j] /\ InTokens[j] = 0
<1>1. /\ Amount[j] \in Nat
      /\ \A s \in Steps : value[j][s] \in Nat /\ cost[j][s] \in Nat
      /\ \A s \in FromDeposit : funded[j][s] \in Nat
  BY JobIs
<1>2. FromDeposit = {"reserve", "payout"} /\ FromDeposit \subseteq Steps
  BY DEF FromDeposit, Steps
<1>3. \A s \in FromDeposit : GasCame(j, s) \in Nat /\ Burnt(j, s) \in Nat /\ Moved(j, s) \in Nat
  BY Shares
<1>4. \A s \in FromDeposit : chain[j][s] \in {"ok", "reverted"} => status[j][s] # "none"
  BY <1>2 DEF IInv, JournalInv
<1>5. \A s \in FromDeposit : j \in Tokens => Burnt(j, s) <= GasCame(j, s)
  <2>1. \A s \in FromDeposit : funded[j][s] <= GasCame(j, s)
    <3>1. \A s \in FromDeposit : GasOf(s) \in Steps
      BY DEF FromDeposit, Steps, Gas, GasOf
    <3> QED BY <1>1, <3>1 DEF GasCame
  <2>2. \A s \in FromDeposit : j \in Tokens /\ status[j][s] # "none" => cost[j][s] <= funded[j][s]
    BY DEF IInv, OwnReceipts
  <2> QED BY <1>1, <1>2, <1>3, <1>4, <2>1, <2>2 DEF Burnt
<1> DEFINE Out(s) == CASE chain[j][s] = "ok" -> Takes(j, s)
                      [] chain[j][s] = "reverted" /\ j \notin Tokens -> cost[j][s]
                      [] OTHER -> 0
<1>6. \A s \in FromDeposit :
        Out(s) = Moved(j, s) + (IF j \in Tokens THEN 0 ELSE Burnt(j, s))
  BY <1>1, <1>2, <1>4 DEF Takes, Moved, Burnt
<1>7. Left[j] = Amount[j] - (Out("reserve") + Out("payout"))
  BY DEF Left, Taken
<1> HIDE DEF Out
<1>8. /\ GasLeft(j) = GasCame(j, "reserve") + GasCame(j, "payout")
                        - Burnt(j, "reserve") - Burnt(j, "payout")
      /\ NotMoved(j) = Amount[j] - Moved(j, "reserve") - Moved(j, "payout")
  BY DEF GasLeft, NotMoved
<1>9. /\ GasCame(j, "reserve") \in Nat /\ Burnt(j, "reserve") \in Nat /\ Moved(j, "reserve") \in Nat
      /\ GasCame(j, "payout") \in Nat /\ Burnt(j, "payout") \in Nat /\ Moved(j, "payout") \in Nat
  BY <1>2, <1>3
<1>10. CASE j \in Tokens
  <2>1. Out("reserve") = Moved(j, "reserve") /\ Out("payout") = Moved(j, "payout")
    BY <1>2, <1>6, <1>9, <1>10
  <2>2. Burnt(j, "reserve") <= GasCame(j, "reserve") /\ Burnt(j, "payout") <= GasCame(j, "payout")
    BY <1>2, <1>5, <1>10
  <2>3. InDeposit[j] = GasLeft(j) + 0 /\ InTokens[j] = NotMoved(j)
    BY <1>10, SharesThen
  <2> QED BY <1>1, <1>7, <1>8, <1>9, <1>10, <2>1, <2>2, <2>3
<1>11. CASE j \notin Tokens
  <2>1. /\ Out("reserve") = Moved(j, "reserve") + Burnt(j, "reserve")
        /\ Out("payout") = Moved(j, "payout") + Burnt(j, "payout")
    BY <1>2, <1>6, <1>9, <1>11
  <2>2. InDeposit[j] = GasLeft(j) + NotMoved(j) /\ InTokens[j] = 0
    BY <1>11, SharesThen
  <2> QED BY <1>1, <1>7, <1>8, <1>9, <1>11, <2>1, <2>2
<1> QED BY <1>10, <1>11

\* nativeTransferValue, the gas rows and the lock: whatever a job pays, and whatever it
\* costs, the money of every other invoice stays at the shared address.
THEOREM OthersReceiptsKept == Spec => []ReceiptsKept
<1>1. IInv /\ Accounts => ReceiptsKept
  <2> SUFFICES ASSUME IInv, Accounts PROVE ReceiptsKept
    OBVIOUS
  <2>1. IsFiniteSet(paid) /\ paid \subseteq Jobs
    BY DEF Accounts, IInv, TypeOK
  <2>2. \A j \in paid : /\ InDeposit[j] \in Int /\ InTokens[j] \in Int /\ Left[j] \in Int
                        /\ IF j \in Jobs \ Tokens THEN InDeposit[j] >= Left[j]
                                                 ELSE InDeposit[j] >= 0
                        /\ IF j \in Tokens THEN InTokens[j] >= Left[j] ELSE InTokens[j] >= 0
    BY <2>1, Shares, SharesAreLeft
  <2>3. SumFunctionOnSet(InDeposit, paid) >= SumFunctionOnSet(Left, paid \cap (Jobs \ Tokens))
    BY <2>1, <2>2, SumAtLeast
  <2>4. SumFunctionOnSet(InTokens, paid) >= SumFunctionOnSet(Left, paid \cap Tokens)
    BY <2>1, <2>2, SumAtLeast
  <2>5. paid \cap (Jobs \ Tokens) = paid \ Tokens
    BY <2>1
  <2> QED BY <2>3, <2>4, <2>5 DEF ReceiptsKept, Accounts, Balanced
<1> QED BY <1>1, InitIInv, InvStep, InitAccounts, AccountsStep, PTL DEF Spec
=============================================================================
