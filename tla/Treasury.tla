------------------------------ MODULE Treasury ------------------------------
(***************************************************************************)
(* The collection worker of modules/payments: cryptoTreasury.ts, its       *)
(* journal cryptoTransactionJournal.ts and the session lock of             *)
(* cryptoLocks.ts, for one EVM network.                                    *)
(*                                                                         *)
(* Every paid invoice becomes one job.  A run takes the lock, recovers the *)
(* transaction that is not confirmed yet or advances the oldest job by one *)
(* step: plan, move the service's reserve, swap it if it is a token, pay   *)
(* the author.  A transaction is signed and journaled, then broadcast, and *)
(* a later run confirms it from its finalized receipt.                     *)
(*                                                                         *)
(* All jobs are of one reader and resource, whose deposit address they     *)
(* share, which is where one job could spend the money of another.  Token  *)
(* jobs are of one ERC-20.  The gas rows of a step (job:gas:step:sequence) *)
(* are one slot of the journal and the sum of those confirmed before it.   *)
(***************************************************************************)
EXTENDS Integers, FiniteSets, Functions

CONSTANTS Nodes, None,
          Jobs,            \* 1..n, in the order of createdAt
          Tokens,          \* the jobs whose asset is the ERC-20
          Amount,          \* collectionAtomic of each job
          Low,             \* serviceLowCents
          Refill,          \* serviceRefillCents in the asset of each job
          Float,           \* what the service address may start with
          Fees,            \* what a transaction may cost
          MaxReprices, MaxFaults   \* bounds

ASSUME TreasuryAssumption ==
    /\ Jobs \subseteq Nat \ {0} /\ Tokens \subseteq Jobs
    /\ Amount \in [Jobs -> Nat \ {0}]
    /\ None \notin Nodes /\ None \notin Jobs
    /\ Low \in Nat /\ Refill \in [Jobs -> Nat \ {0}] /\ Float \subseteq Nat
    /\ Fees \subseteq Nat \ {0}
    /\ MaxReprices \in Nat /\ MaxFaults \in Nat

VARIABLES
    state, reserve, remainder,   \* a job's row: state and plan
    delayed, error,              \* retryAt: 0 past, 1 or 2 in the future; lastError is set
    status, value, cost,         \* its journal rows: state, value and fee
    funded,                      \* sum of the confirmed gas rows of a step
    chain,                       \* what the chain did with a transaction
    deposit, service,            \* native balances of the two addresses
    tokens, stock,               \* their token balances
    allowance,                   \* what the router may take of stock
    paid, fee,                   \* invoices paid so far; the fee of the moment
    holder,                      \* who has the advisory lock
    pc, at, step, recover,       \* a run: its step, its job and transaction,
                                 \*   and whether pending() called send
    cap, request,                \* and send's maxFee and value
    reprices, faults

jobVars   == <<state, reserve, remainder, delayed, error>>
txVars    == <<status, value, cost, funded>>
chainVars == <<chain, deposit, service, tokens, stock, allowance>>
envVars   == <<paid, fee, reprices>>
runVars   == <<pc, at, step, recover, cap, request>>
vars == <<jobVars, txVars, chainVars, envVars, holder, runVars, faults>>

Open  == {"new", "reserve", "swap", "payout"}
Gas   == {"gas:reserve", "gas:payout"}
Steps == Gas \cup {"reserve", "payout", "reset", "approve", "swap"}
FromDeposit == {"reserve", "payout"}
Unconfirmed == {t \in Jobs \X Steps : status[t[1]][t[2]] \in {"prepared", "broadcast"}}

\* No fee limit was passed to send.
NoCap == -1

TypeOK ==
    /\ state \in [Jobs -> Open \cup {"absent", "done", "action_required"}]
    /\ reserve \in [Jobs -> Nat] /\ remainder \in [Jobs -> Nat]
    /\ delayed \in [Jobs -> 0..2] /\ error \in [Jobs -> BOOLEAN]
    /\ status \in [Jobs -> [Steps -> {"none", "prepared", "broadcast", "confirmed", "failed"}]]
    /\ value \in [Jobs -> [Steps -> Nat]] /\ cost \in [Jobs -> [Steps -> Nat]]
    /\ funded \in [Jobs -> [FromDeposit -> Nat]]
    /\ chain \in [Jobs -> [Steps -> {"unseen", "known", "ok", "reverted"}]]
    /\ deposit \in Nat /\ service \in Nat
    /\ tokens \in Int /\ stock \in Int /\ allowance \in Int
    /\ paid \in SUBSET Jobs /\ fee \in Fees /\ reprices \in 0..MaxReprices
    /\ holder \in Nodes \cup {None}
    /\ pc \in [Nodes -> {"idle", "enqueue", "pending", "receipt", "broadcast", "terminal",
                         "pick", "job", "send", "advance", "finish", "release"}]
    /\ at \in [Nodes -> Jobs \cup {None}] /\ step \in [Nodes -> Steps \cup {None}]
    /\ recover \in [Nodes -> BOOLEAN]
    /\ cap \in [Nodes -> Nat \cup {NoCap}] /\ request \in [Nodes -> Nat]
    /\ faults \in 0..MaxFaults

Init ==
    /\ state = [j \in Jobs |-> "absent"]
    /\ reserve = [j \in Jobs |-> 0] /\ remainder = [j \in Jobs |-> 0]
    /\ delayed = [j \in Jobs |-> 0] /\ error = [j \in Jobs |-> FALSE]
    /\ status = [j \in Jobs |-> [s \in Steps |-> "none"]]
    /\ value = [j \in Jobs |-> [s \in Steps |-> 0]]
    /\ cost = [j \in Jobs |-> [s \in Steps |-> 0]]
    /\ funded = [j \in Jobs |-> [s \in FromDeposit |-> 0]]
    /\ chain = [j \in Jobs |-> [s \in Steps |-> "unseen"]]
    /\ deposit = 0 /\ service \in Float /\ tokens = 0 /\ stock = 0 /\ allowance = 0
    /\ paid = {} /\ fee \in Fees /\ reprices = 0
    /\ holder = None
    /\ pc = [n \in Nodes |-> "idle"]
    /\ at = [n \in Nodes |-> None] /\ step = [n \in Nodes |-> None]
    /\ recover = [n \in Nodes |-> FALSE]
    /\ cap = [n \in Nodes |-> NoCap] /\ request = [n \in Nodes |-> 0]
    /\ faults = 0

-----------------------------------------------------------------------------
(* The network and the payers.                                             *)

\* An account scan settles the next invoice: its money is at the address.
Pay(j) ==
    /\ j \notin paid /\ \A i \in Jobs : i < j => i \in paid
    /\ paid' = paid \cup {j}
    /\ IF j \in Tokens THEN tokens' = tokens + Amount[j] /\ UNCHANGED deposit
                       ELSE deposit' = deposit + Amount[j] /\ UNCHANGED tokens
    /\ UNCHANGED <<jobVars, txVars, chain, service, stock, allowance, fee, reprices, holder,
                   runVars, faults>>

Reprice ==
    /\ reprices < MaxReprices
    /\ fee' \in Fees \ {fee}
    /\ reprices' = reprices + 1
    /\ UNCHANGED <<jobVars, txVars, chainVars, paid, holder, runVars, faults>>

\* A transaction that some provider has is mined and finalized; its sender pays
\* the signed fee, the most it can be, also if it reverts.
Mines(j, s, result) ==
    LET v == IF result = "ok" THEN value[j][s] ELSE 0
        c == cost[j][s]
        token == j \in Tokens IN
    /\ chain[j][s] = "known"
    /\ chain' = [chain EXCEPT ![j][s] = result]
    /\ deposit' = CASE s \in Gas -> deposit + v
                    [] s \in FromDeposit -> deposit - c - (IF token THEN 0 ELSE v)
                    [] OTHER -> deposit
    /\ service' = CASE s \in Gas -> service - c - v
                    [] s = "reserve" /\ ~token -> service + v
                    [] s = "swap" -> service - c + v
                    [] s \in {"approve", "reset"} -> service - c
                    [] OTHER -> service
    /\ tokens' = IF s \in FromDeposit /\ token THEN tokens - v ELSE tokens
    /\ stock' = CASE s = "reserve" /\ token -> stock + v
                  [] s = "swap" -> stock - v
                  [] OTHER -> stock
    /\ allowance' = CASE result # "ok" -> allowance
                      [] s = "approve" -> v
                      [] s = "reset" -> 0
                      [] s = "swap" -> allowance - v
                      [] OTHER -> allowance

Mine(j, s) ==
    /\ Mines(j, s, "ok")
    /\ UNCHANGED <<jobVars, txVars, envVars, holder, runVars, faults>>

Revert(j, s) ==
    /\ faults < MaxFaults
    /\ Mines(j, s, "reverted")
    /\ faults' = faults + 1
    /\ UNCHANGED <<jobVars, txVars, envVars, holder, runVars>>

\* A job's retryAt passes, later than the next run: collectionRetryIntervalMs is
\* twelve times workerIntervalMs.
RetryDue(j) ==
    /\ delayed[j] = 1
    /\ delayed' = [delayed EXCEPT ![j] = 0]
    /\ UNCHANGED <<state, reserve, remainder, error, txVars, chainVars, envVars, holder,
                   runVars, faults>>
-----------------------------------------------------------------------------
(* A run.                                                                  *)

Lesser(a, b) == IF a < b THEN a ELSE b

Goto(n, label) == pc' = [pc EXCEPT ![n] = label]

\* The end of a network's turn: the lock is given up and nothing remembered.
Ended(n) ==
    /\ Goto(n, "idle") /\ holder' = None
    /\ at' = [at EXCEPT ![n] = None] /\ step' = [step EXCEPT ![n] = None]
    /\ recover' = [recover EXCEPT ![n] = FALSE]
    /\ cap' = [cap EXCEPT ![n] = NoCap] /\ request' = [request EXCEPT ![n] = 0]

\* Mutant: the lock is not asked.
LockIgnored == TRUE

LockFree == holder = None

\* pg_try_advisory_lock: a run that does not get it does nothing.
Start(n) ==
    /\ pc[n] = "idle" /\ LockFree
    /\ holder' = n
    /\ Goto(n, "enqueue")
    /\ UNCHANGED <<jobVars, txVars, chainVars, envVars, at, step, recover, cap, request,
                   faults>>

\* One job for each paid invoice that has none.
Enqueue(n) ==
    /\ pc[n] = "enqueue"
    /\ state' = [j \in Jobs |-> IF j \in paid /\ state[j] = "absent" THEN "new" ELSE state[j]]
    /\ Goto(n, "pending")
    /\ UNCHANGED <<reserve, remainder, delayed, error, txVars, chainVars, envVars, holder,
                   at, step, recover, cap, request, faults>>

\* pending(): an unconfirmed transaction comes before any new one.
Pending(n) ==
    /\ pc[n] = "pending"
    /\ IF Unconfirmed = {}
       THEN Goto(n, "pick") /\ UNCHANGED <<at, step, recover>>
       ELSE \E t \in Unconfirmed :
              /\ at' = [at EXCEPT ![n] = t[1]] /\ step' = [step EXCEPT ![n] = t[2]]
              /\ recover' = [recover EXCEPT ![n] = TRUE]
              /\ Goto(n, "receipt")
    /\ UNCHANGED <<jobVars, txVars, chainVars, envVars, holder, cap, request, faults>>

\* Mutant: retryAt is not asked.
ReadyAlways == {j \in Jobs : state[j] \in Open}

\* The open jobs whose retry is due.
Ready == {j \in Jobs : state[j] \in Open /\ delayed[j] = 0}

\* The oldest of them.
Pick(n) ==
    /\ pc[n] = "pick"
    /\ IF Ready = {} THEN Goto(n, "release") /\ UNCHANGED at
       ELSE \E j \in Ready :
              /\ \A i \in Ready : j <= i
              /\ at' = [at EXCEPT ![n] = j]
              /\ Goto(n, "job")
    /\ delayed' = [j \in Jobs |-> Lesser(delayed[j], 1)]
    /\ UNCHANGED <<state, reserve, remainder, error, txVars, chainVars, envVars, holder, step,
                   recover, cap, request, faults>>

Release(n) ==
    /\ pc[n] = "release"
    /\ Ended(n)
    /\ UNCHANGED <<jobVars, txVars, chainVars, envVars, faults>>

\* The job in hand went through: lastError and retryAt are cleared.
Finish(n) ==
    /\ pc[n] = "finish"
    /\ error' = [error EXCEPT ![at[n]] = FALSE]
    /\ delayed' = [delayed EXCEPT ![at[n]] = 0]
    /\ Ended(n)
    /\ UNCHANGED <<state, reserve, remainder, txVars, chainVars, envVars, faults>>

\* It threw: the error is kept and the job retried later.
Throws(n) ==
    /\ error' = [error EXCEPT ![at[n]] = TRUE]
    /\ delayed' = [delayed EXCEPT ![at[n]] = 2]
    /\ Ended(n)
    /\ UNCHANGED <<state, reserve, remainder, txVars, chainVars, envVars>>

\* The transaction failed for good: the job waits for the operator.
Terminal(n) ==
    /\ pc[n] = "terminal"
    /\ state' = [state EXCEPT ![at[n]] = "action_required"]
    /\ error' = [error EXCEPT ![at[n]] = TRUE]
    /\ delayed' = [delayed EXCEPT ![at[n]] = IF recover[n] THEN @ ELSE 2]
    /\ Ended(n)
    /\ UNCHANGED <<reserve, remainder, txVars, chainVars, envVars, faults>>

-----------------------------------------------------------------------------
(* Planning.                                                               *)

\* planCollection: the part that refills a low service address, and the rest.
Plan(n) == LET j == at[n] IN
    /\ pc[n] = "job" /\ state[j] = "new"
    /\ (IF j \in Tokens THEN tokens ELSE deposit) >= Amount[j]
    /\ state' = [state EXCEPT ![j] = "reserve"]
    /\ LET r == IF service < Low THEN Lesser(Amount[j], Refill[j]) ELSE 0 IN
         /\ reserve' = [reserve EXCEPT ![j] = r]
         /\ remainder' = [remainder EXCEPT ![j] = Amount[j] - r]
    /\ Goto(n, "finish")
    /\ UNCHANGED <<delayed, error, txVars, chainVars, envVars, holder, at, step, recover,
                   cap, request, faults>>

\* A provider that shows less than the invoice: crypto_deposit_balance_changed.
PlanRefused(n) ==
    /\ pc[n] = "job" /\ state[at[n]] = "new" /\ faults < MaxFaults
    /\ faults' = faults + 1
    /\ Goto(n, "terminal")
    /\ UNCHANGED <<jobVars, txVars, chainVars, envVars, holder, at, step, recover, cap,
                   request>>

\* Another job's payment refilled the service before this token reserve moved.
Refilled(j) == j \in Tokens /\ reserve[j] > 0 /\ status[j]["reserve"] = "none" /\ service >= Low

SkipReserve(n) == LET j == at[n] IN
    /\ pc[n] = "job" /\ state[j] = "reserve" /\ Refilled(j)
    /\ reserve' = [reserve EXCEPT ![j] = 0]
    /\ remainder' = [remainder EXCEPT ![j] = Amount[j]]
    /\ Goto(n, "finish")
    /\ UNCHANGED <<state, delayed, error, txVars, chainVars, envVars, holder, at, step,
                   recover, cap, request, faults>>

-----------------------------------------------------------------------------
(* Deciding what to send.                                                  *)

\* What a step has to move.
Due(j, s) == CASE s = "reserve" -> reserve[j] [] s = "payout" -> remainder[j]

\* The job is at a transfer step that has something to move.
Transfers(n, s) ==
    /\ pc[n] = "job" /\ state[at[n]] = s /\ s \in FromDeposit
    /\ ~(s = "reserve" /\ Refilled(at[n]))
    /\ Due(at[n], s) > 0

Sends(n, s, v, limit) ==
    /\ step' = [step EXCEPT ![n] = s]
    /\ request' = [request EXCEPT ![n] = v]
    /\ cap' = [cap EXCEPT ![n] = limit]
    /\ Goto(n, "send")
    /\ UNCHANGED <<jobVars, txVars, chainVars, envVars, holder, at, recover, faults>>

\* The step's row is there already: send goes by its state.
Resume(n) == LET j == at[n] IN
    /\ \E s \in FromDeposit :
         /\ Transfers(n, s) /\ status[j][s] # "none"
         /\ Sends(n, s, 0, NoCap)

\* A token step pays its gas from rows of its own, not from native receipts.
FundGas(n) == LET j == at[n] IN
    /\ j \in Tokens
    /\ \E s \in FromDeposit :
         /\ Transfers(n, s) /\ status[j][s] = "none"
         /\ fee > funded[j][s]
         /\ Sends(n, IF s = "reserve" THEN "gas:reserve" ELSE "gas:payout",
                  fee - funded[j][s], NoCap)

\* Mutant: no limit is given.
GasLimitNone(j, s) == NoCap
GasLimit(j, s) == funded[j][s]

MoveToken(n) == LET j == at[n] IN
    /\ j \in Tokens
    /\ \E s \in FromDeposit :
         /\ Transfers(n, s) /\ status[j][s] = "none"
         /\ fee <= funded[j][s]
         /\ Sends(n, s, Due(j, s), GasLimit(j, s))

\* What the job's confirmed transactions took from the deposit address.
Spent(j) ==
    LET Taken(s) == IF status[j][s] = "confirmed" THEN value[j][s] + cost[j][s] ELSE 0
    IN Taken("reserve") + Taken("payout")

\* Mutant: what was spent is forgotten.
NativeValueUnspent(j, s) == Lesser(Due(j, s), Amount[j] - fee)

\* nativeTransferValue: an invoice spends its own receipts only.
NativeValue(j, s) == Lesser(Due(j, s), Amount[j] - Spent(j) - fee)

MoveNative(n) == LET j == at[n] IN
    /\ j \notin Tokens
    /\ \E s \in FromDeposit :
         /\ Transfers(n, s) /\ status[j][s] = "none"
         /\ NativeValue(j, s) > 0
         /\ Sends(n, s, NativeValue(j, s), fee)

\* crypto_reserve_below_fee.
ReserveBelowFee(n) ==
    /\ at[n] \in Jobs \ Tokens
    /\ Transfers(n, "reserve") /\ status[at[n]]["reserve"] = "none"
    /\ NativeValue(at[n], "reserve") <= 0
    /\ Throws(n)
    /\ UNCHANGED faults

\* Nothing is left for the author after the fee.
NothingLeft(n) ==
    /\ at[n] \in Jobs \ Tokens
    /\ Transfers(n, "payout") /\ status[at[n]]["payout"] = "none"
    /\ NativeValue(at[n], "payout") <= 0
    /\ state' = [state EXCEPT ![at[n]] = "done"]
    /\ Goto(n, "finish")
    /\ UNCHANGED <<reserve, remainder, delayed, error, txVars, chainVars, envVars, holder,
                   at, step, recover, cap, request, faults>>

\* Nothing to move: the job goes on.
NothingDue(n) ==
    /\ pc[n] = "job" /\ state[at[n]] \in FromDeposit /\ Due(at[n], state[at[n]]) = 0
    /\ state' = [state EXCEPT ![at[n]] = IF @ = "reserve" THEN "payout" ELSE "done"]
    /\ Goto(n, "finish")
    /\ UNCHANGED <<reserve, remainder, delayed, error, txVars, chainVars, envVars, holder,
                   at, step, recover, cap, request, faults>>

\* processSwapStep: what the allowance asks for, once the swap is not sent yet.
SwapKind(j) == CASE status[j]["swap"] # "none" -> "swap"
                 [] OTHER -> IF allowance >= reserve[j] THEN "swap"
                             ELSE IF allowance > 0 THEN "reset" ELSE "approve"

Swap(n) == LET j == at[n]  s == SwapKind(j) IN
    /\ pc[n] = "job" /\ state[j] = "swap"
    /\ Sends(n, s, IF s = "reset" THEN 0 ELSE reserve[j],
             IF status[j][s] = "none" THEN fee ELSE NoCap)

-----------------------------------------------------------------------------
(* send().                                                                 *)

\* No row of this identity: a gas row's identity is used once.
Fresh(j, s) == status[j][s] = "none" \/ (s \in Gas /\ status[j][s] \in {"confirmed", "failed"})

\* What the sender must have: the native value and the fee.
Needed(j, s, v) == fee + (IF s \in Gas \/ (s \in FromDeposit /\ j \notin Tokens) THEN v ELSE 0)
Balance(s) == IF s \in FromDeposit THEN deposit ELSE service

WithinCap(n) == cap[n] = NoCap \/ fee <= cap[n]
CanPay(n) == Balance(step[n]) >= Needed(at[n], step[n], request[n])

\* The signed transaction is journaled before anything is broadcast.
Prepare(n) == LET j == at[n]  s == step[n] IN
    /\ pc[n] = "send" /\ Fresh(j, s) /\ WithinCap(n) /\ CanPay(n)
    /\ status' = [status EXCEPT ![j][s] = "prepared"]
    /\ value' = [value EXCEPT ![j][s] = request[n]]
    /\ cost' = [cost EXCEPT ![j][s] = fee]
    /\ chain' = [chain EXCEPT ![j][s] = "unseen"]
    /\ Goto(n, "receipt")
    /\ UNCHANGED <<jobVars, funded, deposit, service, tokens, stock, allowance, envVars,
                   holder, at, step, recover, cap, request, faults>>

\* crypto_fee_changed, or an address that needs funding first.
PrepareRefused(n) ==
    /\ pc[n] = "send" /\ Fresh(at[n], step[n])
    /\ ~(WithinCap(n) /\ CanPay(n))
    /\ Throws(n)
    /\ UNCHANGED faults

\* The row is there: its state decides.
SendAgain(n) ==
    /\ pc[n] = "send" /\ ~Fresh(at[n], step[n])
    /\ Goto(n, CASE status[at[n]][step[n]] = "confirmed" -> "advance"
                 [] status[at[n]][step[n]] = "failed" -> "terminal"
                 [] OTHER -> "receipt")
    /\ UNCHANGED <<jobVars, txVars, chainVars, envVars, holder, at, step, recover, cap,
                   request, faults>>

\* The finalized receipt is asked for before anything is broadcast again; one
\* without the Transfer log it should have is like a revert.
ReadReceipt(n) == LET j == at[n]  s == step[n] IN
    /\ pc[n] = "receipt"
    /\ \/ /\ chain[j][s] = "ok"
          /\ status' = [status EXCEPT ![j][s] = "confirmed"]
          /\ funded' = IF s \in Gas
                       THEN [funded EXCEPT ![j][IF s = "gas:reserve" THEN "reserve" ELSE "payout"] =
                               @ + value[j][s]]
                       ELSE funded
          /\ Goto(n, IF recover[n] THEN "release" ELSE "advance")
       \/ /\ chain[j][s] = "reverted"
          /\ status' = [status EXCEPT ![j][s] = "failed"]
          /\ UNCHANGED funded
          /\ Goto(n, "terminal")
       \/ /\ chain[j][s] \in {"unseen", "known"}
          /\ UNCHANGED <<status, funded>>
          /\ Goto(n, "broadcast")
    /\ UNCHANGED <<jobVars, value, cost, chainVars, envVars, holder, at, step, recover, cap,
                   request, faults>>

\* The same signed bytes each time; no answer, or "already known", counts as done.
Broadcasts(n, seen) ==
    /\ pc[n] = "broadcast"
    /\ status' = [status EXCEPT ![at[n]][step[n]] = "broadcast"]
    /\ chain' = [chain EXCEPT ![at[n]][step[n]] = IF @ = "unseen" THEN seen ELSE @]
    /\ Goto(n, IF recover[n] THEN "release" ELSE "finish")
    /\ UNCHANGED <<jobVars, value, cost, funded, deposit, service, tokens, stock, allowance,
                   envVars, holder, at, step, recover, cap, request>>

Broadcast(n) == Broadcasts(n, "known") /\ UNCHANGED faults

BroadcastLost(n) ==
    /\ faults < MaxFaults
    /\ Broadcasts(n, "unseen")
    /\ faults' = faults + 1

\* Mutant: the swap ends the job.
NextStateDone(j, s) == CASE s = "reserve" -> IF j \in Tokens THEN "swap" ELSE "payout"
                         [] s \in {"payout", "swap"} -> "done"
                         [] OTHER -> state[j]

\* The state a job goes on to when its step is confirmed.
NextState(j, s) == CASE s = "reserve" -> IF j \in Tokens THEN "swap" ELSE "payout"
                     [] s = "payout" -> "done"
                     [] s = "swap" -> "payout"
                     [] OTHER -> state[j]

Advance(n) == LET j == at[n]  s == step[n] IN
    /\ pc[n] = "advance"
    /\ state' = [state EXCEPT ![j] = NextState(j, s)]
    /\ Goto(n, "finish")
    /\ UNCHANGED <<reserve, remainder, delayed, error, txVars, chainVars, envVars, holder,
                   at, step, recover, cap, request, faults>>

-----------------------------------------------------------------------------
(* Failures.                                                               *)

\* A call of the job's turn fails: a provider, a quote, a fee not eligible, a
\* statement.
JobFails(n) ==
    /\ pc[n] \in {"job", "send", "receipt", "broadcast", "advance", "finish"} /\ ~recover[n]
    /\ faults < MaxFaults
    /\ Throws(n)
    /\ faults' = faults + 1

\* A call outside of it fails: the network's turn ends.
RunFails(n) ==
    /\ pc[n] \in {"enqueue", "pending", "pick", "terminal"} \/ recover[n]
    /\ faults < MaxFaults
    /\ Ended(n)
    /\ faults' = faults + 1
    /\ UNCHANGED <<jobVars, txVars, chainVars, envVars>>

\* The process dies and its session gives the lock up.
Crash(n) ==
    /\ pc[n] # "idle" /\ faults < MaxFaults
    /\ Ended(n)
    /\ faults' = faults + 1
    /\ UNCHANGED <<jobVars, txVars, chainVars, envVars>>

-----------------------------------------------------------------------------
Decide(n) ==
    \/ Plan(n) \/ SkipReserve(n) \/ Resume(n) \/ FundGas(n) \/ MoveToken(n) \/ MoveNative(n)
    \/ ReserveBelowFee(n) \/ NothingLeft(n) \/ NothingDue(n) \/ Swap(n)

Send(n) ==
    Prepare(n) \/ PrepareRefused(n) \/ SendAgain(n) \/ ReadReceipt(n) \/ Broadcast(n) \/ Advance(n)

Run(n) ==
    \/ Start(n) \/ Enqueue(n) \/ Pending(n) \/ Pick(n) \/ Decide(n) \/ Send(n)
    \/ Finish(n) \/ Terminal(n) \/ Release(n)

Fault(n) == PlanRefused(n) \/ BroadcastLost(n) \/ JobFails(n) \/ RunFails(n) \/ Crash(n)

Next ==
    \/ Reprice
    \/ \E j \in Jobs : Pay(j) \/ RetryDue(j)
    \/ \E j \in Jobs, s \in Steps : Mine(j, s) \/ Revert(j, s)
    \/ \E n \in Nodes : Run(n) \/ Fault(n)

Spec == Init /\ [][Next]_vars

\* The worker's interval starts runs, their calls return, the network mines what
\* it knows and retries come due.
FairSpec ==
    /\ Spec
    /\ WF_vars(\E n \in Nodes : Run(n))
    /\ \A j \in Jobs : WF_vars(RetryDue(j))
    /\ \A j \in Jobs, s \in Steps : WF_vars(Mine(j, s))

-----------------------------------------------------------------------------
(* Properties.                                                             *)

\* What a row that was signed takes from the shared deposit address, or may.
Takes(j, s) == IF status[j][s] = "none" THEN 0
               ELSE value[j][s] + (IF j \in Tokens THEN 0 ELSE cost[j][s])

\* Each invoice can spend only its own receipts, even when later invoices share
\* its address; a token step's fee comes from gas the service sent for it.
OwnReceipts ==
    \A j \in Jobs :
       /\ Takes(j, "reserve") + Takes(j, "payout") <= Amount[j]
       /\ j \in Tokens => \A s \in FromDeposit : status[j][s] # "none" => cost[j][s] <= funded[j][s]

\* What a job's mined transactions took.
Taken(j) == LET Out(s) == CASE chain[j][s] = "ok" -> Takes(j, s)
                            [] chain[j][s] = "reverted" /\ j \notin Tokens -> cost[j][s]
                            [] OTHER -> 0
            IN Out("reserve") + Out("payout")

\* What is left of an invoice's money.
Left == [j \in Jobs |-> Amount[j] - Taken(j)]

\* The deposit address has every paid invoice's money that its own job did not
\* take yet, whatever gas came, whatever reverted and whoever crashed.
ReceiptsKept ==
    /\ deposit >= SumFunctionOnSet(Left, paid \ Tokens)
    /\ tokens >= SumFunctionOnSet(Left, paid \cap Tokens)

\* At most one transaction of the network is unconfirmed, so that the nonce a
\* provider counts for the next one is right.
OneUnconfirmed == \A t, u \in Unconfirmed : t = u

\* A job is done only when its remainder arrived, or nothing of a native one is
\* left to send after some fee.
DoneIsPaid ==
    \A j \in Jobs : state[j] = "done" =>
       \/ remainder[j] = 0
       \/ chain[j]["payout"] = "ok" /\ (j \in Tokens => value[j]["payout"] = remainder[j])
       \/ j \notin Tokens /\ \E f \in Fees : Amount[j] - Spent(j) <= f

Closed == {"done", "action_required"}

\* The service has not the gas for the next transaction of a token job.
LacksGas(j) ==
    /\ j \in Tokens
    /\ \/ state[j] = "swap" /\ service < fee
       \/ \E s \in FromDeposit : state[j] = s /\ service < 2 * fee - funded[j][s]

\* The job ended with the operator before what it was to refill the service with came.
KeptBack(i) ==
    /\ state[i] = "action_required"
    /\ status[i][IF i \in Tokens THEN "swap" ELSE "reserve"] # "confirmed"

\* The fee leaves nothing of a native job's reserve.
BelowFee(j) == j \notin Tokens /\ state[j] = "reserve" /\ NativeValue(j, "reserve") <= 0

\* Once every invoice is paid every job ends for good, done or with the operator.  Only
\* a job waits on that lacks the gas of another that ended with the operator, or that
\* the fee is too high for: one a full service address does not cover, or that leaves
\* nothing of a reserve.  (run, processTransferStep)
EveryJobCloses ==
    <>[](paid = Jobs => \A j \in Jobs :
           \/ state[j] \in Closed
           \/ LacksGas(j) /\ (fee > Low \/ \E i \in Jobs \ {j} : KeptBack(i))
           \/ BelowFee(j))

\* A job that does not end keeps the error that holds it up.
StuckKeepsError ==
    \A j \in Jobs : []<>(state[j] \notin Open \/ error[j])
-----------------------------------------------------------------------------
(* The inductive invariant of the safety properties.                       *)

\* Only the run that has the lock does anything.
LockInv == \A n \in Nodes : pc[n] # "idle" => holder = n

\* What the journal says of a transaction and what the chain did with it.
JournalInv ==
    \A j \in Jobs, s \in Steps :
       /\ status[j][s] = "none" => chain[j][s] = "unseen"
       /\ status[j][s] = "confirmed" => chain[j][s] = "ok"
       /\ status[j][s] = "failed" => chain[j][s] = "reverted"

\* The state of the job a step belongs to.
StateOf(s) == CASE s \in {"gas:reserve", "reserve"} -> "reserve"
                [] s \in {"gas:payout", "payout"} -> "payout"
                [] OTHER -> "swap"

\* What a run has in its hands.
HandInv(n) ==
    /\ pc[n] \in {"job", "send", "receipt", "broadcast", "terminal", "advance", "finish"} =>
         at[n] \in Jobs
    /\ pc[n] \in {"send", "receipt", "broadcast", "advance"} =>
         step[n] \in Steps /\ (~recover[n] => state[at[n]] = StateOf(step[n]))
    /\ pc[n] \in {"pick", "job", "send"} => Unconfirmed = {}
    /\ pc[n] \in {"receipt", "broadcast"} => <<at[n], step[n]>> \in Unconfirmed
    /\ pc[n] = "advance" => status[at[n]][step[n]] = "confirmed"
    /\ recover[n] => pc[n] \in {"receipt", "broadcast", "terminal", "release"}

\* A step comes after what it depends on, and moves no more than the plan says.
PlanInv(j) ==
    /\ reserve[j] + remainder[j] <= Amount[j]
    /\ state[j] \in {"absent", "new"} => status[j]["reserve"] = "none"
    /\ state[j] \in {"absent", "new", "reserve", "swap"} => status[j]["payout"] = "none"
    /\ state[j] \in {"swap", "payout", "done"} => status[j]["reserve"] \in {"none", "confirmed"}
    /\ status[j]["reserve"] # "none" => reserve[j] > 0
    /\ j \in Tokens => \A s \in FromDeposit :
         status[j][s] # "none" => value[j][s] = Due(j, s) /\ cost[j][s] <= funded[j][s]

\* What send was asked for stays within the invoice until it is journaled.
RequestInv(n) == LET j == at[n]  s == step[n] IN
    pc[n] = "send" /\ s \in FromDeposit /\ status[j][s] = "none" =>
       /\ Due(j, s) > 0
       /\ IF j \in Tokens
          THEN request[n] = Due(j, s) /\ cap[n] = funded[j][s]
          ELSE cap[n] # NoCap /\ request[n] + cap[n] <= Amount[j] - Spent(j)

\* The sender of a signed transaction has what it costs until it is mined.
Covered ==
    \A t \in Unconfirmed : LET j == t[1]  s == t[2] IN
       chain[j][s] \in {"unseen", "known"} =>
          Balance(s) >= cost[j][s] + (IF s \in Gas \/ (s \in FromDeposit /\ j \notin Tokens)
                                      THEN value[j][s] ELSE 0)

IInv ==
    /\ TypeOK /\ LockInv /\ JournalInv /\ OneUnconfirmed /\ Covered
    /\ \A n \in Nodes : HandInv(n) /\ RequestInv(n)
    /\ \A j \in Jobs : PlanInv(j)
    /\ OwnReceipts /\ DoneIsPaid

\* The accounts of the deposit address, to the last unit.  Of an invoice's money
\* what its mined transfers moved is gone; of each step's gas, counted as soon as
\* it is mined, what the step burnt, and a native step burns the invoice's own.
GasOf(s) == IF s = "reserve" THEN "gas:reserve" ELSE "gas:payout"

GasCame(j, s) == funded[j][s] +
    (IF chain[j][GasOf(s)] = "ok" /\ status[j][GasOf(s)] # "confirmed"
     THEN value[j][GasOf(s)] ELSE 0)
Burnt(j, s) == IF chain[j][s] \in {"ok", "reverted"} THEN cost[j][s] ELSE 0
Moved(j, s) == IF chain[j][s] = "ok" THEN value[j][s] ELSE 0

GasLeft(j) == GasCame(j, "reserve") + GasCame(j, "payout")
                - Burnt(j, "reserve") - Burnt(j, "payout")
NotMoved(j) == Amount[j] - Moved(j, "reserve") - Moved(j, "payout")

InDeposit == [j \in Jobs |-> GasLeft(j) + (IF j \in Tokens THEN 0 ELSE NotMoved(j))]
InTokens  == [j \in Jobs |-> IF j \in Tokens THEN NotMoved(j) ELSE 0]

Balanced ==
    /\ deposit = SumFunctionOnSet(InDeposit, paid)
    /\ tokens = SumFunctionOnSet(InTokens, paid)

\* Nothing is sent, and no gas comes, for an invoice that is not paid; no run has
\* its job in hand.
Unpaid ==
    /\ \A j \in Jobs \ paid :
         /\ state[j] = "absent" /\ \A s \in Steps : status[j][s] = "none"
         /\ \A s \in FromDeposit : funded[j][s] = 0
    /\ \A n \in Nodes : at[n] \in paid \cup {None}

Accounts == IsFiniteSet(paid) /\ Balanced /\ Unpaid
=============================================================================
