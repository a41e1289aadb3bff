--------------------------- MODULE CryptoAccounts ---------------------------
(***************************************************************************)
(* A reusable managed deposit account (modules/payments/cryptoAccounts.ts):*)
(* the cumulative verified deposits of one address and asset, what paid    *)
(* invoices consumed of them, and the scans that move deposits into        *)
(* settled invoices.                                                       *)
(*                                                                         *)
(* Several processes scan the account: the payment worker, a reader's      *)
(* reconcile, an owner's rescan.  A scan claims the account by a lease,    *)
(* reads the account and the journal, observes the chain without a lock,   *)
(* and commits under the resource and receipt locks, where it must find    *)
(* that its lease, the active invoice and the journal did not change.      *)
(* Amounts are atomic units; the chain is an external environment.         *)
(***************************************************************************)
EXTENDS Integers, FiniteSets

CONSTANTS Scanners, None,
          Prices,                        \* quoted amounts, atomic units
          Legacy,                        \* consumption imported at bootstrap
          MaxInvoices, MaxDeposits, MaxJournal, MaxFailures   \* bounds

ASSUME AccountAssumption ==
    /\ None \notin Scanners
    /\ Prices \subseteq Nat \ {0}
    /\ Legacy \in Nat
    /\ MaxInvoices \in Nat /\ MaxDeposits \in Nat /\ MaxJournal \in Nat /\ MaxFailures \in Nat

NoInvoice == 0
Invoices  == 1..MaxInvoices
Open      == {"pending", "underpaid", "confirming", "expired", "late_payment"}
Live      == {"pending", "underpaid", "confirming"}

VARIABLES
    deposited, finalized, mined,       \* chain: customers' deposits, internal transfers
    journal,                           \* internal transfers committed to the journal
    received, consumed, active, lease, leaseOld, failed,   \* crypto_accounts row
    lastInvoice, status, due, credit, overdue, cutoff,     \* crypto_invoices, crypto_credits
    pc, seen,                          \* scans in flight
    approved, failures                 \* history, bound

chainVars   == <<deposited, finalized, mined, journal>>
accountVars == <<received, consumed, active, lease, leaseOld, failed>>
invoiceVars == <<lastInvoice, status, due, credit, overdue, cutoff>>
scanVars    == <<pc, seen>>
vars == <<chainVars, accountVars, invoiceVars, scanVars, approved, failures>>

Nothing == [active |-> NoInvoice, late |-> {}, journal |-> 0, checkpoint |-> 0,
            total |-> 0, onTime |-> 0, pending |-> FALSE]

\* What a scan read and observed.
Reading == [active : Invoices \cup {NoInvoice}, late : SUBSET Invoices, journal : Nat,
            checkpoint : Nat, total : Nat, onTime : Nat, pending : BOOLEAN]

TypeOK ==
    /\ deposited \in Nat /\ finalized \in Nat /\ finalized <= deposited
    /\ journal \in Nat /\ mined \in 0..journal
    /\ received \in Nat /\ consumed \in Nat
    /\ active \in Invoices \cup {NoInvoice}
    /\ lease \in Scanners \cup {None}
    /\ leaseOld \in BOOLEAN /\ failed \in BOOLEAN
    /\ lastInvoice \in 0..MaxInvoices
    /\ status \in [Invoices -> Open \cup {"absent", "paid"}]
    /\ due \in [Invoices -> Prices \cup {0}]
    /\ credit \in [Invoices -> Nat]
    /\ overdue \in [Invoices -> BOOLEAN]
    /\ cutoff \in [Invoices -> Nat]
    /\ pc \in [Scanners -> {"idle", "read", "observe", "commit"}]
    /\ seen \in [Scanners -> Reading]
    /\ approved \in [Invoices -> BOOLEAN]
    /\ failures \in Nat

\* The account as ensure() creates it from its paid history; nothing observed.
Init ==
    /\ deposited = Legacy /\ finalized = Legacy /\ mined = 0 /\ journal = 0
    /\ received = 0 /\ consumed = Legacy /\ active = NoInvoice
    /\ lease = None /\ leaseOld = FALSE /\ failed = FALSE
    /\ lastInvoice = 0
    /\ status = [i \in Invoices |-> "absent"]
    /\ due = [i \in Invoices |-> 0]
    /\ credit = [i \in Invoices |-> 0]
    /\ overdue = [i \in Invoices |-> FALSE]
    /\ cutoff = [i \in Invoices |-> 0]
    /\ pc = [s \in Scanners |-> "idle"]
    /\ seen = [s \in Scanners |-> Nothing]
    /\ approved = [i \in Invoices |-> FALSE]
    /\ failures = 0

-----------------------------------------------------------------------------
(* The environment: the chain, the treasury's journal and the clock. *)

Deposit ==
    /\ deposited < MaxDeposits + Legacy
    /\ deposited' = deposited + 1
    /\ UNCHANGED <<finalized, mined, journal, accountVars, invoiceVars, scanVars, approved, failures>>

Finalize ==
    /\ finalized < deposited
    /\ finalized' = finalized + 1
    /\ UNCHANGED <<deposited, mined, journal, accountVars, invoiceVars, scanVars, approved, failures>>

\* The treasury funds the address with gas: the transaction is journaled before
\* it is broadcast ...
JournalTransfer ==
    /\ journal < MaxJournal
    /\ journal' = journal + 1
    /\ UNCHANGED <<deposited, finalized, mined, accountVars, invoiceVars, scanVars, approved, failures>>

\* ... and mined after that; a balance read cannot tell it from a deposit.
MineTransfer ==
    /\ mined < journal
    /\ mined' = mined + 1
    /\ UNCHANGED <<deposited, finalized, journal, accountVars, invoiceVars, scanVars, approved, failures>>

\* The clock passes the quote's expiresAt: later blocks are not on time.
Expire(i) ==
    /\ i <= lastInvoice /\ ~overdue[i]
    /\ overdue' = [overdue EXCEPT ![i] = TRUE]
    /\ cutoff' = [cutoff EXCEPT ![i] = deposited]
    /\ UNCHANGED <<chainVars, accountVars, lastInvoice, status, due, credit, scanVars,
                   approved, failures>>

\* The clock passes scanLeaseUntil.  A scan that outlives its lease counts as a
\* failure; the lease of a dead one runs out in any case.
LeaseExpires ==
    /\ lease # None /\ ~leaseOld
    /\ leaseOld' = TRUE
    /\ \/ pc[lease] = "idle" /\ UNCHANGED failures
       \/ pc[lease] # "idle" /\ failures < MaxFailures /\ failures' = failures + 1
    /\ UNCHANGED <<chainVars, received, consumed, active, lease, failed, invoiceVars,
                   scanVars, approved>>

-----------------------------------------------------------------------------
(* Invoices. *)

\* A reader may ask for a fresh quote once no live one is left.
NoLiveQuote == \A i \in Invoices : status[i] \in Live => overdue[i]

\* invoice(): under the allocation and receipt locks overdue quotes are expired
\* and the new one is registered as the account's active invoice.
NewInvoice ==
    /\ lastInvoice < MaxInvoices
    /\ NoLiveQuote
    /\ lastInvoice' = lastInvoice + 1
    /\ status' = [i \in Invoices |-> IF i = lastInvoice' THEN "pending"
                                     ELSE IF status[i] \in Live THEN "expired" ELSE status[i]]
    /\ \E p \in Prices : due' = [due EXCEPT ![lastInvoice'] = p]
    /\ active' = lastInvoice'
    /\ UNCHANGED <<chainVars, received, consumed, lease, leaseOld, failed, credit, overdue,
                   cutoff, scanVars, approved, failures>>

Lesser(a, b) == IF a < b THEN a ELSE b

\* settle(): grant, credit row, paid invoice and consumption in one transaction,
\* given what the account has received by now.
Settle(i, amount) ==
    /\ active = i
    /\ status' = [status EXCEPT ![i] = "paid"]
    /\ credit' = [credit EXCEPT ![i] = amount]
    /\ consumed' = consumed + amount
    /\ active' = NoInvoice

\* Mutant: everything the account ever received is approved.
ReviewGross(i) ==
    /\ status[i] \in {"late_payment", "expired"}
    /\ ~failed
    /\ received >= due[i]
    /\ Settle(i, received)
    /\ approved' = [approved EXCEPT ![i] = TRUE]
    /\ UNCHANGED <<chainVars, received, lease, leaseOld, failed, lastInvoice, due, overdue,
                   cutoff, scanVars, failures>>

\* review(): the owner approves a late payment with everything available.
Review(i) ==
    /\ status[i] \in {"late_payment", "expired"}
    /\ ~failed
    /\ received - consumed >= due[i]
    /\ Settle(i, received - consumed)
    /\ approved' = [approved EXCEPT ![i] = TRUE]
    /\ UNCHANGED <<chainVars, received, lease, leaseOld, failed, lastInvoice, due, overdue,
                   cutoff, scanVars, failures>>

-----------------------------------------------------------------------------
(* A scan. *)

Goto(s, step) == pc' = [pc EXCEPT ![s] = step]

\* The call ends and what it read is forgotten.
Return(s) == Goto(s, "idle") /\ seen' = [seen EXCEPT ![s] = Nothing]

Claimable == lease = None \/ leaseOld

\* The compare-and-set that takes the lease; its time decides what is overdue.
Claim(s) ==
    /\ pc[s] = "idle"
    /\ Claimable
    /\ lease' = s /\ leaseOld' = FALSE
    /\ seen' = [seen EXCEPT ![s] = [Nothing EXCEPT !.late = {i \in Invoices : overdue[i]}]]
    /\ Goto(s, "read")
    /\ UNCHANGED <<chainVars, received, consumed, active, failed, invoiceVars,
                   approved, failures>>

\* Account, active invoice and journal are read.
ReadAccount(s) ==
    /\ pc[s] = "read"
    /\ seen' = [seen EXCEPT ![s] = [@ EXCEPT
            !.active = active, !.journal = journal, !.checkpoint = received]]
    /\ Goto(s, "observe")
    /\ UNCHANGED <<chainVars, accountVars, invoiceVars, approved, failures>>

OnTimeWhole(i, total) == total

\* The part of a total that arrived before the observed quote expired.
OnTimePart(i, total) ==
    IF i # NoInvoice /\ overdue[i] THEN Lesser(total, cutoff[i]) ELSE total

\* scanBalances at the block the provider calls finalized: its balance, corrected
\* by the journal rows that were read.
ScanAt(s, block) ==
    /\ pc[s] = "observe"
    /\ mined >= seen[s].journal
    /\ block >= seen[s].checkpoint
    /\ LET total == block + (mined - seen[s].journal)
       IN seen' = [seen EXCEPT ![s] = [@ EXCEPT
            !.total = total, !.onTime = OnTimePart(seen[s].active, total),
            !.pending = deposited > block]]
    /\ Goto(s, "commit")
    /\ UNCHANGED <<chainVars, accountVars, invoiceVars, approved>>

Observe(s) == ScanAt(s, finalized) /\ UNCHANGED failures

\* A provider behind the others.
ObserveLagging(s) ==
    /\ failures < MaxFailures
    /\ failures' = failures + 1
    /\ \E block \in 0..finalized : ScanAt(s, block)

Release == lease' = None /\ leaseOld' = FALSE

\* The scan lost its lease to another one: it writes nothing.
CommitLost(s) ==
    /\ pc[s] = "commit"
    /\ lease # s
    /\ Return(s)
    /\ UNCHANGED <<chainVars, accountVars, invoiceVars, approved, failures>>

UnchangedInvoice(s) == active = seen[s].active
UnchangedJournal(s) == journal = seen[s].journal

\* What the transaction must find as the scan read it.
Unchanged(s) == active = seen[s].active /\ journal = seen[s].journal

CommitStale(s) ==
    /\ pc[s] = "commit"
    /\ lease = s
    /\ ~Unchanged(s)
    /\ Release
    /\ Return(s)
    /\ UNCHANGED <<chainVars, received, consumed, active, failed, invoiceVars, approved,
                   failures>>

\* Mutant: a total that did not grow is refused.
RegressedUnlessGrown(total) == total <= received \/ total < consumed

\* The chain must not show less than was accounted for.
Regressed(total) == total < received \/ total < consumed

Commits(s) ==
    /\ pc[s] = "commit"
    /\ lease = s
    /\ Unchanged(s)
    /\ ~Regressed(seen[s].total)
    /\ received' = seen[s].total
    /\ failed' = FALSE
    /\ Release
    /\ Return(s)

Timely(s) == IF seen[s].onTime > consumed THEN seen[s].onTime - consumed ELSE 0

\* Of what is available a quote takes what came in time.
Applied(s) == Lesser(seen[s].total - consumed, Timely(s))

Settleable(i) == i # NoInvoice /\ status[i] \in Open

\* Nothing to settle: no active invoice, or one that closed meanwhile.
CommitBalance(s) ==
    /\ Commits(s)
    /\ ~Settleable(seen[s].active)
    /\ UNCHANGED <<chainVars, consumed, active, invoiceVars, approved, failures>>

CommitSettled(s) ==
    /\ Commits(s)
    /\ Settleable(seen[s].active)
    /\ Timely(s) >= due[seen[s].active]
    /\ Settle(seen[s].active, Applied(s))
    /\ UNCHANGED <<chainVars, lastInvoice, due, overdue, cutoff, approved, failures>>

\* The status a scan shows for a quote it cannot settle.
StatusFor(s, i) ==
    LET available == seen[s].total - consumed IN
    IF i \in seen[s].late THEN IF available >= due[i] THEN "late_payment" ELSE "expired"
    ELSE IF seen[s].pending THEN "confirming"
    ELSE IF available > 0 THEN "underpaid" ELSE "pending"

CommitStatus(s) ==
    LET i == seen[s].active IN
    /\ Commits(s)
    /\ Settleable(i)
    /\ Timely(s) < due[i]
    /\ status' = [status EXCEPT ![i] = StatusFor(s, i)]
    /\ UNCHANGED <<chainVars, consumed, active, lastInvoice, due, credit, overdue, cutoff,
                   approved, failures>>

\* The catch block: the error is kept and the lease given up if still held.
Fail(s) ==
    /\ IF lease = s THEN Release /\ failed' = TRUE
                    ELSE UNCHANGED <<lease, leaseOld, failed>>
    /\ Return(s)
    /\ UNCHANGED <<chainVars, received, consumed, active, invoiceVars, approved>>

\* The evidence itself is refused: a journaled transfer is still pending, an
\* outgoing one is not in the journal that was read, or the total regressed.
Refused(s) ==
    /\ \/ pc[s] = "observe" /\ mined # seen[s].journal
       \/ pc[s] = "commit" /\ lease = s /\ Unchanged(s) /\ Regressed(seen[s].total)
    /\ Fail(s)
    /\ UNCHANGED failures

\* A provider or the database fails.
ProviderFails(s) ==
    /\ pc[s] # "idle" /\ failures < MaxFailures
    /\ failures' = failures + 1
    /\ Fail(s)

\* The process dies: the lease stays until it expires.
Crash(s) ==
    /\ pc[s] # "idle" /\ failures < MaxFailures
    /\ failures' = failures + 1
    /\ Return(s)
    /\ UNCHANGED <<chainVars, accountVars, invoiceVars, approved>>

-----------------------------------------------------------------------------
Scan(s) ==
    \/ Claim(s) \/ ReadAccount(s) \/ Observe(s) \/ CommitLost(s) \/ CommitStale(s)
    \/ CommitBalance(s) \/ CommitSettled(s) \/ CommitStatus(s) \/ Refused(s)

Next ==
    \/ Deposit \/ Finalize \/ JournalTransfer \/ MineTransfer \/ LeaseExpires \/ NewInvoice
    \/ \E i \in Invoices : Expire(i) \/ Review(i)
    \/ \E s \in Scanners : Scan(s) \/ ObserveLagging(s) \/ ProviderFails(s) \/ Crash(s)

Spec == Init /\ [][Next]_vars

\* The worker keeps scanning due accounts, leases run out, deposits finalize
\* and the treasury rebroadcasts what it journaled.
FairSpec ==
    /\ Spec
    /\ \A s \in Scanners : WF_vars(Scan(s))
    /\ WF_vars(LeaseExpires) /\ WF_vars(Finalize) /\ WF_vars(MineTransfer)
-----------------------------------------------------------------------------
(* Properties. *)

Ledger == INSTANCE DepositLedger WITH
    Quotes <- Invoices, Initial <- Legacy,
    funds <- finalized, spent <- consumed, paid <- credit

\* Concurrent scans, reviews and crashes pay an invoice at most once and never
\* with the treasury's own transfers or with deposits another invoice took.
KeepsLedger == Ledger!Spec

\* Once the account was observed its available credit is not negative, also when
\* a provider falls behind or a scan commits late.
CreditCovered == received # 0 => consumed <= received

\* A quote that waits for money is the one the scans look at: no invoice that a
\* reader may still pay is left behind by a renewal, a review or a stale scan.
LiveQuoteIsActive ==
    /\ \A i \in Invoices : status[i] \in Live => active = i
    /\ active # NoInvoice => status[active] \in Open

\* Without the owner's approval an expired quote is paid in full and only from
\* what arrived before it expired, whenever the scan and the expiry happen.
PaidOnTimeInFull ==
    [][\A i \in Invoices :
        status[i] # "paid" /\ status'[i] = "paid"
        => /\ credit'[i] >= due[i]
           /\ overdue[i] /\ ~approved'[i] => consumed' <= cutoff[i]]_vars

\* The finalized money a scan of the active quote may use.
TimelyFunds(i) == OnTimePart(i, finalized)

\* Enough money in time settles the active quote, unless the reader replaces it.
FundsSettle ==
    \A i \in Invoices :
        (active = i /\ TimelyFunds(i) - consumed >= due[i]) ~> active # i

-----------------------------------------------------------------------------
(* The inductive invariant behind the proofs. *)

FundsInv ==
    /\ Legacy <= consumed /\ received <= finalized /\ consumed <= finalized
    /\ CreditCovered

QuotesInv ==
    /\ \A i \in Invoices : i > lastInvoice <=> status[i] = "absent"
    /\ \A i \in Invoices : i <= lastInvoice => due[i] \in Prices
    /\ \A i \in Invoices : credit[i] = 0 <=> status[i] # "paid"
    /\ \A i \in Invoices : overdue[i] => cutoff[i] <= deposited
    /\ LiveQuoteIsActive

\* What a scan read is never ahead, and what it observed is customers' money
\* as long as the journal it read is still the journal.
ScanInv(s) ==
    /\ seen[s].journal <= journal
    /\ pc[s] = "commit" /\ seen[s].journal = journal =>
        LET i == seen[s].active IN
        /\ seen[s].onTime <= seen[s].total /\ seen[s].total <= finalized
        /\ i # NoInvoice /\ overdue[i] => seen[s].onTime <= cutoff[i]

IInv == TypeOK /\ FundsInv /\ QuotesInv /\ \A s \in Scanners : ScanInv(s)
=============================================================================
