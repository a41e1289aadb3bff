------------------------ MODULE CryptoAccountsProofs ------------------------
(***************************************************************************)
(* The accounting of a deposit account, for any number of scans, invoices, *)
(* deposits, treasury transfers and failures: the inductive invariant, the *)
(* refinement of DepositLedger and the on-time rule.                       *)
(***************************************************************************)
EXTENDS CryptoAccounts, TLAPS

USE DEF NoInvoice, Invoices, Open, Live, chainVars, accountVars, invoiceVars, scanVars

LEMMA PricePositive ==
  ASSUME NEW p \in Prices PROVE p \in Nat /\ p > 0
  BY AccountAssumption DEF AccountAssumption

LEMMA ReadingTyped ==
  ASSUME NEW r \in Reading
  PROVE  /\ r.active \in Invoices \cup {NoInvoice}
         /\ r.journal \in Nat /\ r.total \in Nat /\ r.onTime \in Nat
  BY DEF Reading

LEMMA NothingTyped == Nothing \in Reading
  BY DEF Nothing, Reading

LEMMA InitIInv == Init => IInv
<1> SUFFICES ASSUME Init PROVE IInv
  OBVIOUS
<1>1. Legacy \in Nat /\ MaxInvoices \in Nat
  BY AccountAssumption DEF AccountAssumption
<1>2. TypeOK
  <2>1. /\ deposited \in Nat /\ finalized \in Nat /\ finalized <= deposited
        /\ journal \in Nat /\ mined \in 0..journal /\ received \in Nat /\ consumed \in Nat
        /\ lastInvoice \in 0..MaxInvoices /\ failures \in Nat
    BY <1>1 DEF Init
  <2>2. /\ active \in Invoices \cup {NoInvoice} /\ lease \in Scanners \cup {None}
        /\ leaseOld \in BOOLEAN /\ failed \in BOOLEAN
    BY DEF Init
  <2>3. /\ status \in [Invoices -> Open \cup {"absent", "paid"}]
        /\ due \in [Invoices -> Prices \cup {0}] /\ credit \in [Invoices -> Nat]
        /\ overdue \in [Invoices -> BOOLEAN] /\ cutoff \in [Invoices -> Nat]
        /\ approved \in [Invoices -> BOOLEAN]
    BY DEF Init
  <2>4. /\ pc \in [Scanners -> {"idle", "read", "observe", "commit"}]
        /\ seen \in [Scanners -> Reading]
    BY NothingTyped DEF Init
  <2> QED BY <2>1, <2>2, <2>3, <2>4 DEF TypeOK
<1>3. FundsInv
  BY <1>1 DEF Init, FundsInv, CreditCovered
<1>4. QuotesInv
  BY DEF Init, QuotesInv, LiveQuoteIsActive
<1>5. \A s \in Scanners : ScanInv(s)
  BY DEF Init, ScanInv, Nothing
<1> QED BY <1>2, <1>3, <1>4, <1>5 DEF IInv

\* The parts of the invariant that a step leaves alone.
LEMMA FundsKept ==
  ASSUME FundsInv, UNCHANGED <<finalized, received, consumed>> PROVE FundsInv'
  BY DEF FundsInv, CreditCovered

LEMMA QuotesKept ==
  ASSUME QuotesInv, UNCHANGED <<deposited, invoiceVars, active>> PROVE QuotesInv'
  BY DEF QuotesInv, LiveQuoteIsActive

\* An open quote has a price.
LEMMA OpenQuote ==
  ASSUME IInv, NEW i \in Invoices, status[i] \in Open
  PROVE  i <= lastInvoice /\ due[i] \in Nat /\ due[i] > 0 /\ credit[i] = 0
<1>1. lastInvoice \in Nat
  BY DEF IInv, TypeOK
<1>2. status[i] # "absent" /\ status[i] # "paid"
  OBVIOUS
<1>3. ~ (i > lastInvoice) /\ credit[i] = 0 /\ (i <= lastInvoice => due[i] \in Prices)
  BY <1>2 DEF IInv, QuotesInv
<1> QED BY <1>1, <1>3, PricePositive

\* A step of one scan that reads r.
LEMMA ScanReads ==
  ASSUME IInv, NEW s \in Scanners, NEW step \in {"idle", "read", "observe", "commit"}, Goto(s, step),
         NEW r \in Reading, seen' = [seen EXCEPT ![s] = r],
         UNCHANGED <<journal, finalized, overdue, cutoff>>,
         r.journal <= journal,
         step = "commit" /\ r.journal = journal =>
            /\ r.onTime <= r.total /\ r.total <= finalized
            /\ r.active # NoInvoice /\ overdue[r.active] => r.onTime <= cutoff[r.active]
  PROVE  /\ pc' \in [Scanners -> {"idle", "read", "observe", "commit"}]
         /\ seen' \in [Scanners -> Reading]
         /\ \A t \in Scanners : ScanInv(t)'
<1>1. pc' \in [Scanners -> {"idle", "read", "observe", "commit"}] /\ seen' \in [Scanners -> Reading]
  BY DEF IInv, TypeOK, Goto
<1>2. pc'[s] = step /\ seen'[s] = r
  BY DEF IInv, TypeOK, Goto
<1>3. ScanInv(s)'
  BY <1>2 DEF ScanInv
<1>4. ASSUME NEW t \in Scanners, t # s PROVE ScanInv(t)'
  <2>1. pc'[t] = pc[t] /\ seen'[t] = seen[t]
    BY <1>4 DEF IInv, TypeOK, Goto
  <2> QED BY <2>1 DEF IInv, ScanInv
<1> QED BY <1>1, <1>3, <1>4

\* A scan that returns.
LEMMA ScanReturns ==
  ASSUME IInv, NEW s \in Scanners, Return(s), UNCHANGED <<journal, finalized, overdue, cutoff>>
  PROVE  /\ pc' \in [Scanners -> {"idle", "read", "observe", "commit"}]
         /\ seen' \in [Scanners -> Reading]
         /\ \A t \in Scanners : ScanInv(t)'
<1>1. Nothing.journal <= journal
  BY DEF Nothing, IInv, TypeOK
<1> QED BY <1>1, NothingTyped, ScanReads DEF Return

\* A step of the world: money finalizes, the journal grows, quotes expire.
LEMMA ScansKept ==
  ASSUME IInv, UNCHANGED <<pc, seen>>,
         journal' \in Nat, journal <= journal', finalized' \in Nat, finalized <= finalized',
         \A i \in Invoices : overdue'[i] =>
            \/ overdue[i] /\ cutoff'[i] = cutoff[i]
            \/ cutoff'[i] \in Nat /\ finalized <= cutoff'[i]
  PROVE  \A s \in Scanners : ScanInv(s)'
<1> SUFFICES ASSUME NEW s \in Scanners PROVE ScanInv(s)'
  OBVIOUS
<1> DEFINE r == seen[s]
<1>1. /\ r \in Reading /\ journal \in Nat /\ finalized \in Nat
      /\ \A i \in Invoices : cutoff[i] \in Nat
  BY DEF IInv, TypeOK
<1>2. r.active \in Invoices \cup {NoInvoice} /\ r.journal \in Nat /\ r.total \in Nat /\ r.onTime \in Nat
  BY <1>1, ReadingTyped
<1>3. /\ r.journal <= journal
      /\ pc[s] = "commit" /\ r.journal = journal =>
            /\ r.onTime <= r.total /\ r.total <= finalized
            /\ r.active # NoInvoice /\ overdue[r.active] => r.onTime <= cutoff[r.active]
  BY DEF IInv, ScanInv
<1>4. pc'[s] = pc[s] /\ seen'[s] = r
  OBVIOUS
<1> HIDE DEF r
<1>5. r.journal <= journal'
  BY <1>1, <1>2, <1>3
<1>6. ASSUME pc[s] = "commit", r.journal = journal'
      PROVE  /\ r.onTime <= r.total /\ r.total <= finalized'
             /\ r.active # NoInvoice /\ overdue'[r.active] => r.onTime <= cutoff'[r.active]
  <2>1. r.journal = journal
    BY <1>1, <1>2, <1>3, <1>6
  <2>2. r.onTime <= r.total /\ r.total <= finalized /\ r.total <= finalized' /\ r.onTime <= finalized
    BY <1>1, <1>2, <1>3, <1>6, <2>1
  <2>3. ASSUME r.active # NoInvoice, overdue'[r.active] PROVE r.onTime <= cutoff'[r.active]
    <3>1. r.active \in Invoices
      BY <1>2, <2>3
    <3>2. CASE overdue[r.active] /\ cutoff'[r.active] = cutoff[r.active]
      BY <1>3, <1>6, <2>1, <2>3, <3>2
    <3>3. CASE cutoff'[r.active] \in Nat /\ finalized <= cutoff'[r.active]
      BY <1>1, <1>2, <2>2, <3>3
    <3> QED BY <2>3, <3>1, <3>2, <3>3
  <2> QED BY <2>2, <2>3
<1> QED BY <1>4, <1>5, <1>6 DEF ScanInv

-----------------------------------------------------------------------------
(* The environment. *)

LEMMA DepositStep ==
  ASSUME IInv, Deposit PROVE IInv'
<1>1. TypeOK'    BY DEF IInv, TypeOK, Deposit
<1>2. FundsInv'  BY FundsKept DEF IInv, Deposit
<1>3. QuotesInv' BY DEF IInv, TypeOK, QuotesInv, LiveQuoteIsActive, Deposit
<1>4. \A s \in Scanners : ScanInv(s)'
  BY DEF IInv, ScanInv, Deposit
<1> QED BY <1>1, <1>2, <1>3, <1>4 DEF IInv

LEMMA FinalizeStep ==
  ASSUME IInv, Finalize PROVE IInv'
<1>1. finalized \in Nat /\ finalized' = finalized + 1 /\ journal \in Nat
  BY DEF IInv, TypeOK, Finalize
<1>2. TypeOK'    BY DEF IInv, TypeOK, Finalize
<1>3. FundsInv'  BY DEF IInv, TypeOK, FundsInv, CreditCovered, Finalize
<1>4. QuotesInv' BY QuotesKept DEF IInv, Finalize
<1>5. \A s \in Scanners : ScanInv(s)'
  BY <1>1, ScansKept DEF Finalize
<1> QED BY <1>2, <1>3, <1>4, <1>5 DEF IInv

LEMMA JournalTransferStep ==
  ASSUME IInv, JournalTransfer PROVE IInv'
<1>1. journal \in Nat /\ journal' = journal + 1 /\ finalized \in Nat
  BY DEF IInv, TypeOK, JournalTransfer
<1>2. TypeOK'    BY DEF IInv, TypeOK, JournalTransfer
<1>3. FundsInv'  BY FundsKept DEF IInv, JournalTransfer
<1>4. QuotesInv' BY QuotesKept DEF IInv, JournalTransfer
<1>5. \A s \in Scanners : ScanInv(s)'
  BY <1>1, ScansKept DEF JournalTransfer
<1> QED BY <1>2, <1>3, <1>4, <1>5 DEF IInv

LEMMA MineTransferStep ==
  ASSUME IInv, MineTransfer PROVE IInv'
<1>1. TypeOK'    BY DEF IInv, TypeOK, MineTransfer
<1>2. FundsInv'  BY FundsKept DEF IInv, MineTransfer
<1>3. QuotesInv' BY QuotesKept DEF IInv, MineTransfer
<1>4. \A s \in Scanners : ScanInv(s)'
  BY DEF IInv, ScanInv, MineTransfer
<1> QED BY <1>1, <1>2, <1>3, <1>4 DEF IInv

LEMMA ExpireStep ==
  ASSUME IInv, NEW i \in Invoices, Expire(i) PROVE IInv'
<1>1. TypeOK'    BY DEF IInv, TypeOK, Expire
<1>2. FundsInv'  BY FundsKept DEF IInv, Expire
<1>3. QuotesInv' BY DEF IInv, TypeOK, QuotesInv, LiveQuoteIsActive, Expire
<1>4. /\ journal \in Nat /\ finalized \in Nat /\ deposited \in Nat /\ finalized <= deposited
      /\ \A j \in Invoices : overdue'[j] =>
            \/ overdue[j] /\ cutoff'[j] = cutoff[j]
            \/ cutoff'[j] = deposited
  BY DEF IInv, TypeOK, Expire
<1>5. \A s \in Scanners : ScanInv(s)'
  BY <1>4, ScansKept DEF Expire
<1> QED BY <1>1, <1>2, <1>3, <1>5 DEF IInv

LEMMA LeaseExpiresStep ==
  ASSUME IInv, LeaseExpires PROVE IInv'
<1>1. TypeOK'    BY DEF IInv, TypeOK, LeaseExpires
<1>2. FundsInv'  BY FundsKept DEF IInv, LeaseExpires
<1>3. QuotesInv' BY QuotesKept DEF IInv, LeaseExpires
<1>4. \A s \in Scanners : ScanInv(s)'
  BY DEF IInv, ScanInv, LeaseExpires
<1> QED BY <1>1, <1>2, <1>3, <1>4 DEF IInv

LEMMA NewInvoiceStep ==
  ASSUME IInv, NewInvoice PROVE IInv'
<1> DEFINE new == lastInvoice + 1
<1>1. new \in Invoices /\ lastInvoice' = new /\ lastInvoice \in Nat
  BY AccountAssumption DEF AccountAssumption, IInv, TypeOK, NewInvoice
<1>2. PICK p \in Prices : due' = [due EXCEPT ![new] = p]
  BY <1>1 DEF NewInvoice
<1>3. /\ status' = [i \in Invoices |-> IF i = new THEN "pending"
                                       ELSE IF status[i] \in Live THEN "expired" ELSE status[i]]
      /\ active' = new
      /\ UNCHANGED <<chainVars, received, consumed, lease, leaseOld, failed, credit, overdue,
                     cutoff, scanVars, approved, failures>>
  BY <1>1 DEF NewInvoice
<1> HIDE DEF new
<1>4. TypeOK'
  BY <1>1, <1>2, <1>3 DEF IInv, TypeOK
<1>5. FundsInv'
  BY <1>3, FundsKept DEF IInv
<1>6. status[new] = "absent"
  <2>1. new > lastInvoice
    BY <1>1 DEF new
  <2> QED BY <1>1, <2>1 DEF IInv, QuotesInv
<1>7. QuotesInv'
  <2>1. \A i \in Invoices : i > new <=> i > lastInvoice /\ i # new
    BY <1>1 DEF new
  <2>2. \A i \in Invoices : i <= new <=> i <= lastInvoice \/ i = new
    BY <1>1 DEF new
  <2>3. due \in [Invoices -> Prices \cup {0}]
    BY DEF IInv, TypeOK
  <2>4. \A i \in Invoices : i > lastInvoice' <=> status'[i] = "absent"
    BY <1>1, <1>3, <2>1 DEF IInv, QuotesInv
  <2>5. \A i \in Invoices : i <= lastInvoice' => due'[i] \in Prices
    BY <1>1, <1>2, <2>2, <2>3 DEF IInv, QuotesInv
  <2>6. \A i \in Invoices : credit'[i] = 0 <=> status'[i] # "paid"
    BY <1>1, <1>3, <1>6 DEF IInv, QuotesInv
  <2>7. \A i \in Invoices : overdue'[i] => cutoff'[i] <= deposited'
    BY <1>3 DEF IInv, QuotesInv
  <2>8. LiveQuoteIsActive'
    BY <1>1, <1>3 DEF LiveQuoteIsActive
  <2> QED BY <2>4, <2>5, <2>6, <2>7, <2>8 DEF QuotesInv
<1>8. \A s \in Scanners : ScanInv(s)'
  BY <1>3 DEF IInv, ScanInv
<1> QED BY <1>4, <1>5, <1>7, <1>8 DEF IInv

LEMMA ReviewTakes ==
  ASSUME IInv, NEW i \in Invoices, Review(i)
  PROVE  /\ received - consumed \in Nat /\ received - consumed > 0
         /\ received - consumed >= due[i]
         /\ status[i] \in Open /\ Settle(i, received - consumed)
<1>1. status[i] \in Open
  BY DEF Review
<1>2. received \in Nat /\ consumed \in Nat /\ due[i] \in Nat /\ due[i] > 0
  BY <1>1, OpenQuote DEF IInv, TypeOK
<1>3. received - consumed >= due[i] /\ Settle(i, received - consumed)
  BY DEF Review
<1> QED BY <1>1, <1>2, <1>3

LEMMA ReviewStep ==
  ASSUME IInv, NEW i \in Invoices, Review(i) PROVE IInv'
<1> DEFINE amount == received - consumed
<1>1. /\ amount \in Nat /\ amount > 0 /\ status[i] \in Open /\ Settle(i, amount)
      /\ consumed + amount = received
  BY ReviewTakes DEF IInv, TypeOK
<1>2. /\ approved' = [approved EXCEPT ![i] = TRUE]
      /\ UNCHANGED <<chainVars, received, lease, leaseOld, failed, lastInvoice, due, overdue,
                     cutoff, scanVars, failures>>
  BY DEF Review
<1> HIDE DEF amount
<1>3. TypeOK'
  BY <1>1, <1>2 DEF IInv, TypeOK, Settle
<1>4. FundsInv'
  <2>1. consumed' = received /\ received' = received /\ finalized' = finalized
    BY <1>1, <1>2 DEF Settle
  <2>2. Legacy <= received
    BY <1>1, AccountAssumption DEF AccountAssumption, IInv, TypeOK, FundsInv
  <2> QED BY <2>1, <2>2 DEF IInv, TypeOK, FundsInv, CreditCovered
<1>5. QuotesInv'
  BY <1>1, <1>2 DEF IInv, TypeOK, QuotesInv, LiveQuoteIsActive, Settle
<1>6. \A s \in Scanners : ScanInv(s)'
  BY <1>2 DEF IInv, ScanInv
<1> QED BY <1>3, <1>4, <1>5, <1>6 DEF IInv

-----------------------------------------------------------------------------
(* A scan. *)

LEMMA ClaimStep ==
  ASSUME IInv, NEW s \in Scanners, Claim(s) PROVE IInv'
<1> DEFINE late == {i \in Invoices : overdue[i]}
           r == [Nothing EXCEPT !.late = late]
<1>1. r \in Reading /\ r.journal = 0
  BY DEF Nothing, Reading
<1>2. 0 <= journal
  BY DEF IInv, TypeOK
<1>3. Goto(s, "read") /\ seen' = [seen EXCEPT ![s] = r] /\ UNCHANGED <<journal, finalized, overdue, cutoff>>
  BY DEF Claim
<1> HIDE DEF r
<1>4. /\ pc' \in [Scanners -> {"idle", "read", "observe", "commit"}]
      /\ seen' \in [Scanners -> Reading]
      /\ \A t \in Scanners : ScanInv(t)'
  BY <1>1, <1>2, <1>3, ScanReads
<1>5. TypeOK'    BY <1>4 DEF IInv, TypeOK, Claim
<1>6. FundsInv'  BY FundsKept DEF IInv, Claim
<1>7. QuotesInv' BY QuotesKept DEF IInv, Claim
<1> QED BY <1>4, <1>5, <1>6, <1>7 DEF IInv

LEMMA ReadAccountStep ==
  ASSUME IInv, NEW s \in Scanners, ReadAccount(s) PROVE IInv'
<1> DEFINE r == [seen[s] EXCEPT !.active = active, !.journal = journal, !.checkpoint = received]
<1>1. /\ seen[s] \in Reading /\ active \in Invoices \cup {NoInvoice} /\ journal \in Nat
      /\ received \in Nat
  BY DEF IInv, TypeOK
<1>2. r \in Reading /\ r.journal = journal
  BY <1>1 DEF Reading
<1>3. seen' = [seen EXCEPT ![s] = r]
  BY DEF IInv, TypeOK, ReadAccount
<1>4. Goto(s, "observe") /\ UNCHANGED <<journal, finalized, overdue, cutoff>>
  BY DEF ReadAccount
<1>5. r.journal <= journal
  BY <1>1, <1>2
<1> HIDE DEF r
<1>6. /\ pc' \in [Scanners -> {"idle", "read", "observe", "commit"}]
      /\ seen' \in [Scanners -> Reading]
      /\ \A t \in Scanners : ScanInv(t)'
  BY <1>2, <1>3, <1>4, <1>5, ScanReads
<1>7. TypeOK'    BY <1>6 DEF IInv, TypeOK, ReadAccount
<1>8. FundsInv'  BY FundsKept DEF IInv, ReadAccount
<1>9. QuotesInv' BY QuotesKept DEF IInv, ReadAccount
<1> QED BY <1>6, <1>7, <1>8, <1>9 DEF IInv

\* As long as the journal a scan read is complete, all that it observed beyond
\* the finalized deposits it can name: what it observes is customers' money.
LEMMA ScanAtStep ==
  ASSUME IInv, NEW s \in Scanners, NEW block \in 0..finalized, ScanAt(s, block), failures' \in Nat
  PROVE  IInv'
<1> DEFINE total == block + (mined - seen[s].journal)
           i == seen[s].active
           r == [seen[s] EXCEPT !.total = total, !.onTime = OnTimePart(i, total),
                                !.pending = deposited > block]
<1>1. /\ seen[s] \in Reading /\ finalized \in Nat /\ journal \in Nat /\ mined \in 0..journal
      /\ seen[s].journal <= journal /\ mined >= seen[s].journal
  BY DEF IInv, TypeOK, ScanInv, ScanAt
<1>2. i \in Invoices \cup {NoInvoice} /\ seen[s].journal \in Nat
  BY <1>1, ReadingTyped
<1>3. total \in Nat /\ (seen[s].journal = journal => total <= finalized)
  <2> DEFINE j == seen[s].journal
  <2>1. j \in Nat /\ j <= mined /\ mined \in Nat /\ mined <= journal /\ block \in Nat /\ block <= finalized
    BY <1>1, <1>2
  <2> HIDE DEF j
  <2>2. block + (mined - j) \in Nat /\ (j = journal => block + (mined - j) <= finalized)
    BY <1>1, <2>1
  <2> QED BY <2>2 DEF j
<1>4. seen' = [seen EXCEPT ![s] = r]
  BY DEF IInv, TypeOK, ScanAt
<1>5. Goto(s, "commit") /\ UNCHANGED <<chainVars, accountVars, invoiceVars, approved>>
  BY DEF ScanAt
<1> HIDE DEF total
<1>6. /\ OnTimePart(i, total) \in Nat /\ OnTimePart(i, total) <= total
      /\ i # NoInvoice /\ overdue[i] => OnTimePart(i, total) <= cutoff[i]
  <2>1. i # NoInvoice => cutoff[i] \in Nat
    BY <1>2 DEF IInv, TypeOK
  <2> HIDE DEF i
  <2> QED BY <1>3, <2>1 DEF OnTimePart, Lesser
<1> DEFINE onTime == OnTimePart(i, total)
           pending == deposited > block
           q == [seen[s] EXCEPT !.total = total, !.onTime = onTime, !.pending = pending]
<1>7. q = r
  OBVIOUS
<1>8. onTime \in Nat /\ pending \in BOOLEAN
  BY <1>6
<1>9. q \in Reading /\ q.journal = seen[s].journal /\ q.total = total /\ q.onTime = onTime /\ q.active = i
  <2> HIDE DEF onTime, pending
  <2> QED BY <1>1, <1>3, <1>8 DEF Reading
<1>10. seen' = [seen EXCEPT ![s] = q] /\ q.journal <= journal
  BY <1>1, <1>4, <1>7, <1>9
<1> HIDE DEF q, r, i
<1>11. q.journal = journal =>
         /\ q.onTime <= q.total /\ q.total <= finalized
         /\ q.active # NoInvoice /\ overdue[q.active] => q.onTime <= cutoff[q.active]
  BY <1>3, <1>6, <1>9
<1>12. /\ pc' \in [Scanners -> {"idle", "read", "observe", "commit"}]
       /\ seen' \in [Scanners -> Reading]
       /\ \A t \in Scanners : ScanInv(t)'
  BY <1>5, <1>9, <1>10, <1>11, ScanReads
<1>13. TypeOK'    BY <1>5, <1>12 DEF IInv, TypeOK
<1>14. FundsInv'  BY <1>5, FundsKept DEF IInv
<1>15. QuotesInv' BY <1>5, QuotesKept DEF IInv
<1> QED BY <1>12, <1>13, <1>14, <1>15 DEF IInv

LEMMA ObserveStep ==
  ASSUME IInv, NEW s \in Scanners, Observe(s) \/ ObserveLagging(s) PROVE IInv'
<1>1. finalized \in 0..finalized /\ failures \in Nat /\ failures + 1 \in Nat
  BY DEF IInv, TypeOK
<1> QED BY <1>1, ScanAtStep DEF Observe, ObserveLagging

LEMMA CommitLostStep ==
  ASSUME IInv, NEW s \in Scanners, CommitLost(s) PROVE IInv'
<1> USE DEF IInv, CommitLost
<1>1. /\ pc' \in [Scanners -> {"idle", "read", "observe", "commit"}]
      /\ seen' \in [Scanners -> Reading]
      /\ \A t \in Scanners : ScanInv(t)'
  BY ScanReturns
<1>2. TypeOK'    BY <1>1 DEF TypeOK
<1>3. FundsInv'  BY FundsKept
<1>4. QuotesInv' BY QuotesKept
<1> QED BY <1>1, <1>2, <1>3, <1>4

LEMMA CommitStaleStep ==
  ASSUME IInv, NEW s \in Scanners, CommitStale(s) PROVE IInv'
<1> USE DEF IInv, CommitStale, Release
<1>1. /\ pc' \in [Scanners -> {"idle", "read", "observe", "commit"}]
      /\ seen' \in [Scanners -> Reading]
      /\ \A t \in Scanners : ScanInv(t)'
  BY ScanReturns
<1>2. TypeOK'    BY <1>1 DEF TypeOK
<1>3. FundsInv'  BY FundsKept
<1>4. QuotesInv' BY QuotesKept
<1> QED BY <1>1, <1>2, <1>3, <1>4

\* What a commit relies on.
LEMMA Committing ==
  ASSUME IInv, NEW s \in Scanners, Commits(s)
  PROVE  /\ seen[s].total \in Nat /\ seen[s].onTime \in Nat /\ seen[s].active = active
         /\ received <= seen[s].total /\ consumed <= seen[s].total
         /\ seen[s].onTime <= seen[s].total /\ seen[s].total <= finalized
         /\ active # NoInvoice /\ overdue[active] => seen[s].onTime <= cutoff[active]
         /\ received' = seen[s].total /\ lease' = None /\ leaseOld' = FALSE /\ failed' = FALSE
         /\ Return(s)
<1>1. seen[s] \in Reading /\ received \in Nat /\ consumed \in Nat
  BY DEF IInv, TypeOK
<1>2. seen[s].total \in Nat /\ seen[s].onTime \in Nat
  BY <1>1, ReadingTyped
<1>3. received <= seen[s].total /\ consumed <= seen[s].total
  BY <1>1, <1>2 DEF Commits, Regressed
<1> QED BY <1>2, <1>3 DEF Commits, Unchanged, Release, IInv, ScanInv


\* The account of a committed scan, however much of it was just consumed.
LEMMA FundsCommitted ==
  ASSUME IInv, NEW s \in Scanners, Commits(s), UNCHANGED finalized,
         consumed' \in Nat, consumed <= consumed', consumed' <= seen[s].total
  PROVE  FundsInv'
<1>1. /\ seen[s].total \in Nat /\ seen[s].total <= finalized /\ received' = seen[s].total
      /\ finalized \in Nat /\ consumed \in Nat /\ Legacy \in Nat /\ Legacy <= consumed
  BY Committing, AccountAssumption DEF AccountAssumption, IInv, TypeOK, FundsInv
<1> QED BY <1>1 DEF FundsInv, CreditCovered

LEMMA CommitBalanceStep ==
  ASSUME IInv, NEW s \in Scanners, CommitBalance(s) PROVE IInv'
<1>1. Commits(s) /\ UNCHANGED <<chainVars, consumed, active, invoiceVars, approved, failures>>
  BY DEF CommitBalance
<1>2. /\ pc' \in [Scanners -> {"idle", "read", "observe", "commit"}]
      /\ seen' \in [Scanners -> Reading]
      /\ \A t \in Scanners : ScanInv(t)'
  BY <1>1, ScanReturns, Committing
<1>3. consumed \in Nat /\ consumed <= consumed /\ consumed <= seen[s].total
  <2>1. consumed \in Nat
    BY DEF IInv, TypeOK
  <2>2. consumed <= seen[s].total
    BY <1>1, Committing
  <2> QED BY <2>1, <2>2
<1>4. TypeOK'
  BY <1>1, <1>2, Committing DEF IInv, TypeOK
<1>5. FundsInv'
  BY <1>1, <1>3, FundsCommitted
<1>6. QuotesInv'
  BY <1>1, QuotesKept DEF IInv
<1> QED BY <1>2, <1>4, <1>5, <1>6 DEF IInv

\* What settling takes is positive, available and, for a scan, in time.
LEMMA Taking ==
  ASSUME IInv, NEW s \in Scanners, CommitSettled(s)
  PROVE  /\ active \in Invoices /\ status[active] \in Open
         /\ Applied(s) \in Nat /\ Applied(s) > 0 /\ Applied(s) >= due[active]
         /\ consumed + Applied(s) <= seen[s].total /\ consumed + Applied(s) <= seen[s].onTime
         /\ Settle(active, Applied(s))
<1>0. Commits(s) /\ seen[s].active = active
  BY Committing DEF CommitSettled
<1>1. active \in Invoices /\ status[active] \in Open
  BY <1>0 DEF CommitSettled, Settleable, IInv, TypeOK
<1>2. due[active] \in Nat /\ due[active] > 0 /\ consumed \in Nat
  BY <1>1, OpenQuote DEF IInv, TypeOK
<1> DEFINE total == seen[s].total  onTime == seen[s].onTime
<1>3. /\ total \in Nat /\ onTime \in Nat /\ consumed <= total /\ onTime <= total
      /\ Timely(s) = IF onTime > consumed THEN onTime - consumed ELSE 0
      /\ Applied(s) = Lesser(total - consumed, Timely(s))
      /\ Timely(s) >= due[active] /\ Settle(active, Applied(s))
  BY <1>0, Committing DEF CommitSettled, Timely, Applied
<1> HIDE DEF total, onTime
<1>4. Timely(s) = onTime - consumed
  BY <1>2, <1>3
<1>5. Applied(s) = onTime - consumed
  BY <1>2, <1>3, <1>4 DEF Lesser
<1>6. /\ Applied(s) \in Nat /\ Applied(s) > 0 /\ Applied(s) >= due[active]
      /\ consumed + Applied(s) <= total /\ consumed + Applied(s) <= onTime
  BY <1>2, <1>3, <1>4, <1>5
<1> QED BY <1>1, <1>3, <1>6 DEF total, onTime

LEMMA CommitSettledStep ==
  ASSUME IInv, NEW s \in Scanners, CommitSettled(s) PROVE IInv'
<1> DEFINE amount == Applied(s)
<1>1. /\ active \in Invoices /\ status[active] \in Open
      /\ amount \in Nat /\ amount > 0 /\ consumed + amount <= seen[s].total
      /\ Settle(active, amount)
  BY Taking
<1>2. UNCHANGED <<chainVars, lastInvoice, due, overdue, cutoff, approved, failures>> /\ Commits(s)
  BY DEF CommitSettled
<1> HIDE DEF amount
<1>3. /\ pc' \in [Scanners -> {"idle", "read", "observe", "commit"}]
      /\ seen' \in [Scanners -> Reading]
      /\ \A t \in Scanners : ScanInv(t)'
  BY <1>2, ScanReturns, Committing
<1>4. /\ consumed \in Nat /\ consumed' = consumed + amount /\ active' = NoInvoice
      /\ status' = [status EXCEPT ![active] = "paid"] /\ credit' = [credit EXCEPT ![active] = amount]
      /\ seen[s].total \in Nat
      /\ received' = seen[s].total /\ lease' = None /\ leaseOld' = FALSE /\ failed' = FALSE
  BY <1>1, <1>2, Committing DEF IInv, TypeOK, Settle
<1>5. TypeOK'
  <2>1. status' \in [Invoices -> Open \cup {"absent", "paid"}]
    BY <1>1, <1>4 DEF IInv, TypeOK
  <2>2. credit' \in [Invoices -> Nat] /\ consumed' \in Nat /\ received' \in Nat
    BY <1>1, <1>4 DEF IInv, TypeOK
  <2>3. /\ active' \in Invoices \cup {NoInvoice} /\ lease' \in Scanners \cup {None}
        /\ leaseOld' \in BOOLEAN /\ failed' \in BOOLEAN
    BY <1>4
  <2> QED BY <1>2, <1>3, <2>1, <2>2, <2>3 DEF IInv, TypeOK
<1>6. FundsInv'
  BY <1>1, <1>2, <1>4, FundsCommitted
<1>7. QuotesInv'
  BY <1>1, <1>2, <1>4 DEF IInv, TypeOK, QuotesInv, LiveQuoteIsActive
<1> QED BY <1>3, <1>5, <1>6, <1>7 DEF IInv

LEMMA CommitStatusStep ==
  ASSUME IInv, NEW s \in Scanners, CommitStatus(s) PROVE IInv'
<1> DEFINE new == StatusFor(s, active)
<1>1. /\ active \in Invoices /\ status[active] \in Open /\ Commits(s)
      /\ status' = [status EXCEPT ![active] = new]
      /\ UNCHANGED <<chainVars, consumed, active, lastInvoice, due, credit, overdue, cutoff,
                     approved, failures>>
  BY Committing DEF CommitStatus, Settleable, IInv, TypeOK
<1>2. new \in Open
  BY DEF StatusFor
<1> HIDE DEF new
<1>3. /\ pc' \in [Scanners -> {"idle", "read", "observe", "commit"}]
      /\ seen' \in [Scanners -> Reading]
      /\ \A t \in Scanners : ScanInv(t)'
  BY <1>1, ScanReturns, Committing
<1>4. TypeOK'
  BY <1>1, <1>2, <1>3, Committing DEF IInv, TypeOK
<1>5. FundsInv'
  <2>1. consumed \in Nat
    BY DEF IInv, TypeOK
  <2>2. consumed <= seen[s].total
    BY <1>1, Committing
  <2>3. consumed' = consumed /\ finalized' = finalized /\ consumed <= consumed
    BY <1>1, <2>1
  <2> QED BY <1>1, <2>1, <2>2, <2>3, FundsCommitted
<1>6. QuotesInv'
  BY <1>1, <1>2 DEF IInv, TypeOK, QuotesInv, LiveQuoteIsActive
<1> QED BY <1>3, <1>4, <1>5, <1>6 DEF IInv

LEMMA RefusedStep ==
  ASSUME IInv, NEW s \in Scanners, Refused(s) PROVE IInv'
<1> USE DEF IInv, Refused, Fail, Release
<1>1. /\ pc' \in [Scanners -> {"idle", "read", "observe", "commit"}]
      /\ seen' \in [Scanners -> Reading]
      /\ \A t \in Scanners : ScanInv(t)'
  BY ScanReturns
<1>2. TypeOK'    BY <1>1 DEF TypeOK
<1>3. FundsInv'  BY FundsKept
<1>4. QuotesInv' BY QuotesKept
<1> QED BY <1>1, <1>2, <1>3, <1>4

LEMMA ProviderFailsStep ==
  ASSUME IInv, NEW s \in Scanners, ProviderFails(s) PROVE IInv'
<1>1. /\ Return(s) /\ failures' = failures + 1 /\ failures \in Nat
      /\ UNCHANGED <<chainVars, received, consumed, active, invoiceVars, approved>>
      /\ lease' \in {lease, None} /\ leaseOld' \in {leaseOld, FALSE} /\ failed' \in {failed, TRUE}
  BY DEF ProviderFails, Fail, Release, IInv, TypeOK
<1>2. /\ pc' \in [Scanners -> {"idle", "read", "observe", "commit"}]
      /\ seen' \in [Scanners -> Reading]
      /\ \A t \in Scanners : ScanInv(t)'
  BY <1>1, ScanReturns
<1>3. TypeOK'
  <2>1. lease \in Scanners \cup {None} /\ leaseOld \in BOOLEAN /\ failed \in BOOLEAN
    BY DEF IInv, TypeOK
  <2>2. lease' \in Scanners \cup {None} /\ leaseOld' \in BOOLEAN /\ failed' \in BOOLEAN
    BY <1>1, <2>1, Zenon
  <2>3. failures' \in Nat
    BY <1>1
  <2> QED BY <1>1, <1>2, <2>2, <2>3 DEF IInv, TypeOK
<1>4. FundsInv'  BY <1>1, FundsKept DEF IInv
<1>5. QuotesInv' BY <1>1, QuotesKept DEF IInv
<1> QED BY <1>2, <1>3, <1>4, <1>5 DEF IInv

LEMMA CrashStep ==
  ASSUME IInv, NEW s \in Scanners, Crash(s) PROVE IInv'
<1> USE DEF IInv, Crash
<1>1. /\ pc' \in [Scanners -> {"idle", "read", "observe", "commit"}]
      /\ seen' \in [Scanners -> Reading]
      /\ \A t \in Scanners : ScanInv(t)'
  BY ScanReturns
<1>2. TypeOK'    BY <1>1 DEF TypeOK
<1>3. FundsInv'  BY FundsKept
<1>4. QuotesInv' BY QuotesKept
<1> QED BY <1>1, <1>2, <1>3, <1>4

-----------------------------------------------------------------------------
LEMMA NextIInv == IInv /\ [Next]_vars => IInv'
<1> SUFFICES ASSUME IInv, [Next]_vars PROVE IInv'
  OBVIOUS
<1>1. CASE UNCHANGED vars
  BY <1>1 DEF vars, IInv, TypeOK, FundsInv, QuotesInv, ScanInv, CreditCovered,
     LiveQuoteIsActive
<1>2. ASSUME NEW s \in Scanners, Scan(s) PROVE IInv'
  BY <1>2, ClaimStep, ReadAccountStep, ObserveStep, CommitLostStep, CommitStaleStep,
     CommitBalanceStep, CommitSettledStep, CommitStatusStep, RefusedStep DEF Scan
<1> QED
  BY <1>1, <1>2, DepositStep, FinalizeStep, JournalTransferStep, MineTransferStep,
     LeaseExpiresStep, NewInvoiceStep, ExpireStep, ReviewStep, ObserveStep,
     ProviderFailsStep, CrashStep DEF Next

\* Every step of the chain, of an invoice, of the treasury and of a scan keeps the
\* account's money, quotes and what the scans have read in agreement.
THEOREM Invariance == Spec => []IInv
  BY InitIInv, NextIInv, PTL DEF Spec

\* Every reachable state of the account has the declared shape.
THEOREM TypeCorrect == Spec => []TypeOK
  BY Invariance, PTL DEF IInv

\* Available credit is never negative once the account was observed.
THEOREM CreditStaysCovered == Spec => []CreditCovered
  BY Invariance, PTL DEF IInv, FundsInv

\* A quote the reader may still pay is the one the scans look at.
THEOREM QuoteStaysActive == Spec => []LiveQuoteIsActive
  BY Invariance, PTL DEF IInv, QuotesInv

-----------------------------------------------------------------------------
(* The refinement of DepositLedger. *)

\* Every step leaves money, consumption and credits alone, finalizes money, or
\* pays one unpaid quote out of finalized money.
LEMMA StepPays ==
  ASSUME IInv, [Next]_vars
  PROVE  \/ UNCHANGED <<finalized, consumed, credit>>
         \/ Ledger!Arrive
         \/ \E i \in Invoices : Ledger!Pay(i)
<1>1. CASE Finalize
  BY <1>1 DEF Finalize, Ledger!Arrive, IInv, TypeOK
<1>2. ASSUME NEW i \in Invoices, Review(i) PROVE Ledger!Pay(i)
  BY <1>2, ReviewTakes, OpenQuote DEF Settle, Ledger!Pay, Review, IInv, TypeOK, FundsInv
<1>3. ASSUME NEW s \in Scanners, CommitSettled(s) PROVE active \in Invoices /\ Ledger!Pay(active)
  <2>1. active \in Invoices /\ status[active] \in Open /\ Settle(active, Applied(s))
    BY <1>3, Taking
  <2>2. Applied(s) \in Nat /\ Applied(s) > 0 /\ consumed + Applied(s) <= finalized
    <3>1. Applied(s) \in Nat /\ Applied(s) > 0 /\ consumed + Applied(s) <= seen[s].total
      BY <1>3, Taking
    <3>2. seen[s].total \in Nat /\ seen[s].total <= finalized
      BY <1>3, Committing DEF CommitSettled
    <3>3. consumed \in Nat /\ finalized \in Nat
      BY DEF IInv, TypeOK
    <3> QED BY <3>1, <3>2, <3>3
  <2>3. credit[active] = 0 /\ UNCHANGED finalized
    BY <1>3, <2>1, OpenQuote DEF CommitSettled
  <2>4. consumed \in Nat
    BY DEF IInv, TypeOK
  <2>5. consumed' = consumed + Applied(s) /\ credit' = [credit EXCEPT ![active] = Applied(s)]
    BY <2>1 DEF Settle
  <2>6. consumed' \in Nat /\ consumed < consumed' /\ consumed' <= finalized /\ Applied(s) = consumed' - consumed
    BY <2>2, <2>4, <2>5
  <2> QED BY <2>1, <2>3, <2>5, <2>6 DEF Ledger!Pay
<1>5. CASE ~ \/ Finalize
             \/ \E i \in Invoices : Review(i)
             \/ \E s \in Scanners : CommitSettled(s)
  BY <1>5, ZenonT(60) DEF Next, Scan, Deposit, JournalTransfer, MineTransfer, LeaseExpires, NewInvoice,
     Expire, Claim, ReadAccount, Observe, ObserveLagging, ScanAt, CommitLost, CommitStale,
     CommitBalance, CommitStatus, Refused, ProviderFails, Crash, Fail, vars
<1> QED BY <1>1, <1>2, <1>3, <1>5

\* The account implements the ledger, whatever scans, failures and treasury
\* transfers come between.
THEOREM Refinement == Spec => KeepsLedger
<1>1. Init => Ledger!Init
  BY DEF Init, Ledger!Init
<1>2. IInv /\ [Next]_vars => [Ledger!Arrive \/ \E q \in Invoices : Ledger!Pay(q)]_Ledger!vars
  BY StepPays DEF Ledger!vars
<1> QED BY <1>1, <1>2, Invariance, PTL DEF Spec, KeepsLedger, Ledger!Spec

-----------------------------------------------------------------------------
\* A scan pays an expired quote in full and only with money that was in time.
THEOREM OnTime == Spec => PaidOnTimeInFull
<1> DEFINE Rule(i) == status[i] # "paid" /\ status'[i] = "paid"
                      => /\ credit'[i] >= due[i]
                         /\ overdue[i] /\ ~approved'[i] => consumed' <= cutoff[i]
<1>1. ASSUME IInv, [Next]_vars, NEW i \in Invoices PROVE Rule(i)
  <2>1. ASSUME NEW j \in Invoices, Review(j) PROVE Rule(i)
    BY <1>1, <2>1, ReviewTakes DEF Review, Settle, IInv, TypeOK
  <2>2. ASSUME NEW s \in Scanners, CommitSettled(s) PROVE Rule(i)
    <3>1. /\ active \in Invoices /\ Settle(active, Applied(s)) /\ Applied(s) >= due[active]
          /\ consumed + Applied(s) <= seen[s].onTime /\ Applied(s) \in Nat
      BY <1>1, <2>2, Taking
    <3>2. /\ overdue[active] => seen[s].onTime <= cutoff[active]
          /\ seen[s].onTime \in Nat
      <4>1. Commits(s) /\ active # NoInvoice
        BY <1>1, <2>2, <3>1 DEF CommitSettled
      <4> QED BY <1>1, <4>1, Committing
    <3>3. consumed \in Nat /\ cutoff[active] \in Nat
      BY <1>1, <3>1 DEF IInv, TypeOK
    <3> QED BY <1>1, <3>1, <3>2, <3>3 DEF Settle, IInv, TypeOK
  <2>3. ASSUME NEW s \in Scanners, CommitStatus(s) PROVE Rule(i)
    BY <1>1, <2>3 DEF CommitStatus, StatusFor, IInv, TypeOK
  <2>4. CASE NewInvoice
    BY <1>1, <2>4 DEF NewInvoice, IInv, TypeOK
  <2>5. CASE ~ \/ NewInvoice
               \/ \E j \in Invoices : Review(j)
               \/ \E s \in Scanners : CommitSettled(s) \/ CommitStatus(s)
    BY <1>1, <2>5 DEF Next, Scan, Deposit, Finalize, JournalTransfer, MineTransfer,
       LeaseExpires, Expire, Claim, ReadAccount, Observe, ObserveLagging, ScanAt, CommitLost,
       CommitStale, CommitBalance, Refused, ProviderFails, Crash, Fail, vars
  <2> QED BY <2>1, <2>2, <2>3, <2>4, <2>5
<1>2. IInv /\ [Next]_vars => [\A i \in Invoices : Rule(i)]_vars
  BY <1>1
<1> QED BY <1>2, Invariance, PTL DEF Spec, PaidOnTimeInFull
=============================================================================
