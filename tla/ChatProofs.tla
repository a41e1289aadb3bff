----------------------------- MODULE ChatProofs -----------------------------
(***************************************************************************)
(* Repair of a conversation, for any number of senders, workers, users and *)
(* messages, any page size and any number of losses and lapses.            *)
(***************************************************************************)
EXTENDS ChatDelivery, FiniteSetTheorems, WellFoundedInduction, TLAPS

LEMMA Parameters ==
    /\ MaxMessages \in Nat /\ MaxTroubles \in Nat
    /\ PageSize \in Nat \ {0} /\ MaxPages \in Nat \ {0} /\ MaximumAttempts \in Nat \ {0}
  BY ChatAssumption DEF ChatAssumption

\* Of a chain of subsets that are bounded from below, the smallest has the
\* largest number.
LEMMA LargestExists ==
  ASSUME NEW S \in SUBSET Int, IsFiniteSet(S), S # {}
  PROVE  \E x \in S : \A y \in S : y <= x
<1> DEFINE Up(x) == {y \in S : x <= y}
           T == {Up(x) : x \in S}
           R == StrictSubsetOrdering(S)
<1>1. T \subseteq FiniteSubsetsOf(S) /\ T # {}
  <2>1. \A x \in S : IsFiniteSet(Up(x))
    BY FS_Subset
  <2> QED BY <2>1 DEF FiniteSubsetsOf
<1>2. PICK U \in T : \A V \in T : ~(<<V, U>> \in R)
  <2> HIDE DEF T, R
  <2> QED BY <1>1, FS_StrictSubsetOrderingWellFounded, WFMin DEF R
<1>3. PICK x \in S : U = Up(x)
  <2> HIDE DEF Up, R
  <2> QED BY <1>2
<1>4. ASSUME NEW y \in S, x < y PROVE FALSE
  <2>0. x \in Int /\ y \in Int /\ \A z \in S : z \in Int
    OBVIOUS
  <2>1. (\A z \in S : y <= z => x <= z) /\ x <= x /\ ~(y <= x)
    BY <2>0, <1>4
  <2>2. Up(y) \subseteq Up(x) /\ x \in Up(x) /\ x \notin Up(y)
    BY <2>1
  <2>3. <<Up(y), Up(x)>> \in R
    BY <2>2, <1>1, <1>3 DEF StrictSubsetOrdering
  <2> QED BY <2>3, <1>2, <1>3
<1> QED BY <1>4

LEMMA SmallestExists ==
  ASSUME NEW S \in SUBSET Int, IsFiniteSet(S), S # {}
  PROVE  \E x \in S : \A y \in S : x <= y
<1> DEFINE Down(x) == {y \in S : y <= x}
           T == {Down(x) : x \in S}
           R == StrictSubsetOrdering(S)
<1>1. T \subseteq FiniteSubsetsOf(S) /\ T # {}
  <2>1. \A x \in S : IsFiniteSet(Down(x))
    BY FS_Subset
  <2> QED BY <2>1 DEF FiniteSubsetsOf
<1>2. PICK U \in T : \A V \in T : ~(<<V, U>> \in R)
  <2> HIDE DEF T, R
  <2> QED BY <1>1, FS_StrictSubsetOrderingWellFounded, WFMin DEF R
<1>3. PICK x \in S : U = Down(x)
  <2> HIDE DEF Down, R
  <2> QED BY <1>2
<1>4. ASSUME NEW y \in S, y < x PROVE FALSE
  <2>0. x \in Int /\ y \in Int /\ \A z \in S : z \in Int
    OBVIOUS
  <2>1. (\A z \in S : z <= y => z <= x) /\ x <= x /\ ~(x <= y)
    BY <2>0, <1>4
  <2>2. Down(y) \subseteq Down(x) /\ x \in Down(x) /\ x \notin Down(y)
    BY <2>1
  <2>3. <<Down(y), Down(x)>> \in R
    BY <2>2, <1>1, <1>3 DEF StrictSubsetOrdering
  <2> QED BY <2>3, <1>2, <1>3
<1> QED BY <1>4

LEMMA SubsetsFinite ==
  ASSUME NEW S \in SUBSET Messages
  PROVE  IsFiniteSet(S) /\ Cardinality(S) \in Nat
<1>1. IsFiniteSet(Messages)
  BY Parameters, FS_Interval DEF Messages
<1>2. IsFiniteSet(S)
  BY <1>1, FS_Subset
<1> QED BY <1>2, FS_CardinalityType

LEMMA SetMaxIs ==
  ASSUME NEW S \in SUBSET Numbers
  PROVE  SetMax(S) \in S \cup {0} /\ \A y \in S : y <= SetMax(S)
<1>1. S \cup {0} \in SUBSET Int /\ IsFiniteSet(S \cup {0})
  <2>1. IsFiniteSet(Numbers)
    BY Parameters, FS_Interval DEF Numbers
  <2>2. S \cup {0} \in SUBSET Numbers
    BY Parameters DEF Numbers
  <2>3. IsFiniteSet(S \cup {0})
    BY <2>1, <2>2, FS_Subset
  <2> QED BY <2>2, <2>3 DEF Numbers
<1>2. PICK x \in S \cup {0} : \A y \in S \cup {0} : y <= x
  BY <1>1, LargestExists
<1> QED BY <1>2 DEF SetMax

LEMMA SetMinIs ==
  ASSUME NEW S \in SUBSET Messages, S # {}
  PROVE  SetMin(S) \in S
<1>1. PICK x \in S : \A y \in S : x <= y
  BY SubsetsFinite, SmallestExists DEF Messages
<1> QED BY <1>1 DEF SetMin

\* A page is an initial part of what is after the cursor.
LEMMA ShownIsPrefix ==
  ASSUME TypeOK, NEW r \in Repairers, NEW m \in After(r), NEW k \in Shown(r), m <= k
  PROVE  m \in Shown(r)
<1> DEFINE Below(x) == {j \in After(r) : j < x}
<1>1. m \in Messages /\ k \in Messages /\ After(r) \in SUBSET Messages
  BY DEF After, Shown, Addressed
<1>2. Below(m) \in SUBSET Below(k)
  BY <1>1 DEF Messages
<1>3. IsFiniteSet(Below(k)) /\ Cardinality(Below(k)) \in Nat /\ Cardinality(Below(m)) \in Nat
  BY <1>1, SubsetsFinite
<1>4. Cardinality(Below(m)) <= Cardinality(Below(k))
  BY <1>2, <1>3, FS_Subset
<1>5. Cardinality(Below(k)) < PageSize
  BY DEF Shown
<1> QED BY <1>3, <1>4, <1>5, Parameters DEF Shown

\* Where the cursor goes after a page, as far as nothing before it is left out.
LEMMA CursorIs ==
  ASSUME TypeOK, NEW r \in Repairers
  PROVE  /\ Shown(r) \in SUBSET Messages /\ Shown(r) \subseteq Addressed
         /\ Cursor(r) \in Numbers
         /\ Shown(r) # {} => Cursor(r) \in Shown(r)
         /\ \A m \in Shown(r) : m <= Cursor(r)
<1>1. Shown(r) \in SUBSET Messages /\ Shown(r) \subseteq Addressed
  BY DEF Shown, After, Addressed
<1>2. Shown(r) \in SUBSET Numbers /\ page[r].head \in Numbers
  BY <1>1, Parameters DEF Messages, Numbers, TypeOK, Pages
<1>3. CASE Shown(r) = {}
  BY <1>1, <1>2, <1>3 DEF Cursor
<1>4. CASE Shown(r) # {}
  <2>1. SetMax(Shown(r)) \in Shown(r) \cup {0} /\ \A m \in Shown(r) : m <= SetMax(Shown(r))
    BY <1>2, SetMaxIs
  <2>2. SetMax(Shown(r)) # 0
    BY <1>1, <1>4, <2>1 DEF Messages
  <2> QED BY <1>1, <1>2, <1>4, <2>1, <2>2 DEF Cursor
<1> QED BY <1>3, <1>4

-----------------------------------------------------------------------------
(* Types. *)

LEMMA InitIInv == Init => IInv
<1> SUFFICES ASSUME Init PROVE IInv
  OBVIOUS
<1>1. TypeOK
  BY Parameters DEF Init, TypeOK, Messages, Devices, None, Numbers, Calls, NoPage, Rows, Syncs, Jobs, Pages
<1>2. Addressed = {}
  BY DEF Init, Addressed, None
<1> QED
  BY <1>1, <1>2, Parameters DEF Init, IInv, Numbered, AttemptsLeft, AcceptedIsStored,
     CursorComplete, DeliveredIsStored, PageComplete, NoPage

LEMMA RowTypes ==
  ASSUME NEW row \in Rows
  PROVE  /\ Enqueued(row) \in Rows
         /\ \A b \in BOOLEAN : [row EXCEPT !.claimed = b] \in Rows
<1>1. ASSUME NEW b \in BOOLEAN PROVE [row EXCEPT !.claimed = b] \in Rows
  BY DEF Rows
<1>2. [row EXCEPT !.state = "pending"] \in Rows
  BY DEF Rows
<1> QED BY <1>1, <1>2 DEF Enqueued

LEMMA AcceptTypes ==
  ASSUME NEW m \in Messages, stored \in SUBSET Messages, sync \in Syncs, job \in Jobs,
         Accept(m) \/ Ignore
  PROVE  stored' \in SUBSET Messages /\ sync' \in Syncs /\ job' \in Jobs
<1>1. CASE Ignore
  BY <1>1 DEF Ignore
<1>2. CASE Accept(m)
  <2>1. [job EXCEPT !.exists = TRUE] \in Jobs
    BY DEF Jobs
  <2>2. sync.head \in Numbers /\ m \in Numbers
    BY Parameters DEF Syncs, Numbers, Messages
  <2>3. Maximum(sync.head, m) \in Numbers
    BY <2>2 DEF Maximum
  <2>4. [sync EXCEPT !.known = TRUE, !.head = Maximum(@, m)] \in Syncs
    BY <2>3 DEF Syncs
  <2> QED BY <1>2, <2>1, <2>4 DEF Accept, Remember
<1> QED BY <1>1, <1>2

\* The steps of the author's node and of the calls between the nodes.
LEMMA SourceTypes ==
  ASSUME IInv, \/ \E d \in Devices \cup {None}, endpoint \in BOOLEAN : Post(d, endpoint)
               \/ \E m \in Messages : PostAgain(m) \/ ClaimEnds(m) \/ HandleLate(m)
               \/ \E s \in Senders : SendStep(s) \/ LoseAnswer(s) \/ SenderStops(s)
               \/ \E s \in Senders, m \in Messages : LoseCall(s, m) \/ SendHalf(s, m)
               \/ Revoke
  PROVE  TypeOK'
<1> USE Parameters DEF IInv, None
<1>1. ASSUME NEW d \in Devices \cup {None}, NEW endpoint \in BOOLEAN, Post(d, endpoint)
      PROVE  TypeOK'
  <2>1. last' \in Messages /\ last' \in Numbers
    BY <1>1 DEF Post, TypeOK, Messages, Numbers
  <2>2. delivery \in [Messages -> Rows]
    BY DEF TypeOK
  <2>3. Enqueued(delivery[last']) \in Rows
    BY <2>1, <2>2, RowTypes
  <2>4. delivery' \in [Messages -> Rows]
    BY <1>1, <2>1, <2>2, <2>3 DEF Post
  <2> QED BY <1>1, <2>1, <2>4 DEF Post, TypeOK, senderVars, copyVars, repairVars
<1>2. ASSUME NEW m \in Messages, PostAgain(m) PROVE TypeOK'
  <2>1. delivery \in [Messages -> Rows]
    BY DEF TypeOK
  <2>2. Enqueued(delivery[m]) \in Rows
    BY <2>1, RowTypes
  <2>3. delivery' \in [Messages -> Rows]
    BY <1>2, <2>1, <2>2 DEF PostAgain
  <2> QED BY <1>2, <2>3 DEF PostAgain, TypeOK, senderVars, copyVars, repairVars
<1>3. ASSUME NEW m \in Messages, ClaimEnds(m) PROVE TypeOK'
  <2>1. delivery \in [Messages -> Rows]
    BY DEF TypeOK
  <2>2. [delivery[m] EXCEPT !.claimed = FALSE] \in Rows
    BY <2>1, RowTypes
  <2>3. delivery' \in [Messages -> Rows]
    BY <1>3, <2>1, <2>2 DEF ClaimEnds
  <2>4. troubles' \in 0..MaxTroubles
    BY <1>3 DEF ClaimEnds, Trouble, TypeOK
  <2> QED BY <1>3, <2>3, <2>4 DEF ClaimEnds, TypeOK, senderVars, copyVars, repairVars
<1>4. ASSUME NEW m \in Messages, Accept(m) \/ Ignore
      PROVE  stored' \in SUBSET Messages /\ sync' \in Syncs /\ job' \in Jobs
  BY <1>4, AcceptTypes DEF TypeOK
<1>5. ASSUME NEW m \in Messages, HandleLate(m) PROVE TypeOK'
  <2>1. Accept(m) \/ Ignore
    BY <1>5 DEF HandleLate
  <2> QED BY <1>4, <1>5, <2>1 DEF HandleLate, TypeOK, sourceVars, repairVars
<1>6. ASSUME NEW s \in Senders, NEW m \in Messages, NEW answer \in Calls, Calling(s, m, answer),
             stored' \in SUBSET Messages,
             sync' \in Syncs,
             job' \in Jobs,
             late' \in SUBSET Messages, troubles' \in 0..MaxTroubles
      PROVE  TypeOK'
  <2>0. m \in Numbers
    BY DEF Messages, Numbers
  <2>1. sending' \in [Senders -> Numbers] /\ call' \in [Senders -> Calls]
    BY <1>6, <2>0 DEF Calling, TypeOK
  <2>2. \A c \in Senders : call'[c] # "none" => sending'[c] \in todo'[c]
    BY <1>6 DEF Calling, TypeOK
  <2> QED BY <1>6, <2>1, <2>2 DEF Calling, TypeOK, sourceVars, repairVars
<1>7. ASSUME NEW s \in Senders, NEW m \in Messages, Send(s, m) PROVE TypeOK'
  <2>1. Accept(m) \/ Ignore
    BY <1>7 DEF Send
  <2>2. late' \in SUBSET Messages /\ troubles' \in 0..MaxTroubles
    BY <1>7 DEF Send, TypeOK
  <2> QED BY <1>4, <1>6, <1>7, <2>1, <2>2 DEF Send, Calls
<1>8. ASSUME NEW s \in Senders, NEW m \in Messages, LoseCall(s, m) \/ SendHalf(s, m)
      PROVE  TypeOK'
  <2>1. /\ Calling(s, m, "lost") /\ late' \in SUBSET Messages /\ troubles' \in 0..MaxTroubles
        /\ stored' \in SUBSET Messages /\ UNCHANGED <<sync, job>>
    BY <1>8 DEF LoseCall, SendHalf, Trouble, TypeOK
  <2>2. "lost" \in Calls
    BY DEF Calls
  <2>3. /\ sync' \in Syncs
        /\ job' \in Jobs
    BY <2>1 DEF TypeOK
  <2> QED BY <1>6, <2>1, <2>2, <2>3
<1>9. ASSUME NEW s \in Senders, Claim(s) PROVE TypeOK'
  <2>1. PICK rows \in SUBSET Due :
          /\ delivery' = [m \in Messages |-> [delivery[m] EXCEPT !.claimed = @ \/ m \in rows]]
          /\ todo' = [todo EXCEPT ![s] = rows]
          /\ seen' = [seen EXCEPT ![s] =
                        [m \in Messages |-> IF m \in rows THEN delivery[m].attempts ELSE 0]]
    BY <1>9 DEF Claim
  <2>2. delivery' \in [Messages -> Rows]
    <3>1. \A m \in Messages : [delivery[m] EXCEPT !.claimed = @ \/ m \in rows] \in Rows
      <4> SUFFICES ASSUME NEW m \in Messages
                   PROVE  [delivery[m] EXCEPT !.claimed = @ \/ m \in rows] \in Rows
        OBVIOUS
      <4>1. delivery[m] \in Rows
        BY DEF TypeOK
      <4>2. (delivery[m].claimed \/ m \in rows) \in BOOLEAN
        OBVIOUS
      <4> QED BY <4>1, <4>2, RowTypes
    <3> QED BY <2>1, <3>1
  <2>3. todo' \in [Senders -> SUBSET Messages]
    BY <2>1 DEF TypeOK, Due
  <2>4. \A m \in rows : delivery[m].attempts \in 0..MaximumAttempts - 1
    <3> SUFFICES ASSUME NEW m \in rows PROVE delivery[m].attempts \in 0..MaximumAttempts - 1
      OBVIOUS
    <3>1. m \in Messages /\ delivery[m].state = "pending"
      BY DEF Due
    <3>2. delivery[m].attempts \in 0..MaximumAttempts /\ delivery[m].attempts < MaximumAttempts
      BY <3>1 DEF TypeOK, Rows, AttemptsLeft
    <3> QED BY <3>2
  <2>5. [m \in Messages |-> IF m \in rows THEN delivery[m].attempts ELSE 0]
          \in [Messages -> 0..MaximumAttempts - 1]
    BY <2>4
  <2>6. seen' \in [Senders -> [Messages -> 0..MaximumAttempts - 1]]
    BY <2>1, <2>5 DEF TypeOK
  <2>7. \A c \in Senders : call'[c] # "none" => sending'[c] \in todo'[c]
    BY <1>9, <2>1 DEF Claim, TypeOK
  <2> QED BY <1>9, <2>2, <2>3, <2>6, <2>7 DEF Claim, TypeOK, copyVars, repairVars
<1>10. ASSUME NEW s \in Senders, Record(s) PROVE TypeOK'
  <2>1. sending[s] \in Messages /\ seen[s][sending[s]] \in 0..MaximumAttempts - 1
    BY <1>10 DEF Record, TypeOK
  <2>2. Attempted(s, sending[s]) \in Rows
    <3>1. delivery[sending[s]] \in Rows /\ seen[s][sending[s]] + 1 \in 0..MaximumAttempts
      BY <2>1 DEF TypeOK
    <3> QED BY <3>1 DEF Attempted, Rows
  <2>3. seen' \in [Senders -> [Messages -> 0..MaximumAttempts - 1]]
    BY <1>10, <2>1 DEF Record, TypeOK
  <2>4. \A c \in Senders : call'[c] # "none" => sending'[c] \in todo'[c]
    BY <1>10 DEF Record, TypeOK
  <2> QED BY <1>10, <2>1, <2>2, <2>3, <2>4 DEF Record, TypeOK, Calls, Numbers, copyVars, repairVars
<1>11. ASSUME NEW s \in Senders, LoseAnswer(s) PROVE TypeOK'
  BY <1>11 DEF LoseAnswer, Trouble, TypeOK, Calls, sourceVars, copyVars, repairVars
<1>12. ASSUME NEW s \in Senders, SenderStops(s) PROVE TypeOK'
  BY <1>12 DEF SenderStops, Trouble, TypeOK, Calls, Numbers, sourceVars, copyVars, repairVars
<1>13. ASSUME Revoke PROVE TypeOK'
  BY <1>13 DEF Revoke, Trouble, TypeOK, sourceVars, senderVars, repairVars
<1>14. ASSUME NEW s \in Senders, SendStep(s) PROVE TypeOK'
  <2>1. \A m \in todo[s] : m \in Messages
    BY DEF TypeOK
  <2> QED BY <1>7, <1>9, <1>10, <1>14, <2>1 DEF SendStep
<1> QED BY <1>1, <1>2, <1>3, <1>5, <1>8, <1>11, <1>12, <1>13, <1>14

\* The steps of a repair.
LEMMA RepairTypes ==
  ASSUME IInv, \/ \E r \in Repairers : RepairStep(r) \/ RepairFails(r)
               \/ \E r \in Workers : ClaimJob(r) \/ EndRepair(r) \/ WorkerStops(r)
               \/ \E r \in Users : Reconcile(r)
               \/ JobClaimEnds
  PROVE  TypeOK'
<1> USE Parameters DEF IInv, None, Goto
<1>0. Workers \subseteq Repairers /\ Users \subseteq Repairers
  BY DEF Repairers
<1>1. ASSUME NEW r \in Repairers
      PROVE  /\ pc[r] \in {"idle", "ask", "read", "import", "ended"}
             /\ page[r] \in Pages /\ pages[r] \in 0..MaxPages - 1
             /\ NoPage \in Pages /\ 0 \in 0..MaxPages - 1
             /\ \A n \in Numbers : [NoPage EXCEPT !.cursor = n] \in Pages
             /\ \A n \in Numbers : [page[r] EXCEPT !.cursor = n] \in Pages
             /\ \A n \in Numbers : [page[r] EXCEPT !.head = n] \in Pages
  <2>1. /\ pc[r] \in {"idle", "ask", "read", "import", "ended"}
        /\ page[r] \in Pages /\ pages[r] \in 0..MaxPages - 1
    BY DEF TypeOK
  <2>2. 0 \in Numbers /\ 0 \in 0..MaxPages - 1
    BY DEF Numbers
  <2>3. NoPage \in Pages
    BY <2>2 DEF NoPage, Pages
  <2>4. ASSUME NEW n \in Numbers
        PROVE  /\ [NoPage EXCEPT !.cursor = n] \in Pages
               /\ [page[r] EXCEPT !.cursor = n] \in Pages
               /\ [page[r] EXCEPT !.head = n] \in Pages
    BY <2>1, <2>3 DEF Pages
  <2> QED BY <2>1, <2>2, <2>3, <2>4
<1>2. ASSUME NEW r \in Repairers, Over(r)
      PROVE  /\ pc' \in [Repairers -> {"idle", "ask", "read", "import", "ended"}]
             /\ pages' \in [Repairers -> 0..MaxPages - 1] /\ page' \in [Repairers -> Pages]
  BY <1>1, <1>2 DEF Over, TypeOK
<1>3. ASSUME NEW r \in Repairers, Begin(r)
      PROVE  /\ pc' \in [Repairers -> {"idle", "ask", "read", "import", "ended"}]
             /\ pages' \in [Repairers -> 0..MaxPages - 1] /\ page' \in [Repairers -> Pages]
  <2>1. sync.scan \in Numbers
    BY DEF TypeOK, Syncs
  <2>2. [page[r] EXCEPT !.cursor = sync.scan] \in Pages
    BY <1>1, <2>1
  <2> QED BY <1>3, <2>2 DEF Begin, TypeOK
<1>4. ASSUME NEW r \in Workers, ClaimJob(r) PROVE TypeOK'
  <2>1. job' \in Jobs
    BY <1>4 DEF ClaimJob, Jobs
  <2> QED BY <1>0, <1>3, <1>4, <2>1 DEF ClaimJob, TypeOK, sourceVars, senderVars
<1>5. ASSUME NEW r \in Users, Reconcile(r) PROVE TypeOK'
  <2>1. sync' \in Syncs
    BY <1>5 DEF Reconcile, TypeOK, Syncs
  <2> QED BY <1>0, <1>3, <1>5, <2>1 DEF Reconcile, TypeOK, sourceVars, senderVars
<1>6. ASSUME NEW r \in Repairers, Ask(r) PROVE TypeOK'
  <2>1. Addressed \in SUBSET Numbers
    BY DEF Addressed, Messages, Numbers
  <2>2. SetMax(Addressed) \in Numbers
    <3>1. SetMax(Addressed) \in Addressed \cup {0}
      BY <2>1, SetMaxIs
    <3>2. 0 \in Numbers
      BY DEF Numbers
    <3> QED BY <2>1, <3>1, <3>2
  <2>3. [page[r] EXCEPT !.head = SetMax(Addressed)] \in Pages
    BY <1>1, <2>2
  <2> QED BY <1>6, <2>3 DEF Ask, TypeOK, sourceVars, senderVars, copyVars
<1>7. ASSUME NEW r \in Repairers, ReadPage(r) PROVE TypeOK'
  <2>1. CASE Valid(r)
    <3>1. Shown(r) \in SUBSET Messages /\ Cursor(r) \in Numbers
      BY <1>1, CursorIs
    <3>2. HasMore(r) \in BOOLEAN
      BY DEF HasMore
    <3>3. [page[r] EXCEPT !.todo = Shown(r), !.cursor = Cursor(r), !.more = HasMore(r)] \in Pages
      BY <1>1, <3>1, <3>2 DEF Pages
    <3> QED BY <1>7, <2>1, <3>3 DEF ReadPage, TypeOK, sourceVars, senderVars, copyVars
  <2>2. CASE ~Valid(r)
    BY <1>2, <1>7, <2>2 DEF ReadPage, TypeOK, sourceVars, senderVars, copyVars
  <2> QED BY <2>1, <2>2
<1>8. ASSUME NEW r \in Repairers, Import(r) PROVE TypeOK'
  <2> DEFINE m == SetMin(page[r].todo)
  <2>1. page[r].todo \in SUBSET Messages /\ m \in Messages
    BY <1>1, <1>8, SetMinIs DEF Import, Pages
  <2>2. Accept(m) \/ Ignore
    BY <1>8 DEF Import
  <2>3. stored' \in SUBSET Messages /\ sync' \in Syncs /\ job' \in Jobs
    <3> HIDE DEF m
    <3> QED BY <2>1, <2>2, AcceptTypes DEF TypeOK
  <2>4. CASE Acceptable(m)
    <3>1. [page[r] EXCEPT !.todo = @ \ {m}] \in Pages
      BY <1>1, <2>1 DEF Pages
    <3>2. page' = [page EXCEPT ![r] = [page[r] EXCEPT !.todo = @ \ {m}]] /\ UNCHANGED <<pc, pages>>
      BY <1>8, <2>4 DEF Import
    <3> HIDE DEF m
    <3> QED BY <1>8, <2>3, <3>1, <3>2 DEF Import, TypeOK, sourceVars, senderVars
  <2>5. CASE ~Acceptable(m)
    <3>1. Over(r)
      BY <1>8, <2>5 DEF Import
    <3> HIDE DEF m
    <3> QED BY <1>2, <1>8, <2>3, <3>1 DEF Import, TypeOK, sourceVars, senderVars
  <2> QED BY <2>4, <2>5
<1>9. ASSUME NEW r \in Repairers, Persist(r) PROVE TypeOK'
  <2>1. sync' \in Syncs /\ sync'.scan \in Numbers
    BY <1>1, <1>9, ZenonT(60) DEF Persist, Advanced, Maximum, TypeOK, Syncs, Pages
  <2>2. CASE Over(r)
    BY <1>2, <1>9, <2>1, <2>2 DEF Persist, TypeOK, sourceVars, senderVars
  <2>3. CASE ~Over(r)
    <3>1. /\ pages[r] + 1 # MaxPages /\ Goto(r, "ask")
          /\ page' = [page EXCEPT ![r] = [NoPage EXCEPT !.cursor = sync'.scan]]
          /\ pages' = [pages EXCEPT ![r] = @ + 1]
      BY <1>9, <2>3 DEF Persist
    <3>2. [NoPage EXCEPT !.cursor = sync'.scan] \in Pages /\ pages[r] + 1 \in 0..MaxPages - 1
      BY <1>1, <2>1, <3>1
    <3> QED BY <1>9, <2>1, <3>1, <3>2 DEF Persist, TypeOK, sourceVars, senderVars
  <2> QED BY <2>2, <2>3
<1>10. ASSUME NEW r \in Workers, EndRepair(r) PROVE TypeOK'
  <2>1. job' \in Jobs
    BY <1>10 DEF EndRepair, TypeOK, Jobs
  <2> QED BY <1>0, <1>10, <2>1 DEF EndRepair, TypeOK, sourceVars, senderVars
<1>11. ASSUME NEW r \in Repairers, RepairFails(r) PROVE TypeOK'
  BY <1>2, <1>11 DEF RepairFails, Trouble, TypeOK, sourceVars, senderVars, copyVars
<1>12. ASSUME NEW r \in Workers, WorkerStops(r) PROVE TypeOK'
  BY <1>0, <1>1, <1>12 DEF WorkerStops, Trouble, TypeOK, sourceVars, senderVars, copyVars
<1>13. ASSUME JobClaimEnds PROVE TypeOK'
  <2>1. job' \in Jobs /\ troubles' \in 0..MaxTroubles
    <3>1. job \in Jobs /\ job' = [job EXCEPT !.claimed = FALSE]
      BY <1>13 DEF JobClaimEnds, TypeOK
    <3>2. job' \in Jobs
      BY <3>1 DEF Jobs
    <3>3. Trouble \/ UNCHANGED troubles
      BY <1>13 DEF JobClaimEnds
    <3>4. troubles' \in 0..MaxTroubles
      BY <3>3 DEF Trouble, TypeOK
    <3> QED BY <3>2, <3>4
  <2> QED BY <1>13, <2>1 DEF JobClaimEnds, TypeOK, sourceVars, senderVars, repairVars
<1> QED BY <1>4, <1>5, <1>6, <1>7, <1>8, <1>9, <1>10, <1>11, <1>12, <1>13 DEF RepairStep
LEMMA TypeStep == IInv /\ [Next]_vars => TypeOK'
<1> SUFFICES ASSUME IInv, [Next]_vars PROVE TypeOK'
  OBVIOUS
<1>1. CASE Next
  BY <1>1, SourceTypes, RepairTypes DEF Next
<1>2. CASE UNCHANGED vars
  BY <1>2 DEF IInv, TypeOK, vars, sourceVars, senderVars, copyVars, repairVars
<1> QED BY <1>1, <1>2
-----------------------------------------------------------------------------
(* What is stored stays, and what the rows say is stored. *)

LEMMA AcceptFacts ==
  ASSUME IInv, NEW m \in Messages, Accept(m) \/ Ignore
  PROVE  /\ stored \subseteq stored'
         /\ sync'.scan = sync.scan /\ sync'.verified = sync.verified
         /\ Accept(m) => m \in stored'
<1>1. CASE Ignore
  BY <1>1 DEF Ignore, Accept
<1>2. CASE Accept(m)
  <2>1. sync \in Syncs
    BY DEF IInv, TypeOK
  <2>2. /\ stored' = stored \cup {m}
        /\ sync' = [sync EXCEPT !.known = TRUE, !.head = Maximum(@, m)]
    BY <1>2 DEF Accept, Remember
  <2> QED BY <2>1, <2>2 DEF Syncs
<1> QED BY <1>1, <1>2

\* The message a repairer imports next.
LEMMA ImportedIs ==
  ASSUME IInv, NEW r \in Repairers, Import(r)
  PROVE  SetMin(page[r].todo) \in page[r].todo /\ SetMin(page[r].todo) \in Messages
<1>1. page[r].todo \in SUBSET Messages /\ page[r].todo # {}
  BY DEF Import, IInv, TypeOK, Pages
<1> QED BY <1>1, SetMinIs

LEMMA StoredGrows ==
  ASSUME IInv, [Next]_vars
  PROVE  stored \subseteq stored'
<1>1. CASE UNCHANGED vars
  BY <1>1 DEF vars, copyVars
<1>2. ASSUME NEW m \in Messages, HandleLate(m) \/ \E s \in Senders : Send(s, m)
      PROVE  stored \subseteq stored'
  <2>1. Accept(m) \/ Ignore
    BY <1>2 DEF HandleLate, Send
  <2> QED BY <2>1, AcceptFacts
<1>3. ASSUME NEW r \in Repairers, Import(r) PROVE stored \subseteq stored'
  <2>1. Accept(SetMin(page[r].todo)) \/ Ignore
    BY <1>3 DEF Import
  <2> QED BY <1>3, <2>1, ImportedIs, AcceptFacts
<1>4. ASSUME NEW s \in Senders, SendStep(s) PROVE stored \subseteq stored'
  <2>1. todo[s] \in SUBSET Messages
    BY DEF IInv, TypeOK
  <2> QED BY <1>2, <1>4, <2>1 DEF SendStep, Claim, Record, copyVars
<1>5. ASSUME NEW m \in Messages, NEW s \in Senders, LoseCall(s, m) \/ SendHalf(s, m)
      PROVE  stored \subseteq stored'
  BY <1>5 DEF LoseCall, SendHalf
<1>6. ASSUME NEW r \in Repairers, RepairStep(r) PROVE stored \subseteq stored'
  BY <1>3, <1>6 DEF RepairStep, Ask, ReadPage, Persist, copyVars
<1>7. CASE Next
  BY <1>2, <1>4, <1>5, <1>6, <1>7 DEF Next, Post, PostAgain, ClaimEnds, LoseAnswer, SenderStops,
     RepairFails, ClaimJob, EndRepair, WorkerStops, Reconcile, JobClaimEnds, Revoke, copyVars
<1> QED BY <1>1, <1>7

\* A step that only has a row waiting, or takes or ends its claim.
LEMMA WaitingRows ==
  ASSUME IInv, [Next]_vars, UNCHANGED <<sending, call>>,
         \A m \in Messages : /\ delivery'[m].attempts = delivery[m].attempts
                             /\ \/ delivery'[m].state = delivery[m].state
                                \/ delivery[m].state = "none" /\ delivery'[m].state = "pending"
  PROVE  AttemptsLeft' /\ AcceptedIsStored' /\ DeliveredIsStored'
BY StoredGrows DEF IInv, AttemptsLeft, AcceptedIsStored, DeliveredIsStored

LEMMA EnqueuedIs ==
  ASSUME NEW row \in Rows
  PROVE  /\ Enqueued(row).attempts = row.attempts
         /\ \/ Enqueued(row).state = row.state
            \/ row.state = "none" /\ Enqueued(row).state = "pending"
BY DEF Enqueued, Rows

LEMMA RowsStep ==
  ASSUME IInv, [Next]_vars
  PROVE  AttemptsLeft' /\ AcceptedIsStored' /\ DeliveredIsStored'
<1> USE StoredGrows
<1>0. delivery \in [Messages -> Rows] /\ call \in [Senders -> Calls] /\ sending \in [Senders -> Numbers]
  BY DEF IInv, TypeOK
<1>1. ASSUME UNCHANGED <<delivery, sending, call>>
      PROVE  AttemptsLeft' /\ AcceptedIsStored' /\ DeliveredIsStored'
  BY <1>1, WaitingRows
<1>2. ASSUME NEW d \in Devices \cup {None}, NEW endpoint \in BOOLEAN, Post(d, endpoint)
      PROVE  AttemptsLeft' /\ AcceptedIsStored' /\ DeliveredIsStored'
  <2>1. last' \in Messages /\ UNCHANGED <<sending, call>>
    BY <1>2, Parameters DEF Post, IInv, TypeOK, Messages, Numbers, senderVars
  <2>2. UNCHANGED delivery \/ delivery' = [delivery EXCEPT ![last'] = Enqueued(@)]
    BY <1>2 DEF Post
  <2> QED BY <1>0, <2>1, <2>2, EnqueuedIs, WaitingRows
<1>3. ASSUME NEW m \in Messages, PostAgain(m)
      PROVE  AttemptsLeft' /\ AcceptedIsStored' /\ DeliveredIsStored'
  <2>1. UNCHANGED <<sending, call>> /\ delivery' = [delivery EXCEPT ![m] = Enqueued(@)]
    BY <1>3 DEF PostAgain, senderVars
  <2> QED BY <1>0, <2>1, EnqueuedIs, WaitingRows
<1>4. ASSUME NEW m \in Messages, ClaimEnds(m)
      PROVE  AttemptsLeft' /\ AcceptedIsStored' /\ DeliveredIsStored'
  <2>1. UNCHANGED <<sending, call>> /\ delivery' = [delivery EXCEPT ![m].claimed = FALSE]
    BY <1>4 DEF ClaimEnds, senderVars
  <2>2. \A k \in Messages : /\ delivery'[k].attempts = delivery[k].attempts
                            /\ delivery'[k].state = delivery[k].state
    BY <1>0, <2>1 DEF Rows
  <2> QED BY <2>1, <2>2, WaitingRows
<1>5. ASSUME NEW s \in Senders, Claim(s)
      PROVE  AttemptsLeft' /\ AcceptedIsStored' /\ DeliveredIsStored'
  <2>1. PICK rows \in SUBSET Due :
          delivery' = [m \in Messages |-> [delivery[m] EXCEPT !.claimed = @ \/ m \in rows]]
    BY <1>5 DEF Claim
  <2>2. \A k \in Messages : /\ delivery'[k].attempts = delivery[k].attempts
                            /\ delivery'[k].state = delivery[k].state
    BY <1>0, <2>1 DEF Rows
  <2> QED BY <1>5, <2>2, WaitingRows DEF Claim
<1>6. ASSUME NEW s \in Senders, NEW m \in Messages, NEW answer \in Calls, Calling(s, m, answer),
             answer = "accepted" => m \in stored'
      PROVE  AttemptsLeft' /\ AcceptedIsStored' /\ DeliveredIsStored'
  <2>1. /\ UNCHANGED delivery
        /\ sending' = [sending EXCEPT ![s] = m] /\ call' = [call EXCEPT ![s] = answer]
    BY <1>6 DEF Calling, sourceVars
  <2>2. ASSUME NEW c \in Senders, call'[c] = "accepted" PROVE sending'[c] \in stored'
    BY <1>0, <1>6, <2>1, <2>2 DEF IInv, AcceptedIsStored
  <2> QED BY <2>1, <2>2 DEF IInv, AttemptsLeft, AcceptedIsStored, DeliveredIsStored
<1>7. ASSUME NEW s \in Senders, NEW m \in Messages, Send(s, m)
      PROVE  AttemptsLeft' /\ AcceptedIsStored' /\ DeliveredIsStored'
  <2>1. CASE Acceptable(m)
    <3>1. Calling(s, m, "accepted") /\ Accept(m)
      BY <1>7, <2>1 DEF Send
    <3> QED BY <1>6, <3>1, AcceptFacts DEF Calls
  <2>2. CASE ~Acceptable(m)
    <3>1. Calling(s, m, "refused")
      BY <1>7, <2>2 DEF Send
    <3> QED BY <1>6, <3>1 DEF Calls
  <2> QED BY <2>1, <2>2
<1>8. ASSUME NEW s \in Senders, NEW m \in Messages, LoseCall(s, m) \/ SendHalf(s, m)
      PROVE  AttemptsLeft' /\ AcceptedIsStored' /\ DeliveredIsStored'
  <2>1. Calling(s, m, "lost")
    BY <1>8 DEF LoseCall, SendHalf
  <2> QED BY <1>6, <2>1 DEF Calls
<1>9. ASSUME NEW s \in Senders, Record(s)
      PROVE  AttemptsLeft' /\ AcceptedIsStored' /\ DeliveredIsStored'
  <2> DEFINE m == sending[s]
  <2>1. /\ delivery' = [delivery EXCEPT ![m] = Attempted(s, m)]
        /\ sending' = [sending EXCEPT ![s] = None] /\ call' = [call EXCEPT ![s] = "none"]
    BY <1>9 DEF Record
  <2>2. m \in Messages /\ delivery[m] \in Rows /\ seen[s][m] + 1 \in 1..MaximumAttempts
    BY <1>0, <1>9, Parameters DEF Record, IInv, TypeOK
  <2>3. /\ Attempted(s, m).state \in {"none", "pending"} => Attempted(s, m).attempts < MaximumAttempts
        /\ Attempted(s, m).state = "delivered" => m \in stored
    <3>1. Attempted(s, m).attempts = seen[s][m] + 1
      BY <2>2 DEF Attempted, Rows
    <3>2. Attempted(s, m).state \in {"none", "pending"} => seen[s][m] + 1 < MaximumAttempts
      BY <2>2, Parameters DEF Attempted, Rows
    <3>3. Attempted(s, m).state = "delivered" => Confirmed(s) \/ delivery[m].state = "delivered"
      BY <2>2 DEF Attempted, Rows
    <3>4. Confirmed(s) \/ delivery[m].state = "delivered" => m \in stored
      BY <2>2 DEF Confirmed, IInv, AcceptedIsStored, DeliveredIsStored
    <3> QED BY <3>1, <3>2, <3>3, <3>4
  <2>4. \A k \in Messages : k # m => delivery'[k] = delivery[k]
    BY <1>0, <2>1
  <2>5. delivery'[m] = Attempted(s, m)
    BY <1>0, <2>1, <2>2
  <2> HIDE DEF m
  <2>6. AttemptsLeft' /\ DeliveredIsStored'
    BY <2>3, <2>4, <2>5 DEF IInv, AttemptsLeft, DeliveredIsStored
  <2>7. \A c \in Senders : call'[c] = "accepted" => c # s
    BY <1>0, <2>1
  <2>8. AcceptedIsStored'
    BY <1>0, <2>1, <2>7 DEF IInv, AcceptedIsStored
  <2> QED BY <2>6, <2>8
<1>10. ASSUME NEW s \in Senders, LoseAnswer(s) \/ SenderStops(s)
      PROVE  AttemptsLeft' /\ AcceptedIsStored' /\ DeliveredIsStored'
  <2>1. UNCHANGED delivery
    BY <1>10 DEF LoseAnswer, SenderStops, sourceVars
  <2>2. \A c \in Senders : call'[c] = "accepted" => call[c] = "accepted" /\ sending'[c] = sending[c]
    BY <1>0, <1>10 DEF LoseAnswer, SenderStops
  <2> QED BY <2>1, <2>2 DEF IInv, AttemptsLeft, AcceptedIsStored, DeliveredIsStored
<1>11. ASSUME NEW s \in Senders, SendStep(s)
      PROVE  AttemptsLeft' /\ AcceptedIsStored' /\ DeliveredIsStored'
  <2>1. todo[s] \in SUBSET Messages
    BY DEF IInv, TypeOK
  <2> QED BY <1>5, <1>7, <1>9, <1>11, <2>1 DEF SendStep
<1>12. ASSUME \/ \E m \in Messages : HandleLate(m)
              \/ \E r \in Repairers : RepairStep(r) \/ RepairFails(r)
              \/ \E r \in Workers : ClaimJob(r) \/ EndRepair(r) \/ WorkerStops(r)
              \/ \E r \in Users : Reconcile(r)
              \/ JobClaimEnds \/ Revoke \/ UNCHANGED vars
       PROVE  UNCHANGED <<delivery, sending, call>>
  BY <1>12 DEF HandleLate, RepairStep, Ask, ReadPage, Import, Persist, RepairFails, ClaimJob,
     EndRepair, WorkerStops, Reconcile, JobClaimEnds, Revoke, vars, sourceVars, senderVars
<1> QED BY <1>1, <1>2, <1>3, <1>4, <1>8, <1>10, <1>11, <1>12 DEF Next
-----------------------------------------------------------------------------
(* The cursors pass nothing that is not stored. *)

Progress == Numbered /\ CursorComplete /\ \A r \in Repairers : PageComplete(r)

LEMMA NumberTypes ==
  ASSUME IInv
  PROVE  /\ last \in Numbers /\ Numbers \subseteq Nat
         /\ Addressed \subseteq Messages /\ Messages \subseteq Numbers
         /\ sync \in Syncs /\ sync.scan \in Numbers /\ sync.verified \in Numbers /\ sync.head \in Numbers
         /\ \A r \in Repairers : /\ page[r] \in Pages
                                 /\ page[r].cursor \in Numbers /\ page[r].head \in Numbers
                                 /\ page[r].todo \subseteq Messages
<1>1. Numbers \subseteq Nat /\ Messages \subseteq Numbers /\ Addressed \subseteq Messages
  BY Parameters DEF Numbers, Messages, Addressed
<1>2. last \in Numbers /\ sync \in Syncs /\ \A r \in Repairers : page[r] \in Pages
  BY DEF IInv, TypeOK
<1>3. sync.scan \in Numbers /\ sync.verified \in Numbers /\ sync.head \in Numbers
  BY <1>2 DEF Syncs
<1>4. ASSUME NEW r \in Repairers
      PROVE  page[r].cursor \in Numbers /\ page[r].head \in Numbers /\ page[r].todo \subseteq Messages
  BY <1>2 DEF Pages
<1> QED BY <1>1, <1>2, <1>3, <1>4

\* A new message has a number above every cursor.
LEMMA PostProgress ==
  ASSUME IInv, NEW d \in Devices \cup {None}, NEW endpoint \in BOOLEAN, Post(d, endpoint)
  PROVE  Progress'
<1>1. /\ last' = last + 1 /\ last' \in Messages
      /\ device' = [device EXCEPT ![last'] = d]
      /\ UNCHANGED <<stored, sync, pc, page>>
  BY NumberTypes, Parameters DEF Post, copyVars, repairVars, Messages, Numbers
<1>2. ASSUME NEW m \in Addressed' PROVE m \in Addressed \/ m = last'
  BY <1>1 DEF Addressed, IInv, TypeOK
<1>3. Addressed' \subseteq Messages
  BY DEF Addressed, Messages
<1>4. Numbered'
  BY <1>1, <1>2, NumberTypes DEF IInv, Numbered
<1>5. CursorComplete'
  BY <1>1, <1>2, NumberTypes DEF IInv, Numbered, CursorComplete
<1>6. ASSUME NEW r \in Repairers PROVE PageComplete(r)'
  <2>1. PageComplete(r) /\ page[r].cursor <= last /\ page[r].cursor \in Nat /\ last \in Nat
    BY NumberTypes DEF IInv, Numbered
  <2>2. \A m \in Addressed' : m <= page[r].cursor => m \in Addressed
    BY <1>1, <1>2, <2>1
  <2> QED BY <1>1, <2>1, <2>2 DEF PageComplete
<1> QED BY <1>4, <1>5, <1>6 DEF Progress

\* A step that leaves the cursors and the repairs alone.
LEMMA QuietProgress ==
  ASSUME IInv, [Next]_vars, UNCHANGED <<last, device, pc, page>>,
         sync'.scan = sync.scan, sync'.verified = sync.verified
  PROVE  Progress'
<1>1. Addressed' = Addressed
  BY DEF Addressed
<1> QED BY <1>1, StoredGrows DEF IInv, Progress, Numbered, CursorComplete, PageComplete

\* A step of one repair.
LEMMA OneRepair ==
  ASSUME IInv, [Next]_vars, NEW r \in Repairers, UNCHANGED <<last, device>>,
         sync'.scan <= last, CursorComplete',
         \A q \in Repairers : q # r => pc'[q] = pc[q] /\ page'[q] = page[q],
         page'[r].cursor <= last, page'[r].head <= last, PageComplete(r)'
  PROVE  Progress'
<1>1. Addressed' = Addressed
  BY DEF Addressed
<1>2. Numbered'
  BY <1>1 DEF IInv, Numbered
<1>3. ASSUME NEW q \in Repairers, q # r PROVE PageComplete(q)'
  <2>1. PageComplete(q) /\ pc'[q] = pc[q] /\ page'[q] = page[q]
    BY <1>3 DEF IInv
  <2> QED BY <1>1, <2>1, StoredGrows DEF PageComplete
<1> QED BY <1>2, <1>3 DEF Progress

LEMMA SameCursors ==
  ASSUME IInv, [Next]_vars, UNCHANGED <<last, device>>,
         sync'.scan = sync.scan, sync'.verified = sync.verified
  PROVE  sync'.scan <= last /\ CursorComplete'
<1>1. Addressed' = Addressed
  BY DEF Addressed
<1> QED BY <1>1, StoredGrows DEF IInv, Numbered, CursorComplete

\* A repair that is over has passed nothing.
LEMMA OverProgress ==
  ASSUME IInv, [Next]_vars, NEW r \in Repairers, UNCHANGED <<last, device>>,
         sync'.scan <= last, CursorComplete',
         page' = [page EXCEPT ![r] = NoPage],
         pc' = [pc EXCEPT ![r] = "ended"] \/ pc' = [pc EXCEPT ![r] = "idle"]
  PROVE  Progress'
<1>1. /\ pc'[r] \in {"ended", "idle"} /\ page'[r] = NoPage
      /\ \A q \in Repairers : q # r => pc'[q] = pc[q] /\ page'[q] = page[q]
  BY DEF IInv, TypeOK
<1>2. PageComplete(r)'
  BY <1>1 DEF PageComplete
<1>3. page'[r].cursor <= last /\ page'[r].head <= last
  BY <1>1, NumberTypes DEF NoPage
<1> QED BY <1>1, <1>2, <1>3, OneRepair

\* A repair starts at a cursor below which all is stored.
LEMMA BeginProgress ==
  ASSUME IInv, [Next]_vars, NEW r \in Repairers, Begin(r), UNCHANGED <<last, device, stored>>,
         sync'.scan = sync.scan, sync'.verified = sync.verified
  PROVE  Progress'
<1>1. /\ pc'[r] = "ask" /\ page'[r].cursor = sync.scan /\ page'[r].head = page[r].head
      /\ \A q \in Repairers : q # r => pc'[q] = pc[q] /\ page'[q] = page[q]
  BY NumberTypes DEF Begin, Goto, IInv, TypeOK, Pages
<1>2. Addressed' = Addressed
  BY DEF Addressed
<1>3. PageComplete(r)'
  BY <1>1, <1>2 DEF PageComplete, IInv, CursorComplete
<1>4. page'[r].cursor <= last /\ page'[r].head <= last
  BY <1>1 DEF IInv, Numbered
<1> QED BY <1>1, <1>3, <1>4, OneRepair, SameCursors

LEMMA AskProgress ==
  ASSUME IInv, NEW r \in Repairers, Ask(r)
  PROVE  Progress'
<1>0. [Next]_vars
  BY DEF Next, RepairStep
<1>1. /\ UNCHANGED <<last, device, stored, sync>>
      /\ page' = [page EXCEPT ![r].head = SetMax(Addressed)]
      /\ pc[r] = "ask" /\ pc' = [pc EXCEPT ![r] = "read"]
  BY DEF Ask, Goto, sourceVars, copyVars
<1>2. /\ pc'[r] = "read" /\ page'[r].cursor = page[r].cursor /\ page'[r].head = SetMax(Addressed)
      /\ \A q \in Repairers : q # r => pc'[q] = pc[q] /\ page'[q] = page[q]
  BY <1>1, NumberTypes DEF IInv, TypeOK, Pages
<1>3. Addressed' = Addressed
  BY <1>1 DEF Addressed
<1>4. PageComplete(r)'
  BY <1>1, <1>2, <1>3 DEF PageComplete, IInv
<1>5. SetMax(Addressed) <= last
  BY NumberTypes, SetMaxIs DEF IInv, Numbered
<1> QED BY <1>0, <1>1, <1>2, <1>4, <1>5, OneRepair, SameCursors DEF IInv, Numbered

\* The page holds what there is between the old cursor and the new one.
LEMMA ReadProgress ==
  ASSUME IInv, NEW r \in Repairers, ReadPage(r)
  PROVE  Progress'
<1>0. [Next]_vars /\ UNCHANGED <<last, device, stored, sync>> /\ Addressed' = Addressed
  BY DEF Next, RepairStep, ReadPage, sourceVars, copyVars, Addressed
<1>1. CASE ~Valid(r)
  BY <1>0, <1>1, OverProgress, SameCursors DEF ReadPage, Over, Goto
<1>2. CASE Valid(r)
  <2>1. /\ page' = [page EXCEPT ![r].todo = Shown(r), ![r].cursor = Cursor(r), ![r].more = HasMore(r)]
        /\ pc[r] = "read" /\ pc' = [pc EXCEPT ![r] = "import"]
    BY <1>2 DEF ReadPage, Goto
  <2>2. /\ pc'[r] = "import" /\ page'[r].todo = Shown(r) /\ page'[r].cursor = Cursor(r)
        /\ page'[r].head = page[r].head /\ page'[r].more = HasMore(r)
        /\ \A q \in Repairers : q # r => pc'[q] = pc[q] /\ page'[q] = page[q]
    BY <2>1, NumberTypes DEF IInv, TypeOK, Pages
  <2>3. /\ Shown(r) \subseteq Addressed /\ Cursor(r) \in Numbers
        /\ Shown(r) # {} => Cursor(r) \in Shown(r)
        /\ \A m \in Shown(r) : m <= Cursor(r)
    BY CursorIs DEF IInv
  <2>4. Cursor(r) <= last /\ page[r].head <= last
    <3>1. page[r].head <= last /\ \A m \in Addressed : m <= last
      BY DEF IInv, Numbered
    <3>2. CASE Shown(r) = {}
      BY <3>1, <3>2 DEF Cursor
    <3> QED BY <2>3, <3>1, <3>2
  <2>5. ASSUME NEW m \in Addressed, m <= Cursor(r) PROVE m \in stored \cup Shown(r)
    <3>1. CASE m <= page[r].cursor
      BY <2>1, <3>1 DEF IInv, PageComplete
    <3>2. CASE ~(m <= page[r].cursor)
      <4>1. m \in After(r)
        BY <3>2, NumberTypes DEF After
      <4>2. Shown(r) # {}
        BY <1>2, <4>1 DEF Valid, HasMore
      <4> QED BY <2>3, <2>5, <4>1, <4>2, ShownIsPrefix DEF IInv
    <3> QED BY <3>1, <3>2
  <2>6. ~HasMore(r) => page[r].head <= Cursor(r)
    <3> SUFFICES ASSUME ~HasMore(r) PROVE page[r].head <= Cursor(r)
      OBVIOUS
    <3>1. page[r].head \in Nat /\ page[r].cursor \in Numbers /\ Shown(r) \subseteq Numbers
      BY <2>3, NumberTypes
    <3>2. CASE Shown(r) = {}
      BY <3>1, <3>2 DEF Cursor
    <3>3. CASE Shown(r) # {}
      <4> DEFINE top == SetMax(Shown(r) \cup {page[r].cursor})
      <4>1. top \in Shown(r) \cup {page[r].cursor} \cup {0}
        BY <3>1, SetMaxIs
      <4>2. top >= page[r].head
        BY <1>2 DEF Valid
      <4>3. Cursor(r) \in Shown(r) /\ Cursor(r) > page[r].cursor /\ Cursor(r) \in Nat
        BY <2>3, <3>3, NumberTypes DEF Shown, After
      <4> HIDE DEF top
      <4>4. top <= Cursor(r) /\ top \in Nat
        BY <2>3, <3>1, <4>1, <4>3, NumberTypes
      <4> QED BY <3>1, <4>2, <4>3, <4>4
    <3> QED BY <3>2, <3>3
  <2>7. PageComplete(r)'
    BY <1>0, <2>2, <2>5, <2>6 DEF PageComplete
  <2> QED BY <1>0, <2>2, <2>4, <2>7, OneRepair, SameCursors
<1> QED BY <1>1, <1>2

LEMMA ImportProgress ==
  ASSUME IInv, NEW r \in Repairers, Import(r)
  PROVE  Progress'
<1> DEFINE m == SetMin(page[r].todo)
<1>0. [Next]_vars /\ UNCHANGED <<last, device>> /\ Addressed' = Addressed
  BY DEF Next, RepairStep, Import, sourceVars, Addressed
<1>1. m \in Messages /\ pc[r] = "import"
  BY ImportedIs DEF Import
<1>2. sync'.scan = sync.scan /\ sync'.verified = sync.verified
  BY <1>1, AcceptFacts DEF Import
<1>3. CASE Acceptable(m)
  <2>1. /\ Accept(m) /\ UNCHANGED pc
        /\ page' = [page EXCEPT ![r].todo = @ \ {m}]
    BY <1>3 DEF Import
  <2>2. m \in stored' /\ stored \subseteq stored'
    BY <1>1, <2>1, AcceptFacts
  <2> HIDE DEF m
  <2>3. /\ page'[r].todo = page[r].todo \ {m} /\ page'[r].cursor = page[r].cursor
        /\ page'[r].head = page[r].head /\ page'[r].more = page[r].more
        /\ \A q \in Repairers : q # r => page'[q] = page[q]
    BY <2>1, NumberTypes DEF IInv, TypeOK, Pages
  <2>4. PageComplete(r)'
    BY <1>0, <1>1, <2>1, <2>2, <2>3 DEF PageComplete, IInv
  <2> QED BY <1>0, <1>2, <2>1, <2>3, <2>4, OneRepair, SameCursors DEF IInv, Numbered
<1>4. CASE ~Acceptable(m)
  BY <1>0, <1>2, <1>4, OverProgress, SameCursors DEF Import, Over, Goto
<1> QED BY <1>3, <1>4

\* All of the page is stored when the cursor is saved.
LEMMA PersistProgress ==
  ASSUME IInv, NEW r \in Repairers, Persist(r)
  PROVE  Progress' /\ sync'.scan >= sync.scan /\ sync'.verified >= sync.verified
<1>0. [Next]_vars /\ UNCHANGED <<last, device, stored>> /\ Addressed' = Addressed
  BY DEF Next, RepairStep, Persist, sourceVars, Addressed
<1>1. /\ pc[r] = "import" /\ page[r].todo = {} /\ sync' = Advanced(r)
  BY DEF Persist
<1>2. /\ sync'.scan = Maximum(sync.scan, page[r].cursor)
      /\ sync'.verified = IF page[r].more THEN sync.verified ELSE Maximum(sync.verified, page[r].head)
  BY <1>1, NumberTypes DEF Advanced, Syncs
<1>3. /\ sync.scan \in Nat /\ sync.verified \in Nat /\ page[r].cursor \in Nat /\ page[r].head \in Nat
      /\ sync.verified <= sync.scan /\ sync.scan <= last /\ page[r].cursor <= last /\ last \in Nat
  BY NumberTypes DEF IInv, CursorComplete, Numbered
<1>4. /\ \A m \in Addressed : m <= page[r].cursor => m \in stored
      /\ ~page[r].more => page[r].head <= page[r].cursor
  BY <1>1 DEF IInv, PageComplete
<1>5. /\ sync'.scan >= sync.scan /\ sync'.verified >= sync.verified
      /\ sync'.verified <= sync'.scan /\ sync'.scan <= last /\ sync'.scan \in Nat
  BY <1>2, <1>3, <1>4 DEF Maximum
<1>6. CursorComplete'
  <2>1. sync'.scan \in {sync.scan, page[r].cursor}
    BY <1>2 DEF Maximum
  <2> QED BY <1>0, <1>4, <1>5, <2>1 DEF CursorComplete, IInv
<1>7. CASE Over(r)
  BY <1>0, <1>5, <1>6, <1>7, OverProgress DEF Over, Goto
<1>8. CASE ~Over(r)
  <2>1. /\ pc' = [pc EXCEPT ![r] = "ask"]
        /\ page' = [page EXCEPT ![r] = [NoPage EXCEPT !.cursor = sync'.scan]]
    BY <1>8 DEF Persist, Goto
  <2>2. /\ pc'[r] = "ask" /\ page'[r].cursor = sync'.scan /\ page'[r].head = 0
        /\ \A q \in Repairers : q # r => pc'[q] = pc[q] /\ page'[q] = page[q]
    BY <2>1 DEF IInv, TypeOK, NoPage
  <2>3. PageComplete(r)'
    BY <1>6, <2>2 DEF PageComplete, CursorComplete
  <2> QED BY <1>0, <1>3, <1>5, <1>6, <2>2, <2>3, OneRepair
<1> QED BY <1>5, <1>7, <1>8

\* Every step but Persist leaves the cursors alone.
LEMMA CursorsKept ==
  ASSUME IInv, [Next]_vars, ~\E r \in Repairers : Persist(r)
  PROVE  sync'.scan = sync.scan /\ sync'.verified = sync.verified
<1>1. CASE UNCHANGED sync
  BY <1>1
<1>2. ASSUME NEW m \in Messages, HandleLate(m) \/ \E s \in Senders : Send(s, m)
      PROVE  sync'.scan = sync.scan /\ sync'.verified = sync.verified
  <2>1. Accept(m) \/ Ignore
    BY <1>2 DEF HandleLate, Send
  <2> QED BY <2>1, AcceptFacts
<1>3. ASSUME NEW r \in Repairers, Import(r)
      PROVE  sync'.scan = sync.scan /\ sync'.verified = sync.verified
  <2>1. Accept(SetMin(page[r].todo)) \/ Ignore
    BY <1>3 DEF Import
  <2> QED BY <1>3, <2>1, ImportedIs, AcceptFacts
<1>4. ASSUME NEW r \in Users, Reconcile(r)
      PROVE  sync'.scan = sync.scan /\ sync'.verified = sync.verified
  BY <1>4, NumberTypes DEF Reconcile, Syncs
<1>5. ASSUME NEW s \in Senders, SendStep(s)
      PROVE  sync'.scan = sync.scan /\ sync'.verified = sync.verified
  <2>1. todo[s] \in SUBSET Messages
    BY DEF IInv, TypeOK
  <2> QED BY <1>1, <1>2, <1>5, <2>1 DEF SendStep, Claim, Record, copyVars
<1>6. ASSUME NEW r \in Repairers, RepairStep(r)
      PROVE  sync'.scan = sync.scan /\ sync'.verified = sync.verified
  BY <1>3, <1>6 DEF RepairStep, Ask, ReadPage, copyVars
<1>7. CASE Next
  BY <1>2, <1>4, <1>5, <1>6, <1>7 DEF Next, Post, PostAgain, ClaimEnds, LoseAnswer, SenderStops,
     LoseCall, SendHalf, RepairFails, ClaimJob, EndRepair, WorkerStops, JobClaimEnds, Revoke, copyVars
<1> QED BY <1>1, <1>7 DEF vars, copyVars

LEMMA ProgressStep ==
  ASSUME IInv, [Next]_vars
  PROVE  Progress'
<1>0. Workers \subseteq Repairers /\ Users \subseteq Repairers
  BY DEF Repairers
<1>1. CASE \E d \in Devices \cup {None}, endpoint \in BOOLEAN : Post(d, endpoint)
  BY <1>1, PostProgress
<1>2. CASE \E r \in Repairers : Persist(r)
  BY <1>2, PersistProgress
<1>3. CASE \E r \in Repairers : Ask(r) \/ ReadPage(r) \/ Import(r)
  BY <1>3, AskProgress, ReadProgress, ImportProgress
<1>4. CASE ~\E r \in Repairers : Persist(r)
  <2>1. sync'.scan = sync.scan /\ sync'.verified = sync.verified
    BY <1>4, CursorsKept
  <2>2. ASSUME UNCHANGED <<last, device, pc, page>> PROVE Progress'
    BY <2>1, <2>2, QuietProgress
  <2>3. ASSUME \/ \E m \in Messages : PostAgain(m) \/ ClaimEnds(m) \/ HandleLate(m)
               \/ \E s \in Senders : LoseAnswer(s) \/ SenderStops(s)
               \/ \E s \in Senders, m \in Messages : LoseCall(s, m) \/ SendHalf(s, m)
               \/ JobClaimEnds \/ Revoke \/ UNCHANGED vars
        PROVE  UNCHANGED <<last, device, pc, page>>
    BY <2>3 DEF PostAgain, ClaimEnds, HandleLate, LoseAnswer, SenderStops, LoseCall, SendHalf,
       Calling, JobClaimEnds, Revoke, vars, sourceVars, repairVars
  <2>4. ASSUME NEW s \in Senders, SendStep(s) PROVE UNCHANGED <<last, device, pc, page>>
    BY <2>4 DEF SendStep, Claim, Send, Record, Calling, sourceVars, repairVars
  <2>5. ASSUME NEW r \in Repairers, RepairFails(r) PROVE Progress'
    BY <2>1, <2>5, OverProgress, SameCursors DEF RepairFails, Over, Goto, sourceVars
  <2>6. ASSUME NEW r \in Workers, WorkerStops(r) PROVE Progress'
    BY <1>0, <2>1, <2>6, OverProgress, SameCursors DEF WorkerStops, Goto, sourceVars
  <2>7. ASSUME NEW r \in Workers, EndRepair(r) PROVE Progress'
    <3>1. /\ UNCHANGED <<last, device, page>> /\ pc' = [pc EXCEPT ![r] = "idle"]
      BY <2>7 DEF EndRepair, Goto, sourceVars
    <3>2. /\ pc'[r] = "idle" /\ \A q \in Repairers : q # r => pc'[q] = pc[q] /\ page'[q] = page[q]
      BY <1>0, <3>1 DEF IInv, TypeOK
    <3>3. PageComplete(r)'
      BY <3>2 DEF PageComplete
    <3> QED BY <1>0, <2>1, <3>1, <3>2, <3>3, OneRepair, SameCursors DEF IInv, Numbered
  <2>8. ASSUME NEW r \in Workers, ClaimJob(r) PROVE Progress'
    BY <1>0, <2>1, <2>8, BeginProgress DEF ClaimJob, sourceVars
  <2>9. ASSUME NEW r \in Users, Reconcile(r) PROVE Progress'
    BY <1>0, <2>1, <2>9, BeginProgress DEF Reconcile, sourceVars
  <2> QED BY <1>1, <1>3, <1>4, <2>2, <2>3, <2>4, <2>5, <2>6, <2>7, <2>8, <2>9 DEF Next, RepairStep
<1> QED BY <1>2, <1>4

-----------------------------------------------------------------------------
(* The theorems. *)

\* The invariant is inductive.
THEOREM Invariance == Spec => []IInv
<1>1. Init => IInv
  BY InitIInv
<1>2. IInv /\ [Next]_vars => IInv'
  BY TypeStep, RowsStep, ProgressStep DEF IInv, Progress
<1> QED BY <1>1, <1>2, PTL DEF Spec

\* Every variable of the two nodes keeps its type (models.ts).
THEOREM TypeCorrect == Spec => []TypeOK
<1>1. IInv => TypeOK
  BY DEF IInv
<1> QED BY <1>1, Invariance, PTL

\* The recipient's node has every message below its cursor, however many
\* repairs run at once and whatever is lost (persistChatSyncProgress).
THEOREM CursorIsComplete == Spec => []CursorComplete
<1>1. IInv => CursorComplete
  BY DEF IInv
<1> QED BY <1>1, Invariance, PTL

\* A message that is reported as delivered is stored at the recipient's node
\* (processChatDelivery).
THEOREM DeliveredAreStored == Spec => []DeliveredIsStored
<1>1. IInv => DeliveredIsStored
  BY DEF IInv
<1> QED BY <1>1, Invariance, PTL

\* No repair takes back the progress of another (persistChatSyncProgress).
THEOREM CursorsOnlyGrow == Spec => CursorsGrow
<1>1. IInv /\ [Next]_vars => [sync'.scan >= sync.scan /\ sync'.verified >= sync.verified]_sync
  <2> SUFFICES ASSUME IInv, [Next]_vars
               PROVE  sync'.scan >= sync.scan /\ sync'.verified >= sync.verified
    OBVIOUS
  <2>1. CASE \E r \in Repairers : Persist(r)
    BY <2>1, PersistProgress
  <2>2. CASE ~\E r \in Repairers : Persist(r)
    BY <2>2, CursorsKept, NumberTypes
  <2> QED BY <2>1, <2>2
<1> QED BY <1>1, Invariance, PTL DEF Spec, CursorsGrow

-----------------------------------------------------------------------------
(* The two nodes implement MessageLog. *)

\* Neither node's part of the log changes.
Unseen ==
    /\ UNCHANGED <<device, stored>> /\ sync'.scan = sync.scan
    /\ \A m \in Messages : delivery'[m].state = "delivered" <=> delivery[m].state = "delivered"

LEMMA UnseenStutters ==
  ASSUME Unseen
  PROVE  UNCHANGED Log!vars
<1>1. Addressed' = Addressed /\ Delivered' = Delivered
  BY DEF Unseen, Addressed, Delivered
<1> QED BY <1>1 DEF Unseen, Log!vars

\* A new message is numbered after what the recipient has looked for.
LEMMA PostPosts ==
  ASSUME IInv, NEW d \in Devices \cup {None}, NEW endpoint \in BOOLEAN, Post(d, endpoint)
  PROVE  [Log!Next]_(Log!vars)
<1>1. PICK n \in Messages : n = last + 1 /\ last' = n
  BY NumberTypes, Parameters DEF Post, Messages, Numbers
<1>2. /\ device' = [device EXCEPT ![n] = d] /\ UNCHANGED <<stored, sync>>
      /\ device \in [Messages -> Devices \cup {None}] /\ delivery \in [Messages -> Rows]
  BY <1>1 DEF Post, copyVars, IInv, TypeOK
<1>3. n \notin Addressed /\ n > sync.scan /\ \A k \in Addressed : n > k
  <2>1. last \in Nat /\ sync.scan \in Nat /\ sync.scan <= last
    BY NumberTypes DEF IInv, Numbered
  <2>2. \A k \in Addressed : k \in Nat /\ k <= last
    BY NumberTypes DEF IInv, Numbered
  <2> QED BY <1>1, <2>1, <2>2
<1>4. Delivered' = Delivered
  <2>1. UNCHANGED delivery \/ delivery' = [delivery EXCEPT ![n] = Enqueued(@)]
    BY <1>1 DEF Post
  <2>2. \A m \in Messages : delivery'[m].state = "delivered" <=> delivery[m].state = "delivered"
    BY <1>2, <2>1, EnqueuedIs
  <2> QED BY <2>2 DEF Delivered
<1>5. CASE d # None
  <2>1. Addressed' = Addressed \cup {n}
    BY <1>2, <1>5 DEF Addressed
  <2>2. Log!Post(n)
    BY <1>2, <1>3, <1>4, <2>1 DEF Log!Post
  <2> QED BY <2>2 DEF Log!Next
<1>6. CASE d = None
  <2>1. Addressed' = Addressed
    BY <1>2, <1>3, <1>6 DEF Addressed
  <2> QED BY <1>2, <1>4, <2>1 DEF Log!vars
<1> QED BY <1>5, <1>6

\* Only a message for the recipient's own device is stored.
LEMMA StoringGets ==
  ASSUME IInv, NEW m \in Messages, UNCHANGED <<device, delivery>>,
         \/ Acceptable(m) /\ Accept(m)
         \/ Acceptable(m) /\ stored' = stored \cup {m} /\ UNCHANGED sync
         \/ Ignore
  PROVE  [Log!Next]_(Log!vars)
<1>1. Addressed' = Addressed /\ Delivered' = Delivered
  BY DEF Addressed, Delivered
<1>2. CASE Ignore
  BY <1>1, <1>2 DEF Ignore, Log!vars
<1>3. CASE Acceptable(m) /\ stored' = stored \cup {m} /\ sync'.scan = sync.scan
  <2>1. m \in Addressed
    BY <1>3, Parameters DEF Acceptable, Addressed, None, Devices, IInv, TypeOK
  <2>2. Log!Get(m)
    BY <1>1, <1>3, <2>1 DEF Log!Get
  <2> QED BY <2>2 DEF Log!Next
<1>4. CASE Acceptable(m) /\ Accept(m)
  <2>1. stored' = stored \cup {m} /\ sync'.scan = sync.scan
    BY <1>4, AcceptFacts DEF Accept
  <2> QED BY <1>3, <1>4, <2>1
<1> QED BY <1>2, <1>3, <1>4

\* A row is written by its id: it becomes delivered only by a sender that was told.
LEMMA RecordTells ==
  ASSUME IInv, NEW s \in Senders, Record(s)
  PROVE  [Log!Next]_(Log!vars)
<1>1. PICK m \in Messages : m = sending[s]
  BY DEF Record, IInv, TypeOK
<1>2. /\ delivery \in [Messages -> Rows] /\ delivery[m] \in Rows
      /\ delivery' = [delivery EXCEPT ![m] = Attempted(s, m)]
      /\ UNCHANGED <<device, stored, sync>>
  BY <1>1 DEF IInv, TypeOK, Record, copyVars
<1>3. Attempted(s, m).state = "delivered" => m \in stored
  <2>1. Attempted(s, m).state = "delivered" => Confirmed(s) \/ delivery[m].state = "delivered"
    BY <1>2 DEF Attempted, Rows
  <2> QED BY <1>1, <2>1 DEF Confirmed, IInv, AcceptedIsStored, DeliveredIsStored
<1>4. delivery'[m] = Attempted(s, m) /\ \A k \in Messages : k # m => delivery'[k] = delivery[k]
  BY <1>2
<1>5. Addressed' = Addressed
  BY <1>2 DEF Addressed
<1>6. CASE m \in stored
  <2>1. Delivered' \in {Delivered \cup {m}, Delivered \ {m}}
    BY <1>4 DEF Delivered
  <2>2. Log!Tell(m)
    BY <1>2, <1>5, <1>6, <2>1 DEF Log!Tell
  <2> QED BY <2>2 DEF Log!Next
<1>7. CASE m \notin stored
  <2>1. Unseen
    BY <1>2, <1>3, <1>4, <1>7 DEF Unseen, IInv, DeliveredIsStored
  <2> QED BY <2>1, UnseenStutters
<1> QED BY <1>6, <1>7

\* The cursor passes what is stored.
LEMMA PersistPasses ==
  ASSUME IInv, NEW r \in Repairers, Persist(r)
  PROVE  [Log!Next]_(Log!vars)
<1>1. /\ UNCHANGED <<last, device, delivery, stored>> /\ [Next]_vars
  BY DEF Persist, sourceVars, Next, RepairStep
<1>2. Addressed' = Addressed /\ Delivered' = Delivered
  BY <1>1 DEF Addressed, Delivered
<1>3. Progress' /\ sync'.scan >= sync.scan /\ TypeOK'
  BY <1>1, PersistProgress, TypeStep
<1>4. sync.scan \in Nat /\ sync'.scan \in Numbers
  BY <1>3, NumberTypes DEF TypeOK, Syncs
<1>5. \A m \in Addressed : m <= sync'.scan => m \in stored
  BY <1>1, <1>2, <1>3 DEF Progress, CursorComplete
<1>6. CASE sync'.scan = sync.scan
  BY <1>1, <1>2, <1>6 DEF Log!vars
<1>7. CASE sync'.scan # sync.scan
  <2>1. sync'.scan \in Messages /\ sync'.scan > sync.scan
    BY <1>3, <1>4, <1>7, Parameters DEF Numbers, Messages
  <2>2. Log!Pass(sync'.scan)
    BY <1>1, <1>2, <1>5, <2>1 DEF Log!Pass
  <2> QED BY <2>1, <2>2 DEF Log!Next
<1> QED BY <1>6, <1>7

\* A claim writes no state.
LEMMA ClaimUnseen ==
  ASSUME delivery \in [Messages -> Rows], NEW s \in Senders, Claim(s)
  PROVE  Unseen
<1>1. PICK rows \in SUBSET Due :
        delivery' = [m \in Messages |-> [delivery[m] EXCEPT !.claimed = @ \/ m \in rows]]
  BY DEF Claim
<1>2. \A k \in Messages : delivery'[k].state = delivery[k].state
  BY <1>1 DEF Rows
<1> QED BY <1>2 DEF Claim, copyVars, Unseen

\* Claims, questions, answers and ends of repairs are not seen.
LEMMA OthersUnseen ==
  ASSUME IInv,
         \/ \E m \in Messages : PostAgain(m) \/ ClaimEnds(m)
         \/ \E s \in Senders : Claim(s) \/ LoseAnswer(s) \/ SenderStops(s)
         \/ \E s \in Senders, m \in Messages : LoseCall(s, m)
         \/ \E r \in Repairers : Ask(r) \/ ReadPage(r) \/ RepairFails(r)
         \/ \E r \in Workers : ClaimJob(r) \/ EndRepair(r) \/ WorkerStops(r)
         \/ \E r \in Users : Reconcile(r)
         \/ JobClaimEnds \/ Revoke \/ UNCHANGED vars
  PROVE  Unseen
<1>1. delivery \in [Messages -> Rows] /\ sync \in Syncs
  BY DEF IInv, TypeOK
<1>2. ASSUME NEW m \in Messages, PostAgain(m) PROVE Unseen
  <2>1. UNCHANGED <<device, stored, sync>> /\ delivery' = [delivery EXCEPT ![m] = Enqueued(@)]
    BY <1>2 DEF PostAgain, copyVars
  <2> QED BY <1>1, <2>1, EnqueuedIs DEF Unseen
<1>3. ASSUME NEW m \in Messages, ClaimEnds(m) PROVE Unseen
  BY <1>1, <1>3 DEF ClaimEnds, copyVars, Unseen, Rows
<1>4. ASSUME NEW s \in Senders, Claim(s) PROVE Unseen
  BY <1>1, <1>4, ClaimUnseen
<1>5. ASSUME NEW r \in Users, Reconcile(r) PROVE Unseen
  BY <1>1, <1>5 DEF Reconcile, sourceVars, Unseen, Syncs
<1>6. ASSUME UNCHANGED <<device, delivery, stored, sync>> PROVE Unseen
  BY <1>6 DEF Unseen
<1>7. ASSUME NEW s \in Senders, LoseAnswer(s) \/ SenderStops(s) PROVE Unseen
  BY <1>6, <1>7 DEF LoseAnswer, SenderStops, sourceVars, copyVars
<1>8. ASSUME NEW s \in Senders, NEW m \in Messages, LoseCall(s, m) PROVE Unseen
  BY <1>6, <1>8 DEF LoseCall, Calling, sourceVars, copyVars
<1>9. ASSUME NEW r \in Repairers, Ask(r) \/ ReadPage(r) \/ RepairFails(r) PROVE Unseen
  <2>1. CASE Ask(r)
    BY <1>6, <2>1 DEF Ask, sourceVars, copyVars
  <2>2. CASE ReadPage(r)
    <3>1. UNCHANGED <<sourceVars, senderVars, copyVars, troubles>>
      BY <2>2, Zenon DEF ReadPage
    <3> QED BY <1>6, <3>1 DEF sourceVars, copyVars
  <2>3. CASE RepairFails(r)
    BY <1>6, <2>3 DEF RepairFails, sourceVars, copyVars
  <2> QED BY <1>9, <2>1, <2>2, <2>3
<1>10. ASSUME NEW r \in Workers, ClaimJob(r) \/ EndRepair(r) \/ WorkerStops(r) PROVE Unseen
  <2>1. CASE ClaimJob(r)
    BY <1>6, <2>1 DEF ClaimJob, sourceVars, copyVars
  <2>2. CASE EndRepair(r)
    BY <1>6, <2>2 DEF EndRepair, sourceVars, copyVars
  <2>3. CASE WorkerStops(r)
    BY <1>6, <2>3 DEF WorkerStops, sourceVars, copyVars
  <2> QED BY <1>10, <2>1, <2>2, <2>3
<1>11. CASE JobClaimEnds \/ Revoke \/ UNCHANGED vars
  BY <1>6, <1>11 DEF JobClaimEnds, Revoke, vars, sourceVars, copyVars
<1> QED BY <1>2, <1>3, <1>4, <1>5, <1>7, <1>8, <1>9, <1>10, <1>11

\* Nothing up to the cursor is missing.
NoneMissing == \A m \in Addressed : m <= sync.scan => m \in stored

\* What the log says of its ends.
LogKeeps ==
    /\ Delivered \subseteq stored /\ stored \subseteq Addressed
    /\ sync.scan \in Int /\ NoneMissing

\* Whatever implements the log reports only what is stored, and its cursor passes only
\* what is stored (processChatDelivery, persistChatSyncProgress): KeepsLog says both.
THEOREM LogKeepsItsWord == KeepsLog => [](DeliveredIsStored /\ NoneMissing)
<1>1. Log!Init => LogKeeps
  BY DEF Log!Init, LogKeeps, NoneMissing
<1>2. ASSUME LogKeeps, [Log!Next]_(Log!vars) PROVE LogKeeps'
  <2>1. Messages \subseteq Int
    BY Parameters DEF Messages
  <2>2. CASE UNCHANGED Log!vars
    BY <1>2, <2>2 DEF Log!vars, LogKeeps, NoneMissing
  <2>3. ASSUME NEW m \in Messages, Log!Post(m) PROVE LogKeeps'
    BY <1>2, <2>1, <2>3 DEF Log!Post, LogKeeps, NoneMissing
  <2>4. ASSUME NEW m \in Messages, Log!Get(m) PROVE LogKeeps'
    BY <1>2, <2>4 DEF Log!Get, LogKeeps, NoneMissing
  <2>5. ASSUME NEW m \in Messages, Log!Tell(m) PROVE LogKeeps'
    BY <1>2, <2>5 DEF Log!Tell, LogKeeps, NoneMissing
  <2>6. ASSUME NEW m \in Messages, Log!Pass(m) PROVE LogKeeps'
    BY <1>2, <2>1, <2>6 DEF Log!Pass, LogKeeps, NoneMissing
  <2> QED BY <1>2, <2>2, <2>3, <2>4, <2>5, <2>6 DEF Log!Next
<1>3. LogKeeps => DeliveredIsStored /\ NoneMissing
  BY DEF LogKeeps, Delivered, DeliveredIsStored
<1> QED BY <1>1, <1>2, <1>3, PTL DEF KeepsLog, Log!Spec

\* The two nodes implement the log (KeepsLog): a call or a repair that gets through
\* stores what was posted, the end of a call tells, a page passes the cursor.
THEOREM Refinement == Spec => KeepsLog
<1>1. Init => Log!Init
  BY DEF Init, Log!Init, Addressed, Delivered
<1>2. ASSUME IInv, [Next]_vars PROVE [Log!Next]_(Log!vars)
  <2>1. ASSUME NEW d \in Devices \cup {None}, NEW endpoint \in BOOLEAN, Post(d, endpoint)
        PROVE  [Log!Next]_(Log!vars)
    BY <1>2, <2>1, PostPosts
  <2>2. ASSUME NEW r \in Repairers, Persist(r) PROVE [Log!Next]_(Log!vars)
    BY <1>2, <2>2, PersistPasses
  <2>3. ASSUME NEW r \in Repairers, Import(r) PROVE [Log!Next]_(Log!vars)
    <3>1. PICK m \in Messages : m = SetMin(page[r].todo)
      BY <1>2, <2>3, ImportedIs
    <3>2. UNCHANGED <<device, delivery>> /\ ((Acceptable(m) /\ Accept(m)) \/ Ignore)
      BY <2>3, <3>1 DEF Import, sourceVars
    <3> QED BY <1>2, <3>2, StoringGets
  <2>4. ASSUME NEW s \in Senders, NEW m \in Messages, Send(s, m) \/ SendHalf(s, m)
        PROVE  [Log!Next]_(Log!vars)
    <3>1. UNCHANGED <<device, delivery>>
      BY <2>4 DEF Send, SendHalf, Calling, sourceVars
    <3>2. \/ Acceptable(m) /\ Accept(m)
          \/ Acceptable(m) /\ stored' = stored \cup {m} /\ UNCHANGED sync
          \/ Ignore
      BY <2>4 DEF Send, SendHalf
    <3> QED BY <1>2, <3>1, <3>2, StoringGets
  <2>5. ASSUME NEW m \in Messages, HandleLate(m) PROVE [Log!Next]_(Log!vars)
    <3>1. UNCHANGED <<device, delivery>> /\ ((Acceptable(m) /\ Accept(m)) \/ Ignore)
      BY <2>5 DEF HandleLate, sourceVars
    <3> QED BY <1>2, <3>1, StoringGets
  <2>6. ASSUME NEW s \in Senders, Record(s) PROVE [Log!Next]_(Log!vars)
    BY <1>2, <2>6, RecordTells
  <2>7. \A s \in Senders : todo[s] \subseteq Messages
    BY <1>2 DEF IInv, TypeOK
  <2>8. ASSUME Unseen PROVE [Log!Next]_(Log!vars)
    BY <2>8, UnseenStutters
  <2> QED BY <1>2, <2>1, <2>2, <2>3, <2>4, <2>5, <2>6, <2>7, <2>8, OthersUnseen
          DEF Next, SendStep, RepairStep
<1> QED BY <1>1, <1>2, Invariance, PTL DEF Spec, KeepsLog, Log!Spec
=============================================================================
