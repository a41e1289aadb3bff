---------------------------- MODULE RenderLedger ----------------------------
(***************************************************************************)
(* What the render queue promises those who ask for a site: each request   *)
(* is answered with one site, rendered for that request, and keeps that    *)
(* answer, however often its render is begun again.                        *)
(***************************************************************************)
EXTENDS Naturals

CONSTANTS Requests, Renders, NoRequest

VARIABLES
    asked,      \* the requests that were made
    owner,      \* the request a render was begun for
    answer      \* the render each request is answered with: none or one

vars == <<asked, owner, answer>>

Ask(r) == asked' = asked \cup {r} /\ UNCHANGED <<owner, answer>>

Begins(o, r) ==
    /\ owner[o] = NoRequest /\ r \in asked
    /\ owner' = [owner EXCEPT ![o] = r]

Answers(r) ==
    /\ answer[r] = {}
    /\ \E o \in Renders : owner[o] = r /\ answer' = [answer EXCEPT ![r] = {o}]

Begin(o, r) == Begins(o, r) /\ UNCHANGED <<asked, answer>>

Answer(r) == Answers(r) /\ UNCHANGED <<asked, owner>>

\* A render is begun for a request that an earlier one answers.
Adopt(o, r) == Begins(o, r) /\ Answers(r) /\ UNCHANGED asked

\* Some requests may be older than the ledger.
Init ==
    /\ asked \subseteq Requests
    /\ owner = [o \in Renders |-> NoRequest]
    /\ answer = [r \in Requests |-> {}]

Next ==
    \E r \in Requests :
       Ask(r) \/ Answer(r) \/ \E o \in Renders : Begin(o, r) \/ Adopt(o, r)

Spec == Init /\ [][Next]_vars
=============================================================================
