---------------------------- MODULE RevisionLine ----------------------------
(***************************************************************************)
(* What a composition promises its clients: it is one line of edits that   *)
(* grows by compare-and-swap.  An operation is asked for one edit, and     *)
(* asked for it again in the same words only.  The edit is added when the  *)
(* line is what the operation is to revise, before the operation is        *)
(* answered and never after; and an answer, given once, is a revision the  *)
(* line has and keeps, with the edit in its place.                         *)
(***************************************************************************)
EXTENDS Naturals, Sequences

CONSTANTS Ops, Edits            \* o.target: the revision that operation o is to revise

VARIABLES
    line,       \* the edits made so far
    asked,      \* what each operation is to add: empty until it is known
    answer      \* the revision it was answered with, empty before

vars == <<line, asked, answer>>

Init ==
    /\ line = <<>>
    /\ asked = [o \in Ops |-> {}] /\ answer = [o \in Ops |-> <<>>]

Admit(o, e) ==
    /\ asked[o] = {}
    /\ asked' = [asked EXCEPT ![o] = {e}]
    /\ UNCHANGED <<line, answer>>

Commit(o) ==
    /\ line = o.target /\ answer[o] = <<>>
    /\ \E e \in asked[o] : line' = Append(line, e)
    /\ UNCHANGED <<asked, answer>>

\* A creation is also answered with a later revision of what it asked for.
Answer(o) ==
    /\ answer[o] = <<>>
    /\ \E e \in asked[o], n \in 1..Len(line) :
         /\ n > Len(o.target) /\ SubSeq(line, 1, Len(o.target) + 1) = Append(o.target, e)
         /\ o.target # <<>> => n = Len(o.target) + 1
         /\ answer' = [answer EXCEPT ![o] = SubSeq(line, 1, n)]
    /\ UNCHANGED <<line, asked>>

Next == \E o \in Ops : (\E e \in Edits : Admit(o, e)) \/ Commit(o) \/ Answer(o)

Spec == Init /\ [][Next]_vars
=============================================================================
