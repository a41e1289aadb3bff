----------------------------- MODULE MessageLog -----------------------------
(***************************************************************************)
(* What a conversation promises its two ends: messages are posted in       *)
(* order, the recipient gets what was posted and keeps it, the author is   *)
(* told of a message only when the recipient has it, and the mark up to    *)
(* which the recipient has everything moves forward only, and never past a *)
(* message it does not have.                                               *)
(***************************************************************************)
EXTENDS Integers

CONSTANT Messages   \* in the order they are numbered

VARIABLES
    posted,     \* the messages for the recipient
    got,        \* what the recipient has
    told,       \* what the author was told the recipient has
    mark        \* the recipient has everything up to it

vars == <<posted, got, told, mark>>

Init == posted = {} /\ got = {} /\ told = {} /\ mark = 0

Post(m) ==
    /\ m > mark /\ \A k \in posted : m > k
    /\ posted' = posted \cup {m}
    /\ UNCHANGED <<got, told, mark>>

Get(m) ==
    /\ m \in posted
    /\ got' = got \cup {m}
    /\ UNCHANGED <<posted, told, mark>>

\* What the author is told it may forget, and be told again.
Tell(m) ==
    /\ m \in got
    /\ told' \in {told \cup {m}, told \ {m}}
    /\ UNCHANGED <<posted, got, mark>>

Pass(n) ==
    /\ n > mark /\ \A m \in posted : m <= n => m \in got
    /\ mark' = n
    /\ UNCHANGED <<posted, got, told>>

Next == \E m \in Messages : Post(m) \/ Get(m) \/ Tell(m) \/ Pass(m)

Spec == Init /\ [][Next]_vars
=============================================================================
