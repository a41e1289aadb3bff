----------------------------- MODULE JobLedger ------------------------------
(***************************************************************************)
(* What the job queue promises its clients: an accepted job stays open     *)
(* until it is resolved, once and for all, as done or failed, and only a   *)
(* resolved job is ever forgotten.  No job is lost, none is resolved twice,*)
(* none comes back.                                                        *)
(***************************************************************************)
CONSTANT Jobs
VARIABLE status

Statuses == {"absent", "open", "done", "failed", "forgotten"}
Resolved == {"done", "failed"}

\* What may become of a job in one step.
Moves == {<<"absent", "open">>, <<"open", "done">>, <<"open", "failed">>,
          <<"done", "forgotten">>, <<"failed", "forgotten">>}

Init == status = [j \in Jobs |-> "absent"]

\* Some jobs move; a restart resolves or forgets several at once.
Next ==
    /\ status' \in [Jobs -> Statuses]
    /\ \A j \in Jobs : status'[j] = status[j] \/ <<status[j], status'[j]>> \in Moves

Spec == Init /\ [][Next]_status
=============================================================================
