------------------------------ MODULE JobLedger ------------------------------
(***************************************************************************)
(* What the assistant job service promises a client, keyed by the          *)
(* client_request_id the client chose: a request is admitted at most once, *)
(* its handler is started at most once, it settles at most once, and a     *)
(* restart closes everything still open as failed.                         *)
(***************************************************************************)
CONSTANT Requests

VARIABLE outcome   \* outcome[r]: what a poll for request r would answer

Outcomes == {"none", "queued", "running", "succeeded", "failed"}
Open == {"queued", "running"}

Init == outcome = [r \in Requests |-> "none"]

Admit(r) ==
    /\ outcome[r] = "none"
    /\ outcome' = [outcome EXCEPT ![r] = "queued"]

Begin(r) ==
    /\ outcome[r] = "queued"
    /\ outcome' = [outcome EXCEPT ![r] = "running"]

Settle(r) ==
    /\ outcome[r] = "running"
    /\ \E v \in {"succeeded", "failed"} : outcome' = [outcome EXCEPT ![r] = v]

\* A restart never resumes work: whatever was open is failed, all at once.
FailClosed ==
    /\ \E r \in Requests : outcome[r] \in Open
    /\ outcome' = [r \in Requests |->
                      IF outcome[r] \in Open THEN "failed" ELSE outcome[r]]

Next ==
    \/ \E r \in Requests : Admit(r) \/ Begin(r) \/ Settle(r)
    \/ FailClosed

Spec == Init /\ [][Next]_outcome
=============================================================================
