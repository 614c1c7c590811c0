--------------------------- MODULE MCAssistantJobs ---------------------------
(* Small instances of AssistantJobs. *)
EXTENDS AssistantJobs, TLC

\* Threads and workers are interchangeable; so are the row ids (fresh uuids).
Symmetry == Permutations(Jobs) \cup Permutations(Threads) \cup Permutations(Workers)
=============================================================================
