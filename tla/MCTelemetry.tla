----------------------------- MODULE MCTelemetry -----------------------------
(* Small instances of Telemetry. *)
EXTENDS Telemetry, TLC

CONSTANTS d1, e1, m1, a, b, n1, n2, n3

Payload(event, measured, reading, name) ==
    [device |-> d1, event |-> event, measured |-> measured, reading |-> reading,
     report |-> [f \in Fields |-> IF f = "name" THEN name ELSE n1]]

\* One event with two readings, one instant with two readings, and a
\* measurement that carries neither.
MCPayloads ==
    {Payload(e1, None, a, n1), Payload(e1, None, b, n1), Payload(None, m1, a, n1),
     Payload(None, m1, b, n2), Payload(None, None, a, None)}

\* Unnamed, and reported under two names.
MCReports == {Payload(None, None, a, n) : n \in {None, n1, n2}}

\* Each field set, cleared or left out.
MCChanges == UNION {[S -> {n3, None}] : S \in SUBSET Fields}
MCRenames == [{"name"} -> {n3, None}]
=============================================================================
