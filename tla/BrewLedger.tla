------------------------------ MODULE BrewLedger ------------------------------
(***************************************************************************)
(* What the brew records promise their reader: a brew's log grows while it *)
(* is active and is complete once it has ended; the archive keeps the log  *)
(* as it was at the end, and only notes are added to an archived brew.     *)
(***************************************************************************)
EXTENDS Sequences

CONSTANTS Brews, Entries, NoteIds, None

VARIABLES
    log,      \* log[b]: the entries of brew b, <<>> before it begins
    ended,    \* brews whose log is complete
    archive,  \* archive[b]: the log as frozen, or None
    notes     \* notes[b]: its annotations

vars == <<log, ended, archive, notes>>

Init ==
    /\ log = [b \in Brews |-> <<>>]
    /\ ended = {}
    /\ archive = [b \in Brews |-> None]
    /\ notes = [b \in Brews |-> {}]

Begin(b) ==
    /\ log[b] = <<>>
    /\ \E e \in Entries : log' = [log EXCEPT ![b] = <<e>>]
    /\ UNCHANGED <<ended, archive, notes>>

Record(b) ==
    /\ log[b] # <<>> /\ b \notin ended
    /\ \E e \in Entries : log' = [log EXCEPT ![b] = Append(@, e)]
    /\ UNCHANGED <<ended, archive, notes>>

End(b) ==
    /\ log[b] # <<>> /\ b \notin ended
    /\ ended' = ended \cup {b}
    /\ \E e \in Entries : log' = [log EXCEPT ![b] = Append(@, e)]
    /\ UNCHANGED <<archive, notes>>

Freeze(b) ==
    /\ b \in ended /\ archive[b] = None
    /\ archive' = [archive EXCEPT ![b] = log[b]]
    /\ UNCHANGED <<log, ended, notes>>

Annotate(b) ==
    /\ archive[b] # None
    /\ \E n \in NoteIds \ notes[b] : notes' = [notes EXCEPT ![b] = @ \cup {n}]
    /\ UNCHANGED <<log, ended, archive>>

Next == \E b \in Brews : Begin(b) \/ Record(b) \/ End(b) \/ Freeze(b) \/ Annotate(b)

Spec == Init /\ [][Next]_vars
=============================================================================
