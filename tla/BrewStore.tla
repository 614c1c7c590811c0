------------------------------ MODULE BrewStore ------------------------------
(***************************************************************************)
(* Recipes, brews, events and the archive of app/brewing.py.  Each store   *)
(* method is one BEGIN IMMEDIATE transaction, so it is one step here; what  *)
(* interleaves are the clients: they read, wait, write on what they read,   *)
(* lose answers and call again.  A call the store refuses changes nothing   *)
(* and is no step, except where the refusal itself is recorded.             *)
(*                                                                          *)
(* Names, quantities and times are left out.  A recipe's content is its     *)
(* graph of stable child keys: which ingredients, cultures, scheduled       *)
(* additions and process steps it has and which refer to which.             *)
(***************************************************************************)
EXTENDS Naturals, Sequences

CONSTANTS
    Recipes, Brews, Devices, Clients,
    Keys,            \* child keys (uuid4)
    Contents,        \* recipe contents clients submit
    Calls,           \* the event calls clients make, and repeat
    MaxRevision,     \* bound on updates of a recipe
    MaxEvents,       \* bound on events without a client_request_id
    MaxAnnotations,  \* bound on archive annotations
    None

\* The child rows of a recipe: ingredients, cultures, additions, steps.
Graphs ==
    [ingredients : SUBSET Keys,
     cultures    : SUBSET [key : Keys, ingredient : Keys],
     additions   : SUBSET [key : Keys, ingredient : Keys \cup {None}],
     steps       : SUBSET [key : Keys, addition : Keys \cup {None},
                           culture : Keys \cup {None}]]

\* A recipe as a brew keeps it.
Snapshots == [revision : 1 .. MaxRevision, content : Graphs]

Event(type, crid, addition) == [type |-> type, crid |-> crid, addition |-> addition]

\* The rows of brew_events that the clients' calls and the store itself make.
Entries == [type : {"brew_started", "brew_completed", "brew_aborted"}, crid : {None},
            addition : {None}]
           \cup {Event(call.type, call.crid, call.addition) : call \in Calls}

\* archive_evidence_bundles: the brew's record, in the order it was written; the
\* code lists the events by event_at, and times are left out here.
Bundles == [snapshot : Snapshots, events : Seq(Entries)]

ASSUME StoreAssumption ==
    /\ MaxRevision \in Nat \ {0}
    /\ MaxEvents \in Nat
    /\ MaxAnnotations \in Nat
    /\ None \notin Keys \cup Nat
    /\ Contents \subseteq Graphs
    /\ \A call \in Calls : call.brew \in Brews

\* SQL's NULL is not a row.
ASSUME NoneAssumption == None \notin Bundles \cup Seq(Entries)

VARIABLES
    recipe,       \* recipe[r]: [revision, content], revision 0 before creation
    status,       \* status[b]: brew_runs.status, "none" before begin_brew
    device,       \* device[b]: brew_runs.device_id
    source,       \* source[b]: brew_runs.recipe_id
    snapshot,     \* snapshot[b]: brew_runs.recipe_snapshot_json
    events,       \* events[b]: brew_events rows in id order
    bundle,       \* bundle[b]: archive_evidence_bundles row or None
    annotations,  \* archive_annotations rows in id order
    lineage,      \* recipe_lineage rows
    seen,         \* seen[c][r]: revision client c last read of recipe r
    \* history, read by no guard
    versions,     \* versions[r]: every content r ever had, and what its author had read
    answered,     \* the row each repeated event call was answered with
    refused       \* event calls refused because their brew is not active

vars == <<recipe, status, device, source, snapshot, events, bundle, annotations, lineage,
          seen, versions, answered, refused>>

Terminal == {"completed", "aborted"}
Statuses == {"none", "active"} \cup Terminal
Scheduled == {"scheduled_addition_recorded", "scheduled_addition_skipped"}

KeysOf(rows) == {x.key : x \in rows}

AllKeys(g) == g.ingredients \cup KeysOf(g.cultures) \cup KeysOf(g.additions) \cup KeysOf(g.steps)

\* _replace_recipe_children raises, and the transaction is undone, unless every
\* reference of the content resolves within it.
Resolved(g) ==
    /\ \A c \in g.cultures : c.ingredient \in g.ingredients
    /\ \A a \in g.additions : a.ingredient \in g.ingredients \cup {None}
    /\ \A s \in g.steps : /\ s.addition \in KeysOf(g.additions) \cup {None}
                          /\ s.culture \in KeysOf(g.cultures) \cup {None}

Exists(r) == recipe[r].revision > 0

Init ==
    /\ recipe = [r \in Recipes |-> [revision |-> 0, content |-> None]]
    /\ status = [b \in Brews |-> "none"]
    /\ device = [b \in Brews |-> None]
    /\ source = [b \in Brews |-> None]
    /\ snapshot = [b \in Brews |-> None]
    /\ events = [b \in Brews |-> <<>>]
    /\ bundle = [b \in Brews |-> None]
    /\ annotations = <<>>
    /\ lineage = {}
    /\ seen = [c \in Clients |-> [r \in Recipes |-> 0]]
    /\ versions = [r \in Recipes |-> <<>>]
    /\ answered = {}
    /\ refused = {}

-----------------------------------------------------------------------------
(* Recipes.                                                                 *)

\* Seeded fault: the row is inserted without its first revision number.
NewRecipeUnnumbered(r, g) ==
    /\ ~Exists(r)
    /\ Resolved(g)
    /\ recipe' = [recipe EXCEPT ![r] = [revision |-> 0, content |-> g]]
    /\ versions' = [versions EXCEPT ![r] = <<[content |-> g, basis |-> 0]>>]

NewRecipe(r, g) ==
    /\ ~Exists(r)
    /\ Resolved(g)
    /\ recipe' = [recipe EXCEPT ![r] = [revision |-> 1, content |-> g]]
    /\ versions' = [versions EXCEPT ![r] = <<[content |-> g, basis |-> 0]>>]

CreateRecipe(r, g) ==
    /\ NewRecipe(r, g)
    /\ UNCHANGED <<status, device, source, snapshot, events, bundle, annotations, lineage,
                   seen, answered, refused>>

\* GET /api/recipes/{id}: the client keeps the revision it was shown.
ReadRecipe(c, r) ==
    /\ Exists(r)
    /\ seen' = [seen EXCEPT ![c][r] = recipe[r].revision]
    /\ UNCHANGED <<recipe, status, device, source, snapshot, events, bundle, annotations,
                   lineage, versions, answered, refused>>

\* Seeded fault: the content is replaced under the revision number it had.
ReplaceSameRevision(r, g, basis) ==
    /\ recipe[r].revision < MaxRevision
    /\ Resolved(g)
    /\ recipe' = [recipe EXCEPT ![r].content = g]
    /\ versions' = [versions EXCEPT ![r] = Append(@, [content |-> g, basis |-> basis])]

\* The replacement of a recipe's row and children, revision included.
Replace(r, g, basis) ==
    /\ recipe[r].revision < MaxRevision
    /\ Resolved(g)
    /\ recipe' = [recipe EXCEPT ![r] = [revision |-> @.revision + 1, content |-> g]]
    /\ versions' = [versions EXCEPT ![r] = Append(@, [content |-> g, basis |-> basis])]

\* Seeded fault: expected_revision is not compared.
UpdateRecipeBlind(c, r, g) ==
    /\ Exists(r) /\ seen[c][r] > 0
    /\ Replace(r, g, seen[c][r])
    /\ \/ UNCHANGED seen
       \/ seen' = [seen EXCEPT ![c][r] = recipe'[r].revision]
    /\ UNCHANGED <<status, device, source, snapshot, events, bundle, annotations, lineage,
                   answered, refused>>

\* update_recipe: the expected revision is the one the client read; the answer
\* with the new one may be lost.
UpdateRecipe(c, r, g) ==
    /\ Exists(r) /\ seen[c][r] = recipe[r].revision
    /\ Replace(r, g, seen[c][r])
    /\ \/ UNCHANGED seen
       \/ seen' = [seen EXCEPT ![c][r] = recipe'[r].revision]
    /\ UNCHANGED <<status, device, source, snapshot, events, bundle, annotations, lineage,
                   answered, refused>>

-----------------------------------------------------------------------------
(* Brews and their events.                                                  *)

ActiveOn(d) == {b \in Brews : status[b] = "active" /\ device[b] = d}

Start(b, d, r) ==
    /\ status[b] = "none" /\ Exists(r)
    /\ status' = [status EXCEPT ![b] = "active"]
    /\ device' = [device EXCEPT ![b] = d]
    /\ source' = [source EXCEPT ![b] = r]
    /\ snapshot' = [snapshot EXCEPT ![b] = recipe[r]]
    /\ events' = [events EXCEPT ![b] = <<Event("brew_started", None, None)>>]
    /\ UNCHANGED <<recipe, bundle, annotations, lineage, seen, versions, answered, refused>>

\* Seeded fault: the index of active brews per device is not unique.
BeginBrewAnyDevice(b, d, r) == Start(b, d, r)

\* begin_brew: the recipe as it is now becomes the brew's snapshot; the unique
\* partial index refuses a second active brew on a device.
BeginBrew(b, d, r) ==
    /\ ActiveOn(d) = {}
    /\ Start(b, d, r)

Recorded(b, crid) == {i \in DOMAIN events[b] : crid # None /\ events[b][i].crid = crid}

Settled(b) == {events[b][i].addition : i \in {n \in DOMAIN events[b] : events[b][n].type \in Scheduled}}

\* Seeded fault: an addition may be recorded although it was already skipped.
AdmissibleTwice(call) ==
    call.type \in Scheduled =>
        /\ call.crid # None
        /\ call.addition \in KeysOf(snapshot[call.brew].content.additions)
        /\ call.complete

\* The checks on an event about a scheduled addition: it needs a request id, an
\* addition of the snapshot that has no outcome yet, and the actual amounts or
\* the reason for skipping it.
Admissible(call) ==
    call.type \in Scheduled =>
        /\ call.crid # None
        /\ call.addition \in KeysOf(snapshot[call.brew].content.additions)
        /\ call.addition \notin Settled(call.brew)
        /\ call.complete

EventFrame ==
    UNCHANGED <<recipe, status, device, source, snapshot, bundle, annotations, lineage,
                seen, versions>>

\* A call repeated with the same request id is answered with the first row.
ReplayEvent(call) ==
    /\ \E i \in Recorded(call.brew, call.crid) :
          answered' = answered \cup {[brew |-> call.brew, crid |-> call.crid, row |-> i]}
    /\ UNCHANGED <<events, refused>>
    /\ EventFrame

\* Seeded fault: a brew that is not active refuses before it looks for the row.
RefuseEventFirst(call) ==
    /\ status[call.brew] \in Terminal
    /\ refused' = refused \cup {[brew |-> call.brew, crid |-> call.crid]}
    /\ UNCHANGED <<events, answered>>
    /\ EventFrame

RefuseEvent(call) ==
    /\ status[call.brew] \in Terminal
    /\ Recorded(call.brew, call.crid) = {}
    /\ refused' = refused \cup {[brew |-> call.brew, crid |-> call.crid]}
    /\ UNCHANGED <<events, answered>>
    /\ EventFrame

\* Seeded fault: an event may still be added to a brew that has ended.
RecordEventLate(call) ==
    /\ status[call.brew] # "none"
    /\ Recorded(call.brew, call.crid) = {}
    /\ Admissible(call)
    /\ Len(events[call.brew]) < MaxEvents
    /\ events' = [events EXCEPT ![call.brew] =
                     Append(@, Event(call.type, call.crid, call.addition))]
    /\ UNCHANGED <<answered, refused>>
    /\ EventFrame

\* add_event; when its answer is lost the client will call again.
RecordEvent(call) ==
    /\ status[call.brew] = "active"
    /\ Recorded(call.brew, call.crid) = {}
    /\ Admissible(call)
    /\ Len(events[call.brew]) < MaxEvents
    /\ events' = [events EXCEPT ![call.brew] =
                     Append(@, Event(call.type, call.crid, call.addition))]
    /\ UNCHANGED <<answered, refused>>
    /\ EventFrame

EndType(outcome) == IF outcome = "completed" THEN "brew_completed" ELSE "brew_aborted"

\* stop_brew: the outcome and its event in one transaction.
StopBrew(b, outcome) ==
    /\ status[b] = "active"
    /\ status' = [status EXCEPT ![b] = outcome]
    /\ events' = [events EXCEPT ![b] = Append(@, Event(EndType(outcome), None, None))]
    /\ UNCHANGED <<recipe, device, source, snapshot, bundle, annotations, lineage, seen,
                   versions, answered, refused>>

-----------------------------------------------------------------------------
(* The archive.                                                             *)

ArchiveFrame ==
    UNCHANGED <<status, device, source, snapshot, events, seen, answered, refused>>

Capture(b) == [snapshot |-> snapshot[b], events |-> events[b]]

\* Seeded fault: a running brew can be frozen, too.
FreezeEvidenceEarly(b) ==
    /\ status[b] # "none"
    /\ bundle[b] = None
    /\ bundle' = [bundle EXCEPT ![b] = Capture(b)]
    /\ UNCHANGED <<recipe, annotations, lineage, versions>>
    /\ ArchiveFrame

\* freeze_archive_evidence: once per terminal brew; later calls return the row.
FreezeEvidence(b) ==
    /\ status[b] \in Terminal
    /\ bundle[b] = None
    /\ bundle' = [bundle EXCEPT ![b] = Capture(b)]
    /\ UNCHANGED <<recipe, annotations, lineage, versions>>
    /\ ArchiveFrame

NotesOf(b) == {i \in DOMAIN annotations : annotations[i].brew = b}

\* The id of the brew's annotation with the highest revision, or None.
Latest(b) ==
    IF NotesOf(b) = {} THEN None
    ELSE CHOOSE i \in NotesOf(b) :
            \A n \in NotesOf(b) : annotations[n].revision <= annotations[i].revision

NextRevision(b) == IF NotesOf(b) = {} THEN 1 ELSE annotations[Latest(b)].revision + 1

Note(b, parent) == [brew |-> b, parent |-> parent, revision |-> NextRevision(b)]

\* Seeded fault: any annotation of the brew is accepted as the parent.
AnnotateAnyParent(b, parent) ==
    /\ bundle[b] # None
    /\ IF NotesOf(b) = {} THEN parent = None ELSE parent \in NotesOf(b)
    /\ Len(annotations) < MaxAnnotations
    /\ annotations' = Append(annotations, Note(b, parent))
    /\ UNCHANGED <<recipe, bundle, lineage, versions>>
    /\ ArchiveFrame

\* create_archive_annotation: the caller names the annotation it has read last.
Annotate(b, parent) ==
    /\ bundle[b] # None
    /\ parent = Latest(b)
    /\ Len(annotations) < MaxAnnotations
    /\ annotations' = Append(annotations, Note(b, parent))
    /\ UNCHANGED <<recipe, bundle, lineage, versions>>
    /\ ArchiveFrame

\* _snapshot_to_fork_payload: the ingredients get new keys, everything else is
\* copied with the keys and references it has.
ForkContent(g, rename) == [g EXCEPT !.ingredients = {rename[k] : k \in g.ingredients}]

\* The keys a new one differs from: those clients send, and those of the stored recipes
\* and snapshots.
UsedKeys ==
    (UNION {AllKeys(g) : g \in Contents})
    \cup (UNION {AllKeys(recipe[r].content) : r \in {q \in Recipes : Exists(q)}})
    \cup (UNION {AllKeys(snapshot[b].content) : b \in {q \in Brews : status[q] # "none"}})

Renamings(g) ==
    {m \in [g.ingredients -> Keys \ UsedKeys] : \A j, k \in g.ingredients : m[j] = m[k] => j = k}

Fork(child, r, revision, b) ==
    /\ status[b] \in Terminal
    /\ source[b] = r
    /\ snapshot[b].revision = revision
    /\ \E m \in Renamings(snapshot[b].content) :
          NewRecipe(child, ForkContent(snapshot[b].content, m))
    /\ lineage' = lineage \cup
          {[child |-> child, recipe |-> r, revision |-> revision, brew |-> b]}
    /\ UNCHANGED <<bundle, annotations>>
    /\ ArchiveFrame

\* Seeded fault: the lineage is not looked up before forking.
ForkRecipeAgain(child, r, revision, b) == Fork(child, r, revision, b)

\* fork_recipe_from_archive: a terminal brew is forked at most once.
ForkRecipe(child, r, revision, b) ==
    /\ ~ \E l \in lineage : l.recipe = r /\ l.brew = b
    /\ Fork(child, r, revision, b)

-----------------------------------------------------------------------------
Next ==
    \/ \E r \in Recipes, g \in Contents : CreateRecipe(r, g)
    \/ \E c \in Clients, r \in Recipes : ReadRecipe(c, r)
    \/ \E c \in Clients, r \in Recipes, g \in Contents : UpdateRecipe(c, r, g)
    \/ \E b \in Brews, d \in Devices, r \in Recipes : BeginBrew(b, d, r)
    \/ \E call \in Calls : RecordEvent(call) \/ ReplayEvent(call) \/ RefuseEvent(call)
    \/ \E b \in Brews, outcome \in Terminal : StopBrew(b, outcome)
    \/ \E b \in Brews : FreezeEvidence(b)
    \/ \E b \in Brews, parent \in 1 .. MaxAnnotations \cup {None} : Annotate(b, parent)
    \/ \E child, r \in Recipes, revision \in 1 .. MaxRevision, b \in Brews :
          ForkRecipe(child, r, revision, b)

Spec == Init /\ [][Next]_vars

-----------------------------------------------------------------------------
\* The columns hold what their writers put there, and a brew that exists has
\* its recipe and its snapshot.
TypeOK ==
    /\ recipe \in [Recipes -> Snapshots \cup {[revision |-> 0, content |-> None]}]
    /\ status \in [Brews -> Statuses]
    /\ device \in [Brews -> Devices \cup {None}]
    /\ source \in [Brews -> Recipes \cup {None}]
    /\ snapshot \in [Brews -> Snapshots \cup {None}]
    /\ events \in [Brews -> Seq(Entries)]
    /\ bundle \in [Brews -> Bundles \cup {None}]
    /\ annotations \in Seq([brew : Brews, parent : Nat \cup {None}, revision : Nat])
    /\ seen \in [Clients -> [Recipes -> 0 .. MaxRevision]]
    /\ versions \in [Recipes -> Seq([content : Graphs, basis : Nat])]
    /\ \A b \in Brews : status[b] # "none" =>
          snapshot[b] \in Snapshots /\ source[b] \in Recipes /\ events[b] # <<>>

\* Two clients editing one recipe: nobody replaces a revision they have not read.
NoLostUpdate ==
    \A r \in Recipes : \A n \in DOMAIN versions[r] : versions[r][n].basis = n - 1

\* A brew keeps the recipe exactly as it was at the revision its snapshot names,
\* whatever happens to the recipe afterwards.
SnapshotIsARevision ==
    \A b \in Brews : status[b] # "none" =>
        /\ snapshot[b].revision \in DOMAIN versions[source[b]]
        /\ snapshot[b].content = versions[source[b]][snapshot[b].revision].content

\* At no time do two active brews share a device.
OneActiveBrew == \A d \in Devices : \A b, c \in ActiveOn(d) : b = c

\* However often clients record, skip and retry, a scheduled addition has one
\* outcome, and only additions of the brew's own snapshot have one.
OneOutcomePerAddition ==
    \A b \in Brews : \A i, n \in DOMAIN events[b] :
        events[b][i].type \in Scheduled =>
            /\ events[b][i].addition \in KeysOf(snapshot[b].content.additions)
            /\ events[b][n].type \in Scheduled /\ events[b][n].addition = events[b][i].addition
                  => n = i

\* Repeating a call gives one event and one answer, also after the brew ended:
\* a client whose event was recorded is never told that the brew is not active.
RetriesAgree ==
    /\ \A b \in Brews : \A i, n \in DOMAIN events[b] :
          events[b][i].crid = events[b][n].crid /\ events[b][i].crid # None => i = n
    /\ \A a \in answered : events[a.brew][a.row].crid = a.crid
    /\ \A x \in refused : Recorded(x.brew, x.crid) = {}

\* The last event of an ended brew is that of its end, with the outcome in the
\* brew's row: no client's event lands after it, and none takes its place.
EndsOnce ==
    \A b \in Brews : status[b] \in Terminal =>
        events[b][Len(events[b])] = Event(EndType(status[b]), None, None)

\* The frozen evidence is the whole record of the brew and stays that: nothing
\* is added to the record after it was captured.
EvidenceIsFinal ==
    \A b \in Brews : bundle[b] # None => status[b] \in Terminal /\ bundle[b] = Capture(b)

\* The annotations of a brew are one chain: each was written by somebody who
\* had read the one before it.
AnnotationsLinear ==
    /\ \A i \in DOMAIN annotations :
          LET a == annotations[i] IN
          /\ bundle[a.brew] # None
          /\ a.revision = 1 <=> a.parent = None
          /\ a.parent # None => /\ a.parent \in NotesOf(a.brew) /\ a.parent < i
                                /\ annotations[a.parent].revision = a.revision - 1
    /\ \A i, n \in DOMAIN annotations :
          annotations[i].brew = annotations[n].brew
              /\ (annotations[i].revision = annotations[n].revision
                     \/ annotations[i].parent = annotations[n].parent)
              => i = n

\* A brew is forked at most once, into a recipe of its own, and the lineage
\* names the revision that was brewed.
ForkedOnce ==
    /\ \A l, m \in lineage : l.brew = m.brew \/ l.child = m.child => l = m
    /\ \A l \in lineage : /\ l.child # l.recipe /\ Exists(l.child)
                          /\ source[l.brew] = l.recipe
                          /\ snapshot[l.brew].revision = l.revision

\* The docstring of fork_recipe_from_archive: a frozen brew snapshot becomes a
\* recipe, and the only errors are those the router maps; so the content made
\* from a terminal brew's snapshot must resolve.
TerminalBrewsFork ==
    \A b \in Brews : status[b] \in Terminal =>
        \A m \in Renamings(snapshot[b].content) : Resolved(ForkContent(snapshot[b].content, m))

Ledger == INSTANCE BrewLedger WITH
    log <- events,
    ended <- {b \in Brews : status[b] \in Terminal},
    archive <- [b \in Brews |-> IF bundle[b] = None THEN None ELSE bundle[b].events],
    notes <- [b \in Brews |-> NotesOf(b)],
    NoteIds <- 1 .. MaxAnnotations

\* The store keeps the promise of BrewLedger.
ImplementsLedger == Ledger!Spec
=============================================================================
