------------------------------- MODULE Upgrades -------------------------------
(***************************************************************************)
(* Start-up of the application: init_db of app/main.py brings the telemetry *)
(* database to schema 2 and then BrewingStore.initialize of app/brewing.py  *)
(* brings the brewing database to schema 6, whatever release wrote them;    *)
(* only then does the service answer requests (Calibrations, Research).     *)
(* The container is started again after every failure.                      *)
(*                                                                         *)
(* A telemetry migration is one transaction.  The brewing store's scripts   *)
(* commit: executescript ends the transaction BEGIN IMMEDIATE has opened    *)
(* and every CREATE of the script is on disk as soon as it has run.  An     *)
(* open transaction is a draft of the rows; a stop drops the draft and      *)
(* nothing else.  Columns and objects that are created together are one     *)
(* element of a set; an object is named for the schema that introduced it.  *)
(***************************************************************************)
EXTENDS Calibrations, Research

CONSTANTS
    Samples,        \* samples rows that older releases have written
    Ingredients,    \* ids of recipe_ingredients rows, likewise: those of one
                    \* recipe, within which the index wants distinct keys
    Keys,           \* UUIDs
    NoKey,          \* NULL, or a text that is no UUID
    Installations,  \* the pairs of files the start-up may find
    MaxStops        \* bound on kills and failed statements

\* A telemetry file without its calibration rows: undated samples have no
\* received_at and no battery semantics, unfitted calibrations no coefficients;
\* "stray" is whatever the exact checks refuse: a foreign object, a column out
\* of order, an orphan row.
Columns == {"device", "sample", "fit"}
Objects == {"rows", "ledger", "retry", "pointer", "history", "immutable", "stray"}
Telemetries == [columns : SUBSET Columns, objects : SUBSET Objects, undated : SUBSET Samples,
                unfitted : SUBSET Ids, ledger : SUBSET (1 .. 3), version : 0 .. 2]

\* A brewing file: version is the row of brew_schema, 0 for none, and stamp is
\* PRAGMA user_version; an orphan row fails the foreign key check.
BrewObjects ==
    {"schema", "base", "documents", "index", "columns3", "tables3", "keys3", "tables4",
     "tables5", "tables6"}
Brewings == [objects : SUBSET BrewObjects, version : 0 .. 7, stamp : {0, 6},
             keys : [Ingredients -> Keys \cup {NoKey}], orphan : BOOLEAN]

VARIABLES
    at,         \* where the starting process is, "down" or "serving"
    telemetry,  \* the telemetry file but for calibrations and active
    brewing,    \* the brewing file but for the research store
    draft,      \* uncommitted telemetry, pointers, brewing and research
    stops,      \* bound: kills and failures so far
    asked       \* which of the two databases this behaviour's clients use

upgradeVars == <<at, telemetry, brewing, draft, stops, asked>>
allVars == <<vars, researchVars, upgradeVars>>

Committed == [telemetry |-> telemetry, active |-> active, brewing |-> brewing, store |-> store]
Moves(from, to) == at = from /\ at' = to

-----------------------------------------------------------------------------
(* What the code demands of a telemetry database.                           *)

\* not user_objects and user_version = 0 in init_db
IsFresh(t) == t.objects = {} /\ t.version = 0

\* _migration_needed, _phase4_migration_needed
NeedsPhase3(t) == "ledger" \notin t.objects \/ 1 \notin t.ledger
NeedsPhase4(t) == 2 \notin t.ledger

\* _require_exact_v1_for_phase4
ExactV1(t) ==
    /\ t.columns = {"device", "sample"}
    /\ t.objects = {"rows", "ledger", "retry"}
    /\ t.ledger = {1}
    /\ t.version = 1

\* _require_exact_v2
ExactV2(t) ==
    /\ t.columns = Columns
    /\ t.objects = Objects \ {"stray"}
    /\ t.ledger = {1, 2}
    /\ t.version = 2
    /\ t.unfitted = {}

-----------------------------------------------------------------------------
(* What a recorded version promises.                                        *)

Unversioned(s) ==
    {d \in DOMAIN s.documents :
        ~ \E v \in DOMAIN s.versions :
            /\ s.versions[v].document = d
            /\ s.versions[v].no = 1 \/ s.versions[v].hash = s.documents[d].content}

Distinct(keys) ==
    \A i, j \in Ingredients : keys[i] # NoKey /\ (keys[i] = keys[j] => i = j)

EarnedTelemetry(t) ==
    /\ 1 \in t.ledger => {"device", "sample"} \subseteq t.columns /\ t.undated = {}
                         /\ {"rows", "ledger", "retry"} \subseteq t.objects
    /\ 2 \in t.ledger => /\ t.columns = Columns /\ t.unfitted = {} /\ 1 \in t.ledger
                         /\ {"pointer", "history", "immutable"} \subseteq t.objects
    /\ t.version # 0 => t.version \in t.ledger

EarnedBrewing(b, s) ==
    /\ b.version >= 3 => "columns3" \in b.objects /\ Distinct(b.keys)
    /\ b.version >= 5 => Unversioned(s) = {}
    /\ b.stamp = 6 => b.version >= 6 /\ b.objects = BrewObjects
                     /\ s.indexed = DOMAIN s.documents

\* Versions are of a document each and numbered per URL in the documents' order.
Numbered(s) ==
    /\ \A v \in DOMAIN s.versions :
          /\ s.versions[v].document \in DOMAIN s.documents
          /\ s.versions[v].hash = s.documents[s.versions[v].document].content
    /\ \A v, w \in DOMAIN s.versions :
          /\ s.versions[v].document = s.versions[w].document => v = w
          /\ UrlOf(s, v) = UrlOf(s, w) /\ s.versions[v].document < s.versions[w].document
                => s.versions[v].no <= s.versions[w].no

\* There are none before schema 5, and no document in a file without a version.
StoreOf(b, s) ==
    /\ Numbered(s)
    /\ b.version < 5 => s.versions = <<>>
    /\ b.version = 0 => s.documents = <<>> /\ Distinct(b.keys)
                       /\ ("base" \in b.objects => "columns3" \in b.objects)

\* Rows have a table, calibrations an id of their own, and the pointer its row.
RowsOf(t, rows, pointers) ==
    /\ "rows" \notin t.objects => t.undated = {} /\ t.unfitted = {}
    /\ rows \subseteq Rows /\ \A x, y \in rows : x.id = y.id => x = y
    /\ pointers \in [Devices -> Ids \cup {None}]
    /\ \A d \in Devices : pointers[d] # None => pointers[d] \in IdsOf(rows, d)

\* The files that releases and interrupted starts have left keep those promises.
ASSUME UpgradesAssumption ==
    /\ MaxStops \in Nat
    /\ Ingredients \subseteq Nat /\ NoKey \notin Keys
    /\ \A files \in Installations :
          /\ files.telemetry \in Telemetries /\ EarnedTelemetry(files.telemetry)
          /\ RowsOf(files.telemetry, files.rows, files.active)
          /\ files.brewing \in Brewings /\ files.store \in Stores
          /\ EarnedBrewing(files.brewing, files.store)
          /\ StoreOf(files.brewing, files.store)

-----------------------------------------------------------------------------
(* init_db.                                                                 *)

\* Steps of an open transaction change the draft, a commit publishes it.
InTransaction == UNCHANGED <<vars, researchVars, telemetry, brewing, stops, asked>>

Publish ==
    /\ telemetry' = draft.telemetry
    /\ active' = draft.active
    /\ brewing' = draft.brewing
    /\ store' = draft.store
    /\ UNCHANGED <<known, calibrations, lastId, view, listed, sampled,
                   links, retrieval, ran, stops, asked>>

\* The container starts; the kind of file decides what init_db does.
Start ==
    /\ at = "down"
    /\ at' = CASE IsFresh(telemetry) -> "fresh"
             [] ~ IsFresh(telemetry) /\ NeedsPhase3(telemetry) -> "overrides"
             [] OTHER -> "phase4?"
    /\ draft' = Committed
    /\ InTransaction

\* _initialize_fresh_phase4
CreateFresh ==
    /\ Moves("fresh", "commit fresh")
    /\ draft' = [draft EXCEPT
          !.telemetry = [@ EXCEPT !.columns = Columns, !.objects = Objects \ {"stray"},
                                  !.ledger = {1, 2}, !.version = 2]]
    /\ InTransaction

CommitFresh == Moves("commit fresh", "script") /\ Publish /\ draft' = draft

\* _phase3_migrate: override columns of devices.  ALTER TABLE of a table that
\* is not there fails, and the start-up with it.
AddOverrides ==
    /\ at = "overrides"
    /\ IF "rows" \in telemetry.objects
       THEN /\ at' = "dates"
            /\ draft' = [draft EXCEPT !.telemetry.columns = @ \cup {"device"},
                                      !.telemetry.objects = @ \cup {"ledger"}]
       ELSE at' = "down" /\ draft' = Committed
    /\ InTransaction

\* columns of samples, and received_at and battery semantics of old rows
BackfillDates ==
    /\ Moves("dates", "record 1")
    /\ draft' = [draft EXCEPT !.telemetry.columns = @ \cup {"sample"},
                              !.telemetry.undated = {}]
    /\ InTransaction

\* Seeded fault: user_version is left for the next release to set.
RecordPhase3Unstamped ==
    /\ Moves("record 1", "commit 1")
    /\ draft' = [draft EXCEPT !.telemetry.objects = @ \cup {"retry"},
                              !.telemetry.ledger = @ \cup {1}]
    /\ InTransaction

\* indexes, ledger row and user_version; then COMMIT
RecordPhase3 ==
    /\ Moves("record 1", "commit 1")
    /\ draft' = [draft EXCEPT !.telemetry.objects = @ \cup {"retry"},
                              !.telemetry.ledger = @ \cup {1}, !.telemetry.version = 1]
    /\ InTransaction

CommitPhase3 == Moves("commit 1", "phase4?") /\ Publish /\ draft' = draft

\* What init_db does with a file Phase 3 leaves or does not touch: migrate an
\* exact V1, accept an exact V2, and raise on anything else.
RequirePhase4 ==
    /\ at = "phase4?"
    /\ at' = IF NeedsPhase4(telemetry) /\ ExactV1(telemetry) THEN "fit"
             ELSE IF ~ NeedsPhase4(telemetry) /\ ExactV2(telemetry) THEN "script"
             ELSE "down"
    /\ draft' = Committed
    /\ InTransaction

\* _phase4_migrate: columns, and coefficients [b, a] of every old row
BackfillFits ==
    /\ Moves("fit", "pointers")
    /\ draft' = [draft EXCEPT !.telemetry.columns = @ \cup {"fit"}, !.telemetry.unfitted = {}]
    /\ InTransaction

\* calibration_active with the highest default of every device, and the indexes
PointToDefaults ==
    /\ Moves("pointers", "freeze")
    /\ \E pointers \in [Devices -> Ids \cup {None}] :
          /\ \A d \in Devices : Migrated(calibrations, d, pointers[d])
          /\ draft' = [draft EXCEPT !.telemetry.objects = @ \cup {"pointer", "history"},
                                    !.active = pointers]
    /\ InTransaction

\* triggers that make the history append-only, ledger row and user_version
RecordPhase4 ==
    /\ Moves("freeze", "commit 2")
    /\ draft' = [draft EXCEPT !.telemetry.objects = @ \cup {"immutable"},
                              !.telemetry.ledger = @ \cup {2}, !.telemetry.version = 2]
    /\ InTransaction

CommitPhase4 == Moves("commit 2", "script") /\ Publish /\ draft' = draft

-----------------------------------------------------------------------------
(* BrewingStore.initialize.                                                 *)

\* One CREATE ... IF NOT EXISTS of a script: on disk at once.
Creates(objects) ==
    /\ brewing' = [brewing EXCEPT !.objects = @ \cup objects]
    /\ UNCHANGED <<vars, researchVars, telemetry, draft, stops, asked>>

\* The opening script, in its order.  A new recipe_ingredients table has the
\* columns and the unique keys of schema 3.
Script ==
    \/ /\ at = "script" /\ "schema" \notin brewing.objects /\ at' = at
       /\ Creates({"schema"})
    \/ /\ at = "script" /\ "schema" \in brewing.objects /\ "base" \notin brewing.objects
       /\ at' = at /\ Creates({"base", "columns3"})
    \/ /\ at = "script" /\ {"schema", "base"} \subseteq brewing.objects
       /\ "documents" \notin brewing.objects /\ at' = at
       /\ Creates({"documents"})
    \/ /\ at = "script" /\ {"schema", "base", "documents"} \subseteq brewing.objects
       /\ "index" \notin brewing.objects /\ at' = at
       /\ Creates({"index"})

Scripted == {"schema", "base", "documents", "index"} \subseteq brewing.objects

\* Seeded fault: a file that has its version is taken for whole.
ReadVersionOnly ==
    /\ at = "script" /\ Scripted
    /\ \/ brewing.version = 0 /\ at' = "tables3"
       \/ brewing.version \in {1, 2} /\ at' = "columns3"
       \/ brewing.version = 3 /\ at' = "to 4"
       \/ brewing.version = 4 /\ at' = "to 5"
       \/ brewing.version = 5 /\ at' = "to 6"
       \/ brewing.version = 6 /\ at' = "finish"
       \/ brewing.version > 6 /\ at' = "down"
    /\ draft' = IF brewing.version = 0
                THEN [Committed EXCEPT !.brewing.version = 6] ELSE Committed
    /\ InTransaction

\* Which migrations to run, by the row of brew_schema.
ReadVersion ==
    /\ at = "script" /\ Scripted
    /\ \/ brewing.version = 0 /\ at' = "tables3"
       \/ brewing.version \in {1, 2} /\ at' = "columns3"
       \/ brewing.version = 3 /\ at' = "to 4"
       \/ brewing.version = 4 /\ at' = "to 5"
       \/ brewing.version = 5 /\ at' = "to 6"
       \/ brewing.version = 6 /\ at' = "tables3"
       \/ brewing.version > 6 /\ at' = "down"
    /\ draft' = IF brewing.version = 0
                THEN [Committed EXCEPT !.brewing.version = 6] ELSE Committed
    /\ InTransaction

\* _migrate_v2_to_v3: one transaction; a valid key is kept unless an earlier
\* row has it, and the UUIDs made for the others are new.
AddColumns3 ==
    /\ Moves("columns3", "keys3")
    /\ draft' = [draft EXCEPT !.brewing.objects = @ \cup {"columns3"}]
    /\ InTransaction

Kept(keys, i) == keys[i] # NoKey /\ ~ \E j \in Ingredients : j < i /\ keys[j] = keys[i]

Rekeyed(old, new) ==
    /\ Distinct(new)
    /\ \A i \in Ingredients : IF Kept(old, i) THEN new[i] = old[i]
                              ELSE new[i] \notin {old[j] : j \in Ingredients}

AssignKeys ==
    /\ Moves("keys3", "record 3")
    /\ \E keys \in [Ingredients -> Keys] :
          /\ Rekeyed(brewing.keys, keys)
          /\ draft' = [draft EXCEPT !.brewing.keys = keys]
    /\ InTransaction

\* UPDATE brew_schema SET version=... WHERE version=...
Raised(version, from, to) == IF version \in from THEN to ELSE version

Record3 ==
    /\ Moves("record 3", "commit 3")
    /\ draft' = [draft EXCEPT !.brewing.version = Raised(@, {1, 2}, 3)]
    /\ InTransaction

Commit3 == Moves("commit 3", "to 4") /\ Publish /\ draft' = draft

\* _migrate_v3_to_v4, and below v4 to v5 and v5 to v6: the script commits its
\* tables, the row follows in a transaction of its own.
Create4 == Moves("to 4", "record 4") /\ Creates({"tables4"})

Records(from, to, version) ==
    /\ Moves(from, to)
    /\ brewing' = [brewing EXCEPT !.version = Raised(@, {version - 1}, version)]
    /\ UNCHANGED <<vars, researchVars, telemetry, draft, stops, asked>>

Record4 == Records("record 4", "to 5", 4)

\* Seeded fault: the new version is recorded with the tables.
Create5Recorded ==
    /\ Moves("to 5", "version 1s")
    /\ brewing' = [brewing EXCEPT !.objects = @ \cup {"tables5"}, !.version = 5]
    /\ draft' = [Committed EXCEPT !.brewing = brewing']
    /\ UNCHANGED <<vars, researchVars, telemetry, stops, asked>>

Create5 ==
    /\ Moves("to 5", "version 1s")
    /\ brewing' = [brewing EXCEPT !.objects = @ \cup {"tables5"}]
    /\ draft' = [Committed EXCEPT !.brewing = brewing']
    /\ UNCHANGED <<vars, researchVars, telemetry, stops, asked>>

\* _migrate_v4_to_v5: INSERT OR IGNORE of version 1 of each document in turn
VersionDocument(d) ==
    /\ at = "version 1s" /\ at' = at
    /\ d \in Unversioned(draft.store)
    /\ \A e \in Unversioned(draft.store) : d <= e
    /\ draft' = [draft EXCEPT !.store.versions = Append(@,
          [document |-> d, no |-> 1, hash |-> draft.store.documents[d].content,
           quality |-> Unreviewed])]
    /\ InTransaction

Record5 ==
    /\ Moves("version 1s", "commit 5")
    /\ Unversioned(draft.store) = {}
    /\ draft' = [draft EXCEPT !.brewing.version = Raised(@, {4}, 5)]
    /\ InTransaction

Commit5 == Moves("commit 5", "to 6") /\ Publish /\ draft' = draft

Create6 == Moves("to 6", "record 6") /\ Creates({"tables6"})

Record6 == Records("record 6", "tables3", 6)

\* _ensure_v3_tables: executescript first commits the version of a new file.
Ensure3 ==
    /\ Moves("tables3", "keys?")
    /\ brewing' = [brewing EXCEPT !.objects = @ \cup {"tables3"},
                                  !.version = IF @ = 0 THEN draft.brewing.version ELSE @]
    /\ UNCHANGED <<vars, researchVars, telemetry, draft, stops, asked>>

\* _ensure_v3_indexes: the unique index on the keys
EnsureKeys ==
    /\ Moves("keys?", "tables4")
    /\ \A i, j \in Ingredients :
          brewing.keys[i] # NoKey /\ brewing.keys[i] = brewing.keys[j] => i = j
    /\ Creates({"keys3"})

\* _ensure_v4_tables, _ensure_v5_tables, _ensure_v6_tables
Ensure4 == Moves("tables4", "tables5") /\ Creates({"tables4"})
Ensure5 == Moves("tables5", "tables6") /\ Creates({"tables5"})
Ensure6 == Moves("tables6", "finish") /\ Creates({"tables6"})

\* The index is rebuilt and the file stamped, unless the foreign key check
\* finds an orphan: one transaction.
Finish ==
    /\ at = "finish"
    /\ IF brewing.orphan
       THEN at' = "down" /\ UNCHANGED <<brewing, store>>
       ELSE /\ at' = "serving"
            /\ brewing' = [brewing EXCEPT !.stamp = 6]
            /\ store' = [store EXCEPT !.indexed = DOMAIN store.documents]
    /\ UNCHANGED <<vars, links, retrieval, ran, telemetry, draft, stops, asked>>

-----------------------------------------------------------------------------
(* The process is killed, or a statement fails and it ends.                 *)
Stop ==
    /\ at # "down" /\ stops < MaxStops
    /\ at' = "down"
    /\ stops' = stops + 1
    /\ draft' = Committed
    /\ retrieval' = Idle
    /\ view' = [r \in Readers |-> None]
    /\ UNCHANGED <<known, calibrations, lastId, active, listed, sampled,
                   store, links, ran, telemetry, brewing, asked>>

\* Requests.  The databases have nothing in common, so a behaviour whose
\* clients use both shows nothing that two behaviours do not.
Serve ==
    /\ at = "serving"
    /\ \/ asked = "telemetry" /\ Next /\ UNCHANGED researchVars
       \/ asked = "brewing" /\ ResearchNext /\ UNCHANGED vars
    /\ UNCHANGED upgradeVars

StartUp ==
    \/ Start \/ CreateFresh \/ CommitFresh
    \/ AddOverrides \/ BackfillDates \/ RecordPhase3 \/ CommitPhase3
    \/ RequirePhase4 \/ BackfillFits \/ PointToDefaults \/ RecordPhase4 \/ CommitPhase4
    \/ Script \/ ReadVersion
    \/ AddColumns3 \/ AssignKeys \/ Record3 \/ Commit3
    \/ Create4 \/ Record4
    \/ Create5 \/ (\E d \in DOMAIN draft.store.documents : VersionDocument(d))
    \/ Record5 \/ Commit5
    \/ Create6 \/ Record6
    \/ Ensure3 \/ EnsureKeys \/ Ensure4 \/ Ensure5 \/ Ensure6 \/ Finish

UpgradeInit ==
    /\ \E files \in Installations :
          /\ telemetry = files.telemetry /\ brewing = files.brewing
          /\ calibrations = files.rows /\ active = files.active
          /\ store = files.store
    /\ known = {x.device : x \in calibrations}
    /\ lastId \in {n \in {0} \cup Ids : \A x \in calibrations : x.id <= n}
    /\ view = [r \in Readers |-> None]
    /\ listed = None
    /\ sampled = None
    /\ links = {}
    /\ retrieval = Idle
    /\ ran = {}
    /\ at = "down"
    /\ draft = Committed
    /\ stops = 0
    /\ asked \in {"telemetry", "brewing"}

UpgradeNext == StartUp \/ Stop \/ Serve

\* The container is restarted and the start-up takes its steps; clients and
\* the worker need not do anything, and stops are bounded.
UpgradeSpec == UpgradeInit /\ [][UpgradeNext]_allVars /\ WF_allVars(StartUp)

-----------------------------------------------------------------------------
UpgradeTypeOK ==
    /\ telemetry \in Telemetries /\ brewing \in Brewings
    /\ store \in Stores /\ links \subseteq Links
    /\ draft.telemetry \in Telemetries /\ draft.brewing \in Brewings
    /\ draft.store \in Stores
    /\ active \in [Devices -> Ids \cup {None}] /\ draft.active \in [Devices -> Ids \cup {None}]
    /\ stops \in 0 .. MaxStops

\* Wherever a start-up is cut off, what the files record as done is done: a
\* ledger row or user_version of the telemetry file and the row and
\* user_version of the brewing file never outrun the columns, the backfilled
\* rows, the keys and the versions they stand for, or a later start would skip
\* them for good.
VersionsAreEarned == EarnedTelemetry(telemetry) /\ EarnedBrewing(brewing, store)

\* Requests are answered only from whole databases: the telemetry file is an
\* exact V2 and the brewing file has every object of schema 6, distinct
\* ingredient keys, and all its research documents versioned and indexed; a
\* file of another shape is never served.
ServedIsWhole ==
    at = "serving" =>
        /\ ExactV2(telemetry) /\ telemetry.undated = {}
        /\ brewing.version = 6 /\ brewing.stamp = 6 /\ ~ brewing.orphan
        /\ brewing.objects = BrewObjects /\ Distinct(brewing.keys)
        /\ Unversioned(store) = {} /\ store.indexed = DOMAIN store.documents

\* An installation some release can have left is served again, however often
\* the start-up is killed on the way.
Supported ==
    /\ "stray" \notin telemetry.objects /\ telemetry.ledger \subseteq {1, 2}
    /\ telemetry.version \in telemetry.ledger \/ telemetry.ledger = {}
    /\ brewing.version <= 6 /\ ~ brewing.orphan

UpgradeEnds == Supported ~> (at = "serving")
=============================================================================
