---------------------------- MODULE UpgradesProofs ----------------------------
(***************************************************************************)
(* Theorems about the start-up and the requests it leads to, for any files  *)
(* that releases have left and any number of stops: what the files record,  *)
(* what is served, and what calibrations and citations may rely on.         *)
(*                                                                         *)
(* The argument follows the process.  Each place of the start-up says how   *)
(* far the open transaction has come from the files, and the commit at its  *)
(* end publishes a draft that has earned its version; where the brewing     *)
(* scripts commit by themselves the version row is still the old one.       *)
(***************************************************************************)
EXTENDS Upgrades, CalibrationsProofs, WellFoundedInduction

Drafts ==
    [telemetry : Telemetries, active : [Devices -> Ids \cup {None}],
     brewing : Brewings, store : Stores]

TelemetryPlaces ==
    {"fresh", "commit fresh", "overrides", "dates", "record 1", "commit 1", "phase4?",
     "fit", "pointers", "freeze", "commit 2"}

\* The version row has been read and is acted upon.
MigrationPlaces ==
    {"columns3", "keys3", "record 3", "commit 3", "to 4", "record 4", "to 5", "version 1s",
     "commit 5", "to 6", "record 6", "tables3", "keys?", "tables4", "tables5", "tables6",
     "finish"}

BrewingPlaces == MigrationPlaces \cup {"script"}

Typed ==
    /\ at \in TelemetryPlaces \cup BrewingPlaces \cup {"down", "serving"}
    /\ telemetry \in Telemetries /\ brewing \in Brewings /\ store \in Stores
    /\ active \in [Devices -> Ids \cup {None}]
    /\ draft \in Drafts

\* A transaction is about one of the files.
Apart ==
    /\ at \in TelemetryPlaces => draft.brewing = brewing /\ draft.store = store
    /\ at \in TelemetryPlaces \ {"freeze", "commit 2"} => draft.active = active
    /\ at \in BrewingPlaces => draft.telemetry = telemetry /\ draft.active = active
    /\ at \in BrewingPlaces \cup {"serving"} => ExactV2(telemetry) /\ telemetry.undated = {}

-----------------------------------------------------------------------------
(* How far the telemetry transaction has come.                              *)

\* Neither migration is recorded.
Unrecorded(t) == t.ledger \cap {1, 2} = {} /\ t.version = 0

SameRecord(t, u) == t.ledger = u.ledger /\ t.version = u.version

TelemetryDraft ==
    LET t == telemetry
        u == draft.telemetry
    IN  /\ at \in {"fresh", "overrides", "fit"} => u = t
        /\ at = "fresh" => IsFresh(t)
        /\ at = "commit fresh" => ExactV2(u) /\ u.undated = {}
        /\ at \in {"overrides", "dates", "record 1"} => Unrecorded(u)
        /\ at \in {"dates", "record 1"} => /\ "device" \in u.columns
                                           /\ {"rows", "ledger"} \subseteq u.objects
        /\ at = "record 1" => "sample" \in u.columns /\ u.undated = {}
        /\ at = "commit 1" => EarnedTelemetry(u) /\ "rows" \in u.objects
        /\ at \in {"fit", "pointers", "freeze"} => ExactV1(t) /\ t.undated = {}
        /\ at \in {"pointers", "freeze"} =>
              SameRecord(t, u) /\ u.columns = Columns /\ u.unfitted = {} /\ u.undated = {}
        /\ at = "pointers" => u.objects = t.objects
        /\ at = "freeze" => u.objects = t.objects \cup {"pointer", "history"}
        /\ at = "commit 2" => ExactV2(u) /\ u.undated = {}
        /\ at \in {"freeze", "commit 2"} =>
              \A d \in Devices : Migrated(calibrations, d, draft.active[d])

\* Rows have a table, calibrations an id of their own.
Founded == "rows" \notin telemetry.objects => telemetry.undated = {} /\ telemetry.unfitted = {}

LEMMA ExactIsEarned ==
    ASSUME NEW t \in Telemetries, ExactV2(t), t.undated = {}
    PROVE  EarnedTelemetry(t)
    BY DEF ExactV2, EarnedTelemetry, Objects, Columns, Telemetries

LEMMA UnrecordedIfNeeded ==
    ASSUME NEW t \in Telemetries, EarnedTelemetry(t), NeedsPhase3(t)
    PROVE  Unrecorded(t)
    BY DEF NeedsPhase3, EarnedTelemetry, Unrecorded, Telemetries

LEMMA LedgerNumbers == {1, 2} \subseteq 1 .. 3 /\ {1, 2} \subseteq 0 .. 2
    OBVIOUS

\* Fields of the records that a draft is changed in.
LEMMA DraftFields ==
    ASSUME draft \in Drafts
    PROVE  /\ draft.telemetry \in Telemetries /\ draft.brewing \in Brewings
           /\ draft.store \in Stores /\ draft.active \in [Devices -> Ids \cup {None}]
           /\ \A u \in Telemetries :
                 /\ [draft EXCEPT !.telemetry = u] \in Drafts
                 /\ [draft EXCEPT !.telemetry = u].telemetry = u
                 /\ [draft EXCEPT !.telemetry = u].brewing = draft.brewing
                 /\ [draft EXCEPT !.telemetry = u].store = draft.store
                 /\ [draft EXCEPT !.telemetry = u].active = draft.active
    BY DEF Drafts

LEMMA CommittedFields ==
    ASSUME Typed
    PROVE  /\ Committed \in Drafts
           /\ Committed.telemetry = telemetry /\ Committed.active = active
           /\ Committed.brewing = brewing /\ Committed.store = store
    BY DEF Typed, Committed, Drafts

TelemetryInv == Typed /\ Apart /\ TelemetryDraft /\ Founded /\ EarnedTelemetry(telemetry)

\* An open transaction leaves the files alone.
LEMMA InTransactionKeeps ==
    ASSUME InTransaction
    PROVE  UNCHANGED <<known, calibrations, lastId, active, view, listed, sampled, store, links,
                       retrieval, ran, telemetry, brewing, stops, asked>>
    BY DEF InTransaction, vars, researchVars

LEMMA StartKeeps ==
    ASSUME TelemetryInv, Start
    PROVE  TelemetryInv'
<1>1. /\ draft' = Committed
      /\ UNCHANGED <<telemetry, brewing, store, active, calibrations>>
    BY InTransactionKeeps DEF Start
<1>2. /\ draft' \in Drafts /\ draft'.telemetry = telemetry /\ draft'.active = active
      /\ draft'.brewing = brewing /\ draft'.store = store
    BY <1>1, CommittedFields DEF TelemetryInv
<1>3. \/ at' = "fresh" /\ IsFresh(telemetry)
      \/ at' = "overrides" /\ NeedsPhase3(telemetry)
      \/ at' = "phase4?"
    BY DEF Start
<1>4. at' = "overrides" => Unrecorded(telemetry)
    BY <1>3, UnrecordedIfNeeded DEF TelemetryInv, Typed
<1>5. Typed' /\ Apart'
    BY <1>1, <1>2, <1>3 DEF TelemetryInv, Typed, Apart, TelemetryPlaces, BrewingPlaces, MigrationPlaces
<1>6. TelemetryDraft'
    BY <1>1, <1>2, <1>3, <1>4 DEF TelemetryDraft
<1> QED
    BY <1>1, <1>5, <1>6 DEF TelemetryInv, Founded

LEMMA CreateFreshKeeps ==
    ASSUME TelemetryInv, CreateFresh
    PROVE  TelemetryInv'
<1> DEFINE u == [draft.telemetry EXCEPT !.columns = Columns, !.objects = Objects \ {"stray"},
                                        !.ledger = {1, 2}, !.version = 2]
<1>1. /\ at = "fresh" /\ at' = "commit fresh"
      /\ draft' = [draft EXCEPT !.telemetry = u]
      /\ UNCHANGED <<telemetry, brewing, store, active, calibrations>>
    BY InTransactionKeeps DEF CreateFresh, Moves
<1>2. draft.telemetry = telemetry /\ telemetry.undated = {} /\ telemetry.unfitted = {}
    BY <1>1 DEF TelemetryInv, TelemetryDraft, IsFresh, Founded
<1>3. u \in Telemetries /\ ExactV2(u) /\ u.undated = {}
  <2>1. draft.telemetry \in Telemetries
    BY DraftFields DEF TelemetryInv, Typed
  <2>2. /\ u \in Telemetries /\ u.columns = Columns /\ u.objects = Objects \ {"stray"}
        /\ u.ledger = {1, 2} /\ u.version = 2
        /\ u.undated = draft.telemetry.undated /\ u.unfitted = draft.telemetry.unfitted
    BY <2>1, LedgerNumbers DEF Telemetries
  <2> HIDE DEF u
  <2> QED
    BY <1>2, <2>2 DEF ExactV2
<1> HIDE DEF u
<1>4. /\ draft' \in Drafts /\ draft'.telemetry = u /\ draft'.active = active
      /\ draft'.brewing = brewing /\ draft'.store = store
    BY <1>1, <1>3, DraftFields DEF TelemetryInv, Typed, Apart, TelemetryPlaces
<1>5. Typed' /\ Apart'
    BY <1>1, <1>4 DEF TelemetryInv, Typed, Apart, TelemetryPlaces, BrewingPlaces, MigrationPlaces
<1>6. TelemetryDraft'
    BY <1>1, <1>3, <1>4 DEF TelemetryDraft
<1> QED
    BY <1>1, <1>5, <1>6 DEF TelemetryInv, Founded

LEMMA AddOverridesKeeps ==
    ASSUME TelemetryInv, AddOverrides
    PROVE  TelemetryInv'
<1> DEFINE u == [draft.telemetry EXCEPT !.columns = @ \cup {"device"},
                                        !.objects = @ \cup {"ledger"}]
<1>0. /\ at = "overrides" /\ UNCHANGED <<telemetry, brewing, store, active, calibrations>>
    BY InTransactionKeeps DEF AddOverrides
<1>1. CASE "rows" \in telemetry.objects
  <2>1. at' = "dates" /\ draft' = [draft EXCEPT !.telemetry = u]
    <3>1. draft \in Drafts
      BY DEF TelemetryInv, Typed
    <3> QED
      BY <1>1, <3>1 DEF AddOverrides, Drafts, Telemetries
  <2>2. draft.telemetry = telemetry /\ Unrecorded(draft.telemetry)
    BY <1>0 DEF TelemetryInv, TelemetryDraft
  <2>3. /\ u \in Telemetries /\ Unrecorded(u) /\ "device" \in u.columns
        /\ {"rows", "ledger"} \subseteq u.objects
    BY <1>1, <2>2 DEF TelemetryInv, Typed, Telemetries, Unrecorded, Objects, Columns
  <2> HIDE DEF u
  <2>4. /\ draft' \in Drafts /\ draft'.telemetry = u /\ draft'.active = active
        /\ draft'.brewing = brewing /\ draft'.store = store
    BY <1>0, <2>1, <2>3, DraftFields DEF TelemetryInv, Typed, Apart, TelemetryPlaces
  <2>5. Typed' /\ Apart'
    BY <1>0, <2>1, <2>4
       DEF TelemetryInv, Typed, Apart, TelemetryPlaces, BrewingPlaces, MigrationPlaces
  <2>6. TelemetryDraft'
    BY <2>1, <2>3, <2>4 DEF TelemetryDraft
  <2> QED
    BY <1>0, <2>5, <2>6 DEF TelemetryInv, Founded
<1>2. CASE "rows" \notin telemetry.objects
  <2>1. at' = "down" /\ draft' = Committed
    BY <1>2 DEF AddOverrides
  <2>2. Typed' /\ Apart' /\ TelemetryDraft'
    BY <1>0, <2>1, CommittedFields
       DEF TelemetryInv, Typed, Apart, TelemetryDraft, TelemetryPlaces, BrewingPlaces,
           MigrationPlaces
  <2> QED
    BY <1>0, <2>2 DEF TelemetryInv, Founded
<1> QED
    BY <1>1, <1>2

LEMMA BackfillDatesKeeps ==
    ASSUME TelemetryInv, BackfillDates
    PROVE  TelemetryInv'
<1> DEFINE u == [draft.telemetry EXCEPT !.columns = @ \cup {"sample"}, !.undated = {}]
<1>1. /\ at = "dates" /\ at' = "record 1"
      /\ UNCHANGED <<telemetry, brewing, store, active, calibrations>>
    BY InTransactionKeeps DEF BackfillDates, Moves
<1>2. draft' = [draft EXCEPT !.telemetry = u]
    BY DEF BackfillDates, TelemetryInv, Typed, Drafts, Telemetries
<1>3. /\ Unrecorded(draft.telemetry) /\ "device" \in draft.telemetry.columns
      /\ {"rows", "ledger"} \subseteq draft.telemetry.objects
    BY <1>1 DEF TelemetryInv, TelemetryDraft
<1>4. /\ u \in Telemetries /\ Unrecorded(u) /\ u.undated = {}
      /\ {"device", "sample"} \subseteq u.columns /\ {"rows", "ledger"} \subseteq u.objects
  <2>1. draft.telemetry \in Telemetries
    BY DraftFields DEF TelemetryInv, Typed
  <2>2. /\ u \in Telemetries /\ u.columns = draft.telemetry.columns \cup {"sample"}
        /\ u.objects = draft.telemetry.objects /\ SameRecord(draft.telemetry, u)
        /\ u.undated = {}
    BY <2>1 DEF Telemetries, SameRecord, Columns
  <2> HIDE DEF u
  <2> QED
    BY <1>3, <2>2 DEF SameRecord, Unrecorded
<1> HIDE DEF u
<1>5. /\ draft' \in Drafts /\ draft'.telemetry = u /\ draft'.active = active
      /\ draft'.brewing = brewing /\ draft'.store = store
    BY <1>1, <1>2, <1>4, DraftFields DEF TelemetryInv, Typed, Apart, TelemetryPlaces
<1>6. Typed' /\ Apart'
    BY <1>1, <1>5 DEF TelemetryInv, Typed, Apart, TelemetryPlaces, BrewingPlaces, MigrationPlaces
<1>7. TelemetryDraft'
    BY <1>1, <1>4, <1>5 DEF TelemetryDraft
<1> QED
    BY <1>1, <1>6, <1>7 DEF TelemetryInv, Founded

LEMMA RecordPhase3Keeps ==
    ASSUME TelemetryInv, RecordPhase3
    PROVE  TelemetryInv'
<1> DEFINE u == [draft.telemetry EXCEPT !.objects = @ \cup {"retry"},
                                        !.ledger = @ \cup {1}, !.version = 1]
<1>1. /\ at = "record 1" /\ at' = "commit 1"
      /\ UNCHANGED <<telemetry, brewing, store, active, calibrations>>
    BY InTransactionKeeps DEF RecordPhase3, Moves
<1>2. draft' = [draft EXCEPT !.telemetry = u]
    BY DEF RecordPhase3, TelemetryInv, Typed, Drafts, Telemetries
<1>3. /\ Unrecorded(draft.telemetry) /\ {"device", "sample"} \subseteq draft.telemetry.columns
      /\ {"rows", "ledger"} \subseteq draft.telemetry.objects /\ draft.telemetry.undated = {}
    BY <1>1 DEF TelemetryInv, TelemetryDraft
<1>4. u \in Telemetries /\ EarnedTelemetry(u) /\ "rows" \in u.objects
  <2>1. draft.telemetry \in Telemetries
    BY DraftFields DEF TelemetryInv, Typed
  <2>2. /\ u \in Telemetries /\ u.columns = draft.telemetry.columns
        /\ u.objects = draft.telemetry.objects \cup {"retry"}
        /\ u.ledger = draft.telemetry.ledger \cup {1} /\ u.version = 1
        /\ u.undated = draft.telemetry.undated
    BY <2>1, LedgerNumbers DEF Telemetries, Objects
  <2>3. 2 \notin u.ledger
    BY <1>3, <2>2 DEF Unrecorded
  <2> HIDE DEF u
  <2> QED
    BY <1>3, <2>2, <2>3 DEF EarnedTelemetry
<1> HIDE DEF u
<1>5. /\ draft' \in Drafts /\ draft'.telemetry = u /\ draft'.active = active
      /\ draft'.brewing = brewing /\ draft'.store = store
    BY <1>1, <1>2, <1>4, DraftFields DEF TelemetryInv, Typed, Apart, TelemetryPlaces
<1>6. Typed' /\ Apart'
    BY <1>1, <1>5 DEF TelemetryInv, Typed, Apart, TelemetryPlaces, BrewingPlaces, MigrationPlaces
<1>7. TelemetryDraft'
    BY <1>1, <1>4, <1>5 DEF TelemetryDraft
<1> QED
    BY <1>1, <1>6, <1>7 DEF TelemetryInv, Founded

LEMMA RequirePhase4Keeps ==
    ASSUME TelemetryInv, RequirePhase4
    PROVE  TelemetryInv'
<1>1. draft' = Committed /\ UNCHANGED <<telemetry, brewing, store, active, calibrations>>
    BY InTransactionKeeps DEF RequirePhase4
<1>2. /\ draft' \in Drafts /\ draft'.telemetry = telemetry /\ draft'.active = active
      /\ draft'.brewing = brewing /\ draft'.store = store
    BY <1>1, CommittedFields DEF TelemetryInv
<1>3. \/ at' = "fit" /\ ExactV1(telemetry)
      \/ at' = "script" /\ ExactV2(telemetry)
      \/ at' = "down"
    BY DEF RequirePhase4
<1>4. at' # "down" => telemetry.undated = {}
    BY <1>3 DEF TelemetryInv, EarnedTelemetry, ExactV1, ExactV2
<1>5. Typed' /\ Apart'
    BY <1>1, <1>2, <1>3, <1>4
       DEF TelemetryInv, Typed, Apart, TelemetryPlaces, BrewingPlaces, MigrationPlaces
<1>6. TelemetryDraft'
    BY <1>1, <1>2, <1>3, <1>4 DEF TelemetryDraft
<1> QED
    BY <1>1, <1>5, <1>6 DEF TelemetryInv, Founded

LEMMA BackfillFitsKeeps ==
    ASSUME TelemetryInv, BackfillFits
    PROVE  TelemetryInv'
<1> DEFINE u == [draft.telemetry EXCEPT !.columns = @ \cup {"fit"}, !.unfitted = {}]
<1>1. /\ at = "fit" /\ at' = "pointers"
      /\ UNCHANGED <<telemetry, brewing, store, active, calibrations>>
    BY InTransactionKeeps DEF BackfillFits, Moves
<1>2. draft' = [draft EXCEPT !.telemetry = u]
    BY DEF BackfillFits, TelemetryInv, Typed, Drafts, Telemetries
<1>3. draft.telemetry = telemetry /\ ExactV1(telemetry) /\ telemetry.undated = {}
    BY <1>1 DEF TelemetryInv, TelemetryDraft
<1>4. /\ u \in Telemetries /\ SameRecord(telemetry, u) /\ u.columns = Columns
      /\ u.unfitted = {} /\ u.undated = {} /\ u.objects = telemetry.objects
    BY <1>3, DraftFields DEF TelemetryInv, Typed, Telemetries, SameRecord, ExactV1, Columns
<1> HIDE DEF u
<1>5. /\ draft' \in Drafts /\ draft'.telemetry = u /\ draft'.active = active
      /\ draft'.brewing = brewing /\ draft'.store = store
    BY <1>1, <1>2, <1>4, DraftFields DEF TelemetryInv, Typed, Apart, TelemetryPlaces
<1>6. Typed' /\ Apart'
    BY <1>1, <1>5 DEF TelemetryInv, Typed, Apart, TelemetryPlaces, BrewingPlaces, MigrationPlaces
<1>7. TelemetryDraft'
    BY <1>1, <1>3, <1>4, <1>5 DEF TelemetryDraft
<1> QED
    BY <1>1, <1>6, <1>7 DEF TelemetryInv, Founded

LEMMA PointToDefaultsKeeps ==
    ASSUME TelemetryInv, PointToDefaults
    PROVE  TelemetryInv'
<1> DEFINE u == [draft.telemetry EXCEPT !.objects = @ \cup {"pointer", "history"}]
<1>1. PICK pointers \in [Devices -> Ids \cup {None}] :
            /\ \A d \in Devices : Migrated(calibrations, d, pointers[d])
            /\ draft' = [draft EXCEPT !.telemetry.objects = @ \cup {"pointer", "history"},
                                      !.active = pointers]
    BY DEF PointToDefaults
<1>2. /\ at = "pointers" /\ at' = "freeze"
      /\ UNCHANGED <<telemetry, brewing, store, active, calibrations>>
    BY InTransactionKeeps DEF PointToDefaults, Moves
<1>3. /\ draft.telemetry \in Telemetries /\ ExactV1(telemetry) /\ telemetry.undated = {}
      /\ SameRecord(telemetry, draft.telemetry) /\ draft.telemetry.columns = Columns
      /\ draft.telemetry.unfitted = {} /\ draft.telemetry.undated = {}
      /\ draft.telemetry.objects = telemetry.objects
    BY <1>2, DraftFields DEF TelemetryInv, Typed, TelemetryDraft
<1>4. /\ u \in Telemetries /\ SameRecord(telemetry, u) /\ u.columns = Columns
      /\ u.unfitted = {} /\ u.undated = {}
      /\ u.objects = telemetry.objects \cup {"pointer", "history"}
    BY <1>3 DEF Telemetries, SameRecord, Objects
<1>5. /\ draft' \in Drafts /\ draft'.telemetry = u /\ draft'.active = pointers
      /\ draft'.brewing = draft.brewing /\ draft'.store = draft.store
    <2>1. u \in Telemetries
      BY <1>4
    <2>2. draft' = [draft EXCEPT !.telemetry = u, !.active = pointers]
      BY <1>1 DEF TelemetryInv, Typed, Drafts
    <2> HIDE DEF u
    <2> QED
      BY <2>1, <2>2 DEF TelemetryInv, Typed, Drafts
<1> HIDE DEF u
<1>6. draft'.brewing = brewing /\ draft'.store = store
    BY <1>2, <1>5 DEF TelemetryInv, Apart, TelemetryPlaces
<1>7. Typed' /\ Apart'
    BY <1>2, <1>5, <1>6
       DEF TelemetryInv, Typed, Apart, TelemetryPlaces, BrewingPlaces, MigrationPlaces
<1>8. TelemetryDraft'
    BY <1>1, <1>2, <1>3, <1>4, <1>5 DEF TelemetryDraft
<1> QED
    BY <1>2, <1>7, <1>8 DEF TelemetryInv, Founded

LEMMA RecordPhase4Keeps ==
    ASSUME TelemetryInv, RecordPhase4
    PROVE  TelemetryInv'
<1> DEFINE u == [draft.telemetry EXCEPT !.objects = @ \cup {"immutable"},
                                        !.ledger = @ \cup {2}, !.version = 2]
<1>1. /\ at = "freeze" /\ at' = "commit 2"
      /\ UNCHANGED <<telemetry, brewing, store, active, calibrations>>
    BY InTransactionKeeps DEF RecordPhase4, Moves
<1>2. draft' = [draft EXCEPT !.telemetry = u]
    BY DEF RecordPhase4, TelemetryInv, Typed, Drafts, Telemetries
<1>3. /\ draft.telemetry \in Telemetries /\ ExactV1(telemetry)
      /\ SameRecord(telemetry, draft.telemetry) /\ draft.telemetry.columns = Columns
      /\ draft.telemetry.unfitted = {} /\ draft.telemetry.undated = {}
      /\ draft.telemetry.objects = telemetry.objects \cup {"pointer", "history"}
      /\ \A d \in Devices : Migrated(calibrations, d, draft.active[d])
    BY <1>1, DraftFields DEF TelemetryInv, Typed, TelemetryDraft
<1>4. u \in Telemetries /\ ExactV2(u) /\ u.undated = {}
  <2>1. /\ u \in Telemetries /\ u.columns = Columns
        /\ u.objects = telemetry.objects \cup {"pointer", "history", "immutable"}
        /\ u.ledger = telemetry.ledger \cup {2} /\ u.version = 2
        /\ u.unfitted = {} /\ u.undated = {}
    BY <1>3, LedgerNumbers DEF Telemetries, SameRecord, Objects
  <2> HIDE DEF u
  <2> QED
    BY <1>3, <2>1 DEF ExactV1, ExactV2, Objects
<1> HIDE DEF u
<1>5. /\ draft' \in Drafts /\ draft'.telemetry = u /\ draft'.active = draft.active
      /\ draft'.brewing = brewing /\ draft'.store = store
    BY <1>1, <1>2, <1>4, DraftFields DEF TelemetryInv, Typed, Apart, TelemetryPlaces
<1>6. Typed' /\ Apart'
    BY <1>1, <1>5 DEF TelemetryInv, Typed, Apart, TelemetryPlaces, BrewingPlaces, MigrationPlaces
<1>7. TelemetryDraft'
    BY <1>1, <1>3, <1>4, <1>5 DEF TelemetryDraft
<1> QED
    BY <1>1, <1>6, <1>7 DEF TelemetryInv, Founded

\* The commits publish a draft that has earned what it records.
LEMMA TelemetryCommits ==
    ASSUME TelemetryInv, CommitFresh \/ CommitPhase3 \/ CommitPhase4
    PROVE  /\ TelemetryInv'
           /\ UNCHANGED <<brewing, store, calibrations, retrieval, links, draft>>
           /\ active' = draft.active
           /\ at' \in {"script", "phase4?"} /\ at \in TelemetryPlaces
<1>1. /\ telemetry' = draft.telemetry /\ active' = draft.active /\ brewing' = draft.brewing
      /\ store' = draft.store /\ draft' = draft /\ UNCHANGED <<calibrations, retrieval, links>>
    BY DEF CommitFresh, CommitPhase3, CommitPhase4, Publish
<1>2. /\ at \in {"commit fresh", "commit 1", "commit 2"}
      /\ at' = IF at = "commit 1" THEN "phase4?" ELSE "script"
    BY DEF CommitFresh, CommitPhase3, CommitPhase4, Moves
<1>3. brewing' = brewing /\ store' = store
    BY <1>1, <1>2 DEF TelemetryInv, Apart, TelemetryPlaces
<1>4. draft.telemetry \in Telemetries /\ draft.active \in [Devices -> Ids \cup {None}]
    BY DraftFields DEF TelemetryInv, Typed
<1>5. at # "commit 1" => ExactV2(draft.telemetry) /\ draft.telemetry.undated = {}
    BY <1>2 DEF TelemetryInv, TelemetryDraft
<1>6. EarnedTelemetry(draft.telemetry) /\ "rows" \in draft.telemetry.objects
  <2>1. CASE at = "commit 1"
    BY <2>1 DEF TelemetryInv, TelemetryDraft
  <2>2. CASE at # "commit 1"
    BY <1>4, <1>5, <2>2, ExactIsEarned DEF ExactV2, Objects
  <2> QED
    BY <2>1, <2>2
<1>7. Typed' /\ Apart'
    BY <1>1, <1>2, <1>3, <1>4, <1>5
       DEF TelemetryInv, Typed, Apart, TelemetryPlaces, BrewingPlaces, MigrationPlaces
<1>8. TelemetryDraft'
    BY <1>2 DEF TelemetryDraft
<1> QED
    BY <1>1, <1>2, <1>3, <1>6, <1>7, <1>8 DEF TelemetryInv, Founded, TelemetryPlaces
-----------------------------------------------------------------------------
(* Documents and their versions.                                            *)

LEMMA Appended ==
    ASSUME NEW S, NEW seq \in Seq(S), NEW e \in S
    PROVE  /\ Append(seq, e) \in Seq(S)
           /\ DOMAIN Append(seq, e) = DOMAIN seq \cup {Len(seq) + 1}
           /\ Len(seq) + 1 \notin DOMAIN seq /\ DOMAIN seq \subseteq 1 .. Len(seq)
           /\ Len(seq) \in Nat
           /\ \A i \in DOMAIN seq : Append(seq, e)[i] = seq[i]
           /\ Append(seq, e)[Len(seq) + 1] = e
    OBVIOUS

LEMMA Stored1 ==
    ASSUME NEW s \in Stores
    PROVE  /\ s.documents \in Seq(Documents) /\ s.versions \in Seq(Versions)
           /\ s.indexed \in SUBSET Nat
           /\ \A d \in DOMAIN s.documents : d \in Nat /\ s.documents[d] \in Documents
           /\ \A v \in DOMAIN s.versions :
                 /\ v \in Nat /\ s.versions[v] \in Versions
                 /\ s.versions[v].document \in Nat /\ s.versions[v].no \in Nat
<1>1. s.documents \in Seq(Documents) /\ s.versions \in Seq(Versions) /\ s.indexed \in SUBSET Nat
    BY DEF Stores
<1>2. ASSUME NEW S, NEW seq \in Seq(S), NEW i \in DOMAIN seq
      PROVE  i \in Nat /\ seq[i] \in S
    OBVIOUS
<1>3. \A v \in DOMAIN s.versions : v \in Nat /\ s.versions[v] \in Versions
    BY <1>1, <1>2
<1> QED
    BY <1>1, <1>2, <1>3 DEF Versions

\* All of s is in t.
Extends(s, t) ==
    /\ \A d \in DOMAIN s.documents : d \in DOMAIN t.documents /\ t.documents[d] = s.documents[d]
    /\ \A v \in DOMAIN s.versions :
          /\ v \in DOMAIN t.versions /\ t.versions[v].document = s.versions[v].document
          /\ t.versions[v].hash = s.versions[v].hash

\* Whether documents have versions that are of them is seen from the numbering.
LEMMA VersionedIf ==
    ASSUME NEW s \in Stores, Numbered(s)
    PROVE  Unversioned(s) =
              {d \in DOMAIN s.documents : \A v \in DOMAIN s.versions : s.versions[v].document # d}
    BY DEF Unversioned, Numbered

\* A document that comes last, or is the only version 1 among others, is numbered.
LEMMA OneMoreVersion ==
    ASSUME NEW s \in Stores, Numbered(s), NEW t \in Stores,
           NEW e \in Versions, t.versions = Append(s.versions, e),
           \A d \in DOMAIN s.documents : d \in DOMAIN t.documents /\ t.documents[d] = s.documents[d],
           e.document \in DOMAIN t.documents, e.hash = t.documents[e.document].content,
           \A v \in DOMAIN s.versions :
              /\ s.versions[v].document # e.document
              /\ t.documents[s.versions[v].document].url = t.documents[e.document].url =>
                    /\ s.versions[v].document < e.document => s.versions[v].no <= e.no
                    /\ e.document < s.versions[v].document => e.no <= s.versions[v].no
    PROVE  Numbered(t)
<1> DEFINE new == Len(s.versions) + 1
<1>1. /\ DOMAIN t.versions = DOMAIN s.versions \cup {new} /\ new \notin DOMAIN s.versions
      /\ \A v \in DOMAIN s.versions : t.versions[v] = s.versions[v]
      /\ t.versions[new] = e
    BY Stored1, Appended
<1> HIDE DEF new
<1>2. \A v \in DOMAIN s.versions :
         /\ s.versions[v].document \in DOMAIN s.documents
         /\ s.versions[v].hash = s.documents[s.versions[v].document].content
    BY DEF Numbered
<1>3. \A v \in DOMAIN s.versions :
         /\ t.versions[v].document \in DOMAIN t.documents
         /\ t.documents[t.versions[v].document] = s.documents[s.versions[v].document]
    BY <1>1, <1>2
<1>4. ASSUME NEW v \in DOMAIN t.versions
      PROVE  /\ t.versions[v].document \in DOMAIN t.documents
             /\ t.versions[v].hash = t.documents[t.versions[v].document].content
    BY <1>1, <1>2, <1>3
<1>5. ASSUME NEW v \in DOMAIN t.versions, NEW w \in DOMAIN t.versions
      PROVE  /\ t.versions[v].document = t.versions[w].document => v = w
             /\ UrlOf(t, v) = UrlOf(t, w) /\ t.versions[v].document < t.versions[w].document
                   => t.versions[v].no <= t.versions[w].no
  <2>1. CASE v \in DOMAIN s.versions /\ w \in DOMAIN s.versions
    BY <1>1, <1>3, <2>1 DEF Numbered, UrlOf
  <2>2. CASE v \in DOMAIN s.versions /\ w = new
    BY <1>1, <2>2 DEF UrlOf
  <2>3. CASE v = new /\ w \in DOMAIN s.versions
    BY <1>1, <2>3 DEF UrlOf
  <2>4. CASE v = new /\ w = new
    <3>1. t.versions[v].document \in Nat
      BY Stored1
    <3> QED
      BY <2>4, <3>1
  <2> QED
    BY <1>1, <2>1, <2>2, <2>3, <2>4
<1> QED
    BY <1>4, <1>5 DEF Numbered

\* save_research_documents keeps the numbering and leaves what is there.
LEMMA PageIsNumbered ==
    ASSUME NEW s \in Stores, Numbered(s), Unversioned(s) = {}, s.indexed = DOMAIN s.documents,
           NEW page \in Documents, NEW n \in Nat, IsPrevious(s, page.url, n)
    PROVE  LET t == WithPage(s, page, n)
           IN  /\ t \in Stores /\ Numbered(t) /\ Unversioned(t) = {}
               /\ t.indexed = DOMAIN t.documents /\ Extends(s, t)
<1> DEFINE t == WithPage(s, page, n)
           d == Len(s.documents) + 1
           e == [document |-> d, no |-> n + 1, hash |-> page.content, quality |-> Unreviewed]
<1>1. /\ Append(s.documents, page) \in Seq(Documents)
      /\ DOMAIN Append(s.documents, page) = DOMAIN s.documents \cup {d}
      /\ d \notin DOMAIN s.documents /\ d \in Nat
      /\ \A i \in DOMAIN s.documents : Append(s.documents, page)[i] = s.documents[i] /\ i < d
      /\ Append(s.documents, page)[d] = page
    BY Stored1, Appended
<1>2. e \in Versions /\ e.document = d /\ e.no = n + 1 /\ e.hash = page.content
    BY <1>1, ResearchAssumption DEF Versions, Documents
<1>3. /\ t.documents = Append(s.documents, page) /\ t.versions = Append(s.versions, e)
      /\ t.indexed = s.indexed \cup {d}
    BY DEF WithPage
<1>4. t \in Stores
  <2>1. Append(s.versions, e) \in Seq(Versions) /\ s.indexed \cup {d} \in SUBSET Nat
    BY <1>1, <1>2, Stored1, Appended
  <2> QED
    BY <1>1, <2>1 DEF WithPage, Stores
<1> HIDE DEF e, d, t
<1>5. ASSUME NEW v \in DOMAIN s.versions
      PROVE  /\ s.versions[v].document \in DOMAIN s.documents
             /\ s.versions[v].document < d
             /\ s.documents[s.versions[v].document].url = page.url => s.versions[v].no <= n
  <2>1. s.versions[v].document \in DOMAIN s.documents
    BY DEF Numbered
  <2>2. s.documents[s.versions[v].document].url = page.url => v \in VersionsOf(s, page.url)
    BY DEF VersionsOf, UrlOf
  <2> QED
    BY <1>1, <2>1, <2>2 DEF IsPrevious
<1>6. ASSUME NEW v \in DOMAIN s.versions
      PROVE  /\ s.versions[v].document # d /\ ~ (d < s.versions[v].document)
             /\ t.documents[s.versions[v].document].url = t.documents[d].url
                   => s.versions[v].no <= n + 1
  <2>1. s.versions[v].document \in Nat /\ s.versions[v].no \in Nat
    BY Stored1
  <2> QED
    BY <1>1, <1>3, <1>5, <2>1
<1>7. Numbered(t)
  <2>1. t.versions = Append(s.versions, e)
        /\ \A c \in DOMAIN s.documents :
              c \in DOMAIN t.documents /\ t.documents[c] = s.documents[c]
    BY <1>1, <1>3
  <2>2. e.document \in DOMAIN t.documents /\ e.hash = t.documents[e.document].content
    BY <1>1, <1>2, <1>3
  <2>3. \A v \in DOMAIN s.versions :
           /\ s.versions[v].document # e.document
           /\ t.documents[s.versions[v].document].url = t.documents[e.document].url =>
                 /\ s.versions[v].document < e.document => s.versions[v].no <= e.no
                 /\ e.document < s.versions[v].document => e.no <= s.versions[v].no
    BY <1>2, <1>6
  <2> QED
    BY <1>2, <1>4, <2>1, <2>2, <2>3, OneMoreVersion
<1>8. Extends(s, t)
    BY <1>1, <1>2, <1>3, Stored1, Appended DEF Extends
<1>9. Unversioned(t) = {}
  <2>1. ASSUME NEW c \in DOMAIN t.documents
        PROVE  \E v \in DOMAIN t.versions : t.versions[v].document = c
    <3>1. CASE c = d
      BY <1>2, <1>3, <3>1, Stored1, Appended
    <3>2. CASE c \in DOMAIN s.documents
      <4>1. PICK v \in DOMAIN s.versions : s.versions[v].document = c
        BY <3>2, VersionedIf
      <4> QED
        BY <1>8, <4>1 DEF Extends
    <3> QED
      BY <1>1, <1>3, <3>1, <3>2
  <2> QED
    BY <1>4, <1>7, <2>1, VersionedIf
<1> QED
    BY <1>1, <1>3, <1>4, <1>7, <1>8, <1>9 DEF t

\* _migrate_v4_to_v5 gives version 1 to a document that has none.
LEMMA DocumentIsNumbered ==
    ASSUME NEW s \in Stores, Numbered(s), \A v \in DOMAIN s.versions : s.versions[v].no = 1,
           NEW d \in Unversioned(s), NEW t,
           t = [s EXCEPT !.versions = Append(@, [document |-> d, no |-> 1,
                   hash |-> s.documents[d].content, quality |-> Unreviewed])]
    PROVE  /\ t \in Stores /\ Numbered(t) /\ \A v \in DOMAIN t.versions : t.versions[v].no = 1
           /\ t.documents = s.documents /\ t.indexed = s.indexed
<1> DEFINE e == [document |-> d, no |-> 1, hash |-> s.documents[d].content,
                 quality |-> Unreviewed]
<1>1. d \in DOMAIN s.documents /\ \A v \in DOMAIN s.versions : s.versions[v].document # d
    BY VersionedIf
<1>2. e \in Versions /\ e.document = d /\ e.no = 1 /\ e.hash = s.documents[d].content
    BY <1>1, Stored1, ResearchAssumption DEF Versions, Documents
<1>3. Append(s.versions, e) \in Seq(Versions)
    BY <1>2, Stored1, Appended
<1>4. t \in Stores /\ t.versions = Append(s.versions, e)
      /\ t.documents = s.documents /\ t.indexed = s.indexed
    BY <1>3 DEF Stores
<1> HIDE DEF e
<1>5. \A v \in DOMAIN t.versions : t.versions[v].no = 1
    BY <1>2, <1>4, Stored1, Appended
<1>6. \A v \in DOMAIN s.versions : s.versions[v].no <= e.no /\ e.no <= s.versions[v].no
    BY <1>2
<1>7. Numbered(t)
  <2>1. /\ e.document \in DOMAIN t.documents /\ e.hash = t.documents[e.document].content
        /\ \A c \in DOMAIN s.documents :
              c \in DOMAIN t.documents /\ t.documents[c] = s.documents[c]
    BY <1>1, <1>2, <1>4
  <2>2. \A v \in DOMAIN s.versions :
           /\ s.versions[v].document # e.document
           /\ t.documents[s.versions[v].document].url = t.documents[e.document].url =>
                 /\ s.versions[v].document < e.document => s.versions[v].no <= e.no
                 /\ e.document < s.versions[v].document => e.no <= s.versions[v].no
    BY <1>1, <1>2, <1>6
  <2> QED
    BY <1>2, <1>4, <2>1, <2>2, OneMoreVersion
<1> QED
    BY <1>4, <1>5, <1>7
-----------------------------------------------------------------------------
(* How far the brewing store's initialisation has come.                     *)

BrewingDraft ==
    LET b == brewing
        u == draft.brewing
        s == draft.store
    IN  /\ at \in MigrationPlaces => Scripted
        /\ at \in {"columns3", "keys3", "record 3", "commit 3"} => b.version \in {1, 2}
        /\ at \in {"columns3", "keys3", "record 3"} => u.version = b.version
        /\ at \in {"columns3", "keys3", "record 3", "commit 3"} => s = store /\ u.stamp # 6
        /\ at \in {"columns3", "keys3", "record 3", "commit 3"} => b.objects \subseteq u.objects
        /\ at \in {"keys3", "record 3", "commit 3"} => "columns3" \in u.objects
        /\ at \in {"record 3", "commit 3"} => Distinct(u.keys)
        /\ at = "commit 3" => u.version = 3
        /\ at \in {"to 4", "record 4"} => b.version = 3
        /\ at \in {"to 5", "version 1s"} => b.version = 4
        /\ at = "version 1s" => u = b
        /\ at = "commit 5" => u = [b EXCEPT !.version = 5] /\ b.version = 4
        /\ at \in {"version 1s", "commit 5"} =>
              /\ s.documents = store.documents
              /\ Numbered(s) /\ \A v \in DOMAIN s.versions : s.versions[v].no = 1
        /\ at = "commit 5" => Unversioned(s) = {}
        /\ at \in {"to 6", "record 6"} => b.version = 5
        /\ at = "tables3" => b.version = 6 \/ (b.version = 0 /\ u.version = 6)
        /\ at \in {"keys?", "tables4", "tables5", "tables6", "finish"} =>
              b.version = 6 /\ "tables3" \in b.objects
        /\ at \in {"tables4", "tables5", "tables6", "finish"} => "keys3" \in b.objects
        /\ at \in {"tables5", "tables6", "finish"} => "tables4" \in b.objects
        /\ at \in {"tables6", "finish"} => "tables5" \in b.objects
        /\ at = "finish" => "tables6" \in b.objects
        /\ at = "serving" => b.version = 6 /\ b.stamp = 6 /\ ~ b.orphan

BrewingInv ==
    BrewingDraft /\ EarnedBrewing(brewing, store) /\ StoreOf(brewing, store)

UpgradeInv == TelemetryInv /\ BrewingInv

\* Where the telemetry file is seen to the brewing file is not.
LEMMA BrewingWaits ==
    ASSUME UpgradeInv, TelemetryInv', UNCHANGED <<brewing, store>>,
           at' \in TelemetryPlaces \cup {"down", "script"}
    PROVE  UpgradeInv'
<1>1. BrewingDraft'
    BY DEF BrewingDraft, TelemetryPlaces, MigrationPlaces
<1> QED
    BY <1>1 DEF UpgradeInv, BrewingInv

\* And the other way round.
LEMMA TelemetryWaits ==
    ASSUME TelemetryInv, at \in BrewingPlaces, at' \in BrewingPlaces \cup {"down", "serving"},
           UNCHANGED <<telemetry, active, calibrations>>,
           brewing' \in Brewings, store' \in Stores, draft' \in Drafts,
           draft'.telemetry = telemetry, draft'.active = active
    PROVE  TelemetryInv'
<1>1. Typed' /\ Apart'
    BY DEF TelemetryInv, Typed, Apart, TelemetryPlaces, BrewingPlaces, MigrationPlaces
<1>2. TelemetryDraft'
    BY DEF TelemetryDraft, BrewingPlaces, MigrationPlaces
<1> QED
    BY <1>1, <1>2 DEF TelemetryInv, Founded

\* Fields of the records that the file and the draft are changed in.
LEMMA BrewingFields ==
    ASSUME NEW b \in Brewings
    PROVE  /\ b.objects \in SUBSET BrewObjects /\ b.version \in 0 .. 7 /\ b.stamp \in {0, 6}
           /\ b.keys \in [Ingredients -> Keys \cup {NoKey}] /\ b.orphan \in BOOLEAN
           /\ \A objects \in SUBSET BrewObjects, version \in 0 .. 7 :
                 LET c == [b EXCEPT !.objects = objects, !.version = version]
                 IN  /\ c \in Brewings /\ c.objects = objects /\ c.version = version
                     /\ c.stamp = b.stamp /\ c.keys = b.keys /\ c.orphan = b.orphan
    BY DEF Brewings

LEMMA DraftFieldsToo ==
    ASSUME draft \in Drafts
    PROVE  /\ \A u \in Brewings :
                 LET c == [draft EXCEPT !.brewing = u]
                 IN  /\ c \in Drafts /\ c.brewing = u /\ c.telemetry = draft.telemetry
                     /\ c.store = draft.store /\ c.active = draft.active
           /\ \A s \in Stores :
                 LET c == [draft EXCEPT !.store = s]
                 IN  /\ c \in Drafts /\ c.store = s /\ c.telemetry = draft.telemetry
                     /\ c.brewing = draft.brewing /\ c.active = draft.active
    BY DEF Drafts

\* More objects and the same version.
LEMMA ObjectsKeep ==
    ASSUME NEW b \in Brewings, NEW s \in Stores, EarnedBrewing(b, s), StoreOf(b, s),
           NEW objects \in SUBSET BrewObjects, "base" \in objects => "columns3" \in objects
    PROVE  LET c == [b EXCEPT !.objects = @ \cup objects]
           IN  /\ c \in Brewings /\ EarnedBrewing(c, s) /\ StoreOf(c, s)
               /\ c.objects = b.objects \cup objects /\ c.version = b.version
               /\ c.stamp = b.stamp /\ c.keys = b.keys /\ c.orphan = b.orphan
<1> DEFINE c == [b EXCEPT !.objects = @ \cup objects]
<1>1. /\ c \in Brewings /\ c.objects = b.objects \cup objects /\ c.version = b.version
      /\ c.stamp = b.stamp /\ c.keys = b.keys /\ c.orphan = b.orphan
    BY DEF Brewings
<1>2. b.objects \subseteq BrewObjects
    BY BrewingFields
<1> HIDE DEF c
<1>3. EarnedBrewing(c, s)
    BY <1>1, <1>2 DEF EarnedBrewing
<1>4. StoreOf(c, s)
    BY <1>1 DEF StoreOf
<1> QED
    BY <1>1, <1>3, <1>4 DEF c

LEMMA CreatesKeep ==
    ASSUME UpgradeInv, at \in BrewingPlaces, at' \in BrewingPlaces,
           NEW objects \in SUBSET BrewObjects, "base" \in objects => "columns3" \in objects,
           Creates(objects)
    PROVE  /\ TelemetryInv' /\ EarnedBrewing(brewing, store)' /\ StoreOf(brewing, store)'
           /\ brewing'.objects = brewing.objects \cup objects
           /\ brewing'.version = brewing.version
           /\ Scripted => Scripted'
           /\ UNCHANGED <<draft, store, retrieval, links, calibrations, active>>
<1>1. /\ brewing' = [brewing EXCEPT !.objects = @ \cup objects]
      /\ UNCHANGED <<draft, store, retrieval, links, calibrations, active, telemetry>>
    BY DEF Creates, vars, researchVars
<1>2. /\ brewing' \in Brewings /\ EarnedBrewing(brewing', store) /\ StoreOf(brewing', store)
      /\ brewing'.objects = brewing.objects \cup objects /\ brewing'.version = brewing.version
    BY <1>1, ObjectsKeep DEF UpgradeInv, TelemetryInv, BrewingInv, Typed
<1>3. draft \in Drafts /\ draft.telemetry = telemetry /\ draft.active = active /\ store \in Stores
    BY DEF UpgradeInv, TelemetryInv, Typed, Apart
<1>4. TelemetryInv'
    BY <1>1, <1>2, <1>3, TelemetryWaits DEF UpgradeInv
<1> QED
    BY <1>1, <1>2, <1>4 DEF Scripted

LEMMA ScriptKeeps ==
    ASSUME UpgradeInv, Script
    PROVE  UpgradeInv' /\ UNCHANGED <<store, retrieval, links, calibrations, active>>
<1>1. at = "script" /\ at' = "script"
    BY DEF Script
<1>2. \E objects \in SUBSET BrewObjects :
         ("base" \in objects => "columns3" \in objects) /\ Creates(objects)
    BY DEF Script, BrewObjects
<1>3. /\ TelemetryInv' /\ EarnedBrewing(brewing, store)' /\ StoreOf(brewing, store)'
      /\ UNCHANGED <<store, retrieval, links, calibrations, active>>
    BY <1>1, <1>2, CreatesKeep DEF BrewingPlaces
<1>4. BrewingDraft'
    BY <1>1 DEF BrewingDraft, MigrationPlaces
<1> QED
    BY <1>3, <1>4 DEF UpgradeInv, BrewingInv

LEMMA ReadVersionKeeps ==
    ASSUME UpgradeInv, ReadVersion
    PROVE  UpgradeInv' /\ UNCHANGED <<store, retrieval, links, calibrations, active>>
<1>1. /\ at = "script" /\ Scripted
      /\ UNCHANGED <<telemetry, brewing, store, active, calibrations, retrieval, links>>
    BY InTransactionKeeps DEF ReadVersion
<1>2. draft' = IF brewing.version = 0
               THEN [Committed EXCEPT !.brewing.version = 6] ELSE Committed
    BY DEF ReadVersion
<1>3. /\ Committed \in Drafts
      /\ Committed.telemetry = telemetry /\ Committed.active = active
      /\ Committed.brewing = brewing /\ Committed.store = store
    BY CommittedFields DEF UpgradeInv, TelemetryInv
<1>4. /\ draft' \in Drafts /\ draft'.telemetry = telemetry /\ draft'.active = active
      /\ draft'.store = store
      /\ IF brewing.version = 0 THEN draft'.brewing.version = 6 ELSE draft'.brewing = brewing
  <2>1. CASE brewing.version = 0
    <3>1. [brewing EXCEPT !.version = 6] \in Brewings /\ [brewing EXCEPT !.version = 6].version = 6
      BY DEF UpgradeInv, TelemetryInv, Typed, Brewings
    <3>2. draft' = [Committed EXCEPT !.brewing = [brewing EXCEPT !.version = 6]]
      BY <1>2, <1>3, <2>1 DEF Drafts
    <3> QED
      BY <1>3, <2>1, <3>1, <3>2 DEF Drafts
  <2>2. CASE brewing.version # 0
    BY <1>2, <1>3, <2>2
  <2> QED
    BY <2>1, <2>2
<1>5. \/ at' = "tables3" /\ (brewing.version = 0 \/ brewing.version = 6)
      \/ at' = "columns3" /\ brewing.version \in {1, 2}
      \/ at' = "to 4" /\ brewing.version = 3
      \/ at' = "to 5" /\ brewing.version = 4
      \/ at' = "to 6" /\ brewing.version = 5
      \/ at' = "down"
    BY DEF ReadVersion
<1>6. brewing \in Brewings /\ store \in Stores
    BY DEF UpgradeInv, TelemetryInv, Typed
<1>7. TelemetryInv'
    BY <1>1, <1>4, <1>5, <1>6, TelemetryWaits
       DEF UpgradeInv, BrewingPlaces, MigrationPlaces
<1>8. at' = "columns3" => brewing.stamp # 6
  <2>1. brewing.stamp = 6 => brewing.version >= 6
    BY DEF UpgradeInv, BrewingInv, EarnedBrewing
  <2>2. brewing.version \in 0 .. 7
    BY BrewingFields DEF UpgradeInv, TelemetryInv, Typed
  <2> QED
    BY <1>5, <2>1, <2>2
<1>9. BrewingDraft'
  <2>1. Scripted'
    BY <1>1 DEF Scripted
  <2>2. CASE at' = "columns3"
    <3>1. brewing.version \in {1, 2} /\ draft'.brewing = brewing /\ brewing.stamp # 6
      BY <1>4, <1>5, <1>8, <2>2
    <3> QED
      BY <1>1, <1>4, <2>1, <2>2, <3>1 DEF BrewingDraft
  <2>3. CASE at' = "tables3"
    BY <1>1, <1>4, <1>5, <2>1, <2>3 DEF BrewingDraft
  <2>4. CASE at' \in {"to 4", "to 5", "to 6", "down"}
    BY <1>1, <1>5, <2>1, <2>4 DEF BrewingDraft
  <2> QED
    BY <1>5, <2>2, <2>3, <2>4
<1> QED
    BY <1>1, <1>7, <1>9 DEF UpgradeInv, BrewingInv
\* Steps of an open transaction of the brewing store.
LEMMA BrewingTransaction ==
    ASSUME UpgradeInv, at \in BrewingPlaces, at' \in BrewingPlaces, InTransaction,
           draft' \in Drafts, draft'.telemetry = draft.telemetry, draft'.active = draft.active
    PROVE  /\ TelemetryInv' /\ EarnedBrewing(brewing, store)' /\ StoreOf(brewing, store)'
           /\ UNCHANGED <<brewing, store, retrieval, links, calibrations, active>>
           /\ Scripted => Scripted'
<1>1. UNCHANGED <<telemetry, brewing, store, retrieval, links, calibrations, active>>
    BY InTransactionKeeps
<1>2. /\ brewing \in Brewings /\ store \in Stores
      /\ draft'.telemetry = telemetry /\ draft'.active = active
    BY DEF UpgradeInv, TelemetryInv, Typed, Apart
<1>3. TelemetryInv'
    BY <1>1, <1>2, TelemetryWaits DEF UpgradeInv
<1> QED
    BY <1>1, <1>3 DEF UpgradeInv, BrewingInv, Scripted

LEMMA AddColumns3Keeps ==
    ASSUME UpgradeInv, AddColumns3
    PROVE  UpgradeInv' /\ UNCHANGED <<store, retrieval, links, calibrations, active>>
<1> DEFINE u == [draft.brewing EXCEPT !.objects = @ \cup {"columns3"}]
<1>1. at = "columns3" /\ at' = "keys3" /\ InTransaction
    BY DEF AddColumns3, Moves
<1>2. draft \in Drafts /\ draft.brewing \in Brewings
    BY DraftFields DEF UpgradeInv, TelemetryInv, Typed
<1>3. /\ u \in Brewings /\ u.objects = draft.brewing.objects \cup {"columns3"}
      /\ u.version = draft.brewing.version /\ u.stamp = draft.brewing.stamp
    BY <1>2 DEF Brewings, BrewObjects
<1>4. draft' = [draft EXCEPT !.brewing = u]
    BY <1>2 DEF AddColumns3, Drafts, Brewings
<1> HIDE DEF u
<1>5. /\ draft' \in Drafts /\ draft'.brewing = u /\ draft'.telemetry = draft.telemetry
      /\ draft'.active = draft.active /\ draft'.store = draft.store
    BY <1>2, <1>3, <1>4, DraftFieldsToo
<1>6. /\ TelemetryInv' /\ EarnedBrewing(brewing, store)' /\ StoreOf(brewing, store)'
      /\ UNCHANGED <<brewing, store, retrieval, links, calibrations, active>>
      /\ Scripted => Scripted'
    BY <1>1, <1>5, BrewingTransaction DEF BrewingPlaces, MigrationPlaces
<1>7. /\ Scripted /\ brewing.version \in {1, 2} /\ draft.brewing.version = brewing.version
      /\ draft.store = store /\ draft.brewing.stamp # 6
      /\ brewing.objects \subseteq draft.brewing.objects
    BY <1>1 DEF UpgradeInv, BrewingInv, BrewingDraft, MigrationPlaces
<1>8. BrewingDraft'
    BY <1>1, <1>3, <1>5, <1>6, <1>7 DEF BrewingDraft
<1> QED
    BY <1>6, <1>8 DEF UpgradeInv, BrewingInv

LEMMA AssignKeysKeeps ==
    ASSUME UpgradeInv, AssignKeys
    PROVE  UpgradeInv' /\ UNCHANGED <<store, retrieval, links, calibrations, active>>
<1>1. at = "keys3" /\ at' = "record 3" /\ InTransaction
    BY DEF AssignKeys, Moves
<1>2. draft \in Drafts /\ draft.brewing \in Brewings
    BY DraftFields DEF UpgradeInv, TelemetryInv, Typed
<1>3. PICK keys \in [Ingredients -> Keys] :
            Distinct(keys) /\ draft' = [draft EXCEPT !.brewing.keys = keys]
    BY DEF AssignKeys, Rekeyed
<1> DEFINE u == [draft.brewing EXCEPT !.keys = keys]
<1>4. /\ u \in Brewings /\ u.objects = draft.brewing.objects /\ u.keys = keys
      /\ u.version = draft.brewing.version /\ u.stamp = draft.brewing.stamp
  <2>1. keys \in [Ingredients -> Keys \cup {NoKey}]
    OBVIOUS
  <2> QED
    BY <1>2, <2>1 DEF Brewings
<1>5. draft' = [draft EXCEPT !.brewing = u]
    BY <1>2, <1>3 DEF Drafts
<1> HIDE DEF u
<1>6. /\ draft' \in Drafts /\ draft'.brewing = u /\ draft'.telemetry = draft.telemetry
      /\ draft'.active = draft.active /\ draft'.store = draft.store
    BY <1>2, <1>4, <1>5, DraftFieldsToo
<1>7. /\ TelemetryInv' /\ EarnedBrewing(brewing, store)' /\ StoreOf(brewing, store)'
      /\ UNCHANGED <<brewing, store, retrieval, links, calibrations, active>>
      /\ Scripted => Scripted'
    BY <1>1, <1>6, BrewingTransaction DEF BrewingPlaces, MigrationPlaces
<1>8. /\ Scripted /\ brewing.version \in {1, 2} /\ draft.brewing.version = brewing.version
      /\ draft.store = store /\ draft.brewing.stamp # 6
      /\ brewing.objects \subseteq draft.brewing.objects /\ "columns3" \in draft.brewing.objects
    BY <1>1 DEF UpgradeInv, BrewingInv, BrewingDraft, MigrationPlaces
<1>9. BrewingDraft'
    BY <1>1, <1>3, <1>4, <1>6, <1>7, <1>8 DEF BrewingDraft
<1> QED
    BY <1>7, <1>9 DEF UpgradeInv, BrewingInv

LEMMA Record3Keeps ==
    ASSUME UpgradeInv, Record3
    PROVE  UpgradeInv' /\ UNCHANGED <<store, retrieval, links, calibrations, active>>
<1> DEFINE u == [draft.brewing EXCEPT !.version = Raised(@, {1, 2}, 3)]
<1>1. at = "record 3" /\ at' = "commit 3" /\ InTransaction
    BY DEF Record3, Moves
<1>2. draft \in Drafts /\ draft.brewing \in Brewings
    BY DraftFields DEF UpgradeInv, TelemetryInv, Typed
<1>3. /\ Scripted /\ brewing.version \in {1, 2} /\ draft.brewing.version = brewing.version
      /\ draft.store = store /\ draft.brewing.stamp # 6
      /\ brewing.objects \subseteq draft.brewing.objects /\ "columns3" \in draft.brewing.objects
      /\ Distinct(draft.brewing.keys)
    BY <1>1 DEF UpgradeInv, BrewingInv, BrewingDraft, MigrationPlaces
<1>4. /\ u \in Brewings /\ u.objects = draft.brewing.objects /\ u.keys = draft.brewing.keys
      /\ u.version = 3 /\ u.stamp = draft.brewing.stamp
    BY <1>2, <1>3 DEF Brewings, Raised
<1>5. draft' = [draft EXCEPT !.brewing = u]
    BY <1>2 DEF Record3, Drafts, Brewings
<1> HIDE DEF u
<1>6. /\ draft' \in Drafts /\ draft'.brewing = u /\ draft'.telemetry = draft.telemetry
      /\ draft'.active = draft.active /\ draft'.store = draft.store
    BY <1>2, <1>4, <1>5, DraftFieldsToo
<1>7. /\ TelemetryInv' /\ EarnedBrewing(brewing, store)' /\ StoreOf(brewing, store)'
      /\ UNCHANGED <<brewing, store, retrieval, links, calibrations, active>>
      /\ Scripted => Scripted'
    BY <1>1, <1>6, BrewingTransaction DEF BrewingPlaces, MigrationPlaces
<1>8. BrewingDraft'
    BY <1>1, <1>3, <1>4, <1>6, <1>7 DEF BrewingDraft
<1> QED
    BY <1>7, <1>8 DEF UpgradeInv, BrewingInv

\* A commit of the brewing store publishes a file that has earned its version.
LEMMA BrewingCommit ==
    ASSUME UpgradeInv, at \in BrewingPlaces, at' \in BrewingPlaces, Publish, draft' = draft
    PROVE  /\ TelemetryInv'
           /\ brewing' = draft.brewing /\ store' = draft.store
           /\ UNCHANGED <<draft, retrieval, links, calibrations, active>>
<1>1. /\ telemetry' = telemetry /\ active' = active /\ draft' = draft
      /\ brewing' = draft.brewing /\ store' = draft.store
      /\ UNCHANGED <<retrieval, links, calibrations>>
    BY DEF Publish, UpgradeInv, TelemetryInv, Apart
<1>2. /\ draft \in Drafts /\ draft.brewing \in Brewings /\ draft.store \in Stores
      /\ draft.telemetry = telemetry /\ draft.active = active
    BY DraftFields DEF UpgradeInv, TelemetryInv, Typed, Apart
<1>3. TelemetryInv'
    BY <1>1, <1>2, TelemetryWaits DEF UpgradeInv
<1> QED
    BY <1>1, <1>3

LEMMA Commit3Keeps ==
    ASSUME UpgradeInv, Commit3
    PROVE  UpgradeInv' /\ UNCHANGED <<store, retrieval, links, calibrations, active>>
<1>1. at = "commit 3" /\ at' = "to 4" /\ Publish /\ draft' = draft
    BY DEF Commit3, Moves
<1>2. /\ TelemetryInv' /\ brewing' = draft.brewing /\ store' = draft.store
      /\ UNCHANGED <<retrieval, links, calibrations, active>>
    BY <1>1, BrewingCommit DEF BrewingPlaces, MigrationPlaces
<1>3. /\ Scripted /\ draft.store = store /\ draft.brewing.stamp # 6
      /\ brewing.objects \subseteq draft.brewing.objects /\ "columns3" \in draft.brewing.objects
      /\ Distinct(draft.brewing.keys) /\ draft.brewing.version = 3
    BY <1>1 DEF UpgradeInv, BrewingInv, BrewingDraft, MigrationPlaces
<1>4. EarnedBrewing(brewing, store)'
    BY <1>2, <1>3 DEF EarnedBrewing
<1>5. Numbered(store) /\ store.versions = <<>>
  <2>1. brewing.version \in {1, 2}
    BY <1>1 DEF UpgradeInv, BrewingInv, BrewingDraft
  <2>2. brewing.version < 5
    BY <2>1
  <2> QED
    BY <2>2 DEF UpgradeInv, BrewingInv, StoreOf
<1>6. StoreOf(brewing, store)'
    BY <1>2, <1>3, <1>5 DEF StoreOf
<1>7. BrewingDraft'
    BY <1>1, <1>2, <1>3 DEF BrewingDraft, Scripted
<1> QED
    BY <1>2, <1>3, <1>4, <1>6, <1>7 DEF UpgradeInv, BrewingInv

LEMMA Create4Keeps ==
    ASSUME UpgradeInv, Create4
    PROVE  UpgradeInv' /\ UNCHANGED <<store, retrieval, links, calibrations, active>>
<1>1. at = "to 4" /\ at' = "record 4" /\ Creates({"tables4"}) /\ {"tables4"} \in SUBSET BrewObjects
    BY DEF Create4, Moves, BrewObjects
<1>2. /\ TelemetryInv' /\ EarnedBrewing(brewing, store)' /\ StoreOf(brewing, store)'
      /\ brewing'.version = brewing.version
      /\ Scripted => Scripted'
      /\ UNCHANGED <<store, retrieval, links, calibrations, active>>
    BY <1>1, CreatesKeep DEF BrewingPlaces, MigrationPlaces
<1>3. Scripted /\ brewing.version = 3
    BY <1>1 DEF UpgradeInv, BrewingInv, BrewingDraft, MigrationPlaces
<1>4. BrewingDraft'
    BY <1>1, <1>2, <1>3 DEF BrewingDraft
<1> QED
    BY <1>2, <1>4 DEF UpgradeInv, BrewingInv

\* The version row alone.
LEMMA RecordsKeep ==
    ASSUME UpgradeInv, NEW from \in BrewingPlaces, NEW to \in BrewingPlaces,
           NEW version \in 4 .. 6, brewing.version = version - 1, Records(from, to, version),
           version # 5
    PROVE  /\ at = from /\ at' = to
           /\ TelemetryInv' /\ EarnedBrewing(brewing, store)' /\ StoreOf(brewing, store)'
           /\ brewing'.version = version
           /\ Scripted => Scripted'
           /\ UNCHANGED <<draft, store, retrieval, links, calibrations, active>>
<1> DEFINE b == [brewing EXCEPT !.version = version]
<1>1. /\ at = from /\ at' = to
      /\ UNCHANGED <<draft, store, retrieval, links, calibrations, active, telemetry>>
    BY DEF Records, Moves, vars, researchVars
<1>2. brewing' = b
    BY DEF Records, Raised, UpgradeInv, TelemetryInv, Typed, Brewings
<1>3. brewing \in Brewings /\ store \in Stores
    BY DEF UpgradeInv, TelemetryInv, Typed
<1>4. /\ b \in Brewings /\ b.objects = brewing.objects /\ b.version = version
      /\ b.stamp = brewing.stamp /\ b.keys = brewing.keys
    BY <1>3 DEF Brewings
<1> HIDE DEF b
<1>5. version = 4 \/ version = 6
    OBVIOUS
<1>6. brewing.stamp # 6
  <2>1. brewing.stamp = 6 => brewing.version >= 6
    BY DEF UpgradeInv, BrewingInv, EarnedBrewing
  <2>2. brewing.version = 3 \/ brewing.version = 5
    BY <1>5
  <2> QED
    BY <2>1, <2>2
<1>7. EarnedBrewing(brewing, store)'
    BY <1>1, <1>2, <1>4, <1>5, <1>6 DEF UpgradeInv, BrewingInv, EarnedBrewing
<1>8. StoreOf(brewing, store)'
    BY <1>1, <1>2, <1>4, <1>5 DEF UpgradeInv, BrewingInv, StoreOf
<1>9. TelemetryInv'
  <2>1. draft \in Drafts /\ draft.telemetry = telemetry /\ draft.active = active
    BY <1>1 DEF UpgradeInv, TelemetryInv, Typed, Apart
  <2> QED
    BY <1>1, <1>2, <1>3, <1>4, <2>1, TelemetryWaits DEF UpgradeInv
<1> QED
    BY <1>1, <1>2, <1>4, <1>7, <1>8, <1>9 DEF Scripted

LEMMA Record4Keeps ==
    ASSUME UpgradeInv, Record4
    PROVE  UpgradeInv' /\ UNCHANGED <<store, retrieval, links, calibrations, active>>
<1>1. at = "record 4" /\ Records("record 4", "to 5", 4)
    BY DEF Record4, Records, Moves
<1>2. Scripted /\ brewing.version = 3
    BY <1>1 DEF UpgradeInv, BrewingInv, BrewingDraft, MigrationPlaces
<1>3. /\ at' = "to 5"
      /\ TelemetryInv' /\ EarnedBrewing(brewing, store)' /\ StoreOf(brewing, store)'
      /\ brewing'.version = 4 /\ Scripted'
      /\ UNCHANGED <<store, retrieval, links, calibrations, active>>
  <2>1. brewing.version = 4 - 1 /\ 4 \in 4 .. 6 /\ 4 # 5
    BY <1>2
  <2>2. "record 4" \in BrewingPlaces /\ "to 5" \in BrewingPlaces
    BY DEF BrewingPlaces, MigrationPlaces
  <2> QED
    BY <1>1, <1>2, <2>1, <2>2, RecordsKeep
<1>4. BrewingDraft'
    BY <1>3 DEF BrewingDraft
<1> QED
    BY <1>3, <1>4 DEF UpgradeInv, BrewingInv

LEMMA Create6Keeps ==
    ASSUME UpgradeInv, Create6
    PROVE  UpgradeInv' /\ UNCHANGED <<store, retrieval, links, calibrations, active>>
<1>1. at = "to 6" /\ at' = "record 6" /\ Creates({"tables6"}) /\ {"tables6"} \in SUBSET BrewObjects
    BY DEF Create6, Moves, BrewObjects
<1>2. /\ TelemetryInv' /\ EarnedBrewing(brewing, store)' /\ StoreOf(brewing, store)'
      /\ brewing'.version = brewing.version
      /\ Scripted => Scripted'
      /\ UNCHANGED <<store, retrieval, links, calibrations, active>>
    BY <1>1, CreatesKeep DEF BrewingPlaces, MigrationPlaces
<1>3. Scripted /\ brewing.version = 5
    BY <1>1 DEF UpgradeInv, BrewingInv, BrewingDraft, MigrationPlaces
<1>4. BrewingDraft'
    BY <1>1, <1>2, <1>3 DEF BrewingDraft
<1> QED
    BY <1>2, <1>4 DEF UpgradeInv, BrewingInv

LEMMA Record6Keeps ==
    ASSUME UpgradeInv, Record6
    PROVE  UpgradeInv' /\ UNCHANGED <<store, retrieval, links, calibrations, active>>
<1>1. at = "record 6" /\ Records("record 6", "tables3", 6)
    BY DEF Record6, Records, Moves
<1>2. Scripted /\ brewing.version = 5
    BY <1>1 DEF UpgradeInv, BrewingInv, BrewingDraft, MigrationPlaces
<1>3. /\ at' = "tables3"
      /\ TelemetryInv' /\ EarnedBrewing(brewing, store)' /\ StoreOf(brewing, store)'
      /\ brewing'.version = 6 /\ Scripted'
      /\ UNCHANGED <<store, retrieval, links, calibrations, active>>
  <2>1. brewing.version = 6 - 1 /\ 6 \in 4 .. 6 /\ 6 # 5
    BY <1>2
  <2>2. "record 6" \in BrewingPlaces /\ "tables3" \in BrewingPlaces
    BY DEF BrewingPlaces, MigrationPlaces
  <2> QED
    BY <1>1, <1>2, <2>1, <2>2, RecordsKeep
<1>4. BrewingDraft'
    BY <1>3 DEF BrewingDraft
<1> QED
    BY <1>3, <1>4 DEF UpgradeInv, BrewingInv

LEMMA Create5Keeps ==
    ASSUME UpgradeInv, Create5
    PROVE  UpgradeInv' /\ UNCHANGED <<store, retrieval, links, calibrations, active>>
<1> DEFINE b == [brewing EXCEPT !.objects = @ \cup {"tables5"}]
<1>1. /\ at = "to 5" /\ at' = "version 1s" /\ brewing' = b
      /\ draft' = [Committed EXCEPT !.brewing = b]
      /\ UNCHANGED <<telemetry, store, active, calibrations, retrieval, links>>
    BY DEF Create5, Moves, vars, researchVars
<1>2. brewing \in Brewings /\ store \in Stores
    BY DEF UpgradeInv, TelemetryInv, Typed
<1>3. /\ b \in Brewings /\ EarnedBrewing(b, store) /\ StoreOf(b, store)
      /\ b.objects = brewing.objects \cup {"tables5"} /\ b.version = brewing.version
  <2>1. {"tables5"} \in SUBSET BrewObjects
    BY DEF BrewObjects
  <2> QED
    BY <1>2, <2>1, ObjectsKeep DEF UpgradeInv, BrewingInv
<1> HIDE DEF b
<1>4. Committed \in Drafts /\ Committed.telemetry = telemetry /\ Committed.active = active
      /\ Committed.store = store
    BY CommittedFields DEF UpgradeInv, TelemetryInv
<1>5. /\ draft' \in Drafts /\ draft'.telemetry = telemetry /\ draft'.active = active
      /\ draft'.brewing = b /\ draft'.store = store
    BY <1>1, <1>3, <1>4 DEF Drafts
<1>6. TelemetryInv'
    BY <1>1, <1>2, <1>3, <1>5, TelemetryWaits DEF UpgradeInv, BrewingPlaces, MigrationPlaces
<1>7. Scripted /\ brewing.version = 4
    BY <1>1 DEF UpgradeInv, BrewingInv, BrewingDraft, MigrationPlaces
<1>8. Numbered(store) /\ \A v \in DOMAIN store.versions : store.versions[v].no = 1
    BY <1>7 DEF UpgradeInv, BrewingInv, StoreOf
<1>9. BrewingDraft'
  <2>1. Scripted'
    BY <1>1, <1>3, <1>7 DEF Scripted
  <2>2. brewing'.version = 4 /\ draft'.brewing = brewing' /\ draft'.store = store'
    BY <1>1, <1>3, <1>5, <1>7
  <2> QED
    BY <1>1, <1>8, <2>1, <2>2 DEF BrewingDraft
<1> QED
    BY <1>1, <1>3, <1>6, <1>9 DEF UpgradeInv, BrewingInv

LEMMA VersionDocumentKeeps ==
    ASSUME UpgradeInv, NEW d, VersionDocument(d)
    PROVE  UpgradeInv' /\ UNCHANGED <<store, retrieval, links, calibrations, active>>
<1> DEFINE s == draft.store
           t == [s EXCEPT !.versions = Append(@, [document |-> d, no |-> 1,
                    hash |-> s.documents[d].content, quality |-> Unreviewed])]
<1>1. /\ at = "version 1s" /\ at' = "version 1s" /\ InTransaction /\ d \in Unversioned(s)
    BY DEF VersionDocument
<1>2. draft \in Drafts /\ s \in Stores
    BY DraftFields DEF UpgradeInv, TelemetryInv, Typed
<1>3. draft' = [draft EXCEPT !.store = t]
    BY <1>2 DEF VersionDocument, Drafts, Stores
<1>4. /\ Scripted /\ brewing.version = 4 /\ draft.brewing = brewing
      /\ s.documents = store.documents
      /\ Numbered(s) /\ \A v \in DOMAIN s.versions : s.versions[v].no = 1
    BY <1>1 DEF UpgradeInv, BrewingInv, BrewingDraft, MigrationPlaces
<1>5. /\ t \in Stores /\ Numbered(t) /\ \A v \in DOMAIN t.versions : t.versions[v].no = 1
      /\ t.documents = s.documents
    BY <1>1, <1>2, <1>4, DocumentIsNumbered
<1> HIDE DEF s, t
<1>6. /\ draft' \in Drafts /\ draft'.store = t /\ draft'.telemetry = draft.telemetry
      /\ draft'.active = draft.active /\ draft'.brewing = draft.brewing
    BY <1>2, <1>3, <1>5, DraftFieldsToo
<1>7. /\ TelemetryInv' /\ EarnedBrewing(brewing, store)' /\ StoreOf(brewing, store)'
      /\ UNCHANGED <<brewing, store, retrieval, links, calibrations, active>>
      /\ Scripted => Scripted'
    BY <1>1, <1>6, BrewingTransaction DEF BrewingPlaces, MigrationPlaces
<1>8. BrewingDraft'
    BY <1>1, <1>4, <1>5, <1>6, <1>7 DEF BrewingDraft
<1> QED
    BY <1>7, <1>8 DEF UpgradeInv, BrewingInv

LEMMA Record5Keeps ==
    ASSUME UpgradeInv, Record5
    PROVE  UpgradeInv' /\ UNCHANGED <<store, retrieval, links, calibrations, active>>
<1> DEFINE u == [draft.brewing EXCEPT !.version = Raised(@, {4}, 5)]
<1>1. at = "version 1s" /\ at' = "commit 5" /\ InTransaction /\ Unversioned(draft.store) = {}
    BY DEF Record5, Moves
<1>2. draft \in Drafts /\ draft.brewing \in Brewings
    BY DraftFields DEF UpgradeInv, TelemetryInv, Typed
<1>3. /\ Scripted /\ brewing.version = 4 /\ draft.brewing = brewing
      /\ draft.store.documents = store.documents /\ Numbered(draft.store)
      /\ \A v \in DOMAIN draft.store.versions : draft.store.versions[v].no = 1
    BY <1>1 DEF UpgradeInv, BrewingInv, BrewingDraft, MigrationPlaces
<1>4. u = [brewing EXCEPT !.version = 5]
    BY <1>2, <1>3 DEF Raised
<1>5. u \in Brewings
    BY <1>2, <1>3, <1>4 DEF Brewings
<1>6. draft' = [draft EXCEPT !.brewing = u]
    BY <1>2 DEF Record5, Drafts, Brewings
<1> HIDE DEF u
<1>7. /\ draft' \in Drafts /\ draft'.brewing = u /\ draft'.telemetry = draft.telemetry
      /\ draft'.active = draft.active /\ draft'.store = draft.store
    BY <1>2, <1>5, <1>6, DraftFieldsToo
<1>8. /\ TelemetryInv' /\ EarnedBrewing(brewing, store)' /\ StoreOf(brewing, store)'
      /\ UNCHANGED <<brewing, store, retrieval, links, calibrations, active>>
      /\ Scripted => Scripted'
    BY <1>1, <1>7, BrewingTransaction DEF BrewingPlaces, MigrationPlaces
<1>9. BrewingDraft'
    BY <1>1, <1>3, <1>4, <1>7, <1>8 DEF BrewingDraft
<1> QED
    BY <1>8, <1>9 DEF UpgradeInv, BrewingInv

\* The documents and the versions there were are still there.
StoreGrows ==
    /\ UNCHANGED <<retrieval, links, calibrations, active>>
    /\ store'.documents = store.documents
    /\ store'.versions = store.versions \/ store.versions = <<>>

LEMMA Commit5Keeps ==
    ASSUME UpgradeInv, Commit5
    PROVE  UpgradeInv' /\ StoreGrows
<1>1. at = "commit 5" /\ at' = "to 6" /\ Publish /\ draft' = draft
    BY DEF Commit5, Moves
<1>2. /\ TelemetryInv' /\ brewing' = draft.brewing /\ store' = draft.store
      /\ UNCHANGED <<retrieval, links, calibrations, active>>
    BY <1>1, BrewingCommit DEF BrewingPlaces, MigrationPlaces
<1>3. /\ Scripted /\ brewing.version = 4 /\ draft.brewing = [brewing EXCEPT !.version = 5]
      /\ draft.store.documents = store.documents /\ Numbered(draft.store)
      /\ Unversioned(draft.store) = {}
    BY <1>1 DEF UpgradeInv, BrewingInv, BrewingDraft, MigrationPlaces
<1>4. /\ draft.brewing.version = 5 /\ draft.brewing.objects = brewing.objects
      /\ draft.brewing.keys = brewing.keys /\ draft.brewing.stamp = brewing.stamp
    BY <1>3 DEF UpgradeInv, TelemetryInv, Typed, Brewings
<1>5. "columns3" \in brewing.objects /\ Distinct(brewing.keys) /\ brewing.stamp # 6
      /\ store.versions = <<>>
    BY <1>3 DEF UpgradeInv, BrewingInv, EarnedBrewing, StoreOf
<1>6. EarnedBrewing(brewing, store)'
    BY <1>2, <1>3, <1>4, <1>5 DEF EarnedBrewing
<1>7. StoreOf(brewing, store)'
    BY <1>2, <1>3, <1>4 DEF StoreOf
<1>8. BrewingDraft'
    BY <1>1, <1>2, <1>3, <1>4 DEF BrewingDraft, Scripted
<1> QED
    BY <1>2, <1>3, <1>5, <1>6, <1>7, <1>8 DEF UpgradeInv, BrewingInv, StoreGrows

LEMMA Ensure3Keeps ==
    ASSUME UpgradeInv, Ensure3
    PROVE  UpgradeInv' /\ UNCHANGED <<store, retrieval, links, calibrations, active>>
<1> DEFINE version == IF brewing.version = 0 THEN draft.brewing.version ELSE brewing.version
           b == [brewing EXCEPT !.objects = @ \cup {"tables3"}, !.version = version]
<1>1. /\ at = "tables3" /\ at' = "keys?"
      /\ UNCHANGED <<draft, store, retrieval, links, calibrations, active, telemetry>>
    BY DEF Ensure3, Moves, vars, researchVars
<1>2. brewing \in Brewings /\ store \in Stores /\ EarnedBrewing(brewing, store)
      /\ StoreOf(brewing, store)
    BY DEF UpgradeInv, TelemetryInv, BrewingInv, Typed
<1>3. brewing' = b
    BY <1>2 DEF Ensure3, Brewings
<1>4. Scripted /\ (brewing.version = 6 \/ (brewing.version = 0 /\ draft.brewing.version = 6))
    BY <1>1 DEF UpgradeInv, BrewingInv, BrewingDraft, MigrationPlaces
<1>5. version = 6
    BY <1>4
<1>6. /\ b \in Brewings /\ b.objects = brewing.objects \cup {"tables3"} /\ b.version = 6
      /\ b.stamp = brewing.stamp /\ b.keys = brewing.keys /\ b.orphan = brewing.orphan
  <2> HIDE DEF version
  <2>1. brewing.objects \cup {"tables3"} \in SUBSET BrewObjects
    BY <1>2 DEF Brewings, BrewObjects
  <2>2. version \in 0 .. 7
    BY <1>5
  <2> QED
    BY <1>2, <1>5, <2>1, <2>2 DEF Brewings
<1> HIDE DEF b, version
<1>7. EarnedBrewing(b, store) /\ StoreOf(b, store)
  <2>1. StoreOf(b, store)
    BY <1>2, <1>6 DEF StoreOf
  <2>2. CASE brewing.version = 6
    <3>1. "columns3" \in b.objects /\ Distinct(b.keys) /\ Unversioned(store) = {}
      BY <1>2, <1>6, <2>2 DEF EarnedBrewing
    <3>2. b.stamp = 6 => b.objects = BrewObjects /\ store.indexed = DOMAIN store.documents
      BY <1>2, <1>6, <2>2 DEF EarnedBrewing, BrewObjects
    <3> QED
      BY <1>6, <2>1, <3>1, <3>2 DEF EarnedBrewing
  <2>3. CASE brewing.version = 0
    <3>1. "columns3" \in b.objects /\ Distinct(b.keys) /\ store.documents = <<>>
      BY <1>2, <1>4, <1>6, <2>3 DEF StoreOf, Scripted
    <3>2. Unversioned(store) = {}
      BY <3>1 DEF Unversioned
    <3>3. b.stamp # 6
      BY <1>2, <1>6, <2>3 DEF EarnedBrewing
    <3> QED
      BY <1>6, <2>1, <3>1, <3>2, <3>3 DEF EarnedBrewing
  <2> QED
    BY <1>4, <2>2, <2>3
<1>8. TelemetryInv'
  <2>1. draft \in Drafts /\ draft.telemetry = telemetry /\ draft.active = active
    BY <1>1 DEF UpgradeInv, TelemetryInv, Typed, Apart, BrewingPlaces, MigrationPlaces
  <2> QED
    BY <1>1, <1>2, <1>3, <1>6, <2>1, TelemetryWaits DEF UpgradeInv, BrewingPlaces, MigrationPlaces
<1>9. BrewingDraft'
    BY <1>1, <1>3, <1>4, <1>6 DEF BrewingDraft, Scripted
<1> QED
    BY <1>1, <1>3, <1>7, <1>8, <1>9 DEF UpgradeInv, BrewingInv

LEMMA EnsuresKeep ==
    ASSUME UpgradeInv, EnsureKeys \/ Ensure4 \/ Ensure5 \/ Ensure6
    PROVE  UpgradeInv' /\ UNCHANGED <<store, retrieval, links, calibrations, active>>
<1>1. PICK object \in {"keys3", "tables4", "tables5", "tables6"} :
         /\ Creates({object})
         /\ \/ at = "keys?" /\ at' = "tables4" /\ object = "keys3"
            \/ at = "tables4" /\ at' = "tables5" /\ object = "tables4"
            \/ at = "tables5" /\ at' = "tables6" /\ object = "tables5"
            \/ at = "tables6" /\ at' = "finish" /\ object = "tables6"
    BY DEF EnsureKeys, Ensure4, Ensure5, Ensure6, Moves
<1>2. {object} \in SUBSET BrewObjects /\ "base" \notin {object}
    BY DEF BrewObjects
<1>3. at \in BrewingPlaces /\ at' \in BrewingPlaces
    BY <1>1 DEF BrewingPlaces, MigrationPlaces
<1>4. /\ TelemetryInv' /\ EarnedBrewing(brewing, store)' /\ StoreOf(brewing, store)'
      /\ brewing'.objects = brewing.objects \cup {object}
      /\ brewing'.version = brewing.version
      /\ Scripted => Scripted'
      /\ UNCHANGED <<store, retrieval, links, calibrations, active>>
    BY <1>1, <1>2, <1>3, CreatesKeep
<1>5. /\ Scripted /\ brewing.version = 6 /\ "tables3" \in brewing.objects
      /\ at \in {"tables4", "tables5", "tables6"} => "keys3" \in brewing.objects
      /\ at \in {"tables5", "tables6"} => "tables4" \in brewing.objects
      /\ at = "tables6" => "tables5" \in brewing.objects
    BY <1>1 DEF UpgradeInv, BrewingInv, BrewingDraft, MigrationPlaces
<1>6. BrewingDraft'
  <2>1. Scripted' /\ brewing'.version = 6 /\ "tables3" \in brewing'.objects
    BY <1>4, <1>5
  <2>2. /\ at' \in {"tables4", "tables5", "tables6", "finish"}
        /\ "keys3" \in brewing'.objects
        /\ at' \in {"tables5", "tables6", "finish"} => "tables4" \in brewing'.objects
        /\ at' \in {"tables6", "finish"} => "tables5" \in brewing'.objects
        /\ at' = "finish" => "tables6" \in brewing'.objects
    BY <1>1, <1>4, <1>5
  <2> QED
    BY <2>1, <2>2 DEF BrewingDraft
<1> QED
    BY <1>4, <1>6 DEF UpgradeInv, BrewingInv

LEMMA FinishKeeps ==
    ASSUME UpgradeInv, Finish
    PROVE  UpgradeInv' /\ StoreGrows /\ (at' = "serving" => ServedIsWhole')
<1>1. /\ at = "finish" /\ UNCHANGED <<draft, retrieval, links, calibrations, active, telemetry>>
    BY DEF Finish, vars
<1>2. /\ brewing \in Brewings /\ store \in Stores /\ EarnedBrewing(brewing, store)
      /\ StoreOf(brewing, store) /\ ExactV2(telemetry) /\ telemetry.undated = {}
      /\ draft \in Drafts /\ draft.telemetry = telemetry /\ draft.active = active
    BY <1>1
       DEF UpgradeInv, TelemetryInv, BrewingInv, Typed, Apart, BrewingPlaces, MigrationPlaces
<1>3. CASE brewing.orphan
  <2>1. at' = "down" /\ UNCHANGED <<brewing, store>>
    BY <1>3 DEF Finish
  <2>2. TelemetryInv'
    BY <1>1, <1>2, <2>1, TelemetryWaits DEF UpgradeInv, BrewingPlaces, MigrationPlaces
  <2>3. BrewingDraft'
    BY <2>1 DEF BrewingDraft, MigrationPlaces
  <2> QED
    BY <1>1, <2>1, <2>2, <2>3 DEF UpgradeInv, BrewingInv, StoreGrows
<1>4. CASE ~ brewing.orphan
  <2> DEFINE b == [brewing EXCEPT !.stamp = 6]
             s == [store EXCEPT !.indexed = DOMAIN store.documents]
  <2>1. at' = "serving" /\ brewing' = b /\ store' = s
    BY <1>4 DEF Finish
  <2>2. /\ b \in Brewings /\ b.objects = brewing.objects /\ b.version = brewing.version
        /\ b.stamp = 6 /\ b.keys = brewing.keys /\ b.orphan = brewing.orphan
    BY <1>2 DEF Brewings
  <2>3. /\ s \in Stores /\ s.documents = store.documents /\ s.versions = store.versions
        /\ s.indexed = DOMAIN s.documents
    <3>1. DOMAIN store.documents \in SUBSET Nat
      BY <1>2, Stored1
    <3> QED
      BY <1>2, <3>1 DEF Stores
  <2> HIDE DEF b, s
  <2>4. /\ brewing.version = 6 /\ Scripted
        /\ {"tables3", "keys3", "tables4", "tables5", "tables6"} \subseteq brewing.objects
    BY <1>1 DEF UpgradeInv, BrewingInv, BrewingDraft, MigrationPlaces
  <2>5. "columns3" \in brewing.objects /\ Distinct(brewing.keys) /\ Unversioned(store) = {}
    BY <1>2, <2>4 DEF EarnedBrewing
  <2>6. brewing.objects = BrewObjects
    <3>1. brewing.objects \subseteq BrewObjects
      BY <1>2, BrewingFields
    <3> QED
      BY <2>4, <2>5, <3>1 DEF Scripted, BrewObjects
  <2>7. Unversioned(s) = {} /\ Numbered(s)
    BY <1>2, <2>3, <2>5 DEF Unversioned, Numbered, UrlOf, StoreOf
  <2>8. EarnedBrewing(b, s)
    BY <2>2, <2>3, <2>4, <2>5, <2>6, <2>7 DEF EarnedBrewing
  <2>9. StoreOf(b, s)
    BY <1>2, <2>2, <2>3, <2>4, <2>7 DEF StoreOf
  <2>10. TelemetryInv'
    BY <1>1, <1>2, <2>1, <2>2, <2>3, TelemetryWaits DEF UpgradeInv, BrewingPlaces, MigrationPlaces
  <2>11. BrewingDraft'
    BY <1>4, <2>1, <2>2, <2>4 DEF BrewingDraft, MigrationPlaces
  <2>12. ServedIsWhole'
    BY <1>1, <1>2, <1>4, <2>1, <2>2, <2>3, <2>4, <2>5, <2>6, <2>7 DEF ServedIsWhole
  <2>13. StoreGrows
    BY <1>1, <2>1, <2>3 DEF StoreGrows
  <2> QED
    BY <2>1, <2>8, <2>9, <2>10, <2>11, <2>12, <2>13 DEF UpgradeInv, BrewingInv
<1> QED
    BY <1>3, <1>4

LEMMA StopKeeps ==
    ASSUME UpgradeInv, Stop
    PROVE  UpgradeInv' /\ UNCHANGED <<store, links, calibrations, active>>
<1>1. /\ at' = "down" /\ draft' = Committed
      /\ UNCHANGED <<telemetry, brewing, store, links, calibrations, active>>
    BY DEF Stop
<1>2. Typed' /\ Apart' /\ TelemetryDraft'
    BY <1>1, CommittedFields
       DEF UpgradeInv, TelemetryInv, Typed, Apart, TelemetryDraft, TelemetryPlaces,
           BrewingPlaces, MigrationPlaces
<1>3. BrewingDraft'
    BY <1>1 DEF BrewingDraft, MigrationPlaces
<1> QED
    BY <1>1, <1>2, <1>3 DEF UpgradeInv, TelemetryInv, BrewingInv, Founded

-----------------------------------------------------------------------------
(* The start-up as a whole.                                                 *)

\* No request is being answered while the process starts.
NoRequests == UNCHANGED <<known, calibrations, lastId, view, listed, sampled, links, retrieval>>

LEMMA StartUpIsQuiet ==
    ASSUME StartUp
    PROVE  NoRequests
<1>1. ASSUME InTransaction
      PROVE  NoRequests
    BY <1>1, InTransactionKeeps DEF NoRequests
<1>2. ASSUME Publish
      PROVE  NoRequests
    BY <1>2 DEF Publish, NoRequests
<1>3. ASSUME UNCHANGED <<vars, researchVars>>
      PROVE  NoRequests
    BY <1>3 DEF vars, researchVars, NoRequests
<1>4. ASSUME Finish
      PROVE  NoRequests
    BY <1>4 DEF Finish, vars, NoRequests
<1>5. ASSUME NEW objects, Creates(objects)
      PROVE  NoRequests
    BY <1>3, <1>5 DEF Creates
<1>6. ASSUME Start \/ CreateFresh \/ AddOverrides \/ BackfillDates \/ RecordPhase3
             \/ RequirePhase4 \/ BackfillFits \/ PointToDefaults \/ RecordPhase4
      PROVE  InTransaction
    BY <1>6
       DEF Start, CreateFresh, AddOverrides, BackfillDates, RecordPhase3, RequirePhase4,
           BackfillFits, PointToDefaults, RecordPhase4
<1>7. ASSUME ReadVersion \/ AddColumns3 \/ AssignKeys \/ Record3 \/ Record5
             \/ \E d \in DOMAIN draft.store.documents : VersionDocument(d)
      PROVE  InTransaction
    BY <1>7 DEF ReadVersion, AddColumns3, AssignKeys, Record3, Record5, VersionDocument
<1>8. ASSUME CommitFresh \/ CommitPhase3 \/ CommitPhase4 \/ Commit3 \/ Commit5
      PROVE  Publish
    BY <1>8 DEF CommitFresh, CommitPhase3, CommitPhase4, Commit3, Commit5
<1>9. ASSUME Record4 \/ Record6 \/ Create5 \/ Ensure3
      PROVE  UNCHANGED <<vars, researchVars>>
    BY <1>9 DEF Record4, Record6, Records, Create5, Ensure3, researchVars
<1>10. ASSUME Script \/ Create4 \/ Create6 \/ EnsureKeys \/ Ensure4 \/ Ensure5 \/ Ensure6
       PROVE  \E objects : Creates(objects)
    BY <1>10 DEF Script, Create4, Create6, EnsureKeys, Ensure4, Ensure5, Ensure6
<1> QED
    BY <1>1, <1>2, <1>3, <1>4, <1>5, <1>6, <1>7, <1>8, <1>9, <1>10 DEF StartUp

\* A pointer that a migration has set is a row of the device.
Pointed ==
    active' = active \/ \A d \in Devices : Migrated(calibrations, d, active'[d])

LEMMA TelemetryUpgrades ==
    ASSUME UpgradeInv,
           Start \/ CreateFresh \/ CommitFresh \/ AddOverrides \/ BackfillDates \/ RecordPhase3
           \/ CommitPhase3 \/ RequirePhase4 \/ BackfillFits \/ PointToDefaults \/ RecordPhase4
           \/ CommitPhase4
    PROVE  UpgradeInv' /\ UNCHANGED store /\ Pointed
<1>1. CASE CommitFresh \/ CommitPhase3 \/ CommitPhase4
  <2>1. /\ TelemetryInv' /\ UNCHANGED <<brewing, store>> /\ active' = draft.active
        /\ at' \in {"script", "phase4?"} /\ at \in TelemetryPlaces
    BY <1>1, TelemetryCommits DEF UpgradeInv
  <2>2. Pointed
    <3>1. CASE at = "commit 2"
      BY <2>1, <3>1 DEF Pointed, UpgradeInv, TelemetryInv, TelemetryDraft
    <3>2. CASE at # "commit 2"
      <4>1. at # "freeze"
        BY <1>1 DEF CommitFresh, CommitPhase3, CommitPhase4, Moves
      <4> QED
        BY <2>1, <3>2, <4>1 DEF Pointed, UpgradeInv, TelemetryInv, Apart
    <3> QED
      BY <3>1, <3>2
  <2> QED
    BY <2>1, <2>2, BrewingWaits DEF TelemetryPlaces
<1>2. CASE Start \/ CreateFresh \/ AddOverrides \/ BackfillDates \/ RecordPhase3
           \/ RequirePhase4 \/ BackfillFits \/ PointToDefaults \/ RecordPhase4
  <2>1. TelemetryInv'
    BY <1>2, StartKeeps, CreateFreshKeeps, AddOverridesKeeps, BackfillDatesKeeps,
       RecordPhase3Keeps, RequirePhase4Keeps, BackfillFitsKeeps, PointToDefaultsKeeps,
       RecordPhase4Keeps DEF UpgradeInv
  <2>2. InTransaction
    BY <1>2
       DEF Start, CreateFresh, AddOverrides, BackfillDates, RecordPhase3, RequirePhase4,
           BackfillFits, PointToDefaults, RecordPhase4
  <2>3. at' \in TelemetryPlaces \cup {"down", "script"}
    <3>1. CASE Start \/ CreateFresh \/ AddOverrides \/ BackfillDates \/ RecordPhase3
      BY <3>1
         DEF Start, CreateFresh, AddOverrides, BackfillDates, RecordPhase3, Moves,
             TelemetryPlaces
    <3>2. CASE RequirePhase4 \/ BackfillFits \/ PointToDefaults \/ RecordPhase4
      BY <3>2
         DEF RequirePhase4, BackfillFits, PointToDefaults, RecordPhase4, Moves, TelemetryPlaces
    <3> QED
      BY <1>2, <3>1, <3>2
  <2> QED
    BY <2>1, <2>2, <2>3, InTransactionKeeps, BrewingWaits DEF Pointed
<1> QED
    BY <1>1, <1>2

LEMMA BrewingUpgrades ==
    ASSUME UpgradeInv,
           Script \/ ReadVersion \/ AddColumns3 \/ AssignKeys \/ Record3 \/ Commit3
           \/ Create4 \/ Record4
           \/ Create5 \/ (\E d \in DOMAIN draft.store.documents : VersionDocument(d))
           \/ Record5 \/ Commit5 \/ Create6 \/ Record6
           \/ Ensure3 \/ EnsureKeys \/ Ensure4 \/ Ensure5 \/ Ensure6 \/ Finish
    PROVE  UpgradeInv' /\ StoreGrows
<1>1. CASE Commit5 \/ Finish
    BY <1>1, Commit5Keeps, FinishKeeps
<1>2. CASE Script \/ ReadVersion \/ AddColumns3 \/ AssignKeys \/ Record3 \/ Commit3
           \/ Create4 \/ Record4
    BY <1>2, ScriptKeeps, ReadVersionKeeps, AddColumns3Keeps, AssignKeysKeeps, Record3Keeps,
       Commit3Keeps, Create4Keeps, Record4Keeps DEF StoreGrows
<1>3. CASE Create5 \/ (\E d \in DOMAIN draft.store.documents : VersionDocument(d))
           \/ Record5 \/ Create6 \/ Record6
           \/ Ensure3 \/ EnsureKeys \/ Ensure4 \/ Ensure5 \/ Ensure6
    BY <1>3, Create5Keeps, VersionDocumentKeeps, Record5Keeps, Create6Keeps, Record6Keeps,
       Ensure3Keeps, EnsuresKeep DEF StoreGrows
<1> QED
    BY <1>1, <1>2, <1>3

LEMMA StartUpKeeps ==
    ASSUME UpgradeInv, StartUp
    PROVE  /\ UpgradeInv' /\ NoRequests /\ Pointed
           /\ store'.documents = store.documents
           /\ store'.versions = store.versions \/ store.versions = <<>>
<1>1. NoRequests
    BY StartUpIsQuiet
<1>2. CASE Start \/ CreateFresh \/ CommitFresh \/ AddOverrides \/ BackfillDates \/ RecordPhase3
           \/ CommitPhase3 \/ RequirePhase4 \/ BackfillFits \/ PointToDefaults \/ RecordPhase4
           \/ CommitPhase4
    BY <1>1, <1>2, TelemetryUpgrades
<1>3. CASE Script \/ ReadVersion \/ AddColumns3 \/ AssignKeys \/ Record3 \/ Commit3
           \/ Create4 \/ Record4
           \/ Create5 \/ (\E d \in DOMAIN draft.store.documents : VersionDocument(d))
           \/ Record5 \/ Commit5 \/ Create6 \/ Record6
           \/ Ensure3 \/ EnsureKeys \/ Ensure4 \/ Ensure5 \/ Ensure6 \/ Finish
    BY <1>1, <1>3, BrewingUpgrades DEF StoreGrows, Pointed
<1> QED
    BY <1>2, <1>3 DEF StartUp

-----------------------------------------------------------------------------
(* The research store behind a whole database.                              *)

Whole(s) == Unversioned(s) = {} /\ s.indexed = DOMAIN s.documents

Retrievals ==
    [at : {"idle", "fetching", "saving", "found"}, job : Jobs \cup {NoJob},
     query : SUBSET Contents, matches : SUBSET Nat, draft : Stores]

ResearchInv ==
    /\ retrieval \in Retrievals /\ links \subseteq Links
    /\ retrieval.at # "idle" => at = "serving" /\ retrieval.job \in Jobs
    /\ retrieval.at = "saving" =>
          Extends(store, retrieval.draft) /\ Numbered(retrieval.draft) /\ Whole(retrieval.draft)
    /\ retrieval.at = "found" => retrieval.matches \subseteq DOMAIN store.versions
    /\ EvidenceResolves

\* What a step of the research store may do to it while it is served.
StoreStays(s) == s \in Stores /\ Numbered(s) /\ Whole(s)

LEMMA ServedStore ==
    ASSUME UpgradeInv, at = "serving"
    PROVE  StoreStays(store) /\ ServedIsWhole
<1>1. /\ brewing.version = 6 /\ brewing.stamp = 6 /\ ~ brewing.orphan
      /\ ExactV2(telemetry) /\ telemetry.undated = {}
    BY DEF UpgradeInv, TelemetryInv, BrewingInv, BrewingDraft, Apart
<1>2. /\ brewing.objects = BrewObjects /\ Distinct(brewing.keys)
      /\ Unversioned(store) = {} /\ store.indexed = DOMAIN store.documents
    BY <1>1 DEF UpgradeInv, BrewingInv, EarnedBrewing
<1>3. store \in Stores /\ Numbered(store)
    BY DEF UpgradeInv, TelemetryInv, Typed, BrewingInv, StoreOf
<1> QED
    BY <1>1, <1>2, <1>3 DEF StoreStays, Whole, ServedIsWhole

\* A citation is safe in whatever extends the store.
LEMMA EvidenceInMore ==
    ASSUME EvidenceResolves, Extends(store, store'), UNCHANGED links
    PROVE  EvidenceResolves'
    BY DEF EvidenceResolves, Extends

LEMMA ExtendsMore ==
    ASSUME NEW r, NEW s, NEW t, Extends(r, s), Extends(s, t)
    PROVE  Extends(r, t)
    BY DEF Extends

LEMMA IdleIsTyped == Idle \in Retrievals /\ Idle.at = "idle" /\ EmptyStore \in Stores
<1>1. EmptyStore \in Stores
    BY DEF EmptyStore, Stores
<1> QED
    BY <1>1 DEF Idle, Retrievals

\* A search finds versions that are there.
LEMMA FoundIsThere ==
    ASSUME NEW s \in Stores, NEW query
    PROVE  Found(s, query) \subseteq DOMAIN s.versions /\ Found(s, query) \in SUBSET Nat
    BY Stored1 DEF Found

LEMMA QualityStays ==
    ASSUME NEW s \in Stores, StoreStays(s), NEW v \in DOMAIN s.versions, NEW status \in Statuses
    PROVE  LET t == [s EXCEPT !.versions[v].quality = status]
           IN  StoreStays(t) /\ Extends(s, t) /\ DOMAIN t.versions = DOMAIN s.versions
<1> DEFINE e == [s.versions[v] EXCEPT !.quality = status]
           t == [s EXCEPT !.versions[v].quality = status]
<1>1. e \in Versions /\ e.document = s.versions[v].document /\ e.hash = s.versions[v].hash
      /\ e.no = s.versions[v].no
    BY Stored1 DEF Versions
<1>2. s.versions \in Seq(Versions) /\ [s.versions EXCEPT ![v] = e] \in Seq(Versions)
    BY <1>1, Stored1
<1>3. /\ t \in Stores /\ t.documents = s.documents /\ t.indexed = s.indexed
      /\ t.versions = [s.versions EXCEPT ![v] = e]
    BY <1>2 DEF Stores
<1> HIDE DEF e, t
<1>4. DOMAIN t.versions = DOMAIN s.versions
    BY <1>3
<1>5. \A w \in DOMAIN s.versions :
         /\ t.versions[w].document = s.versions[w].document
         /\ t.versions[w].hash = s.versions[w].hash /\ t.versions[w].no = s.versions[w].no
    BY <1>1, <1>2, <1>3
<1>6. Numbered(t)
    BY <1>3, <1>4, <1>5 DEF StoreStays, Numbered, UrlOf
<1>7. Unversioned(t) = {}
    BY <1>3, <1>4, <1>5 DEF StoreStays, Whole, Unversioned
<1>8. Extends(s, t)
    BY <1>3, <1>4, <1>5 DEF Extends
<1> QED
    BY <1>3, <1>4, <1>6, <1>7, <1>8 DEF StoreStays, Whole, t

LEMMA ResearchKeeps ==
    ASSUME UpgradeInv, ResearchInv, at = "serving", ResearchNext, UNCHANGED upgradeVars
    PROVE  StoreStays(store)' /\ ResearchInv'
<1>0. /\ StoreStays(store) /\ store \in Stores /\ at' = at /\ EvidenceResolves
      /\ Extends(store, store)
    BY ServedStore DEF StoreStays, ResearchInv, upgradeVars, Extends
<1>1. ASSUME NEW j \in Jobs, NEW query \in SUBSET Contents, Search(j, query)
      PROVE  StoreStays(store)' /\ ResearchInv'
  <2>1. /\ UNCHANGED <<store, links>> /\ retrieval'.at \in {"fetching", "found"}
        /\ retrieval'.matches = Found(store, query) /\ retrieval'.job = j
    BY <1>1 DEF Search
  <2>2. Found(store, query) \subseteq DOMAIN store.versions /\ Found(store, query) \in SUBSET Nat
    BY <1>0, FoundIsThere
  <2>3. retrieval' \in Retrievals
    BY <1>1, <2>2, IdleIsTyped DEF Search, Retrievals
  <2>4. EvidenceResolves'
    BY <1>0, <2>1 DEF EvidenceResolves
  <2> QED
    BY <1>0, <2>1, <2>2, <2>3, <2>4 DEF ResearchInv
<1>2. CASE Fetch
  <2>1. /\ retrieval.at = "fetching" /\ UNCHANGED <<store, links>>
        /\ retrieval' = [retrieval EXCEPT !.at = "saving", !.draft = store]
    BY <1>2 DEF Fetch
  <2>2. /\ retrieval' \in Retrievals /\ retrieval'.at = "saving" /\ retrieval'.draft = store
        /\ retrieval'.job = retrieval.job
    BY <1>0, <2>1 DEF ResearchInv, Retrievals
  <2>3. EvidenceResolves'
    BY <1>0, <2>1 DEF EvidenceResolves
  <2> QED
    BY <1>0, <2>1, <2>2, <2>3 DEF ResearchInv, StoreStays
<1>3. CASE CommitPages
  <2> DEFINE found == Found(store', retrieval.query)
  <2>1. /\ retrieval.at = "saving" /\ store' = retrieval.draft /\ UNCHANGED links
        /\ retrieval' = [retrieval EXCEPT !.at = "found", !.draft = EmptyStore,
                                          !.matches = found]
    BY <1>3 DEF CommitPages
  <2>2. store' \in Stores
    BY <2>1 DEF ResearchInv, Retrievals
  <2>3. StoreStays(store)' /\ Extends(store, store')
    BY <2>1, <2>2 DEF ResearchInv, StoreStays
  <2>4. found \subseteq DOMAIN store'.versions /\ found \in SUBSET Nat
    BY <2>2, FoundIsThere
  <2> HIDE DEF found
  <2>5. /\ retrieval' \in Retrievals /\ retrieval'.at = "found" /\ retrieval'.matches = found
        /\ retrieval'.job = retrieval.job
    BY <2>1, <2>4, IdleIsTyped DEF ResearchInv, Retrievals
  <2>6. EvidenceResolves'
    BY <1>0, <2>1, <2>3, EvidenceInMore
  <2> QED
    BY <1>0, <2>1, <2>3, <2>4, <2>5, <2>6 DEF ResearchInv
<1>4. CASE LinkEvidence
  <2>1. /\ retrieval.at = "found" /\ retrieval' = Idle /\ store' = store
        /\ links' = links \cup {Link(store, v) : v \in retrieval.matches}
    BY <1>4 DEF LinkEvidence
  <2>2. ASSUME NEW v \in retrieval.matches
        PROVE  /\ Link(store, v) \in Links
               /\ LET l == Link(store, v)
                  IN  /\ l.version \in DOMAIN store.versions
                      /\ store.versions[l.version].document = l.document
                      /\ l.document \in DOMAIN store.documents
                      /\ store.documents[l.document].content = l.excerpt
                      /\ store.versions[l.version].hash = l.excerpt
    <3>1. v \in DOMAIN store.versions /\ retrieval.job \in Jobs
      BY <2>1 DEF ResearchInv
    <3>2. /\ store.versions[v].document \in DOMAIN store.documents
          /\ store.versions[v].hash = store.documents[store.versions[v].document].content
      BY <1>0, <3>1 DEF StoreStays, Numbered
    <3>3. /\ v \in Nat /\ store.versions[v].document \in Nat
          /\ store.documents[store.versions[v].document].content \in Contents
      BY <1>0, <3>1, <3>2, Stored1 DEF Documents
    <3>4. Link(store, v) \in Links
      BY <3>1, <3>3, ResearchAssumption DEF Link, Links
    <3> QED
      BY <3>1, <3>2, <3>4 DEF Link
  <2>3. EvidenceResolves'
    BY <1>0, <2>1, <2>2 DEF EvidenceResolves
  <2>4. links' \subseteq Links
    BY <2>1, <2>2 DEF ResearchInv
  <2> QED
    BY <1>0, <2>1, <2>3, <2>4, IdleIsTyped DEF ResearchInv
<1>5. ASSUME NEW page \in Documents, SavePage(page)
      PROVE  StoreStays(store)' /\ ResearchInv'
  <2> DEFINE s == retrieval.draft
  <2>1. /\ retrieval.at = "saving" /\ UNCHANGED <<store, links>> /\ retrieval \in Retrievals
        /\ s \in Stores /\ Extends(store, s) /\ Numbered(s) /\ Whole(s)
    BY <1>5 DEF SavePage, ResearchInv, Retrievals
  <2>2. PICK n \in 0 .. Len(s.versions) :
              /\ IsPrevious(s, page.url, n)
              /\ retrieval' = [retrieval EXCEPT !.draft = WithPage(@, page, n)]
    BY <1>5 DEF SavePage
  <2>3. n \in Nat
    BY <2>1, Stored1
  <2> DEFINE t == WithPage(s, page, n)
  <2>4. t \in Stores /\ Numbered(t) /\ Whole(t) /\ Extends(s, t)
    BY <2>1, <2>2, <2>3, PageIsNumbered DEF Whole
  <2>5. retrieval' = [retrieval EXCEPT !.draft = t]
    BY <2>1, <2>2 DEF Retrievals
  <2> HIDE DEF s, t
  <2>6. /\ retrieval' \in Retrievals /\ retrieval'.at = "saving" /\ retrieval'.draft = t
        /\ retrieval'.job = retrieval.job
    BY <2>1, <2>4, <2>5 DEF Retrievals
  <2>7. Extends(store, t)
    BY <2>1, <2>4, ExtendsMore
  <2>8. EvidenceResolves'
    BY <1>0, <2>1 DEF EvidenceResolves
  <2> QED
    BY <1>0, <2>1, <2>4, <2>6, <2>7, <2>8 DEF ResearchInv
<1>6. ASSUME NEW v \in DOMAIN store.versions, NEW status \in Statuses, SetQuality(v, status)
      PROVE  StoreStays(store)' /\ ResearchInv'
  <2>1. /\ retrieval.at # "saving" /\ UNCHANGED <<links, retrieval>>
        /\ store' = [store EXCEPT !.versions[v].quality = status]
    BY <1>6 DEF SetQuality
  <2>2. StoreStays(store') /\ Extends(store, store') /\ DOMAIN store'.versions = DOMAIN store.versions
    BY <1>0, <2>1, QualityStays
  <2>3. EvidenceResolves'
    BY <1>0, <2>1, <2>2, EvidenceInMore
  <2> QED
    BY <1>0, <2>1, <2>2, <2>3 DEF ResearchInv
<1>7. ASSUME NEW link \in links, NEW status \in Statuses, SetSupport(link, status)
      PROVE  StoreStays(store)' /\ ResearchInv'
  <2> DEFINE l == [link EXCEPT !.support = status]
  <2>1. UNCHANGED <<store, retrieval>> /\ links' = (links \ {link}) \cup {l}
    BY <1>7 DEF SetSupport
  <2>2. link \in Links
    BY DEF ResearchInv
  <2>3. /\ l \in Links /\ l.version = link.version /\ l.document = link.document
        /\ l.excerpt = link.excerpt
    BY <2>2 DEF Links
  <2> HIDE DEF l
  <2>4. EvidenceResolves'
    BY <1>0, <2>1, <2>3 DEF EvidenceResolves
  <2>5. links' \subseteq Links
    BY <2>1, <2>3 DEF ResearchInv
  <2> QED
    BY <1>0, <2>1, <2>4, <2>5 DEF ResearchInv
<1> QED
    BY <1>1, <1>2, <1>3, <1>4, <1>5, <1>6, <1>7 DEF ResearchNext

LEMMA NewestDocument ==
    ASSUME NEW n \in Nat, NEW S \in SUBSET (1 .. n), S # {}
    PROVE  \E m \in S : \A x \in S : x <= m
<1> DEFINE T == {n - x : x \in S}
<1>1. \A x \in S : x \in Nat /\ n - x \in Nat
    OBVIOUS
<1>2. T \subseteq Nat /\ T # {}
    BY <1>1
<1>3. \E least \in T : \A y \in T : <<y, least>> \notin OpToRel(<, Nat)
  <2> HIDE DEF T
  <2> QED
    BY <1>2, NatLessThanWellFounded, WFMin
<1>4. PICK m \in S : \A x \in S : <<n - x, n - m>> \notin OpToRel(<, Nat)
    BY <1>3
<1>5. \A x \in S : ~ (n - x < n - m)
    BY <1>1, <1>4 DEF OpToRel
<1> QED
    BY <1>1, <1>5

\* A numbering by documents is enough for the search to show the last page.
LEMMA NumberedShowsLatest ==
    ASSUME store \in Stores, Numbered(store)
    PROVE  LatestIsShown
<1> SUFFICES ASSUME NEW url \in Urls, VersionsOf(store, url) # {}
             PROVE  \E v \in VersionsOf(store, url) :
                       /\ Shown(store, url) = {v}
                       /\ \A w \in VersionsOf(store, url) :
                             store.versions[w].document <= store.versions[v].document
    BY DEF LatestIsShown
<1> DEFINE S == {store.versions[v].document : v \in VersionsOf(store, url)}
           n == Len(store.documents)
<1>1. \A v \in VersionsOf(store, url) :
         /\ v \in DOMAIN store.versions /\ UrlOf(store, v) = url
         /\ store.versions[v].document \in DOMAIN store.documents
         /\ store.versions[v].document \in Nat /\ store.versions[v].no \in Nat
    BY Stored1 DEF VersionsOf, Numbered
<1>2. n \in Nat /\ DOMAIN store.documents = 1 .. n
    BY Stored1
<1>3. S \in SUBSET (1 .. n) /\ S # {}
    BY <1>1, <1>2
<1>4. \E m \in S : \A x \in S : x <= m
  <2> HIDE DEF S, n
  <2> QED
    BY <1>2, <1>3, NewestDocument
<1>5. PICK v \in VersionsOf(store, url) : \A w \in VersionsOf(store, url) :
            store.versions[w].document <= store.versions[v].document
    BY <1>4
<1>6. ASSUME NEW w \in VersionsOf(store, url), w # v
      PROVE  Newer(store, v, w) /\ ~ Newer(store, w, v)
  <2>1. store.versions[w].document # store.versions[v].document
    BY <1>1, <1>6 DEF Numbered
  <2>2. store.versions[w].document < store.versions[v].document
    BY <1>1, <1>5, <2>1
  <2>3. store.versions[w].no <= store.versions[v].no
    BY <1>1, <2>2 DEF Numbered
  <2> QED
    BY <1>1, <2>2, <2>3 DEF Newer
<1>7. ~ Newer(store, v, v)
    BY <1>1 DEF Newer
<1> QED
    BY <1>5, <1>6, <1>7 DEF Shown

-----------------------------------------------------------------------------
(* Everything a step may rely on.                                           *)

Clients ==
    TypeOK /\ PointerIsOwn /\ Views /\ SamplesReproducible

Inv ==
    /\ UpgradeInv /\ ResearchInv /\ Clients
    /\ stops \in 0 .. MaxStops

LEMMA InvInit == UpgradeInit => Inv
<1> SUFFICES ASSUME UpgradeInit PROVE Inv
    OBVIOUS
<1>1. PICK files \in Installations :
            /\ telemetry = files.telemetry /\ brewing = files.brewing
            /\ calibrations = files.rows /\ active = files.active
            /\ store = files.store
    BY DEF UpgradeInit
<1>2. /\ telemetry \in Telemetries /\ EarnedTelemetry(telemetry)
      /\ RowsOf(telemetry, calibrations, active)
      /\ brewing \in Brewings /\ store \in Stores
      /\ EarnedBrewing(brewing, store) /\ StoreOf(brewing, store)
    BY <1>1, UpgradesAssumption
<1>3. /\ at = "down" /\ draft = Committed /\ retrieval = Idle /\ links = {}
      /\ known = {x.device : x \in calibrations}
      /\ lastId \in {0} \cup Ids /\ (\A x \in calibrations : x.id <= lastId)
      /\ view = [r \in Readers |-> None] /\ listed = None /\ sampled = None /\ stops = 0
    BY DEF UpgradeInit
<1>4. UpgradeInv
  <2>1. active \in [Devices -> Ids \cup {None}]
    BY <1>2 DEF RowsOf
  <2>2. Committed \in Drafts
    BY <1>2, <2>1 DEF Committed, Drafts
  <2>3. Typed /\ Apart /\ TelemetryDraft
    BY <1>2, <1>3, <2>1, <2>2
       DEF Typed, Apart, TelemetryDraft, TelemetryPlaces, BrewingPlaces, MigrationPlaces
  <2>4. BrewingDraft
    BY <1>3 DEF BrewingDraft, MigrationPlaces
  <2>5. Founded
    BY <1>2 DEF RowsOf, Founded
  <2> QED
    BY <1>2, <2>3, <2>4, <2>5 DEF UpgradeInv, TelemetryInv, BrewingInv
<1>5. ResearchInv
    BY <1>3, IdleIsTyped DEF ResearchInv, EvidenceResolves
<1>6. Clients
  <2>1. calibrations \subseteq Rows /\ active \in [Devices -> Ids \cup {None}]
    BY <1>2 DEF RowsOf
  <2>2. TypeOK
    BY <1>3, <2>1 DEF TypeOK, Rows
  <2>3. PointerIsOwn
    BY <1>2 DEF RowsOf, PointerIsOwn
  <2>4. Views /\ SamplesReproducible
    BY <1>3 DEF Views, HeldPointers, ViewsAgree, SamplesReproducible
  <2> QED
    BY <2>2, <2>3, <2>4 DEF Clients
<1> QED
    BY <1>3, <1>4, <1>5, <1>6, UpgradesAssumption DEF Inv

\* A step that is no request leaves to clients what they have.
LEMMA ClientsWait ==
    ASSUME Clients, UNCHANGED <<known, calibrations, lastId, listed, sampled>>,
           view' = view \/ view' = [r \in Readers |-> None],
           active' \in [Devices -> Ids \cup {None}], Pointed
    PROVE  Clients'
<1>1. TypeOK'
    BY DEF Clients, TypeOK
<1>2. PointerIsOwn'
    BY DEF Clients, Pointed, PointerIsOwn, Migrated, DefaultsOf, IdsOf
<1>3. Views' /\ SamplesReproducible'
    BY DEF Clients, Views, HeldPointers, ViewsAgree, SamplesReproducible, IdsOf
<1> QED
    BY <1>1, <1>2, <1>3 DEF Clients

LEMMA StartUpStep ==
    ASSUME Inv, StartUp
    PROVE  Inv'
<1>1. /\ UpgradeInv' /\ NoRequests /\ Pointed
      /\ store'.documents = store.documents
      /\ store'.versions = store.versions \/ store.versions = <<>>
    BY StartUpKeeps DEF Inv
<1>2. at # "serving" /\ stops' = stops
  <2>1. StartUp => at # "serving"
    BY DEF StartUp, Start, CreateFresh, CommitFresh, AddOverrides, BackfillDates, RecordPhase3,
           CommitPhase3, RequirePhase4, BackfillFits, PointToDefaults, RecordPhase4,
           CommitPhase4, Script, ReadVersion, AddColumns3, AssignKeys, Record3, Commit3,
           Create4, Record4, Create5, VersionDocument, Record5, Commit5, Create6, Record6,
           Records, Ensure3, EnsureKeys, Ensure4, Ensure5, Ensure6, Finish, Moves
  <2>2. ASSUME InTransaction \/ Publish \/ \E objects : Creates(objects)
        PROVE  stops' = stops
    BY <2>2 DEF InTransaction, Publish, Creates
  <2>3. StartUp => stops' = stops
    BY <2>2
       DEF StartUp, Start, CreateFresh, CommitFresh, AddOverrides, BackfillDates, RecordPhase3,
           CommitPhase3, RequirePhase4, BackfillFits, PointToDefaults, RecordPhase4,
           CommitPhase4, Script, ReadVersion, AddColumns3, AssignKeys, Record3, Commit3,
           Create4, Record4, Create5, VersionDocument, Record5, Commit5, Create6, Record6,
           Records, Ensure3, EnsureKeys, Ensure4, Ensure5, Ensure6, Finish
  <2> QED
    BY <2>1, <2>3
<1>3. ResearchInv'
  <2>1. retrieval.at = "idle" /\ UNCHANGED <<retrieval, links>>
    BY <1>1, <1>2 DEF Inv, ResearchInv, NoRequests
  <2>2. EvidenceResolves'
    <3>1. CASE store'.versions = store.versions
      BY <1>1, <2>1, <3>1 DEF Inv, ResearchInv, EvidenceResolves
    <3>2. CASE store.versions = <<>>
      <4>1. links = {}
        BY <3>2 DEF Inv, ResearchInv, EvidenceResolves
      <4> QED
        BY <2>1, <4>1 DEF EvidenceResolves
    <3> QED
      BY <1>1, <3>1, <3>2
  <2> QED
    BY <2>1, <2>2 DEF Inv, ResearchInv
<1>4. Clients'
  <2>1. active' \in [Devices -> Ids \cup {None}]
    BY <1>1 DEF UpgradeInv, TelemetryInv, Typed
  <2> QED
    BY <1>1, <2>1, ClientsWait DEF Inv, NoRequests
<1> QED
    BY <1>1, <1>2, <1>3, <1>4 DEF Inv

LEMMA StopStep ==
    ASSUME Inv, Stop
    PROVE  Inv'
<1>1. /\ UpgradeInv' /\ UNCHANGED <<store, links, calibrations, active>>
    BY StopKeeps DEF Inv
<1>2. /\ retrieval' = Idle /\ view' = [r \in Readers |-> None]
      /\ stops < MaxStops /\ stops' = stops + 1
      /\ UNCHANGED <<known, lastId, listed, sampled>>
    BY DEF Stop
<1>3. ResearchInv'
    BY <1>1, <1>2, IdleIsTyped DEF Inv, ResearchInv, EvidenceResolves
<1>4. Clients'
  <2>1. active' \in [Devices -> Ids \cup {None}]
    BY <1>1 DEF UpgradeInv, TelemetryInv, Typed
  <2> QED
    BY <1>1, <1>2, <2>1, ClientsWait DEF Inv, Pointed
<1>5. stops' \in 0 .. MaxStops
    BY <1>2, UpgradesAssumption DEF Inv
<1> QED
    BY <1>1, <1>3, <1>4, <1>5 DEF Inv

LEMMA ServeStep ==
    ASSUME Inv, Serve
    PROVE  Inv'
<1>1. at = "serving" /\ UNCHANGED <<at, telemetry, brewing, draft, stops>> /\ UNCHANGED upgradeVars
    BY DEF Serve, upgradeVars
<1>2. CASE Next /\ UNCHANGED researchVars
  <2>1. UNCHANGED <<store, links, retrieval>>
    BY <1>2 DEF researchVars
  <2>2. Clients'
    BY <1>2, TypeStep, PointerStep, ViewsStep, SampledStep DEF Inv, Clients
  <2>3. TelemetryInv'
    <3>1. Typed'
      BY <1>1, <2>1, <2>2 DEF Inv, UpgradeInv, TelemetryInv, Typed, Clients, TypeOK
    <3>2. Apart' /\ TelemetryDraft'
      BY <1>1
         DEF Inv, UpgradeInv, TelemetryInv, Apart, TelemetryDraft, TelemetryPlaces,
             BrewingPlaces, MigrationPlaces
    <3> QED
      BY <1>1, <3>1, <3>2 DEF Inv, UpgradeInv, TelemetryInv, Founded
  <2>4. BrewingInv'
    BY <1>1, <2>1 DEF Inv, UpgradeInv, BrewingInv, BrewingDraft, MigrationPlaces
  <2>5. ResearchInv'
    BY <1>1, <2>1 DEF Inv, ResearchInv, EvidenceResolves
  <2> QED
    BY <1>1, <2>2, <2>3, <2>4, <2>5 DEF Inv, UpgradeInv
<1>3. CASE ResearchNext /\ UNCHANGED vars
  <2>1. UNCHANGED <<known, calibrations, lastId, active, view, listed, sampled>>
    BY <1>3 DEF vars
  <2>2. StoreStays(store)' /\ ResearchInv'
    BY <1>1, <1>3, ResearchKeeps DEF Inv
  <2>3. Clients'
    <3>1. active' \in [Devices -> Ids \cup {None}]
      BY <2>1 DEF Inv, Clients, TypeOK
    <3> QED
      BY <2>1, <3>1, ClientsWait DEF Inv, Pointed
  <2>4. TelemetryInv'
    <3>1. Typed'
      BY <1>1, <2>1, <2>2 DEF Inv, UpgradeInv, TelemetryInv, Typed, StoreStays
    <3>2. Apart' /\ TelemetryDraft'
      BY <1>1
         DEF Inv, UpgradeInv, TelemetryInv, Apart, TelemetryDraft, TelemetryPlaces,
             BrewingPlaces, MigrationPlaces
    <3> QED
      BY <1>1, <3>1, <3>2 DEF Inv, UpgradeInv, TelemetryInv, Founded
  <2>5. BrewingDraft'
    BY <1>1 DEF Inv, UpgradeInv, BrewingInv, BrewingDraft, MigrationPlaces
  <2>6. brewing.version = 6
    BY <1>1 DEF Inv, UpgradeInv, BrewingInv, BrewingDraft
  <2>7. EarnedBrewing(brewing, store)'
    BY <1>1, <2>2, <2>6 DEF Inv, UpgradeInv, BrewingInv, EarnedBrewing, StoreStays, Whole
  <2>8. StoreOf(brewing, store)'
    BY <1>1, <2>2, <2>6 DEF StoreOf, StoreStays
  <2> QED
    BY <1>1, <2>2, <2>3, <2>4, <2>5, <2>7, <2>8 DEF Inv, UpgradeInv, BrewingInv
<1> QED
    BY <1>2, <1>3 DEF Serve

LEMMA InvStep == Inv /\ [UpgradeNext]_allVars => Inv'
<1> SUFFICES ASSUME Inv, [UpgradeNext]_allVars PROVE Inv'
    OBVIOUS
<1>1. CASE UNCHANGED allVars
  <2>1. UNCHANGED <<known, calibrations, lastId, active, view, listed, sampled>>
    BY <1>1 DEF allVars, vars
  <2>2. UNCHANGED <<store, links, retrieval>>
    BY <1>1 DEF allVars, researchVars
  <2>3. UNCHANGED <<at, telemetry, brewing, draft, stops>>
    BY <1>1 DEF allVars, upgradeVars
  <2>4. TelemetryInv'
    <3>1. Typed'
      BY <2>1, <2>2, <2>3 DEF Inv, UpgradeInv, TelemetryInv, Typed
    <3>2. Apart'
      BY <2>1, <2>2, <2>3 DEF Inv, UpgradeInv, TelemetryInv, Apart
    <3>3. TelemetryDraft'
      <4>1. TelemetryDraft
        BY DEF Inv, UpgradeInv, TelemetryInv
      <4> QED
        BY <2>1, <2>3, <4>1, Zenon DEF TelemetryDraft
    <3> QED
      BY <2>3, <3>1, <3>2, <3>3 DEF Inv, UpgradeInv, TelemetryInv, Founded
  <2>5. BrewingInv'
    <3>1. BrewingDraft'
      <4>1. BrewingDraft
        BY DEF Inv, UpgradeInv, BrewingInv
      <4>2. Scripted' <=> Scripted
        BY <2>3 DEF Scripted
      <4>3. draft.store' = draft.store /\ draft.brewing' = draft.brewing
        BY <2>3
      <4>4. CASE at = "commit 5"
        BY <2>2, <2>3, <4>1, <4>2, <4>3, <4>4 DEF BrewingDraft
      <4>5. CASE at = "version 1s"
        BY <2>2, <2>3, <4>1, <4>2, <4>3, <4>5 DEF BrewingDraft
      <4>6. CASE at \in {"columns3", "keys3", "record 3", "commit 3"}
        BY <2>2, <2>3, <4>1, <4>2, <4>3, <4>6 DEF BrewingDraft
      <4>7. CASE at \in {"to 4", "record 4", "to 5", "to 6", "record 6", "tables3"}
        BY <2>2, <2>3, <4>1, <4>2, <4>3, <4>7 DEF BrewingDraft
      <4>8. CASE at \in {"keys?", "tables4", "tables5", "tables6", "finish", "serving"}
        BY <2>2, <2>3, <4>1, <4>2, <4>3, <4>8 DEF BrewingDraft
      <4>9. CASE at \notin MigrationPlaces \cup {"serving"}
        BY <2>3, <4>9 DEF BrewingDraft, MigrationPlaces
      <4> QED
        BY <4>4, <4>5, <4>6, <4>7, <4>8, <4>9 DEF MigrationPlaces
    <3> QED
      BY <2>2, <2>3, <3>1 DEF Inv, UpgradeInv, BrewingInv
  <2>6. ResearchInv'
    BY <2>2, <2>3 DEF Inv, ResearchInv, EvidenceResolves
  <2>7. Clients'
    BY <2>1
       DEF Inv, Clients, TypeOK, PointerIsOwn, Views, HeldPointers, ViewsAgree,
           SamplesReproducible
  <2> QED
    BY <2>3, <2>4, <2>5, <2>6, <2>7 DEF Inv, UpgradeInv
<1> QED
    BY <1>1, StartUpStep, StopStep, ServeStep DEF UpgradeNext

THEOREM UpgradesAreSound == UpgradeSpec => []Inv
    BY InvInit, InvStep, PTL DEF UpgradeSpec

\* Both files and the open transaction keep their columns, rows and objects.
THEOREM UpgradesAreTyped == UpgradeSpec => []UpgradeTypeOK
<1>1. Inv => UpgradeTypeOK
    BY DEF Inv, UpgradeInv, TelemetryInv, Typed, Drafts, ResearchInv, UpgradeTypeOK
<1> QED
    BY <1>1, UpgradesAreSound, PTL

\* A recorded version never outruns the work it stands for, wherever the
\* start-up is cut off and however often: init_db and initialize skip nothing
\* that is not done.
THEOREM VersionsStayEarned == UpgradeSpec => []VersionsAreEarned
<1>1. Inv => VersionsAreEarned
    BY DEF Inv, UpgradeInv, TelemetryInv, BrewingInv, VersionsAreEarned
<1> QED
    BY <1>1, UpgradesAreSound, PTL

\* Requests are answered from an exact V2 and a whole schema 6, whatever files
\* the start-up has found.
THEOREM OnlyWholeIsServed == UpgradeSpec => []ServedIsWhole
<1>1. Inv => ServedIsWhole
    BY ServedStore DEF Inv, ServedIsWhole
<1> QED
    BY <1>1, UpgradesAreSound, PTL

\* A citation keeps resolving to the text it was cut from, through saves,
\* reviews, stops and upgrades.
THEOREM EvidenceKeepsResolving == UpgradeSpec => []EvidenceResolves
<1>1. Inv => EvidenceResolves
    BY DEF Inv, ResearchInv
<1> QED
    BY <1>1, UpgradesAreSound, PTL

\* A search shows the page stored last of each URL, also of a URL whose
\* documents a migration has all given version 1.
THEOREM LatestStaysShown == UpgradeSpec => []LatestIsShown
<1>1. Inv => LatestIsShown
    BY NumberedShowsLatest DEF Inv, UpgradeInv, TelemetryInv, Typed, BrewingInv, StoreOf
<1> QED
    BY <1>1, UpgradesAreSound, PTL

\* What clients of the calibrations rely on survives migrations and stops.
THEOREM CalibrationsSurvive == UpgradeSpec => []CalibrationsHold
<1>1. Inv => CalibrationsHold
    BY DEF Inv, Clients, Views, CalibrationsHold
<1> QED
    BY <1>1, UpgradesAreSound, PTL
=============================================================================
