------------------------------ MODULE Telemetry ------------------------------
(***************************************************************************)
(* Ingest and device settings of app/main.py.  Sensors post measurements   *)
(* and post them again when they get no answer; operators override a       *)
(* device's name and interval meanwhile.  ingest() awaits nothing after it *)
(* has read its body and runs in one BEGIN IMMEDIATE transaction: one step *)
(* here.  update_device() runs in a thread of its own and reads the row    *)
(* before the transaction that writes it: two steps.                       *)
(*                                                                         *)
(* A reading stands for angle, gravity, temperature, battery and network,  *)
(* and a hash is what it is the hash of.  Ids contain no ':', so the parts  *)
(* of a retry key can stand for the string.  Calls that validation, the    *)
(* credentials or the rate limit refuse write nothing and are no steps.    *)
(***************************************************************************)
EXTENDS Naturals, Sequences

CONSTANTS
    Devices, Editors,
    Events,      \* sample_id values
    Instants,    \* measured_at values
    Readings,
    Values,      \* names and intervals
    Payloads,    \* the measurements sensors post, and repeat
    Changes,     \* the bodies of PATCH requests
    Horizon,     \* RETRY_HORIZON_SECONDS
    MaxTime,     \* bound on the wall clock
    MaxSamples,  \* bound on stored rows
    None

Fields == {"name", "interval"}
Settings == [Fields -> Values \cup {None}]
Hashes == [device : Devices, measured : Instants \cup {None}, reading : Readings]
Keys == [device : Devices, event : Events]
        \cup [device : Devices, measured : Instants, hash : Hashes]

ASSUME TelemetryAssumption ==
    /\ Horizon \in Nat /\ MaxTime \in Nat /\ MaxSamples \in Nat
    /\ Payloads \subseteq [device : Devices, event : Events \cup {None},
                           measured : Instants \cup {None}, reading : Readings,
                           report : Settings]
    /\ \A change \in Changes : DOMAIN change \subseteq Fields
                               /\ \A f \in DOMAIN change : change[f] \in Values \cup {None}
    /\ None \notin Keys \cup Values \cup Events \cup Instants

VARIABLES
    clock,     \* the host's wall clock
    samples,   \* samples rows in id order
    known,     \* devices that have a row
    device,    \* device[d]: reported_*, user_* and the legacy columns (shown)
    edit,      \* edit[e]: the PATCH editor thread e is in, or None
    \* history, read by no guard
    answered,  \* the row each accepted payload was answered with
    asked      \* asked[d][f]: the override last asked for by a finished PATCH

vars == <<clock, samples, known, device, edit, answered, asked>>

Rows == [device : Devices, key : Keys \cup {None}, hash : Hashes, received : Nat]
Unset == [f \in Fields |-> None]

Init ==
    /\ clock \in 0 .. MaxTime
    /\ samples = <<>>
    /\ known = {}
    /\ device = [d \in Devices |-> [reported |-> Unset, user |-> Unset, shown |-> Unset]]
    /\ edit = [e \in Editors |-> None]
    /\ answered = {}
    /\ asked = [d \in Devices |-> Unset]

-----------------------------------------------------------------------------
(* Ingest.                                                                  *)

\* Two measurements with one hash have the same normalized telemetry.
Hash(p) == [device |-> p.device, measured |-> p.measured, reading |-> p.reading]

\* The event id if there is one, else the measured time with the telemetry.
RetryKey(p) ==
    IF p.event # None THEN [device |-> p.device, event |-> p.event]
    ELSE IF p.measured # None
         THEN [device |-> p.device, measured |-> p.measured, hash |-> Hash(p)]
         ELSE None

\* The rows the retry lookup sees.
Recent(p) ==
    {i \in DOMAIN samples : /\ RetryKey(p) # None /\ samples[i].key = RetryKey(p)
                            /\ samples[i].received + Horizon >= clock}

\* The one it takes: the last that was stored.
Newest(p) == {i \in Recent(p) : \A n \in Recent(p) : n <= i}

\* Seeded fault: the legacy columns follow every report.
SeenMirrored(p) ==
    /\ known' = known \cup {p.device}
    /\ device' = [device EXCEPT ![p.device] = [@ EXCEPT !.reported = p.report,
                                                       !.shown = p.report]]

\* The upsert of the device row: reports never touch what the user set.
Seen(p) ==
    /\ known' = known \cup {p.device}
    /\ device' = [device EXCEPT ![p.device] =
          [@ EXCEPT !.reported = p.report,
                    !.shown = [f \in Fields |-> IF device[p.device].user[f] = None
                                                THEN p.report[f]
                                                ELSE device[p.device].shown[f]]]]

Answer(p, row) == answered' = answered \cup {[payload |-> p, row |-> row]}

Row(p) == [device |-> p.device, key |-> RetryKey(p), hash |-> Hash(p), received |-> clock]

Insert(p) ==
    /\ Len(samples) < MaxSamples
    /\ samples' = Append(samples, Row(p))
    /\ Answer(p, Len(samples) + 1)

\* Seeded fault: a lookup of the last row only.
StoreUnlessLast(p) ==
    /\ Recent(p) \subseteq 1 .. Len(samples) - 1
    /\ Seen(p)
    /\ Insert(p)
    /\ UNCHANGED <<clock, edit, asked>>

\* A measurement not seen within the horizon.
Store(p) ==
    /\ Recent(p) = {}
    /\ Seen(p)
    /\ Insert(p)
    /\ UNCHANGED <<clock, edit, asked>>

\* Seeded fault: the retry key alone makes a duplicate.
DuplicateByKey(p) ==
    /\ \E i \in Newest(p) : Answer(p, i)
    /\ Seen(p)
    /\ UNCHANGED <<clock, samples, edit, asked>>

\* A retry; it is answered with the row stored before.  With other telemetry
\* under the same key the transaction, the upsert included, is undone.
Duplicate(p) ==
    /\ \E i \in Newest(p) : samples[i].hash = Hash(p) /\ Answer(p, i)
    /\ Seen(p)
    /\ UNCHANGED <<clock, samples, edit, asked>>

-----------------------------------------------------------------------------
(* Device settings.                                                         *)

\* update_device: the row as it is before the transaction.
ReadSettings(e, d, change) ==
    /\ edit[e] = None /\ d \in known
    /\ edit' = [edit EXCEPT ![e] = [device |-> d, change |-> change, row |-> device[d]]]
    /\ UNCHANGED <<clock, samples, known, device, answered, asked>>

\* Omitted fields keep the override that was read.
Overrides(x) ==
    [f \in Fields |-> IF f \in DOMAIN x.change THEN x.change[f] ELSE x.row.user[f]]

\* The override, or what was read as reported or, failing that, as shown.
Effective(x) ==
    [f \in Fields |-> IF Overrides(x)[f] # None THEN Overrides(x)[f]
                      ELSE IF x.row.reported[f] # None THEN x.row.reported[f]
                           ELSE x.row.shown[f]]

WriteSettings(e) ==
    LET x == edit[e] IN
    /\ x # None
    /\ device' = [device EXCEPT ![x.device] =
          [@ EXCEPT !.user = Overrides(x), !.shown = Effective(x)]]
    /\ asked' = [asked EXCEPT ![x.device] =
          [f \in Fields |-> IF f \in DOMAIN x.change THEN x.change[f]
                            ELSE asked[x.device][f]]]
    /\ edit' = [edit EXCEPT ![e] = None]
    /\ UNCHANGED <<clock, samples, known, answered>>

\* The UPDATE waits for another writer longer than the busy timeout.
SettingsBusy(e) ==
    /\ edit[e] # None
    /\ edit' = [edit EXCEPT ![e] = None]
    /\ UNCHANGED <<clock, samples, known, device, answered, asked>>

-----------------------------------------------------------------------------
\* Time passes, or the clock is set.
SetClock ==
    /\ clock' \in 0 .. MaxTime
    /\ UNCHANGED <<samples, known, device, edit, answered, asked>>

Next ==
    \/ \E p \in Payloads : Store(p) \/ Duplicate(p)
    \/ \E e \in Editors, d \in Devices, change \in Changes : ReadSettings(e, d, change)
    \/ \E e \in Editors : WriteSettings(e) \/ SettingsBusy(e)
    \/ SetClock

Spec == Init /\ [][Next]_vars

-----------------------------------------------------------------------------
DeviceRows == [reported : Settings, user : Settings, shown : Settings]
Edits == [device : Devices, change : Changes, row : DeviceRows]

TypeOK ==
    /\ clock \in 0 .. MaxTime
    /\ samples \in Seq(Rows)
    /\ known \subseteq Devices
    /\ device \in [Devices -> DeviceRows]
    /\ edit \in [Editors -> Edits \cup {None}]
    /\ answered \subseteq [payload : Payloads, row : DOMAIN samples]
    /\ asked \in [Devices -> Settings]

\* However often a measurement is repeated and the clock is set, two rows of one
\* retry key are more than the retry horizon apart.
RetriesStoreOnce ==
    \A i, n \in DOMAIN samples :
        i < n /\ samples[i].key = samples[n].key /\ samples[i].key # None
            => samples[i].received + Horizon < samples[n].received

\* Whoever is answered "ok" has the telemetry it sent in the row it was told of,
\* whether the row is new or that of an earlier attempt.
AcknowledgedIsStored ==
    \A a \in answered : /\ samples[a.row].hash = Hash(a.payload)
                        /\ samples[a.row].key = RetryKey(a.payload)

\* An override is in the legacy column, too, whatever reports and other edits
\* come between the read and the write of an edit.
OverrideIsShown ==
    \A d \in Devices : \A f \in Fields :
        device[d].user[f] # None => device[d].shown[f] = device[d].user[f]

\* The docstring of update_device: "Omitted field: leave its user override
\* unchanged".  So the overrides are those the finished edits asked for.
OverridesAsAsked == \A d \in known : device[d].user = asked[d]
=============================================================================
