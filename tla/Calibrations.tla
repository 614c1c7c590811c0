---------------------------- MODULE Calibrations -----------------------------
(***************************************************************************)
(* Calibration history of app/main.py: rows that are only added, and one   *)
(* pointer per device to the row in use.  Adding and activating are one     *)
(* BEGIN IMMEDIATE transaction each.  The list of samples is read in one    *)
(* transaction; the calibration view is two SELECTs, with other requests in *)
(* between.  A curve stands for the fit; requests refused with 404, 409 or  *)
(* 422 change nothing and are no steps.                                     *)
(***************************************************************************)
EXTENDS Naturals, FiniteSets

CONSTANTS
    Devices, Readers, Curves,
    Legacy,           \* calibrations of databases older than the pointer
    MaxCalibrations,  \* bound on the ids handed out
    None

Ids == 1 .. MaxCalibrations
Rows == [id : Ids, device : Devices, curve : Curves, default : BOOLEAN]

ASSUME CalibrationsAssumption ==
    /\ MaxCalibrations \in Nat
    /\ None \notin Ids \cup Rows
    /\ \A rows \in Legacy : rows \subseteq Rows /\ \A x, y \in rows : x.id = y.id => x = y

VARIABLES
    known,         \* devices that have a row
    calibrations,  \* rows
    lastId,        \* AUTOINCREMENT
    active,        \* active[d]: calibration_active.calibration_id or None
    view,          \* view[r]: what reader r has of its calibration view
    \* what some client was once answered, read by no guard
    listed,        \* a calibration view, or None
    sampled        \* pointer and curve of a list of samples, or None

vars == <<known, calibrations, lastId, active, view, listed, sampled>>

IdsOf(rows, d) == {x.id : x \in {y \in rows : y.device = d}}

DefaultsOf(rows, d) == IdsOf({x \in rows : x.default}, d)

\* _phase4_migrate: of several defaults of a device the highest id is in use.
Migrated(rows, d, pointer) ==
    IF DefaultsOf(rows, d) = {} THEN pointer = None
    ELSE pointer \in DefaultsOf(rows, d) /\ \A i \in DefaultsOf(rows, d) : i <= pointer

Init ==
    /\ \E rows \in Legacy :
          /\ calibrations = rows
          /\ known = {x.device : x \in rows}
          /\ active \in [Devices -> Ids \cup {None}]
          /\ \A d \in Devices : Migrated(rows, d, active[d])
          /\ lastId \in {n \in {0} \cup Ids : \A x \in rows : x.id <= n}
    /\ view = [r \in Readers |-> None]
    /\ listed = None
    /\ sampled = None

\* The first measurement of a device.
Register(d) ==
    /\ d \notin known
    /\ known' = known \cup {d}
    /\ UNCHANGED <<calibrations, lastId, active, view, listed, sampled>>

\* Seeded fault: a calibration that is no longer in use is deleted.
SetCalibrationPruning(d, curve, activate) ==
    /\ d \in known /\ lastId < MaxCalibrations
    /\ lastId' = lastId + 1
    /\ calibrations' = {x \in calibrations : x.device # d \/ ~activate}
          \cup {[id |-> lastId + 1, device |-> d, curve |-> curve, default |-> TRUE]}
    /\ active' = [active EXCEPT ![d] = IF activate THEN lastId + 1 ELSE @]
    /\ UNCHANGED <<known, view, listed, sampled>>

\* set_calibration: the row, and the pointer if asked for, in one transaction.
SetCalibration(d, curve, activate) ==
    /\ d \in known /\ lastId < MaxCalibrations
    /\ lastId' = lastId + 1
    /\ calibrations' = calibrations \cup
          {[id |-> lastId + 1, device |-> d, curve |-> curve, default |-> TRUE]}
    /\ active' = [active EXCEPT ![d] = IF activate THEN lastId + 1 ELSE @]
    /\ UNCHANGED <<known, view, listed, sampled>>

\* activate_calibration
Activate(d, id) ==
    /\ d \in known
    /\ id \in IdsOf(calibrations, d)
    /\ active' = [active EXCEPT ![d] = id]
    /\ UNCHANGED <<known, calibrations, lastId, view, listed, sampled>>

\* get_calibration, first SELECT: the pointer.
ReadPointer(r, d) ==
    /\ view[r] = None
    /\ view' = [view EXCEPT ![r] = [device |-> d, active |-> active[d]]]
    /\ UNCHANGED <<known, calibrations, lastId, active, listed, sampled>>

\* get_calibration, second SELECT: the rows, marked by the pointer read before.
ReadHistory(r) ==
    /\ view[r] # None
    /\ listed' = [active |-> view[r].active,
                  history |-> IdsOf(calibrations, view[r].device)]
    /\ view' = [view EXCEPT ![r] = None]
    /\ UNCHANGED <<known, calibrations, lastId, active, sampled>>

\* list_samples: pointer, coefficients and samples of one snapshot.
ListSamples(d) ==
    /\ d \in known
    /\ \E curve \in Curves \cup {None} :
          /\ IF active[d] = None THEN curve = None
             ELSE \E x \in calibrations : x.id = active[d] /\ x.device = d /\ x.curve = curve
          /\ sampled' = [device |-> d, active |-> active[d], curve |-> curve]
    /\ UNCHANGED <<known, calibrations, lastId, active, view, listed>>

Next ==
    \/ \E d \in Devices : Register(d) \/ ListSamples(d)
    \/ \E d \in Devices, curve \in Curves, activate \in BOOLEAN :
          SetCalibration(d, curve, activate)
    \/ \E d \in Devices, id \in Ids : Activate(d, id)
    \/ \E r \in Readers, d \in Devices : ReadPointer(r, d)
    \/ \E r \in Readers : ReadHistory(r)

Spec == Init /\ [][Next]_vars

-----------------------------------------------------------------------------
TypeOK ==
    /\ known \subseteq Devices
    /\ calibrations \subseteq Rows
    /\ lastId \in {0} \cup Ids
    /\ \A x \in calibrations : x.id <= lastId
    /\ active \in [Devices -> Ids \cup {None}]
    /\ view \in [Readers -> [device : Devices, active : Ids \cup {None}] \cup {None}]

\* The calibration in use is one of the device's own, also after a migration.
PointerIsOwn ==
    \A d \in Devices : active[d] # None => active[d] \in IdsOf(calibrations, d)

\* The calibration view takes its pointer and its rows at different times, and
\* yet the active calibration it names is among the rows it lists.
ViewsAgree ==
    listed # None /\ listed.active # None => listed.active \in listed.history

\* A gravity once shown under a calibration can be shown again from the same
\* calibration: it still exists, with the curve that was used.
SamplesReproducible ==
    sampled # None /\ sampled.active # None =>
        \E x \in calibrations : /\ x.id = sampled.active /\ x.device = sampled.device
                                 /\ x.curve = sampled.curve

\* What clients rely on: the calibration in use is the device's own, the view
\* names an active calibration it lists, and a shown gravity can be reproduced.
CalibrationsHold == PointerIsOwn /\ ViewsAgree /\ SamplesReproducible
=============================================================================
