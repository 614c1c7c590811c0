------------------------- MODULE CalibrationsProofs --------------------------
(***************************************************************************)
(* What holds of Calibrations for every number of devices, readers and      *)
(* calibrations and every older database.                                   *)
(***************************************************************************)
EXTENDS Calibrations, TLAPS

USE CalibrationsAssumption

LEMMA TypeInit == Init => TypeOK
    BY DEF Init, TypeOK, Rows

LEMMA TypeStep == TypeOK /\ [Next]_vars => TypeOK'
<1> SUFFICES ASSUME TypeOK, [Next]_vars PROVE TypeOK'
    OBVIOUS
<1>1. ASSUME NEW d \in Devices, Register(d)
      PROVE  TypeOK'
    BY <1>1 DEF TypeOK, Register
<1>2. ASSUME NEW d \in Devices, ListSamples(d)
      PROVE  TypeOK'
    BY <1>2 DEF TypeOK, ListSamples
<1>3. ASSUME NEW d \in Devices, NEW curve \in Curves, NEW activate \in BOOLEAN,
             SetCalibration(d, curve, activate)
      PROVE  TypeOK'
  <2> DEFINE new == [id |-> lastId + 1, device |-> d, curve |-> curve, default |-> TRUE]
  <2>1. lastId + 1 \in Ids
    BY <1>3 DEF SetCalibration, TypeOK, Ids
  <2>2. new \in Rows
    BY <2>1 DEF Rows
  <2>3. calibrations' = calibrations \cup {new} /\ lastId' = lastId + 1
    BY <1>3 DEF SetCalibration
  <2>4. \A x \in calibrations' : x.id <= lastId'
    BY <2>1, <2>3 DEF TypeOK, Ids, Rows
  <2>5. active' \in [Devices -> Ids \cup {None}]
    BY <1>3, <2>1 DEF SetCalibration, TypeOK
  <2> QED
    BY <1>3, <2>1, <2>2, <2>3, <2>4, <2>5 DEF SetCalibration, TypeOK
<1>4. ASSUME NEW d \in Devices, NEW id \in Ids, Activate(d, id)
      PROVE  TypeOK'
    BY <1>4 DEF TypeOK, Activate
<1>5. ASSUME NEW r \in Readers, NEW d \in Devices, ReadPointer(r, d)
      PROVE  TypeOK'
    BY <1>5 DEF TypeOK, ReadPointer
<1>6. ASSUME NEW r \in Readers, ReadHistory(r)
      PROVE  TypeOK'
    BY <1>6 DEF TypeOK, ReadHistory
<1>7. CASE UNCHANGED vars
    BY <1>7 DEF TypeOK, vars
<1>. QED  BY <1>1, <1>2, <1>3, <1>4, <1>5, <1>6, <1>7 DEF Next

\* No row has an id above the counter, and every pointer, in the database or in
\* a reader's hands, is an id or nothing.
THEOREM TypeCorrect == Spec => []TypeOK
    BY TypeInit, TypeStep, PTL DEF Spec

-----------------------------------------------------------------------------
\* Rows are only added: what is listed under an id stays there.
LEMMA HistoryGrows ==
    ASSUME [Next]_vars
    PROVE  /\ calibrations \subseteq calibrations'
           /\ \A d : IdsOf(calibrations, d) \subseteq IdsOf(calibrations, d)'
<1>1. calibrations \subseteq calibrations'
    BY DEF Next, vars, Register, ListSamples, SetCalibration, Activate, ReadPointer, ReadHistory
<1>. QED  BY <1>1 DEF IdsOf

LEMMA PointerInit == Init => PointerIsOwn
    BY DEF Init, PointerIsOwn, Migrated, DefaultsOf, IdsOf

\* A step either keeps a device's pointer or sets it to a row of the device.
LEMMA PointerStep ==
    ASSUME TypeOK, PointerIsOwn, [Next]_vars
    PROVE  PointerIsOwn'
<1>1. ASSUME NEW d \in Devices, NEW curve \in Curves, NEW activate \in BOOLEAN,
             SetCalibration(d, curve, activate)
      PROVE  PointerIsOwn'
  <2>1. lastId + 1 \in IdsOf(calibrations, d)'
    <3> DEFINE new == [id |-> lastId + 1, device |-> d, curve |-> curve, default |-> TRUE]
    <3>1. new \in calibrations' /\ new.device = d /\ new.id = lastId + 1
      BY <1>1 DEF SetCalibration
    <3> HIDE DEF new
    <3> QED
      BY <3>1 DEF IdsOf
  <2>2. ASSUME NEW q \in Devices, active'[q] # None
        PROVE  active'[q] \in IdsOf(calibrations, q)'
    <3>1. CASE q = d /\ activate
      BY <1>1, <2>1, <3>1 DEF SetCalibration, TypeOK
    <3>2. CASE ~ (q = d /\ activate)
      <4>1. active'[q] = active[q]
        BY <1>1, <3>2 DEF SetCalibration, TypeOK
      <4> QED
        BY <2>2, <4>1, HistoryGrows DEF PointerIsOwn
    <3> QED
      BY <3>1, <3>2
  <2> QED
    BY <2>2 DEF PointerIsOwn
<1>2. ASSUME NEW d \in Devices, NEW id \in Ids, Activate(d, id)
      PROVE  PointerIsOwn'
    BY <1>2 DEF Activate, PointerIsOwn, TypeOK, IdsOf
<1>3. ASSUME UNCHANGED active
      PROVE  PointerIsOwn'
    BY <1>3, HistoryGrows DEF PointerIsOwn
<1>. QED  BY <1>1, <1>2, <1>3
          DEF Next, vars, Register, ListSamples, ReadPointer, ReadHistory

\* The active calibration of a device is one of its own, whatever the order of
\* additions and activations and whichever database was migrated.
THEOREM PointersAreOwn == Spec => []PointerIsOwn
    BY TypeCorrect, PointerInit, PointerStep, PTL DEF Spec

-----------------------------------------------------------------------------
\* What the two-step view needs between its steps: the pointer it holds names a
\* row that exists and will go on existing.
HeldPointers ==
    \A r \in Readers : view[r] # None /\ view[r].active # None =>
        view[r].active \in IdsOf(calibrations, view[r].device)

Views == HeldPointers /\ ViewsAgree

LEMMA ViewsStep ==
    ASSUME TypeOK, PointerIsOwn, Views, [Next]_vars
    PROVE  Views'
<1>1. ASSUME NEW r \in Readers, NEW d \in Devices, ReadPointer(r, d)
      PROVE  Views'
  <2>1. view' = [view EXCEPT ![r] = [device |-> d, active |-> active[d]]]
        /\ UNCHANGED <<calibrations, listed>>
    BY <1>1 DEF ReadPointer
  <2>2. ASSUME NEW q \in Readers, view'[q] # None, view'[q].active # None
        PROVE  view'[q].active \in IdsOf(calibrations, view'[q].device)
    <3>1. CASE q = r
      BY <2>1, <2>2, <3>1 DEF TypeOK, PointerIsOwn
    <3>2. CASE q # r
      BY <2>1, <2>2, <3>2 DEF TypeOK, Views, HeldPointers
    <3> QED
      BY <3>1, <3>2
  <2> QED
    BY <2>1, <2>2 DEF Views, HeldPointers, ViewsAgree, IdsOf
<1>2. ASSUME NEW r \in Readers, ReadHistory(r)
      PROVE  Views'
  <2>1. /\ view' = [view EXCEPT ![r] = None] /\ UNCHANGED calibrations
        /\ view[r] # None
        /\ listed' = [active |-> view[r].active,
                      history |-> IdsOf(calibrations, view[r].device)]
    BY <1>2 DEF ReadHistory
  <2>2. HeldPointers'
    BY <2>1 DEF Views, HeldPointers, IdsOf, TypeOK
  <2>3. ViewsAgree'
    BY <2>1 DEF Views, HeldPointers, ViewsAgree
  <2> QED
    BY <2>2, <2>3 DEF Views
<1>3. ASSUME UNCHANGED <<view, listed>>
      PROVE  Views'
    BY <1>3, HistoryGrows DEF Views, HeldPointers, ViewsAgree
<1>. QED  BY <1>1, <1>2, <1>3
          DEF Next, vars, Register, ListSamples, SetCalibration, Activate

\* A view whose pointer and rows were read at different times still lists the
\* calibration it calls active.
THEOREM ViewsAreConsistent == Spec => []ViewsAgree
<1>1. Init => Views
    BY DEF Init, Views, HeldPointers, ViewsAgree
<1>2. Views => ViewsAgree
    BY DEF Views
<1>. QED  BY <1>1, <1>2, TypeCorrect, PointersAreOwn, ViewsStep, PTL DEF Spec

LEMMA SampledStep ==
    ASSUME SamplesReproducible, [Next]_vars
    PROVE  SamplesReproducible'
<1>1. ASSUME NEW d \in Devices, ListSamples(d)
      PROVE  SamplesReproducible'
    BY <1>1 DEF ListSamples, SamplesReproducible
<1>2. ASSUME UNCHANGED sampled
      PROVE  SamplesReproducible'
    BY <1>2, HistoryGrows DEF SamplesReproducible
<1>. QED  BY <1>1, <1>2
          DEF Next, vars, Register, SetCalibration, Activate, ReadPointer, ReadHistory

\* The calibration a list of samples was computed with exists for good.
THEOREM GravitiesAreReproducible == Spec => []SamplesReproducible
<1>1. Init => SamplesReproducible
    BY DEF Init, SamplesReproducible
<1>. QED  BY <1>1, SampledStep, PTL DEF Spec

\* The three of them: what clients of the calibrations rely on.
THEOREM CalibrationsAreSound == Spec => []CalibrationsHold
<1>1. PointerIsOwn /\ ViewsAgree /\ SamplesReproducible => CalibrationsHold
    BY DEF CalibrationsHold
<1>. QED  BY <1>1, PointersAreOwn, ViewsAreConsistent, GravitiesAreReproducible, PTL
=============================================================================
