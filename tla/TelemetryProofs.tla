--------------------------- MODULE TelemetryProofs ---------------------------
(***************************************************************************)
(* What holds of Telemetry for every number of devices, sensors, editors   *)
(* and measurements, every retry horizon and every setting of the clock.    *)
(***************************************************************************)
EXTENDS Telemetry, SequenceTheorems, TLAPS

LEMMA PayloadTypes ==
    ASSUME NEW p \in Payloads
    PROVE  /\ p.device \in Devices /\ p.report \in Settings
           /\ Hash(p) \in Hashes /\ RetryKey(p) \in Keys \cup {None}
    BY TelemetryAssumption DEF Hash, RetryKey, Hashes, Keys

LEMMA SeenTypes ==
    ASSUME TypeOK, NEW p \in Payloads, Seen(p)
    PROVE  known' \subseteq Devices /\ device' \in [Devices -> DeviceRows]
<1>1. [f \in Fields |-> IF device[p.device].user[f] = None
                        THEN p.report[f] ELSE device[p.device].shown[f]] \in Settings
    BY PayloadTypes DEF TypeOK, DeviceRows, Settings
<1>. QED  BY <1>1, PayloadTypes DEF TypeOK, DeviceRows, Seen

\* The row an insert appends, at the end.
LEMMA Inserted ==
    ASSUME TypeOK, NEW p \in Payloads, Insert(p)
    PROVE  /\ samples' \in Seq(Rows)
           /\ DOMAIN samples' = 1 .. Len(samples) + 1
           /\ DOMAIN samples = 1 .. Len(samples) /\ Len(samples) \in Nat
           /\ samples'[Len(samples) + 1] = Row(p)
           /\ Row(p).key = RetryKey(p) /\ Row(p).hash = Hash(p) /\ Row(p).received = clock
           /\ \A i \in DOMAIN samples : samples'[i] = samples[i]
           /\ answered' = answered \cup {[payload |-> p, row |-> Len(samples) + 1]}
<1>1. Row(p) \in Rows
    BY PayloadTypes DEF TypeOK, Row, Rows
<1>2. samples' = Append(samples, Row(p))
    BY DEF Insert
<1>3. samples \in Seq(Rows)
    BY DEF TypeOK
<1>4. samples' \in Seq(Rows) /\ Len(samples') = Len(samples) + 1
    BY <1>1, <1>2, <1>3, AppendProperties
<1>5. /\ DOMAIN samples = 1 .. Len(samples) /\ Len(samples) \in Nat
      /\ DOMAIN samples' = 1 .. Len(samples) + 1
    BY <1>3, <1>4, LenProperties
<1>6. /\ samples'[Len(samples) + 1] = Row(p)
      /\ \A i \in DOMAIN samples : samples'[i] = samples[i]
    BY <1>1, <1>2, <1>3, <1>5, AppendProperties
<1>7. Row(p).key = RetryKey(p) /\ Row(p).hash = Hash(p) /\ Row(p).received = clock
    BY DEF Row
<1>. QED  BY <1>4, <1>5, <1>6, <1>7 DEF Insert, Answer

LEMMA TypeStep == TypeOK /\ [Next]_vars => TypeOK'
<1> SUFFICES ASSUME TypeOK, [Next]_vars PROVE TypeOK'
    OBVIOUS
<1>0. DOMAIN samples = 1 .. Len(samples) /\ Len(samples) \in Nat
  <2>1. samples \in Seq(Rows)
    BY DEF TypeOK
  <2> QED
    BY <2>1, LenProperties
<1>1. ASSUME NEW p \in Payloads, Store(p)
      PROVE  TypeOK'
  <2>1. Seen(p) /\ Insert(p) /\ UNCHANGED <<clock, edit, asked>>
    BY <1>1 DEF Store
  <2>2. answered' \subseteq [payload : Payloads, row : DOMAIN samples']
    BY <1>0, <2>1, Inserted DEF TypeOK
  <2> QED
    BY <2>1, <2>2, SeenTypes, Inserted DEF TypeOK
<1>2. ASSUME NEW p \in Payloads, Duplicate(p)
      PROVE  TypeOK'
  <2>1. Seen(p) /\ UNCHANGED <<clock, samples, edit, asked>>
    BY <1>2 DEF Duplicate
  <2>2. answered' \subseteq [payload : Payloads, row : DOMAIN samples]
    BY <1>2 DEF TypeOK, Duplicate, Newest, Recent, Answer
  <2> QED
    BY <2>1, <2>2, SeenTypes DEF TypeOK
<1>3. ASSUME NEW e \in Editors, NEW d \in Devices, NEW change \in Changes,
             ReadSettings(e, d, change)
      PROVE  TypeOK'
    BY <1>3 DEF TypeOK, ReadSettings, Edits
<1>4. ASSUME NEW e \in Editors, WriteSettings(e)
      PROVE  TypeOK'
  <2> DEFINE x == edit[e]
  <2>1. x \in Edits
    BY <1>4 DEF WriteSettings, TypeOK
  <2>2. /\ x.device \in Devices /\ x.change \in Changes
        /\ x.row.user \in Settings /\ x.row.reported \in Settings /\ x.row.shown \in Settings
        /\ asked[x.device] \in Settings
    BY <2>1 DEF Edits, DeviceRows, TypeOK
  <2>3. \A f \in DOMAIN x.change : x.change[f] \in Values \cup {None}
    BY <2>2, TelemetryAssumption
  <2>4. Overrides(x) \in Settings
    BY <2>2, <2>3 DEF Overrides, Settings
  <2>5. Effective(x) \in Settings
    BY <2>2, <2>4 DEF Effective, Settings
  <2>6. [f \in Fields |-> IF f \in DOMAIN x.change THEN x.change[f]
                          ELSE asked[x.device][f]] \in Settings
    BY <2>2, <2>3 DEF Settings
  <2>7. device' \in [Devices -> DeviceRows] /\ asked' \in [Devices -> Settings]
    BY <1>4, <2>2, <2>4, <2>5, <2>6 DEF WriteSettings, TypeOK, DeviceRows
  <2> QED
    BY <1>4, <2>7 DEF WriteSettings, TypeOK
<1>5. ASSUME NEW e \in Editors, SettingsBusy(e)
      PROVE  TypeOK'
    BY <1>5 DEF SettingsBusy, TypeOK
<1>6. CASE SetClock
    BY <1>6 DEF SetClock, TypeOK
<1>7. CASE UNCHANGED vars
    BY <1>7 DEF vars, TypeOK
<1>. QED  BY <1>1, <1>2, <1>3, <1>4, <1>5, <1>6, <1>7 DEF Next

LEMMA TypeInit == Init => TypeOK
    BY EmptySeq DEF Init, TypeOK, DeviceRows, Settings, Unset

\* Rows, settings and histories have the types of their columns: an answer names
\* a stored row, an edit carries a row it has read.
THEOREM TypeCorrect == Spec => []TypeOK
    BY TypeInit, TypeStep, PTL DEF Spec

-----------------------------------------------------------------------------
(* Retries.                                                                 *)

\* Only a new measurement changes the stored rows, and it adds one.
LEMMA SamplesStep ==
    ASSUME TypeOK, [Next]_vars
    PROVE  \/ UNCHANGED samples
           \/ \E p \in Payloads : Recent(p) = {} /\ Insert(p)
    BY DEF Next, vars, Store, Duplicate, ReadSettings, WriteSettings, SettingsBusy, SetClock

LEMMA RetriesStep == TypeOK /\ RetriesStoreOnce /\ [Next]_vars => RetriesStoreOnce'
<1> SUFFICES ASSUME TypeOK, RetriesStoreOnce, [Next]_vars PROVE RetriesStoreOnce'
    OBVIOUS
<1>1. CASE UNCHANGED samples
    BY <1>1 DEF RetriesStoreOnce
<1>2. ASSUME NEW p \in Payloads, Recent(p) = {}, Insert(p)
      PROVE  RetriesStoreOnce'
  <2> DEFINE last == Len(samples) + 1
  <2>1. /\ DOMAIN samples' = 1 .. last /\ DOMAIN samples = 1 .. Len(samples)
        /\ Len(samples) \in Nat
        /\ \A i \in DOMAIN samples : samples'[i] = samples[i]
        /\ samples'[last].key = RetryKey(p) /\ samples'[last].received = clock
    BY <1>2, Inserted
  <2>2. /\ clock \in Nat /\ Horizon \in Nat
        /\ \A i \in DOMAIN samples : samples[i].received \in Nat
    <3>0. samples \in Seq(Rows)
      BY DEF TypeOK
    <3>1. \A i \in DOMAIN samples : samples[i] \in Rows
      BY <2>1, <3>0, ElementOfSeq
    <3> QED
      BY <3>1, TelemetryAssumption DEF TypeOK, Rows
  <2>3. SUFFICES ASSUME NEW i \in 1 .. last, NEW n \in 1 .. last, i < n,
                        samples'[i].key = samples'[n].key, samples'[i].key # None
                 PROVE  samples'[i].received + Horizon < samples'[n].received
    BY <2>1 DEF RetriesStoreOnce
  <2>4. i \in DOMAIN samples /\ samples'[i] = samples[i]
    BY <2>1, <2>3
  <2>5. CASE n = last
    <3>1. samples[i].key = RetryKey(p) /\ RetryKey(p) # None
      BY <2>1, <2>3, <2>4, <2>5
    <3>2. ~ (samples[i].received + Horizon >= clock)
      BY <1>2, <2>4, <3>1 DEF Recent
    <3> QED
      BY <2>1, <2>2, <2>4, <2>5, <3>2
  <2>6. CASE n \in DOMAIN samples
    BY <2>1, <2>3, <2>4, <2>6 DEF RetriesStoreOnce
  <2> QED
    BY <2>1, <2>5, <2>6
<1>. QED  BY <1>1, <1>2, SamplesStep

\* For every horizon and every setting of the wall clock, two rows of one retry
\* key are more than the horizon apart.
THEOREM MeasurementsAreStoredOnce == Spec => []RetriesStoreOnce
<1>1. Init => RetriesStoreOnce
    BY DEF Init, RetriesStoreOnce
<1>. QED  BY <1>1, TypeCorrect, RetriesStep, PTL DEF Spec

LEMMA AcknowledgedStep ==
    TypeOK /\ AcknowledgedIsStored /\ [Next]_vars => AcknowledgedIsStored'
<1> SUFFICES ASSUME TypeOK, AcknowledgedIsStored, [Next]_vars
             PROVE  AcknowledgedIsStored'
    OBVIOUS
<1>1. \A a \in answered : a.row \in DOMAIN samples
    BY DEF TypeOK
<1>2. ASSUME NEW p \in Payloads, Store(p)
      PROVE  AcknowledgedIsStored'
  <2>1. Insert(p)
    BY <1>2 DEF Store
  <2> DEFINE last == Len(samples) + 1
  <2>2. /\ \A i \in DOMAIN samples : samples'[i] = samples[i]
        /\ samples'[last].key = RetryKey(p) /\ samples'[last].hash = Hash(p)
        /\ answered' = answered \cup {[payload |-> p, row |-> last]}
    BY <2>1, Inserted
  <2> QED
    BY <1>1, <2>2 DEF AcknowledgedIsStored
<1>3. ASSUME NEW p \in Payloads, Duplicate(p)
      PROVE  AcknowledgedIsStored'
  <2>1. PICK i \in Newest(p) : samples[i].hash = Hash(p) /\ Answer(p, i)
    BY <1>3 DEF Duplicate
  <2>2. samples[i].key = RetryKey(p) /\ UNCHANGED samples
    BY <1>3, <2>1 DEF Newest, Recent, Duplicate
  <2> QED
    BY <2>1, <2>2 DEF AcknowledgedIsStored, Answer
<1>4. ASSUME UNCHANGED <<samples, answered>>
      PROVE  AcknowledgedIsStored'
    BY <1>4 DEF AcknowledgedIsStored
<1>. QED  BY <1>2, <1>3, <1>4
          DEF Next, vars, ReadSettings, WriteSettings, SettingsBusy, SetClock

\* An answer "ok" names a row that holds the telemetry sent.
THEOREM AcknowledgementsHold == Spec => []AcknowledgedIsStored
<1>1. Init => AcknowledgedIsStored
    BY DEF Init, AcknowledgedIsStored
<1>. QED  BY <1>1, TypeCorrect, AcknowledgedStep, PTL DEF Spec

-----------------------------------------------------------------------------
(* Overrides.                                                               *)

LEMMA OverrideStep == TypeOK /\ OverrideIsShown /\ [Next]_vars => OverrideIsShown'
<1> SUFFICES ASSUME TypeOK, OverrideIsShown, [Next]_vars PROVE OverrideIsShown'
    OBVIOUS
<1>1. ASSUME NEW p \in Payloads, Seen(p)
      PROVE  OverrideIsShown'
    BY <1>1, PayloadTypes DEF Seen, OverrideIsShown, TypeOK, DeviceRows
<1>2. ASSUME NEW e \in Editors, WriteSettings(e)
      PROVE  OverrideIsShown'
  <2>1. edit[e].device \in Devices
    BY <1>2 DEF WriteSettings, TypeOK, Edits
  <2>2. \A f \in Fields : Overrides(edit[e])[f] # None =>
                               Effective(edit[e])[f] = Overrides(edit[e])[f]
    BY DEF Effective
  <2> QED
    BY <1>2, <2>1, <2>2 DEF WriteSettings, OverrideIsShown, TypeOK, DeviceRows
<1>3. ASSUME UNCHANGED device
      PROVE  OverrideIsShown'
    BY <1>3 DEF OverrideIsShown
<1>. QED  BY <1>1, <1>2, <1>3
          DEF Next, vars, Store, Duplicate, ReadSettings, SettingsBusy, SetClock

\* However reports and edits interleave, an override is in the legacy column.
THEOREM OverridesAreShown == Spec => []OverrideIsShown
<1>1. Init => OverrideIsShown
    BY DEF Init, OverrideIsShown, Unset
<1>. QED  BY <1>1, TypeCorrect, OverrideStep, PTL DEF Spec

-----------------------------------------------------------------------------
(* Two edits of one device.                                                 *)

\* With one editor at a time what an edit read of the overrides is what the device
\* still has: reports never write them.
EditsInv ==
    /\ \A d \in Devices : device[d].user = asked[d]
    /\ \A e \in Editors : edit[e] # None =>
          edit[e].row.user = device[edit[e].device].user

LEMMA EditsStep ==
    ASSUME \A e, f \in Editors : e = f,
           TypeOK, EditsInv, [Next]_vars
    PROVE  EditsInv'
<1>0. /\ device \in [Devices -> DeviceRows] /\ asked \in [Devices -> Settings]
      /\ edit \in [Editors -> Edits \cup {None}]
    BY DEF TypeOK
<1>1. ASSUME NEW p \in Payloads, Seen(p), UNCHANGED <<edit, asked>>
      PROVE  EditsInv'
  <2>1. \A d \in Devices : device'[d].user = device[d].user
    BY <1>0, <1>1, PayloadTypes DEF Seen, DeviceRows
  <2>2. \A e \in Editors : edit[e] # None => edit[e].device \in Devices
    BY <1>0 DEF Edits
  <2> QED
    BY <1>1, <2>1, <2>2 DEF EditsInv
<1>2. ASSUME NEW e \in Editors, NEW d \in Devices, NEW change \in Changes,
             ReadSettings(e, d, change)
      PROVE  EditsInv'
  <2>1. edit'[e] = [device |-> d, change |-> change, row |-> device[d]]
    BY <1>0, <1>2 DEF ReadSettings
  <2> QED
    BY <1>2, <2>1 DEF ReadSettings, EditsInv
<1>3. ASSUME NEW e \in Editors, WriteSettings(e)
      PROVE  EditsInv'
  <2> DEFINE x == edit[e]
  <2>1. x \in Edits /\ x.device \in Devices /\ x.row.user = asked[x.device]
    BY <1>0, <1>3 DEF WriteSettings, Edits, EditsInv
  <2>2. Overrides(x) = [f \in Fields |-> IF f \in DOMAIN x.change THEN x.change[f]
                                         ELSE asked[x.device][f]]
    BY <2>1 DEF Overrides
  <2>3. /\ device'[x.device].user = Overrides(x) /\ asked'[x.device] = Overrides(x)
        /\ \A d \in Devices \ {x.device} : device'[d] = device[d] /\ asked'[d] = asked[d]
    <3>1. device' = [device EXCEPT ![x.device] =
                       [@ EXCEPT !.user = Overrides(x), !.shown = Effective(x)]]
          /\ asked' = [asked EXCEPT ![x.device] = Overrides(x)]
      BY <1>3, <2>2 DEF WriteSettings
    <3>2. device[x.device] \in DeviceRows
      BY <1>0, <2>1
    <3> HIDE DEF x
    <3> QED
      BY <1>0, <2>1, <3>1, <3>2 DEF DeviceRows
  <2>4. \A f \in Editors : edit'[f] = None
    BY <1>0, <1>3 DEF WriteSettings
  <2> QED
    BY <2>3, <2>4 DEF EditsInv
<1>4. ASSUME NEW e \in Editors, SettingsBusy(e)
      PROVE  EditsInv'
    BY <1>0, <1>4 DEF SettingsBusy, EditsInv
<1>5. CASE UNCHANGED <<device, edit, asked>>
    BY <1>5 DEF EditsInv
<1>. QED  BY <1>1, <1>2, <1>3, <1>4, <1>5 DEF Next, vars, Store, Duplicate, SetClock

\* Only a second edit of a device between the read and the write of the first loses an
\* override: with one editor at a time every omitted field keeps what was asked of it last,
\* whatever the sensors report meanwhile.
THEOREM OneEditorKeepsOverrides ==
    ASSUME \A e, f \in Editors : e = f
    PROVE  Spec => []OverridesAsAsked
<1>1. Init => EditsInv
    BY DEF Init, EditsInv
<1>2. TypeOK /\ EditsInv /\ [Next]_vars => EditsInv'
    BY EditsStep
<1>3. TypeOK /\ EditsInv => OverridesAsAsked
    BY DEF TypeOK, EditsInv, OverridesAsAsked
<1>. QED  BY <1>1, <1>2, <1>3, TypeCorrect, PTL DEF Spec
=============================================================================
