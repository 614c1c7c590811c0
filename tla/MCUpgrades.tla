------------------------------ MODULE MCUpgrades ------------------------------
(***************************************************************************)
(* Small installations: every schema a release has left, alone or with the  *)
(* defects the start-up refuses.                                           *)
(***************************************************************************)
EXTENDS Upgrades, TLC

CONSTANTS d1, d2, c1, s1, u1, w1, w2, k1, k2, k3, k4

Calibration(id, d, default) == [id |-> id, device |-> d, curve |-> c1, default |-> default]

\* Two defaults of one device, or one calibration not in use.
LegacyRows ==
    {{Calibration(1, d1, TRUE), Calibration(2, d1, TRUE)}, {Calibration(1, d2, FALSE)}}

None4All == [d \in Devices |-> None]

Phase2(columns, objects) ==
    [columns |-> columns, objects |-> objects, undated |-> {s1}, unfitted |-> {1, 2},
     ledger |-> {}, version |-> 0]
V1(objects, ledger) ==
    [columns |-> {"device", "sample"}, objects |-> {"rows", "ledger", "retry"} \cup objects,
     undated |-> {}, unfitted |-> {1, 2}, ledger |-> ledger, version |-> 1]
V2(objects, ledger) ==
    [columns |-> Columns, objects |-> (Objects \ {"stray"}) \cup objects,
     undated |-> {}, unfitted |-> {}, ledger |-> ledger, version |-> 2]

\* A new volume and a foreign file; a Phase 2 file, whole, half migrated by
\* hand, and with a stray object; V1 and V2, whole, with a stray object, and of
\* a later release.
TelemetryFiles ==
    {[image |-> [Phase2({}, {}) EXCEPT !.undated = {}, !.unfitted = {}], rows |-> {},
      active |-> None4All],
     [image |-> [Phase2({}, {"stray"}) EXCEPT !.undated = {}, !.unfitted = {}], rows |-> {},
      active |-> None4All]}
    \cup [image : {Phase2({}, {"rows"}), Phase2({"device"}, {"rows", "ledger"}),
                   Phase2({}, {"rows", "stray"}),
                   V1({}, {1}), V1({"stray"}, {1}), V1({}, {1, 3})},
          rows : LegacyRows, active : {None4All}]
    \cup {[image |-> image, rows |-> {Calibration(1, d1, TRUE)},
           active |-> [None4All EXCEPT ![d1] = 1]] :
             image \in {V2({}, {1, 2}), V2({"stray"}, {1, 2}), V2({}, {1, 2, 3})}}

Page(content) == [url |-> u1, content |-> content]
NoKeys == [i \in Ingredients |-> NoKey]
KeyPairs(x, y) == [i \in Ingredients |-> IF i = 1 THEN x ELSE y]

\* The objects of each schema: the research index came with schema 2.
ObjectsOf(n) ==
    (IF n >= 1 THEN {"schema", "base"} ELSE {})
    \cup (IF n >= 2 THEN {"documents"} ELSE {})
    \cup (IF n >= 3 THEN {"columns3", "tables3", "keys3", "index"} ELSE {})
    \cup (IF n >= 4 THEN {"tables4"} ELSE {})
    \cup (IF n >= 5 THEN {"tables5"} ELSE {})
    \cup (IF n >= 6 THEN {"tables6"} ELSE {})

VersionOf(d, content) ==
    [document |-> d, no |-> d, hash |-> content, quality |-> Unreviewed]

\* No document, one, and two of one URL, which schemas before 5 did not number.
StoresOf(n) ==
    {EmptyStore}
    \cup IF n < 2 THEN {}
         ELSE {[documents |-> pages,
                versions |-> IF n >= 5 THEN [d \in DOMAIN pages |-> VersionOf(d, pages[d].content)]
                             ELSE <<>>,
                indexed |-> IF n >= 3 THEN DOMAIN pages ELSE {}] :
                  pages \in {<<Page(w1)>>, <<Page(w1), Page(w2)>>}}

KeysOf(n) ==
    IF n >= 3 THEN {KeyPairs(k1, k2)}
    ELSE {NoKeys, KeyPairs(k1, NoKey), KeyPairs(NoKey, k1), KeyPairs(k1, k1)}

BrewingFiles ==
    (UNION {[image : [objects : {ObjectsOf(n)}, version : {n}, stamp : {0}, keys : KeysOf(n),
                      orphan : {FALSE}],
             store : StoresOf(n)] : n \in 1 .. 5})
    \cup [image : [objects : {{}, {"schema"}}, version : {0}, stamp : {0},
                   keys : {KeyPairs(k1, k2)}, orphan : {FALSE}],
          store : {EmptyStore}]
    \cup [image : [objects : {BrewObjects}, version : {6}, stamp : {6},
                   keys : {KeyPairs(k1, k2)}, orphan : BOOLEAN],
          store : {s \in StoresOf(6) : s.indexed = DOMAIN s.documents}]
    \cup [image : [objects : {BrewObjects}, version : {7}, stamp : {6},
                   keys : {KeyPairs(k1, k2)}, orphan : {FALSE}],
          store : {EmptyStore}]

Installed(t, b) ==
    [telemetry |-> t.image, rows |-> t.rows, active |-> t.active,
     brewing |-> b.image, store |-> b.store]

\* Each telemetry file beside a current and a new brewing file, and each
\* brewing file beside a current telemetry file: the one upgrade is over before
\* the other begins.
MCInstallations ==
    {Installed(t, b) : t \in TelemetryFiles,
                       b \in {f \in BrewingFiles : f.store = EmptyStore /\ ~ f.image.orphan
                                                     /\ f.image.stamp = f.image.version}}
    \cup {Installed(t, b) : t \in {f \in TelemetryFiles : ExactV2(f.image)}, b \in BrewingFiles}
=============================================================================
