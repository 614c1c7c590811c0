---------------------------- MODULE BackupsProofs ----------------------------
(***************************************************************************)
(* Theorems about PhoneBackups, the host's backups and restores with the    *)
(* phone's beside them, for any number of processes and generations, any    *)
(* calendar and any retention.                                             *)
(*                                                                         *)
(* What retention relies on is a fact about sets of numbers: taking away    *)
(* numbers that have n greater ones beside them leaves n greater ones to    *)
(* everything that had them.  A process that selected its victims long ago  *)
(* is harmless because that stays true of each victim, whatever the others  *)
(* remove in the meantime.                                                  *)
(***************************************************************************)
EXTENDS PhoneBackups, FiniteSetTheorems, WellFoundedInduction, TLAPS

LEMMA Numbers ==
    /\ MaxRuns \in Nat /\ Weeks \in Nat /\ FreshRuns \in Nat
    /\ Keep \in Nat \ {0} /\ KeepOffhost \in Nat \ {0} /\ FreshRuns < Keep
    BY BackupsAssumption DEF BackupsAssumption

LEMMA IdsAreNumbers == \A r \in Ids : r \in Nat /\ r \in 0 .. MaxRuns /\ r # 0
    BY Numbers DEF Ids

LEMMA NamedIds == \A r \in 0 .. MaxRuns : r # 0 => r \in Ids
    BY Numbers DEF Ids

-----------------------------------------------------------------------------
(* Sets of RUN_IDs.                                                         *)

LEMMA SetsOfIds ==
    ASSUME NEW S \in SUBSET Ids
    PROVE  IsFiniteSet(S) /\ Cardinality(S) \in Nat
<1>1. IsFiniteSet(Ids)
    BY Numbers, FS_Interval DEF Ids
<1>2. IsFiniteSet(S)
    BY <1>1, FS_Subset
<1> QED
    BY <1>2, FS_CardinalityType

\* A set of RUN_IDs that is not empty has a last one: one with the fewest above it.
LEMMA LastExists ==
    ASSUME NEW S \in SUBSET Ids, S # {}
    PROVE  \E m \in S : \A s \in S : s <= m
<1> DEFINE T == {Above(S, x) : x \in S}
<1>1. \A x \in S : Above(S, x) \in SUBSET Ids
    BY DEF Above
<1>2. T \subseteq SUBSET Ids /\ T # {}
    BY <1>1
<1>3. IsWellFoundedOn(StrictSubsetOrdering(Ids), SUBSET Ids)
    BY SetsOfIds, FS_StrictSubsetOrderingWellFounded, FS_FiniteSubsetsOfFinite
<1>4. \E U \in T : \A V \in T : <<V, U>> \notin StrictSubsetOrdering(Ids)
  <2> HIDE DEF T
  <2> QED
    BY <1>2, <1>3, WFMin
<1>5. PICK m \in S : \A x \in S : <<Above(S, x), Above(S, m)>> \notin StrictSubsetOrdering(Ids)
    BY <1>4
<1>6. SUFFICES ASSUME NEW s \in S, s > m PROVE FALSE
    BY IdsAreNumbers
<1>7. Above(S, s) \subseteq Above(S, m)
    BY <1>6, IdsAreNumbers DEF Above
<1>8. s \in Above(S, m) /\ s \notin Above(S, s)
    BY <1>6, IdsAreNumbers DEF Above
<1> QED
    BY <1>1, <1>5, <1>7, <1>8 DEF StrictSubsetOrdering

\* The newest n of a set that has n are n.
LEMMA NewestAreEnough ==
    ASSUME NEW S \in SUBSET Ids, NEW n \in Nat, Cardinality(S) >= n
    PROVE  Cardinality(Newest(S, n)) >= n
<1> DEFINE N == Newest(S, n)
<1>1. N \in SUBSET Ids /\ N \subseteq S /\ Cardinality(N) \in Nat
    BY SetsOfIds DEF Newest
<1>2. SUFFICES ASSUME Cardinality(N) < n PROVE FALSE
    BY <1>1
<1>3. S \ N # {}
    BY <1>1, <1>2
<1>4. PICK m \in S \ N : \A s \in S \ N : s <= m
    BY <1>3, LastExists
<1>5. Above(S, m) \subseteq N
    BY <1>4, IdsAreNumbers DEF Above
<1>6. Cardinality(Above(S, m)) <= Cardinality(N)
    BY <1>1, <1>5, SetsOfIds, FS_Subset
<1>7. Cardinality(Above(S, m)) \in Nat
    BY SetsOfIds DEF Above
<1>8. m \in N
    BY <1>1, <1>2, <1>4, <1>6, <1>7 DEF Newest
<1> QED
    BY <1>4, <1>8

LEMMA MoreAbove ==
    ASSUME NEW S \in SUBSET Ids, NEW T \in SUBSET Ids, S \subseteq T, NEW r \in Ids
    PROVE  /\ Cardinality(Above(S, r)) \in Nat /\ Cardinality(Above(T, r)) \in Nat
           /\ Cardinality(Above(S, r)) <= Cardinality(Above(T, r))
<1>1. Above(S, r) \subseteq Above(T, r) /\ Above(T, r) \in SUBSET Ids /\ Above(S, r) \in SUBSET Ids
    BY DEF Above
<1> QED
    BY <1>1, SetsOfIds, FS_Subset

\* Take numbers that have n greater ones away: what had n greater ones has them still.
LEMMA RemovalIsSafe ==
    ASSUME NEW S \in SUBSET Ids, NEW D \in SUBSET Ids, NEW S2 \in SUBSET Ids, NEW n \in Nat,
           \A d \in D : Cardinality(Above(S, d)) >= n,
           S \ D \subseteq S2,
           NEW r \in Ids, Cardinality(Above(S, r)) >= n
    PROVE  Cardinality(Above(S2, r)) >= n
<1> DEFINE A == Above(S, r)
<1>1. A \in SUBSET Ids
    BY DEF Above
<1>2. Cardinality(Newest(A, n)) >= n
    BY <1>1, NewestAreEnough
<1>3. \A a \in A : Above(A, a) = Above(S, a)
    BY IdsAreNumbers DEF Above
<1>4. \A d \in D : Cardinality(Above(S, d)) \in Nat
    BY MoreAbove
<1>5. Newest(A, n) \subseteq Above(S2, r)
    BY <1>3, <1>4 DEF Newest, Above
<1>6. Newest(A, n) \in SUBSET Ids /\ Above(S2, r) \in SUBSET Ids
    BY <1>1 DEF Newest, Above
<1> QED
    BY <1>2, <1>5, <1>6, SetsOfIds, FS_Subset

-----------------------------------------------------------------------------
(* Types, and whose a generation is.                                        *)

\* A process that is under way owns the generation it has bound; what nobody
\* has bound has no directory; no RUN_ID is later than the clock unless that was
\* set back.
Owned ==
    /\ \A b \in Backers : run[b].at # "idle" =>
          run[b].id \in Ids /\ mode[run[b].id] \in {"single", "dual"}
    /\ \A c \in Couriers : courier[c].at # "idle" =>
          courier[c].id \in Ids /\ mode[courier[c].id] = "phone"
    /\ \A r \in Ids : mode[r] = "none" => local[r] = "none"
    /\ ordered => \A r \in Taken : r <= clock

Typed == TypeOK /\ Owned

\* What a step of a backup process needs to know of it.
Known(b) == HostTypeOK /\ (run[b].at # "idle" => run[b].id \in Ids)

Places == {"idle", "manifest", "copy", "prune offhost", "remove offhost",
           "prune", "remove", "index", "health"} \cup Files
RunStates == [at : Places, id : 0 .. MaxRuns, doomed : SUBSET Ids]

LEMMA RunTypes ==
    /\ HostTypeOK => run \in [Backers -> RunStates]
    /\ Idle \in RunStates
    /\ \A rec \in RunStates, at \in Places, D \in SUBSET Ids :
          /\ [rec EXCEPT !.at = at] \in RunStates
          /\ [rec EXCEPT !.at = at, !.doomed = D] \in RunStates
<1>1. HostTypeOK => run \in [Backers -> RunStates]
    BY DEF HostTypeOK, RunStates, Places
<1>2. Idle \in RunStates
    BY Numbers DEF RunStates, Places, Idle
<1> QED
    BY <1>1, <1>2 DEF RunStates

LEMMA RestOfTypes ==
    ASSUME HostTypeOK, run' \in [Backers -> RunStates], local' \in [Ids -> Verdicts],
           offhost' \in [Ids -> Verdicts], index' \in 0 .. MaxRuns, health' \in 0 .. MaxRuns,
           clock' \in 0 .. MaxRuns, mode' \in [Ids -> {"none", "single", "dual", "phone"}],
           ordered' \in BOOLEAN, promoted' \subseteq Ids,
           UNCHANGED <<restoreVars, container, mounted>>
    PROVE  HostTypeOK'
    BY DEF HostTypeOK, RunStates, Places, restoreVars

LEMMA ReadsType ==
    ASSUME ordered \in BOOLEAN, NEW now \in 0 .. MaxRuns, Reads(now)
    PROVE  clock' \in 0 .. MaxRuns /\ ordered' \in BOOLEAN
    BY Numbers DEF Reads

LEMMA WithoutType ==
    ASSUME NEW root \in [Ids -> Verdicts], NEW D, NEW stop
    PROVE  Without(root, D, stop) \in [Ids -> Verdicts]
    BY DEF Without, Verdicts

BackupStep(b) ==
    \/ \E r \in Ids, m \in {"single", "dual"} : Begin(b, r, m)
    \/ Snapshot(b) \/ Describe(b) \/ Promote(b) \/ Select(b) \/ RemoveOffhost(b)
    \/ RemoveLocal(b) \/ WriteIndex(b) \/ WriteHealth(b) \/ Quit(b)

LEMMA BackupTypes ==
    ASSUME NEW b \in Backers, Known(b),
           BackupStep(b)
    PROVE  HostTypeOK'
<1>0. run \in [Backers -> RunStates] /\ Idle \in RunStates
    BY RunTypes DEF Known
<1>1. ASSUME NEW r \in Ids, NEW m \in {"single", "dual"}, Begin(b, r, m)
      PROVE  HostTypeOK'
  <2>1. run' \in [Backers -> RunStates]
    BY <1>0, <1>1, IdsAreNumbers DEF Begin, RunStates, Places, Files
  <2>2. clock' \in 0 .. MaxRuns /\ ordered' \in BOOLEAN
    BY <1>1, IdsAreNumbers, ReadsType DEF Begin, Bind, Known, HostTypeOK
  <2>3. mode' \in [Ids -> {"none", "single", "dual", "phone"}] /\ local' \in [Ids -> Verdicts]
    BY <1>1 DEF Begin, Bind, Known, HostTypeOK, Verdicts
  <2> QED
    BY <1>1, <2>1, <2>2, <2>3, RestOfTypes DEF Known, HostTypeOK, timeVars, Begin
<1>2. ASSUME Snapshot(b) PROVE HostTypeOK'
  <2>1. run' \in [Backers -> RunStates]
    <3>1. \A to \in {"brew", "manifest"} : [run[b] EXCEPT !.at = to] \in RunStates
      BY <1>0, RunTypes DEF Places, Files
    <3>2. \E rec \in RunStates : run' = [run EXCEPT ![b] = rec]
      BY <1>0, <1>2, <3>1 DEF Snapshot, At
    <3> QED
      BY <1>0, <3>2
  <2> QED
    BY <1>2, <2>1, RestOfTypes DEF Known, HostTypeOK, timeVars, Snapshot
<1>3. ASSUME Describe(b) PROVE HostTypeOK'
  <2>1. run' \in [Backers -> RunStates]
    BY <1>0, <1>3 DEF Describe, At, RunStates, Places
  <2> QED
    BY <1>3, <2>1, RestOfTypes DEF Known, HostTypeOK, timeVars, Describe, Verdicts
<1>4. ASSUME Promote(b) PROVE HostTypeOK'
  <2>1. run' \in [Backers -> RunStates] /\ run[b].at # "idle"
    BY <1>0, <1>4 DEF Promote, At, RunStates, Places
  <2> QED
    BY <1>4, <2>1, RestOfTypes DEF Known, HostTypeOK, timeVars, Promote, Verdicts
<1>5. ASSUME Select(b) PROVE HostTypeOK'
  <2>1. /\ \A now \in 0 .. MaxRuns : DoomedOffhost(mode[run[b].id], now) \subseteq Ids
        /\ DoomedLocally \subseteq Ids
    BY DEF DoomedOffhost, Counted, DoomedLocally, Whole
  <2>2. run' \in [Backers -> RunStates]
    <3>1. \A D \in SUBSET Ids, to \in {"remove offhost", "remove"} :
              [run[b] EXCEPT !.at = to, !.doomed = D] \in RunStates
      BY <1>0, RunTypes DEF Places
    <3>2. \E rec \in RunStates : run' = [run EXCEPT ![b] = rec]
      BY <1>5, <2>1, <3>1 DEF Select
    <3> QED
      BY <1>0, <3>2
  <2>3. clock' \in 0 .. MaxRuns /\ ordered' \in BOOLEAN
    BY <1>5, ReadsType DEF Select, timeVars, Known, HostTypeOK
  <2> QED
    BY <1>5, <2>2, <2>3, RestOfTypes DEF Known, HostTypeOK, timeVars, Select
<1>6. ASSUME RemoveOffhost(b) PROVE HostTypeOK'
  <2>1. run' \in [Backers -> RunStates]
    <3>1. [run[b] EXCEPT !.at = "prune", !.doomed = {}] \in RunStates
      BY <1>0, RunTypes DEF Places
    <3>2. \E rec \in RunStates : run' = [run EXCEPT ![b] = rec]
      BY <1>0, <1>6, <3>1 DEF RemoveOffhost, Remove
    <3> QED
      BY <1>0, <3>2
  <2>2. offhost' \in [Ids -> Verdicts]
    <3>1. offhost \in [Ids -> Verdicts]
      BY DEF Known, HostTypeOK
    <3>2. PICK stop \in run[b].doomed \cup {MaxRuns + 1} :
              offhost' = Without(offhost, run[b].doomed, stop)
      BY <1>6 DEF RemoveOffhost
    <3> QED
      BY <3>1, <3>2, WithoutType
  <2> QED
    BY <1>6, <2>1, <2>2, RestOfTypes DEF Known, HostTypeOK, timeVars, RemoveOffhost
<1>7. ASSUME RemoveLocal(b) PROVE HostTypeOK'
  <2>1. run' \in [Backers -> RunStates]
    <3>1. [run[b] EXCEPT !.at = "index", !.doomed = {}] \in RunStates
      BY <1>0, RunTypes DEF Places
    <3>2. \E rec \in RunStates : run' = [run EXCEPT ![b] = rec]
      BY <1>0, <1>7, <3>1 DEF RemoveLocal, Remove
    <3> QED
      BY <1>0, <3>2
  <2>2. local' \in [Ids -> Verdicts]
    <3>1. local \in [Ids -> Verdicts]
      BY DEF Known, HostTypeOK
    <3>2. PICK stop \in run[b].doomed \cup {MaxRuns + 1} :
              local' = Without(local, run[b].doomed, stop)
      BY <1>7 DEF RemoveLocal
    <3> QED
      BY <3>1, <3>2, WithoutType
  <2> QED
    BY <1>7, <2>1, <2>2, RestOfTypes DEF Known, HostTypeOK, timeVars, RemoveLocal
<1>8. ASSUME WriteIndex(b) PROVE HostTypeOK'
  <2>1. run' \in [Backers -> RunStates] /\ run[b].id \in 0 .. MaxRuns
    BY <1>0, <1>8 DEF WriteIndex, At, RunStates, Places
  <2> QED
    BY <1>8, <2>1, RestOfTypes DEF Known, HostTypeOK, timeVars, WriteIndex
<1>9. ASSUME WriteHealth(b) \/ Quit(b) PROVE HostTypeOK'
  <2>1. run' \in [Backers -> RunStates] /\ run[b].id \in 0 .. MaxRuns
    BY <1>0, <1>9 DEF WriteHealth, Quit, RunStates
  <2> QED
    BY <1>9, <2>1, RestOfTypes DEF Known, HostTypeOK, timeVars, WriteHealth, Quit
<1> QED
    BY <1>1, <1>2, <1>3, <1>4, <1>5, <1>6, <1>7, <1>8, <1>9 DEF BackupStep

Attempts == {"idle", "helper", "receipt", "failed"}
RestoreStates == [at : Attempts, target : 0 .. MaxRuns, pre : 0 .. MaxRuns]

\* The operator, a restore, its helpers and a reboot leave the generations alone.
LEMMA OperateFrame ==
    ASSUME Operate
    PROVE  /\ UNCHANGED <<mode, local, offhost, index, health, promoted>>
           /\ run' = run \/ run' = [b \in Backers |-> Idle]
           /\ \/ \E target, pre \in Ids : Authorize(target, pre)
              \/ UNCHANGED timeVars
<1> USE DEF runVars, backupVars
<1>1. ASSUME NEW target \in Ids, NEW pre \in Ids, Authorize(target, pre)
      PROVE  UNCHANGED runVars
    BY <1>1 DEF Authorize
<1>2. ASSUME NEW r \in Ids, Replace(r) \/ FailHelper(r) PROVE UNCHANGED backupVars
    BY <1>2 DEF Replace, FailHelper
<1>3. ASSUME WriteReceipt \/ FailRestore \/ StopContainer \/ StartContainer
      PROVE  UNCHANGED backupVars
    BY <1>3 DEF WriteReceipt, FailRestore, StopContainer, StartContainer
<1>4. CASE Boot
    BY <1>4 DEF Boot
<1> QED
    BY <1>1, <1>2, <1>3, <1>4 DEF Operate

LEMMA RestoreTypes ==
    /\ HostTypeOK => restore \in RestoreStates
    /\ NoRestore \in RestoreStates
    /\ \A rec \in RestoreStates, at \in Attempts :
          /\ [rec EXCEPT !.at = at] \in RestoreStates
          /\ [rec EXCEPT !.at = at].at = at
          /\ [rec EXCEPT !.at = at].target = rec.target
          /\ [rec EXCEPT !.at = at].pre = rec.pre
<1>1. HostTypeOK => restore \in RestoreStates
    BY DEF HostTypeOK, RestoreStates, Attempts
<1>2. NoRestore \in RestoreStates
    BY Numbers DEF NoRestore, RestoreStates, Attempts
<1> QED
    BY <1>1, <1>2 DEF RestoreStates

Helpers == [Ids -> {"none"} \cup Files]

\* What a helper's step does to its script: nothing, or it tells it the outcome.
LEMMA Told ==
    ASSUME HostTypeOK, NEW r \in Ids, Replace(r) \/ FailHelper(r)
    PROVE  /\ restore' \in RestoreStates
           /\ restore'.target = restore.target /\ restore'.pre = restore.pre
           /\ restore'.at = restore.at \/ (Awaits(r) /\ restore'.at \in {"receipt", "failed"})
<1>1. restore \in RestoreStates /\ restore.at \in Attempts
    BY RestoreTypes DEF RestoreStates
<1>2. PICK at \in {restore.at, "receipt", "failed"} :
          /\ restore' = [restore EXCEPT !.at = at]
          /\ at = restore.at \/ (Awaits(r) /\ at \in {"receipt", "failed"})
    BY DEF Replace, FailHelper
<1>3. at \in Attempts
    BY <1>1 DEF Attempts
<1>4. /\ restore' \in RestoreStates /\ restore'.at = at
      /\ restore'.target = restore.target /\ restore'.pre = restore.pre
    BY <1>1, <1>2, <1>3, RestoreTypes
<1> QED
    BY <1>2, <1>4

LEMMA OperateTypes ==
    ASSUME HostTypeOK, Operate
    PROVE  HostTypeOK'
<1>0. /\ restore \in RestoreStates /\ NoRestore \in RestoreStates
      /\ run \in [Backers -> RunStates] /\ Idle \in RunStates
      /\ helper \in Helpers /\ NoHelper \in Helpers
      /\ live \in [Files -> 0 .. MaxRuns] /\ Untouched \in [Files -> 0 .. MaxRuns]
      /\ receipt \in 0 .. MaxRuns /\ mounted \in 0 .. MaxRuns /\ health \in 0 .. MaxRuns
      /\ container \in {"up", "down"} /\ alone \in BOOLEAN /\ restores \in Nat
      /\ clock \in 0 .. MaxRuns /\ ordered \in BOOLEAN
  <2>1. Untouched \in [Files -> 0 .. MaxRuns] /\ NoHelper \in Helpers
    BY Numbers DEF Untouched, NoHelper, Helpers
  <2>2. /\ helper \in Helpers /\ live \in [Files -> 0 .. MaxRuns]
        /\ receipt \in 0 .. MaxRuns /\ mounted \in 0 .. MaxRuns /\ health \in 0 .. MaxRuns
        /\ container \in {"up", "down"} /\ alone \in BOOLEAN /\ restores \in Nat
        /\ clock \in 0 .. MaxRuns /\ ordered \in BOOLEAN
    BY DEF HostTypeOK, Helpers
  <2> QED
    BY <2>1, <2>2, RunTypes, RestoreTypes
<1>1. SUFFICES /\ clock' \in 0 .. MaxRuns /\ ordered' \in BOOLEAN
               /\ run' \in [Backers -> RunStates]
               /\ restore' \in RestoreStates /\ helper' \in Helpers
               /\ live' \in [Files -> 0 .. MaxRuns]
               /\ receipt' \in 0 .. MaxRuns /\ mounted' \in 0 .. MaxRuns
               /\ restores' \in Nat /\ alone' \in BOOLEAN
               /\ container' \in {"up", "down"}
  <2>1. UNCHANGED <<mode, local, offhost, index, health, promoted>>
    BY OperateFrame
  <2>2. /\ local \in [Ids -> Verdicts] /\ offhost \in [Ids -> Verdicts]
        /\ mode \in [Ids -> {"none", "single", "dual", "phone"}]
        /\ index \in 0 .. MaxRuns /\ health \in 0 .. MaxRuns /\ promoted \subseteq Ids
    BY DEF HostTypeOK
  <2> QED
    BY <2>1, <2>2 DEF HostTypeOK, RunStates, Places, RestoreStates, Attempts, Helpers
<1>2. ASSUME NEW target \in Ids, NEW pre \in Ids, Authorize(target, pre)
      PROVE  /\ clock' \in 0 .. MaxRuns /\ ordered' \in BOOLEAN
             /\ restore' \in RestoreStates /\ helper' \in Helpers
             /\ restores' \in Nat /\ alone' \in BOOLEAN
             /\ UNCHANGED <<run, live, receipt, container, mounted>>
  <2>1. PICK now \in 0 .. MaxRuns : Reads(now)
    BY <1>2 DEF Authorize
  <2>2. clock' \in 0 .. MaxRuns /\ ordered' \in BOOLEAN
    BY <1>0, <2>1, ReadsType
  <2>3. StartHelper(target, pre) /\ UNCHANGED <<run, live, receipt, container, mounted>>
    BY <1>2 DEF Authorize, runVars
  <2>4. restore' \in RestoreStates
    BY <2>3, IdsAreNumbers DEF StartHelper, RestoreStates, Attempts
  <2>5. helper' \in Helpers
    BY <1>0, <2>3 DEF StartHelper, Helpers, Files
  <2>6. restores' \in Nat /\ alone' \in BOOLEAN
    BY <1>0, <2>3 DEF StartHelper
  <2> QED
    BY <2>2, <2>3, <2>4, <2>5, <2>6
<1>3. ASSUME NEW r \in Ids, Replace(r) \/ FailHelper(r)
      PROVE  /\ restore' \in RestoreStates /\ helper' \in Helpers
             /\ live' \in [Files -> 0 .. MaxRuns]
             /\ UNCHANGED <<clock, ordered, run, receipt, restores, alone, container, mounted>>
  <2>1. UNCHANGED <<clock, ordered, run, receipt, restores, alone, container, mounted>>
    BY <1>3 DEF Replace, FailHelper, backupVars, timeVars, runVars
  <2>2. helper' \in Helpers
    <3>1. Following(r) \in {"none"} \cup Files
      BY DEF Following, Files
    <3> QED
      BY <1>0, <1>3, <3>1 DEF Replace, FailHelper, Helpers
  <2>3. live' \in [Files -> 0 .. MaxRuns]
    <3>1. Copied(r) \subseteq 0 .. MaxRuns
      BY IdsAreNumbers, Numbers DEF Copied
    <3> QED
      BY <1>0, <1>3, <3>1 DEF Replace, FailHelper
  <2> QED
    BY <1>3, <2>1, <2>2, <2>3, Told
<1>4. ASSUME FailRestore \/ WriteReceipt
      PROVE  /\ restore' \in RestoreStates /\ receipt' \in 0 .. MaxRuns
             /\ UNCHANGED <<clock, ordered, run, live, helper, restores, alone, container, mounted>>
  <2>1. restore.target \in 0 .. MaxRuns
    BY <1>0 DEF RestoreStates
  <2>2. [restore EXCEPT !.at = "failed"] \in RestoreStates
    BY <1>0, RestoreTypes DEF Attempts
  <2> QED
    BY <1>0, <1>4, <2>1, <2>2 DEF FailRestore, WriteReceipt, backupVars, timeVars, runVars
<1>5. CASE StopContainer
    BY <1>0, <1>5 DEF StopContainer, backupVars, timeVars, runVars, restoreVars
<1>6. CASE StartContainer \/ Boot
  <2>1. Starts /\ UNCHANGED <<clock, ordered, restores>>
    BY <1>6 DEF StartContainer, Boot, backupVars, timeVars
  <2>2. run' \in [Backers -> RunStates] /\ helper' \in Helpers
    BY <1>0, <1>6 DEF StartContainer, Boot, backupVars, runVars
  <2> QED
    BY <1>0, <2>1, <2>2, Numbers DEF Starts
<1> QED
    BY <1>0, <1>2, <1>3, <1>4, <1>5, <1>6 DEF Operate

\* The types of the phone's part.
CourierPlaces == {"idle", "lock", "pull", "promote", "local", "finally"} \cup Commands
CourierStates == [at : CourierPlaces, id : 0 .. MaxRuns, pair : Verdicts, clean : BOOLEAN]

PhoneTypes ==
    /\ courier \in [Couriers -> CourierStates]
    /\ staging \in [Ids -> Verdicts]
    /\ vault \in [Ids -> {"none", "whole"}]
    /\ onPhone \in 0 .. MaxRuns
    /\ late \subseteq Commands \X Ids

CourierStep(c) ==
    \/ Acquire(c) \/ Ask(c, "snapshot", "pull") \/ Pull(c) \/ PromotePair(c)
    \/ Ask(c, "cleanup", "publish") \/ Ask(c, "publish", "local")
    \/ WriteLocalHealth(c) \/ Finally(c) \/ Kill(c)

LEMMA PerformsTypes ==
    ASSUME staging \in [Ids -> Verdicts], onPhone \in 0 .. MaxRuns,
           NEW command \in Commands, NEW r \in Ids, Performs(command, r) \/ Fails(command, r)
    PROVE  staging' \in [Ids -> Verdicts] /\ onPhone' \in 0 .. MaxRuns
<1>1. onPhone' \in 0 .. MaxRuns
    BY IdsAreNumbers DEF Performs, Fails
<1>2. ASSUME Performs(command, r) PROVE staging' \in [Ids -> Verdicts]
    BY <1>2 DEF Performs, Verdicts
<1>3. ASSUME Fails(command, r) PROVE staging' \in [Ids -> Verdicts]
    BY <1>3 DEF Fails, Verdicts
<1> QED
    BY <1>1, <1>2, <1>3

LEMMA CourierMoves ==
    /\ Home \in CourierStates
    /\ \A rec \in CourierStates, at \in CourierPlaces :
          /\ [rec EXCEPT !.at = at] \in CourierStates
          /\ \A clean \in BOOLEAN :
                [rec EXCEPT !.at = at, !.clean = clean] \in CourierStates
          /\ \A pair \in Verdicts :
                [rec EXCEPT !.at = at, !.pair = pair] \in CourierStates
<1>1. Home \in CourierStates
    BY Numbers DEF Home, CourierStates, CourierPlaces, Verdicts
<1> QED
    BY <1>1 DEF CourierStates

\* Every move of a coordinator is to one of its places.
LEMMA CourierTypes ==
    ASSUME PhoneTypes, NEW c \in Couriers, CourierStep(c)
    PROVE  courier' \in [Couriers -> CourierStates]
<1>1. courier \in [Couriers -> CourierStates] /\ courier[c] \in CourierStates
    BY DEF PhoneTypes
<1>2. {"idle", "lock", "snapshot", "pull", "promote", "cleanup", "publish", "local", "finally"}
          \subseteq CourierPlaces
    BY DEF CourierPlaces, Commands
<1>3. SUFFICES \E rec \in CourierStates : courier' = [courier EXCEPT ![c] = rec]
    BY <1>1
<1>4. ASSUME Abandons(c)
      PROVE  \E rec \in CourierStates : courier' = [courier EXCEPT ![c] = rec]
    BY <1>1, <1>2, <1>4, CourierMoves DEF Abandons
<1>5. ASSUME NEW command, NEW to \in {"pull", "publish", "local"}, Ask(c, command, to)
      PROVE  \E rec \in CourierStates : courier' = [courier EXCEPT ![c] = rec]
    BY <1>1, <1>2, <1>4, <1>5, CourierMoves DEF Ask, Moves
<1>6. CASE Acquire(c) \/ WriteLocalHealth(c)
    BY <1>1, <1>2, <1>6, CourierMoves DEF Acquire, WriteLocalHealth, Moves
<1>7. CASE Pull(c)
    BY <1>1, <1>2, <1>4, <1>7, CourierMoves DEF Pull, Verdicts
<1>8. CASE PromotePair(c)
    BY <1>1, <1>2, <1>4, <1>8, CourierMoves DEF PromotePair, Moves
<1>9. CASE Finally(c) \/ Kill(c)
    BY <1>9, CourierMoves DEF Finally, Kill
<1> QED
    BY <1>5, <1>6, <1>7, <1>8, <1>9 DEF CourierStep

LEMMA PhoneStepTypes ==
    ASSUME TypeOK, Owned, PhoneStep
    PROVE  TypeOK'
<1>0. PhoneTypes /\ HostTypeOK
    BY DEF TypeOK, PhoneTypes, CourierStates, CourierPlaces
<1>1. SUFFICES PhoneTypes' /\ HostTypeOK'
    BY DEF TypeOK, PhoneTypes, CourierStates, CourierPlaces
<1>2. ASSUME UNCHANGED hostVars PROVE HostTypeOK'
    BY <1>0, <1>2 DEF hostVars, backupVars, timeVars, runVars, restoreVars, HostTypeOK
<1>3. ASSUME NEW command \in Commands, NEW r \in Ids, CarryOut(command, r)
      PROVE  PhoneTypes' /\ HostTypeOK'
  <2>1. staging' \in [Ids -> Verdicts] /\ onPhone' \in 0 .. MaxRuns
    BY <1>0, <1>3, PerformsTypes DEF CarryOut, PhoneTypes
  <2> QED
    BY <1>0, <1>2, <1>3, <2>1 DEF CarryOut, PhoneTypes
<1>4. ASSUME NEW c \in Couriers, NEW r \in Ids, BindPhone(c, r)
      PROVE  PhoneTypes' /\ HostTypeOK'
  <2>1. [Home EXCEPT !.at = "lock", !.id = r] \in CourierStates
    BY CourierMoves, IdsAreNumbers DEF CourierStates, CourierPlaces
  <2>2. courier' \in [Couriers -> CourierStates]
    BY <1>0, <1>4, <2>1 DEF BindPhone, PhoneTypes
  <2>3. clock' \in 0 .. MaxRuns /\ ordered' \in BOOLEAN
        /\ mode' \in [Ids -> {"none", "single", "dual", "phone"}]
    <3>1. ordered \in BOOLEAN /\ mode \in [Ids -> {"none", "single", "dual", "phone"}]
      BY <1>0 DEF HostTypeOK
    <3> QED
      BY <1>4, <3>1, IdsAreNumbers, ReadsType DEF BindPhone, Bind
  <2>4. PhoneTypes'
    BY <1>0, <1>4, <2>2 DEF BindPhone, PhoneTypes
  <2>5. HostTypeOK'
    BY <1>0, <1>4, <2>3 DEF BindPhone, HostTypeOK, restoreVars
  <2> QED
    BY <2>4, <2>5
<1>5. ASSUME NEW c \in Couriers, CourierStep(c)
      PROVE  PhoneTypes' /\ HostTypeOK'
  <2>1. courier' \in [Couriers -> CourierStates]
    BY <1>0, <1>5, CourierTypes
  <2>2. courier[c].at # "idle" /\ courier[c].id \in Ids /\ courier[c].at \in CourierPlaces
    BY <1>0, <1>5 DEF Owned, CourierStep, Acquire, Ask, Pull, PromotePair, WriteLocalHealth,
                      Finally, Kill, Moves, PhoneTypes, CourierStates
  <2>3. ASSUME NEW command \in Commands, NEW to, Ask(c, command, to)
        PROVE  PhoneTypes' /\ HostTypeOK'
    <3>1. staging' \in [Ids -> Verdicts] /\ onPhone' \in 0 .. MaxRuns
      BY <1>0, <2>2, <2>3, PerformsTypes DEF Ask, PhoneTypes
    <3>2. late' \subseteq Commands \X Ids
      BY <1>0, <2>2, <2>3 DEF Ask, PhoneTypes
    <3> QED
      BY <1>0, <1>2, <2>1, <2>3, <3>1, <3>2 DEF Ask, PhoneTypes
  <2>4. CASE Acquire(c) \/ Pull(c)
    BY <1>0, <1>2, <2>1, <2>4 DEF Acquire, Pull, PhoneTypes
  <2>5. CASE PromotePair(c)
    BY <1>0, <1>2, <2>1, <2>2, <2>5 DEF PromotePair, PhoneTypes
  <2>6. CASE WriteLocalHealth(c)
    <3>1. PhoneTypes'
      BY <1>0, <2>1, <2>6 DEF WriteLocalHealth, PhoneTypes
    <3>2. HostTypeOK'
      BY <1>0, <2>2, <2>6, IdsAreNumbers DEF WriteLocalHealth, HostTypeOK, restoreVars, timeVars
    <3> QED
      BY <3>1, <3>2
  <2>7. CASE Finally(c)
    <3>1. staging' \in [Ids -> Verdicts] /\ onPhone' \in 0 .. MaxRuns
      BY <1>0, <2>2, <2>7, PerformsTypes DEF Finally, PhoneTypes, Commands
    <3>2. late' \subseteq Commands \X Ids
      BY <1>0, <2>2, <2>7 DEF Finally, PhoneTypes, Commands
    <3> QED
      BY <1>0, <1>2, <2>1, <2>7, <3>1, <3>2 DEF Finally, PhoneTypes
  <2>8. CASE Kill(c)
    <3>1. late' \subseteq Commands \X Ids
      BY <1>0, <2>8 DEF Kill, PhoneTypes
    <3> QED
      BY <1>0, <1>2, <2>1, <2>8, <3>1 DEF Kill, PhoneTypes
  <2> QED
    BY <1>5, <2>3, <2>4, <2>5, <2>6, <2>7, <2>8 DEF CourierStep, Commands
<1> QED
    BY <1>3, <1>4, <1>5 DEF PhoneStep, CourierStep

-----------------------------------------------------------------------------
(* What a step may change of whose a generation is.                         *)

\* A new RUN_ID is nobody's yet, and if it is in order it is the greatest.
LEMMA BindFrame ==
    ASSUME TypeOK, Owned, NEW r \in Ids, NEW m \in {"single", "dual", "phone"}, Bind(r, m)
    PROVE  /\ mode[r] = "none" /\ mode'[r] = m
           /\ \A q \in Ids : q # r => mode'[q] = mode[q]
           /\ ordered' => \A q \in Taken' : q <= clock'
<1>1. mode \in [Ids -> {"none", "single", "dual", "phone"}] /\ clock \in 0 .. MaxRuns
    BY DEF TypeOK, HostTypeOK
<1>2. /\ mode[r] = "none" /\ mode'[r] = m
      /\ \A q \in Ids : q # r => mode'[q] = mode[q]
    BY <1>1 DEF Bind
<1>3. ASSUME ordered', NEW q \in Taken' PROVE q <= clock'
  <2>1. clock' = r /\ ordered /\ clock <= r
    BY <1>3 DEF Bind, Reads
  <2>2. q = r \/ (q \in Taken /\ q <= clock)
    BY <1>2, <1>3, <2>1 DEF Taken, Owned
  <2> QED
    BY <1>1, <2>1, <2>2, IdsAreNumbers DEF Taken
<1> QED
    BY <1>2, <1>3

\* The phone's coordinator leaves everything but the clock and the receipt alone.
LEMMA PhoneFrame ==
    ASSUME PhoneStep
    PROVE  /\ UNCHANGED <<run, local, offhost, index, promoted, live, restore, helper, receipt,
                          alone, container, mounted>>
           /\ \/ \E r \in Ids : Bind(r, "phone")
              \/ UNCHANGED <<clock, mode, ordered>>
<1> USE DEF hostVars, backupVars, timeVars, runVars, restoreVars
<1>1. ASSUME NEW command \in Commands, NEW r \in Ids, CarryOut(command, r) PROVE UNCHANGED hostVars
    BY <1>1 DEF CarryOut
<1>2. ASSUME NEW c \in Couriers, NEW r \in Ids, BindPhone(c, r)
      PROVE  /\ UNCHANGED <<run, local, offhost, index, promoted, live, restore, helper, receipt,
                            alone, container, mounted>>
             /\ Bind(r, "phone")
    BY <1>2 DEF BindPhone
<1>3. ASSUME NEW c \in Couriers,
             Acquire(c) \/ Pull(c) \/ PromotePair(c) \/ Finally(c) \/ Kill(c)
      PROVE  UNCHANGED hostVars
    BY <1>3 DEF Acquire, Pull, PromotePair, Finally, Kill
<1>4. ASSUME NEW c \in Couriers, NEW command, NEW to, Ask(c, command, to)
      PROVE  UNCHANGED hostVars
    BY <1>4 DEF Ask
<1>5. ASSUME NEW c \in Couriers, WriteLocalHealth(c)
      PROVE  UNCHANGED <<run, local, offhost, index, promoted, live, restore, helper, receipt,
                         alone, container, mounted, clock, mode, ordered>>
    BY <1>5 DEF WriteLocalHealth
<1> QED
    BY <1>1, <1>2, <1>3, <1>4, <1>5 DEF PhoneStep

\* A step reads the wall clock, or leaves alone what was read of it.
LEMMA Timed ==
    ASSUME Next
    PROVE  (\E now \in 0 .. MaxRuns : Reads(now)) \/ UNCHANGED <<clock, ordered>>
<1> USE DEF timeVars
<1>1. ASSUME NEW r \in Ids, NEW m, Bind(r, m)
      PROVE  \E now \in 0 .. MaxRuns : Reads(now)
    BY <1>1, IdsAreNumbers DEF Bind
<1>2. ASSUME NEW b \in Backers, BackupStep(b)
      PROVE  (\E now \in 0 .. MaxRuns : Reads(now)) \/ UNCHANGED <<clock, ordered>>
  <2>1. CASE \E r \in Ids, m \in {"single", "dual"} : Begin(b, r, m)
    BY <1>1, <2>1 DEF Begin
  <2>2. CASE Select(b)
    BY <2>2 DEF Select
  <2>3. CASE \/ Snapshot(b) \/ Describe(b) \/ Promote(b) \/ RemoveOffhost(b)
             \/ RemoveLocal(b) \/ WriteIndex(b) \/ WriteHealth(b) \/ Quit(b)
    BY <2>3 DEF Snapshot, Describe, Promote, RemoveOffhost, RemoveLocal, WriteIndex,
                WriteHealth, Quit
  <2> QED
    BY <1>2, <2>1, <2>2, <2>3 DEF BackupStep
<1>3. ASSUME Operate
      PROVE  (\E now \in 0 .. MaxRuns : Reads(now)) \/ UNCHANGED <<clock, ordered>>
    BY <1>3, OperateFrame DEF Authorize
<1>4. ASSUME PhoneStep
      PROVE  (\E now \in 0 .. MaxRuns : Reads(now)) \/ UNCHANGED <<clock, ordered>>
    BY <1>1, <1>4, PhoneFrame
<1> QED
    BY <1>2, <1>3, <1>4 DEF Next, HostNext, Backup, BackupStep

\* While the clock is not set back what is read of it only advances.
LEMMA ClockAdvances ==
    ASSUME TypeOK, Next, ordered'
    PROVE  ordered /\ clock \in 0 .. MaxRuns /\ clock' \in 0 .. MaxRuns /\ clock <= clock'
<1>1. clock \in 0 .. MaxRuns
    BY DEF TypeOK, HostTypeOK
<1>2. CASE UNCHANGED <<clock, ordered>>
    BY <1>1, <1>2
<1>3. ASSUME NEW now \in 0 .. MaxRuns, Reads(now)
      PROVE  ordered /\ clock' \in 0 .. MaxRuns /\ clock <= clock'
    BY <1>3 DEF Reads
<1> QED
    BY <1>1, <1>2, <1>3, Timed

\* A backup process moves on with the generation it has, or is done.
LEMMA BackupFrame ==
    ASSUME TypeOK, NEW b \in Backers, BackupStep(b)
    PROVE  /\ UNCHANGED <<live, restore, helper, receipt, alone, container, mounted>>
           /\ \/ \E r \in Ids, m \in {"single", "dual"} : Begin(b, r, m)
              \/ /\ mode' = mode
                 /\ run[b].at # "idle"
                 /\ \E rec : /\ run' = [run EXCEPT ![b] = rec]
                             /\ rec = Idle \/ rec.id = run[b].id
<1> USE DEF restoreVars
<1>0. run \in [Backers -> RunStates]
    BY RunTypes DEF TypeOK
<1>1. ASSUME NEW r \in Ids, NEW m \in {"single", "dual"}, Begin(b, r, m)
      PROVE  UNCHANGED <<live, restore, helper, receipt, alone, container, mounted>>
    BY <1>1 DEF Begin
<1>2. \A at, D : /\ [run[b] EXCEPT !.at = at].id = run[b].id
                 /\ [run[b] EXCEPT !.at = at, !.doomed = D].id = run[b].id
    BY <1>0 DEF RunStates
<1> DEFINE Goal == /\ UNCHANGED <<live, restore, helper, receipt, alone, container, mounted, mode>>
                   /\ run[b].at # "idle"
                   /\ \E rec : /\ run' = [run EXCEPT ![b] = rec]
                               /\ rec = Idle \/ rec.id = run[b].id
<1>3. ASSUME NEW from \in Places \ {"idle"}, NEW at, At(b, from, at),
             UNCHANGED <<live, restore, helper, receipt, alone, container, mounted, mode>>
      PROVE  Goal
  <2>1. run' = [run EXCEPT ![b] = [run[b] EXCEPT !.at = at]] /\ run[b].at # "idle"
    BY <1>3 DEF At
  <2> QED
    BY <1>2, <1>3, <2>1
<1>4. ASSUME Snapshot(b) \/ Describe(b) \/ Promote(b) \/ WriteIndex(b) PROVE Goal
  <2>1. {"ispindel", "brew", "manifest", "copy", "index"} \subseteq Places \ {"idle"}
    BY DEF Places, Files
  <2>2. UNCHANGED <<live, restore, helper, receipt, alone, container, mounted, mode>>
    BY <1>4 DEF Snapshot, Describe, Promote, WriteIndex
  <2>3. \E from \in Places \ {"idle"} : \E at : At(b, from, at)
    BY <1>4, <2>1 DEF Snapshot, Describe, Promote, WriteIndex
  <2> QED
    BY <1>3, <2>2, <2>3
<1>5. ASSUME Select(b) PROVE Goal
  <2>1. \E rec : run' = [run EXCEPT ![b] = rec] /\ rec.id = run[b].id
    <3>1. CASE run[b].at = "prune"
      <4>1. run' = [run EXCEPT ![b] = [run[b] EXCEPT !.at = "remove", !.doomed = DoomedLocally]]
        BY <1>5, <3>1 DEF Select
      <4> QED
        BY <1>2, <4>1
    <3>2. CASE run[b].at # "prune"
      <4>1. PICK D : run' = [run EXCEPT ![b] = [run[b] EXCEPT !.at = "remove offhost", !.doomed = D]]
        BY <1>5, <3>2 DEF Select
      <4> QED
        BY <1>2, <4>1
    <3> QED
      BY <3>1, <3>2
  <2>2. /\ UNCHANGED <<live, restore, helper, receipt, alone, container, mounted, mode>>
        /\ run[b].at # "idle"
    BY <1>5 DEF Select
  <2>3. \E rec : /\ run' = [run EXCEPT ![b] = rec]
                 /\ rec = Idle \/ rec.id = run[b].id
    BY <1>2, <2>1
  <2> QED
    BY <2>2, <2>3
<1>6. ASSUME RemoveOffhost(b) PROVE Goal
  <2>1. \/ run' = [run EXCEPT ![b] = [run[b] EXCEPT !.at = "prune", !.doomed = {}]]
        \/ run' = [run EXCEPT ![b] = Idle]
    BY <1>6 DEF RemoveOffhost, Remove
  <2>2. /\ UNCHANGED <<live, restore, helper, receipt, alone, container, mounted, mode>>
        /\ run[b].at # "idle"
    BY <1>6 DEF RemoveOffhost
  <2>3. \E rec : /\ run' = [run EXCEPT ![b] = rec]
                 /\ rec = Idle \/ rec.id = run[b].id
    <3>1. CASE run' = [run EXCEPT ![b] = [run[b] EXCEPT !.at = "prune", !.doomed = {}]]
      BY <1>2, <3>1
    <3>2. CASE run' = [run EXCEPT ![b] = Idle]
      BY <3>2
    <3> QED
      BY <2>1, <3>1, <3>2
  <2> QED
    BY <2>2, <2>3
<1>7. ASSUME RemoveLocal(b) PROVE Goal
  <2>1. \/ run' = [run EXCEPT ![b] = [run[b] EXCEPT !.at = "index", !.doomed = {}]]
        \/ run' = [run EXCEPT ![b] = Idle]
    BY <1>7 DEF RemoveLocal, Remove
  <2>2. /\ UNCHANGED <<live, restore, helper, receipt, alone, container, mounted, mode>>
        /\ run[b].at # "idle"
    BY <1>7 DEF RemoveLocal
  <2>3. \E rec : /\ run' = [run EXCEPT ![b] = rec]
                 /\ rec = Idle \/ rec.id = run[b].id
    <3>1. CASE run' = [run EXCEPT ![b] = [run[b] EXCEPT !.at = "index", !.doomed = {}]]
      BY <1>2, <3>1
    <3>2. CASE run' = [run EXCEPT ![b] = Idle]
      BY <3>2
    <3> QED
      BY <2>1, <3>1, <3>2
  <2> QED
    BY <2>2, <2>3
<1>8. ASSUME WriteHealth(b) \/ Quit(b) PROVE Goal
    BY <1>8 DEF WriteHealth, Quit
<1>9. (\E r \in Ids, m \in {"single", "dual"} : Begin(b, r, m)) \/ Goal
  <2> HIDE DEF Goal
  <2> QED
    BY <1>4, <1>5, <1>6, <1>7, <1>8 DEF BackupStep
<1> QED
    BY <1>1, <1>9

\* A coordinator keeps its generation until it is done.
LEMMA CourierKeeps ==
    ASSUME courier \in [Couriers -> CourierStates], NEW c \in Couriers, CourierStep(c)
    PROVE  \A d \in Couriers : courier'[d].at # "idle" =>
               courier[d].at # "idle" /\ courier'[d].id = courier[d].id
<1>1. SUFFICES /\ courier[c].at # "idle"
               /\ \E rec : /\ courier' = [courier EXCEPT ![c] = rec]
                           /\ rec.at # "idle" => rec.id = courier[c].id
    OBVIOUS
<1>2. courier[c].at # "idle"
    BY DEF CourierStep, Acquire, Ask, Pull, PromotePair, WriteLocalHealth, Finally, Kill,
           Moves
<1>3. \A at, x :
          /\ [courier[c] EXCEPT !.at = at].id = courier[c].id
          /\ [courier[c] EXCEPT !.at = at, !.clean = x].id = courier[c].id
          /\ [courier[c] EXCEPT !.at = at, !.pair = x].id = courier[c].id
          /\ Home.at = "idle"
    BY DEF CourierStates, Home
<1>4. ASSUME Abandons(c)
      PROVE  \E rec : /\ courier' = [courier EXCEPT ![c] = rec]
                      /\ rec.at # "idle" => rec.id = courier[c].id
    BY <1>3, <1>4 DEF Abandons
<1>5. ASSUME NEW at, courier' = [courier EXCEPT ![c].at = at]
      PROVE  \E rec : /\ courier' = [courier EXCEPT ![c] = rec]
                      /\ rec.at # "idle" => rec.id = courier[c].id
    BY <1>3, <1>5
<1>6. ASSUME NEW command, NEW to, Ask(c, command, to)
      PROVE  \E rec : /\ courier' = [courier EXCEPT ![c] = rec]
                      /\ rec.at # "idle" => rec.id = courier[c].id
    BY <1>3, <1>4, <1>5, <1>6 DEF Ask, Moves
<1>7. CASE Pull(c)
  <2>1. \/ \E pair : courier' = [courier EXCEPT ![c] =
                        [courier[c] EXCEPT !.at = "promote", !.pair = pair]]
        \/ Abandons(c)
    BY <1>7 DEF Pull
  <2>2. CASE \E pair : courier' = [courier EXCEPT ![c] =
                        [courier[c] EXCEPT !.at = "promote", !.pair = pair]]
    <3>1. PICK pair : courier' = [courier EXCEPT ![c] =
                          [courier[c] EXCEPT !.at = "promote", !.pair = pair]]
      BY <2>2
    <3>2. [courier[c] EXCEPT !.at = "promote", !.pair = pair].id = courier[c].id
      BY <1>3
    <3> QED
      BY <1>2, <3>1, <3>2
  <2> QED
    BY <1>2, <1>4, <2>1, <2>2
<1>8. CASE PromotePair(c) \/ Acquire(c) \/ WriteLocalHealth(c)
    BY <1>2, <1>4, <1>5, <1>8 DEF PromotePair, Acquire, WriteLocalHealth, Moves
<1>9. CASE Finally(c) \/ Kill(c)
    BY <1>2, <1>3, <1>9 DEF Finally, Kill
<1> QED
    BY <1>2, <1>6, <1>7, <1>8, <1>9 DEF CourierStep

LEMMA OwnedStep ==
    ASSUME TypeOK, Owned, Next
    PROVE  Owned'
<1> DEFINE Clocked == ordered => \A r \in Taken : r <= clock
           Runs == \A b \in Backers : run[b].at # "idle" =>
                      run[b].id \in Ids /\ mode[run[b].id] \in {"single", "dual"}
           Carried == \A c \in Couriers : courier[c].at # "idle" =>
                      courier[c].id \in Ids /\ mode[courier[c].id] = "phone"
           Unseen == \A r \in Ids : mode[r] = "none" => local[r] = "none"
<1>0. /\ Clocked /\ Runs /\ Carried /\ Unseen
      /\ run \in [Backers -> RunStates] /\ courier \in [Couriers -> CourierStates]
      /\ local \in [Ids -> Verdicts] /\ mode \in [Ids -> {"none", "single", "dual", "phone"}]
    BY RunTypes DEF Owned, TypeOK, HostTypeOK, CourierStates, CourierPlaces
<1>1. SUFFICES Clocked' /\ Runs' /\ Carried' /\ Unseen'
    BY DEF Owned
<1>2. ASSUME mode' = mode PROVE Clocked'
    BY <1>0, <1>2, ClockAdvances, IdsAreNumbers DEF Taken
<1>3. ASSUME NEW r \in Ids, NEW m \in {"single", "dual", "phone"}, Bind(r, m)
      PROVE  Clocked'
    BY <1>3, BindFrame
<1>4. ASSUME NEW b \in Backers, BackupStep(b), UNCHANGED phoneVars
      PROVE  Clocked' /\ Runs' /\ Carried' /\ Unseen'
  <2>1. CASE \E r \in Ids, m \in {"single", "dual"} : Begin(b, r, m)
    <3>1. PICK r \in Ids, m \in {"single", "dual"} : Begin(b, r, m)
      BY <2>1
    <3>2. /\ Bind(r, m) /\ mode[r] = "none" /\ mode'[r] = m
          /\ \A q \in Ids : q # r => mode'[q] = mode[q]
      BY <3>1, BindFrame DEF Begin
    <3>3. Runs'
      <4>1. run' = [run EXCEPT ![b] = [Idle EXCEPT !.at = "ispindel", !.id = r]]
        BY <3>1 DEF Begin
      <4>2. run'[b].id = r
        BY <1>0, <4>1 DEF Idle
      <4>3. \A a \in Backers : a # b => run'[a] = run[a]
        BY <1>0, <4>1
      <4> QED
        BY <1>0, <3>2, <4>2, <4>3
    <3>4. Carried'
      BY <1>0, <1>4, <3>2 DEF phoneVars
    <3>5. Unseen'
      BY <1>0, <3>1, <3>2 DEF Begin
    <3> QED
      BY <1>3, <3>2, <3>3, <3>4, <3>5
  <2>2. CASE ~ \E r \in Ids, m \in {"single", "dual"} : Begin(b, r, m)
    <3>1. /\ mode' = mode
          /\ run[b].at # "idle"
          /\ \E rec : /\ run' = [run EXCEPT ![b] = rec]
                      /\ rec = Idle \/ rec.id = run[b].id
      BY <1>4, <2>2, BackupFrame
    <3>2. Runs'
      <4>1. PICK rec : run' = [run EXCEPT ![b] = rec] /\ (rec = Idle \/ rec.id = run[b].id)
        BY <3>1
      <4>2. run'[b] = rec /\ \A a \in Backers : a # b => run'[a] = run[a]
        BY <1>0, <4>1
      <4> QED
        BY <1>0, <3>1, <4>1, <4>2 DEF Idle
    <3>3. Carried'
      BY <1>0, <1>4, <3>1 DEF phoneVars
    <3>4. ASSUME NEW r \in Ids, mode[r] = "none" PROVE local'[r] = "none"
      <4>1. CASE Describe(b)
        BY <1>0, <3>4, <4>1 DEF Describe, At
      <4>2. CASE RemoveLocal(b)
        <5>1. PICK stop \in run[b].doomed \cup {MaxRuns + 1} :
                  local' = Without(local, run[b].doomed, stop)
          BY <4>2 DEF RemoveLocal
        <5> QED
          BY <1>0, <3>4, <5>1 DEF Without
      <4>3. CASE ~Describe(b) /\ ~RemoveLocal(b)
        <5>1. local' = local
          BY <1>4, <2>2, <4>3 DEF BackupStep, Snapshot, Promote, Select, RemoveOffhost,
                                  WriteIndex, WriteHealth, Quit
        <5> QED
          BY <1>0, <3>4, <5>1
      <4> QED
        BY <4>1, <4>2, <4>3
    <3> QED
      BY <1>2, <3>1, <3>2, <3>3, <3>4
  <2> QED
    BY <2>1, <2>2
<1>5. ASSUME Operate, UNCHANGED phoneVars
      PROVE  Clocked' /\ Runs' /\ Carried' /\ Unseen'
  <2>1. /\ UNCHANGED <<mode, local>>
        /\ run' = run \/ run' = [b \in Backers |-> Idle]
    BY <1>5, OperateFrame
  <2>2. Runs'
    BY <1>0, <2>1 DEF Idle
  <2> QED
    BY <1>0, <1>2, <1>5, <2>1, <2>2 DEF phoneVars
<1>6. ASSUME PhoneStep
      PROVE  Clocked' /\ Runs' /\ Carried' /\ Unseen'
  <2>1. /\ run' = run /\ local' = local
        /\ (\E r \in Ids : Bind(r, "phone")) \/ UNCHANGED <<clock, mode, ordered>>
    BY <1>6, PhoneFrame
  <2>2. Clocked'
    BY <1>2, <1>3, <2>1
  <2>3. \A q \in Ids : mode[q] # "none" => mode'[q] = mode[q]
    BY <2>1, BindFrame
  <2>4. Runs' /\ Unseen'
    BY <1>0, <2>1, <2>3
  <2>5. Carried'
    <3>1. ASSUME NEW c \in Couriers, NEW r \in Ids, BindPhone(c, r) PROVE Carried'
      <4>1. mode'[r] = "phone"
        BY <3>1, BindFrame DEF BindPhone
      <4>2. courier' = [courier EXCEPT ![c] = [Home EXCEPT !.at = "lock", !.id = r]]
        BY <3>1 DEF BindPhone
      <4>3. courier'[c].id = r /\ \A d \in Couriers : d # c => courier'[d] = courier[d]
        BY <1>0, <4>2 DEF Home
      <4> QED
        BY <1>0, <2>3, <4>1, <4>3
    <3>2. ASSUME NEW c \in Couriers, CourierStep(c)
          PROVE  \A d \in Couriers :
                     courier'[d].at # "idle" =>
                         courier[d].at # "idle" /\ courier'[d].id = courier[d].id
      BY <1>0, <3>2, CourierKeeps
    <3>3. ASSUME NEW command \in Commands, NEW r \in Ids, CarryOut(command, r)
          PROVE  courier' = courier
      BY <3>3 DEF CarryOut
    <3> QED
      BY <1>0, <1>6, <2>3, <3>1, <3>2, <3>3 DEF PhoneStep, CourierStep
  <2> QED
    BY <2>2, <2>4, <2>5
<1> HIDE DEF Clocked, Runs, Carried, Unseen
<1> QED
    BY <1>4, <1>5, <1>6 DEF Next, HostNext, Backup, BackupStep

LEMMA TypedStep ==
    ASSUME Typed, [Next]_vars
    PROVE  Typed'
<1>1. CASE UNCHANGED vars
    BY <1>1 DEF Typed, TypeOK, HostTypeOK, Owned, Taken, vars, hostVars, phoneVars, backupVars,
                timeVars, runVars, restoreVars
<1>2. CASE Next
  <2>1. Owned'
    BY <1>2, OwnedStep DEF Typed
  <2>2. ASSUME HostNext, UNCHANGED phoneVars PROVE TypeOK'
    <3>1. HostTypeOK'
      <4>1. ASSUME NEW b \in Backers, BackupStep(b) PROVE HostTypeOK'
        BY <4>1, BackupTypes DEF Typed, TypeOK, Owned, Known
      <4>2. CASE Operate
        BY <4>2, OperateTypes DEF Typed, TypeOK
      <4> QED
        BY <2>2, <4>1, <4>2 DEF HostNext, Backup, BackupStep
    <3> QED
      BY <2>2, <3>1 DEF Typed, TypeOK, phoneVars
  <2>3. CASE PhoneStep
    BY <2>1, <2>3, PhoneStepTypes DEF Typed
  <2> QED
    BY <1>2, <2>1, <2>2, <2>3 DEF Next, Typed
<1> QED
    BY <1>1, <1>2

LEMMA TypedInit == Init => Typed
<1> SUFFICES ASSUME Init PROVE Typed
    OBVIOUS
<1> USE DEF Init, HostInit
<1>1. HostTypeOK
  <2>1. run \in [Backers -> RunStates] /\ restore \in RestoreStates
    BY RunTypes, RestoreTypes
  <2>2. live \in [Files -> 0 .. MaxRuns] /\ 0 \in 0 .. MaxRuns /\ helper \in Helpers
    BY Numbers DEF Untouched, NoHelper, Helpers
  <2> QED
    BY <2>1, <2>2 DEF HostTypeOK, RunStates, Places, RestoreStates, Attempts, Helpers, Verdicts
<1>2. PhoneTypes
  <2>1. courier \in [Couriers -> CourierStates]
    BY CourierMoves
  <2> QED
    BY <2>1, Numbers DEF PhoneTypes, Verdicts
<1>3. TypeOK
    BY <1>1, <1>2 DEF TypeOK, PhoneTypes, CourierStates, CourierPlaces
<1>4. Owned
    BY DEF Owned, Idle, Home, Taken
<1> QED
    BY <1>3, <1>4 DEF Typed

\* Every process that is under way owns a generation nobody else's mode claims, no
\* generation has a directory before it is taken, and no RUN_ID is later than the
\* clock unless that was set back.
THEOREM TypeCorrect == Spec => []TypeOK
<1>1. Typed => TypeOK
    BY DEF Typed
<1> QED
    BY <1>1, TypedInit, TypedStep, PTL DEF Spec

-----------------------------------------------------------------------------
(* What a root still has.                                                   *)

Spared(root, r, n) == Cardinality(Above(Whole(root), r)) >= n

LEMMA WholeIds == ASSUME NEW root PROVE Whole(root) \in SUBSET Ids
    BY DEF Whole

\* A root that loses nothing that is whole spares whatever it spared.
LEMMA GrowthKeeps ==
    ASSUME NEW root, NEW root2, Whole(root) \subseteq Whole(root2),
           NEW n \in Nat, NEW r \in Ids
    PROVE  /\ Spared(root, r, n) => Spared(root2, r, n)
           /\ Available(root, r, n) => Available(root2, r, n)
<1>1. Spared(root, r, n) => Spared(root2, r, n)
    BY WholeIds, MoreAbove DEF Spared
<1> QED
    BY <1>1 DEF Available, Spared, Whole

\* Nor does one that loses what it spared.
LEMMA RemovalKeeps ==
    ASSUME NEW root, NEW D \in SUBSET Ids, NEW stop, NEW n \in Nat,
           \A d \in D : Spared(root, d, n), NEW r \in Ids
    PROVE  /\ Spared(root, r, n) => Spared(Without(root, D, stop), r, n)
           /\ Available(root, r, n) => Available(Without(root, D, stop), r, n)
<1> DEFINE after == Without(root, D, stop)
<1>1. Whole(root) \ D \subseteq Whole(after)
    BY DEF Whole, Without
<1>2. Spared(root, r, n) => Spared(after, r, n)
  <2> HIDE DEF after
  <2> QED
    BY <1>1, WholeIds, RemovalIsSafe DEF Spared
<1> QED
    BY <1>1, <1>2 DEF Available, Spared, Whole

-----------------------------------------------------------------------------
(* Where a backup process gets to, and what is true when it does.           *)

\* Its place moved from one to another, and its generation is the same.
Goes(a, from, to) ==
    run[a].at = from /\ run'[a].at = to /\ run'[a].id = run[a].id

Moved(a) ==
    \/ run'[a].at = "ispindel" /\ \E r \in Ids, m \in {"single", "dual"} : Begin(a, r, m)
    \/ /\ Goes(a, "ispindel", "brew") \/ Goes(a, "ispindel", "manifest") \/ Goes(a, "brew", "manifest")
       /\ container' = "up"
    \/ Goes(a, "manifest", "copy") /\ local' = [local EXCEPT ![run[a].id] = "whole"]
    \/ /\ Goes(a, "copy", "prune offhost")
       /\ promoted' = promoted \cup {run[a].id}
       /\ offhost' = [offhost EXCEPT ![run[a].id] = "whole"]
    \/ /\ Goes(a, "prune offhost", "remove offhost") /\ offhost' = offhost
       /\ \E now \in 0 .. MaxRuns :
             Reads(now) /\ run'[a].doomed = DoomedOffhost(mode[run[a].id], now)
    \/ Goes(a, "remove offhost", "prune")
    \/ Goes(a, "prune", "remove") /\ run'[a].doomed = DoomedLocally /\ local' = local
    \/ Goes(a, "remove", "index")
    \/ Goes(a, "index", "health") /\ index' = run[a].id /\ local' = local

LEMMA RunMoves ==
    ASSUME Typed, Next, NEW a \in Backers, run'[a].at # "idle"
    PROVE  run'[a] = run[a] \/ Moved(a)
<1>0. run \in [Backers -> RunStates]
    BY RunTypes DEF Typed, TypeOK
<1>1. SUFFICES ASSUME BackupStep(a) PROVE run'[a] = run[a] \/ Moved(a)
  <2>1. CASE PhoneStep
    BY <2>1, PhoneFrame
  <2>2. CASE Operate
    BY <2>2, OperateFrame DEF Idle
  <2>3. ASSUME NEW b \in Backers, b # a, BackupStep(b) PROVE run'[a] = run[a]
    <3>1. CASE \E r \in Ids, m \in {"single", "dual"} : Begin(b, r, m)
      BY <1>0, <2>3, <3>1 DEF Begin
    <3>2. CASE ~ \E r \in Ids, m \in {"single", "dual"} : Begin(b, r, m)
      <4>1. PICK rec : run' = [run EXCEPT ![b] = rec]
        BY <2>3, <3>2, BackupFrame DEF Typed
      <4> QED
        BY <1>0, <2>3, <4>1
    <3> QED
      BY <3>1, <3>2
  <2> QED
    BY <1>1, <2>1, <2>2, <2>3 DEF Next, HostNext, Backup, BackupStep
<1>2. \A at, D :
          /\ [run[a] EXCEPT !.at = at].id = run[a].id
          /\ [run[a] EXCEPT !.at = at].at = at
          /\ [run[a] EXCEPT !.at = at, !.doomed = D].id = run[a].id
          /\ [run[a] EXCEPT !.at = at, !.doomed = D].at = at
          /\ [run[a] EXCEPT !.at = at, !.doomed = D].doomed = D
    BY <1>0 DEF RunStates
<1>3. ASSUME NEW r \in Ids, NEW m \in {"single", "dual"}, Begin(a, r, m) PROVE Moved(a)
    BY <1>0, <1>3 DEF Moved, Begin, Idle
<1>4. ASSUME NEW from, NEW to, At(a, from, to) PROVE Goes(a, from, to)
    BY <1>0, <1>2, <1>4 DEF At, Goes
<1>5. CASE Snapshot(a)
  <2>1. \/ At(a, "ispindel", "brew") \/ At(a, "ispindel", "manifest")
        \/ At(a, "brew", "manifest")
    BY <1>5 DEF Snapshot
  <2>2. container' = "up"
    BY <1>5 DEF Snapshot
  <2> QED
    BY <1>4, <2>1, <2>2 DEF Moved
<1>6. CASE Describe(a)
    BY <1>4, <1>6 DEF Describe, Moved
<1>7. CASE Promote(a)
    BY <1>4, <1>7 DEF Promote, Moved
<1>8. CASE Select(a)
  <2>1. CASE run[a].at = "prune offhost"
    <3>0. PICK now \in 0 .. MaxRuns :
             /\ Reads(now)
             /\ run' = [run EXCEPT ![a] = [run[a] EXCEPT !.at = "remove offhost",
                            !.doomed = DoomedOffhost(mode[run[a].id], now)]]
      BY <1>8, <2>1 DEF Select
    <3> DEFINE V == DoomedOffhost(mode[run[a].id], now)
    <3>1. run'[a] = [run[a] EXCEPT !.at = "remove offhost", !.doomed = V] /\ offhost' = offhost
      BY <1>0, <1>8, <3>0 DEF Select
    <3> HIDE DEF V
    <3>2. Goes(a, "prune offhost", "remove offhost") /\ run'[a].doomed = V
      <4>1. [run[a] EXCEPT !.at = "remove offhost", !.doomed = V].doomed = V
        BY <1>2
      <4>2. [run[a] EXCEPT !.at = "remove offhost", !.doomed = V].at = "remove offhost"
        BY <1>2
      <4>3. [run[a] EXCEPT !.at = "remove offhost", !.doomed = V].id = run[a].id
        BY <1>2
      <4> QED
        BY <2>1, <3>1, <4>1, <4>2, <4>3 DEF Goes
    <3> QED
      BY <3>0, <3>1, <3>2 DEF Moved, V
  <2>2. CASE run[a].at # "prune offhost"
    <3>1. /\ run'[a] = [run[a] EXCEPT !.at = "remove", !.doomed = DoomedLocally]
          /\ local' = local /\ run[a].at = "prune"
      BY <1>0, <1>8, <2>2 DEF Select
    <3>2. Goes(a, "prune", "remove") /\ run'[a].doomed = DoomedLocally
      BY <1>2, <3>1 DEF Goes
    <3> QED
      BY <3>1, <3>2 DEF Moved
  <2> QED
    BY <2>1, <2>2
<1>9. CASE RemoveOffhost(a)
  <2>1. run'[a] = [run[a] EXCEPT !.at = "prune", !.doomed = {}] \/ run'[a] = Idle
    BY <1>0, <1>9 DEF RemoveOffhost, Remove
  <2>2. run'[a] = [run[a] EXCEPT !.at = "prune", !.doomed = {}]
    BY <2>1 DEF Idle
  <2>3. run'[a].at = "prune" /\ run'[a].id = run[a].id
    BY <1>2, <2>2
  <2> QED
    BY <1>9, <2>3 DEF RemoveOffhost, Goes, Moved
<1>10. CASE RemoveLocal(a)
  <2>1. run'[a] = [run[a] EXCEPT !.at = "index", !.doomed = {}] \/ run'[a] = Idle
    BY <1>0, <1>10 DEF RemoveLocal, Remove
  <2>2. run'[a] = [run[a] EXCEPT !.at = "index", !.doomed = {}]
    BY <2>1 DEF Idle
  <2>3. run'[a].at = "index" /\ run'[a].id = run[a].id
    BY <1>2, <2>2
  <2> QED
    BY <1>10, <2>3 DEF RemoveLocal, Goes, Moved
<1>11. CASE WriteIndex(a)
    BY <1>4, <1>11 DEF WriteIndex, Moved
<1>12. CASE WriteHealth(a) \/ Quit(a)
    BY <1>0, <1>12 DEF WriteHealth, Quit, Idle
<1> QED
    BY <1>1, <1>3, <1>5, <1>6, <1>7, <1>8, <1>9, <1>10, <1>11, <1>12 DEF BackupStep

-----------------------------------------------------------------------------
(* The backup root.                                                         *)

\* Whatever a process is about to remove from the backup root is spared without it.
LocalVictims ==
    \A b \in Backers : run[b].at = "remove" =>
        \A d \in run[b].doomed : Spared(local, d, Keep)

\* From its manifests to its index entry a generation is there or spared.
LocalClaims ==
    /\ \A b \in Backers :
          run[b].at \in {"copy", "prune offhost", "remove offhost", "prune", "remove", "index"} =>
              Available(local, run[b].id, Keep)
    /\ index # 0 => Available(local, index, Keep)

\* Only the removal of victims makes the backup root lose anything that is whole.
LEMMA LocalLosses ==
    ASSUME Typed, Next
    PROVE  \/ Whole(local) \subseteq Whole(local')
           \/ \E b \in Backers : \E stop :
                 run[b].at = "remove" /\ local' = Without(local, run[b].doomed, stop)
<1>0. \A r \in Ids : mode[r] = "none" => local[r] = "none"
    BY DEF Typed, Owned
<1>1. local \in [Ids -> Verdicts]
    BY DEF Typed, TypeOK, HostTypeOK
<1>2. ASSUME local' = local PROVE Whole(local) \subseteq Whole(local')
    BY <1>2
<1>3. ASSUME NEW b \in Backers, BackupStep(b)
      PROVE  \/ Whole(local) \subseteq Whole(local')
             \/ \E stop : run[b].at = "remove" /\ local' = Without(local, run[b].doomed, stop)
  <2>1. ASSUME NEW r \in Ids, NEW m \in {"single", "dual"}, Begin(b, r, m)
        PROVE  Whole(local) \subseteq Whole(local')
    BY <1>0, <1>1, <2>1 DEF Begin, Bind, Whole
  <2>2. CASE Describe(b)
    BY <1>1, <2>2 DEF Describe, Whole
  <2>3. CASE RemoveLocal(b)
    BY <2>3 DEF RemoveLocal
  <2>4. CASE \/ Snapshot(b) \/ Promote(b) \/ Select(b) \/ RemoveOffhost(b) \/ WriteIndex(b)
             \/ WriteHealth(b) \/ Quit(b)
    BY <1>2, <2>4 DEF Snapshot, Promote, Select, RemoveOffhost, WriteIndex, WriteHealth, Quit
  <2> QED
    BY <1>3, <2>1, <2>2, <2>3, <2>4 DEF BackupStep
<1>4. ASSUME Operate \/ PhoneStep PROVE local' = local
    BY <1>4, OperateFrame, PhoneFrame
<1> QED
    BY <1>2, <1>3, <1>4 DEF Next, HostNext, Backup, BackupStep

LEMMA LocalKeeps ==
    ASSUME Typed, LocalVictims, Next, NEW r \in Ids
    PROVE  /\ Spared(local, r, Keep) => Spared(local', r, Keep)
           /\ Available(local, r, Keep) => Available(local', r, Keep)
<1>1. CASE Whole(local) \subseteq Whole(local')
    BY <1>1, GrowthKeeps, Numbers
<1>2. ASSUME NEW b \in Backers, NEW stop, run[b].at = "remove",
             local' = Without(local, run[b].doomed, stop)
      PROVE  /\ Spared(local, r, Keep) => Spared(local', r, Keep)
             /\ Available(local, r, Keep) => Available(local', r, Keep)
  <2>1. run[b].doomed \in SUBSET Ids
    BY DEF Typed, TypeOK, HostTypeOK
  <2>2. \A d \in run[b].doomed : Spared(local, d, Keep)
    BY <1>2 DEF LocalVictims
  <2> QED
    BY <1>2, <2>1, <2>2, RemovalKeeps, Numbers
<1> QED
    BY <1>1, <1>2, LocalLosses

LEMMA LocalStep ==
    ASSUME Typed, LocalVictims, LocalClaims, Next
    PROVE  LocalVictims' /\ LocalClaims'
<1>0. Typed'
    BY TypedStep
<1>1. \A a \in Backers : run'[a].at # "idle" =>
          run'[a].id \in Ids /\ run'[a].doomed \in SUBSET Ids
  <2>1. run' \in [Backers -> RunStates]
    BY <1>0, RunTypes DEF Typed, TypeOK, HostTypeOK, RunStates, Places
  <2> QED
    BY <1>0, <2>1 DEF Typed, Owned, RunStates
<1>2. ASSUME NEW a \in Backers, run'[a].at = "remove", NEW d \in run'[a].doomed
      PROVE  Spared(local', d, Keep)
  <2>1. CASE run'[a] = run[a]
    BY <1>1, <1>2, <2>1, LocalKeeps DEF LocalVictims
  <2>2. CASE run'[a] # run[a]
    <3>1. run'[a].doomed = DoomedLocally /\ local' = local
      BY <1>2, <2>2, RunMoves DEF Moved, Goes
    <3>2. Cardinality(Above(Whole(local), d)) \in Nat
      BY <1>1, <1>2, WholeIds, MoreAbove
    <3> QED
      BY <1>2, <3>1, <3>2, Numbers DEF DoomedLocally, Newest, Spared
  <2> QED
    BY <2>1, <2>2
<1>3. ASSUME NEW a \in Backers,
             run'[a].at \in {"copy", "prune offhost", "remove offhost", "prune", "remove", "index"}
      PROVE  Available(local', run'[a].id, Keep)
  <2>1. CASE run'[a] = run[a]
    BY <1>1, <1>3, <2>1, LocalKeeps DEF LocalClaims
  <2>2. CASE Goes(a, "manifest", "copy") /\ local' = [local EXCEPT ![run[a].id] = "whole"]
    BY <1>1, <1>3, <2>2 DEF Goes, Available, Typed, TypeOK, HostTypeOK
  <2>3. CASE \E to : \/ Goes(a, "copy", to) \/ Goes(a, "prune offhost", to)
                     \/ Goes(a, "remove offhost", to) \/ Goes(a, "prune", to)
                     \/ Goes(a, "remove", to)
    <3>1. Available(local, run[a].id, Keep) /\ run[a].id = run'[a].id
      BY <2>3 DEF Goes, LocalClaims
    <3> QED
      BY <1>1, <1>3, <3>1, LocalKeeps
  <2> QED
    BY <1>3, <2>1, <2>2, <2>3, RunMoves DEF Moved, Goes
<1>4. ASSUME index' # 0 PROVE Available(local', index', Keep)
  <2>1. CASE index' = index
    <3>1. index \in Ids
      BY <1>4, <2>1, NamedIds DEF Typed, TypeOK, HostTypeOK
    <3> QED
      BY <1>4, <2>1, <3>1, LocalKeeps DEF LocalClaims
  <2>2. ASSUME NEW b \in Backers, WriteIndex(b) PROVE Available(local', index', Keep)
    BY <2>2 DEF WriteIndex, At, LocalClaims
  <2>3. index' = index \/ \E b \in Backers : WriteIndex(b)
    <3>1. ASSUME Operate \/ PhoneStep PROVE index' = index
      BY <3>1, OperateFrame, PhoneFrame
    <3>2. ASSUME NEW b \in Backers, BackupStep(b) PROVE index' = index \/ WriteIndex(b)
      BY <3>2 DEF BackupStep, Begin, Snapshot, Describe, Promote, Select, RemoveOffhost,
                  RemoveLocal, WriteHealth, Quit
    <3> QED
      BY <3>1, <3>2 DEF Next, HostNext, Backup, BackupStep
  <2> QED
    BY <2>1, <2>2, <2>3
<1> QED
    BY <1>2, <1>3, <1>4 DEF LocalVictims, LocalClaims, Spared, Available, Whole

-----------------------------------------------------------------------------
(* Off-host.                                                                *)

\* Past the cutoff, or its week has a later one.
Superseded(d) ==
    \/ ~Recent(d, clock)
    \/ \E s \in Whole(offhost) : Week[s] = Week[d] /\ s > d

\* As in the backup root, and unless the clock was set back each is superseded.
OffhostVictims ==
    \A b \in Backers : run[b].at = "remove offhost" =>
        \A d \in run[b].doomed :
            Spared(offhost, d, KeepOffhost) /\ (ordered => Superseded(d))

LEMMA OffhostLosses ==
    ASSUME Typed, Next
    PROVE  \/ Whole(offhost) \subseteq Whole(offhost')
           \/ \E b \in Backers : \E stop :
                 run[b].at = "remove offhost" /\ offhost' = Without(offhost, run[b].doomed, stop)
<1>1. offhost \in [Ids -> Verdicts]
    BY DEF Typed, TypeOK, HostTypeOK
<1>2. ASSUME offhost' = offhost PROVE Whole(offhost) \subseteq Whole(offhost')
    BY <1>2
<1>3. ASSUME NEW b \in Backers, BackupStep(b)
      PROVE  \/ Whole(offhost) \subseteq Whole(offhost')
             \/ \E stop : /\ run[b].at = "remove offhost"
                          /\ offhost' = Without(offhost, run[b].doomed, stop)
  <2>1. ASSUME NEW r \in Ids, NEW m \in {"single", "dual"}, Begin(b, r, m)
        PROVE  offhost' = offhost
    BY <2>1 DEF Begin
  <2>2. CASE Promote(b)
    BY <1>1, <2>2 DEF Promote, Whole
  <2>3. CASE RemoveOffhost(b)
    BY <2>3 DEF RemoveOffhost
  <2>4. CASE \/ Snapshot(b) \/ Describe(b) \/ Select(b) \/ RemoveLocal(b) \/ WriteIndex(b)
             \/ WriteHealth(b) \/ Quit(b)
    BY <1>2, <2>4 DEF Snapshot, Describe, Select, RemoveLocal, WriteIndex, WriteHealth, Quit
  <2> QED
    BY <1>2, <1>3, <2>1, <2>2, <2>3, <2>4 DEF BackupStep
<1>4. ASSUME Operate \/ PhoneStep PROVE offhost' = offhost
    BY <1>4, OperateFrame, PhoneFrame
<1> QED
    BY <1>2, <1>3, <1>4 DEF Next, HostNext, Backup, BackupStep

LEMMA OffhostKeeps ==
    ASSUME Typed, OffhostVictims, Next, NEW r \in Ids
    PROVE  /\ Spared(offhost, r, KeepOffhost) => Spared(offhost', r, KeepOffhost)
           /\ Available(offhost, r, KeepOffhost) => Available(offhost', r, KeepOffhost)
<1>1. CASE Whole(offhost) \subseteq Whole(offhost')
    BY <1>1, GrowthKeeps, Numbers
<1>2. ASSUME NEW b \in Backers, NEW stop, run[b].at = "remove offhost",
             offhost' = Without(offhost, run[b].doomed, stop)
      PROVE  /\ Spared(offhost, r, KeepOffhost) => Spared(offhost', r, KeepOffhost)
             /\ Available(offhost, r, KeepOffhost) => Available(offhost', r, KeepOffhost)
  <2>1. run[b].doomed \in SUBSET Ids
    BY DEF Typed, TypeOK, HostTypeOK
  <2>2. \A d \in run[b].doomed : Spared(offhost, d, KeepOffhost)
    BY <1>2 DEF OffhostVictims
  <2> QED
    BY <1>2, <2>1, <2>2, RemovalKeeps, Numbers
<1> QED
    BY <1>1, <1>2, OffhostLosses

LEMMA RecentBefore ==
    ASSUME TypeOK, Next, ordered', NEW r \in Ids, Recent(r, clock')
    PROVE  ordered /\ Recent(r, clock)
    BY ClockAdvances, IdsAreNumbers, Numbers DEF Recent

\* A generation that is not past the cutoff keeps one of its week that is no
\* older: the last of that week is nobody's victim.
LEMMA WeekIsKept ==
    ASSUME Typed, OffhostVictims, Next, ordered',
           NEW s \in Whole(offhost), Recent(s, clock')
    PROVE  \E t \in Whole(offhost') : Week[t] = Week[s] /\ t >= s
<1> DEFINE Peers == {t \in Whole(offhost) : Week[t] = Week[s]}
<1>1. PICK last \in Peers : \A t \in Peers : t <= last
    BY LastExists, WholeIds
<1>2. last \in Ids /\ s \in Ids /\ last \in Whole(offhost) /\ Week[last] = Week[s] /\ last >= s
    BY <1>1, WholeIds, IdsAreNumbers
<1>3. SUFFICES last \in Whole(offhost')
    BY <1>2
<1>4. CASE Whole(offhost) \subseteq Whole(offhost')
    BY <1>2, <1>4
<1>5. ASSUME NEW b \in Backers, NEW stop, run[b].at = "remove offhost",
             offhost' = Without(offhost, run[b].doomed, stop)
      PROVE  last \in Whole(offhost')
  <2>1. last \notin run[b].doomed
    <3>1. SUFFICES ASSUME Superseded(last) PROVE FALSE
      BY <1>5, ClockAdvances DEF OffhostVictims, Typed
    <3>2. Recent(last, clock)
      <4>1. Recent(last, clock')
        BY <1>2, ClockAdvances, IdsAreNumbers, Numbers DEF Recent, Typed
      <4> QED
        BY <1>2, <4>1, RecentBefore DEF Typed
    <3>3. \A t \in Peers : ~(t > last)
      BY <1>1, <1>2, WholeIds, IdsAreNumbers
    <3> QED
      BY <1>2, <3>1, <3>2, <3>3 DEF Superseded
  <2> QED
    BY <1>2, <1>5, <2>1 DEF Whole, Without
<1> QED
    BY <1>4, <1>5, OffhostLosses

LEMMA SupersededKeeps ==
    ASSUME Typed, OffhostVictims, Next, ordered', NEW d \in Ids, Superseded(d)
    PROVE  Superseded(d)'
<1>1. CASE ~Recent(d, clock')
    BY <1>1 DEF Superseded, Recent
<1>2. CASE Recent(d, clock')
  <2>1. PICK s \in Whole(offhost) : Week[s] = Week[d] /\ s > d
    BY <1>2, RecentBefore DEF Superseded, Typed
  <2>2. Recent(s, clock')
    BY <1>2, <2>1, ClockAdvances, WholeIds, IdsAreNumbers, Numbers DEF Recent, Typed
  <2>3. PICK t \in Whole(offhost') : Week[t] = Week[s] /\ t >= s
    BY <2>1, <2>2, WeekIsKept
  <2>4. t > d
    BY <2>1, <2>3, WholeIds, IdsAreNumbers
  <2> QED
    BY <2>1, <2>3, <2>4 DEF Superseded, Whole, Recent
<1> QED
    BY <1>1, <1>2

LEMMA OffhostVictimsStep ==
    ASSUME Typed, OffhostVictims, Next
    PROVE  OffhostVictims'
<1>1. SUFFICES ASSUME NEW a \in Backers, run'[a].at = "remove offhost", NEW d \in run'[a].doomed
               PROVE  /\ Spared(offhost', d, KeepOffhost)
                      /\ ordered' => Superseded(d)'
    BY DEF OffhostVictims, Spared, Whole, Above
<1>2. CASE run'[a] = run[a]
  <2>1. d \in Ids /\ Spared(offhost, d, KeepOffhost) /\ (ordered => Superseded(d))
    BY <1>1, <1>2 DEF OffhostVictims, Typed, TypeOK, HostTypeOK
  <2> QED
    BY <2>1, OffhostKeeps, SupersededKeeps, ClockAdvances DEF Typed
<1>3. CASE run'[a] # run[a]
  <2> DEFINE C == Counted(mode[run[a].id])
  <2>1. PICK now \in 0 .. MaxRuns :
            /\ Reads(now) /\ offhost' = offhost
            /\ d \in C \ (Newest(C, KeepOffhost) \cup Weekly(C, now))
    BY <1>1, <1>3, RunMoves DEF Moved, Goes, DoomedOffhost
  <2>2. C \in SUBSET Ids /\ C \subseteq Whole(offhost) /\ Whole(offhost) \in SUBSET Ids
    BY DEF Counted, Whole
  <2> HIDE DEF C
  <2>3. Cardinality(Above(C, d)) >= KeepOffhost
    BY <2>1, <2>2, MoreAbove, Numbers DEF Newest
  <2>4. Spared(offhost', d, KeepOffhost)
    BY <2>1, <2>2, <2>3, MoreAbove, Numbers DEF Spared
  <2>5. ASSUME ordered' PROVE Superseded(d)'
    <3>1. clock' = now
      BY <2>1, <2>5 DEF Reads
    <3>2. CASE ~Recent(d, now)
      BY <3>1, <3>2 DEF Superseded, Recent
    <3>3. CASE \E s \in C : Week[s] = Week[d] /\ ~(s <= d)
      BY <2>1, <2>2, <3>3, IdsAreNumbers DEF Superseded, Whole
    <3> QED
      BY <2>1, <3>2, <3>3 DEF Weekly
  <2> QED
    BY <2>4, <2>5
<1> QED
    BY <1>2, <1>3

\* Promotion is the only way into the set of what was promoted.
LEMMA PromotedBy ==
    ASSUME Typed, Next
    PROVE  \/ promoted' = promoted
           \/ \E b \in Backers : /\ run[b].at = "copy" /\ run[b].id \in Ids
                                 /\ promoted' = promoted \cup {run[b].id}
                                 /\ offhost' = [offhost EXCEPT ![run[b].id] = "whole"]
<1>1. ASSUME Operate \/ PhoneStep PROVE promoted' = promoted
    BY <1>1, OperateFrame, PhoneFrame
<1>2. ASSUME NEW b \in Backers, BackupStep(b)
      PROVE  \/ promoted' = promoted
             \/ /\ run[b].at = "copy" /\ run[b].id \in Ids
                /\ promoted' = promoted \cup {run[b].id}
                /\ offhost' = [offhost EXCEPT ![run[b].id] = "whole"]
  <2>1. CASE Promote(b)
    BY <2>1 DEF Promote, At, Typed, Owned
  <2>2. CASE ~Promote(b)
    BY <1>2, <2>2 DEF BackupStep, Begin, Snapshot, Describe, Select, RemoveOffhost,
                      RemoveLocal, WriteIndex, WriteHealth, Quit
  <2> QED
    BY <2>1, <2>2
<1> QED
    BY <1>1, <1>2 DEF Next, HostNext, Backup, BackupStep

LEMMA RetentionStep ==
    ASSUME Typed, OffhostVictims, RetentionKeeps, Next
    PROVE  RetentionKeeps'
<1>0. /\ offhost \in [Ids -> Verdicts] /\ promoted \subseteq Ids
      /\ clock \in 0 .. MaxRuns /\ clock' \in 0 .. MaxRuns
    BY TypedStep DEF Typed, TypeOK, HostTypeOK
<1>1. SUFFICES ASSUME NEW r \in promoted'
               PROVE  /\ Available(offhost', r, KeepOffhost)
                      /\ Recent(r, clock') /\ ordered' =>
                            \E s \in Whole(offhost') : Week[s] = Week[r] /\ s >= r
    BY DEF RetentionKeeps, Available, Whole, Above, Recent
<1>2. CASE r \in promoted
  <2>1. r \in Ids /\ r \in 0 .. MaxRuns
    BY <1>0, <1>2, IdsAreNumbers
  <2>2. Available(offhost', r, KeepOffhost)
    BY <1>2, <2>1, OffhostKeeps DEF RetentionKeeps
  <2>3. ASSUME Recent(r, clock'), ordered'
        PROVE  \E t \in Whole(offhost') : Week[t] = Week[r] /\ t >= r
    <3>1. ordered /\ Recent(r, clock)
      BY <2>1, <2>3, RecentBefore DEF Typed
    <3>2. PICK s \in Whole(offhost) : Week[s] = Week[r] /\ s >= r
      BY <1>2, <3>1 DEF RetentionKeeps
    <3>3. Recent(s, clock')
      <4>1. s \in Nat /\ r \in Nat /\ s >= r /\ clock' \in Nat /\ Weeks \in Nat
        BY <1>0, <2>1, <3>2, IdsAreNumbers, Numbers DEF Whole
      <4> QED
        BY <2>3, <4>1 DEF Recent
    <3>4. PICK t \in Whole(offhost') : Week[t] = Week[s] /\ t >= s
      BY <2>3, <3>2, <3>3, WeekIsKept
    <3>6. s \in Ids /\ t \in Ids
      BY <3>2, <3>4 DEF Whole
    <3>5. t >= r
      BY <2>1, <3>2, <3>4, <3>6, IdsAreNumbers
    <3> QED
      BY <3>2, <3>4, <3>5
  <2> QED
    BY <2>2, <2>3
<1>3. CASE r \notin promoted
  <2>1. offhost' = [offhost EXCEPT ![r] = "whole"] /\ r \in Ids
    BY <1>3, PromotedBy
  <2>2. r \in Whole(offhost') /\ offhost'[r] = "whole"
    BY <1>0, <2>1 DEF Whole
  <2>3. Available(offhost', r, KeepOffhost)
    BY <2>2 DEF Available
  <2>4. r >= r
    BY <2>1, IdsAreNumbers
  <2> QED
    BY <2>2, <2>3, <2>4
<1> QED
    BY <1>2, <1>3

\* A generation that was promoted is whole off-host until KeepOffhost newer ones are,
\* and while the clock is never set back one that is not past the cutoff has in its ISO
\* week one that is no older: for any number of backup processes that choose their
\* victims by an earlier clock, prune at once and are stopped anywhere, and for any
\* place of the cutoff within a week.
THEOREM RetentionIsSafe == Spec => []RetentionKeeps
<1> DEFINE Inv == Typed /\ OffhostVictims /\ RetentionKeeps
<1>1. Init => OffhostVictims /\ RetentionKeeps
  <2> SUFFICES ASSUME Init PROVE OffhostVictims /\ RetentionKeeps
    OBVIOUS
  <2>1. promoted = {} /\ \A b \in Backers : run[b].at = "idle"
    BY DEF Init, HostInit, Idle
  <2> QED
    BY <2>1 DEF OffhostVictims, RetentionKeeps
<1>2. OffhostVictims /\ RetentionKeeps /\ UNCHANGED vars =>
          OffhostVictims' /\ RetentionKeeps'
  <2> SUFFICES ASSUME OffhostVictims, RetentionKeeps, UNCHANGED vars
               PROVE  OffhostVictims' /\ RetentionKeeps'
    OBVIOUS
  <2>1. UNCHANGED <<run, offhost, clock, ordered, promoted>>
    BY DEF vars, hostVars, backupVars, timeVars, runVars
  <2>2. OffhostVictims'
    BY <2>1 DEF OffhostVictims, Spared, Superseded, Whole, Above, Recent
  <2>3. RetentionKeeps'
    BY <2>1 DEF RetentionKeeps, Available, Whole, Above, Recent
  <2> QED
    BY <2>2, <2>3
<1>3. Inv /\ [Next]_vars => Inv'
    BY <1>2, TypedStep, OffhostVictimsStep, RetentionStep
<1> QED
    BY <1>1, <1>3, TypedInit, PTL DEF Spec

-----------------------------------------------------------------------------
(* What the index and the receipts name.                                    *)

AfterPromotion == {"prune offhost", "remove offhost", "prune", "remove", "index", "health"}
AfterVault == {"cleanup", "publish", "local"}

\* Verified and promoted, by the host's backup or by the phone's.
Promised(r) == r \in promoted \/ (r \in Ids /\ vault[r] = "whole")

\* Each kind of generation is promoted where its kind is.
OwnRoots ==
    /\ \A r \in promoted : mode[r] \in {"single", "dual"}
    /\ \A r \in Ids : vault[r] = "whole" => mode[r] = "phone"

\* Whoever is on the way to name a generation, the phone with a late command
\* too, has had it promoted, and so has everyone who named one.
OnTheWay ==
    /\ \A b \in Backers : run[b].at \in AfterPromotion => run[b].id \in promoted
    /\ \A c \in Couriers : courier[c].at \in AfterVault => vault[courier[c].id] = "whole"
    /\ \A r \in Ids : <<"publish", r>> \in late => vault[r] = "whole"

NamedArePromised == \A r \in {health, mounted, onPhone} : r # 0 => Promised(r)

\* The vault only gains what a coordinator that has pulled a whole pair promotes.
LEMMA VaultGrows ==
    ASSUME Typed, Next
    PROVE  \A r \in Ids :
               /\ vault[r] = "whole" => vault'[r] = "whole"
               /\ vault'[r] = "whole" =>
                     vault[r] = "whole" \/ \E c \in Couriers : courier[c].at = "promote" /\ r = courier[c].id
<1>1. vault \in [Ids -> {"none", "whole"}]
    BY DEF Typed, TypeOK
<1>2. ASSUME HostNext /\ UNCHANGED phoneVars PROVE vault' = vault
    BY <1>2 DEF phoneVars
<1>3. ASSUME NEW c \in Couriers, CourierStep(c)
      PROVE  \/ vault' = vault
             \/ courier[c].at = "promote" /\ vault' = [vault EXCEPT ![courier[c].id] = "whole"]
    BY <1>3 DEF CourierStep, Acquire, Ask, Pull, PromotePair, WriteLocalHealth, Finally, Kill
<1>4. ASSUME NEW c \in Couriers, NEW r \in Ids, BindPhone(c, r) PROVE vault' = vault
    BY <1>4 DEF BindPhone
<1>5. ASSUME NEW command \in Commands, NEW r \in Ids, CarryOut(command, r) PROVE vault' = vault
    BY <1>5 DEF CarryOut
<1> QED
    BY <1>1, <1>2, <1>3, <1>4, <1>5 DEF Next, PhoneStep, CourierStep

LEMMA ModeStays ==
    ASSUME Typed, Next, NEW r \in Ids, mode[r] # "none"
    PROVE  mode'[r] = mode[r]
<1>1. ASSUME NEW b \in Backers, BackupStep(b) PROVE mode'[r] = mode[r]
    BY <1>1, BackupFrame, BindFrame DEF Typed, Begin
<1>2. ASSUME Operate \/ PhoneStep PROVE mode'[r] = mode[r]
    BY <1>2, OperateFrame, PhoneFrame, BindFrame DEF Typed
<1> QED
    BY <1>1, <1>2 DEF Next, HostNext, Backup, BackupStep

LEMMA OwnRootsStep ==
    ASSUME Typed, OwnRoots, Next
    PROVE  OwnRoots'
<1>1. ASSUME NEW r \in promoted' PROVE mode'[r] \in {"single", "dual"}
  <2>1. r \in Ids /\ mode[r] \in {"single", "dual"}
    <3>1. CASE r \in promoted
      BY <3>1 DEF OwnRoots, Typed, TypeOK, HostTypeOK
    <3>2. CASE r \notin promoted
      BY <1>1, <3>2, PromotedBy DEF Typed, Owned
    <3> QED
      BY <3>1, <3>2
  <2> QED
    BY <2>1, ModeStays
<1>2. ASSUME NEW r \in Ids, vault'[r] = "whole" PROVE mode'[r] = "phone"
  <2>1. mode[r] = "phone"
    BY <1>2, VaultGrows DEF OwnRoots, Typed, Owned
  <2> QED
    BY <2>1, ModeStays
<1> QED
    BY <1>1, <1>2 DEF OwnRoots

\* A coordinator gets past promotion only by promoting.
LEMMA CourierEarns ==
    ASSUME Typed, Next, NEW c \in Couriers, courier'[c].at \in AfterVault
    PROVE  /\ courier'[c].id = courier[c].id /\ courier[c].id \in Ids
           /\ courier[c].at \in AfterVault \/ vault'[courier[c].id] = "whole"
<1>0. courier \in [Couriers -> CourierStates] /\ vault \in [Ids -> {"none", "whole"}]
    BY DEF Typed, TypeOK, CourierStates, CourierPlaces
<1>1. SUFFICES ASSUME courier'[c] # courier[c]
               PROVE  /\ courier'[c].id = courier[c].id /\ courier[c].id \in Ids
                      /\ courier[c].at \in AfterVault \/ vault'[courier[c].id] = "whole"
    BY DEF Typed, Owned, AfterVault
<1>2. ASSUME NEW r \in Ids, NEW d \in Couriers, BindPhone(d, r) PROVE FALSE
  <2>1. courier'[c] = [Home EXCEPT !.at = "lock", !.id = r]
    BY <1>0, <1>1, <1>2 DEF BindPhone
  <2> QED
    BY <2>1 DEF Home, AfterVault
<1>3. ASSUME NEW d \in Couriers, CourierStep(d) PROVE d = c
  <2>1. \E rec : courier' = [courier EXCEPT ![d] = rec]
    BY <1>3 DEF CourierStep, Acquire, Ask, Pull, PromotePair, WriteLocalHealth, Finally,
                Kill, Moves, Abandons
  <2> QED
    BY <1>0, <1>1, <2>1
<1>4. CourierStep(c)
  <2>1. ASSUME HostNext /\ UNCHANGED phoneVars PROVE FALSE
    BY <1>1, <2>1 DEF phoneVars
  <2>2. ASSUME NEW command \in Commands, NEW r \in Ids, CarryOut(command, r) PROVE FALSE
    BY <1>1, <2>2 DEF CarryOut
  <2> QED
    BY <1>2, <1>3, <2>1, <2>2 DEF Next, PhoneStep, CourierStep
<1>5. courier'[c].id = courier[c].id /\ courier[c].id \in Ids
    BY <1>0, <1>4, CourierKeeps DEF AfterVault, Typed, Owned
<1>6. ASSUME Abandons(c) PROVE FALSE
    BY <1>0, <1>6 DEF Abandons, Home, AfterVault
<1>7. CASE PromotePair(c)
    BY <1>0, <1>5, <1>6, <1>7 DEF PromotePair
<1>8. ASSUME Ask(c, "snapshot", "pull") PROVE FALSE
  <2>1. courier' = [courier EXCEPT ![c].at = "pull", ![c].clean = @ \/ FALSE]
    BY <1>6, <1>8 DEF Ask
  <2>2. courier'[c].at = "pull"
    BY <1>0, <2>1 DEF CourierStates
  <2> QED
    BY <2>2 DEF AfterVault
<1>9. ASSUME Acquire(c) \/ Pull(c) \/ Finally(c) \/ Kill(c) PROVE FALSE
  <2>1. ASSUME NEW rec, courier' = [courier EXCEPT ![c] = rec], rec.at \notin AfterVault
        PROVE  FALSE
    BY <1>0, <2>1
  <2>2. ASSUME Pull(c) PROVE FALSE
    BY <1>0, <1>6, <2>2 DEF Pull, AfterVault, CourierStates
  <2>3. ASSUME Acquire(c) PROVE FALSE
    BY <1>0, <2>3 DEF Acquire, Moves, AfterVault, CourierStates
  <2>4. ASSUME Finally(c) \/ Kill(c) PROVE FALSE
    BY <2>1, <2>4 DEF Finally, Kill, Home, AfterVault
  <2> QED
    BY <1>9, <2>2, <2>3, <2>4
<1> QED
    BY <1>4, <1>5, <1>7, <1>8, <1>9 DEF CourierStep, Ask, WriteLocalHealth, Moves, AfterVault

LEMMA OnTheWayStep ==
    ASSUME Typed, OnTheWay, Next
    PROVE  OnTheWay'
<1>1. ASSUME NEW b \in Backers, run'[b].at \in AfterPromotion
      PROVE  run'[b].id \in promoted'
  <2>1. promoted \subseteq promoted'
    BY PromotedBy
  <2>2. CASE run'[b] = run[b]
    BY <1>1, <2>1, <2>2 DEF OnTheWay
  <2>3. CASE Goes(b, "copy", "prune offhost") /\ promoted' = promoted \cup {run[b].id}
    BY <2>3 DEF Goes
  <2>4. CASE \E from \in AfterPromotion : \E to : Goes(b, from, to)
    BY <2>1, <2>4 DEF Goes, OnTheWay
  <2> QED
    BY <1>1, <2>2, <2>3, <2>4, RunMoves DEF Moved, Goes, AfterPromotion
<1>2. ASSUME NEW c \in Couriers, courier'[c].at \in AfterVault
      PROVE  vault'[courier'[c].id] = "whole"
    BY <1>2, CourierEarns, VaultGrows DEF OnTheWay
<1>3. ASSUME NEW r \in Ids, <<"publish", r>> \in late'
      PROVE  vault'[r] = "whole"
  <2>1. \/ <<"publish", r>> \in late
        \/ \E c \in Couriers : courier[c].at = "publish" /\ courier[c].id = r
    <3>1. ASSUME HostNext /\ UNCHANGED phoneVars PROVE late' = late
      BY <3>1 DEF phoneVars
    <3>2. ASSUME NEW command \in Commands, NEW q \in Ids, CarryOut(command, q)
          PROVE  late' \subseteq late
      BY <3>2 DEF CarryOut
    <3>3. ASSUME NEW c \in Couriers, NEW q \in Ids, BindPhone(c, q) PROVE late' = late
      BY <3>3 DEF BindPhone
    <3>4. ASSUME NEW c \in Couriers, NEW command, NEW to, Ask(c, command, to)
          PROVE  late' \subseteq late \cup {<<courier[c].at, courier[c].id>>}
      BY <3>4 DEF Ask
    <3>5. ASSUME NEW c \in Couriers,
                 Acquire(c) \/ Pull(c) \/ PromotePair(c) \/ WriteLocalHealth(c)
          PROVE  late' = late
      BY <3>5 DEF Acquire, Pull, PromotePair, WriteLocalHealth
    <3>6. ASSUME NEW c \in Couriers, Kill(c)
          PROVE  late' \subseteq late \cup {<<courier[c].at, courier[c].id>>}
      BY <3>6 DEF Kill
    <3>7. ASSUME NEW c \in Couriers, Finally(c)
          PROVE  late' \subseteq late \cup {<<"cleanup", courier[c].id>>}
      BY <3>7 DEF Finally
    <3> QED
      BY <1>3, <3>1, <3>2, <3>3, <3>4, <3>5, <3>6, <3>7 DEF Next, PhoneStep, CourierStep
  <2> QED
    BY <2>1, VaultGrows DEF OnTheWay, AfterVault
<1> QED
    BY <1>1, <1>2, <1>3 DEF OnTheWay

LEMMA NamedStep ==
    ASSUME Typed, OnTheWay, NamedArePromised, Next
    PROVE  NamedArePromised'
<1>0. promoted \subseteq promoted' /\ \A r \in Ids : vault[r] = "whole" => vault'[r] = "whole"
    BY PromotedBy, VaultGrows
<1>1. ASSUME NEW r \in {health, mounted, onPhone}, r # 0 PROVE r \in promoted' \/ (r \in Ids /\ vault'[r] = "whole")
    BY <1>0, <1>1 DEF NamedArePromised, Promised
<1>2. ASSUME NEW b \in Backers, run[b].at \in AfterPromotion PROVE run[b].id \in promoted'
    BY <1>0, <1>2 DEF OnTheWay
<1>3. ASSUME NEW c \in Couriers, courier[c].at \in AfterVault
      PROVE  courier[c].id \in Ids /\ vault'[courier[c].id] = "whole"
    BY <1>0, <1>3 DEF OnTheWay, AfterVault, Typed, Owned
<1>4. ASSUME NEW r \in Ids, <<"publish", r>> \in late PROVE vault'[r] = "whole"
    BY <1>0, <1>4 DEF OnTheWay
<1>5. \/ health' = health
      \/ \E b \in Backers : run[b].at \in AfterPromotion /\ health' = run[b].id
      \/ \E c \in Couriers : courier[c].at \in AfterVault /\ health' = courier[c].id
  <2>1. ASSUME NEW b \in Backers, BackupStep(b)
        PROVE  health' = health \/ (run[b].at \in AfterPromotion /\ health' = run[b].id)
    BY <2>1 DEF BackupStep, Begin, Snapshot, Describe, Promote, Select, RemoveOffhost,
                RemoveLocal, WriteIndex, WriteHealth, Quit, AfterPromotion
  <2>2. CASE Operate
    BY <2>2, OperateFrame
  <2>3. ASSUME NEW c \in Couriers, CourierStep(c)
        PROVE  health' = health \/ (courier[c].at \in AfterVault /\ health' = courier[c].id)
    BY <2>3 DEF CourierStep, Acquire, Ask, Pull, PromotePair, WriteLocalHealth, Finally, Kill,
                Moves, AfterVault, hostVars, backupVars, runVars
  <2>4. ASSUME NEW c \in Couriers, NEW r \in Ids, BindPhone(c, r) PROVE health' = health
    BY <2>4 DEF BindPhone
  <2>5. ASSUME NEW command \in Commands, NEW r \in Ids, CarryOut(command, r)
        PROVE  health' = health
    BY <2>5 DEF CarryOut, hostVars, backupVars, runVars
  <2> QED
    BY <2>1, <2>2, <2>3, <2>4, <2>5 DEF Next, HostNext, Backup, BackupStep, PhoneStep, CourierStep
<1>6. mounted' \in {mounted, health}
  <2>1. ASSUME NEW b \in Backers, BackupStep(b) PROVE mounted' = mounted
    BY <2>1, BackupFrame DEF Typed
  <2>2. CASE Operate
    BY <2>2 DEF Operate, Authorize, Replace, FailHelper, WriteReceipt, FailRestore,
                StopContainer, StartContainer, Boot, Starts
  <2> QED
    BY <2>1, <2>2, PhoneFrame DEF Next, HostNext, Backup, BackupStep
<1>7. \/ onPhone' = onPhone
      \/ onPhone' \in Ids /\ <<"publish", onPhone'>> \in late
      \/ \E c \in Couriers : courier[c].at \in AfterVault /\ onPhone' = courier[c].id
  <2>1. ASSUME HostNext /\ UNCHANGED phoneVars PROVE onPhone' = onPhone
    BY <2>1 DEF phoneVars
  <2>2. ASSUME NEW command \in Commands, NEW r \in Ids, CarryOut(command, r)
        PROVE  onPhone' = onPhone \/ (onPhone' \in Ids /\ <<"publish", onPhone'>> \in late)
    BY <2>2 DEF CarryOut, Performs, Fails
  <2>3. ASSUME NEW c \in Couriers, NEW r \in Ids, BindPhone(c, r) PROVE onPhone' = onPhone
    BY <2>3 DEF BindPhone
  <2>4. ASSUME NEW c \in Couriers, CourierStep(c)
        PROVE  onPhone' = onPhone \/ (courier[c].at \in AfterVault /\ onPhone' = courier[c].id)
    <3>1. ASSUME NEW command, NEW to, Ask(c, command, to)
          PROVE  onPhone' = onPhone \/ (courier[c].at = "publish" /\ onPhone' = courier[c].id)
      BY <3>1 DEF Ask, Performs, Fails
    <3>2. CASE Finally(c)
      BY <3>2 DEF Finally, Performs, Fails
    <3>3. CASE Acquire(c) \/ Pull(c) \/ PromotePair(c) \/ WriteLocalHealth(c) \/ Kill(c)
      BY <3>3 DEF Acquire, Pull, PromotePair, WriteLocalHealth, Kill
    <3> QED
      BY <2>4, <3>1, <3>2, <3>3 DEF CourierStep, AfterVault
  <2> QED
    BY <2>1, <2>2, <2>3, <2>4 DEF Next, PhoneStep, CourierStep
<1> QED
    BY <1>1, <1>2, <1>3, <1>4, <1>5, <1>6, <1>7 DEF NamedArePromised, Promised

\* The index names a generation that is there, or that retention had newer ones for;
\* every receipt, the container's and the phone's too, names one that was verified
\* off-host and promoted, whatever ran at once, was given up on or came late.
THEOREM WhatIsNamedWasKept == Spec => []NamedIsKept
<1> DEFINE Inv == /\ Typed /\ LocalVictims /\ LocalClaims
                  /\ OwnRoots /\ OnTheWay /\ NamedArePromised
<1>1. Init => Inv
  <2> SUFFICES ASSUME Init PROVE Inv
    OBVIOUS
  <2>1. /\ promoted = {} /\ late = {} /\ index = 0 /\ health = 0 /\ mounted = 0 /\ onPhone = 0
        /\ \A b \in Backers : run[b].at = "idle"
        /\ \A c \in Couriers : courier[c].at = "idle"
        /\ \A r \in Ids : vault[r] = "none"
    BY DEF Init, HostInit, Idle, Home
  <2> QED
    BY <2>1, TypedInit DEF LocalVictims, LocalClaims, OwnRoots, OnTheWay, NamedArePromised,
                           AfterPromotion, AfterVault
<1>2. Inv /\ [Next]_vars => Inv'
  <2> SUFFICES ASSUME Inv, [Next]_vars PROVE Inv'
    OBVIOUS
  <2>1. CASE Next
    BY <2>1, TypedStep, LocalStep, OwnRootsStep, OnTheWayStep, NamedStep
  <2>2. CASE UNCHANGED vars
    <3>1. /\ UNCHANGED <<run, local, index, promoted, mode, health, mounted>>
          /\ UNCHANGED <<courier, vault, late, onPhone>>
      BY <2>2 DEF vars, hostVars, backupVars, timeVars, runVars, phoneVars
    <3>2. LocalVictims' /\ LocalClaims'
      BY <3>1 DEF LocalVictims, LocalClaims, Spared, Available, Whole, Above
    <3>3. OwnRoots' /\ OnTheWay' /\ NamedArePromised'
      BY <3>1 DEF OwnRoots, OnTheWay, NamedArePromised, Promised
    <3> QED
      BY <2>2, <3>2, <3>3, TypedStep
  <2> QED
    BY <2>1, <2>2
<1>3. Inv => NamedIsKept
    BY DEF LocalClaims, OwnRoots, NamedArePromised, Promised, NamedIsKept, Vouched
<1> QED
    BY <1>1, <1>2, <1>3, PTL DEF Spec

-----------------------------------------------------------------------------
(* The restore.                                                             *)

\* Every file of r was restored from r.
InPlace(r) ==
    /\ live["ispindel"] = r
    /\ mode[r] = "dual" => live["brew"] = r

NobodyBut(r) == \A q \in Ids \ {r} : helper[q] = "none"

\* A restore that is under way, or has failed, finds the container down, and so
\* does a receipt.  If no helper was left when it began, its own is the only one,
\* has replaced the files before the one it is at, and is gone when the receipt
\* is due; none comes later that could touch what the receipt speaks of.
Restoring ==
    /\ restore.at # "idle" =>
          /\ container = "down"
          /\ restore.target \in Ids /\ restore.pre \in Ids /\ mode[restore.target] # "none"
    /\ receipt # 0 => container = "down" /\ receipt \in Ids /\ mode[receipt] # "none"
    /\ alone /\ restore.at = "helper" =>
          /\ NobodyBut(restore.target)
          /\ helper[restore.target] = "brew" => live["ispindel"] = restore.target
    /\ alone /\ restore.at = "receipt" =>
          InPlace(restore.target) /\ \A q \in Ids : helper[q] = "none"
    /\ alone /\ restore.at = "idle" /\ receipt # 0 =>
          InPlace(receipt) /\ \A q \in Ids : helper[q] = "none"

LEMMA AuthorizeRestoring ==
    ASSUME Typed, Restoring, NEW target \in Ids, NEW pre \in Ids, Authorize(target, pre)
    PROVE  Restoring'
<1>0. /\ helper \in Helpers /\ local \in [Ids -> Verdicts]
      /\ mode \in [Ids -> {"none", "single", "dual", "phone"}]
    BY DEF Typed, TypeOK, HostTypeOK, Helpers
<1>1. /\ StartHelper(target, pre) /\ container = "down"
      /\ UNCHANGED <<mode, live, receipt, container>>
      /\ local[target] = "whole"
    BY DEF Authorize, Quiescent, Restorable, Whole, runVars
<1>2. mode[target] # "none"
    BY <1>0, <1>1 DEF Typed, Owned
<1>3. /\ restore'.target = target /\ restore'.pre = pre /\ restore'.at \in {"helper", "failed"}
      /\ alone' = (helper = NoHelper)
      /\ helper' = [helper EXCEPT ![target] = IF @ = "none" THEN "ispindel" ELSE @]
    BY <1>1 DEF StartHelper
<1>4. ASSUME alone' PROVE NobodyBut(target)' /\ helper'[target] = "ispindel"
    BY <1>0, <1>3, <1>4 DEF NoHelper, NobodyBut, Helpers
<1> QED
    BY <1>1, <1>2, <1>3, <1>4 DEF Restoring

\* A helper's step, of the restore that waits for it or of an earlier one.
LEMMA HelperRestoring ==
    ASSUME Typed, Restoring, NEW r \in Ids, Replace(r) \/ FailHelper(r)
    PROVE  Restoring'
<1>0. /\ helper \in Helpers /\ live \in [Files -> 0 .. MaxRuns] /\ restore \in RestoreStates
      /\ HostTypeOK
    BY RestoreTypes DEF Typed, TypeOK, HostTypeOK, Helpers
<1>1. /\ helper[r] # "none"
      /\ UNCHANGED <<mode, receipt, container, alone>>
    BY DEF Replace, FailHelper, backupVars, runVars
<1>2. /\ restore'.target = restore.target /\ restore'.pre = restore.pre
      /\ restore'.at = restore.at \/ (Awaits(r) /\ restore'.at \in {"receipt", "failed"})
    BY <1>0, Told
<1>3. ASSUME alone, restore.at = "helper"
      PROVE  r = restore.target /\ NobodyBut(r) /\ Copied(r) = {r}
    BY <1>1, <1>3 DEF Restoring, NobodyBut, Copied, Spoiled
<1>4. ASSUME alone, restore.at = "receipt" \/ (restore.at = "idle" /\ receipt # 0)
      PROVE  FALSE
    BY <1>1, <1>4 DEF Restoring
<1>5. restore'.at # "idle" => restore.at # "idle"
    BY <1>2 DEF Awaits
<1>6. ASSUME alone', restore'.at = "helper"
      PROVE  /\ NobodyBut(restore.target)'
             /\ helper'[restore'.target] = "brew" => live'["ispindel"] = restore'.target
  <2>1. alone /\ restore.at = "helper" /\ r = restore.target /\ Awaits(r)
    BY <1>1, <1>2, <1>3, <1>6 DEF Awaits
  <2>2. NobodyBut(r)'
    BY <1>0, <1>3, <2>1 DEF NobodyBut, Replace, FailHelper, Helpers
  <2>3. CASE Replace(r)
    <3>1. Following(r) # "none"
      BY <1>0, <1>6, <2>1, <2>3, RestoreTypes DEF Replace, Attempts
    <3>2. helper[r] = "ispindel" /\ live' = [live EXCEPT !["ispindel"] = r]
      BY <1>3, <2>1, <2>3, <3>1 DEF Following, Replace
    <3>3. live'["ispindel"] = r
      BY <1>0, <3>2 DEF Files
    <3> QED
      BY <1>2, <2>1, <2>2, <3>3 DEF NobodyBut
  <2>4. CASE FailHelper(r)
    BY <1>0, <1>6, <2>1, <2>4, RestoreTypes DEF FailHelper, Attempts
  <2> QED
    BY <2>3, <2>4
<1>7. ASSUME alone', restore'.at = "receipt"
      PROVE  InPlace(restore.target)' /\ \A q \in Ids : helper'[q] = "none"
  <2>1. alone /\ restore.at = "helper" /\ r = restore.target /\ Awaits(r)
    BY <1>1, <1>2, <1>3, <1>4, <1>7 DEF Awaits
  <2>2. Replace(r)
    BY <1>0, <1>7, <2>1, RestoreTypes DEF FailHelper, Attempts
  <2>3. Following(r) = "none" /\ helper' = [helper EXCEPT ![r] = "none"]
        /\ live' = [live EXCEPT ![helper[r]] = r]
    BY <1>0, <1>3, <1>7, <2>1, <2>2, RestoreTypes DEF Replace, Attempts
  <2>4. \A q \in Ids : helper'[q] = "none"
    BY <1>0, <1>3, <2>1, <2>3 DEF NobodyBut, Helpers
  <2>5. helper[r] \in Files
    BY <1>0, <1>1 DEF Helpers
  <2>6. InPlace(r)'
    <3>1. CASE helper[r] = "ispindel"
      <4>1. mode'[r] # "dual" /\ live'["ispindel"] = r
        BY <1>0, <1>1, <2>3, <3>1 DEF Following, Files
      <4> QED
        BY <4>1 DEF InPlace
    <3>2. CASE helper[r] = "brew"
      <4>1. live["ispindel"] = r
        BY <2>1, <3>2 DEF Restoring
      <4>2. live'["ispindel"] = r /\ live'["brew"] = r
        BY <1>0, <2>3, <3>2, <4>1 DEF Files
      <4> QED
        BY <4>2 DEF InPlace
    <3> QED
      BY <2>5, <3>1, <3>2 DEF Files
  <2> QED
    BY <1>2, <2>1, <2>4, <2>6 DEF InPlace
<1>8. ~(alone' /\ restore'.at = "idle" /\ receipt' # 0)
    BY <1>1, <1>2, <1>4 DEF Awaits
<1> QED
    BY <1>1, <1>2, <1>5, <1>6, <1>7, <1>8 DEF Restoring

LEMMA RestoringStep ==
    ASSUME Typed, Restoring, Next
    PROVE  Restoring'
<1>0. restore \in RestoreStates
    BY RestoreTypes DEF Typed, TypeOK
<1>1. ASSUME UNCHANGED <<live, restore, helper, receipt, alone, container>>
      PROVE  Restoring'
    BY <1>1, ModeStays DEF Restoring, InPlace, NobodyBut
<1>2. ASSUME NEW b \in Backers, BackupStep(b) PROVE Restoring'
    BY <1>1, <1>2, BackupFrame DEF Typed
<1>3. CASE PhoneStep
    BY <1>1, <1>3, PhoneFrame
<1>4. CASE Operate
  <2>0. mode' = mode
    BY <1>4, OperateFrame
  <2>1. ASSUME NEW target \in Ids, NEW pre \in Ids, Authorize(target, pre) PROVE Restoring'
    BY <2>1, AuthorizeRestoring
  <2>2. ASSUME NEW r \in Ids, Replace(r) \/ FailHelper(r) PROVE Restoring'
    BY <2>2, HelperRestoring
  <2>3. CASE WriteReceipt
    <3>1. /\ restore.at = "receipt" /\ restore'.at = "idle" /\ receipt' = restore.target
          /\ UNCHANGED <<live, helper, alone, container>>
      BY <2>3 DEF WriteReceipt, NoRestore
    <3> QED
      BY <2>0, <3>1 DEF Restoring, InPlace
  <2>4. CASE FailRestore
    <3>1. restore'.at = "failed" /\ restore'.target = restore.target /\ restore'.pre = restore.pre
      BY <1>0, <2>4, RestoreTypes DEF FailRestore, Attempts
    <3>2. restore.at # "idle" /\ UNCHANGED <<receipt, container>>
      BY <2>4 DEF FailRestore
    <3> QED
      BY <2>0, <3>1, <3>2 DEF Restoring
  <2>5. CASE StopContainer
    <3>1. restore.at = "idle" /\ receipt = 0 /\ UNCHANGED <<restore, receipt>>
      BY <2>5 DEF StopContainer, restoreVars, Restoring
    <3> QED
      BY <3>1 DEF Restoring
  <2>6. CASE StartContainer \/ Boot
    <3>1. restore'.at = "idle" /\ receipt' = 0
      BY <2>6 DEF StartContainer, Boot, Starts, NoRestore
    <3> QED
      BY <3>1 DEF Restoring
  <2> QED
    BY <1>4, <2>1, <2>2, <2>3, <2>4, <2>5, <2>6 DEF Operate
<1> QED
    BY <1>2, <1>3, <1>4 DEF Next, HostNext, Backup, BackupStep

LEMMA RestoringInit == Init => Restoring
    BY DEF Init, HostInit, NoRestore, Restoring

LEMMA RestoringStutters ==
    ASSUME Restoring, UNCHANGED vars
    PROVE  Restoring'
<1>1. UNCHANGED <<live, restore, helper, receipt, alone, container, mode>>
    BY DEF vars, hostVars, backupVars, timeVars, runVars, restoreVars
<1> QED
    BY <1>1 DEF Restoring, InPlace, NobodyBut

\* A receipt names a generation all of whose files are in place, unless a later
\* restore is under way or has failed, or an earlier one had left a helper: no
\* other way of failing, of repeating a restore or of rebooting makes it lie.
THEOREM ReceiptsAreHonest == Spec => []ReceiptIsHonest
<1> DEFINE Inv == Typed /\ Restoring
<1>1. Inv /\ [Next]_vars => Inv'
    BY TypedStep, RestoringStep, RestoringStutters
<1>2. Inv => ReceiptIsHonest
    BY DEF Restoring, InPlace, ReceiptIsHonest
<1> QED
    BY <1>1, <1>2, TypedInit, RestoringInit, PTL DEF Spec

\* Generations that are in the backup root or will be before the container is up again.
Pending == Whole(local) \cup {run[b].id : b \in {a \in Backers : run[a].at = "manifest"}}

\* While a restore can be undone fewer than Keep generations are above the one
\* it would be undone with: retention has no reason to remove it.
Undoable ==
    restore.at # "idle" /\ ordered =>
        local[restore.pre] = "whole" /\ Cardinality(Above(Pending, restore.pre)) < Keep

LEMMA PendingIds ==
    ASSUME Typed
    PROVE  Pending \in SUBSET Ids /\ Pending \subseteq Taken
<1>1. Whole(local) \subseteq Taken
    BY DEF Typed, TypeOK, HostTypeOK, Owned, Whole, Taken
<1>2. \A b \in Backers : run[b].at = "manifest" => run[b].id \in Taken
    BY DEF Typed, Owned, Taken
<1> QED
    BY <1>1, <1>2 DEF Pending, Taken

LEMMA UndoableStep ==
    ASSUME Typed, Restoring, LocalVictims, Undoable, Next
    PROVE  Undoable'
<1>1. SUFFICES ASSUME restore'.at # "idle", ordered'
               PROVE  /\ local'[restore'.pre] = "whole"
                      /\ Cardinality(Above(Pending', restore'.pre)) < Keep
    BY DEF Undoable, Above
<1>2. ordered
    BY <1>1, ClockAdvances DEF Typed
<1>3. ASSUME NEW target \in Ids, NEW pre \in Ids, Authorize(target, pre)
      PROVE  /\ local'[restore'.pre] = "whole"
             /\ Cardinality(Above(Pending', restore'.pre)) < Keep
  <2>1. /\ restore'.pre = pre /\ local[pre] = "whole" /\ UNCHANGED <<local, run>>
        /\ clock <= clock' /\ clock' <= pre + FreshRuns
    BY <1>1, <1>3 DEF Authorize, StartHelper, Reads, Restorable, Fresh, Whole, runVars
  <2>2. clock \in Nat /\ clock' \in Nat /\ pre \in Nat
    <3>1. clock \in 0 .. MaxRuns /\ clock' \in 0 .. MaxRuns
      BY <1>1, ClockAdvances DEF Typed
    <3>2. pre \in Nat
      BY <1>3, IdsAreNumbers
    <3> QED
      BY <3>1, <3>2
  <2>3. Above(Pending, pre) \subseteq (pre + 1) .. (pre + FreshRuns)
    <3>1. SUFFICES ASSUME NEW r \in Pending, r > pre PROVE r \in (pre + 1) .. (pre + FreshRuns)
      BY DEF Above
    <3>2. r \in Nat /\ r <= clock
      BY <1>2, PendingIds, IdsAreNumbers DEF Typed, Owned
    <3> QED
      BY <2>1, <2>2, <3>1, <3>2, Numbers
  <2>4. /\ IsFiniteSet((pre + 1) .. (pre + FreshRuns))
        /\ Cardinality((pre + 1) .. (pre + FreshRuns)) <= FreshRuns
    <3>1. pre + 1 \in Int /\ pre + FreshRuns \in Int /\ FreshRuns \in Nat
      BY <2>2, Numbers
    <3>2. IsFiniteSet((pre + 1) .. (pre + FreshRuns))
      BY <3>1, FS_Interval
    <3>3. Cardinality((pre + 1) .. (pre + FreshRuns))
            = IF pre + 1 > pre + FreshRuns THEN 0 ELSE (pre + FreshRuns) - (pre + 1) + 1
      BY <3>1, FS_Interval, Zenon
    <3>4. (IF pre + 1 > pre + FreshRuns THEN 0 ELSE (pre + FreshRuns) - (pre + 1) + 1) <= FreshRuns
      BY <2>2, <3>1
    <3> QED
      BY <3>2, <3>3, <3>4
  <2>5. Cardinality(Above(Pending, pre)) <= FreshRuns
    <3>1. Cardinality(Above(Pending, pre)) <= Cardinality((pre + 1) .. (pre + FreshRuns))
      BY <2>3, <2>4, FS_Subset
    <3>2. Cardinality(Above(Pending, pre)) \in Nat
      BY PendingIds, MoreAbove
    <3>3. Cardinality((pre + 1) .. (pre + FreshRuns)) \in Nat
      BY <2>4, FS_CardinalityType
    <3> QED
      BY <2>4, <3>1, <3>2, <3>3, Numbers
  <2>6. Cardinality(Above(Pending, pre)) \in Nat
    BY PendingIds, MoreAbove
  <2>7. Pending' = Pending
    BY <2>1 DEF Pending, Whole
  <2> QED
    BY <2>1, <2>5, <2>6, <2>7, Numbers
<1>4. ASSUME restore.at # "idle", restore'.pre = restore.pre, UNCHANGED <<local, run>>
      PROVE  /\ local'[restore'.pre] = "whole"
             /\ Cardinality(Above(Pending', restore'.pre)) < Keep
  <2>1. Pending' = Pending
    BY <1>4 DEF Pending, Whole
  <2> QED
    BY <1>2, <1>4, <2>1 DEF Undoable
<1>5. ASSUME Operate, ~ \E target, pre \in Ids : Authorize(target, pre)
      PROVE  restore.at # "idle" /\ restore'.pre = restore.pre /\ UNCHANGED <<local, run>>
  <2>1. restore \in RestoreStates
    BY RestoreTypes DEF Typed, TypeOK
  <2>2. UNCHANGED local
    BY <1>5, OperateFrame
  <2>3. ASSUME NEW r \in Ids, Replace(r) \/ FailHelper(r)
        PROVE  restore.at # "idle" /\ restore'.pre = restore.pre /\ run' = run
    <3>1. /\ restore'.pre = restore.pre
          /\ restore'.at = restore.at \/ Awaits(r)
      BY <2>3, Told DEF Typed, TypeOK
    <3> QED
      BY <1>1, <2>3, <3>1 DEF Awaits, Replace, FailHelper, backupVars, runVars
  <2>4. CASE FailRestore
    <3>1. restore'.pre = restore.pre
      BY <2>1, <2>4, RestoreTypes DEF FailRestore, Attempts
    <3> QED
      BY <2>2, <2>4, <3>1 DEF FailRestore, backupVars, runVars
  <2>5. CASE WriteReceipt
    BY <1>1, <2>5 DEF WriteReceipt, NoRestore
  <2>6. CASE StopContainer
    BY <1>1, <2>2, <2>6 DEF StopContainer, restoreVars, backupVars, runVars
  <2>7. CASE StartContainer \/ Boot
    <3>1. restore' = NoRestore
      BY <2>7 DEF StartContainer, Boot, Starts
    <3> QED
      BY <1>1, <3>1 DEF NoRestore
  <2>8. CASE \E r \in Ids : Replace(r) \/ FailHelper(r)
    BY <2>2, <2>3, <2>8
  <2> QED
    BY <1>5, <2>4, <2>5, <2>6, <2>7, <2>8 DEF Operate
<1>6. CASE PhoneStep
    BY <1>1, <1>4, <1>6, PhoneFrame
<1>7. ASSUME NEW b \in Backers, BackupStep(b), UNCHANGED phoneVars
      PROVE  /\ local'[restore'.pre] = "whole"
             /\ Cardinality(Above(Pending', restore'.pre)) < Keep
  <2>1. UNCHANGED <<restore, container>>
    BY <1>7, BackupFrame DEF Typed
  <2> DEFINE pre == restore.pre
  <2>2. /\ container = "down" /\ pre \in Ids /\ local[pre] = "whole"
        /\ Cardinality(Above(Pending, pre)) < Keep
    BY <1>1, <1>2, <2>1 DEF Restoring, Undoable
  <2>3. \A a \in Backers : run'[a].at = "manifest" => run[a].at = "manifest" /\ run'[a].id = run[a].id
    BY <2>1, <2>2, RunMoves DEF Moved, Goes
  <2>4. Whole(local') \subseteq Pending
    <3>1. ASSUME NEW r \in Ids, NEW m \in {"single", "dual"}, Begin(b, r, m)
          PROVE  Whole(local') \subseteq Whole(local)
      BY <3>1 DEF Begin, Whole, Typed, TypeOK, HostTypeOK
    <3>2. CASE Describe(b)
      BY <3>2 DEF Describe, At, Pending, Whole, Typed, TypeOK, HostTypeOK
    <3>3. CASE RemoveLocal(b)
      <4>1. PICK stop : local' = Without(local, run[b].doomed, stop)
        BY <3>3 DEF RemoveLocal
      <4> QED
        BY <4>1 DEF Without, Whole, Pending
    <3>4. CASE \/ Snapshot(b) \/ Promote(b) \/ Select(b) \/ RemoveOffhost(b) \/ WriteIndex(b)
               \/ WriteHealth(b) \/ Quit(b)
      BY <3>4 DEF Snapshot, Promote, Select, RemoveOffhost, WriteIndex, WriteHealth, Quit,
                  Pending
    <3> QED
      BY <1>7, <3>1, <3>2, <3>3, <3>4 DEF BackupStep, Pending
  <2>5. Pending' \subseteq Pending
    BY <2>3, <2>4 DEF Pending, Whole
  <2>6. Cardinality(Above(Pending', pre)) < Keep
    <3>1. Pending \in SUBSET Ids
      BY PendingIds
    <3>2. Pending' \in SUBSET Ids
      BY <2>5, <3>1
    <3>3. /\ Cardinality(Above(Pending', pre)) <= Cardinality(Above(Pending, pre))
          /\ Cardinality(Above(Pending', pre)) \in Nat /\ Cardinality(Above(Pending, pre)) \in Nat
      BY <2>2, <2>5, <3>1, <3>2, MoreAbove
    <3> QED
      BY <2>2, <3>3, Numbers
  <2>7. local'[pre] = "whole"
    <3>1. CASE Whole(local) \subseteq Whole(local')
      BY <2>2, <3>1 DEF Whole
    <3>2. ASSUME NEW a \in Backers, NEW stop, run[a].at = "remove",
                 local' = Without(local, run[a].doomed, stop)
          PROVE  local'[pre] = "whole"
      <4>1. ~Spared(local, pre, Keep)
        <5>1. Whole(local) \subseteq Pending /\ Pending \in SUBSET Ids /\ Whole(local) \in SUBSET Ids
          BY PendingIds, WholeIds DEF Pending
        <5>2. /\ Cardinality(Above(Whole(local), pre)) <= Cardinality(Above(Pending, pre))
              /\ Cardinality(Above(Whole(local), pre)) \in Nat
              /\ Cardinality(Above(Pending, pre)) \in Nat
          BY <2>2, <5>1, MoreAbove
        <5> QED
          BY <2>2, <5>2, Numbers DEF Spared
      <4>2. pre \notin run[a].doomed
        BY <3>2, <4>1 DEF LocalVictims
      <4> QED
        BY <2>2, <3>2, <4>2 DEF Without
    <3> QED
      BY <3>1, <3>2, LocalLosses
  <2> QED
    BY <2>1, <2>6, <2>7
<1> QED
    BY <1>3, <1>4, <1>5, <1>6, <1>7 DEF Next, HostNext, Backup, BackupStep

\* A restore that stopped half way finds the generation to undo it with, because it
\* was fresh when it was authorised and no new one is completed while the container
\* is down: this is what keeping more generations than may be fresh buys.
THEOREM UndoIsAlwaysPossible == Spec => []UndoIsPossible
<1> DEFINE Inv == /\ Typed /\ Restoring
                  /\ LocalVictims /\ LocalClaims /\ Undoable
<1>1. Init => Inv
  <2> SUFFICES ASSUME Init PROVE Inv
    OBVIOUS
  <2>1. index = 0 /\ restore.at = "idle" /\ \A b \in Backers : run[b].at = "idle"
    BY DEF Init, HostInit, Idle, NoRestore
  <2> QED
    BY <2>1, TypedInit, RestoringInit DEF LocalVictims, LocalClaims, Undoable
<1>2. Inv /\ [Next]_vars => Inv'
  <2> SUFFICES ASSUME Inv, [Next]_vars PROVE Inv'
    OBVIOUS
  <2>1. CASE Next
    BY <2>1, TypedStep, RestoringStep, LocalStep, UndoableStep
  <2>2. CASE UNCHANGED vars
    <3>1. UNCHANGED <<run, local, index, restore, ordered>>
      BY <2>2 DEF vars, hostVars, backupVars, timeVars, runVars, restoreVars
    <3>2. LocalVictims' /\ LocalClaims' /\ Undoable'
      BY <3>1 DEF LocalVictims, LocalClaims, Undoable, Pending, Spared, Available, Whole, Above
    <3> QED
      BY <2>2, <3>2, RestoringStutters, TypedStep
  <2> QED
    BY <2>1, <2>2
<1>3. Inv => UndoIsPossible
    BY DEF Undoable, UndoIsPossible
<1> QED
    BY <1>1, <1>2, <1>3, PTL DEF Spec
=============================================================================
