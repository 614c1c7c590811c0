------------------------ MODULE ReleasePipelineProofs ------------------------
(***************************************************************************)
(* Theorems about ReleasePipeline: the state stays typed, predecessor and   *)
(* candidate never run together, no acknowledged row is lost, the ingress   *)
(* is the candidate's, receipts are true, and a rollback stops for a        *)
(* reason; for any number of faults and rollbacks and every set of commands *)
(* that may be carried out late, but for those a theorem names.             *)
(*                                                                         *)
(* Never two servers: whoever runs has the canonical name, and a name has   *)
(* one holder.  What has to be known of the commands that are still to come *)
(* is that a rename of the predecessor finds it stopped, a start finds it   *)
(* under the canonical name, and that the two are never both outstanding.   *)
(*                                                                         *)
(* The rest: while the promotion goes on nothing of Stage 03 or 05 is       *)
(* outstanding, so what its steps have established stays so; and what the   *)
(* steps of Stage 05 have seen, closed and restored stays so unless one of  *)
(* a few commands is carried out late.                                      *)
(***************************************************************************)
EXTENDS ReleasePipeline, TLAPS

Before05 == {"backup", "rehearse", "direct"} \cup Stage03 \cup Stage04

\* Stage 05 has not run while the release goes forward.
Forward == pc \in Before05 => rollbacks = 0

\* Each container knows two names, and the canonical one has one holder.
OwnNames ==
    /\ name["predecessor"] \in {"canonical", "standby"}
    /\ name["candidate"] \in {Nobody, "canonical", "quarantine"}
    /\ name["predecessor"] = "canonical" => name["candidate"] # "canonical"

\* Whoever runs has the canonical name.
ServesByName ==
    \A c \in Containers : Running(c) => name[c] = "canonical"

\* Until the predecessor is renamed it has the canonical name; a rename that is
\* outstanding finds it stopped, and the rollback cannot get past its probe.
RenameIsSafe ==
    /\ pc \in {"backup", "rehearse", "stopP", "renameP"} => name["predecessor"] = "canonical"
    /\ pc = "renameP" => ~Running("predecessor")
    /\ "renameP" \in pending =>
          /\ name["predecessor"] = "canonical" /\ ~Running("predecessor")
          /\ "startP" \notin pending
          /\ pc \in {"inspect", "probe"} \cup Ended

\* A start that is due or outstanding finds the predecessor under the canonical name.
StartIsSafe ==
    /\ pc \in {"unitsOff", "restore", "nameP"} =>
          seen.who = Nobody \/ name["predecessor"] = "canonical"
    /\ pc \in {"startP", "verifyP", "units"} => name["predecessor"] = "canonical"
    /\ "startP" \in pending =>
          name["predecessor"] = "canonical" /\ pc \notin Before05

\* A quarantine that is due or outstanding finds the candidate stopped.
QuarantineIsSafe ==
    pc = "quarantine" \/ "quarantine" \in pending =>
        name["candidate"] # Nobody /\ ~Running("candidate")

NameInv == OwnNames /\ ServesByName /\ RenameIsSafe /\ StartIsSafe /\ QuarantineIsSafe
IInv == TypeOK /\ Forward /\ NameInv

-----------------------------------------------------------------------------
(* Types.                                                                    *)

Places == {"backup", "rehearse", "direct"} \cup Stage03 \cup Stage04 \cup Stage05 \cup Ended
HostTypes ==
    /\ name \in [Containers -> Names \cup {Nobody}]
    /\ up \in [Containers -> {"down", "restarting", "starting", "ready"}]
    /\ store \in [main : SUBSET Rows, wal : SUBSET Rows, schema : {"old", "new"},
                  seed : {"no", "half", "done"}]
    /\ backup \in [rows : SUBSET Rows, taken : BOOLEAN]
    /\ caddy \in BOOLEAN
    /\ files \in {"old", "mixed", "new"} /\ units \in {"old", "mixed", "off", "new"}
RunnerTypes ==
    /\ pc \in Places /\ attempt \in 1 .. 2
    /\ seen \in [who : Containers \cup {Nobody}, running : BOOLEAN]
    /\ error \in {"none", "fault", "lost", "state", "schema", "noexec", "notready"}
    /\ receipts \subseteq 1 .. 5 /\ pending \subseteq Lossy
    /\ faults \in 0 .. MaxFaults /\ rollbacks \in 0 .. MaxRollbacks
OtherTypes == accepted \subseteq Rows /\ plan \in [migrates : BOOLEAN, stack : BOOLEAN]

LEMMA TypeParts ==
    /\ TypeOK <=> HostTypes /\ RunnerTypes /\ OtherTypes
    /\ TypeOK' <=> HostTypes' /\ RunnerTypes' /\ OtherTypes'
  BY DEF TypeOK, HostTypes, RunnerTypes, OtherTypes, Places

LEMMA SameHost == HostTypes /\ UNCHANGED host => HostTypes'
  BY DEF HostTypes, host

LEMMA HolderIsAContainer ==
  ASSUME NEW n PROVE Holder(n) \in Containers \cup {Nobody}
  BY DEF Holder

LEMMA CheckpointedType == HostTypes => Checkpointed \in
    [main : SUBSET Rows, wal : SUBSET Rows, schema : {"old", "new"}, seed : {"no", "half", "done"}]
  BY DEF HostTypes, Checkpointed, Stored

LEMMA StopTypes ==
  ASSUME HostTypes, NEW c \in Containers, Stop(c) PROVE HostTypes'
<1>1. store' \in {store, Checkpointed}
  BY DEF Stop
<1> QED
  BY <1>1, CheckpointedType DEF HostTypes, Stop

\* A command leaves the host typed, now or later.
LEMMA EffectTypes ==
  ASSUME HostTypes, NEW command, Effect(command) PROVE HostTypes'
<1>1. CASE Stop("predecessor")
  BY <1>1, StopTypes DEF Containers
<1>2. CASE Stop("candidate")
  BY <1>2, StopTypes DEF Containers
<1>3. CASE \E c \in Containers, n \in Names : Rename(c, n)
  BY <1>3 DEF HostTypes, Rename
<1>4. CASE Start("predecessor") \/ ComposeUp
  BY <1>4 DEF HostTypes, Start, ComposeUp, Running, Containers, Names
<1>5. CASE Quiesce
  BY <1>5 DEF HostTypes, Quiesce, Stored
<1>6. CASE SeedUnlink
  <2>1. store' = [main |-> store.main, wal |-> {}, schema |-> store.schema, seed |-> "half"]
    BY <1>6 DEF SeedUnlink, HostTypes
  <2> QED
    BY <1>6, <2>1 DEF HostTypes, SeedUnlink
<1>7. CASE SeedReplace
  BY <1>7 DEF HostTypes, SeedReplace
<1>8. CASE \E f \in {"old", "mixed", "new"} : Install(f)
  BY <1>8 DEF HostTypes, Install
<1>9. CASE \E b \in BOOLEAN : SetCaddy(b)
  BY <1>9 DEF HostTypes, SetCaddy
<1>10. CASE UnitsOff \/ \E u \in {"old", "new"} : SetUnits(u)
  BY <1>10 DEF HostTypes, UnitsOff, SetUnits
<1> QED
  BY <1>1, <1>2, <1>3, <1>4, <1>5, <1>6, <1>7, <1>8, <1>9, <1>10 DEF Effect, Containers, Names

LEMMA StepTypes ==
  ASSUME TypeOK, Forward, NEW next \in Places, next \in Before05 => pc \in Before05,
         Proceed(next), HostTypes'
  PROVE  TypeOK' /\ Forward'
  BY TypeParts DEF RunnerTypes, OtherTypes, Proceed, Forward

\* A stage that fails leaves the runner typed; only a stage that comes before the
\* rollback starts it, so it is the first.
LEMMA FailureTypes ==
  ASSUME TypeOK, Forward,
         NEW e \in {"none", "fault", "lost", "state", "schema", "noexec", "notready"},
         StageFails(e), HostTypes', pending' \subseteq Lossy, faults' \in 0 .. MaxFaults
  PROVE  TypeOK' /\ Forward'
<1>1. CASE pc \in Stage03
  <2>1. pc' = "inspect" /\ rollbacks' = 1 /\ attempt' = attempt
    BY <1>1, TypeParts DEF StageFails, Forward, Before05, RunnerTypes, Stage03, Stage04, Stage05
  <2> QED
    BY <2>1, TypeParts, ReleaseAssumption
    DEF StageFails, RunnerTypes, OtherTypes, Forward, Places, Before05, Stage03, Stage04,
        Stage05, Unseen
<1>2. CASE pc \in Stage04
  <2>1. pc' \in {"validate", "direct"} /\ rollbacks' = rollbacks /\ attempt' = 2
    BY <1>2 DEF StageFails, Stage03, Stage04, Stage05
  <2>2. rollbacks = 0
    BY <1>2 DEF Forward, Before05
  <2> QED
    BY <2>1, <2>2, TypeParts
    DEF StageFails, RunnerTypes, OtherTypes, Forward, Places, Stage04, Unseen
<1>3. CASE pc \notin Stage03 \cup Stage04
  <2>1. pc' \in {"stuck", "refused", "failed"} /\ rollbacks' = rollbacks /\ attempt' = attempt
    BY <1>3 DEF StageFails, Stage03, Stage04, Stage05
  <2>2. pc' \in Places /\ pc' \notin Before05
    BY <2>1 DEF Places, Ended, Before05, Stage03, Stage04
  <2> QED
    BY <2>1, <2>2, TypeParts
    DEF StageFails, RunnerTypes, OtherTypes, Forward, Unseen
<1> QED
  BY <1>1, <1>2, <1>3

LEMMA RefusalTypes ==
  ASSUME TypeOK, Forward,
         NEW e \in {"none", "fault", "lost", "state", "schema", "noexec", "notready"}, Refuse(e)
  PROVE  TypeOK' /\ Forward'
<1>1. HostTypes' /\ pending' \subseteq Lossy /\ faults' \in 0 .. MaxFaults
  BY TypeParts, SameHost DEF Refuse, RunnerTypes
<1> QED
  BY <1>1, FailureTypes DEF Refuse

LEMMA RecordTypes ==
  ASSUME TypeOK, Forward, NEW command, NEW n \in 1 .. 5, NEW next \in Places,
         next \in Before05 => command \in Before05, Record(command, n, next), HostTypes'
  PROVE  TypeOK' /\ Forward'
  BY TypeParts DEF RunnerTypes, OtherTypes, Record, Forward

LEMMA TypeStep == TypeOK /\ Forward /\ Next => TypeOK' /\ Forward'
<1> SUFFICES ASSUME TypeOK, Forward, Next PROVE TypeOK' /\ Forward'
  OBVIOUS
<1> USE DEF Places, Before05, Stage03, Stage04, Stage05, Ended
<1>0. HostTypes /\ RunnerTypes /\ OtherTypes
  BY TypeParts
<1>1. CASE BackUp
  BY <1>1, <1>0, SameHost, RecordTypes DEF BackUp
<1>2. CASE Rehearse
  BY <1>2, <1>0, SameHost, RecordTypes DEF Rehearse
<1>3. CASE StopPredecessor
  BY <1>3, <1>0, EffectTypes, StepTypes DEF StopPredecessor, Do
<1>4. CASE PreservePredecessor
  BY <1>4, <1>0, EffectTypes, StepTypes DEF PreservePredecessor, Do
<1>5. CASE QuiescedBackup
  BY <1>5, <1>0, EffectTypes, StepTypes DEF QuiescedBackup, Do
<1>6. CASE InstallHelper
  BY <1>6, <1>0, EffectTypes, StepTypes DEF InstallHelper, Do
<1>7. CASE BeginSeed
  BY <1>7, <1>0, EffectTypes, StepTypes DEF BeginSeed, Do
<1>8. CASE EndSeed
  BY <1>8, <1>0, EffectTypes, StepTypes DEF EndSeed, Do
<1>9. CASE FenceIngress
  BY <1>9, <1>0, EffectTypes, StepTypes DEF FenceIngress, Do
<1>10. CASE InstallCandidate
  BY <1>10, <1>0, EffectTypes, StepTypes DEF InstallCandidate, Do
<1>11. CASE PromoteCandidate
  BY <1>11, <1>0, EffectTypes, StepTypes DEF PromoteCandidate, Do
<1>12. CASE OpenIngress
  BY <1>12, <1>0, EffectTypes, StepTypes DEF OpenIngress, Do
<1>13. CASE StopCandidate
  BY <1>13, <1>0, EffectTypes, StepTypes DEF StopCandidate, Do
<1>14. CASE QuarantineCandidate
  BY <1>14, <1>0, EffectTypes, StepTypes DEF QuarantineCandidate, Do
<1>15. CASE StopUnits
  BY <1>15, <1>0, EffectTypes, StepTypes DEF StopUnits, Do
<1>16. CASE RestoreFiles
  BY <1>16, <1>0, EffectTypes, StepTypes DEF RestoreFiles, Do
<1>17. CASE EnableUnits
  BY <1>17, <1>0, EffectTypes, RecordTypes DEF EnableUnits
<1>18. CASE Release
  BY <1>18, <1>0, SameHost, RecordTypes DEF Release
<1>19. CASE BackendReady
  BY <1>19, <1>0, SameHost, StepTypes DEF BackendReady, Skip
<1>20. CASE Validate
  BY <1>20, <1>0, SameHost, StepTypes DEF Validate, Skip
<1>21. CASE RefuseRollback
  BY <1>21, <1>0, SameHost, StepTypes DEF RefuseRollback, Skip
<1>22. CASE ProbeSchema
  BY <1>22, <1>0, SameHost, StepTypes DEF ProbeSchema, Skip
<1>23. CASE VerifyPredecessor
  BY <1>23, <1>0, SameHost, StepTypes DEF VerifyPredecessor, Skip
<1>24. CASE CannotBackUp
  BY <1>24, RefusalTypes DEF CannotBackUp
<1>25. CASE BackendNotReady
  BY <1>25, RefusalTypes DEF BackendNotReady
<1>26. CASE NotValid
  BY <1>26, RefusalTypes DEF NotValid
<1>28. CASE NoAnswer
  BY <1>28, RefusalTypes DEF NoAnswer
<1>29. CASE Incompatible
  BY <1>29, RefusalTypes DEF Incompatible
<1>30. CASE NotRestored
  BY <1>30, RefusalTypes DEF NotRestored
<1>31. CASE Obstructed
  BY <1>31, RefusalTypes DEF Obstructed
<1>32. CASE NamePredecessor \/ StartPredecessor
  BY <1>32, <1>0, EffectTypes, SameHost, StepTypes DEF NamePredecessor, StartPredecessor, Do, Skip
<1>33. CASE RollBackAfterProbe
  BY <1>33, <1>0, SameHost, TypeParts, ReleaseAssumption
  DEF RollBackAfterProbe, RunnerTypes, OtherTypes, Forward
<1>34. CASE Inspect
  <2>1. PICK who \in Containers \cup {Nobody}, running \in BOOLEAN, next \in {"probe", "inspectP"} :
          See("inspect", who, running, next)
    BY <1>34, HolderIsAContainer DEF Inspect, Running
  <2>2. HostTypes'
    BY <1>0, <2>1, SameHost DEF See
  <2> QED
    BY <1>0, <2>1, <2>2, TypeParts DEF See, RunnerTypes, OtherTypes, Forward
<1>35. CASE InspectPredecessor
  <2>1. PICK who \in Containers \cup {Nobody}, running \in BOOLEAN :
          See("inspectP", who, running, "unitsOff")
    BY <1>35 DEF InspectPredecessor, Running, Containers
  <2>2. HostTypes'
    BY <1>0, <2>1, SameHost DEF See
  <2> QED
    BY <1>0, <2>1, <2>2, TypeParts DEF See, RunnerTypes, OtherTypes, Forward
<1>36. CASE StackStart
  <2>1. HostTypes'
    BY <1>36, <1>0 DEF StackStart, Start, HostTypes, Containers
  <2> QED
    BY <1>36, <2>1, StepTypes DEF StackStart
<1>37. CASE StackStartFails
  <2>1. HostTypes' /\ pending' \subseteq Lossy /\ faults' \in 0 .. MaxFaults
    BY <1>37, <1>0 DEF StackStartFails, HostTypes, RunnerTypes
  <2> QED
    BY <1>37, <2>1, FailureTypes DEF StackStartFails
<1>38. CASE RestoreUnits
  BY <1>38, <1>0, EffectTypes, RecordTypes DEF RestoreUnits
<1>39. CASE Fault
  <2>1. HostTypes'
    BY <1>39, <1>0 DEF Fault, Disturbed, HostTypes, Containers, Names
  <2>2. pending' \subseteq Lossy /\ faults' \in 0 .. MaxFaults
    BY <1>39, <1>0, ReleaseAssumption DEF Fault, RunnerTypes
  <2> QED
    BY <1>39, <2>1, <2>2, FailureTypes DEF Fault
<1>40. CASE Lose
  <2>1. HostTypes' /\ pending' \subseteq Lossy /\ faults' \in 0 .. MaxFaults
    BY <1>40, <1>0, SameHost, ReleaseAssumption DEF Lose, RunnerTypes
  <2> QED
    BY <1>40, <2>1, FailureTypes DEF Lose
<1>41. CASE Abandon
  BY <1>41, <1>0, SameHost, TypeParts, ReleaseAssumption
  DEF Abandon, RunnerTypes, OtherTypes, Forward, Unseen
<1>42. CASE RollBack
  BY <1>42, <1>0, SameHost, TypeParts, ReleaseAssumption
  DEF RollBack, RunnerTypes, OtherTypes, Forward, Unseen
<1>43. ASSUME NEW command \in Lossy, Straggle(command) PROVE TypeOK' /\ Forward'
  <2>1. HostTypes'
    BY <1>43, <1>0, EffectTypes DEF Straggle
  <2>2. pending' \subseteq Lossy
    BY <1>43, <1>0, ReleaseAssumption DEF Straggle, RunnerTypes
  <2> QED
    BY <1>43, <1>0, <2>1, <2>2, TypeParts DEF Straggle, RunnerTypes, OtherTypes, Forward
<1>44. CASE Migrate
  <2>1. store' = [main |-> store.main, wal |-> store.wal, schema |-> "new", seed |-> store.seed]
    BY <1>44, <1>0 DEF Migrate, HostTypes
  <2> QED
    BY <1>44, <1>0, <2>1, TypeParts
    DEF Migrate, Elsewhere, runner, HostTypes, RunnerTypes, OtherTypes, Forward
<1>45. ASSUME NEW c \in Containers, BecomeReady(c) \/ Crash(c) \/ Restart(c) \/ Checkpoint(c)
      PROVE  TypeOK' /\ Forward'
  <2>1. HostTypes'
    BY <1>45, <1>0, CheckpointedType
    DEF BecomeReady, Crash, Restart, Checkpoint, Elsewhere, HostTypes
  <2> QED
    BY <1>45, <1>0, <2>1, TypeParts
    DEF BecomeReady, Crash, Restart, Checkpoint, Elsewhere, runner, RunnerTypes, OtherTypes, Forward
<1>46. ASSUME NEW c \in Containers, NEW r \in Rows, Accept(c, r) PROVE TypeOK' /\ Forward'
  <2>1. store' = [main |-> store.main, wal |-> store.wal \cup {r}, schema |-> store.schema,
                  seed |-> store.seed]
    BY <1>46, <1>0 DEF Accept, HostTypes
  <2> QED
    BY <1>46, <1>0, <2>1, TypeParts
    DEF Accept, Elsewhere, runner, HostTypes, RunnerTypes, OtherTypes, Forward
<1> QED
  BY <1>1, <1>2, <1>3, <1>4, <1>5, <1>6, <1>7, <1>8, <1>9, <1>10, <1>11, <1>12, <1>13,
     <1>14, <1>15, <1>16, <1>17, <1>18, <1>19, <1>20, <1>21, <1>22, <1>23, <1>24, <1>25,
     <1>26, <1>28, <1>29, <1>30, <1>31, <1>32, <1>33, <1>34, <1>35, <1>36, <1>37,
     <1>38, <1>39, <1>40, <1>41, <1>42, <1>43, <1>44, <1>45, <1>46 DEF Next

LEMMA TypesAreKept == Spec => [](TypeOK /\ Forward)
<1>1. Init => TypeOK /\ Forward
  <2> SUFFICES ASSUME Init PROVE TypeOK /\ Forward
    OBVIOUS
  <2>1. HostTypes
    BY DEF Init, HostTypes, Containers, Names
  <2>2. pc = "backup" /\ rollbacks = 0 /\ "backup" \in Places
    BY DEF Init, Places
  <2>3. RunnerTypes /\ OtherTypes
    BY <2>2, ReleaseAssumption DEF Init, RunnerTypes, OtherTypes, Unseen
  <2> QED
    BY <2>1, <2>2, <2>3, TypeParts DEF Forward
<1>2. TypeOK /\ Forward /\ [Next]_vars => TypeOK' /\ Forward'
  <2>1. TypeOK /\ Forward /\ UNCHANGED vars => TypeOK' /\ Forward'
    BY DEF TypeOK, Forward, vars, host, runner
  <2> QED
    BY <2>1, TypeStep
<1> QED
  BY <1>1, <1>2, PTL DEF Spec

\* The variables keep their types whatever is lost, carried out late or run again; what is
\* needed besides is that the first rollback is the only one a release starts by itself.
THEOREM TypeCorrect == Spec => []TypeOK
  BY TypesAreKept, PTL

-----------------------------------------------------------------------------
(* Names.                                                                    *)

LEMMA FreeName ==
  ASSUME NEW n, Holder(n) = Nobody
  PROVE  name["predecessor"] # n /\ name["candidate"] # n
<1> SUFFICES ASSUME NEW c \in Containers, name[c] = n PROVE FALSE
  BY DEF Containers
<1>1. Holder(n) \in Containers
  BY DEF Holder
<1> QED
  BY <1>1 DEF Containers, Nobody

LEMMA TheHolder ==
  ASSUME NEW n, NEW c \in Containers, \A d \in Containers : name[d] = n <=> d = c
  PROVE  Holder(n) = c
  BY DEF Holder

LEMMA NameStep == IInv /\ Next => NameInv'
<1> SUFFICES ASSUME IInv, Next PROVE NameInv'
  OBVIOUS
<1> USE DEF IInv, NameInv, OwnNames, ServesByName, RenameIsSafe, StartIsSafe, QuarantineIsSafe,
            Before05, Stage03, Stage04, Stage05, Ended, Containers, Names, Nobody, Running, host
<1>0. HostTypes /\ RunnerTypes
  BY TypeParts
<1>1. CASE BackUp \/ Rehearse
  BY <1>1 DEF BackUp, Rehearse, Record
<1>2. CASE StopPredecessor
  BY <1>2, <1>0 DEF StopPredecessor, Do, Effect, Stop, Proceed, HostTypes
<1>3. CASE PreservePredecessor
  BY <1>3, <1>0, FreeName DEF PreservePredecessor, Do, Effect, Rename, Proceed, Blocked, HostTypes
<1>4. CASE QuiescedBackup
  BY <1>4 DEF QuiescedBackup, Do, Effect, Quiesce, Proceed
<1>5. CASE InstallHelper
  BY <1>5 DEF InstallHelper, Do, Effect, Install, Proceed
<1>6. CASE BeginSeed
  BY <1>6 DEF BeginSeed, Do, Effect, SeedUnlink, Proceed
<1>7. CASE EndSeed
  BY <1>7 DEF EndSeed, Do, Effect, SeedReplace, Proceed
<1>8. CASE FenceIngress
  BY <1>8 DEF FenceIngress, Do, Effect, SetCaddy, Proceed
<1>9. CASE InstallCandidate
  BY <1>9 DEF InstallCandidate, Do, Effect, Install, Proceed
<1>10. CASE OpenIngress
  BY <1>10 DEF OpenIngress, Do, Effect, SetCaddy, Proceed
<1>11. CASE StopUnits
  BY <1>11 DEF StopUnits, Do, Effect, UnitsOff, Proceed
<1>12. CASE RestoreFiles
  BY <1>12 DEF RestoreFiles, Do, Effect, Install, Proceed
<1>13. CASE PromoteCandidate
  BY <1>13, <1>0, FreeName DEF PromoteCandidate, Do, Effect, ComposeUp, Proceed, HostTypes
<1>14. CASE EnableUnits
  BY <1>14 DEF EnableUnits, Effect, SetUnits, Record
<1>15. CASE BackendReady
  BY <1>15 DEF BackendReady, Skip, Proceed
<1>16. CASE Validate
  BY <1>16 DEF Validate, Skip, Proceed
<1>17. CASE RefuseRollback
  BY <1>17 DEF RefuseRollback, Skip, Proceed
<1>18. CASE VerifyPredecessor
  BY <1>18 DEF VerifyPredecessor, Skip, Proceed
<1>19. CASE CannotBackUp
  BY <1>19 DEF CannotBackUp, Refuse, StageFails
<1>20. CASE BackendNotReady
  BY <1>20 DEF BackendNotReady, Refuse, StageFails
<1>21. CASE NotValid
  BY <1>21 DEF NotValid, Refuse, StageFails
<1>23. CASE Incompatible
  BY <1>23 DEF Incompatible, Refuse, StageFails
<1>24. CASE NoAnswer
  BY <1>24 DEF NoAnswer, Refuse, StageFails
<1>25. CASE NotRestored
  BY <1>25 DEF NotRestored, Refuse, StageFails
<1>26. CASE Obstructed
  BY <1>26 DEF Obstructed, Refuse, StageFails
<1>27. CASE Release
  BY <1>27 DEF Release, Record
<1>28. CASE RollBackAfterProbe
  BY <1>28 DEF RollBackAfterProbe
<1>29. CASE Inspect
  <2>1. ASSUME "renameP" \in pending PROVE Holder("canonical") = "predecessor"
    BY <2>1, TheHolder
  <2> QED
    BY <1>29, <2>1 DEF Inspect, See
<1>30. CASE ProbeSchema
  BY <1>30 DEF ProbeSchema, Answers, Executes, Skip, Proceed
<1>31. CASE StopCandidate
  BY <1>31, <1>0 DEF StopCandidate, Do, Effect, Stop, Proceed, HostTypes
<1>32. CASE QuarantineCandidate
  BY <1>32, <1>0, FreeName DEF QuarantineCandidate, Do, Effect, Rename, Blocked, Proceed, HostTypes
<1>33. CASE InspectPredecessor
  BY <1>33 DEF InspectPredecessor, See
<1>34. CASE NamePredecessor
  BY <1>34, <1>0, FreeName DEF NamePredecessor, Do, Skip, Effect, Rename, Proceed, HostTypes
<1>35. CASE StartPredecessor
  BY <1>35, <1>0 DEF StartPredecessor, Do, Skip, Effect, Start, Proceed, HostTypes
<1>36. CASE StackStart
  BY <1>36, <1>0 DEF StackStart, Start, Proceed, HostTypes
<1>37. CASE StackStartFails
  BY <1>37, <1>0 DEF StackStartFails, StageFails, HostTypes
<1>38. CASE RestoreUnits
  BY <1>38 DEF RestoreUnits, Effect, SetUnits, Record
<1>39. CASE Fault
  BY <1>39, <1>0, FreeName DEF Fault, StageFails, Disturbed, HostTypes
<1>40. CASE Lose
  BY <1>40, <1>0 DEF Lose, StageFails
<1>41. CASE Abandon
  BY <1>41 DEF Abandon
<1>42. CASE RollBack
  BY <1>42 DEF RollBack
<1>43. ASSUME NEW command \in Lossy, Straggle(command) PROVE NameInv'
  <2> USE <1>43, <1>0 DEF Straggle, HostTypes
  <2>1. CASE command \in {"stopP", "stopC"}
    BY <2>1 DEF Effect, Stop
  <2>2. CASE command \in {"renameP", "quarantine", "nameP"}
    BY <2>2, FreeName DEF Effect, Rename
  <2>3. CASE command = "compose"
    BY <2>3, FreeName DEF Effect, ComposeUp
  <2>4. CASE command = "startP"
    BY <2>4 DEF Effect, Start
  <2>5. CASE command \notin {"stopP", "stopC", "renameP", "quarantine", "nameP", "compose", "startP"}
    <3>1. UNCHANGED <<name, up>>
      BY <2>5 DEF Effect, Quiesce, SeedUnlink, SeedReplace, Install, SetCaddy, SetUnits, UnitsOff
    <3> QED
      BY <2>5, <3>1
  <2> QED
    BY <2>1, <2>2, <2>3, <2>4, <2>5
<1>44. CASE Migrate
  BY <1>44 DEF Migrate, Elsewhere, runner
<1>45. ASSUME NEW c \in Containers, BecomeReady(c) \/ Crash(c) \/ Restart(c) \/ Checkpoint(c)
      PROVE  NameInv'
  <2>1. \A d \in Containers : up'[d] # "down" <=> up[d] # "down"
    BY <1>45, <1>0 DEF BecomeReady, Crash, Restart, Checkpoint, HostTypes
  <2> QED
    BY <1>45, <2>1 DEF BecomeReady, Crash, Restart, Checkpoint, Elsewhere, runner
<1>46. ASSUME NEW c \in Containers, NEW r \in Rows, Accept(c, r) PROVE NameInv'
  BY <1>46 DEF Accept, Elsewhere, runner
<1> QED
  BY <1>1, <1>2, <1>3, <1>4, <1>5, <1>6, <1>7, <1>8, <1>9, <1>10, <1>11, <1>12, <1>13,
     <1>14, <1>15, <1>16, <1>17, <1>18, <1>19, <1>20, <1>21, <1>23, <1>24, <1>25,
     <1>26, <1>27, <1>28, <1>29, <1>30, <1>31, <1>32, <1>33, <1>34, <1>35, <1>36, <1>37,
     <1>38, <1>39, <1>40, <1>41, <1>42, <1>43, <1>44, <1>45, <1>46 DEF Next

LEMMA NamesAreSafe == Spec => []IInv
<1>1. Init => NameInv
  BY DEF Init, NameInv, OwnNames, ServesByName, RenameIsSafe, StartIsSafe, QuarantineIsSafe,
         Containers, Nobody, Running, Before05, Stage03, Stage04
<1>2. IInv /\ [Next]_vars => NameInv'
  <2>1. NameInv /\ UNCHANGED vars => NameInv'
    BY DEF NameInv, OwnNames, ServesByName, RenameIsSafe, StartIsSafe, QuarantineIsSafe,
           Running, vars, host, runner
  <2> QED
    BY <2>1, NameStep DEF IInv
<1> QED
  BY <1>1, <1>2, TypesAreKept, PTL DEF Spec, IInv

\* Predecessor and candidate never run at the same time on the volume they share: whoever
\* runs has the canonical name, and it has one holder.
THEOREM OneServerAtATime == Spec => []OneServer
<1>1. IInv => OneServer
  BY DEF IInv, NameInv, OwnNames, ServesByName, OneServer, Containers
<1> QED
  BY <1>1, NamesAreSafe, PTL

-----------------------------------------------------------------------------
(* The promotion, from the first command of Stage 03 to the last of Stage 04. *)

\* Where the pipeline is once a step of Stage 03 is done.
AfterRename ==
    {"quiesce", "helper", "seedUnlink", "seedReplace", "fence", "install", "compose", "gate",
     "enable", "direct"} \cup Stage04
AfterQuiesce == AfterRename \ {"quiesce"}
AfterSeed == AfterQuiesce \ {"helper", "seedUnlink", "seedReplace"}
AfterInstall == AfterSeed \ {"fence", "install"}
AfterCompose == AfterInstall \ {"compose"}
AfterEnable == AfterCompose \ {"gate", "enable"}

\* What a lost command of Stage 03 leaves outstanding is carried out after the promotion has
\* been given up; while it goes on, only Stage 04 may have left something behind.
NothingOutstanding ==
    /\ pc \in Before05 \ AfterEnable => pending = {}
    /\ pc \in AfterEnable => pending \subseteq Stage04

\* What the steps of Stage 03 have established stays so until the promotion ends.
Promotion ==
    /\ pc \in AfterRename => name["predecessor"] = "standby"
    /\ pc \in Before05 \ AfterCompose => name["candidate"] = Nobody
    /\ pc \in AfterCompose => name["candidate"] = "canonical"
    /\ pc \in AfterQuiesce => backup.taken
    /\ pc \in AfterSeed => store.seed = "done"
    /\ pc \in Before05 \ (AfterSeed \cup {"seedReplace"}) => store.seed = "no"
    /\ pc \in AfterInstall => files = "new"
    /\ pc \in Before05 \ AfterEnable => ~caddy
    /\ pc \in AfterEnable => 3 \in receipts

PromotionInv == NothingOutstanding /\ Promotion

LEMMA PromotionStep == IInv /\ PromotionInv /\ Next => PromotionInv'
<1> SUFFICES ASSUME IInv, PromotionInv, Next, pc' \in Before05 PROVE PromotionInv'
  BY DEF PromotionInv, NothingOutstanding, Promotion, AfterRename, AfterQuiesce, AfterSeed,
         AfterInstall, AfterCompose, AfterEnable, Before05, Stage03, Stage04
<1> USE DEF PromotionInv, NothingOutstanding, Promotion, AfterRename, AfterQuiesce, AfterSeed,
            AfterInstall, AfterCompose, AfterEnable, Before05, Stage03, Stage04, host
<1>0. HostTypes /\ RunnerTypes
  BY TypeParts DEF IInv
<1>1. CASE BackUp \/ Rehearse
  BY <1>1 DEF BackUp, Rehearse, Record
<1>2. CASE StopPredecessor
  <2>1. store'.seed = store.seed
    BY <1>2, <1>0 DEF StopPredecessor, Do, Effect, Stop, Checkpointed
  <2> QED
    BY <1>2, <2>1 DEF StopPredecessor, Do, Effect, Stop, Proceed
<1>3. CASE PreservePredecessor
  BY <1>3, <1>0 DEF PreservePredecessor, Do, Effect, Rename, Proceed, HostTypes, Containers
<1>4. CASE QuiescedBackup
  BY <1>4 DEF QuiescedBackup, Do, Effect, Quiesce, Proceed
<1>5. CASE InstallHelper
  BY <1>5 DEF InstallHelper, Do, Effect, Install, Proceed
<1>6. CASE BeginSeed
  BY <1>6 DEF BeginSeed, Do, Effect, SeedUnlink, Proceed
<1>7. CASE EndSeed
  BY <1>7 DEF EndSeed, Do, Effect, SeedReplace, Proceed
<1>8. CASE FenceIngress
  BY <1>8 DEF FenceIngress, Do, Effect, SetCaddy, Proceed
<1>9. CASE InstallCandidate
  BY <1>9 DEF InstallCandidate, Do, Effect, Install, Proceed
<1>10. CASE PromoteCandidate
  BY <1>10, <1>0 DEF PromoteCandidate, Do, Effect, ComposeUp, Proceed, HostTypes, Containers
<1>11. CASE BackendReady \/ Validate
  BY <1>11 DEF BackendReady, Validate, Skip, Proceed
<1>12. CASE EnableUnits
  BY <1>12 DEF EnableUnits, Effect, SetUnits, Record
<1>13. CASE OpenIngress
  BY <1>13 DEF OpenIngress, Do, Effect, SetCaddy, Proceed
<1>14. CASE NotValid
  BY <1>14 DEF NotValid, Refuse, StageFails
<1>15. CASE Fault
  BY <1>15 DEF Fault, StageFails, Disturbed, Stage05
<1>16. CASE Lose
  BY <1>16 DEF Lose, StageFails, Stage05
<1>17. CASE CannotBackUp \/ BackendNotReady \/ NoAnswer \/ Incompatible \/ NotRestored \/ Obstructed
  BY <1>17 DEF CannotBackUp, BackendNotReady, NoAnswer, Incompatible, NotRestored, Obstructed,
               Blocked, Refuse, StageFails, Stage05
<1>18. CASE Release \/ RestoreUnits
  BY <1>18 DEF Release, RestoreUnits, Record
<1>19. CASE RefuseRollback \/ ProbeSchema \/ VerifyPredecessor
  BY <1>19 DEF RefuseRollback, ProbeSchema, VerifyPredecessor, Skip, Proceed
<1>20. CASE StopCandidate \/ QuarantineCandidate \/ StopUnits \/ RestoreFiles
            \/ NamePredecessor \/ StartPredecessor
  BY <1>20 DEF StopCandidate, QuarantineCandidate, StopUnits, RestoreFiles, NamePredecessor,
               StartPredecessor, Do, Skip, Proceed
<1>21. CASE Inspect \/ InspectPredecessor
  BY <1>21 DEF Inspect, InspectPredecessor, See
<1>22. CASE StackStart \/ StackStartFails
  BY <1>22 DEF StackStart, StackStartFails, Proceed, StageFails, Stage05
<1>23. CASE RollBackAfterProbe \/ Abandon \/ RollBack
  BY <1>23 DEF RollBackAfterProbe, Abandon, RollBack
<1>24. ASSUME NEW command \in Lossy, Straggle(command) PROVE PromotionInv'
  <2>1. /\ pc \in AfterEnable /\ command \in Stage04 /\ pending' \subseteq Stage04
        /\ UNCHANGED <<pc, receipts>>
    BY <1>24 DEF Straggle
  <2>2. UNCHANGED <<name, store, backup, files>>
    BY <1>24, <2>1 DEF Straggle, Effect, SetCaddy
  <2> QED
    BY <2>1, <2>2
<1>25. CASE Migrate
  BY <1>25, <1>0 DEF Migrate, Elsewhere, runner, HostTypes
<1>26. ASSUME NEW c \in Containers, BecomeReady(c) \/ Crash(c) \/ Restart(c) \/ Checkpoint(c)
      PROVE  PromotionInv'
  BY <1>26 DEF BecomeReady, Crash, Restart, Checkpoint, Checkpointed, Elsewhere, runner
<1>27. ASSUME NEW c \in Containers, NEW r \in Rows, Accept(c, r) PROVE PromotionInv'
  BY <1>27, <1>0 DEF Accept, Elsewhere, runner, HostTypes
<1> QED
  BY <1>1, <1>2, <1>3, <1>4, <1>5, <1>6, <1>7, <1>8, <1>9, <1>10, <1>11, <1>12, <1>13,
     <1>14, <1>15, <1>16, <1>17, <1>18, <1>19, <1>20, <1>21, <1>22, <1>23, <1>24, <1>25,
     <1>26, <1>27 DEF Next

LEMMA PromotionAlways == Spec => [](IInv /\ PromotionInv)
<1>1. Init => PromotionInv
  BY DEF Init, Containers, PromotionInv, NothingOutstanding, Promotion, AfterRename,
         AfterQuiesce, AfterSeed, AfterInstall, AfterCompose, AfterEnable, Before05, Stage03,
         Stage04
<1>2. PromotionInv /\ UNCHANGED vars => PromotionInv'
  BY DEF PromotionInv, NothingOutstanding, Promotion, vars, host, runner
<1>3. IInv /\ PromotionInv /\ [Next]_vars => PromotionInv'
  BY <1>2, PromotionStep
<1> QED
  BY <1>1, <1>3, NamesAreSafe, PTL DEF Spec

\* The promotion and release receipts say what is so, whatever commands are lost and carried
\* out late: the conjuncts of ReceiptsAreTrue on 03 and 04.
PromotionReceiptsAreTrue == [][\A n \in receipts' \ receipts :
    /\ n = 3 => PromotedState' /\ ~caddy'
    /\ n = 4 => PromotedState' /\ caddy']_vars

\* Which steps write a receipt.
LEMMA ReceiptSteps ==
  ASSUME Next, NEW n \in receipts' \ receipts
  PROVE  \/ n = 1 /\ BackUp
         \/ n = 2 /\ Rehearse
         \/ n = 3 /\ EnableUnits
         \/ n = 4 /\ Release
         \/ n = 5 /\ RestoreUnits
<1>1. CASE receipts' = receipts
  BY <1>1
<1>2. CASE BackUp \/ Rehearse \/ EnableUnits \/ Release \/ RestoreUnits
  BY <1>2 DEF BackUp, Rehearse, EnableUnits, Release, RestoreUnits, Record
<1>3. CASE \/ StopPredecessor \/ PreservePredecessor \/ QuiescedBackup \/ InstallHelper
           \/ BeginSeed \/ EndSeed \/ FenceIngress \/ InstallCandidate \/ PromoteCandidate
           \/ OpenIngress \/ StopCandidate \/ QuarantineCandidate \/ StopUnits \/ RestoreFiles
           \/ NamePredecessor \/ StartPredecessor
  BY <1>1, <1>3
  DEF StopPredecessor, PreservePredecessor, QuiescedBackup, InstallHelper, BeginSeed, EndSeed,
      FenceIngress, InstallCandidate, PromoteCandidate, OpenIngress, StopCandidate,
      QuarantineCandidate, StopUnits, RestoreFiles, NamePredecessor, StartPredecessor, Do, Skip,
      Proceed
<1>4. CASE \/ BackendReady \/ Validate \/ RefuseRollback \/ ProbeSchema \/ VerifyPredecessor
           \/ StackStart \/ Inspect \/ InspectPredecessor
  BY <1>1, <1>4
  DEF BackendReady, Validate, RefuseRollback, ProbeSchema, VerifyPredecessor, StackStart,
      Inspect, InspectPredecessor, See, Skip, Proceed
<1>5. CASE \/ CannotBackUp \/ BackendNotReady \/ NotValid \/ NoAnswer
           \/ Incompatible \/ NotRestored \/ Obstructed \/ StackStartFails \/ Fault \/ Lose
  BY <1>1, <1>5
  DEF CannotBackUp, BackendNotReady, NotValid, NoAnswer, Incompatible,
      NotRestored, Obstructed, StackStartFails, Fault, Lose, Refuse, StageFails
<1>6. CASE RollBackAfterProbe \/ Abandon \/ RollBack \/ \E command \in Lossy : Straggle(command)
  BY <1>1, <1>6 DEF RollBackAfterProbe, Abandon, RollBack, Straggle
<1>7. CASE \/ Migrate
           \/ \E c \in Containers : BecomeReady(c) \/ Crash(c) \/ Restart(c) \/ Checkpoint(c)
           \/ \E c \in Containers, r \in Rows : Accept(c, r)
  BY <1>1, <1>7 DEF Migrate, BecomeReady, Crash, Restart, Checkpoint, Accept, Elsewhere, runner
<1> QED
  BY <1>2, <1>3, <1>4, <1>5, <1>6, <1>7 DEF Next

LEMMA PromotionReceiptStep ==
  ASSUME IInv, PromotionInv, Next, NEW n \in receipts' \ receipts
  PROVE  /\ n = 3 => PromotedState' /\ ~caddy'
         /\ n = 4 => PromotedState' /\ caddy'
<1> USE DEF PromotionInv, Promotion, AfterRename, AfterQuiesce, AfterSeed, AfterInstall,
            AfterCompose, AfterEnable, Before05, Stage03, Stage04
<1>1. ASSUME pc \in {"enable", "listener"}
      PROVE  PromotedState
  BY <1>1 DEF IInv, NameInv, ServesByName, PromotedState, Containers
<1>2. ASSUME n = 3 PROVE PromotedState' /\ ~caddy'
  <2>1. pc = "enable" /\ SetUnits("new")
    BY <1>2, ReceiptSteps DEF EnableUnits, Effect, Record
  <2> QED
    BY <1>1, <2>1 DEF SetUnits, PromotedState, Running
<1>3. ASSUME n = 4 PROVE PromotedState' /\ caddy'
  <2>1. pc = "listener" /\ caddy /\ UNCHANGED host
    BY <1>3, ReceiptSteps DEF Release, Record
  <2> QED
    BY <1>1, <2>1 DEF host, PromotedState, Running
<1> QED
  BY <1>2, <1>3

\* 03 and 04 are written only when the candidate has the name and the seeded volume and the
\* predecessor is preserved, with the ingress closed and open: no late command hinders it.
THEOREM PromotionReceipts == Spec => PromotionReceiptsAreTrue
<1>1. IInv /\ PromotionInv /\ [Next]_vars =>
        [\A n \in receipts' \ receipts :
           /\ n = 3 => PromotedState' /\ ~caddy'
           /\ n = 4 => PromotedState' /\ caddy']_vars
  BY PromotionReceiptStep
<1> QED
  BY <1>1, PromotionAlways, PTL DEF Spec, PromotionReceiptsAreTrue

-----------------------------------------------------------------------------
(* Why a rollback stops.                                                     *)

\* While no command has failed, the names are those that Stage 05 has seen: the container
\* it probes and stops has the canonical name, afterwards the candidate has it no more, and
\* a predecessor that is still to be named finds the name free.
SeenIsSo ==
    /\ pc \in {"probe", "stopC", "quarantine"} =>
          seen.who # Nobody /\ name[seen.who] = "canonical"
    /\ pc \in {"stopC", "quarantine"} => seen.who = "candidate"
    /\ pc \in {"inspectP", "unitsOff", "restore", "nameP"} => name["candidate"] # "canonical"
    /\ pc \in {"unitsOff", "restore", "nameP"} /\ seen.who = Nobody =>
          name["predecessor"] = "standby"

NoFaultInv == faults = 0 => pending = {} /\ SeenIsSo /\ StuckForAReason

LEMMA HolderHasTheName ==
  ASSUME NEW n, Holder(n) # Nobody
  PROVE  Holder(n) \in Containers /\ name[Holder(n)] = n
  BY DEF Holder

LEMMA NotBlocked ==
  ASSUME IInv, SeenIsSo, pc \in Stage05 PROVE ~Blocked
<1> USE DEF IInv, NameInv, OwnNames, Containers, Stage05, Nobody
<1>1. pc \in {"stopC", "quarantine"} => Holder("quarantine") = Nobody
  BY HolderHasTheName DEF SeenIsSo
<1>2. pc = "quarantine" => ~Running("candidate")
  BY DEF QuarantineIsSafe
<1>3. pc = "nameP" /\ seen.who = Nobody => Holder("canonical") = Nobody
  BY HolderHasTheName DEF SeenIsSo
<1> QED
  BY <1>1, <1>2, <1>3 DEF Blocked

LEMMA NoFaultStep == IInv /\ NoFaultInv /\ Next => NoFaultInv'
<1> SUFFICES ASSUME IInv, NoFaultInv, Next, faults' = 0 PROVE NoFaultInv'
  BY DEF NoFaultInv
<1> USE DEF NoFaultInv, StuckForAReason, Stage03, Stage04, Stage05
<1>0. HostTypes /\ RunnerTypes /\ faults \in Nat
  BY TypeParts DEF IInv, RunnerTypes
<1>1. CASE BackUp \/ Rehearse \/ EnableUnits \/ Release \/ RestoreUnits
  BY <1>1 DEF BackUp, Rehearse, EnableUnits, Release, RestoreUnits, Record, SeenIsSo
<1>2. CASE \/ StopPredecessor \/ PreservePredecessor \/ QuiescedBackup \/ InstallHelper
           \/ BeginSeed \/ EndSeed \/ FenceIngress \/ InstallCandidate \/ PromoteCandidate
           \/ OpenIngress
  BY <1>2
  DEF StopPredecessor, PreservePredecessor, QuiescedBackup, InstallHelper, BeginSeed, EndSeed,
      FenceIngress, InstallCandidate, PromoteCandidate, OpenIngress, Do, Proceed, SeenIsSo
<1>3. CASE BackendReady \/ Validate \/ RefuseRollback
  BY <1>3 DEF BackendReady, Validate, RefuseRollback, Skip, Proceed, SeenIsSo
<1>4. CASE VerifyPredecessor \/ StackStart
  BY <1>4 DEF VerifyPredecessor, StackStart, Skip, Proceed, SeenIsSo
<1>5. CASE RollBackAfterProbe \/ RollBack
  BY <1>5 DEF RollBackAfterProbe, RollBack, SeenIsSo
<1>6. CASE CannotBackUp \/ BackendNotReady \/ NotValid
  BY <1>6 DEF CannotBackUp, BackendNotReady, NotValid, Refuse, StageFails, SeenIsSo
<1>7. CASE NoAnswer \/ Incompatible \/ NotRestored
  BY <1>7 DEF NoAnswer, Incompatible, NotRestored, Refuse, StageFails, SeenIsSo
<1>8. CASE StackStartFails
  BY <1>8 DEF StackStartFails, StageFails, SeenIsSo
<1>9. CASE Obstructed
  <2>1. faults = 0 /\ pending' = {} /\ Blocked
    BY <1>9 DEF Obstructed, Refuse
  <2>2. pc \in Stage03
    BY <2>1, NotBlocked DEF Blocked
  <2> QED
    BY <1>9, <2>1, <2>2 DEF Obstructed, Refuse, StageFails, SeenIsSo
<1>10. CASE Inspect
  <2>1. Holder("canonical") # Nobody => name[Holder("canonical")] = "canonical"
    BY HolderHasTheName
  <2>2. Holder("canonical") = Nobody => name["candidate"] # "canonical"
    BY FreeName
  <2> QED
    BY <1>10, <2>1, <2>2 DEF Inspect, See, SeenIsSo, host
<1>11. CASE ProbeSchema
  BY <1>11, <1>0 DEF ProbeSchema, Skip, Proceed, SeenIsSo, host, RunnerTypes, Containers, Nobody,
     IInv, NameInv, OwnNames
<1>12. CASE StopCandidate
  BY <1>12 DEF StopCandidate, Do, Effect, Stop, Proceed, SeenIsSo
<1>13. CASE QuarantineCandidate
  BY <1>13, <1>0
  DEF QuarantineCandidate, Do, Effect, Rename, Proceed, SeenIsSo, HostTypes, Containers
<1>14. CASE InspectPredecessor
  BY <1>14 DEF InspectPredecessor, See, SeenIsSo, host, IInv, NameInv, OwnNames, Nobody
<1>15. CASE StopUnits
  BY <1>15 DEF StopUnits, Do, Effect, UnitsOff, Proceed, SeenIsSo
<1>16. CASE RestoreFiles
  BY <1>16 DEF RestoreFiles, Do, Effect, Install, Proceed, SeenIsSo
<1>17. CASE NamePredecessor \/ StartPredecessor
  BY <1>17 DEF NamePredecessor, StartPredecessor, Do, Skip, Proceed, SeenIsSo
<1>18. CASE Fault \/ Lose \/ Abandon
  BY <1>0, <1>18 DEF Fault, Lose, Abandon
<1>19. ASSUME NEW command \in Lossy, Straggle(command) PROVE NoFaultInv'
  BY <1>19 DEF Straggle
<1>20. CASE Migrate
  BY <1>20 DEF Migrate, Elsewhere, runner, SeenIsSo
<1>21. ASSUME NEW c \in Containers, BecomeReady(c) \/ Crash(c) \/ Restart(c) \/ Checkpoint(c)
      PROVE  NoFaultInv'
  BY <1>21 DEF BecomeReady, Crash, Restart, Checkpoint, Elsewhere, runner, SeenIsSo
<1>22. ASSUME NEW c \in Containers, NEW r \in Rows, Accept(c, r) PROVE NoFaultInv'
  BY <1>22 DEF Accept, Elsewhere, runner, SeenIsSo
<1> QED
  BY <1>1, <1>2, <1>3, <1>4, <1>5, <1>6, <1>7, <1>8, <1>9, <1>10, <1>11, <1>12, <1>13,
     <1>14, <1>15, <1>16, <1>17, <1>18, <1>19, <1>20, <1>21, <1>22 DEF Next

\* A rollback that met no failing command stops over the schema, over a container that cannot
\* execute or over a predecessor that is not ready, never over a name or a state that an
\* earlier stage has left behind: the names it finds are those it has seen.
THEOREM RollbacksStopForAReason == Spec => []StuckForAReason
<1>1. Init => NoFaultInv
  BY DEF Init, NoFaultInv, SeenIsSo, StuckForAReason
<1>2. NoFaultInv /\ UNCHANGED vars => NoFaultInv'
  BY DEF NoFaultInv, SeenIsSo, StuckForAReason, vars, host, runner
<1>3. IInv /\ NoFaultInv /\ [Next]_vars => NoFaultInv'
  BY <1>2, NoFaultStep
<1>4. NoFaultInv => StuckForAReason
  BY DEF NoFaultInv, StuckForAReason
<1> QED
  BY <1>1, <1>3, <1>4, NamesAreSafe, PTL DEF Spec

-----------------------------------------------------------------------------
(* What the rollback closes and restores.                                    *)

\* Once Stage 05 has stopped the units, the ingress is closed and stays so.
AfterUnitsOff == {"restore", "nameP", "startP", "verifyP", "units"}
AfterRestore == AfterUnitsOff \ {"restore"}

\* The ingress is opened by a release that has its promotion receipt and its predecessor
\* standing by; no name is on its way back to the predecessor.
IngressInv ==
    /\ caddy => 3 \in receipts /\ name["predecessor"] = "standby" /\ "nameP" \notin pending
    /\ pc \in AfterUnitsOff => ~caddy

LEMMA IngressStep ==
  ASSUME "caddyOn" \notin Lossy, IInv, PromotionInv, IngressInv, Next
  PROVE  IngressInv'
<1> USE DEF IngressInv, AfterUnitsOff, Stage03, Stage04, Stage05, Ended
<1>0. HostTypes /\ RunnerTypes
  BY TypeParts DEF IInv
<1>1. CASE BackUp \/ Rehearse \/ Release
  BY <1>1 DEF BackUp, Rehearse, Release, Record, host
<1>2. CASE EnableUnits \/ RestoreUnits
  BY <1>2 DEF EnableUnits, RestoreUnits, Effect, SetUnits, Record
<1>3. CASE OpenIngress
  <2>1. 3 \in receipts /\ name["predecessor"] = "standby" /\ "nameP" \notin pending
    BY <1>3 DEF OpenIngress, Do, PromotionInv, NothingOutstanding, Promotion, AfterEnable,
                AfterCompose, AfterInstall, AfterSeed, AfterQuiesce, AfterRename, Before05
  <2> QED
    BY <1>3, <2>1 DEF OpenIngress, Do, Effect, SetCaddy, Proceed
<1>4. CASE StopUnits
  BY <1>4 DEF StopUnits, Do, Effect, UnitsOff, Proceed
<1>5. CASE FenceIngress
  BY <1>5 DEF FenceIngress, Do, Effect, SetCaddy, Proceed
<1>6. CASE PreservePredecessor
  BY <1>6, <1>0 DEF PreservePredecessor, Do, Effect, Rename, Proceed, HostTypes, Containers
<1>7. CASE QuarantineCandidate \/ PromoteCandidate
  BY <1>7, <1>0 DEF QuarantineCandidate, PromoteCandidate, Do, Effect, Rename, ComposeUp, Proceed,
                    HostTypes, Containers
<1>8. CASE NamePredecessor \/ StartPredecessor
  BY <1>8 DEF NamePredecessor, StartPredecessor, Do, Skip, Effect, Rename, Start, Proceed, host
<1>9. CASE \/ StopPredecessor \/ QuiescedBackup \/ InstallHelper \/ BeginSeed \/ EndSeed
           \/ InstallCandidate \/ StopCandidate \/ RestoreFiles
  BY <1>9
  DEF StopPredecessor, QuiescedBackup, InstallHelper, BeginSeed, EndSeed, InstallCandidate,
      StopCandidate, RestoreFiles, Do, Effect, Stop, Quiesce, Install, SeedUnlink, SeedReplace,
      Proceed
<1>10. CASE BackendReady \/ Validate \/ RefuseRollback \/ ProbeSchema \/ VerifyPredecessor
  BY <1>10
  DEF BackendReady, Validate, RefuseRollback, ProbeSchema, VerifyPredecessor, Skip, Proceed, host
<1>11. CASE \/ CannotBackUp \/ BackendNotReady \/ NotValid \/ NoAnswer
            \/ Incompatible \/ NotRestored \/ Obstructed
  BY <1>11
  DEF CannotBackUp, BackendNotReady, NotValid, NoAnswer, Incompatible, NotRestored,
      Obstructed, Refuse, StageFails, host
<1>12. CASE Inspect \/ InspectPredecessor
  BY <1>12 DEF Inspect, InspectPredecessor, See, host
<1>13. CASE StackStart \/ StackStartFails
  BY <1>13 DEF StackStart, StackStartFails, Start, Proceed, StageFails
<1>14. CASE RollBackAfterProbe \/ Abandon \/ RollBack
  BY <1>14 DEF RollBackAfterProbe, Abandon, RollBack, host
<1>15. CASE Fault
  BY <1>15, <1>0 DEF Fault, StageFails, Disturbed, HostTypes, Containers
<1>16. CASE Lose
  BY <1>16 DEF Lose, StageFails, host
<1>17. ASSUME NEW command \in Lossy, Straggle(command) PROVE IngressInv'
  <2>1. UNCHANGED <<pc, receipts>> /\ ("nameP" \in pending' => "nameP" \in pending)
    BY <1>17 DEF Straggle
  <2>2. CASE command = "renameP"
    BY <2>1, <2>2, <1>17, <1>0 DEF Straggle, Effect, Rename, HostTypes, Containers
  <2>3. CASE command \in {"quarantine", "compose"}
    <3>1. UNCHANGED caddy /\ name'["predecessor"] = name["predecessor"]
      BY <1>17, <2>3, <1>0 DEF Straggle, Effect, Rename, ComposeUp, HostTypes, Containers
    <3> QED
      BY <2>1, <3>1
  <2>4. CASE command \in {"nameP", "unitsOff", "fence"}
    BY <2>1, <2>4, <1>17 DEF Straggle, Effect, Rename, UnitsOff, SetCaddy
  <2>5. CASE command \notin {"renameP", "quarantine", "compose", "nameP", "unitsOff", "fence",
                            "caddyOn"}
    <3>1. UNCHANGED <<name, caddy>>
      BY <1>17, <2>5
      DEF Straggle, Effect, Stop, Quiesce, Install, SeedUnlink, SeedReplace, SetUnits, Start
    <3> QED
      BY <2>1, <3>1
  <2> QED
    BY <2>2, <2>3, <2>4, <2>5
<1>18. CASE Migrate
  BY <1>18 DEF Migrate, Elsewhere, runner
<1>19. ASSUME NEW c \in Containers, BecomeReady(c) \/ Crash(c) \/ Restart(c) \/ Checkpoint(c)
      PROVE  IngressInv'
  BY <1>19 DEF BecomeReady, Crash, Restart, Checkpoint, Elsewhere, runner
<1>20. ASSUME NEW c \in Containers, NEW r \in Rows, Accept(c, r) PROVE IngressInv'
  BY <1>20 DEF Accept, Elsewhere, runner
<1> QED
  BY <1>1, <1>2, <1>3, <1>4, <1>5, <1>6, <1>7, <1>8, <1>9, <1>10, <1>11, <1>12, <1>13,
     <1>14, <1>15, <1>16, <1>17, <1>18, <1>19, <1>20 DEF Next

LEMMA IngressAlways ==
  ASSUME "caddyOn" \notin Lossy PROVE Spec => [](IInv /\ PromotionInv /\ IngressInv)
<1>1. Init => IngressInv
  BY DEF Init, IngressInv, AfterUnitsOff
<1>2. IngressInv /\ UNCHANGED vars => IngressInv'
  BY DEF IngressInv, vars, host, runner
<1>3. IInv /\ PromotionInv /\ IngressInv /\ [Next]_vars => IngressInv'
  BY <1>2, IngressStep
<1> QED
  BY <1>1, <1>3, PromotionAlways, PTL DEF Spec

\* While the ingress is open the predecessor is stopped under its standby name and the
\* promotion has its receipt, whatever is carried out late except the opening itself.
THEOREM IngressStaysTheCandidates ==
  ASSUME "caddyOn" \notin Lossy PROVE Spec => []IngressIsTheCandidates
<1>1. IInv /\ IngressInv => IngressIsTheCandidates
  BY DEF IInv, NameInv, ServesByName, IngressInv, IngressIsTheCandidates, Containers
<1> QED
  BY <1>1, IngressAlways, PTL

\* Once Stage 05 has restored the files nobody installs others.
FilesInv == pc \in AfterRestore => files = "old"

LEMMA FilesStep ==
  ASSUME {"helper", "install"} \cap Lossy = {}, IInv, FilesInv, Next
  PROVE  FilesInv'
<1> SUFFICES ASSUME pc' \in AfterRestore PROVE files' = "old"
  BY DEF FilesInv
<1> USE DEF FilesInv, AfterRestore, AfterUnitsOff, Stage03, Stage04, Stage05, Ended
<1>1. CASE BackUp \/ Rehearse \/ Release \/ EnableUnits \/ RestoreUnits
  BY <1>1 DEF BackUp, Rehearse, Release, EnableUnits, RestoreUnits, Record
<1>2. CASE RestoreFiles
  BY <1>2 DEF RestoreFiles, Do, Effect, Install, Proceed
<1>3. CASE NamePredecessor \/ StartPredecessor
  BY <1>3 DEF NamePredecessor, StartPredecessor, Do, Skip, Effect, Rename, Start, Proceed, host
<1>4. CASE \/ StopPredecessor \/ PreservePredecessor \/ QuiescedBackup \/ InstallHelper
           \/ BeginSeed \/ EndSeed \/ FenceIngress \/ InstallCandidate \/ PromoteCandidate
           \/ OpenIngress \/ StopCandidate \/ QuarantineCandidate \/ StopUnits
  BY <1>4
  DEF StopPredecessor, PreservePredecessor, QuiescedBackup, InstallHelper, BeginSeed, EndSeed,
      FenceIngress, InstallCandidate, PromoteCandidate, OpenIngress, StopCandidate,
      QuarantineCandidate, StopUnits, Do, Proceed
<1>5. CASE BackendReady \/ Validate \/ RefuseRollback \/ ProbeSchema \/ VerifyPredecessor
  BY <1>5
  DEF BackendReady, Validate, RefuseRollback, ProbeSchema, VerifyPredecessor, Skip, Proceed, host
<1>6. CASE \/ CannotBackUp \/ BackendNotReady \/ NotValid \/ NoAnswer
           \/ Incompatible \/ NotRestored \/ Obstructed \/ StackStartFails \/ Fault \/ Lose
  BY <1>6
  DEF CannotBackUp, BackendNotReady, NotValid, NoAnswer, Incompatible, NotRestored,
      Obstructed, StackStartFails, Fault, Lose, Refuse, StageFails
<1>7. CASE Inspect \/ InspectPredecessor
  BY <1>7 DEF Inspect, InspectPredecessor, See
<1>8. CASE StackStart
  BY <1>8 DEF StackStart, Start, Proceed
<1>9. CASE RollBackAfterProbe \/ Abandon \/ RollBack
  BY <1>9 DEF RollBackAfterProbe, Abandon, RollBack
<1>10. ASSUME NEW command \in Lossy, Straggle(command) PROVE files' = "old"
  <2>1. pc' = pc /\ command \notin {"helper", "install"}
    BY <1>10 DEF Straggle
  <2>2. files' \in {files, "old"}
    BY <1>10, <2>1
    DEF Straggle, Effect, Stop, Rename, Quiesce, SeedUnlink, SeedReplace, SetCaddy, ComposeUp,
        SetUnits, UnitsOff, Install, Start
  <2> QED
    BY <2>1, <2>2
<1>11. CASE \/ Migrate
            \/ \E c \in Containers : BecomeReady(c) \/ Crash(c) \/ Restart(c) \/ Checkpoint(c)
            \/ \E c \in Containers, r \in Rows : Accept(c, r)
  BY <1>11 DEF Migrate, BecomeReady, Crash, Restart, Checkpoint, Accept, Elsewhere, runner
<1> QED
  BY <1>1, <1>2, <1>3, <1>4, <1>5, <1>6, <1>7, <1>8, <1>9, <1>10, <1>11 DEF Next

LEMMA RollbackReceiptStep ==
  ASSUME IInv, IngressInv, FilesInv, RestoreUnits
  PROVE  RolledBackState'
<1>1. pc = "units" /\ SetUnits("old")
  BY DEF RestoreUnits, Effect, Record
<1>2. name["predecessor"] = "canonical" /\ ~Running("candidate")
  BY <1>1 DEF IInv, NameInv, OwnNames, ServesByName, StartIsSafe, Containers
<1>3. files = "old" /\ ~caddy
  BY <1>1 DEF IngressInv, FilesInv, AfterUnitsOff, AfterRestore
<1> QED
  BY <1>1, <1>2, <1>3 DEF SetUnits, RolledBackState, Running

\* Every receipt says what is so when it is written.  The one of a rollback needs that no
\* installation and no opening of the ingress is still to be carried out.
THEOREM ReceiptsSayWhatIsSo ==
  ASSUME {"helper", "install", "caddyOn"} \cap Lossy = {} PROVE Spec => ReceiptsAreTrue
<1>1. Init => FilesInv
  BY DEF Init, FilesInv, AfterRestore, AfterUnitsOff
<1>2. FilesInv /\ UNCHANGED vars => FilesInv'
  BY DEF FilesInv, vars, host, runner
<1>3. IInv /\ FilesInv /\ [Next]_vars => FilesInv'
  BY <1>2, FilesStep
<1>4. IInv /\ PromotionInv /\ IngressInv /\ FilesInv /\ [Next]_vars =>
        [\A n \in receipts' \ receipts :
           /\ n = 3 => PromotedState' /\ ~caddy'
           /\ n = 4 => PromotedState' /\ caddy'
           /\ n = 5 => RolledBackState']_vars
  BY PromotionReceiptStep, ReceiptSteps, RollbackReceiptStep
<1>5. Spec => [](IInv /\ PromotionInv /\ IngressInv)
  BY IngressAlways
<1> QED
  BY <1>1, <1>3, <1>4, <1>5, PTL DEF Spec, ReceiptsAreTrue

-----------------------------------------------------------------------------
(* Rows.                                                                     *)

\* What was acknowledged is stored; between the two steps of the seed, in the volume or in
\* the backup.  Until the seed ends the backup alone has it all, for nobody serves; and a
\* backup that is carried out late copies a volume that no seed has touched.
RowsInv ==
    /\ RowsAreKept
    /\ pc \in AfterQuiesce \ AfterSeed => accepted \subseteq backup.rows
    /\ "quiesce" \in pending => store.seed = "no"

LEMMA StopKeepsRows ==
  ASSUME HostTypes, NEW c, Stop(c)
  PROVE  Stored' = Stored /\ store'.seed = store.seed /\ UNCHANGED backup
  BY DEF HostTypes, Stop, Checkpointed, Stored

LEMMA RowsSameVolume ==
  ASSUME RowsInv, Stored' = Stored, store'.seed = store.seed, UNCHANGED <<accepted, backup>>,
         pc' \in AfterQuiesce \ AfterSeed => pc \in AfterQuiesce \ AfterSeed,
         "quiesce" \in pending' => "quiesce" \in pending
  PROVE  RowsInv'
  BY DEF RowsInv, RowsAreKept

\* Between the backup and the end of the seed nobody runs.
LEMMA NobodyServes ==
  ASSUME IInv, PromotionInv, pc \in AfterQuiesce \ AfterSeed, NEW c \in Containers
  PROVE  up[c] = "down"
<1>1. name["predecessor"] = "standby" /\ name["candidate"] = Nobody
  BY DEF PromotionInv, Promotion, AfterSeed, AfterQuiesce, AfterRename, AfterCompose, AfterInstall,
         Before05, Stage03, Stage04
<1> QED
  BY <1>1 DEF IInv, NameInv, ServesByName, Running, Nobody, Containers

LEMMA RowsStep ==
  ASSUME "seedReplace" \notin Lossy, IInv, PromotionInv, RowsInv, Next
  PROVE  RowsInv'
<1> USE DEF AfterRename, AfterQuiesce, AfterSeed, Stage03, Stage04, Stage05, Ended
<1>0. HostTypes /\ RunnerTypes /\ "seedUnlink" \notin Lossy
  BY TypeParts, ReleaseAssumption DEF IInv
<1>s. UNCHANGED host => Stored' = Stored /\ UNCHANGED <<store, backup>>
  BY DEF host, Stored
<1>1. CASE BackUp \/ Rehearse \/ Release
  BY <1>1, <1>s, RowsSameVolume DEF BackUp, Rehearse, Release, Record
<1>2. CASE EnableUnits \/ RestoreUnits
  BY <1>2, RowsSameVolume DEF EnableUnits, RestoreUnits, Effect, SetUnits, Record, Stored
<1>3. CASE StopPredecessor \/ StopCandidate
  BY <1>3, <1>0, StopKeepsRows, RowsSameVolume
  DEF StopPredecessor, StopCandidate, Do, Effect, Proceed
<1>4. CASE QuiescedBackup
  <2>1. accepted \subseteq Stored /\ "quiesce" \notin pending
    BY <1>4 DEF QuiescedBackup, Do, PromotionInv, Promotion, NothingOutstanding, RowsInv,
                RowsAreKept, Before05, AfterEnable, AfterCompose, AfterInstall
  <2> QED
    BY <1>4, <2>1 DEF QuiescedBackup, Do, Effect, Quiesce, Proceed, RowsInv, RowsAreKept, Stored
<1>5. CASE BeginSeed
  <2>1. accepted \subseteq backup.rows /\ backup.taken /\ "quiesce" \notin pending
    BY <1>5 DEF BeginSeed, Do, PromotionInv, Promotion, NothingOutstanding, RowsInv,
                Before05, AfterEnable, AfterCompose, AfterInstall
  <2>2. store'.seed = "half" /\ UNCHANGED <<accepted, backup, pending>> /\ pc' = "seedReplace"
    BY <1>5, <1>0 DEF BeginSeed, Do, Effect, SeedUnlink, Proceed, HostTypes
  <2> QED
    BY <2>1, <2>2 DEF RowsInv, RowsAreKept
<1>6. CASE EndSeed
  <2>1. accepted \subseteq backup.rows /\ "quiesce" \notin pending
    BY <1>6 DEF EndSeed, Do, PromotionInv, NothingOutstanding, RowsInv,
                Before05, AfterEnable, AfterCompose, AfterInstall
  <2> QED
    BY <1>6, <2>1 DEF EndSeed, Do, Effect, SeedReplace, Proceed, RowsInv, RowsAreKept, Stored
<1>7. CASE \/ PreservePredecessor \/ InstallHelper \/ FenceIngress \/ InstallCandidate
           \/ PromoteCandidate \/ OpenIngress \/ QuarantineCandidate \/ StopUnits \/ RestoreFiles
  BY <1>7, RowsSameVolume
  DEF PreservePredecessor, InstallHelper, FenceIngress, InstallCandidate, PromoteCandidate,
      OpenIngress, QuarantineCandidate, StopUnits, RestoreFiles, Do, Effect, Rename, Install,
      SetCaddy, ComposeUp, UnitsOff, Proceed, Stored
<1>8. CASE NamePredecessor \/ StartPredecessor
  BY <1>8, <1>s, RowsSameVolume
  DEF NamePredecessor, StartPredecessor, Do, Skip, Effect, Rename, Start, Proceed, Stored
<1>9. CASE BackendReady \/ Validate \/ RefuseRollback \/ ProbeSchema \/ VerifyPredecessor
  BY <1>9, <1>s, RowsSameVolume
  DEF BackendReady, Validate, RefuseRollback, ProbeSchema, VerifyPredecessor, Skip, Proceed
<1>10. CASE \/ CannotBackUp \/ BackendNotReady \/ NotValid \/ NoAnswer
            \/ Incompatible \/ NotRestored \/ Obstructed
  BY <1>10, <1>s, RowsSameVolume
  DEF CannotBackUp, BackendNotReady, NotValid, NoAnswer, Incompatible, NotRestored,
      Obstructed, Refuse, StageFails
<1>11. CASE Inspect \/ InspectPredecessor
  BY <1>11, <1>s, RowsSameVolume DEF Inspect, InspectPredecessor, See
<1>12. CASE StackStart
  BY <1>12, RowsSameVolume DEF StackStart, Start, Proceed, Stored
<1>13. CASE StackStartFails
  BY <1>13, RowsSameVolume DEF StackStartFails, StageFails, Stored
<1>14. CASE RollBackAfterProbe \/ Abandon \/ RollBack
  BY <1>14, <1>s, RowsSameVolume DEF RollBackAfterProbe, Abandon, RollBack
<1>15. CASE Fault
  BY <1>15, RowsSameVolume DEF Fault, StageFails, Disturbed, Stored
<1>16. CASE Lose
  <2>1. pc = "quiesce" => store.seed = "no"
    BY DEF PromotionInv, Promotion, Before05
  <2>2. /\ UNCHANGED <<host, accepted>> /\ pending' = pending \cup {pc}
        /\ pc' \notin AfterQuiesce \ AfterSeed
    BY <1>16 DEF Lose, StageFails
  <2> QED
    BY <2>1, <2>2, <1>s DEF RowsInv, RowsAreKept
<1>17. ASSUME NEW command \in Lossy, Straggle(command) PROVE RowsInv'
  <2>1. /\ command \notin {"seedUnlink", "seedReplace"} /\ command \in pending
        /\ ("quiesce" \in pending' => "quiesce" \in pending) /\ UNCHANGED <<pc, accepted>>
    BY <1>17, <1>0 DEF Straggle
  <2>2. CASE command \in {"stopP", "stopC"}
    BY <1>17, <1>0, <2>1, <2>2, StopKeepsRows, RowsSameVolume DEF Straggle, Effect
  <2>3. CASE command = "quiesce"
    <3>1. store.seed = "no" /\ accepted \subseteq Stored /\ pc \notin AfterQuiesce \ AfterSeed
      BY <2>1, <2>3 DEF RowsInv, RowsAreKept, PromotionInv, NothingOutstanding, Before05,
                        AfterEnable, AfterCompose, AfterInstall
    <3>2. UNCHANGED store
      BY <1>17, <2>3 DEF Straggle, Effect, Quiesce
    <3> QED
      BY <2>1, <3>1, <3>2 DEF RowsInv, RowsAreKept, Stored
  <2>4. CASE command \notin {"stopP", "stopC", "quiesce"}
    <3>1. UNCHANGED <<store, backup>>
      BY <1>17, <2>1, <2>4
      DEF Straggle, Effect, Rename, Install, SetCaddy, ComposeUp, SetUnits, UnitsOff, Start
    <3> QED
      BY <2>1, <3>1, RowsSameVolume DEF Stored
  <2> QED
    BY <2>2, <2>3, <2>4
<1>18. CASE Migrate
  <2>1. Stored' = Stored /\ store'.seed = store.seed
    BY <1>18, <1>0 DEF Migrate, HostTypes, Stored
  <2> QED
    BY <1>18, <2>1, RowsSameVolume DEF Migrate, Elsewhere, runner
<1>19. ASSUME NEW c \in Containers, BecomeReady(c) \/ Crash(c) \/ Restart(c) \/ Checkpoint(c)
      PROVE  RowsInv'
  <2>1. Stored' = Stored /\ store'.seed = store.seed
    BY <1>19 DEF BecomeReady, Crash, Restart, Checkpoint, Checkpointed, Stored
  <2> QED
    BY <1>19, <2>1, RowsSameVolume DEF BecomeReady, Crash, Restart, Checkpoint, Elsewhere, runner
<1>20. ASSUME NEW c \in Containers, NEW r \in Rows, Accept(c, r) PROVE RowsInv'
  <2>1. Stored' = Stored \cup {r} /\ store'.seed = store.seed
    BY <1>20, <1>0 DEF Accept, HostTypes, Stored
  <2>2. pc \notin AfterQuiesce \ AfterSeed
    BY <1>20, NobodyServes DEF Accept
  <2> QED
    BY <1>20, <2>1, <2>2 DEF Accept, Elsewhere, runner, RowsInv, RowsAreKept
<1> QED
  BY <1>1, <1>2, <1>3, <1>4, <1>5, <1>6, <1>7, <1>8, <1>9, <1>10, <1>11, <1>12, <1>13,
     <1>14, <1>15, <1>16, <1>17, <1>18, <1>19, <1>20 DEF Next

\* No acknowledged measurement is lost, whatever fails and whatever is carried out late except
\* the seed: until the seed ends the backup has every row, and no other command touches them.
THEOREM AcknowledgedRowsAreKept ==
  ASSUME "seedReplace" \notin Lossy PROVE Spec => []RowsAreKept
<1>1. Init => RowsInv
  BY DEF Init, RowsInv, RowsAreKept, Stored, AfterSeed, AfterQuiesce, AfterRename, Stage04
<1>2. RowsInv /\ UNCHANGED vars => RowsInv'
  BY DEF RowsInv, RowsAreKept, Stored, vars, host, runner
<1>3. IInv /\ PromotionInv /\ RowsInv /\ [Next]_vars => RowsInv'
  BY <1>2, RowsStep
<1>4. RowsInv => RowsAreKept
  BY DEF RowsInv
<1> QED
  BY <1>1, <1>3, <1>4, PromotionAlways, PTL DEF Spec

=============================================================================
