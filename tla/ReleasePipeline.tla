--------------------------- MODULE ReleasePipeline ---------------------------
(***************************************************************************)
(* One release taken into production: scripts/deploy/deploy.py, driven by  *)
(* run-authorized-release.sh, and the operator who may run Stage 05 again.  *)
(*                                                                         *)
(* The pipeline runs on the operator's machine and changes the production  *)
(* host one remote command at a time.  The host keeps living meanwhile:    *)
(* containers start, migrate, crash and are restarted by Docker, and the   *)
(* one that is ready accepts telemetry into the volume they share.  A      *)
(* command may fail, and one in Lossy may lose its connection and still    *)
(* be carried out later, when the pipeline is somewhere else.              *)
(*                                                                         *)
(* pc names the next command of the pipeline; a command that changes the   *)
(* host has an effect of its own, so that it can also be carried out late. *)
(***************************************************************************)
EXTENDS Naturals, FiniteSets

CONSTANTS
    Rows,           \* measurements that may be accepted
    Lossy,          \* commands whose connection may be lost before they end
    Migrates,       \* may the release migrate the database? a set of BOOLEANs
    MaxFaults,      \* bound: commands that fail or are lost
    MaxRollbacks    \* bound: runs of Stage 05

Containers == {"predecessor", "candidate"}
Names == {"canonical", "standby", "quarantine"}
Nobody == "nobody"

Stage03 == {"stopP", "renameP", "quiesce", "helper", "seedUnlink", "seedReplace", "fence",
            "install", "compose", "gate", "enable"}
Stage04 == {"validate", "caddyOn", "listener"}
Stage05 == {"inspect", "probe", "stopC", "quarantine", "inspectP", "unitsOff", "restore",
            "nameP", "startP", "verifyP", "units"}
Ended == {"failed", "released", "refused", "rolledback", "stuck"}

ASSUME ReleaseAssumption ==
    /\ Lossy \subseteq Stage03 \cup Stage04 \cup Stage05
    /\ Migrates \subseteq BOOLEAN
    /\ "seedUnlink" \in Lossy => "seedReplace" \in Lossy
    /\ MaxFaults \in Nat /\ MaxRollbacks \in Nat \ {0}

VARIABLES
    name,       \* the name each container has, Nobody while it does not exist
    up,         \* what each container is doing
    store,      \* the volume: rows in the database, rows in its WAL, schema, seed progress
    accepted,   \* rows a container has acknowledged
    backup,     \* the final quiesced backup: rows, and whether it was taken
    caddy,      \* is Caddy enabled and running?
    files,      \* whose system, Compose and source files are installed
    units,      \* whose systemd states are in force
    pc,         \* the pipeline's next command
    attempt,    \* which run of Stage 04 this is
    seen,       \* Stage 05: who it saw under the name it inspected, and whether it ran
    error,      \* why the last stage failed
    receipts,   \* the stage receipts written
    pending,    \* commands carried out after their connection was lost
    faults,     \* commands that have failed or been lost
    rollbacks,  \* runs of Stage 05
    plan        \* of this release: does it migrate; was the stack unit active before it?

host == <<name, up, store, backup, caddy, files, units>>
runner == <<pc, attempt, seen, error, receipts, pending, faults, rollbacks>>
vars == <<host, runner, accepted, plan>>

Running(c) == up[c] # "down"
\* docker exec works in a container that runs and is not waiting to be restarted.
Executes(c) == up[c] \in {"starting", "ready"}
Holder(n) == IF \E c \in Containers : name[c] = n
             THEN CHOOSE c \in Containers : name[c] = n ELSE Nobody
Stored == store.main \cup store.wal

TypeOK ==
    /\ name \in [Containers -> Names \cup {Nobody}]
    /\ up \in [Containers -> {"down", "restarting", "starting", "ready"}]
    /\ store \in [main : SUBSET Rows, wal : SUBSET Rows, schema : {"old", "new"},
                  seed : {"no", "half", "done"}]
    /\ accepted \subseteq Rows
    /\ backup \in [rows : SUBSET Rows, taken : BOOLEAN]
    /\ caddy \in BOOLEAN
    /\ files \in {"old", "mixed", "new"} /\ units \in {"old", "mixed", "off", "new"}
    /\ pc \in {"backup", "rehearse", "direct"} \cup Stage03 \cup Stage04 \cup Stage05 \cup Ended
    /\ attempt \in 1 .. 2
    /\ seen \in [who : Containers \cup {Nobody}, running : BOOLEAN]
    /\ error \in {"none", "fault", "lost", "state", "schema", "noexec", "notready"}
    /\ receipts \subseteq 1 .. 5
    /\ pending \subseteq Lossy
    /\ faults \in 0 .. MaxFaults /\ rollbacks \in 0 .. MaxRollbacks
    /\ plan \in [migrates : BOOLEAN, stack : BOOLEAN]

Unseen == [who |-> Nobody, running |-> FALSE]

Init ==
    /\ name = [c \in Containers |-> IF c = "predecessor" THEN "canonical" ELSE Nobody]
    /\ up = [c \in Containers |-> IF c = "predecessor" THEN "ready" ELSE "down"]
    /\ store = [main |-> {}, wal |-> {}, schema |-> "old", seed |-> "no"]
    /\ accepted = {} /\ backup = [rows |-> {}, taken |-> FALSE]
    /\ caddy = FALSE /\ files = "old" /\ units = "old"
    /\ pc = "backup" /\ attempt = 1 /\ seen = Unseen /\ error = "none"
    /\ receipts = {} /\ pending = {} /\ faults = 0 /\ rollbacks = 0
    /\ plan \in [migrates : Migrates, stack : BOOLEAN]

-----------------------------------------------------------------------------
(* What a remote command does to the host.  Each is the whole change; the    *)
(* guard is what Docker insists on.  The two containers publish the same     *)
(* port, and no command is assumed to fail because of that.                  *)

Checkpointed == [main |-> Stored, wal |-> {}, schema |-> store.schema, seed |-> store.seed]

\* docker stop: a clean exit closes the database, a kill after 30 s leaves the WAL.
Stop(c) ==
    /\ name[c] # Nobody
    /\ up' = [up EXCEPT ![c] = "down"]
    /\ store' \in IF Running(c) THEN {store, Checkpointed} ELSE {store}
    /\ UNCHANGED <<name, backup, caddy, files, units>>

Rename(c, n) ==
    /\ name[c] # Nobody /\ Holder(n) = Nobody
    /\ name' = [name EXCEPT ![c] = n]
    /\ UNCHANGED <<up, store, backup, caddy, files, units>>

Start(c) ==
    /\ up' = [up EXCEPT ![c] = IF Running(c) THEN @ ELSE "starting"]
    /\ UNCHANGED <<name, store, backup, caddy, files, units>>

\* Seeded fault: Compose replaces whoever has the name.
ComposeUpReplacing ==
    /\ name["candidate"] = Nobody
    /\ name' = [name EXCEPT !["candidate"] = "canonical"]
    /\ up' = [up EXCEPT !["candidate"] = "starting"]
    /\ UNCHANGED <<store, backup, caddy, files, units>>

\* Compose under a project of its own: it finds no container to replace, and creating
\* the candidate fails while another container has the canonical name.
ComposeUp ==
    /\ Holder("canonical") = Nobody /\ name["candidate"] = Nobody
    /\ name' = [name EXCEPT !["candidate"] = "canonical"]
    /\ up' = [up EXCEPT !["candidate"] = "starting"]
    /\ UNCHANGED <<store, backup, caddy, files, units>>

\* Seeded fault: the backup copies the database file without its WAL.
QuiesceMainOnly ==
    /\ backup' = [rows |-> store.main, taken |-> TRUE]
    /\ UNCHANGED <<name, up, store, caddy, files, units>>

\* A checkpointed copy of the stopped database.
Quiesce ==
    /\ backup' = [rows |-> Stored, taken |-> TRUE]
    /\ UNCHANGED <<name, up, store, caddy, files, units>>

\* SEED_CODE removes the WAL first and replaces the database afterwards; a WAL written
\* in between belongs to the replaced database.
SeedUnlink ==
    /\ store' = [store EXCEPT !.wal = {}, !.seed = "half"]
    /\ UNCHANGED <<name, up, backup, caddy, files, units>>
SeedReplace ==
    /\ store' = [main |-> backup.rows, wal |-> {}, schema |-> "old", seed |-> "done"]
    /\ UNCHANGED <<name, up, backup, caddy, files, units>>

Install(f) == files' = f /\ UNCHANGED <<name, up, store, backup, caddy, units>>
SetCaddy(b) == caddy' = b /\ UNCHANGED <<name, up, store, backup, files, units>>
SetUnits(u) == units' = u /\ UNCHANGED <<name, up, store, backup, caddy, files>>

\* Seeded fault: the ingress is left as it is.
UnitsOffButCaddy == units' = "off" /\ UNCHANGED <<name, up, store, backup, caddy, files>>

UnitsOff == units' = "off" /\ caddy' = FALSE /\ UNCHANGED <<name, up, store, backup, files>>

Effect(command) ==
    \/ command = "stopP"       /\ Stop("predecessor")
    \/ command = "renameP"     /\ Rename("predecessor", "standby")
    \/ command = "quiesce"     /\ Quiesce
    \/ command = "helper"      /\ Install("mixed")
    \/ command = "seedUnlink"  /\ SeedUnlink
    \/ command = "seedReplace" /\ SeedReplace
    \/ command = "fence"       /\ SetCaddy(FALSE)
    \/ command = "install"     /\ Install("new")
    \/ command = "compose"     /\ ComposeUp
    \/ command = "enable"      /\ SetUnits("new")
    \/ command = "caddyOn"     /\ SetCaddy(TRUE)
    \/ command = "stopC"       /\ Stop("candidate")
    \/ command = "quarantine"  /\ Rename("candidate", "quarantine")
    \/ command = "unitsOff"    /\ UnitsOff
    \/ command = "restore"     /\ Install("old")
    \/ command = "nameP"       /\ Rename("predecessor", "canonical")
    \/ command = "startP"      /\ Start("predecessor")
    \/ command = "units"       /\ SetUnits("old")

\* A command that fails may leave part of its work behind.
Disturbed ==
    /\ files' = IF pc \in {"helper", "install", "restore"} THEN "mixed" ELSE files
    /\ units' = IF pc \in {"enable", "unitsOff", "units"} THEN "mixed" ELSE units
    /\ caddy' \in IF pc = "unitsOff" THEN {caddy, FALSE} ELSE {caddy}
    /\ \/ UNCHANGED name
       \/ /\ pc = "compose" /\ Holder("canonical") = Nobody /\ name["candidate"] = Nobody
          /\ name' = [name EXCEPT !["candidate"] = "canonical"]
    /\ UNCHANGED <<up, store, backup>>

-----------------------------------------------------------------------------
(* How the pipeline moves on.                                                *)

Proceed(next) ==
    /\ pc' = next
    /\ UNCHANGED <<attempt, seen, error, receipts, pending, faults, rollbacks, accepted, plan>>

\* Seeded fault: one repetition of Stage 04 too many.
StageFailsRetrying(e) ==
    /\ error' = e /\ seen' = Unseen
    /\ \/ /\ pc \in Stage03 /\ pc' = "inspect"
          /\ rollbacks' = rollbacks + 1 /\ UNCHANGED attempt
       \/ /\ pc \in Stage04 /\ pc' = IF attempt < 3 THEN "validate" ELSE "direct"
          /\ attempt' = attempt + 1 /\ UNCHANGED rollbacks
       \/ pc \in Stage05 /\ pc' = "stuck" /\ UNCHANGED <<attempt, rollbacks>>
       \/ pc = "direct" /\ pc' = "refused" /\ UNCHANGED <<attempt, rollbacks>>
       \/ pc \in {"backup", "rehearse"} /\ pc' = "failed" /\ UNCHANGED <<attempt, rollbacks>>
    /\ UNCHANGED <<receipts, accepted, plan>>

\* The stage ends with an error: run-authorized-release.sh rolls Stage 03 back, repeats
\* Stage 04 once, and gives up on the others.
StageFails(e) ==
    /\ error' = e /\ seen' = Unseen
    /\ \/ /\ pc \in Stage03 /\ pc' = "inspect"
          /\ rollbacks' = rollbacks + 1 /\ UNCHANGED attempt
       \/ /\ pc \in Stage04 /\ pc' = IF attempt = 1 THEN "validate" ELSE "direct"
          /\ attempt' = 2 /\ UNCHANGED rollbacks
       \/ pc \in Stage05 /\ pc' = "stuck" /\ UNCHANGED <<attempt, rollbacks>>
       \/ pc = "direct" /\ pc' = "refused" /\ UNCHANGED <<attempt, rollbacks>>
       \/ pc \in {"backup", "rehearse"} /\ pc' = "failed" /\ UNCHANGED <<attempt, rollbacks>>
    /\ UNCHANGED <<receipts, accepted, plan>>

\* The code itself finds the host in a state it refuses.
Refuse(e) == StageFails(e) /\ UNCHANGED <<host, pending, faults>>

\* What the code inspects before and after a command: the predecessor must run to be
\* stopped, what is renamed must have stopped, and the new name must be free.
Blocked ==
    \/ pc = "stopP" /\ ~Running("predecessor")
    \/ pc = "renameP" /\ (Running("predecessor") \/ Holder("standby") # Nobody)
    \/ pc = "compose" /\ Holder("canonical") # Nobody
    \/ pc = "stopC" /\ Holder("quarantine") # Nobody
    \/ pc = "quarantine" /\ (Running("candidate") \/ Holder("quarantine") # Nobody)
    \/ pc = "nameP" /\ seen.who = Nobody /\ Holder("canonical") # Nobody
Obstructed == Blocked /\ Refuse("state")

Do(command, next) == pc = command /\ ~Blocked /\ Effect(command) /\ Proceed(next)
Skip(command, next) == pc = command /\ Proceed(next) /\ UNCHANGED host

Record(command, n, next) ==
    /\ pc = command /\ pc' = next /\ receipts' = receipts \cup {n}
    /\ UNCHANGED <<attempt, seen, error, pending, faults, rollbacks, accepted, plan>>

-----------------------------------------------------------------------------
(* Stages 01 and 02 leave production as it is: they record and rehearse.     *)

BackUp == Executes("predecessor") /\ ~caddy /\ Record("backup", 1, "rehearse") /\ UNCHANGED host
CannotBackUp == pc = "backup" /\ ~Executes("predecessor") /\ Refuse("noexec")
Rehearse == Record("rehearse", 2, "stopP") /\ UNCHANGED host

(* Stage 03. *)

StopPredecessor == Do("stopP", "renameP")
PreservePredecessor == Do("renameP", "quiesce")
QuiescedBackup == Do("quiesce", "helper")
InstallHelper == Do("helper", "seedUnlink")
BeginSeed == Do("seedUnlink", "seedReplace")
EndSeed == Do("seedReplace", "fence")
FenceIngress == Do("fence", "install")
InstallCandidate == Do("install", "compose")
PromoteCandidate == Do("compose", "gate")
\* Three probes and one inside the container.
BackendReady == up["candidate"] = "ready" /\ Skip("gate", "enable")
BackendNotReady == pc = "gate" /\ up["candidate"] # "ready" /\ Refuse("notready")
EnableUnits == Effect("enable") /\ Record("enable", 3, "validate")

(* Stage 04, run twice at most. *)

\* Stage 03 enables the stack unit without starting it, Stage 04 wants it active.
Valid == up["candidate"] = "ready" /\ units = "new" /\ plan.stack
Validate == Valid /\ Skip("validate", "caddyOn")
NotValid == pc = "validate" /\ ~Valid /\ Refuse("notready")
OpenIngress == Do("caddyOn", "listener")
\* Caddy answers the gate by itself, whatever has become of the candidate; that it does
\* not is a Fault.  Whether its unit is active is asked, but the answer stops nothing.
Release == caddy /\ Record("listener", 4, "released") /\ UNCHANGED host

\* The last word before a rollback that the pipeline starts by itself; a probe whose
\* connection fails (see Fault) refuses it as a success does.
RefuseRollback == up["candidate"] = "ready" /\ Skip("direct", "refused")
RollBackAfterProbe ==
    /\ pc = "direct" /\ up["candidate"] # "ready"
    /\ pc' = "inspect" /\ rollbacks' = rollbacks + 1
    /\ UNCHANGED <<host, attempt, seen, error, receipts, pending, faults, accepted, plan>>

(* Stage 05. *)

See(command, who, running, next) ==
    /\ pc = command /\ pc' = next /\ seen' = [who |-> who, running |-> running]
    /\ UNCHANGED <<host, attempt, error, receipts, pending, faults, rollbacks, accepted, plan>>

Inspect ==
    LET who == Holder("canonical") IN
    IF who = Nobody THEN See("inspect", Nobody, FALSE, "inspectP")
                    ELSE See("inspect", who, Running(who), "probe")

\* docker exec by name: whoever has the canonical name now.
Answers == \E c \in Containers : name[c] = "canonical" /\ Executes(c)
ProbeSchema ==
    /\ Answers /\ store.schema = "old"
    /\ Skip("probe", IF seen.who = "predecessor" THEN "inspectP" ELSE "stopC")
NoAnswer == pc = "probe" /\ ~Answers /\ Refuse("noexec")
Incompatible == pc = "probe" /\ Answers /\ store.schema # "old" /\ Refuse("schema")


\* Seeded fault: the candidate is stopped under the name the predecessor needs.
StopCandidateOnly == Do("stopC", "inspectP")

StopCandidate == Do("stopC", "quarantine")
QuarantineCandidate == Do("quarantine", "inspectP")
InspectPredecessor ==
    See("inspectP",
        IF name["predecessor"] = "canonical" THEN "predecessor" ELSE Nobody,
        Running("predecessor"), "unitsOff")

\* Seeded fault: the candidate's units keep running.
StopUnitsForgotten == Skip("unitsOff", "restore")

StopUnits == Do("unitsOff", "restore")
RestoreFiles == Do("restore", "nameP")
NamePredecessor == IF seen.who = Nobody THEN Do("nameP", "startP") ELSE Skip("nameP", "startP")
StartPredecessor == IF seen.running THEN Skip("startP", "verifyP") ELSE Do("startP", "verifyP")
Restored == name["predecessor"] = "canonical" /\ up["predecessor"] = "ready"
VerifyPredecessor == Restored /\ Skip("verifyP", "units")
NotRestored == pc = "verifyP" /\ ~Restored /\ Refuse("notready")
\* systemctl start of the stack unit runs stack-start.py: compose up, wait for readiness
\* and, failing that, stop the container.
StackStart == pc = "units" /\ plan.stack /\ ~Running("predecessor")
              /\ Start("predecessor") /\ Proceed("units")
StackStartFails ==
    /\ pc = "units" /\ plan.stack /\ Running("predecessor") /\ up["predecessor"] # "ready"
    /\ up' = [up EXCEPT !["predecessor"] = "down"] /\ units' = "mixed"
    /\ StageFails("notready")
    /\ UNCHANGED <<name, store, backup, caddy, files, pending, faults>>
RestoreUnits ==
    /\ plan.stack => up["predecessor"] = "ready"
    /\ Effect("units") /\ Record("units", 5, "rolledback")

-----------------------------------------------------------------------------
(* What goes wrong.                                                          *)

\* The command fails.
Fault ==
    /\ pc \notin Ended /\ faults < MaxFaults
    /\ faults' = faults + 1 /\ StageFails("fault") /\ Disturbed /\ UNCHANGED pending

\* The connection is lost: the stage fails, the command goes on.
Lose ==
    /\ pc \in Lossy /\ ~Blocked /\ faults < MaxFaults
    /\ faults' = faults + 1 /\ StageFails("lost") /\ pending' = pending \cup {pc}
    /\ UNCHANGED host
Straggle(command) ==
    /\ command \in pending /\ Effect(command)
    /\ pending' = (pending \ {command})
                   \cup (IF command = "seedUnlink" THEN {"seedReplace"} ELSE {})
    /\ UNCHANGED <<pc, attempt, seen, error, receipts, faults, rollbacks, accepted, plan>>

\* The operator's machine stops: the pipeline ends where it is.
Abandon ==
    /\ pc \in Stage03 \cup Stage04 \cup Stage05 \cup {"direct"} /\ faults < MaxFaults
    /\ faults' = faults + 1 /\ pc' = "stuck" /\ error' = "lost" /\ seen' = Unseen
    /\ UNCHANGED <<host, attempt, receipts, pending, rollbacks, accepted, plan>>

\* The operator runs Stage 05 by hand.
RollBack ==
    /\ pc \in Ended \ {"failed"} /\ rollbacks < MaxRollbacks
    /\ pc' = "inspect" /\ rollbacks' = rollbacks + 1 /\ error' = "none" /\ seen' = Unseen
    /\ UNCHANGED <<host, attempt, receipts, pending, faults, accepted, plan>>

-----------------------------------------------------------------------------
(* The host lives on: import of app.main migrates the database before the   *)
(* container is ready, Docker restarts what stops by itself (restart:        *)
(* unless-stopped), and what is ready accepts telemetry.                     *)

Wanted(c) == IF c = "candidate" /\ plan.migrates THEN "new" ELSE "old"
Elsewhere == <<name, backup, caddy, files, units, runner, plan>>

Migrate ==
    /\ plan.migrates /\ up["candidate"] = "starting" /\ store.schema = "old"
    /\ store' = [store EXCEPT !.schema = "new"]
    /\ UNCHANGED <<Elsewhere, up, accepted>>
BecomeReady(c) ==
    /\ up[c] = "starting" /\ store.schema = Wanted(c)
    /\ up' = [up EXCEPT ![c] = "ready"]
    /\ UNCHANGED <<Elsewhere, store, accepted>>
Crash(c) ==
    /\ up[c] \in {"starting", "ready"}
    /\ up' = [up EXCEPT ![c] = "restarting"]
    /\ UNCHANGED <<Elsewhere, store, accepted>>
Restart(c) ==
    /\ up[c] = "restarting"
    /\ up' = [up EXCEPT ![c] = "starting"]
    /\ UNCHANGED <<Elsewhere, store, accepted>>
Accept(c, r) ==
    /\ up[c] = "ready" /\ r \notin accepted
    /\ accepted' = accepted \cup {r} /\ store' = [store EXCEPT !.wal = @ \cup {r}]
    /\ UNCHANGED <<Elsewhere, up>>
Checkpoint(c) ==
    /\ up[c] = "ready" /\ store.wal # {} /\ store' = Checkpointed
    /\ UNCHANGED <<Elsewhere, up, accepted>>

Next ==
    \/ BackUp \/ CannotBackUp \/ Rehearse
    \/ StopPredecessor \/ PreservePredecessor \/ QuiescedBackup \/ InstallHelper
    \/ BeginSeed \/ EndSeed \/ FenceIngress \/ InstallCandidate \/ PromoteCandidate
    \/ BackendReady \/ BackendNotReady \/ EnableUnits
    \/ Validate \/ NotValid \/ OpenIngress \/ Release
    \/ RefuseRollback \/ RollBackAfterProbe
    \/ Inspect \/ ProbeSchema \/ NoAnswer \/ Incompatible
    \/ StopCandidate \/ QuarantineCandidate \/ InspectPredecessor \/ StopUnits \/ RestoreFiles
    \/ NamePredecessor \/ StartPredecessor \/ VerifyPredecessor \/ NotRestored
    \/ StackStart \/ StackStartFails \/ RestoreUnits
    \/ Obstructed \/ Fault \/ Lose \/ Abandon \/ RollBack
    \/ \E command \in Lossy : Straggle(command)
    \/ Migrate
    \/ \E c \in Containers : BecomeReady(c) \/ Crash(c) \/ Restart(c) \/ Checkpoint(c)
    \/ \E c \in Containers, r \in Rows : Accept(c, r)

Spec == Init /\ [][Next]_vars

-----------------------------------------------------------------------------

\* Never do predecessor and candidate run at the same time on the volume they share,
\* whatever command fails, is lost and carried out late, and however often the rollback
\* is run (verified stops, exclusive names, Compose after the rename).
OneServer == ~(Running("predecessor") /\ Running("candidate"))

\* Every measurement that was acknowledged is in the volume, unless a seed stopped after
\* removing the WAL: then what is missing is in the final backup.
\* (RECOVERY.md: application rollback never rewrites telemetry.)
RowsAreKept ==
    \/ accepted \subseteq Stored
    \/ store.seed = "half" /\ backup.taken /\ accepted \subseteq Stored \cup backup.rows

\* While the ingress is open the predecessor is stopped under its standby name and the
\* promotion has its receipt: a rollback closes the ingress before it starts anything.
IngressIsTheCandidates ==
    caddy => /\ 3 \in receipts /\ name["predecessor"] = "standby" /\ ~Running("predecessor")

\* A receipt says what is so when it is written: 03, the candidate has the name and the
\* seeded volume behind a closed ingress, and the predecessor is preserved; 04, the same
\* with the ingress open; 05, the predecessor has its name, files and units back, the
\* candidate is stopped, the ingress closed.
PromotedState ==
    /\ name["predecessor"] = "standby" /\ name["candidate"] = "canonical"
    /\ ~Running("predecessor") /\ store.seed = "done" /\ backup.taken /\ files = "new"
RolledBackState ==
    /\ name["predecessor"] = "canonical" /\ ~Running("candidate")
    /\ files = "old" /\ units = "old" /\ ~caddy
ReceiptsAreTrue == [][\A n \in receipts' \ receipts :
    /\ n = 3 => PromotedState' /\ ~caddy'
    /\ n = 4 => PromotedState' /\ caddy'
    /\ n = 5 => RolledBackState']_vars

\* A rollback that met no failing command stops for three reasons only: the schema has
\* moved on, the container to ask about it cannot execute, or the predecessor is not ready.
\* It never stops over a name or a state that an earlier stage has left behind.
StuckForAReason ==
    pc = "stuck" /\ faults = 0 => error \in {"schema", "noexec", "notready"}

\* RECOVERY.md: if a migration made the database predecessor-incompatible, the rollback
\* stops; so the predecessor never runs on a migrated database.
PredecessorOnItsSchema == Running("predecessor") => store.schema = "old"

=============================================================================
