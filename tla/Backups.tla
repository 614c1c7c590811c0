------------------------------- MODULE Backups --------------------------------
(***************************************************************************)
(* Backup and restore of the dashboard's two databases:                     *)
(* scripts/backup-production.py takes a generation from the running         *)
(* container, copies it off-host, verifies and promotes it, applies both    *)
(* retentions and only then writes index.json and backup_health.json;       *)
(* scripts/restore-production.py replaces the files of a stopped container.  *)
(*                                                                         *)
(* A generation is known by its RUN_ID, a number that doubles as the time   *)
(* it was taken at; retention orders by it.  A single generation holds the  *)
(* telemetry database, a dual one both.  Hashes, counts and the integrity   *)
(* check are one verdict: whole or not.  Every process may be killed or     *)
(* fail between any two steps; a container that one of them has started     *)
(* goes on without it.                                                      *)
(***************************************************************************)
EXTENDS Naturals, FiniteSets

CONSTANTS
    Backers,      \* backup processes: the timer's unit, a release's Stage 01
    MaxRuns,      \* bound on generations
    Shares,       \* bounds on how many of them the host and the phone take, and
                  \* on how many restores are tried beside them
    Keep,         \* local generations kept, 28
    KeepOffhost,  \* off-host generations kept, 56
    Week,         \* ISO week of a RUN_ID
    Weeks,        \* age up to which one off-host generation of an ISO week is
                  \* kept: 12 weeks, in the unit of RUN_IDs
    FreshRuns     \* --max-prebackup-age-hours, in the unit of RUN_IDs

Ids == 1 .. MaxRuns
Files == {"ispindel", "brew"}

ASSUME BackupsAssumption ==
    /\ Shares \subseteq Nat \X Nat \X Nat
    /\ MaxRuns \in Nat /\ Weeks \in Nat /\ FreshRuns \in Nat
    /\ Keep \in Nat \ {0} /\ KeepOffhost \in Nat \ {0}
    /\ FreshRuns < Keep
    /\ Week \in [Ids -> Nat]

VARIABLES
    clock,      \* the wall clock as a process last read it
    mode,       \* mode[r]: "single" or "dual", "phone" if the phone's
                \* coordinator took it, "none" while r is not taken
    run,        \* run[b]: where a backup process is, its generation, and
                \* what its retention is about to remove
    local,      \* local[r]: the directory under the backup root
    offhost,    \* offhost[r]: <r> off-host
    index,      \* latest_verified_run_id of index.json, 0 if there is none
    health,     \* run_id of backup_health.json, likewise
    container,  \* the production container is "up" or "down"
    mounted,    \* the receipt its bind mount shows, pinned when it starts
    live,       \* live[f]: the generation file f was restored from since the
                \* container was last started, 0 for none
    restore,    \* the restore script, its target and pre-restore generation
    helper,     \* helper[r]: the file that the container which restores r, and
                \* is named after it, is to replace next; "none" if there is none
    receipt,    \* the last restore receipt written since then, 0 for none
    restores,   \* how many restores were tried
    \* what happened, read by no guard
    ordered,    \* no reading of the wall clock was earlier than the one before
    promoted,   \* generations promoted off-host so far
    alone       \* no helper was left of an earlier restore when the last began

timeVars == <<clock, ordered>>
runVars == <<mode, run, local, offhost, index, health, promoted>>
backupVars == <<timeVars, runVars>>
restoreVars == <<live, restore, helper, receipt, restores, alone>>
hostVars == <<backupVars, restoreVars, container, mounted>>

\* What validate_dual_generation and validate_generation tell apart.
Verdicts == {"none", "damaged", "whole"}

Taken == {r \in Ids : mode[r] # "none"}

\* verified_generations
Whole(root) == {r \in Ids : root[r] = "whole"}

Idle == [at |-> "idle", id |-> 0, doomed |-> {}]
NoRestore == [at |-> "idle", target |-> 0, pre |-> 0]
Untouched == [f \in Files |-> 0]
NoHelper == [r \in Ids |-> "none"]

\* datetime.now.  The clock may have been set back since it was last read.
Reads(now) ==
    /\ ordered' = (ordered /\ clock <= now)
    /\ clock' = IF ordered' THEN now ELSE 0

-----------------------------------------------------------------------------
(* Retention.                                                               *)

Above(S, r) == {s \in S : s > r}

\* generations[-n:]
Newest(S, n) == {r \in S : Cardinality(Above(S, r)) < n}

\* Not before the cutoff, which falls inside a week.
Recent(r, now) == now <= r + Weeks

\* Seeded fault: the oldest of every ISO week, as if the list were not reversed.
WeeklyOldest(S, now) ==
    {r \in S : /\ Recent(r, now)
               /\ \A s \in S : Week[s] = Week[r] => s >= r}

\* Of every ISO week the newest, if it is recent; if it is not, none is.
Weekly(S, now) ==
    {r \in S : /\ Recent(r, now)
               /\ \A s \in S : Week[s] = Week[r] => s <= r}

\* Seeded fault: one generation too few is kept.
DoomedByOne == {r \in Whole(local) : Cardinality(Above(Whole(local), r)) + 1 >= Keep}

\* apply_retention of the backup root
DoomedLocally == Whole(local) \ Newest(Whole(local), Keep)

\* The retention of a dual run sees only pairs.
Counted(m) == {r \in Whole(offhost) : m = "dual" => mode[r] = "dual"}

DoomedOffhost(m, now) ==
    Counted(m) \ (Newest(Counted(m), KeepOffhost) \cup Weekly(Counted(m), now))

-----------------------------------------------------------------------------
(* backup-production.py.                                                    *)

At(b, from, to) == run[b].at = from /\ run' = [run EXCEPT ![b].at = to]

\* The bounds.
Within(modes, tries) ==
    \E most \in Shares :
        /\ Cardinality({r \in Ids : modes[r] \in {"single", "dual"}}) <= most[1]
        /\ Cardinality({r \in Ids : modes[r] = "phone"}) <= most[2]
        /\ tries <= most[3]

\* bind_run_id: the wall clock, and a suffix that makes it unique.
Bind(r, m) ==
    /\ mode[r] = "none"
    /\ mode' = [mode EXCEPT ![r] = m]
    /\ Within(mode', restores)
    /\ Reads(r)

Begin(b, r, m) ==
    /\ run[b].at = "idle"
    /\ Bind(r, m)
    /\ run' = [run EXCEPT ![b] = [Idle EXCEPT !.at = "ispindel", !.id = r]]
    /\ local' = [local EXCEPT ![r] = "damaged"]
    /\ UNCHANGED <<offhost, index, health, promoted, restoreVars, container, mounted>>

\* snapshot_container, once per database
Snapshot(b) ==
    /\ container = "up"
    /\ \/ At(b, "ispindel", IF mode[run[b].id] = "dual" THEN "brew" ELSE "manifest")
       \/ At(b, "brew", "manifest")
    /\ UNCHANGED <<timeVars, mode, local, offhost, index, health, promoted,
                   restoreVars, container, mounted>>

\* The manifests are written and the generation is validated.
Describe(b) ==
    /\ At(b, "manifest", "copy")
    /\ local' = [local EXCEPT ![run[b].id] = "whole"]
    /\ UNCHANGED <<timeVars, mode, offhost, index, health, promoted,
                   restoreVars, container, mounted>>

\* copy_local, copy_remote: to <r>.partial, where it may arrive short or damaged.
Arrives(b, copy) == copy \in {local[run[b].id], "damaged"}

\* Seeded fault: what was copied is renamed without a look at it.
PromoteUnseen(b) ==
    /\ At(b, "copy", "prune offhost")
    /\ \E copy \in {"whole", "damaged"} :
          /\ Arrives(b, copy)
          /\ offhost' = [offhost EXCEPT ![run[b].id] = copy]
    /\ promoted' = promoted \cup {run[b].id}
    /\ UNCHANGED <<timeVars, mode, local, index, health, restoreVars, container, mounted>>

\* The copy is verified where it is and renamed; one that is not whole stays
\* a .partial that nothing reads, and the run has failed.
Promote(b) ==
    /\ At(b, "copy", "prune offhost")
    /\ Arrives(b, "whole")
    /\ offhost' = [offhost EXCEPT ![run[b].id] = "whole"]
    /\ promoted' = promoted \cup {run[b].id}
    /\ UNCHANGED <<timeVars, mode, local, index, health, restoreVars, container, mounted>>

\* Retention first verifies every generation, which takes a while; meanwhile
\* other runs go on.  Only the off-host one looks at the time.
Select(b) ==
    /\ \/ \E now \in 0 .. MaxRuns :
             /\ run[b].at = "prune offhost"
             /\ Reads(now)
             /\ run' = [run EXCEPT ![b] = [@ EXCEPT !.at = "remove offhost",
                                            !.doomed = DoomedOffhost(mode[run[b].id], now)]]
       \/ /\ run[b].at = "prune"
          /\ run' = [run EXCEPT ![b] = [@ EXCEPT !.at = "remove", !.doomed = DoomedLocally]]
          /\ UNCHANGED timeVars
    /\ UNCHANGED <<mode, local, offhost, index, health, promoted,
                   restoreVars, container, mounted>>

\* Then the doomed ones go, the oldest first, up to one at which it may stop
\* half way, or must because another run has removed it.
Remove(b, to, root, stop) ==
    LET gone == {r \in run[b].doomed : r < stop}
    IN  /\ \A r \in gone : root[r] # "none"
        /\ run' = [run EXCEPT ![b] = IF gone = run[b].doomed
                                     THEN [@ EXCEPT !.at = to, !.doomed = {}] ELSE Idle]

Without(root, doomed, stop) ==
    [r \in Ids |-> IF r \notin doomed \/ r > stop \/ root[r] = "none" THEN root[r]
                   ELSE IF r < stop THEN "none" ELSE "damaged"]

RemoveOffhost(b) ==
    /\ run[b].at = "remove offhost"
    /\ \E stop \in run[b].doomed \cup {MaxRuns + 1} :
          /\ Remove(b, "prune", offhost, stop)
          /\ offhost' = Without(offhost, run[b].doomed, stop)
    /\ UNCHANGED <<timeVars, mode, local, index, health, promoted,
                   restoreVars, container, mounted>>

RemoveLocal(b) ==
    /\ run[b].at = "remove"
    /\ \E stop \in run[b].doomed \cup {MaxRuns + 1} :
          /\ Remove(b, "index", local, stop)
          /\ local' = Without(local, run[b].doomed, stop)
    /\ UNCHANGED <<timeVars, mode, offhost, index, health, promoted,
                   restoreVars, container, mounted>>

WriteIndex(b) ==
    /\ At(b, "index", "health")
    /\ index' = run[b].id
    /\ UNCHANGED <<timeVars, mode, local, offhost, health, promoted,
                   restoreVars, container, mounted>>

\* write_backup_health_if_verified
WriteHealth(b) ==
    /\ run[b].at = "health"
    /\ run' = [run EXCEPT ![b] = Idle]
    /\ health' = run[b].id
    /\ UNCHANGED <<timeVars, mode, local, offhost, index, promoted,
                   restoreVars, container, mounted>>

\* A command fails or the process is killed; nothing is cleaned up.
Quit(b) ==
    /\ run[b].at # "idle"
    /\ run' = [run EXCEPT ![b] = Idle]
    /\ UNCHANGED <<timeVars, mode, local, offhost, index, health, promoted,
                   restoreVars, container, mounted>>

Backup ==
    \/ \E b \in Backers, r \in Ids, m \in {"single", "dual"} : Begin(b, r, m)
    \/ \E b \in Backers :
          \/ Snapshot(b) \/ Describe(b) \/ Promote(b)
          \/ Select(b) \/ RemoveOffhost(b) \/ RemoveLocal(b) \/ WriteIndex(b) \/ WriteHealth(b)
          \/ Quit(b)

-----------------------------------------------------------------------------
(* restore-production.py, started by the operator.                          *)

\* Both generations are validated.
Restorable(target, pre) ==
    /\ {target, pre} \subseteq Whole(local) /\ pre # target
    /\ mode[target] = mode[pre]

\* The container is stopped, and a proof of it is at hand.
Quiescent == container = "down"

\* Not in the future and not too old.
Fresh(r, now) == r <= now /\ now <= r + FreshRuns

\* docker run: it is refused while a container of that name is there, which
\* then is one of an earlier attempt, and so the script fails.
StartHelper(target, pre) ==
    /\ restore' = [at |-> IF helper[target] = "none" THEN "helper" ELSE "failed",
                   target |-> target, pre |-> pre]
    /\ helper' = [helper EXCEPT ![target] = IF @ = "none" THEN "ispindel" ELSE @]
    /\ alone' = (helper = NoHelper)
    /\ restores' = restores + 1 /\ Within(mode, restores')

\* Seeded fault: the age of the pre-restore generation is not looked at.
AuthorizeAnyAge(target, pre) ==
    /\ restore.at \in {"idle", "failed"} /\ Quiescent
    /\ Restorable(target, pre)
    /\ \E now \in 0 .. MaxRuns : Reads(now) /\ pre <= now
    /\ StartHelper(target, pre)
    /\ UNCHANGED <<runVars, live, receipt, container, mounted>>

\* All that is demanded before the helper starts.  Helpers of other names and
\* an earlier receipt are not looked at.
Authorize(target, pre) ==
    /\ restore.at \in {"idle", "failed"} /\ Quiescent
    /\ Restorable(target, pre)
    /\ \E now \in 0 .. MaxRuns : Reads(now) /\ Fresh(pre, now)
    /\ StartHelper(target, pre)
    /\ UNCHANGED <<runVars, live, receipt, container, mounted>>

\* The script waits for the helper of its target.
Awaits(r) == restore.at = "helper" /\ restore.target = r

\* A single generation has no second file.
Following(r) == IF helper[r] = "ispindel" /\ mode[r] = "dual" THEN "brew" ELSE "none"

\* The helpers of two single generations write into one temporary file.
Spoiled(r) ==
    \E q \in Ids \ {r} : helper[q] # "none" /\ {mode[q], mode[r]} = {"single"}

\* What a helper renames over the old file.
Copied(r) == IF Spoiled(r) THEN {0, r} ELSE {r}

\* Seeded fault: the script does not wait for the second file.
ReplaceFirst(r) ==
    /\ helper[r] # "none" /\ local[r] # "none"
    /\ \E content \in Copied(r) : live' = [live EXCEPT ![helper[r]] = content]
    /\ helper' = [helper EXCEPT ![r] = Following(r)]
    /\ restore' = [restore EXCEPT !.at = IF Awaits(r) THEN "receipt" ELSE @]
    /\ UNCHANGED <<backupVars, receipt, restores, alone, container, mounted>>

\* A helper copies a file from its generation, checks it and renames it over
\* the old one: the telemetry database, then the brewing database.  It does so
\* without its script, and whatever state the container is in by then.
Replace(r) ==
    /\ helper[r] # "none" /\ local[r] # "none"
    /\ \E content \in Copied(r) : live' = [live EXCEPT ![helper[r]] = content]
    /\ helper' = [helper EXCEPT ![r] = Following(r)]
    /\ restore' = [restore EXCEPT !.at = IF Awaits(r) /\ Following(r) = "none"
                                         THEN "receipt" ELSE @]
    /\ UNCHANGED <<backupVars, receipt, restores, alone, container, mounted>>

\* A helper fails, or finds the generation gone, and its script with it.
FailHelper(r) ==
    /\ helper[r] # "none"
    /\ helper' = [helper EXCEPT ![r] = "none"]
    /\ restore' = [restore EXCEPT !.at = IF Awaits(r) THEN "failed" ELSE @]
    /\ UNCHANGED <<backupVars, live, receipt, restores, alone, container, mounted>>

\* It takes the place of an earlier one, which nothing has removed.
WriteReceipt ==
    /\ restore.at = "receipt"
    /\ receipt' = restore.target
    /\ restore' = NoRestore
    /\ UNCHANGED <<backupVars, live, helper, restores, alone, container, mounted>>

\* The script fails or is killed; its helper, if there is one, goes on.
FailRestore ==
    /\ restore.at \in {"helper", "receipt"}
    /\ restore' = [restore EXCEPT !.at = "failed"]
    /\ UNCHANGED <<backupVars, live, helper, receipt, restores, alone, container, mounted>>

StopContainer ==
    /\ container = "up"
    /\ container' = "down"
    /\ UNCHANGED <<backupVars, restoreVars, mounted>>

Starts ==
    /\ container' = "up"
    /\ mounted' = health
    /\ live' = Untouched
    /\ receipt' = 0
    /\ alone' = TRUE
    /\ restore' = NoRestore

\* The operator starts the container unless the last restore has failed; a
\* helper of an earlier one may still be there.
StartContainer ==
    /\ container = "down" /\ restore.at = "idle"
    /\ Starts
    /\ UNCHANGED <<backupVars, helper, restores>>

\* The host reboots: the processes and the helpers, which do not restart, are
\* gone, and the stack unit runs compose up whatever state the volume is in.
Boot ==
    /\ Starts
    /\ helper' = NoHelper
    /\ run' = [b \in Backers |-> Idle]
    /\ UNCHANGED <<timeVars, mode, local, offhost, index, health, promoted, restores>>

Operate ==
    \/ \E target, pre \in Ids : Authorize(target, pre)
    \/ \E r \in Ids : Replace(r) \/ FailHelper(r)
    \/ WriteReceipt \/ FailRestore
    \/ StopContainer \/ StartContainer \/ Boot

HostInit ==
    /\ clock = 0
    /\ mode = [r \in Ids |-> "none"]
    /\ run = [b \in Backers |-> Idle]
    /\ local = [r \in Ids |-> "none"]
    /\ offhost = [r \in Ids |-> "none"]
    /\ index = 0 /\ health = 0 /\ mounted = 0
    /\ container = "up"
    /\ live = Untouched
    /\ restore = NoRestore /\ helper = NoHelper
    /\ receipt = 0 /\ restores = 0
    /\ ordered = TRUE /\ alone = TRUE
    /\ promoted = {}

HostNext == Backup \/ Operate

-----------------------------------------------------------------------------
HostTypeOK ==
    /\ clock \in 0 .. MaxRuns
    /\ mode \in [Ids -> {"none", "single", "dual", "phone"}]
    /\ run \in [Backers ->
          [at : {"idle", "manifest", "copy", "prune offhost", "remove offhost",
                 "prune", "remove", "index", "health"} \cup Files,
           id : 0 .. MaxRuns, doomed : SUBSET Ids]]
    /\ local \in [Ids -> Verdicts]
    /\ offhost \in [Ids -> Verdicts]
    /\ index \in 0 .. MaxRuns /\ health \in 0 .. MaxRuns /\ mounted \in 0 .. MaxRuns
    /\ container \in {"up", "down"}
    /\ live \in [Files -> 0 .. MaxRuns]
    /\ restore \in [at : {"idle", "helper", "receipt", "failed"},
                    target : 0 .. MaxRuns, pre : 0 .. MaxRuns]
    /\ helper \in [Ids -> {"none"} \cup Files]
    /\ receipt \in 0 .. MaxRuns /\ restores \in Nat
    /\ ordered \in BOOLEAN /\ alone \in BOOLEAN
    /\ promoted \subseteq Ids

\* r is still there, or at least n newer generations are.
Available(root, r, n) ==
    root[r] = "whole" \/ Cardinality(Above(Whole(root), r)) >= n

\* docs/RECOVERY.md:119: a generation that was promoted is whole off-host until
\* as many newer ones are, and, while it is not past the cutoff itself, its ISO
\* week has one that is no older: no copy that was cut short has a final name
\* unless retention had given it up, whichever runs prune at once, wherever they
\* are stopped and however long ago they chose what to remove.
RetentionKeeps ==
    \A r \in promoted :
        /\ Available(offhost, r, KeepOffhost)
        /\ Recent(r, clock) /\ ordered =>
              \E s \in Whole(offhost) : Week[s] = Week[r] /\ s >= r

\* The last receipt names what every file of its generation was restored from,
\* although an earlier one stands all through a later restore: it is wrong only
\* while a later restore is under way or has failed, or when a helper of an
\* earlier one was left as the last restore began.
ReceiptIsHonest ==
    receipt # 0 /\ restore.at = "idle" /\ alone =>
        /\ live["ispindel"] = receipt
        /\ mode[receipt] = "dual" => live["brew"] = receipt

\* A restore that stopped half way can be undone: while the container has not
\* been started the pre-restore generation is there, whatever retention a
\* backup still in flight applies.
UndoIsPossible ==
    restore.at # "idle" /\ container = "down" /\ ordered =>
        local[restore.pre] = "whole"
=============================================================================
