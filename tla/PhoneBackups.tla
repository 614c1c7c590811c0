----------------------------- MODULE PhoneBackups -----------------------------
(***************************************************************************)
(* scripts/backup-phone.py beside the host's own backups: a coordinator on  *)
(* the host lets the phone snapshot its pair, pulls it, verifies and        *)
(* promotes it, has the phone's staging cleaned and publishes the receipt   *)
(* to the phone and then in the host's backup_health.json, which is the     *)
(* file backup-production.py writes too.                                    *)
(*                                                                         *)
(* Every command goes over adb with a timeout.  A coordinator that gives up *)
(* on one, or is killed, leaves it with the phone, which may still carry it *)
(* out, at any later time.                                                  *)
(***************************************************************************)
EXTENDS Backups

CONSTANT Couriers   \* coordinator processes

VARIABLES
    courier,  \* courier[c]: where it is, its generation, the pair it pulled
              \* and whether the phone's staging is known to be clean
    staging,  \* staging[r] on the phone
    vault,    \* vault[r] under the phone's off-host root on the host
    onPhone,  \* run_id of the phone's own backup_health.json, 0 for none
    late      \* commands given up on that the phone may still carry out

phoneVars == <<courier, staging, vault, onPhone, late>>
vars == <<hostVars, phoneVars>>

Home == [at |-> "idle", id |-> 0, pair |-> "none", clean |-> FALSE]
Commands == {"snapshot", "cleanup", "publish"}

Moves(c, from, to) == courier[c].at = from /\ courier' = [courier EXCEPT ![c].at = to]

\* flock: it goes with the process that holds it.
Locked == \E c \in Couriers : courier[c].at \notin {"idle", "lock"}

-----------------------------------------------------------------------------
(* What the phone does, when it is asked or later.                          *)

\* phone-backup-snapshot.py
Performs(command, r) ==
    /\ staging' = [staging EXCEPT ![r] = CASE command = "snapshot" -> "whole"
                                           [] command = "cleanup" -> "none"
                                           [] OTHER -> @]
    /\ onPhone' = IF command = "publish" THEN r ELSE onPhone

\* It may have been cut short; a receipt is renamed into place.
Fails(command, r) ==
    /\ \/ UNCHANGED staging
       \/ /\ command # "publish" /\ (command = "cleanup" => staging[r] # "none")
          /\ staging' = [staging EXCEPT ![r] = "damaged"]
    /\ UNCHANGED onPhone

CarryOut(command, r) ==
    /\ <<command, r>> \in late
    /\ late' = late \ {<<command, r>>}
    /\ Performs(command, r) \/ Fails(command, r)
    /\ UNCHANGED <<courier, vault, hostVars>>

-----------------------------------------------------------------------------
(* The coordinator, run_phone_backup.                                       *)

\* The RUN_ID is bound before the lock is asked for.
BindPhone(c, r) ==
    /\ courier[c].at = "idle"
    /\ Bind(r, "phone")
    /\ courier' = [courier EXCEPT ![c] = [Home EXCEPT !.at = "lock", !.id = r]]
    /\ UNCHANGED <<staging, vault, onPhone, late, run, local, offhost, index, health,
                   promoted, restoreVars, container, mounted>>

Acquire(c) ==
    /\ ~Locked
    /\ Moves(c, "lock", "snapshot")
    /\ UNCHANGED <<staging, vault, onPhone, late, hostVars>>

\* A command fails, and what comes after it is skipped.  The staging is not
\* looked at again after a snapshot that did not succeed.
Abandons(c) ==
    courier' = [courier EXCEPT ![c] =
        IF courier[c].at = "snapshot" THEN Home ELSE [@ EXCEPT !.at = "finally"]]

\* snapshot, cleanup and publish as the coordinator sees them: they return,
\* fail, or time out.  A cleanup that fails does not stop the sequence.
Ask(c, command, to) ==
    /\ courier[c].at = command
    /\ \/ /\ Performs(command, courier[c].id)
          /\ courier' = [courier EXCEPT ![c].at = to, ![c].clean = @ \/ command = "cleanup"]
          /\ UNCHANGED late
       \/ /\ Fails(command, courier[c].id)
          /\ IF command = "cleanup" THEN Moves(c, "cleanup", to) ELSE Abandons(c)
          /\ UNCHANGED late
       \/ /\ late' = late \cup {<<command, courier[c].id>>}
          /\ Abandons(c)
          /\ UNCHANGED <<staging, onPhone>>
    /\ UNCHANGED <<vault, hostVars>>

\* The four files, over adb exec-out; a short answer may look like success.
Pull(c) ==
    /\ courier[c].at = "pull"
    /\ \/ \E state \in {"whole", "damaged"} :
             courier' = [courier EXCEPT ![c] =
                 [@ EXCEPT !.at = "promote",
                           !.pair = IF staging[courier[c].id] = "whole" THEN state
                                    ELSE "damaged"]]
       \/ Abandons(c)
    /\ UNCHANGED <<staging, vault, onPhone, late, hostVars>>

\* Copied to <r>.partial, validated there and renamed; what was pulled is then
\* removed, which may fail too.
PromotePair(c) ==
    /\ courier[c].at = "promote"
    /\ \/ /\ courier[c].pair = "whole"
          /\ vault' = [vault EXCEPT ![courier[c].id] = "whole"]
          /\ Moves(c, "promote", "cleanup") \/ Abandons(c)
       \/ Abandons(c) /\ UNCHANGED vault
    /\ UNCHANGED <<staging, onPhone, late, hostVars>>

\* Written or not, "finally" comes next.
WriteLocalHealth(c) ==
    /\ Moves(c, "local", "finally")
    /\ health' \in {health, courier[c].id}
    /\ UNCHANGED <<staging, vault, onPhone, late, timeVars, mode, run, local, offhost, index,
                   promoted, restoreVars, container, mounted>>

\* Cleans once more if that has not succeeded, whatever comes of it.
Finally(c) ==
    /\ courier[c].at = "finally"
    /\ courier' = [courier EXCEPT ![c] = Home]
    /\ \/ UNCHANGED late /\ courier[c].clean /\ UNCHANGED <<staging, onPhone>>
       \/ UNCHANGED late /\ ~courier[c].clean /\ Performs("cleanup", courier[c].id)
       \/ UNCHANGED late /\ ~courier[c].clean /\ Fails("cleanup", courier[c].id)
       \/ /\ ~courier[c].clean
          /\ late' = late \cup {<<"cleanup", courier[c].id>>}
          /\ UNCHANGED <<staging, onPhone>>
    /\ UNCHANGED <<vault, hostVars>>

\* No lock within five seconds, or the unit's TimeoutStartSec, or a reboot.
Kill(c) ==
    /\ courier[c].at # "idle"
    /\ courier' = [courier EXCEPT ![c] = Home]
    /\ late' \in {late, late \cup ({<<courier[c].at, courier[c].id>>} \cap (Commands \X Ids))}
    /\ UNCHANGED <<staging, vault, onPhone, hostVars>>

PhoneStep ==
    \/ \E command \in Commands, r \in Ids : CarryOut(command, r)
    \/ \E c \in Couriers, r \in Ids : BindPhone(c, r)
    \/ \E c \in Couriers :
          \/ Acquire(c)
          \/ Ask(c, "snapshot", "pull") \/ Pull(c) \/ PromotePair(c)
          \/ Ask(c, "cleanup", "publish") \/ Ask(c, "publish", "local")
          \/ WriteLocalHealth(c) \/ Finally(c) \/ Kill(c)

Init ==
    /\ HostInit
    /\ courier = [c \in Couriers |-> Home]
    /\ staging = [r \in Ids |-> "none"]
    /\ vault = [r \in Ids |-> "none"]
    /\ onPhone = 0
    /\ late = {}

Next ==
    \/ HostNext /\ UNCHANGED phoneVars
    \/ PhoneStep

Spec == Init /\ [][Next]_vars

-----------------------------------------------------------------------------
TypeOK ==
    /\ HostTypeOK
    /\ courier \in [Couriers ->
          [at : {"idle", "lock", "pull", "promote", "local", "finally"} \cup Commands,
           id : 0 .. MaxRuns, pair : Verdicts, clean : BOOLEAN]]
    /\ staging \in [Ids -> Verdicts]
    /\ vault \in [Ids -> {"none", "whole"}]
    /\ onPhone \in 0 .. MaxRuns
    /\ late \subseteq Commands \X Ids

\* What a receipt says of r: that it was verified off-host and promoted.
Vouched(r) == IF mode[r] = "phone" THEN vault[r] = "whole" ELSE r \in promoted

\* The index resolves, unless as many newer generations are there as retention
\* keeps.  The receipts, the file's, the one the container sees and the
\* phone's, vouch for what was verified off-host and promoted: no stop between
\* retention, index and receipt, no second run, no command carried out late
\* and no clock leaves them naming what never was or is the only thing gone.
NamedIsKept ==
    /\ index # 0 => Available(local, index, Keep)
    /\ \A r \in {health, mounted, onPhone} \ {0} : Vouched(r)
=============================================================================
