# Brewing Central in TLA+

A verification development beside the code of Brewing Central: TLA+ modules of
its stateful parts, the TLC configurations that check them on small instances,
and theorems about them that TLAPS checks for every instance. Line numbers name
the files under `src/`; `PROJECT.json` maps every definition to its lines.

## The system

One uvicorn process on a phone (or in a container) serves an iSpindel dashboard
and a brewing workspace. It owns two SQLite files in WAL mode: telemetry
(`ispindel.db`) and brewing (`brew.db`). Around it: a camera observer process,
shell supervision loops on the phone, backup and restore scripts, a staged
deployment tool on a host, and a browser application.

| Component | Source | State | Operations | Talks to |
|---|---|---|---|---|
| Assistant job queue | `app/assistant_pipeline.py` 1664-2181, `app/assistant.py` 1615-1883, 1985-2035 | `assistant_jobs`, `assistant_job_stages`, `assistant_exchanges`; in memory a bounded queue and one worker thread | submit, claim, run, finish, wait, mark orphans, start, stop | router threads call submit and chat; the worker calls the handler; the lifespan starts and stops it |
| Assistant handler | `app/assistant.py` 1286-1817 | stage rows | prompts, model calls, the full audit's fan-out | worker, research store, broker |
| Proposals | `app/assistant.py` 1839-1904, `assistant_pipeline.py` 2041-2068 | `approved_at`, rewrite lineage | approve, rewrite, re-audit | browser, brewing store |
| Research store | `app/assistant.py` 184-579 | documents, their versions, evidence links | save, search, link, review | the worker saves and links, operators review |
| Recipes | `app/brewing.py` 1131-1556 | `recipes` and four child tables | create, update under an expected revision, read | browser; brews copy a recipe |
| Brews and events | `app/brewing.py` 1603-1887 | `brew_runs`, `brew_events` | begin, add event, stop | browser, camera observer, assistant drafts |
| Archive | `app/brewing.py` 1984-2328 | evidence bundles, annotations, lineage | freeze, annotate, fork | brews, recipes |
| Scheduled-addition states | `app/brewing.py` 474-550 | none | derive states from snapshot, events and clock | brew views |
| Operating intent, water references | `app/brewing.py` 1725-1756, 1889-1922 | one row per brew | set, record | telemetry readings |
| Telemetry ingest | `app/main.py` 1135-1400, 1693-1913 | `samples`, `devices` | ingest a measurement | sensors that retry |
| Device settings, calibration | `app/main.py` 1602-1689, 1917-1985 | `devices` columns, `calibrations`, the active pointer | patch, set, activate | ingest writes the same rows |
| Migrations | `app/main.py` 284-874, `app/brewing.py` 581-1128 | telemetry: the migration ledger and `user_version`; brewing: the row of `brew_schema` and `user_version` | upgrade at start-up | restarts; every request waits for them |
| Ingest authentication, rate limit | `app/security.py` | token buckets | authenticate, spend | ingest |
| Camera observer | `app/camera_observer.py` | observation state | observe, post events | brews |
| Backup and restore | `scripts/backup-production.py`, `backup_common.py`, `restore-production.py` | generations in the backup root and off-host, `index.json`, `backup_health.json`, the restore receipt | snapshot, copy, verify, promote, prune, index; restore | the running container, a second host, operators |
| Phone backup | `scripts/backup-phone.py`, `ops/android/phone-backup-snapshot.py` | staging on the phone, an off-host root on the host, a receipt on each | snapshot, pull, promote, clean, publish | the phone over adb; writes the host's `backup_health.json` too |
| Release pipeline | `scripts/deploy/deploy.py`, `run-authorized-release.sh`, `ispindel-root-helper` | two containers and their names, the data volume, the final backup, installed files, systemd units, the ingress, stage receipts | back up, rehearse, promote, validate and open, roll back | operators; Docker and systemd on the host; the server's start-up migration |
| Boot reconciliation | `scripts/stack-start.py` | none | compose up, wait, stop what fails | systemd; the release pipeline starts its unit |
| Phone control plane | `ops/android/` | pid files, locks, evidence files | start, stop, supervise, dispatch | the process it supervises |
| Alerts and heartbeat | `scripts/poll-alert.py`, `write-heartbeat.py` | state files | poll, alert, recover | timers |
| Browser workspace | `app/static/*.js` | drafts, pollers, caches | edit, save, poll | the HTTP API |

What makes it hard: several router threads run over one database with short
transactions and with state read before the transaction that uses it; the job
queue lives in memory and its rows on disk; a process may be killed between any
two transactions; clients lose answers and call again; and records made at
different times by different calls have to agree (stages with jobs, snapshots
with recipes, evidence with events, annotations with what their author read).

## The modules

| Module | What it is |
|---|---|
| `JobLedger` | what the job service promises per client request |
| `AssistantJobs` | the job service: submissions, queue, worker, stages, crashes, restarts |
| `MCAssistantJobs` | small instances |
| `AssistantJobsProofs` | its theorems |
| `BrewLedger` | what the brew records promise their reader |
| `BrewStore` | recipes, brews, events, archive |
| `MCBrewStore` | small instances |
| `BrewStoreProofs` | its theorems |
| `Telemetry` | ingest with its retry keys; device settings |
| `MCTelemetry` | small instances |
| `TelemetryProofs` | its theorems |
| `Calibrations` | calibration history and the pointer to the one in use |
| `CalibrationsProofs` | its theorems |
| `Research` | fetched pages as versions, and the evidence that cites them |
| `Upgrades` | start-up: both databases brought to their schema, then `Calibrations` and `Research` served from them |
| `MCUpgrades` | small installations of every schema |
| `UpgradesProofs` | theorems about the start-up and what it serves |
| `Backups` | generations of the host, their retention, and restores |
| `PhoneBackups` | the phone's coordinator beside `Backups` |
| `MCBackups` | small instances |
| `BackupsProofs` | theorems about both |
| `ReleasePipeline` | one release taken into production and back, on a living host |
| `MCReleasePipeline` | small instances |
| `ReleasePipelineProofs` | its theorems |

Two compositions: `Upgrades` extends `Calibrations` and `Research`, whose rows its
migrations write and whose requests it serves when it is done, and `PhoneBackups`
extends `Backups`, with which it shares the `RUN_ID`s' clock and the health receipt.
The other components share no row: the job
service runs its handler and knows nothing of brews, brews know devices by name
only, and calibrations touch no column that ingest or the settings write.
`ReleasePipeline` sees the server from outside: a container that migrates, becomes ready
and accepts rows. `JobLedger` and `BrewLedger` are the abstract specifications that a caller of the
services relies on.

### AssistantJobs

`status`, `crid` and `stage` are the rows of `assistant_jobs` and
`assistant_job_stages`; `exchange` the recorded chat exchanges. These survive a
crash. `queue`, the program counters `pc` of the router threads and `wpc` of the
workers, and the stop flag are memory. Every SQLite transaction is one step, and
so is every access to the queue, because these are what other threads can see
between; so `submit` is the steps `Lookup`, `CheckCapacity`, `Create`,
`Enqueue`, `SaturatedFinish`, `SaturatedStages`, `SubmitReturns`, and a worker's
pass is `LoopHead`, `Get`, `Claim`, the handler's stage updates, `ModelFinish`,
`FailRest`, `PersistStart`, `Finish`. The handler's answers are a choice between
giving up, and answering; texts, prompts and sources are left out. `ThreadDbError` and
`WorkerDbError` are a transaction that fails (locked beyond the busy timeout, disk
full), or the read-back with which `create`, `claim` and `finish` end after their commit
(`FinishUnread`: the job is settled and the worker dead), at most `MaxDbErrors` times; `Crash` and `LifespanStop` end the process, at
most `MaxStops` times; `Construct` is the constructor with its orphan sweep.
`runs`, `accepted`, `saturated` and `abandoned` are history no guard reads.

### BrewStore

Every method of the store is one `BEGIN IMMEDIATE` transaction, hence one step.
What interleaves are clients, who read a recipe, wait, and write on the basis of
what they read, and who lose an answer and call again. A recipe's content is the
graph of its stable child keys, because that is what the updates, snapshots and
forks may break; names, amounts and times are left out. `Calls` is the set of
event calls that clients make, each as often as they like: with and without a
request id, two calls with one id, an addition the snapshot does not have, an
incomplete call. A refused call leaves no trace in the database; where a promise
is about the refusal, `refused` and `answered` record it. `versions` is the
history of each recipe.

### Telemetry

`samples` are the stored rows with their retry key, their hash and the time of the host's
clock when they were stored; `device` has the three pairs of columns that may
contradict each other: what the sensor reports, what the user set, and the legacy columns
that old clients read. `ingest` awaits nothing between its lookup and its commit,
so it is one step, in two kinds: `Store` and `Duplicate`. `update_device` reads the
row before the transaction that writes it, so it is `ReadSettings` and `WriteSettings`
(or `SettingsBusy`, when the database stays locked), with reports and other edits in
between. `SetClock` is time passing or being set, back as well as on. The
fields of a measurement are one value, `Readings`; a hash is the record of what it
is the hash of. Validation, credentials and rate limits refuse before anything is
written, and are left out. One thing the model shows that no document decides:
removing the override of a device that never reported a name leaves the removed
name in the legacy column until the next report.

### Calibrations

`calibrations` are the rows, `active` the pointer of each device, `lastId` the
AUTOINCREMENT counter; `Legacy` are the histories a database may have had before the
pointer existed, and `Init` includes what `_phase4_migrate` makes of each. Adding and
activating are one transaction each; `get_calibration` runs two SELECTs outside a
transaction, hence `ReadPointer` and `ReadHistory`. `listed` and `sampled` are an
answer some client has, as history.

### Research

`store` is what `research_documents`, `research_document_versions` and the full-text
index hold after the last commit, `links` the evidence links, `retrieval` the worker
thread with the job it researches for. Saving several pages is one transaction, so
`SavePage` fills a draft that `CommitPages` publishes; search, fetch, save and link are
steps of their own, with reviews (`SetQuality`, `SetSupport`) of other threads in
between. A content stands for a page's text, its hash and the excerpt shown. Titles, the
ranking and the limit of six results are left out.

### Upgrades

`telemetry` and `brewing` are the two files as far as migrations look at them: which
columns and objects exist (those that one statement group creates are one element,
named for the schema that brought them), which rows are not backfilled yet, the ledger or
version row, `user_version`. `at` is the next statement of the start-up, `draft` the
transaction it has open. A telemetry migration is one transaction: its steps change the
draft, `CommitPhase3` and `CommitPhase4` publish it. The brewing store's
`executescript` commits whatever transaction is open and then every statement by itself, so
`Create4`, `Create5`, `Create6` and the `Ensure` steps write the file at once, and the version row follows in a
transaction of its own (`Record4`) or together with backfilled rows (`Record5`,
`Commit5`). `Stop` kills the process anywhere, at most `MaxStops` times, and drops the draft;
`Start` begins anew. `Installations` are the pairs of files that may be found. When both files
are up to date, `Serve` lets the requests of `Calibrations` and `Research` happen; as the two
databases have no row in common, a behaviour asks for one of them (`asked`). `Ingredients` are
the rows of one recipe: the index on `(recipe_id, ingredient_key)` wants keys that are distinct
there, and the migration, which keeps them distinct in the whole file, does no less.

### Backups

A generation is its `RUN_ID`, which sorts like the time it was taken at; `clock` is the wall
clock as some process last read it, and it may be set back (`ordered` says whether it was). `local` and
`offhost` say of each generation whether its directory is there and passes validation. A backup
process runs through `run[b].at`: snapshot of one or two databases, manifest, copy, promotion,
off-host retention, local retention, index, receipt; there is no lock, so the timer's run and a
release's Stage 01 go through it at once. Retention is two steps, because the list of victims is made
by verifying every generation first: `Select`, then `RemoveOffhost` and `RemoveLocal`,
which may stop at any victim and leave it damaged. The off-host one reads the clock and keeps the
newest generation of each ISO week unless that is older than `Weeks` (12 weeks to the second,
`backup_common.py:790`): the cutoff falls inside a week, and a week whose newest
generation is past it keeps none (`Recent`, `Weekly`). `Quit` ends a process anywhere.

A restore of a stopped container is a script, `restore`, and the container it starts to replace the
files, `helper[r]`, named after its target `r` (`restore-production.py:97`, `128`). `Authorize` is
everything the script demands, and the `docker run`, which is refused while a container of that name is
there. `Replace` is one file; the helper takes that step without asking whether its script still
waits, so `FailRestore` (the script is killed) leaves it at work, beside whatever restore is begun
next. Two helpers of single generations write into one temporary file
(`/data/.restore.sqlitecopy`), so what they rename may be neither's (`Spoiled`). `WriteReceipt`
comes last; nothing removes an earlier receipt, which stands all through the next restore. `alone` says
whether the last restore began without a helper left of an earlier one. `Boot` is the stack unit after
a reboot, which ends the helpers and starts the container whatever was going on. `mounted` is the receipt
the container can see: the bind mount is of a single file, and replacing the file leaves the
mount with the old one until the container is started again (`docker-compose.yml:44`).

### PhoneBackups

`courier[c]` is a coordinator process; each `Ask` is one adb command and may be carried out,
fail, be cut short, or time out. A command that timed out, or whose coordinator was
killed, joins `late`, from where `CarryOut` performs it at any later time. `staging`,
`onPhone` are the phone's files, `vault` the off-host root on the host. `Acquire` is the lock that goes with
its process, and `WriteLocalHealth` writes the same `health` as the host's backups, or fails to.
What fails after a snapshot goes on to `Finally`, which cleans the phone's staging if that has not
been done, also after the whole pair was promoted.

### ReleasePipeline

The pipeline is a program on the operator's machine that changes the host by one remote
command at a time. `pc` is its next command, `Effect` what each command does to the
host, and one action per command says what the code inspects before it (`Blocked`) and
where it goes on. The variables of the host are the two containers (`name`, `up`: a
container that is to be restarted by Docker still counts as running), the volume
(`store`: the rows in the database file, those only in its WAL, the schema, how far a
seed has come), the `backup`, the ingress (`caddy`), and whose `files` and `units` are in
force. `Fault` is a command that fails, with what it may leave behind; `Lose` one
whose connection is lost and which `Straggle` carries out later, if it is in `Lossy`;
`Abandon` is the end of the pipeline itself; `RollBack` is the operator who runs Stage
05, again if need be. Meanwhile containers crash and restart, migrate, become ready,
accept rows and checkpoint. The listener gate of Stage 04 is answered by Caddy whether or not
there is a candidate (`deploy.py:2408`), so `Release` asks nothing of the containers; and a failed probe of
the Caddy unit is noted after the list of failures was looked at for the last time, so it stops nothing
either. `StageFails` is the runner: Stage 03 is rolled back, Stage
04 is repeated once and then asked about by a direct probe.

What Docker and SQLite do is modelled from how the code uses them, and marked external: a name has one
holder, `stop` may kill a process that has not closed its database, a rename needs
a free name, Compose under a project of its own creates a container and replaces none.
A start is never refused because the port is taken. Left out: reboots of the host, the
brewing database, a second promotion of one release, the contents of receipts.

## The runs

| Run | Shows | Bounds | States |
|---|---|---|---|
| `jobs` | no interleaving of submissions duplicates a job or the worker; job rows, stage rows and exchanges agree though written in separate transactions; an open job is always held by somebody; the service is `JobLedger`; every accepted job settles | 2 requests and jobs, 2 threads, 2 worker slots, queue of 1, 1 stop, 1 failed transaction | 579k |
| `jobs_saturation` | finding: the job refused with 429 stays queued | 2 requests | stops |
| `brew_recipes` | no lost update; snapshots stay whole revisions; one fork per brew | 1 client, 3 recipes, 3 contents (one is refused), 3 revisions, 1 brew | 263k |
| `brew_archive` | one active brew per device; one outcome per addition; retries agree; evidence and annotations; the store is `BrewLedger` | 2 brews on 1 device, 7 calls, 4 events, 3 annotations | 105k |
| `brew_fork_refusal` | finding: some brews cannot be forked | 2 recipes, 1 brew | stops |
| `telemetry` | a retry within the horizon stores nothing; an answer names a row with the telemetry sent; an override never loses its legacy column | 5 payloads of 1 device, horizon 1, clock 0-2, 3 rows, 1 editor | 253k |
| `telemetry_edit_race` | finding: concurrent edits undo each other | 1 device, 2 editors | stops |
| `release` | never two servers on the volume; no acknowledged row lost; the ingress is the candidate's only; a rollback stops for good reasons only; receipts are true when written | 2 rows, 3 faults, 2 rollbacks, Docker commands may be late | 212k |
| `release_lost_seed` | finding: a late seed overwrites newer rows | 1 fault, 1 rollback | stops |
| `release_schema_race` | finding: the schema probe is passed by a candidate that has not migrated yet | no fault, 1 rollback | stops |
| `upgrade` | no recorded version outruns the work it stands for, wherever start-ups are killed; only whole databases are served; calibrations and citations keep resolving across a migration and after it; a supported installation is served again | every schema from none to current, some that must be refused, 2 stops, 2 devices, 2 calibrations, 3 documents, 2 contents | 609k |
| `backups` | retention never takes what it must keep, index and receipts name what was verified, a restore receipt is wrong only while a later restore is under way or has failed, a half-finished restore can be undone | 2 backup processes, 2 coordinators; 3 generations of the host and 1 restore, or 2 and 2, or 1 of the host and 1 of the phone, or 2 of the phone | 2.97M |

Why these bounds are enough to be interesting: with a queue of one and two requests, a
running job, a queued one and one that finds the queue full occur in every order;
two threads are needed for each race between `full()` and `put_nowait`, and between the
lookup and the insert; one stop is enough to leave any row the restart must cope with.
One client suffices to lose an update: when its answer is lost it knows an
older revision than the row has, which is how a second client stands to it. Three
recipes are a source and two forks of it; two brews compete for a device; the calls
contain for each refusal one that causes it; three annotations are the shortest chain
with a parent that is not the latest. A clock of 0-2 with a horizon of 1 has times
within the horizon, at its edge and beyond, and room to be set back; the payloads have an event id,
a measured time, or neither, and two readings under one event id; three rows are
the shortest sequence in which a retry meets a newer row than its own. Two editors
are the shortest race of edits. A start-up is stopped twice, which is once on
the way and once on the way after that; the brewing files are of every version from 1 to
5 with and without documents, with missing, equal and distinct ingredient keys, a new
one, one cut off in its opening script, a current one, one with an orphan row and one
of a later release; two documents of one URL are what schemas before 5 let happen, and a third is the
first one saved after. Backups keep one generation (`Keep`, `KeepOffhost`), so that the second already
prunes and the third races it. The first two generations share an ISO week, and with `Weeks` = 1 the cutoff
may fall before, between and after them; `FreshRuns` = 0, the most that `Keep` = 1 allows, makes the
pre-restore generation the newest. `Shares` says how many of the generations the host and the
phone may take and how many restores are tried beside them, since everything at
once is beyond reach: two restores are the shortest history with a receipt that stands over a
later one, or with a helper of the first beside the second. Two rows are one in the database and one in its WAL; three
faults are one in a stage, one in its rollback and one in the rollback's repetition; two
rollbacks are the one the runner starts and the operator's. The bounds are constants whose names start with
`Max`.

`CHECK_DEADLOCK FALSE` is set for the brew runs: at its bounds the store has no
further call to make; for the release runs: a release ends; for `upgrade`: no
calibration, document or job may be left; and for `backups`: the generations are used up. The job
and telemetry runs check deadlock.

### Fairness

`AcceptedSettles` (run `jobs`) assumes weak fairness of every step of a worker and of a request
thread (the operating system runs threads that can run, calls have timeouts:
`queue.get` 0.25 s, `busy_timeout`, model calls) and of the restart (the
supervision loop or the container runtime starts the process again). Stops and
failures are not fair, and the property asks nothing after a failure: a failed transaction
may leave a job open until the next restart, which no code promises will come.

`UpgradeEnds` (run `upgrade`) assumes weak fairness of the start-up as a whole, `StartUp`:
a process that runs executes its next statement, and the container is started again
when it ended (`restart: unless-stopped`, `docker-compose.yml:9`). Stops are bounded by
`MaxStops` and not fair; requests are not fair either.

## What is proved

`AssistantJobsProofs` (all constants arbitrary, any number of crashes and failed
transactions):

- `TypeCorrect`: `TypeOK`, which includes that a thread past `create` has a row
  and a worker past `get` a job. It is inductive.
- `OneWorker`, `QueueStaysBounded`, `RestartFailsClosed`: from `ProcessInv`, which
  relates the process phase to the threads that may exist.
- `RequestsShareOneJob`, `HandlerRunsOnce`, `PersistAgrees`: every step changes the
  rows in one of a few ways (`RowStep`: insert, claim, settle, sweep, or only stage
  progress), and `RowsInv` is inductive under those. `HandlerRunsOnce` needs that
  `runs` is zero while a row is queued.
- `RefusedIsNeverRun`, `StagesSettleWithTheirJob`, `OpenJobsStayHeld`, `ExchangesAreAnswered`: from
  `PlacesInv`. None of the four is inductive: `OpenJobsAreHeld` says that a queued row is
  in the queue, with its submitter or with the worker, but not that it is in one of these places only,
  and a job could be taken from two. So `QueueInv`, `WorkersInv` and `ThreadsInv` say that a row waits in
  exactly one place and was neither claimed nor refused while it waits there, which needs that
  the other workers are dead (`ProcessInv`). What a job's stage rows say then follows from the
  worker's place in the code (`StageAt`), the sweep after an error included; a failed
  transaction moves the worker, never the rows.
- `RefusedRowsWaitForRestart` and `OneSubmitterIsNeverRefused` say how far finding 1 goes: the
  row of a refused job, if queued, stays queued whatever happens but a start of the process; and with one
  request thread (the theorem's hypothesis) there is room from `full()` to `put_nowait`, so
  it takes two submissions at once.
- `JobsImplementLedger`: the same `RowStep` maps to the ledger's steps.

`BrewStoreProofs`:

- `TypeCorrect`, and one theorem for each safety property of the runs. The
  inductive invariant is `Inv` (types; every recipe's versions are as many as its
  revision number, the last one its content; a brew's log starts when it
  begins; the latest annotation has the highest revision) together with the properties
  themselves. The lemma `Footprints` says which actions write which variables; each property
  then has a step lemma about those actions only.
- `ForksRefuseMaterials` makes finding 2 exact. Whichever fresh keys a fork draws, its content
  resolves if and only if the brewed recipe has no culture and no addition that names an
  ingredient: the keys drawn are none of those the copied children still name. It rests on
  `GraphsResolve`: what the writers checked is still so of everything stored and brewed.
  `PlainBrewsFork` is its consequence: if clients submit no such recipe (hypothesis), every
  terminal brew can be forked, and so can its forks.
- `StoreImplementsLedger`: the refinement mapping of `BrewStore!Ledger`, step by step.

`TelemetryProofs`:

- `TypeCorrect`; `MeasurementsAreStoredOnce` for every horizon and every setting of the
  clock; `AcknowledgementsHold`, from the same invariant (rows are only added, and
  an answer's row is compared by hash when it is an old one); `OverridesAreShown`, which
  is inductive with the types alone.
- `OneEditorKeepsOverrides`: with one editor (hypothesis) what a PATCH has read of the overrides
  is what the device still has when it writes, because reports do not touch them. So
  finding 3 takes two edits at once, and sensors alone cannot cause it.

`CalibrationsProofs`:

- `TypeCorrect`; `PointersAreOwn`, for every migrated database; `ViewsAreConsistent`, from the
  invariant that a reader's pointer, too, names a row of its device;
  `GravitiesAreReproducible`, which needs that no two rows share an id, hence that none
  is above `lastId`.

`ReleasePipelineProofs` (any set of commands that may be late, any number of faults and
rollbacks):

- `TypeCorrect`, with `Forward`: as long as a release goes forward no rollback has run, so the
  runner starts at most one.
- `OneServerAtATime`. `OneServer` is not inductive: what runs has the canonical name,
  and a name has one holder, but that has to survive the commands still to come. `NameInv` says that
  a rename of the predecessor, due or late, finds it stopped, and while it is late no rollback
  passes its probe, so that no start can be outstanding with it; that a start finds the
  predecessor under the canonical name; and that a quarantine finds the candidate stopped.
- `PromotionReceipts`: what the receipts of Stage 03 and 04 say. `PromotionInv` has two halves. While the
  promotion goes forward nothing is still to be carried out, because every lost command ends
  its stage (`NothingOutstanding`); so what each step has established stays until the
  receipt is written (`Promotion`). It is the ground of the next three.
- `RollbacksStopForAReason`: `SeenIsSo`, that the names a faultless rollback has read are still
  so when it acts on them, whatever earlier runs left half done.
- `IngressStaysTheCandidates`, if enabling the ingress is not carried out late; `ReceiptsSayWhatIsSo`, if
  neither that nor the installation of the helper and of the files is
  (`IngressInv`, `FilesInv`: after Stage 05 has closed the ingress and restored the files nobody
  undoes it); `AcknowledgedRowsAreKept`, if the replacement of the database by the seed is
  not (`RowsInv`: until the seed ends, the backup has every row and nobody serves).
  The runs let only Docker's commands be late (`DockerCommands`), so each hypothesis is weaker
  than what the `release` run assumes. Each is also needed: with the command in `Lossy` TLC finds the
  property violated, and for the seed that is finding 5.

`BackupsProofs` (any number of processes and generations, any calendar, any retention):

- `TypeCorrect`, with `Owned`: whose a generation is, and that it is taken before it has
  a directory.
- `RetentionIsSafe`. Processes remove what they selected long ago, while others promote and
  remove. The argument is one about sets (`NewestAreEnough`, `RemovalIsSafe`): a victim has
  `KeepOffhost` greater generations beside it, and taking away numbers that have n
  greater ones beside them leaves n greater ones to every number that had them. So being
  spared or having n newer ones is preserved whatever is removed and in whichever
  order, also half way. For the weeks, while the clock is never set back: the last
  generation of a week is the victim only of a process for which it was past the cutoff, and it
  is so ever after; or it was not there yet when the list was made, and then it is not in it.
- `WhatIsNamedWasKept`: the index and the receipts name a generation that its process has carried past the
  promotion (`CourierEarns` for the phone's).
- `ReceiptsAreHonest`. `Restoring` says what each place of the restore has already replaced, and
  that, unless a helper was left when it began, its own is the only one and is gone before the
  receipt is due, so that none comes later which could touch what the receipt speaks of. The
  hypothesis `alone` is in the property because the code does not look for such helpers.
- `UndoIsAlwaysPossible`: while a restore is under way, fewer than `Keep` generations that are
  complete or will be (`Pending`) are newer than the one it would be undone with. No new
  one joins them, because no snapshot is taken of a stopped container. This is where
  `FreshRuns < Keep` is needed: at most an hour old (`restore-production.py:271`) against 28 kept.

`UpgradesProofs` (any files, any number of samples, ingredients, documents, devices and
stops):

- `UpgradesAreTyped`, `VersionsStayEarned`, `OnlyWholeIsServed`, `EvidenceKeepsResolving`,
  `LatestStaysShown`, `CalibrationsSurvive`. One inductive invariant, `Inv`, carries them.
- `TelemetryDraft` and `BrewingDraft` say for each place of the start-up how far the open
  transaction has come; at each commit the draft has earned the version it records. `Apart`: a
  transaction is about one of the two files, and past the telemetry part that file is an exact
  V2. Where scripts commit by themselves (`Create4`, `Create5`, `Create6`) the
  version row is still the old one, and more objects under an old version promise nothing
  (`ObjectsKeep`).
- `ServedIsWhole` needs no history: a stamped file has earned the stamp, and `Serve` is
  reached only by way of the stamp.
- `LatestStaysShown` rests on `Numbered`: of two versions of a URL the one on the later document
  has at least the other's number. Migration, which numbers every document 1, and
  saving, which adds one to the highest number, both keep it, and no two versions share a
  document, so `Newer` has one maximum.
- `EvidenceKeepsResolving`: what a worker's draft publishes `Extends` what was there, and a
  migration adds versions only where there were none to cite.

The assumptions are those of the modules: bounds are naturals, `None` is no key
and no row, the contents are graphs, payloads have the fields their names say,
and no two rows of an old database share an id. Nothing is assumed of their numbers.
`UpgradesAssumption` is what is taken on trust of the files a start-up finds, beside that they
keep the promises of the versions they record: calibration rows, samples and pointers have a
table and resolve (`RowsOf`); research versions came with schema 5 and are numbered as the code numbers
them; and a brewing file without a version row was left by an interrupted first start of
this release, which has written no documents and has created `recipe_ingredients` with the columns of schema 3
(`StoreOf`).

Some theorems have a hypothesis on a constant, which their statement names: one editor, one request
thread, no recipe that refers to its materials, and the commands that may not be late. The first three mark out the
findings and are not meant to hold of the deployed system. All others hold under the modules' assumptions
alone.

Every safety property of a passing run is proved. Only model-checked are `AcceptedSettles` and
`UpgradeEnds`, since liveness under fairness is out of the prover's reach; and the five runs of the
findings are counterexamples, which nothing but a run can show. Recursive operators are
avoided: a module that declares one cannot be proved about, and what a recursion
computes for every input cannot be proved here at all.

## Findings

1. `jobs_saturation`: when two submissions pass `full()` for the last slot, the
   one that loses is answered 429 and its job is to be failed, but `finish`
   updates only running jobs (`assistant_pipeline.py:2029`): the row stays
   queued with failed stages, in no queue, until the next restart.
2. `brew_fork_refusal`: the fork renames ingredients but not the references to them, so a brew
   whose recipe has a culture, or an addition of a material, can never be
   forked; the error is none of those the router maps.
3. `telemetry_edit_race`: of two concurrent PATCHes of different fields the later
   writes back the override the earlier one has replaced (`main.py:1930`, `1968`), against
   "Omitted field: leave its user override unchanged" (`main.py:1920`).

4. `release_schema_race`: Stage 05 probes the schema while the candidate is still starting,
   stops it later and does not probe again (`deploy.py:2539`, `2567`); the candidate
   may commit its migration in between, and the predecessor is started on it, against
   "If a migration made the database predecessor-incompatible, the rollback stops"
   (`docs/RECOVERY.md:67`).
5. `release_lost_seed`: every failure of Stage 03 is rolled back, a lost connection during the
   volume seed included (`run-authorized-release.sh:57`, `deploy.py:1977`), and the
   seed may finish when the predecessor is back, against "Application rollback never rewrites
   telemetry" (`docs/RECOVERY.md:19`).

More, seen while modelling and without a run of its own. In the backups: the phone's receipt
is published although the cleanup before it failed (`backup-phone.py:547`); a
snapshot that timed out leaves its staging, because only one that returned is
cleaned up; a publication carried out late overwrites the receipt of a newer backup
(with one that still names a verified generation, as `NamedIsKept` checks); the receipt of
a restore stands over the volume of a later one that failed half way, because nothing removes it
(`restore-production.py:257`); the helper container of a restore script that was killed goes
on, may replace files beside a second restore, share its temporary file (`restore-production.py:100`), or
do so under a container that was started meanwhile; a reboot during a restore starts
the container on the half-restored volume (`stack-start.py:121`); the container's view of `backup_health.json` is the file it was
started with (`mounted`); and after a single-mode run the index names a single generation, which
the paired drill refuses. In the server: `create_recipe` takes no request id, so a repeated
call makes a second recipe (`brewing.py:1470`). In the release pipeline: a Caddy unit that is not active is noted
after the failures were looked at (`deploy.py:2403`) and stops nothing; Stage 05
says it refuses once Stage 04 has recorded `ingress_opened` (`deploy.py:2458`), but it reads the Stage 01
receipt only, which never has it, so a rollback of an open release is carried out (and closes
the ingress first, as `IngressIsTheCandidates` checks); a stopped container under the
canonical name cannot answer the schema probe, so a rollback after a stop that was not
followed by its rename always ends there (`StuckForAReason`, reason "noexec"); Stage 04
requires the stack unit to be active, which Stage 03 enables without starting (`plan.stack`
says whether it was active before); and a candidate that was quarantined keeps its name, so a
second promotion of the release could not be rolled back. In the server: a fork shares the keys of its
additions and steps with its source, against "no shared identity with the source"
(`brewing.py:2301`); and a report stored between the read and the write of a
PATCH is undone in the legacy columns (`main.py:1960`), against "stay coherent with the
effective value" (`main.py:1924`).

## Plan

Done: `AssistantJobs`, `BrewStore`, `Telemetry`, `Calibrations`, `ReleasePipeline`, `Research`,
`Upgrades`, `Backups` and `PhoneBackups`. Left, in order:

1. Proofs: when Stage 05 starts the predecessor on a migrated database (the exact extent of finding 4,
   as done for 1, 2, 3 and 5).
2. `Proposals` and `AssistantHandler`: approvals, rewrite lineage, the full audit's stages;
   composed with `AssistantJobs` through the stage rows.
3. `PhoneControl`: start, stop, supervision, dispatcher locks; `Alerts`.
4. `CameraObserver`, `TokenBucket` (bounded arithmetic), `Additions` (the derivation of
   scheduled-addition states against a reference definition).
5. `Workspace`: the browser's drafts and pollers against `BrewStore` and `AssistantJobs`.
6. A reboot of the host during a release.

## Not modelled

- Of the backups: the drill `rehearse-restore.py`, which restores into volumes of its own and
  throws them away; `verify-backup.py`, which only reads; the fixture mode; the checks of free
  space and inodes, which end a run before it begins; off-host retention on a local path; what a
  receipt says besides the `RUN_ID`. One restore script runs at a time, as one operator starts it;
  helpers are not so limited.
- Of the start-up: the size and shape of single columns, and files that no release and no
  interrupted start-up can leave, but for those the exact checks refuse ("stray").
- Of the research store: the log lines of reviews.
- The HTTP clients of the research broker and the models, release build and export (batch
  comparisons of file trees), rendering, reverse proxy and systemd configuration: no state of
  their own, or none that anything waits for.
