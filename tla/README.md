# Kubebird in TLA+

A TLA+ model of [Kubebird](../src/README.md), the Kubernetes operator that runs Firebird
instances. It concentrates on what the operator may never get wrong, the data: when a server is
stopped and backed up, when its storage is deleted, what is restored where, which accounts a server
has, and what a scheduled backup may prune. Two abstract specifications say what is promised about
an Instance's data and about its scheduled backups, and the detailed modules are shown to implement
them. TLC checks the models on small instances, safety and liveness; TLAPS proves the safety
properties and both implementations for all values of the constants.

## The system

### Components

| Component | Source (under `src/`) | State | Operations | What makes it correct |
|---|---|---|---|---|
| Reconcile loop | `internal/controller/instance_controller.go` | the work queue, the reconcile's copy of the Instance | `Reconcile`, `reconcileInstance`, `setPhase`, `setAvailableCondition`, `setError`, `setProgress` | converges on the spec whatever fails; reports what is true |
| Major version upgrade | `instance_upgrade.go` | `status.upgrade` (stage, from, to) | `reconcileMajorUpgrade`, `startMajorUpgrade`, `releaseStorageForUpgrade`, `finishMajorUpgrade` | resumes after a failure anywhere, loses nothing, ends |
| Deletion | `instance_controller.go` | the finalizer, `deletionTimestamp` | `reconcileDeletion`, `releasePrimaryAndShadowStorage` | the final backup precedes the release; it ends |
| Offline backup Pod | `instance_controller.go`, `instance_provision.go` | the StatefulSet's replicas, the Pod's phase, `backup/base` | `backupDatabases`, `backupDatabasesOffline`, `databaseBackupScript` | runs on a stopped server, with the version that wrote the files, over every database |
| Database provisioning | `instance_provision.go` | `status.databases`, files on the primary volume | `reconcileDatabases`, `restoreDatabaseIfBackedUp`, drop and create | Ready means the databases are there and whole |
| Owned resources | `instance_resources.go` | PVCs, StatefulSet, Service, ConfigMap, Secret | `reconcilePVCs`, `reconcilePVC`, `mutateStatefulSet` | one major per volume; retained volumes survive |
| Scheduled backup CronJobs | `instance_backup_schedule.go` | CronJobs, frequency directories | `reconcileScheduledBackups`, `reconcileScheduledBackupCronJob` | a scheduled Job finds its directory |
| Scheduled backup script | `instance_backup_schedule.go` | claims, backup files, pools, the flock, `RDB$BACKUP_HISTORY` | `scheduledBackupScript` and the scripts it is made of | no two runs collide, nothing is pruned early, incrementals stay restorable |
| Retention values | `instance_backup_schedule.go`, `api/v1/instance_types.go` | the values of `spec.backup.retention`, timestamps in file names | `parseRetention`, `enabled`, `dateAgo`, `pruneScheduledBackupsScript` | nothing is deleted early, the volume does not fill up, the API server and the controller agree on what is enabled |
| Security database seeding, user migration | `instance_provision.go` | `security<M>.fdb`, its temporary files, `security<M>.fbk` archives | `securityDatabaseInitScript`, `securityMigrationScript`, `databaseBackupScript` | a server has exactly the accounts it must have, and starts |
| SYSDBA Secret and rotation | `instance_resources.go`, `instance_provision.go`, `instance_controller.go` | the Secret, the hash in the pod template, the password a container was started with | `reconcileSysdbaSecret`, `mutateStatefulSet`, `findInstancesForSecret` | a user's password is never replaced, the server follows the Secret |
| Version detection, labels | `instance_version.go` | `status.firebirdVersion`, labels of the pod and of every object | `reconcileFirebirdVersion`, `syncFirebirdVersionLabel` | what is reported is what runs |
| Manager start-up, API types, generated code | `cmd/main.go`, `api/v1` | | | |

`PROJECT.json` lists every component with its status, and every hazard at the line where it bites.

### How they interact

The manager runs at most one reconcile of a name at a time. A reconcile reads the Instance once
and carries that copy through every later step; each of its status writes succeeds only if the
stored Instance still has the copy's resourceVersion. Between any two of its API calls the API
server, the StatefulSet controller, the kubelet, the PVC protection controller, the garbage
collector and users all act. Upgrade and deletion share the offline backup and the release of the
storage, and both are resumed from what they find in the cluster plus `status.upgrade`.
Scheduled Jobs never meet the controller again once created; they meet each other on the backup
volume.

### What is hard

* The copy a reconcile works on is stale as soon as a user edits or deletes.
* A failure, or a restart of the manager, may fall between any two API calls; resumption relies on
  the stage that was last recorded.
* Whether a server has stopped is read from another controller's status.
* Databases are dropped, restored and created before the one status write that records it.
* PVC deletion and garbage collection are asynchronous; a name may be reused meanwhile.
* Jobs of several frequencies share a volume, a lock and each database's backup history, and may be
  killed at any point.

## Modules

| Module | Contents |
|---|---|
| `DataCustody` | abstract: where an Instance's data may be at each stage of its life |
| `InstanceReconciler` | one Instance name over time: controller, cluster, users, clients; implements `DataCustody` |
| `MCInstanceReconciler` | its small instances |
| `InstanceReconcilerProofs` | its types, and that backups run alone |
| `InstanceDataProofs` | that no data is lost, and that it implements `DataCustody` |
| `InstanceServerProofs` | majors, the offline backup's conditions, what Ready and finished mean |
| `RestorePoints` | abstract: the points in time each database can be restored to |
| `ScheduledBackup` | concurrent runs of the scheduled backup script; implements `RestorePoints` |
| `MCScheduledBackup` | its small instances |
| `ScheduledBackupProofs` | its theorems, that it implements `RestorePoints` among them |
| `Retention` | one frequency over months and years: values, calendar, timestamps, pruning |
| `SecurityDatabase` | the accounts of one Instance name: init script, migration, archives |
| `ServerPod` | Secret, aliases, pod and version detection of one Instance |
| `MCRetention`, `MCSecurityDatabase`, `MCServerPod` | their small instances |
| `RetentionProofs`, `SecurityDatabaseProofs`, `ServerPodProofs` | their theorems |
| `BoundedSets` | facts about bounded sets of numbers the proofs share |

The modules overlap on purpose: `SecurityDatabase` and `ServerPod` each take one aspect that
`InstanceReconciler` treats as an atom (a pod that becomes ready, a call that may fail) and open it
up, with the rest of the controller reduced to the order `InstanceReconciler` is checked for.

Operators marked *Faulty variant* are plausible bugs. No specification uses them: each is a
replacement for the operator that follows it, and each replacement makes one of the properties
fail (`mutants` in `PROJECT.json`), which shows that the property depends on that code.

### InstanceReconciler

**State.** `inst` is the Instance in the API server: metadata, the spec fields the controller
decides on, and the status. `obj` is the reconcile's copy and `pc` its next step; a step is the
code between two API calls that others can observe. `running`, `ready` and `todo` are locals of
`reconcileMajorUpgrade` and `reconcileInstance`. `sts`, `rep`, `pod`, `bk`, `pvc`, `bpvc`, `cron`
are the StatefulSet's spec and status, the server pod, the offline backup Pod, the primary and
shadow PVCs, the backup PVC and one frequency's CronJob. `disk` and `base` are the database files
on the primary volume and the `gbak` backups in `backup/base`; a file's content is the number of
the last client write it holds, `Absent`, or `Partial`. `writer` is the major whose `gbak` wrote each
backup: a restore by an older major fails (`TooNew`), as `instance_upgrade.go:73` says. `engines` are
the majors that initialised the primary volume, which stands for its security databases. `due` is a
ghost: per database, the last client write that must not be lost. So is `used.late`: whether this
Instance's deletion met a failing call after the release of what it had backed up.

**The controller.** `Update` is a status or metadata write: it succeeds only if `obj = inst`. That
comparison stands for the resourceVersion check: the model has no other field that could differ
between two versions of an Instance, and two writes that restore a former value in between are the
one case it accepts where the API server would not. `Set` is a write the code skips when nothing
changes. `Goto` moves on, `Fail` is an error return (recorded by `setError` outside deletion), and
`Requeue` ends the reconcile with the name back in the queue.

| Code | Actions |
|---|---|
| `Reconcile` | `Reconcile`, `AddFinalizer`, `ClearError`, `SetProgress`, `SetError` |
| `reconcileMajorUpgrade` | `ReconcileMajorUpgrade` (`UpgradeStep`), `StartMajorUpgrade`, `RecordBackedUp`, `AwaitRelease`, `RecordReleased`, `FinishMajorUpgrade` |
| `backupDatabases` | `BackupDatabases`, `ScaleDown` |
| `backupDatabasesOffline` | `BackupDatabasesOffline` |
| `releasePrimaryAndShadowStorage` | `ReleaseStorage`, `DeletePrimary`, `DeleteShadow` |
| `reconcilePVCs`, `CreateOrUpdate` of the StatefulSet | `ReconcilePVCs`, `ApplyStatefulSet` |
| `reconcileDatabases` | `ReconcileDatabase`, `StatementFails`, `ExecFails`, `RestoreFails`, `RecordDatabases` |
| `reconcileScheduledBackups` | `PrepareDirectory`, `ApplyCronJob` |
| end of `reconcileInstance` | `SetPhase`, `SetAvailable` |
| `reconcileDeletion` | `ReportDeleting`, `ReportDeletion`, `ReportFinalizer`, `RemoveFinalizer` |
| any failing call, a restart of the manager | `Abort` |

**The environment** is modelled from how the code uses it: `PodCreated`, `PodReady`, `PodStopped`,
`PodGone`, `StatusCatchesUp` (StatefulSet controller and kubelet), `PVCRemoved`, `BackupStarts`,
`BackupSucceeds`, `BackupFails`, the three `Collect` actions, `CacheCatchesUp`, and `UserCreates`,
`UserEdits`, `UserDeletes`, `ClientWrites`. `Faults` says which disturbances a run allows: failing
calls, evictions, partial restores, SQL statements that fail without `isql` saying so (`silentSql`),
reads of the Instance from a cache that trails (`staleCache`: `Reconcile` reads `cache`, and a write
based on it is refused as the API server would), StatefulSet status that trails its pods
(`statusLag`), and users who do not wait.

**Refinement.** `DataCustody` knows five things: what the Instance is doing, which databases its spec
asks for (`asked`), which hold client data (`owed`), and which of these are in the storage in use
(`served`) and in the backup volume (`saved`). It says that storage is let go only when everything
owed is saved, unless a deletion without a backup discards it, that an upgrade is over only when
everything owed and still asked for is served, that a backup may damage only what it can take again.
The mapping (`Doing`, `inst.dbs`, `Owed`, `Served`, `Saved`) compares the ghost `due` with the files.

**Abstractions.** `status.error`, `status.warning` and conditions' texts are left out; a message is
the situation it describes. The aliases ConfigMap, the Service, the SYSDBA Secret and the version
detection appear only as calls that can fail (`Abort`); `ServerPod` models them. Requeue delays are
untimed. Only the Instance may be read stale, not the StatefulSet or the backup Pod.
`SetControllerReference` on a StatefulSet or CronJob of a deleted namesake is modelled as taking it
over. A StatefulSet's garbage collection starts the removal of its pod in the same step. Of a
database only its presence and its content matter, not its page size, charset or shadow files.

### ScheduledBackup

Each member of `Runs` is one Job, rendered for a frequency and mode of `Configs`. Its steps are
those of the script: `Lock` (flock of the physical modes), `Claim` and `CheckClaim` (unique
timestamp), `ChoosePool` (incremental), `BeginBackup`, `EndBackup`, `BackupFails` per database,
`BackupsTaken`, `DeletePools` and `Prune`. `Killed` ends a Job without its EXIT trap, `Restored`
empties a database's backup history as a `gbak` restore does. A backup is identified by frequency,
pool, database, level and timestamp (`Name`, the file's path); a pool's level 0 has no timestamp in
its name, as in the script. Time is a counter of seconds and a retention is a number of seconds;
`Retention` has the values and the calendar. Compression is left out: it renames a finished backup
without touching its timestamp. With the fault `orphan` the server carries on with the backup a
killed run asked for (`OrphanEnds`); without it that backup ends with the run.

**Refinement.** `RestorePoints` has a clock and a set of points. A point never changes; it goes only
when it is older than its frequency's retention, for a pool counted from the pool's start (so a
level 1 can go before its own age reaches the retention), or when another pool of the frequency
covers its database no less recently. The points of the script are its backups that are complete and,
for a level 1, have their level 0.

### Retention

`value` is the retention of one frequency: its digits and unit, as the CRD's pattern allows.
`ParseRetention` and `Enabled` are the controller's reading, `CountsAsEnabled` the API server's rule.
`DateAgo` is GNU `date`'s arithmetic, which the calendar operators define: days run over into the
next month where the month is too short. `Stamp` renders a timestamp's digits and `Less` compares
them as `expr` does. `StartRun`, `FinishRun` and `FailRun` are the CronJob's runs (`NextDue` is the
cron schedule, runs do not overlap, a late one starts when the previous one ends); only a successful
run prunes. Minutes are the unit of time, the file name's seconds being of no consequence for one
frequency whose runs do not overlap.

### SecurityDatabase

`pc` walks through `securityDatabaseInitScript` command by command (`CheckExisting`, `CopyDefault`,
`Restore`, `ClearTemporary`, `SeedMigrated`, `RestoreSource`, `CopyUsers`, `RemoveSource`, `Rename`);
`CommandFails` and `Killed` end it anywhere, a killed command leaving what it wrote torn. `fbk` is the
archive of each major with its modification time (read off `clock`), which is what `ls -t` sees. The controller is
`StartUpgrade`, `StartDeletion`, `StopServer`, `BackUp`, `BackupKilled`, `Release`, `Recreate`; an
upgrade, or a deletion with a backup, starts from a server that has run once, as a database nobody
ever served cannot be backed up (see below for what happens otherwise). SYSDBA is not among the
accounts: the image sets it at every start. `accounts` and `saved` are ghosts: what the server must
have, and what each successful backup saved. `TornFinal` lets the two commands that write the final
name directly die halfway.

### ServerPod

The calls of `reconcileInstance` for one Instance in the order of the code, on versions of one major:
`GetSecret` and `CreateSecret`, `ApplyConfigMap`, `ApplyService`, `ApplyPVCs`, `ApplyStatefulSet`,
`ReconcileDatabases`, then `GetPod`, `ExecVersion`, `PatchPod` and `RecordVersion`, with `Abort` between
any two. The work queue is explicit: a change of an owned object, of the pod's readiness, of the
Secret or of the Instance queues the name, a change of a PVC or of the pod's labels does not. A pod
has the hash it was created with and the password and aliases its container was started with; these
may differ from the template's. A digest is a record around its password: SHA-256 is taken to be
injective. Phase and condition writes, which would only queue the name more often, are left out.

## What TLC checks

### Passing runs

| Run | Instance | States | Shows |
|---|---|---|---|
| `UpgradeSafety` | 2 databases, 2 majors, 2 edits at any moment, failures, evictions, with and without backup volume | 670 000 | `TypeOK`; an upgrade backs up a stopped server (`BackupQuiesced`) with its own version (`BackupByWriter`) onto a volume that exists (`BackupHasVolume`); `ScheduleHasDirectory`; Ready and the end of the upgrade are true (`ReadyServesAll`, `FinishedMeansRestored`); the reconciler implements `DataCustody` (`KeepsCustody`), so an upgrade loses nothing |
| `DeletionSafety` | 2 databases, shadow volume, deletion, upgrades, drops and `backupOnDelete` at any moment, 2 edits, failures, evictions, recreation | 3 390 000 | `NoDataLost` across deletion, also in the middle of an upgrade, and recreation; `BackupFindsRequested`: every database the backup script names is there, unless the spec has dropped it; `KeepsCustody` with a deletion that discards |
| `FaultSafety` | stale reads, silent SQL failures, partial restores, users who wait for nothing, creation on either major | 4 760 000 | `OneEngine`: no primary volume is opened by servers of two majors |
| `Liveness` | 3 versions (two of one major), 2 databases, shadow volume, 2 edits, 2 failures or restarts anywhere, deletion at any moment, trailing status, recreation on the former major | 450 000 | `UpgradeCompletes`, `Converges`, `DeletionEnds` |
| `PoolRuns` | 3 Jobs, incremental and physical, 2 databases, all faults but orphans | 3 190 000 | `OneNbackup`, `ChainComplete`, `KeptUntilExpired`; the script implements `RestorePoints` (`KeepsRestorePoints`) |
| `FileRuns` | 3 Jobs, logical and physical, two frequencies, one switched, orphaned backups | 590 000 | `UniqueTimestamps`, `NeverOverwrites`, `KeptUntilExpired`; the script implements `RestorePoints` with orphans too (`KeepsRestorePoints`) |
| `SecurityAccounts` | Firebird 3, 4 and 5, 3 volumes, 2 account changes, 2 kills | 190 000 | `ServesAccounts`: none lost, none back from the dead; `ServesWhole`; `AccountsSafe`; `ServerStarts` |
| `ServerPod` | 2 releases, 2 databases, 2 chosen and 3 generated passwords, 2 user actions, a failure and a restart | 1 130 000 | `UserPasswordKept`, `PasswordFollows`, `LabelTruthful`, `VersionReported`; `Settled`: with nothing queued, what was applied agrees with what is asked for |
| `Retention` | 14 values on 5 frequencies, 34 runs from 3 dates before the end of February | 550 000 | `EnabledAgree`, `KeptLongEnough`, `KeptNoLonger`, `LatestKept` |

Deadlock is not an error in any run: users may stop, and a settled Instance has nothing to do.

The liveness properties have exceptions, each a situation the code cannot leave by itself:

* `Converges` leaves out an Instance that asks for an older major than it runs, which
  `startMajorUpgrade` refuses, or older than the one that wrote a backup it has yet to restore
  (`Refused`): an Instance upgraded, deleted with a backup and recreated on the former major fails
  every reconcile in `gbak`.
* `DeletionEnds` leaves out a deletion that met a failing call between the release of the storage it
  had backed up and the removal of its finalizer (`used.late`, which each Instance starts without;
  `DeletionStuckViolated`), and one whose backup can never succeed (`Hopeless`): the volume has no
  security database of the backup's version or lacks a database that status lists.
* `UpgradeCompletes` hands an upgrade that a deletion overtakes over to `DeletionEnds`.

### Disagreements

Each of these runs checks a statement found in the code or its docs and finds a behaviour of the
code that contradicts it; `findings` in `PROJECT.json` quotes the statement.

| Run | Behaviour |
|---|---|
| `DeletionStuckViolated` | one failure between the release of the storage and the removal of the finalizer: the next backup Pod waits for a PVC that is gone |
| `DeleteRestoringViolated` | deleted while Restoring: writes to databases restored so far are lost |
| `AliasesViolated` | a database added to a running Instance: the server never sees its alias, as a SubPath mount is not updated |

The models have further behaviours of this kind. None is allowed in the passing runs of the property
it breaks; each appears when the constants below are used. For `InstanceReconciler` they start from
`OneDB`, `Upgradable`, `OldBackedUp`, `Edits = {"version"}`, no faults, one creation, edit and write,
as in `DeleteRestoringViolated.cfg`; for the others from the run named.

| Constants | Property | Behaviour |
|---|---|---|
| `Faults = {"earlyDelete"}` | `BackupByWriter` | deleted right after `spec.version` moved to a newer major: backed up with the new version, which cannot open the files, and so for ever; `instance_controller.go:362` says "version is the Firebird version that wrote the databases" |
| `Edits = {"version", "disableBackup"}`, `Faults = {"earlyEdit"}`, 2 edits | `FinishedMeansRestored` | backup disabled during an upgrade: it finishes on empty databases; `instance_upgrade.go:224` says "with every database restored" |
| `Faults = {"partialRestore"}` | `ReadyServesAll`, `FinishedMeansRestored` | a restore that fails halfway is registered as a database, and the upgrade finishes with it; `instance_provision.go:147` only has a finished CREATE DATABASE in mind |
| `Faults = {"silentSql"}` | `ReadyServesAll` | a CREATE DATABASE that fails inside `isql`, which runs without `-b`, is recorded, and the Instance is Ready without its database |
| `Faults = {"staleCache", "error", "earlyDelete"}` | `NoDataLost`, `BackupQuiesced` | a reconcile that reads the Instance as it was before Releasing was recorded backs up once more, over storage being released; `instance_upgrade.go:95` says the recorded stage "is what keeps a later reconcile from backing up again once the old storage may be gone" |
| `AnyBackup`, `Edits = {"version", "enableBackup"}`, `Faults = {"earlyEdit"}`, 2 edits | `BackupHasVolume` | backup enabled together with a newer major: the upgrade waits for a PVC nobody creates |
| `TwoDBs`, `TwoBackedUp`, `Edits = {"addDatabase", "dropDatabase"}`, `Faults = {"earlyEdit"}`, 2 edits | `ReadyServesAll` | dropped and added again before the status write: still listed, so never created, and Ready for good |
| `Faults = {"statusLag", "evict"}` | `BackupQuiesced` | a StatefulSet status that trails a pod recreated after an eviction lets the backup start beside it |
| `AnyBackup`, `Scheduled`, `Edits = {"enableBackup"}` | `ScheduleHasDirectory` | backup enabled on a Ready Instance: the schedule's directory is made in the old pod, which does not mount the volume, and never again |
| `PoolRuns` with `Faults = {"kill", "orphan"}` | `ChainComplete` | the server finishes the level 0 of a killed run after the next run looked at the history: that run's level 1 is relative to a backup outside its pool (`instance_backup_schedule.go:585`) |
| the same | `KeptUntilExpired` | that run succeeds, and what it saved cannot be restored |
| `Edits = {"version"}`, `Faults = {"earlyEdit"}`, `FairSpec` | `UpgradeCompletes` | `spec.version` moved to a newer major before the first pod ran: no security database exists, and the upgrade's backup fails for ever |
| `Faults = {"unlistedWrite", "earlyEdit"}` | `NoDataLost` | a database in use before `status.databases` lists it is not in an upgrade's backup |
| `DeletionSafety` with `"statusLag"` added | `NoDataLost` | a trailing status during a deletion: the backup misses what the live server still writes |
| `AnyBackup`, `Edits = {}`, `Faults = {"earlyCreate"}`, 2 creations | `ReadyServesAll`, `NoDataLost` | recreated at once: adopts the pod and the storage its namesake is losing |
| `AnyBackup`, `Faults = {"earlyCreate", "earlyDelete"}`, 2 creations | `BackupQuiesced` | recreated and deleted at once: the backup starts beside the namesake's pod |
| a third version with `MajorOf` 0 (a tag that names none), 2 edits | `OneEngine` | from a major to the tag and on to another major: `startMajorUpgrade` sees no change of major in either step, and the second major opens the first one's volume |
| `backupOnDelete` FALSE, `Faults = {"evict", "earlyDelete"}`, 2 creations | `ReadyServesAll` | deleted while the upgrade's backup was torn by an eviction: the torn file stays in `backup/base`, a recreated Instance restores it and is Ready |
| `Edits = {"version", "disableBackup", "enableBackup"}`, `Faults = {"earlyEdit"}`, 3 edits | `NoDataLost` | backup disabled while Restoring and enabled again: the next backup overwrites the only copy with the empty database |
| `Faults = {"partialRestore", "earlyDelete"}` | `NoDataLost` | a restore that failed halfway is registered, and the next backup overwrites the copy it was restored from |
| `TwoDBs`, `Edits = {"version", "addDatabase", "dropDatabase"}`, `Faults = {"silentSql"}`, 3 edits | `NoDataLost` | a DROP DATABASE that fails silently leaves a database no backup lists; an upgrade takes it away with the volume |
| `PoolRuns` with `hour` both logical and incremental, no faults | `KeptUntilExpired` | a frequency switched while a Job runs: the logical Job prunes, without the lock, the pool the incremental one is adding to |
| `SecurityAccounts` with `TornFinal = TRUE` | `ServesWhole` | `cp` and `gbak` write the final name directly (`instance_provision.go:446`, `:458`): killed halfway, the next start takes the file for finished; the comment at `:405` claims this only for the migration, which the rename protects |
| `ServerPod` with `Faults = {"podSwap"}` | `LabelTruthful`, `VersionReported` | a pod replaced between the server's answer and the Patch by name gets its predecessor's version for good; `instance_version.go:101` says "re-detected exactly once per server pod" |
| `ServerPod` with `Faults = {"reuse"}` | `PasswordFollows` | a password changed and changed back while its pod was starting: the template's hash is the pod's again, the container has the other password (`instance_resources.go:419`) |
| `ServerPod` with `Unstartable = {v2}` | `PasswordFollows` | a version that cannot start: the StatefulSet controller does not replace a pod that never became ready, so neither the version set back nor a rotated password reaches it |

A backup may also be one that can never succeed, so that the upgrade or deletion that waits for it
never ends: the Instance was deleted, or moved to a newer major, before its server ever started, and
there is no security database (`instance_controller.go:349` says "the security database always exists
by this point"); or it was deleted between a DROP DATABASE and the status write that records it, and
the script, under `set -e`, names a file that is gone. `BackupFindsRequested` is what
the code does keep; `Hopeless` names these cases.

`Retention` shows two limits of what a retention means, both within its properties: a retention of n
months guarantees 30n - 2 days only ("1 month ago" on 29 to 31 March is 1 to 3 March in a common year,
so backups of the first days of March are pruned before the month is over), and a run that takes
longer than its whole retention deletes the backup it has just taken, which the advice at
`src/README.md:415` ("pick a retention comfortably longer than the frequency itself") does not cover.

The Available condition, which no property mentions, stays True during the whole of an upgrade's
backup, although its comment says it reports an instance that is serving connections.

### Bounds

* `MaxCreates` (2 where recreation matters): a second Instance meets everything a first can leave;
  a third starts from the same kind of leftovers.
* `MaxEdits` (1 or 2): two edits are needed for "edited again while the first is acted upon", and
  for a drop in the middle of an upgrade.
* `MaxErrors` bounds failures only for the liveness runs; the safety runs allow any number (`"error"`
  in `Faults`).
* `MaxWrites` (1 or 2): a write tells a stale backup, which has a database as it was created, from a
  current one, a second one a backup from between the two. `Liveness` has none: what is written
  decides no step of the controller.
* `Runs` (3 Jobs) and `MaxClock` (3 with a retention of 1): one run to leave something behind, one
  to disturb it and one to depend on it; the clock passes the retention boundary and goes beyond it.
  Jobs are interchangeable, so they are a symmetry set, as are the two databases of `DeletionSafety`.
* `Versions`: two majors, and a patch release for the liveness run.
* `MaxLives` (3) and three majors in `SecurityDatabase`: an archive left by a first volume, one by a
  second, and a third volume that has to choose between them; one account that is added and dropped
  (`MaxEdits` 2) tells a current archive from an old one; `MaxKills` 2 is a kill during the backup or a
  start, and one during what recovers from it.
* `ServerPod`: two user actions are needed for a rotation during a rotation; three generated passwords
  are as many as can be in use at once. Versions and databases are interchangeable, so `MCSpecs` fixes
  the first of each; symmetry is not used with liveness.
* `Retention`: 34 runs take the daily frequencies past the end of March from each of the starting
  dates, the hourly ones past a day, the yearly ones past leap years; a run lasts 2 or 200 minutes, the
  latter longer than the shortest retention. One retention reaches back before year 1.

### Fairness

`FairSpec` assumes weak fairness of the controller as a whole (a worker takes what is queued and
runs it to its end), of each of the Kubernetes controllers the operator waits for (pods, StatefulSet
status, removal of each PVC that is no longer used, garbage collection) and of a backup Pod that
was scheduled; a cache that trails catches up. `SecurityDatabase` assumes that the kubelet keeps
starting a wanted pod and that the controller keeps going, `ServerPod` that the worker takes what is
queued and that Kubernetes looks after the pod. Users and clients owe nothing; failures are not forced to happen, nor to stop
other than by `MaxErrors`. The manager's periodic resync is not assumed: every wait must be ended
by a requeue or an event.

## What is proved

Every invariant, every action property without fairness and both refinements that the passing runs check are
theorems, for any sets of databases, versions, specs, Jobs, majors and retentions and any bounds. The
named assumptions of the modules only state types, and that the sets of passwords and names do not overlap; `PodAssumption` also says that a
generated password is never one in use. Further hypotheses of a theorem exclude a fault or an edit:

| Hypothesis | Excludes | Needed |
|---|---|---|
| `Orderly` | a StatefulSet status that trails its pods, stale reads, a name reused before its leftovers are gone | each breaks `BackupQuiesced` |
| `Careful` | also partial restores, silent SQL failures, writes before a database is listed or while restoring, and disabling the backup | each breaks `NoDataLost` (`disableBackup` together with `enableBackup`) |
| `Tagged` | version tags without a major | breaks `OneEngine` |
| `Patient` | deletion of an Instance that is not settled | breaks `BackupByWriter`, `ReadyServesAll` |
| `Fixed` | enabling the backup later | breaks `BackupHasVolume`, `ScheduleHasDirectory` |
| `OneWay` | dropping databases and adding them as well | a name dropped and added again before the status write breaks `BackupFindsRequested`, `ReadyServesAll` |
| `Supervised` | a server that goes on with the backup of a killed run | breaks `ChainComplete`, `KeptUntilExpired` |
| `Unmixed` | logical and incremental Jobs of one frequency | breaks `KeptUntilExpired` |
| `Undisturbed` | `cp` or `gbak` killed while writing `security<M>.fdb` itself | breaks `ServesWhole` |
| `Unswapped` | a pod replaced between its answer and the Patch | breaks `LabelTruthful` |

The last column says what TLC finds violated without it; the tables above describe how. Failed
calls, restarts, evictions, and edits and deletions at any moment stay allowed unless listed.
`Poolless` (no incremental Job) is the other way out of `Supervised`.

### InstanceReconciler

| Theorem | Property | Hypotheses |
|---|---|---|
| `TypeCorrect` | `TypeOK` | |
| `BackupsRunAlone` | `BackupQuiesced` | `Orderly` |
| `DataKept` | `NoDataLost` | `Careful` |
| `ImplementsCustody` | `KeepsCustody` | `Careful` |
| `OneMajorPerVolume` | `OneEngine` | `Careful`, `Tagged` |
| `UpgradesFinishRestored` | `FinishedMeansRestored` | `Careful`, `Tagged` |
| `BackupsByWriter` | `BackupByWriter` | `Careful`, `Tagged`, `Patient` |
| `BackupVolumeExists`, `ScheduleDirectoryExists` | `BackupHasVolume`, `ScheduleHasDirectory` | `Careful`, `Fixed` |
| `BackupsFindRequested` | `BackupFindsRequested` | `Careful`, `OneWay` |
| `ReadyIsServed` | `ReadyServesAll` | `Careful`, `OneWay`, `Patient` |

None of these properties is inductive. The invariants build on each other:

* `QuietInv`, for `BackupQuiesced`. That no server exists while a backup runs follows from the
  StatefulSet having no replicas and its status telling the truth (`Tracked`); that nobody scales it
  up again rests on no reconcile getting past the upgrade while a backup Pod exists. That rests on
  `status.upgrade` being `BackingUp` as long as a live Instance has such a Pod (`Quiet`), which holds
  because the stage is only advanced by the reconcile that deleted the Pod, and because a reconcile
  that is past its first write holds a copy with the current stage (`Copied`) and stands at a step
  that its copy's life and stage allow (`At`). `Adopted` says that a live Instance's StatefulSet is
  its own.
* `DataInv`, for `NoDataLost`, adds where a client's last write is. A database that status lists has
  it on the primary volume (`Listed`), one that is not listed has it in the backup volume (`Unlisted`).
  Past an upgrade's backup everything is saved (`Staged`); what is only saved can be restored from
  there (`Reachable`); the volume is there while something is listed on it (`Volumed`); the backup Pod
  copies exactly what is listed, with nobody writing (`Copying`, `Released`). `Stands` says the same
  of the copy a reconcile holds at each of its steps: what an upgrade, a deletion and provisioning may
  rely on there (`Upgrades`, `Deletes`, `Provides`).
* `CustodyInv`, for the refinement, adds that no file holds a write of the future (`Past`), so that a
  write makes the saved copy old, and that a reconcile that finishes an upgrade has listed all its copy
  asks for (`Complete`). One step per action then shows that it maps to a step of `DataCustody`
  or a stutter.
* `EngineInv` adds which majors opened the volume (`Opened`), and that the StatefulSet changes its
  major only while an upgrade is Restoring onto a volume nobody has opened (`Moves`, `Serves`).
* `WriterInv`, `MountInv`, `PresentInv` and `ReadyInv` add, each for its property, that a deletion
  keeps to the major that wrote the files, that StatefulSet, pod and copy agree on the backup volume,
  that every file both listed and asked for exists, and that a torn backup is one that is still going
  to be taken again. `PresentInv` is where drops matter: a reconcile drops what its copy of the spec
  does not ask for, and as nothing is added where something may be dropped (`OneWay`), the spec does
  not ask for it by then either (`Keeps`).

### ScheduledBackup

`TypeCorrect`, `TimestampsUnique`, `FinishedNeverOverwritten`,
`OneNbackupAtATime` and the refinement `ImplementsRestorePoints` have no hypotheses; `ChainsComplete`
has `Supervised`, `SavedUntilExpired` has `Unmixed` and `Supervised \/ Poolless`.

`StampInv`: a timestamp a run may still write under, a killed run too, is claimed or its second is over
(`Claimed`), and no other run of the frequency has it (`Unshared`). `FileInv`: what bears a run's
timestamp is its own, and names are unique. `PoolInv`: who needs the lock has it, so a physical run's
timestamp is the latest there is, and its pool the newest. `RootInv` relates the server's backup
history to the pools, with any number of orphans writing: what the history calls a pool's level 0 is
that pool's complete file, or the pool has expired (`HistoryTrue`, `HistoryFile`); a run that could make
a pool does not make one that the history or an orphan knows (`HistoryFresh`), so what is being written
is in its place or its pool is gone (`Writing`). Hence a run works on a pool whose level 0 backups are
complete (`Founded`), a level 1 has a complete level 0 beside it, if not always the one it is relative
to (`Rooted`), and what a pool holds is no newer than the pools after it (`Ordered`). Without orphans
`ChainInv` adds that the level 0 a run is about to refer to is the one the server refers to (`Based`).
`Saved` and `Kept` say that what a run saved is there until it expires.

The refinement is proved step by step: only `EndBackup` and `OrphanEnds` add a point, at most one
each, since by `Rooted` no backup that completes is the base some other one was waiting for; only
`DeletePools` and `Prune` take any, and each point they take is one `RestorePoints` lets go. The pool
`DeletePools` leaves has a complete level 0 of every database, no older by `Ordered` than what goes; it
is usable even where an orphan has spoilt a level 1.

### SecurityDatabase and ServerPod

`AccountInv` relates archives to the ghost `saved`: among the archives a major can read, the newest, if
complete, holds what the last successful backup of such a major saved (`ArchivesTrue`), and there is
none only if nothing was saved (`ArchivesKept`). The volume has the accounts or no file yet, and then
they are owed by an archive (`OnVolume`, `Pending`); `Migrating` says what each temporary file holds
at each command. That a newest archive exists needs the maximum of a set of times, `GreatestExists` of
`BoundedSets`, by well-founded induction on the naturals. From it follow `AccountsServed`, `WholeServed`
and `AccountsSaved`, all with `Undisturbed`.

`ServerPodProofs` has `PasswordKept` (the copy agrees with the Instance on the Secret's name, and only
a reconcile without one creates a Secret), `LabelsTruthful` (with `Unswapped`) and `NothingMissed`:
with nothing queued and no reconcile under way, template, aliases, labels and status are those of the
Secret, the spec and the running server (`Settled`). Its invariant follows the reconcile: as long as the
name has not been queued again, everything up to the current step is up to date (`UpToDate`), so
whatever changes behind its back must queue it. Beside `TypeCorrect` of both modules these have no
other hypotheses.

### Retention

| Theorem | Property |
|---|---|
| `TypeCorrect` | `TypeOK` |
| `ValuesAgree` | `EnabledAgree` |
| `StampOrder` | that `expr` orders timestamps as the times they stand for |
| `BackupsKept` | `KeptLongEnough` |
| `VolumeBounded` | `KeptNoLonger` |
| `LatestBackupKept` | `LatestKept` |

None has a hypothesis. The argument has four parts:

* *The calendar.* A year has 365 or 366 days and a month 28 to 31 (`YearLength`, `MonthStart`); every
  day lies in one year and one month of it (`YearExists`, `MonthExists`), so `Civil` finds its date
  (`CivilCorrect`). n months in a row have 30n - 2 to 31n days (`MonthsApart`), n years 365n to 366n
  (`WholeYearsApart`), from any month and any year on. Hence the cutoff of any retention lies between
  its shortest and its longest reading (`DateAgoBounds`), wherever the day of the month runs over.
* *Timestamps.* Later days have later dates (`CivilOrder`), so the number a timestamp's digits spell
  (`Code`) grows with the time; comparing the twelve digits one by one compares these numbers
  (`ReadsOrder`). Together this is `StampOrder`, and a prune keeps exactly the files that are not
  older than the cutoff (`PrunedFiles`).
* *Values.* `Atoi` is a number, and positive exactly if a digit is not zero (`AtoiPositive`).
* *Runs.* `TypeOK` and `StartedNow`, that a run under way has started at the current time, are
  inductive; with them each of the properties is. Time never runs backwards, so what a prune must
  leave alone shrinks with every step, and what it removed was too old already.

The statements about digits and dates are inductions over the positions of a sequence or over years.
They are made in the form of sets: a set of indices that contains 0 and the successor of each of its
members reaches the last one (`IntervalInduction` of `BoundedSets`).

### Only model-checked

* Liveness: `DeletionEnds`, `UpgradeCompletes`, `Converges`, `ServerStarts`, `PasswordFollows`,
  `VersionReported`. Fairness and `ENABLED` are outside what this proof system handles.

No module declares a RECURSIVE operator, so every module is open to proof.

## Not modelled

* `status.warning` and `orphanedBackups`: no decision depends on them. (The warning is computed only
  when a database is pending, so a mere drop clears it although the orphaned backup is still there;
  `src/README.md:194` says "Cleared automatically once no orphaned backup remains".)
* Caches of the StatefulSet and the backup Pod that trail; the manager's periodic resync.
* Times beyond year 9999, where `%Y` prints five digits and the order of timestamps breaks, and
  retentions of so many years that `date` refuses them: under `set -e` such a run ends after its
  backup and prunes nothing.
* Page size, charset, collation, shadow files, compression, the Service's type and port, storage sizes.
* Defaults and CEL validation other than the rule on retention values (run by the API server), manager
  start-up (`cmd/main.go`), generated code and manifests: configuration rather than behaviour.

## Plan

1. Done: the reconciler (upgrade, deletion, offline backup, provisioning, schedules), the scheduled
   backup script, `TypeCorrect` and `BackupsRunAlone`.
2. Done: `SecurityDatabase`, `ServerPod`, `Retention`; `DataCustody` and `RestorePoints` with their
   refinements; stale reads, silent SQL failures and orphaned backups as faults.
3. Done: every safety property of `InstanceReconciler`, `ScheduledBackup`, `SecurityDatabase`,
   `ServerPod` and `Retention`, and both refinements, proved.
4. Done: `ImplementsRestorePoints` without hypotheses, orphans included. What is left is listed under
   "Only model-checked" and "Not modelled".
