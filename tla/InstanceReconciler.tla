------------------------- MODULE InstanceReconciler -------------------------
(***************************************************************************)
(* The life of one Instance name under Kubebird's controller: the reconcile *)
(* loop (Reconcile, reconcileInstance, reconcileDeletion), the major        *)
(* version upgrade (reconcileMajorUpgrade), the offline backup Pod          *)
(* (backupDatabases, backupDatabasesOffline) and the provisioning of        *)
(* databases (reconcileDatabases), interleaved with the cluster it drives   *)
(* (API server, StatefulSet controller, kubelet, garbage collector, PVC     *)
(* protection), with users editing the Instance and with clients writing to *)
(* its databases.                                                           *)
(*                                                                          *)
(* The work queue runs one reconcile of a name at a time, so the controller *)
(* is one process whose program counter pc stops before every API call that *)
(* the rest of the cluster can observe.  obj is the reconcile's own copy of *)
(* the Instance: the API server accepts a write of it only while it is      *)
(* still current (the resourceVersion check).                               *)
(***************************************************************************)
EXTENDS Integers, FiniteSets

CONSTANTS
    DB,         \* database names
    Versions,   \* spec.version values, positive numbers
    MajorOf,    \* Firebird major of a version, 0 when the tag tells none
    Shadow,     \* whether spec.storage.shadow is set
    Scheduled,  \* whether spec.backup.retention enables a frequency
    Specs,      \* the Instance specs a user may create
    Edits,      \* the kinds of spec edit a user may make
    Faults,     \* what may go wrong, see FaultKinds
    MaxCreates, \* bound on Instances created under the name
    MaxEdits,   \* bound on spec edits
    MaxErrors,  \* bound on failed calls, when "error" is not in Faults
    MaxWrites   \* bound on client writes

NoVersion == 0

(* File contents: the number of the last client write they hold.           *)
Absent  == -1
Partial == -2
Files   == {Partial, Absent} \cup 0..MaxWrites

Vols == IF Shadow THEN {"primary", "shadow"} ELSE {"primary"}

EditKinds == {"version", "addDatabase", "dropDatabase", "enableBackup",
              "disableBackup", "backupOnDelete"}

(***************************************************************************)
(* "error": an API call of a reconcile fails, or the manager restarts, any  *)
(* number of times.                                                         *)
(* "evict": a running pod is killed (node drain, out of memory).            *)
(* "partialRestore": gbak -create fails after creating its target file.     *)
(* "silentSql": a statement fails, and isql, run without -bail, exits 0.    *)
(* "staleCache": the reconcile's reads of a live Instance trail its writes. *)
(* "statusLag": StatefulSet status trails its pods.                         *)
(* "unlistedWrite": clients write to databases status does not list yet.    *)
(* "restoringWrite": clients write while an upgrade is still Restoring.     *)
(* "earlyEdit", "earlyDelete": users edit or delete an Instance that has    *)
(* not settled.                                                             *)
(* "earlyCreate": users recreate before the last Instance's leftovers go.   *)
(***************************************************************************)
FaultKinds == {"error", "evict", "partialRestore", "silentSql", "staleCache",
               "statusLag", "unlistedWrite", "restoringWrite",
               "earlyEdit", "earlyDelete", "earlyCreate"}

ASSUME ConstantsAssumption ==
    /\ Versions \subseteq Nat \ {NoVersion}
    /\ MajorOf \in [Versions \cup {NoVersion} -> Nat]
    /\ MajorOf[NoVersion] = 0
    /\ Shadow \in BOOLEAN /\ Scheduled \in BOOLEAN
    /\ Specs \subseteq [version : Versions, backup : BOOLEAN,
                        backupOnDelete : BOOLEAN, dbs : SUBSET DB \ {{}}]
    /\ Edits \subseteq EditKinds
    /\ Faults \subseteq FaultKinds
    /\ MaxCreates \in Nat /\ MaxEdits \in Nat
    /\ MaxErrors \in Nat /\ MaxWrites \in Nat

Stages == {"None", "BackingUp", "Releasing", "Restoring"}
Phases == {"", "Provisioning", "Ready", "Upgrading", "Deleting"}
Messages == {"", "deleting", "stopping", "backingUp", "releasing",
             "finalizer", "waiting", "error", "ready", "notReady"}

(***************************************************************************)
(* An Instance: metadata (life, finalizer), spec (version; backup, whether  *)
(* backupVolumeSpec is set; backupOnDelete; dbs, spec.databases) and status *)
(* (databases, upgrade as stage/from/to, phase, the Available condition and *)
(* message).                                                                *)
(***************************************************************************)
Instances ==
    [life : {"absent", "live", "deleting"}, finalizer : BOOLEAN,
     version : Versions \cup {NoVersion}, backup : BOOLEAN,
     backupOnDelete : BOOLEAN, dbs : SUBSET DB,
     databases : SUBSET DB, stage : Stages,
     from : Versions \cup {NoVersion}, to : Versions \cup {NoVersion},
     phase : Phases, available : BOOLEAN, message : Messages]

NoInstance ==
    [life |-> "absent", finalizer |-> FALSE,
     version |-> NoVersion, backup |-> FALSE, backupOnDelete |-> FALSE,
     dbs |-> {}, databases |-> {}, stage |-> "None",
     from |-> NoVersion, to |-> NoVersion,
     phase |-> "", available |-> FALSE, message |-> ""]

StatefulSets == [life : {"absent", "owned", "orphan"},
                 version : Versions \cup {NoVersion}, backup : BOOLEAN,
                 replicas : {0, 1}]
Pods == [st : {"none", "pending", "ready", "stopping"},
         version : Versions \cup {NoVersion}, backup : BOOLEAN]
BackupPods == [st : {"none", "pending", "running", "succeeded", "failed"},
               version : Versions \cup {NoVersion}, dbs : SUBSET DB]

NoSts == [life |-> "absent", version |-> NoVersion, backup |-> FALSE,
          replicas |-> 0]
NoPod == [st |-> "none", version |-> NoVersion, backup |-> FALSE]
NoBackupPod == [st |-> "none", version |-> NoVersion, dbs |-> {}]

Steps == {"idle", "addFinalizer", "upgrade", "startUpgrade", "backup",
          "scale", "offline", "backedUp", "release", "deletePrimary",
          "deleteShadow", "released", "restoring", "pvcs", "sts", "databases",
          "schedule", "cronjob", "finish", "phase", "available", "summary", "waiting", "failed",
          "deletion", "deletionMessage", "finalizerMessage",
          "removeFinalizer"}

VARIABLES
    inst,    \* the Instance in the API server
    queued,  \* whether the work queue holds the Instance's name
    pc,      \* the controller's next step
    obj,     \* the reconcile's copy of the Instance
    cache,   \* the manager's cached Instance, where reads may be stale
    running, \* the version reconcileMajorUpgrade read off the StatefulSet
    ready,   \* ReadyReplicas > 0 as the StatefulSet's CreateOrUpdate saw it
    todo,    \* databases left to drop or provision in this reconcile
    sts,     \* the StatefulSet's spec: owner, pod template and replicas
    rep,     \* the StatefulSet's status: replicas and ready replicas
    pod,     \* the Firebird server pod
    bk,      \* the offline backup Pod
    pvc,     \* the primary and shadow PVCs
    bpvc,    \* whether the backup PVC exists
    cron,    \* the scheduled frequency's CronJob
    dir,     \* whether that frequency's directory is on the backup volume
    disk,    \* database files on the primary volume
    base,    \* gbak backups in the backup volume's base directory
    writer,  \* the major whose gbak wrote each of them
    engines, \* majors whose server initialised the primary volume
    due,     \* ghost: the last client write that must not be lost, per database
    used     \* counts of creations, edits, errors and client writes so far,
             \* and a ghost: late, whether this Instance's deletion met an
             \* error once it had backed up and released the primary volume

local   == <<pc, obj, running, ready, todo, cache>>
sched   == <<cron, dir>>
cluster == <<sts, rep, pod, bk, pvc, bpvc, sched>>
data    == <<disk, base, writer, engines>>
vars    == <<inst, queued, local, cluster, data, due, used>>

ControlOK ==
    /\ inst \in Instances
    /\ queued \in BOOLEAN
    /\ pc \in Steps
    /\ obj \in Instances /\ cache \in Instances
    /\ running \in Versions \cup {NoVersion}
    /\ ready \in BOOLEAN
    /\ todo \in SUBSET DB

ClusterOK ==
    /\ sts \in StatefulSets
    /\ rep \in [replicas : {0, 1}, ready : BOOLEAN]
    /\ pod \in Pods
    /\ bk \in BackupPods
    /\ pvc \in [Vols -> {"absent", "bound", "terminating"}]
    /\ bpvc \in BOOLEAN
    /\ cron \in {"absent", "owned", "orphan"}
    /\ dir \in BOOLEAN

DataOK ==
    /\ disk \in [DB -> Files]
    /\ base \in [DB -> Files]
    /\ writer \in [DB -> Nat]
    /\ engines \in SUBSET Nat
    /\ due \in [DB -> {Absent} \cup 0..MaxWrites]
    /\ used \in [creates : 0..MaxCreates, edits : 0..MaxEdits,
                 errors : 0..MaxErrors, writes : 0..MaxWrites,
                 late : BOOLEAN]

(* Every variable keeps its type, whatever goes wrong.                      *)
TypeOK == ControlOK /\ ClusterOK /\ DataOK

Init ==
    /\ inst = NoInstance
    /\ queued = FALSE
    /\ pc = "idle" /\ obj = NoInstance /\ cache = NoInstance
    /\ running = NoVersion /\ ready = FALSE /\ todo = {}
    /\ sts = NoSts
    /\ rep = [replicas |-> 0, ready |-> FALSE]
    /\ pod = NoPod
    /\ bk = NoBackupPod
    /\ pvc = [v \in Vols |-> "absent"]
    /\ bpvc = FALSE
    /\ cron = "absent" /\ dir = FALSE
    /\ disk = [db \in DB |-> Absent]
    /\ base = [db \in DB |-> Absent] /\ writer = [db \in DB |-> 0]
    /\ engines = {}
    /\ due = [db \in DB |-> Absent]
    /\ used = [creates |-> 0, edits |-> 0, errors |-> 0, writes |-> 0,
               late |-> FALSE]
-----------------------------------------------------------------------------
(***************************************************************************)
(* Control: the reconcile's locals are dead once it returns.                *)
(***************************************************************************)
Return ==
    /\ pc' = "idle" /\ obj' = NoInstance
    /\ running' = NoVersion /\ ready' = FALSE /\ todo' = {}
    /\ UNCHANGED cache

(* Returning an error, or asking for a requeue, puts the name back.         *)
Requeue == Return /\ queued' = TRUE

Goto(step) == pc' = step /\ UNCHANGED <<obj, running, ready, todo, cache>>

(***************************************************************************)
(* An error: reconcileInstance's callers record it first (setError),        *)
(* reconcileDeletion returns it at once.                                    *)
(***************************************************************************)
Fail ==
    IF obj.life = "deleting" THEN Requeue
                             ELSE Goto("failed") /\ UNCHANGED queued

(***************************************************************************)
(* A write of the reconcile's copy: refused when the copy is stale, and     *)
(* the refusal ends the reconcile (setError, or setProgress, would meet the *)
(* same conflict).  An accepted write is an event, which queues the name.   *)
(***************************************************************************)
Update(new, next) ==
    \/ /\ obj = inst
       /\ inst' = new
       /\ queued' = TRUE
       /\ IF next = "idle" THEN Return
          ELSE pc' = next /\ obj' = new /\ UNCHANGED <<running, ready, todo, cache>>
    \/ obj # inst /\ Requeue /\ UNCHANGED inst

(* The status setters skip the write when it would change nothing.          *)
Set(new, next) ==
    IF new # obj THEN Update(new, next)
    ELSE /\ IF next = "idle" THEN Return ELSE Goto(next)
         /\ UNCHANGED <<inst, queued>>
-----------------------------------------------------------------------------
(***************************************************************************)
(* Reconcile: read the Instance, from a cache, and choose the flow.         *)
(***************************************************************************)
Stale == "staleCache" \in Faults /\ inst.life = "live" /\ cache # inst

Read == IF Stale THEN cache ELSE inst

Reconcile ==
    /\ pc = "idle" /\ queued
    /\ queued' = FALSE
    /\ IF inst.life = "absent" THEN UNCHANGED local
       ELSE /\ obj' = Read
            /\ pc' = IF inst.life = "deleting" THEN "deletion"
                     ELSE IF Read.finalizer THEN "upgrade" ELSE "addFinalizer"
            /\ UNCHANGED <<running, ready, todo, cache>>
    /\ UNCHANGED <<inst, cluster, data, due, used>>

(* The watch delivers what was written, which is an event as well.          *)
CacheCatchesUp ==
    /\ Stale
    /\ cache' = inst
    /\ queued' = TRUE
    /\ UNCHANGED <<inst, pc, obj, running, ready, todo, cluster, data, due, used>>

AddFinalizer ==
    /\ pc = "addFinalizer"
    /\ Update([obj EXCEPT !.finalizer = TRUE], "upgrade")
    /\ UNCHANGED <<cluster, data, due, used>>
-----------------------------------------------------------------------------
(***************************************************************************)
(* reconcileMajorUpgrade: where an upgrade recorded in o resumes, given the *)
(* version run that the StatefulSet ran when this reconcile looked.         *)
(***************************************************************************)
(* A faulty variant, for the runs' mutants: a backup that never happens.    *)
UpgradeStepUnsaved(o, run) ==
    CASE o.version # o.to -> "failed"
      [] o.version = o.to /\ o.stage \in {"BackingUp", "Releasing"} -> "release"
      [] OTHER -> "pvcs"

UpgradeStep(o, run) ==
    CASE o.version # o.to      -> "failed"
      [] o.version = o.to /\ o.stage = "BackingUp" -> "backup"
      [] o.version = o.to /\ o.stage = "Releasing" ->
            IF run # o.to THEN "release" ELSE "restoring"
      [] OTHER -> "pvcs"

ReconcileMajorUpgrade ==
    /\ pc = "upgrade"
    /\ IF sts.life = "absent" THEN Goto("pvcs")
       ELSE /\ running' = sts.version
            /\ pc' = IF obj.stage = "None" THEN "startUpgrade"
                     ELSE UpgradeStep(obj, sts.version)
            /\ UNCHANGED <<obj, ready, todo, cache>>
    /\ UNCHANGED <<inst, queued, cluster, data, due, used>>

(* Faulty variant: a downgrade does not count as a change of major.         *)
NeedsUpgradeUpwards(o, run) ==
    /\ MajorOf[run] # 0 /\ MajorOf[o.version] # 0
    /\ MajorOf[run] < MajorOf[o.version]

NeedsUpgrade(o, run) ==
    /\ MajorOf[run] # 0 /\ MajorOf[o.version] # 0
    /\ MajorOf[run] # MajorOf[o.version]

(* Faulty variant: spec.storage.backup is not required.                     *)
StartMajorUpgradeUnchecked ==
    /\ pc = "startUpgrade"
    /\ IF ~NeedsUpgrade(obj, running) THEN Goto("pvcs") /\ UNCHANGED <<inst, queued>>
       ELSE IF MajorOf[obj.version] < MajorOf[running]
       THEN Fail /\ UNCHANGED inst
       ELSE Update([obj EXCEPT !.stage = "BackingUp", !.from = running,
                               !.to = obj.version, !.phase = "Upgrading"],
                   "backup")
    /\ UNCHANGED <<cluster, data, due, used>>

StartMajorUpgrade ==
    /\ pc = "startUpgrade"
    /\ IF ~NeedsUpgrade(obj, running) THEN Goto("pvcs") /\ UNCHANGED <<inst, queued>>
       ELSE IF MajorOf[obj.version] < MajorOf[running] \/ ~obj.backup
       THEN Fail /\ UNCHANGED inst
       ELSE Update([obj EXCEPT !.stage = "BackingUp", !.from = running,
                               !.to = obj.version, !.phase = "Upgrading"],
                   "backup")
    /\ UNCHANGED <<cluster, data, due, used>>
-----------------------------------------------------------------------------
(***************************************************************************)
(* backupDatabases, run by an upgrade still BackingUp and by a deletion.    *)
(* BackupVersion is the version whose image and gbak it uses.               *)
(***************************************************************************)
(* Faulty variants: the version asked for, and the major for the full tag.  *)
BackupVersionWanted(o) == o.version
BackupVersionMajor(o) == MajorOf[IF o.stage # "None" THEN o.from ELSE o.version]

BackupVersion(o) == IF o.stage # "None" THEN o.from ELSE o.version

AfterBackup == IF obj.life = "deleting" THEN "release" ELSE "backedUp"

(* Faulty variant: backs up without waiting for the server pod to be gone.  *)
BackupDatabasesHasty ==
    /\ pc = "backup"
    /\ CASE sts.life = "absent" -> Goto(AfterBackup) /\ UNCHANGED <<inst, queued>>
         [] sts.life # "absent" /\ sts.replicas # 0 ->
                Set([obj EXCEPT !.message = "stopping"], "scale")
         [] OTHER ->
                Set([obj EXCEPT !.message = "backingUp"], "offline")
    /\ UNCHANGED <<cluster, data, due, used>>

BackupDatabases ==
    /\ pc = "backup"
    /\ CASE sts.life = "absent" -> Goto(AfterBackup) /\ UNCHANGED <<inst, queued>>
         [] sts.life # "absent" /\ sts.replicas # 0 ->
                Set([obj EXCEPT !.message = "stopping"], "scale")
         [] sts.life # "absent" /\ sts.replicas = 0 /\ rep.replicas # 0 ->
                Set([obj EXCEPT !.message = "stopping"], "waiting")
         [] OTHER ->
                Set([obj EXCEPT !.message = "backingUp"], "offline")
    /\ UNCHANGED <<cluster, data, due, used>>

(* Scaling a StatefulSet that is gone by now fails.                         *)
ScaleDown ==
    /\ pc = "scale"
    /\ IF sts.life = "absent" THEN Fail /\ UNCHANGED sts
       ELSE /\ sts' = [sts EXCEPT !.replicas = 0]
            /\ queued' = TRUE
            /\ Goto("waiting")
    /\ UNCHANGED <<inst, rep, pod, bk, pvc, bpvc, sched, data, due, used>>

(* Faulty variant: backs up spec.databases instead of status.databases.     *)
BackupDatabasesOfflineSpec ==
    /\ pc = "offline"
    /\ CASE bk.st = "none" ->
                /\ bk' = [st |-> "pending", version |-> BackupVersion(obj),
                          dbs |-> obj.dbs]
                /\ Goto("waiting") /\ UNCHANGED queued
         [] bk.st = "succeeded" ->
                bk' = NoBackupPod /\ Goto(AfterBackup) /\ UNCHANGED queued
         [] bk.st = "failed" -> bk' = NoBackupPod /\ Fail
         [] OTHER -> Goto("waiting") /\ UNCHANGED <<bk, queued>>
    /\ UNCHANGED <<inst, sts, rep, pod, pvc, bpvc, sched, data, due, used>>

BackupDatabasesOffline ==
    /\ pc = "offline"
    /\ CASE bk.st = "none" ->
                /\ bk' = [st |-> "pending", version |-> BackupVersion(obj),
                          dbs |-> obj.databases]
                /\ Goto("waiting") /\ UNCHANGED queued
         [] bk.st = "succeeded" ->
                bk' = NoBackupPod /\ Goto(AfterBackup) /\ UNCHANGED queued
         [] bk.st = "failed" -> bk' = NoBackupPod /\ Fail
         [] OTHER -> Goto("waiting") /\ UNCHANGED <<bk, queued>>
    /\ UNCHANGED <<inst, sts, rep, pod, pvc, bpvc, sched, data, due, used>>

(* Faulty variant: status.databases is not reset before the restore.        *)
RecordBackedUpListed ==
    /\ pc = "backedUp"
    /\ LET new == [obj EXCEPT !.stage = "Releasing"]
       IN  Update(new, UpgradeStep(new, running))
    /\ UNCHANGED <<cluster, data, due, used>>

RecordBackedUp ==
    /\ pc = "backedUp"
    /\ LET new == [obj EXCEPT !.databases = {}, !.stage = "Releasing"]
       IN  Update(new, UpgradeStep(new, running))
    /\ UNCHANGED <<cluster, data, due, used>>
-----------------------------------------------------------------------------
(***************************************************************************)
(* releasePrimaryAndShadowStorage, run by an upgrade that is Releasing and  *)
(* by every deletion.  A deletion that was not asked for a backup gives up  *)
(* what clients wrote.                                                      *)
(***************************************************************************)
WantsBackup(o) == o.backup /\ o.backupOnDelete

(* Faulty variant: a deletion too waits for the PVCs to be gone.            *)
AfterReleaseAwaited == "released"

AfterRelease == IF obj.life = "deleting" THEN "finalizerMessage" ELSE "released"

ReleaseStorage ==
    /\ pc = "release"
    /\ Set([obj EXCEPT !.message = "releasing"], "deletePrimary")
    /\ UNCHANGED <<cluster, data, due, used>>

DeletePVC(v, next) ==
    /\ pvc' = [pvc EXCEPT ![v] = IF @ = "bound" THEN "terminating" ELSE @]
    /\ Goto(next)
    /\ UNCHANGED <<inst, queued, sts, rep, pod, bk, bpvc, sched, data, used>>

DeletePrimary ==
    /\ pc = "deletePrimary"
    /\ DeletePVC("primary", IF Shadow THEN "deleteShadow" ELSE AfterRelease)
    /\ due' = IF obj.life = "deleting" /\ ~WantsBackup(obj)
              THEN [db \in DB |-> Absent] ELSE due

DeleteShadow ==
    /\ pc = "deleteShadow"
    /\ DeletePVC("shadow", AfterRelease)
    /\ UNCHANGED due

(* releaseStorageForUpgrade waits for the PVCs to be gone.                  *)
AwaitRelease ==
    /\ pc = "released"
    /\ Goto(IF \E v \in Vols : pvc[v] # "absent" THEN "waiting" ELSE "restoring")
    /\ UNCHANGED <<inst, queued, cluster, data, due, used>>

RecordReleased ==
    /\ pc = "restoring"
    /\ Update([obj EXCEPT !.stage = "Restoring"], "pvcs")
    /\ UNCHANGED <<cluster, data, due, used>>
-----------------------------------------------------------------------------
(***************************************************************************)
(* reconcileInstance once no upgrade holds it back.  reconcilePVCs creates  *)
(* what is missing and leaves a terminating PVC alone.                      *)
(***************************************************************************)
ReconcilePVCs ==
    /\ pc = "pvcs"
    /\ pvc' = [v \in Vols |-> IF pvc[v] = "absent" THEN "bound" ELSE pvc[v]]
    /\ bpvc' = (bpvc \/ obj.backup)
    /\ Goto("sts")
    /\ UNCHANGED <<inst, queued, sts, rep, pod, bk, sched, data, due, used>>

(* mutateStatefulSet also takes over a StatefulSet left by a namesake.      *)
ApplyStatefulSet ==
    /\ pc = "sts"
    /\ LET new == [life |-> "owned", version |-> obj.version,
                   backup |-> obj.backup, replicas |-> 1]
           left == (obj.dbs \ obj.databases) \cup (obj.databases \ obj.dbs)
       IN  /\ sts' = new
           /\ queued' = (queued \/ new # sts)
           /\ ready' = rep.ready
           /\ todo' = IF rep.ready THEN left ELSE {}
           /\ pc' = IF ~rep.ready THEN "finish"
                    ELSE IF left # {} THEN "databases" ELSE "schedule"
    /\ UNCHANGED <<inst, obj, running, cache, rep, pod, bk, pvc, bpvc, sched, data, due, used>>

(***************************************************************************)
(* reconcileDatabases, one database at a time, drops first: every exec      *)
(* needs the server pod.  A file that exists is registered as it is; one    *)
(* with a backup the pod can see is restored, which the pod's gbak refuses  *)
(* when a newer major wrote the backup; any other is created empty.         *)
(***************************************************************************)
Removed == todo \ obj.dbs

DropDatabase(db) ==
    /\ db \in Removed
    /\ disk' = [disk EXCEPT ![db] = Absent]
    /\ due' = [due EXCEPT ![db] = Absent]
    /\ UNCHANGED <<base, writer>>

(* Faulty variant: no database is ever restored.                            *)
RestorableNever(db) == FALSE

Restorable(db) == obj.backup /\ pod.backup /\ base[db] # Absent

TooNew(db) == /\ disk[db] = Absent /\ Restorable(db)
              /\ writer[db] > MajorOf[pod.version]

ProvisionDatabase(db) ==
    /\ Removed = {} /\ ~TooNew(db)
    /\ disk' = [disk EXCEPT ![db] = IF @ # Absent THEN @
                                    ELSE IF Restorable(db) THEN base[db] ELSE 0]
    /\ UNCHANGED <<base, writer, due>>

ReconcileDatabase ==
    /\ pc = "databases" /\ todo # {} /\ pod.st = "ready"
    /\ \E db \in todo :
          /\ todo' = todo \ {db}
          /\ DropDatabase(db) \/ ProvisionDatabase(db)
    /\ UNCHANGED <<inst, queued, pc, obj, running, ready, cache, cluster, engines, used>>

(* A DROP or CREATE DATABASE that fails without isql saying so.             *)
StatementFails ==
    /\ "silentSql" \in Faults
    /\ pc = "databases" /\ pod.st = "ready"
    /\ \E db \in todo :
          /\ todo' = todo \ {db}
          /\ \/ db \in Removed /\ due' = [due EXCEPT ![db] = Absent]
             \/ /\ Removed = {} /\ disk[db] = Absent /\ ~Restorable(db)
                /\ UNCHANGED due
    /\ UNCHANGED <<inst, queued, pc, obj, running, ready, cache, cluster, data, used>>

(* No server pod to run the command, or gbak refuses the backup.            *)
ExecFails ==
    /\ pc = "databases" /\ todo # {}
    /\ \/ pod.st # "ready"
       \/ Removed = {} /\ \E db \in todo : TooNew(db)
    /\ Fail
    /\ UNCHANGED <<inst, cluster, data, due, used>>

RestoreFails ==
    /\ "partialRestore" \in Faults
    /\ pc = "databases" /\ pod.st = "ready" /\ Removed = {}
    /\ \E db \in todo :
          /\ disk[db] = Absent /\ Restorable(db) /\ ~TooNew(db)
          /\ disk' = [disk EXCEPT ![db] = Partial]
    /\ Fail
    /\ UNCHANGED <<inst, cluster, base, writer, engines, due, used>>

RecordDatabases ==
    /\ pc = "databases" /\ todo = {}
    /\ Update([obj EXCEPT !.databases = obj.dbs], "schedule")
    /\ UNCHANGED <<cluster, data, due, used>>

(***************************************************************************)
(* reconcileScheduledBackups: the frequency's directory is made through the *)
(* server pod, in whatever that pod has mounted, before its CronJob is      *)
(* created for the first time.                                              *)
(***************************************************************************)
WantsSchedule(o) == Scheduled /\ o.backup

(* Faulty variant: no directory is ever prepared.                           *)
PrepareDirectoryNever ==
    /\ pc = "schedule" /\ Goto("cronjob")
    /\ UNCHANGED <<inst, queued, cluster, data, due, used>>

PrepareDirectory ==
    /\ pc = "schedule"
    /\ IF WantsSchedule(obj) /\ cron = "absent"
       THEN \/ /\ pod.st = "ready"
               /\ dir' = (dir \/ pod.backup)
               /\ Goto("cronjob") /\ UNCHANGED queued
            \/ pod.st # "ready" /\ Fail /\ UNCHANGED dir
       ELSE Goto("cronjob") /\ UNCHANGED <<queued, dir>>
    /\ UNCHANGED <<inst, sts, rep, pod, bk, pvc, bpvc, cron, data, due, used>>

(* Like the StatefulSet, a CronJob left by a namesake is taken over.        *)
ApplyCronJob ==
    /\ pc = "cronjob"
    /\ cron' = IF WantsSchedule(obj) THEN "owned" ELSE "absent"
    /\ queued' = (queued \/ cron' # cron)
    /\ Goto("finish")
    /\ UNCHANGED <<inst, sts, rep, pod, bk, pvc, bpvc, dir, data, due, used>>

(***************************************************************************)
(* The end of reconcileInstance, and the reports of Reconcile.              *)
(***************************************************************************)
(* Faulty variant: an off-by-one in the count of databases.                 *)
DoneStrict == ready /\ Cardinality(obj.databases) > Cardinality(obj.dbs)

Done == ready /\ Cardinality(obj.databases) >= Cardinality(obj.dbs)

(* Faulty variant: an upgrade ends with the first reconcile of its restore. *)
FinishMajorUpgradeEarly ==
    /\ pc = "finish"
    /\ Set([obj EXCEPT !.stage = "None", !.from = NoVersion, !.to = NoVersion], "phase")
    /\ UNCHANGED <<cluster, data, due, used>>

FinishMajorUpgrade ==
    /\ pc = "finish"
    /\ Set(IF Done THEN [obj EXCEPT !.stage = "None", !.from = NoVersion,
                                    !.to = NoVersion]
           ELSE obj, "phase")
    /\ UNCHANGED <<cluster, data, due, used>>

SetPhase ==
    /\ pc = "phase"
    /\ Set([obj EXCEPT !.phase = IF Done THEN "Ready"
                                 ELSE IF obj.stage # "None" THEN "Upgrading"
                                 ELSE "Provisioning"], "available")
    /\ UNCHANGED <<cluster, data, due, used>>

SetAvailable ==
    /\ pc = "available"
    /\ Set([obj EXCEPT !.available = Done], "summary")
    /\ UNCHANGED <<cluster, data, due, used>>

(* setError without an error mirrors the Available condition's message.     *)
ClearError ==
    /\ pc = "summary"
    /\ Set([obj EXCEPT !.message = IF obj.available THEN "ready" ELSE "notReady"],
           "idle")
    /\ UNCHANGED <<cluster, data, due, used>>

(* setProgress and setError, then a requeue; a deletion's wait is an error. *)
Report(message) ==
    /\ inst' = IF obj = inst /\ obj.life = "live"
               THEN [inst EXCEPT !.message = message] ELSE inst
    /\ Requeue
    /\ UNCHANGED <<cluster, data, due, used>>

SetProgress == pc = "waiting" /\ Report("waiting")

(* Faulty variant: the error is recorded and then swallowed.                *)
SetErrorSwallowed ==
    /\ pc = "failed" /\ Return
    /\ UNCHANGED <<inst, queued, cluster, data, due, used>>

SetError == pc = "failed" /\ Report("error")
-----------------------------------------------------------------------------
(***************************************************************************)
(* reconcileDeletion                                                        *)
(***************************************************************************)
ReportDeleting ==
    /\ pc = "deletion"
    /\ Set([obj EXCEPT !.phase = "Deleting"], "deletionMessage")
    /\ UNCHANGED <<cluster, data, due, used>>

(* Faulty variant: an upgrade that has only begun counts as backed up.      *)
BackedUpEarly(o) == o.stage # "None"

BackedUp(o) == o.stage \in {"Releasing", "Restoring"}

ReportDeletion ==
    /\ pc = "deletionMessage"
    /\ Set([obj EXCEPT !.message = "deleting"],
           IF WantsBackup(obj) /\ ~BackedUp(obj) THEN "backup" ELSE "release")
    /\ UNCHANGED <<cluster, data, due, used>>

ReportFinalizer ==
    /\ pc = "finalizerMessage"
    /\ Set([obj EXCEPT !.message = "finalizer"], "removeFinalizer")
    /\ UNCHANGED <<cluster, data, due, used>>

(* Without its finalizer the deleted Instance goes, orphaning what it owns. *)
RemoveFinalizer ==
    /\ pc = "removeFinalizer"
    /\ Update(NoInstance, "idle")
    /\ sts' = IF obj = inst /\ sts.life = "owned"
              THEN [sts EXCEPT !.life = "orphan"] ELSE sts
    /\ cron' = IF obj = inst /\ cron = "owned" THEN "orphan" ELSE cron
    /\ UNCHANGED <<rep, pod, bk, pvc, bpvc, dir, data, due, used>>

(***************************************************************************)
(* Any API call may fail, and the manager may restart between two of them.  *)
(* Late is the one stretch a deletion with a backup cannot go back over.    *)
(***************************************************************************)
Late == /\ obj.life = "deleting" /\ WantsBackup(obj) /\ ~BackedUp(obj)
        /\ pc \in {"deleteShadow", "finalizerMessage", "removeFinalizer"}

Abort ==
    /\ pc # "idle"
    /\ Requeue \/ (pc \notin {"failed", "waiting"} /\ Fail)
    /\ \/ "error" \in Faults /\ UNCHANGED used
       \/ /\ "error" \notin Faults /\ used.errors < MaxErrors
          /\ used' = [used EXCEPT !.errors = @ + 1, !.late = @ \/ Late]
    /\ UNCHANGED <<inst, cluster, data, due>>
-----------------------------------------------------------------------------
(***************************************************************************)
(* The cluster, as the controller relies on it.                             *)
(***************************************************************************)
Reported(p) == [replicas |-> IF p.st = "none" THEN 0 ELSE 1,
                ready |-> p.st = "ready"]

(* A StatefulSet status change is an event of the Instance that owns it.    *)
SetPod(p) ==
    /\ pod' = p
    /\ rep' = IF sts.life = "absent" \/ "statusLag" \in Faults THEN rep
              ELSE Reported(p)
    /\ queued' = (queued \/ rep' # rep)
    /\ UNCHANGED <<inst, local, sts, bk, pvc, bpvc, sched, base, writer, due, used>>

StatusCatchesUp ==
    /\ "statusLag" \in Faults /\ sts.life # "absent"
    /\ rep # Reported(pod)
    /\ rep' = Reported(pod)
    /\ queued' = TRUE
    /\ UNCHANGED <<inst, local, sts, pod, bk, pvc, bpvc, sched, data, due, used>>

PodCreated ==
    /\ sts.life # "absent" /\ sts.replicas = 1 /\ pod.st = "none"
    /\ SetPod([st |-> "pending", version |-> sts.version, backup |-> sts.backup])
    /\ UNCHANGED <<disk, engines>>

(* A pod starts on bound PVCs only; its init container seeds the security   *)
(* database of its own major.                                               *)
PodReady ==
    /\ pod.st = "pending"
    /\ \A v \in Vols : pvc[v] = "bound"
    /\ pod.backup => bpvc
    /\ MajorOf[pod.version] # 0
    /\ SetPod([pod EXCEPT !.st = "ready"])
    /\ engines' = engines \cup {MajorOf[pod.version]}
    /\ UNCHANGED disk

Outdated == \/ sts.replicas = 0
            \/ sts.version # pod.version
            \/ sts.backup # pod.backup

PodStopped ==
    /\ sts.life # "absent"
    /\ \/ pod.st = "pending" /\ sts.replicas = 0 /\ SetPod(NoPod)
       \/ pod.st = "ready" /\ (Outdated \/ "evict" \in Faults)
          /\ SetPod([pod EXCEPT !.st = "stopping"])
    /\ UNCHANGED <<disk, engines>>

PodGone ==
    /\ pod.st = "stopping"
    /\ SetPod(NoPod)
    /\ UNCHANGED <<disk, engines>>

(* Garbage collection of what a deleted Instance owned.                     *)
CollectStatefulSet ==
    /\ sts.life = "orphan"
    /\ sts' = NoSts
    /\ rep' = [replicas |-> 0, ready |-> FALSE]
    /\ pod' = IF pod.st = "ready" THEN [pod EXCEPT !.st = "stopping"]
              ELSE IF pod.st = "pending" THEN NoPod ELSE pod
    /\ queued' = TRUE
    /\ UNCHANGED <<inst, local, bk, pvc, bpvc, sched, data, due, used>>

CollectBackupPod ==
    /\ inst.life = "absent" /\ bk.st # "none"
    /\ bk' = NoBackupPod
    /\ UNCHANGED <<inst, queued, local, sts, rep, pod, pvc, bpvc, sched, data, due, used>>

CollectCronJob ==
    /\ cron = "orphan"
    /\ cron' = "absent"
    /\ queued' = TRUE
    /\ UNCHANGED <<inst, local, sts, rep, pod, bk, pvc, bpvc, dir, data, due, used>>

InUse == pod.st \in {"ready", "stopping"} \/ bk.st = "running"

PVCRemoved(v) ==
    /\ pvc[v] = "terminating" /\ ~InUse
    /\ pvc' = [pvc EXCEPT ![v] = "absent"]
    /\ IF v = "primary"
       THEN disk' = [db \in DB |-> Absent] /\ engines' = {}
       ELSE UNCHANGED <<disk, engines>>
    /\ UNCHANGED <<inst, queued, local, sts, rep, pod, bk, bpvc, sched, base, writer, due, used>>

BackupStarts ==
    /\ bk.st = "pending"
    /\ bpvc /\ \A v \in Vols : pvc[v] = "bound"
    /\ bk' = [bk EXCEPT !.st = "running"]
    /\ UNCHANGED <<inst, queued, local, sts, rep, pod, pvc, bpvc, sched, data, due, used>>

(***************************************************************************)
(* databaseBackupScript: gbak opens files of its own major only, none that  *)
(* a server holds, and the security database must be there.  A run killed   *)
(* halfway leaves a truncated copy where the last backup was.               *)
(***************************************************************************)
Readable ==
    IF MajorOf[bk.version] \in engines /\ pod.st # "ready"
    THEN {db \in bk.dbs : disk[db] # Absent} ELSE {}

CanBackUp ==
    /\ MajorOf[bk.version] \in engines
    /\ pod.st # "ready"
    /\ bk.dbs \subseteq Readable

WrittenBy(dbs) ==
    [db \in DB |-> IF db \in dbs THEN MajorOf[bk.version] ELSE writer[db]]

BackupSucceeds ==
    /\ bk.st = "running" /\ CanBackUp
    /\ bk' = [bk EXCEPT !.st = "succeeded"]
    /\ base' = [db \in DB |-> IF db \in bk.dbs THEN disk[db] ELSE base[db]]
    /\ writer' = WrittenBy(bk.dbs)
    /\ UNCHANGED <<inst, queued, local, sts, rep, pod, pvc, bpvc, sched, disk, engines, due, used>>

(* It may have backed up other databases first, and none is undone.         *)
BackupFails ==
    /\ bk.st = "running"
    /\ ~CanBackUp \/ "evict" \in Faults
    /\ \E copied \in SUBSET Readable : \E torn \in SUBSET (Readable \ copied) :
          /\ torn # {} => "evict" \in Faults /\ Cardinality(torn) = 1
          /\ base' = [db \in DB |-> IF db \in copied THEN disk[db]
                                    ELSE IF db \in torn THEN Partial ELSE base[db]]
          /\ writer' = WrittenBy(copied \cup torn)
    /\ bk' = [bk EXCEPT !.st = "failed"]
    /\ UNCHANGED <<inst, queued, local, sts, rep, pod, pvc, bpvc, sched, disk, engines, due, used>>
-----------------------------------------------------------------------------
(***************************************************************************)
(* Users and clients.                                                       *)
(***************************************************************************)
Clean == /\ sts.life = "absent" /\ pod.st = "none" /\ bk.st = "none"
         /\ cron = "absent"
         /\ \A v \in Vols : pvc[v] = "absent"

UserCreates ==
    /\ inst.life = "absent" /\ used.creates < MaxCreates
    /\ Clean \/ "earlyCreate" \in Faults
    /\ \E spec \in Specs :
          /\ inst' = [NoInstance EXCEPT !.life = "live",
                         !.version = spec.version, !.backup = spec.backup,
                         !.backupOnDelete = spec.backupOnDelete, !.dbs = spec.dbs]
          /\ due' = IF spec.backup THEN due ELSE [db \in DB |-> Absent]
    /\ cache' = IF "staleCache" \in Faults THEN inst' ELSE cache
    /\ queued' = TRUE
    /\ used' = [used EXCEPT !.creates = @ + 1, !.late = FALSE]
    /\ UNCHANGED <<pc, obj, running, ready, todo, cluster, data>>

(* An Instance has at least one database (MinItems).                        *)
Edited(kind) ==
    CASE kind = "version" ->
            {[inst EXCEPT !.version = v] : v \in Versions \ {inst.version}}
      [] kind = "addDatabase" ->
            {[inst EXCEPT !.dbs = @ \cup {db}] : db \in DB \ inst.dbs}
      [] kind = "dropDatabase" ->
            {[inst EXCEPT !.dbs = @ \ {db}] : db \in inst.dbs} \ {[inst EXCEPT !.dbs = {}]}
      [] kind = "enableBackup" ->
            {[inst EXCEPT !.backup = TRUE]} \ {inst}
      [] kind = "disableBackup" ->
            {[inst EXCEPT !.backup = FALSE]} \ {inst}
      [] OTHER -> {[inst EXCEPT !.backupOnDelete = ~@]}

Settled == /\ inst.phase = "Ready" /\ inst.version = sts.version
           /\ inst.databases = inst.dbs

UserEdits ==
    /\ inst.life = "live" /\ used.edits < MaxEdits
    /\ Settled \/ "earlyEdit" \in Faults
    /\ \E kind \in Edits : \E new \in Edited(kind) : inst' = new
    /\ queued' = TRUE
    /\ used' = [used EXCEPT !.edits = @ + 1]
    /\ UNCHANGED <<local, cluster, data, due>>

UserDeletes ==
    /\ inst.life = "live"
    /\ Settled \/ "earlyDelete" \in Faults
    /\ inst' = IF inst.finalizer THEN [inst EXCEPT !.life = "deleting"]
               ELSE NoInstance
    /\ queued' = TRUE
    /\ UNCHANGED <<local, cluster, data, due, used>>

(* Clients use the databases the status lists, once they are restored.      *)
Announced(db) ==
    /\ db \in inst.databases \/ "unlistedWrite" \in Faults
    /\ inst.stage # "Restoring" \/ "restoringWrite" \in Faults

Discarded == inst.life = "deleting" /\ ~WantsBackup(inst)

ClientWrites ==
    /\ pod.st = "ready" /\ used.writes < MaxWrites /\ ~Discarded
    /\ \E db \in DB :
          /\ disk[db] >= 0
          /\ Announced(db)
          /\ disk' = [disk EXCEPT ![db] = used.writes + 1]
          /\ due' = [due EXCEPT ![db] = used.writes + 1]
    /\ used' = [used EXCEPT !.writes = @ + 1]
    /\ UNCHANGED <<inst, queued, local, cluster, base, writer, engines>>
-----------------------------------------------------------------------------
Controller ==
    \/ Reconcile \/ AddFinalizer \/ ReconcileMajorUpgrade \/ StartMajorUpgrade
    \/ BackupDatabases \/ ScaleDown \/ BackupDatabasesOffline \/ RecordBackedUp
    \/ ReleaseStorage \/ DeletePrimary \/ DeleteShadow \/ AwaitRelease
    \/ RecordReleased \/ ReconcilePVCs \/ ApplyStatefulSet
    \/ ReconcileDatabase \/ ExecFails \/ RecordDatabases
    \/ PrepareDirectory \/ ApplyCronJob \/ FinishMajorUpgrade \/ SetPhase \/ SetAvailable \/ ClearError
    \/ SetProgress \/ SetError
    \/ ReportDeleting \/ ReportDeletion \/ ReportFinalizer \/ RemoveFinalizer

PodLife == PodCreated \/ PodReady \/ PodStopped \/ PodGone

Volumes == \E v \in Vols : PVCRemoved(v)

Backups == BackupStarts \/ BackupSucceeds \/ BackupFails

Garbage == CollectStatefulSet \/ CollectBackupPod \/ CollectCronJob

Users == UserCreates \/ UserEdits \/ UserDeletes \/ ClientWrites

Next ==
    \/ Controller \/ CacheCatchesUp \/ Abort \/ RestoreFails \/ StatementFails
    \/ PodLife \/ StatusCatchesUp \/ Volumes \/ Backups \/ Garbage \/ Users

Spec == Init /\ [][Next]_vars

(***************************************************************************)
(* The manager's worker keeps running while the queue is not empty, and     *)
(* Kubernetes' own controllers keep working; users owe nothing.             *)
(***************************************************************************)
FairSpec ==
    /\ Spec
    /\ WF_vars(Controller) /\ WF_vars(CacheCatchesUp)
    /\ WF_vars(PodLife) /\ WF_vars(StatusCatchesUp)
    /\ \A v \in Vols : WF_vars(PVCRemoved(v))
    /\ WF_vars(Backups) /\ WF_vars(Garbage)
-----------------------------------------------------------------------------
(***************************************************************************)
(* What a client wrote to an announced database is never lost: it is on a   *)
(* primary volume nobody has deleted, or in the backup volume, across       *)
(* upgrades, deletions, recreations and failures of any step               *)
(* (reconcileMajorUpgrade, reconcileDeletion, releasePrimaryAndShadowStorage).*)
(***************************************************************************)
NoDataLost ==
    \A db \in DB : due[db] # Absent =>
        \/ pvc["primary"] = "bound" /\ disk[db] = due[db]
        \/ base[db] = due[db]

(***************************************************************************)
(* The offline backup runs only while there is no server pod, not even one  *)
(* still stopping: what backupDatabases' two replica checks are for.        *)
(***************************************************************************)
BackupQuiesced == bk.st = "running" => pod.st = "none"

(***************************************************************************)
(* A primary volume is only ever opened by servers of one Firebird major:   *)
(* a major upgrade gets fresh storage, a refused one never starts           *)
(* (reconcileMajorUpgrade, mutateStatefulSet).                              *)
(***************************************************************************)
OneEngine == Cardinality(engines) <= 1

(***************************************************************************)
(* The backup Pod runs the version that wrote the databases (the version    *)
(* parameter of backupDatabases).                                           *)
(***************************************************************************)
BackupByWriter ==
    bk.st \in {"pending", "running"} /\ engines # {} =>
        MajorOf[bk.version] \in engines

(***************************************************************************)
(* The backup Pod can be scheduled: the volume it writes to exists          *)
(* (createDatabaseBackupPod, against startMajorUpgrade's check of the spec). *)
(***************************************************************************)
BackupHasVolume == bk.st # "none" => bpvc

(***************************************************************************)
(* A scheduled run can work: the directory its script writes to is on the   *)
(* backup volume whenever its CronJob exists (reconcileScheduledBackupCronJob,*)
(* which prepares it only before the CronJob is first created).             *)
(***************************************************************************)
ScheduleHasDirectory == cron = "owned" => dir

(***************************************************************************)
(* Every database the backup script names is on the volume, unless the spec *)
(* has dropped it meanwhile: what a reconcile has created, restored or      *)
(* dropped and what it has recorded in status drift apart at every failure  *)
(* (reconcileDatabases, databaseBackupScript).                              *)
(***************************************************************************)
BackupFindsRequested ==
    bk.st = "running" => \A db \in bk.dbs \cap inst.dbs : disk[db] # Absent

(***************************************************************************)
(* An Instance reported Ready has every requested database its status lists *)
(* on storage nobody deleted, and none of them is half restored             *)
(* (reconcileDatabases, phaseReady).                                        *)
(***************************************************************************)
ReadyServesAll ==
    inst.phase = "Ready" =>
        /\ pvc["primary"] = "bound"
        /\ \A db \in inst.databases \cap inst.dbs : disk[db] >= 0

(***************************************************************************)
(* An upgrade is reported finished only with everything clients wrote back  *)
(* in the databases of the new version's server (finishMajorUpgrade).       *)
(***************************************************************************)
FinishedMeansRestored ==
    [][inst.stage = "Restoring" /\ inst'.stage = "None" /\ inst'.life = "live"
       => /\ engines = {MajorOf[inst.to]}
          /\ \A db \in inst.databases : due[db] # Absent => disk[db] = due[db]]_vars

(***************************************************************************)
(* The reconciler keeps the data custody DataCustody promises: an upgrade's *)
(* backup is complete before its storage is let go, storage is let go at no *)
(* other time, and it is over only when the databases the spec asks for are *)
(* served again, whatever fails in between (reconcileMajorUpgrade,          *)
(* reconcileDeletion).                                                      *)
(***************************************************************************)
Owed   == {db \in DB : due[db] # Absent}
Served == {db \in Owed : pvc["primary"] = "bound" /\ disk[db] = due[db]}
Saved  == {db \in Owed : base[db] = due[db]}

Doing == CASE inst.life = "absent"   -> "Gone"
           [] inst.life = "deleting" -> "Deleting"
           [] inst.life = "live"     ->
                IF inst.stage = "None" THEN "Serving" ELSE inst.stage

Custody == INSTANCE DataCustody
              WITH stage <- Doing, asked <- inst.dbs,
                   owed <- Owed, served <- Served, saved <- Saved

KeepsCustody == Custody!Spec

(***************************************************************************)
(* A deletion that has begun ends: the backup finishes, the storage is      *)
(* released and the finalizer goes (reconcileDeletion).                     *)
(***************************************************************************)
DeletionCompletes == inst.life = "deleting" ~> inst.life = "absent"

(***************************************************************************)
(* Wherever it arrives, in the middle of an upgrade too, it ends but in two *)
(* cases: a call failed between the release of the storage it had backed up *)
(* and the removal of the finalizer, from where it cannot start over; or    *)
(* its backup can never succeed, as the stopped server's volume has no      *)
(* security database of the backup's version or lacks a database status     *)
(* lists (reconcileDeletion, databaseBackupScript).                         *)
(***************************************************************************)
Hopeless == /\ bk.st = "failed" /\ pod.st = "none"
            /\ \/ MajorOf[bk.version] \notin engines
               \/ \E db \in bk.dbs : disk[db] = Absent

DeletionEnds ==
    inst.life = "deleting" ~> inst.life = "absent" \/ used.late \/ Hopeless

(* A major upgrade that has begun ends, or a deletion takes over from it    *)
(* (reconcileMajorUpgrade, reconcileDeletion).                              *)
UpgradeCompletes ==
    inst.stage # "None" ~> inst.stage = "None" \/ inst.life = "deleting"

(***************************************************************************)
(* Once users stop, a live Instance settles: Ready on its spec.version with *)
(* exactly the databases and the CronJob it asks for, unless it asks        *)
(* for an older major than it runs, which startMajorUpgrade refuses, or     *)
(* than wrote the backup of a database it has yet to restore, which gbak    *)
(* refuses.                                                                 *)
(***************************************************************************)
Refused ==
    \/ MajorOf[inst.version] < MajorOf[sts.version]
    \/ /\ inst.backup
       /\ \E db \in inst.dbs \ inst.databases :
             /\ disk[db] = Absent /\ base[db] # Absent
             /\ writer[db] > MajorOf[inst.version]

Converges ==
    <>[](inst.life = "live" /\ ~Refused =>
            /\ Settled /\ inst.available
            /\ cron = IF WantsSchedule(inst) THEN "owned" ELSE "absent"
            /\ pod.st = "ready" /\ pod.version = inst.version)
=============================================================================
