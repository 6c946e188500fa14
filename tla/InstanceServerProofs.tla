------------------------ MODULE InstanceServerProofs ------------------------
(***************************************************************************)
(* Which server opens an Instance's storage, what its backup finds there    *)
(* and what Ready means, for every value of InstanceReconciler's constants. *)
(***************************************************************************)
EXTENDS InstanceDataProofs, FiniteSetTheorems

(***************************************************************************)
(* Every version's tag tells its major: reconcileMajorUpgrade cannot tell a *)
(* change of major from or to one that does not.                            *)
(***************************************************************************)
Tagged == \A v \in Versions : MajorOf[v] # 0

(***************************************************************************)
(* OneEngine is not inductive: a volume has one engine because only pods of *)
(* the StatefulSet open it, the StatefulSet's version changes its major     *)
(* only while an upgrade is Restoring onto a new volume, and no server is   *)
(* up from the moment the old one was backed up until then.                 *)
(***************************************************************************)
Known ==
    /\ inst.life # "absent" => inst.version \in Versions
    /\ obj.life # "absent" => obj.version \in Versions
    /\ sts.life # "absent" => sts.version \in Versions
    /\ sts.life = "absent" => sts.version = NoVersion

Unopened == engines = {} /\ ServerDown

Opened ==
    /\ \A m, n \in engines : m = n
    /\ pvc["primary"] = "absent" => engines = {}
    /\ inst.life # "absent" /\ sts.life = "absent" => engines = {}
    /\ sts.life # "absent" =>
          /\ engines \subseteq {MajorOf[sts.version]}
          /\ pod.st # "none" => MajorOf[pod.version] = MajorOf[sts.version]
    /\ sts.life = "absent" => pod.st \in {"none", "stopping"}
    /\ pod.st = "ready" => engines # {}

Moves ==
    /\ inst.stage # "None" => sts.life # "absent"
    /\ inst.stage = "BackingUp" => inst.from = sts.version
    /\ inst.stage = "Releasing" => ServerDown
    /\ inst.stage = "Restoring" => MajorOf[sts.version] = MajorOf[inst.to] \/ Unopened

(* What holds when a reconcile whose copy is o stands before step.          *)
Fits(o) ==
    sts.life # "absent" =>
        MajorOf[o.version] = MajorOf[sts.version] \/ (o.stage = "Restoring" /\ Unopened)

Checked == {"backup", "scale", "offline", "backedUp", "release", "deletePrimary",
            "deleteShadow", "released", "restoring", "pvcs"} \cup AfterPVCs

Serves(step, o) ==
    step \notin Unheld =>
        /\ o.from = inst.from
        /\ step \in Checked /\ o.life = "live" /\ o.stage # "None" => o.version = o.to
        /\ step \in {"pvcs", "sts"} => Fits(o)
        /\ step \in AfterPVCs \ {"sts"} =>
              sts.version = o.version /\ (ready => engines # {})

EngineInv == DataInv /\ Known /\ Opened /\ Moves /\ Serves(pc, obj)

-----------------------------------------------------------------------------
(***************************************************************************)
(* Most steps change neither the server nor its storage, nor the fields of  *)
(* the Instance and of the copy that upgrades go by, and move the reconcile *)
(* to a step that claims no more.                                           *)
(***************************************************************************)
Same(a, b) ==
    /\ a.life = b.life /\ a.version = b.version /\ a.backup = b.backup
    /\ a.backupOnDelete = b.backupOnDelete /\ a.dbs = b.dbs
    /\ a.stage = b.stage /\ a.from = b.from /\ a.to = b.to

Follows(step, next) ==
    /\ step \notin Unheld /\ next \notin {"pvcs", "sts"}
    /\ next \in Checked => step \in Checked \/ obj.life = "deleting"
    /\ next \in AfterPVCs => step \in AfterPVCs \ {"sts"}

Moved ==
    \/ pc' \in {"idle", "failed"} /\ (obj' = NoInstance \/ obj' = obj)
    \/ Follows(pc, pc') /\ Same(obj', obj) /\ ready' = ready

Calm == UNCHANGED <<sts, pod, pvc, engines>> /\ Same(inst', inst) /\ Moved

(* An Instance nobody wrote is the same.                                    *)
LEMMA SameSelf == UNCHANGED inst => Same(inst', inst)
  BY DEF Same

(* Writing, skipping a write, failing and moving on.                        *)
LEMMA UpdateCalm ==
    ASSUME NEW new, NEW next, Update(new, next) \/ Set(new, next), Same(new, obj),
           next = "idle" \/ Follows(pc, next), UNCHANGED <<sts, pod, pvc, engines>>
    PROVE  Calm
  <1>1. CASE Update(new, next)
    <2>1. Same(inst', inst)
      BY <1>1 DEF Update, Same
    <2>2. Moved
      BY <1>1 DEF Update, Requeue, Return, Moved
    <2> QED BY <2>1, <2>2 DEF Calm
  <1>2. CASE Set(new, next) /\ new = obj
    <2>1. Same(inst', inst)
      BY <1>2 DEF Set, Same
    <2>2. Moved
      BY <1>2 DEF Set, Return, Goto, Moved, Same
    <2> QED BY <2>1, <2>2 DEF Calm
  <1>3. CASE Set(new, next) /\ new # obj
    BY <1>1, <1>3 DEF Set
  <1> QED BY <1>1, <1>2, <1>3

(* Failing is calm.                                                         *)
LEMMA FailCalm ==
    ASSUME Fail, UNCHANGED <<inst, sts, pod, pvc, engines>>
    PROVE  Calm
  <1>1. Moved
    BY DEF Fail, Requeue, Return, Goto, Moved
  <1> QED BY <1>1, SameSelf DEF Calm

(* So is moving on.                                                         *)
LEMMA GotoCalm ==
    ASSUME NEW next, Goto(next), Follows(pc, next),
           UNCHANGED <<inst, sts, pod, pvc, engines>>
    PROVE  Calm
  <1>1. Moved
    BY DEF Goto, Moved, Same
  <1> QED BY <1>1, SameSelf DEF Calm

(* The steps of the controller that are calm.                               *)
Reports ==
    \/ BackupDatabases \/ BackupDatabasesOffline \/ ReleaseStorage \/ AwaitRelease
    \/ ReconcileDatabase \/ ExecFails \/ RecordDatabases \/ PrepareDirectory
    \/ ApplyCronJob \/ SetPhase \/ SetAvailable \/ ClearError \/ SetProgress
    \/ SetError \/ ReportDeleting \/ ReportDeletion \/ ReportFinalizer

(* Each of them is calm.                                                    *)
LEMMA ReportsCalm ==
    ASSUME TypeOK, At(pc, obj), Reports \/ Abort \/ RestoreFails \/ StatementFails
    PROVE  Calm
  <1> USE DEF Unheld, Checked, AfterPVCs, Follows
  <1>o. obj \in Instances /\ inst \in Instances
    BY DEF TypeOK, ControlOK
  <1>s. /\ \A x : Same([obj EXCEPT !.message = x], obj)
        /\ \A x : Same([obj EXCEPT !.phase = x], obj)
        /\ \A x : Same([obj EXCEPT !.available = x], obj)
        /\ \A x : Same([obj EXCEPT !.databases = x], obj)
    BY <1>o DEF Same, Instances
  <1>u. UNCHANGED <<cluster, data>> => UNCHANGED <<sts, pod, pvc, engines>>
    BY DEF cluster, data
  <1>1. CASE BackupDatabases
    <2>1. UNCHANGED <<sts, pod, pvc, engines>> /\ pc = "backup"
      BY <1>1, <1>u DEF BackupDatabases
    <2>2. CASE sts.life = "absent"
      <3>1. Goto(AfterBackup) /\ UNCHANGED inst
        BY <1>1, <2>2 DEF BackupDatabases
      <3>2. Follows(pc, AfterBackup)
        BY <2>1 DEF AfterBackup
      <3> QED BY <2>1, <3>1, <3>2, GotoCalm
    <2>3. CASE sts.life # "absent"
      <3>1. \/ Set([obj EXCEPT !.message = "stopping"], "scale")
            \/ Set([obj EXCEPT !.message = "stopping"], "waiting")
            \/ Set([obj EXCEPT !.message = "backingUp"], "offline")
        BY <1>1, <2>3 DEF BackupDatabases, TypeOK, ClusterOK, StatefulSets
      <3>2. Follows(pc, "scale") /\ Follows(pc, "waiting") /\ Follows(pc, "offline")
        BY <2>1
      <3> QED BY <1>s, <2>1, <3>1, <3>2, UpdateCalm
    <2> QED BY <2>2, <2>3
  <1>2. CASE BackupDatabasesOffline
    <2>1. UNCHANGED <<inst, sts, pod, pvc, engines>> /\ pc = "offline"
      BY <1>2 DEF BackupDatabasesOffline, data
    <2>2. Goto("waiting") \/ Goto(AfterBackup) \/ Fail
      BY <1>2 DEF BackupDatabasesOffline, TypeOK, ClusterOK, BackupPods
    <2>3. Follows(pc, "waiting") /\ Follows(pc, AfterBackup)
      BY <2>1 DEF AfterBackup
    <2> QED BY <2>1, <2>2, <2>3, GotoCalm, FailCalm
  <1>3. CASE AwaitRelease
    <2>1. UNCHANGED <<inst, sts, pod, pvc, engines>> /\ pc = "released"
      BY <1>3, <1>u DEF AwaitRelease
    <2>2. Goto("waiting") \/ Goto("restoring")
      BY <1>3 DEF AwaitRelease
    <2>3. Follows(pc, "waiting") /\ Follows(pc, "restoring")
      BY <2>1
    <2> QED BY <2>1, <2>2, <2>3, GotoCalm
  <1>4. CASE ReconcileDatabase \/ StatementFails
    <2>1. UNCHANGED <<inst, obj, ready, pc, sts, pod, pvc, engines>> /\ pc = "databases"
      BY <1>4, <1>u DEF ReconcileDatabase, StatementFails, cluster, data
    <2>2. Moved
      BY <2>1 DEF Moved, Same
    <2> QED BY <2>1, <2>2, SameSelf DEF Calm
  <1>5. CASE ExecFails \/ RestoreFails
    BY <1>5, FailCalm DEF ExecFails, RestoreFails, cluster, data
  <1>6. CASE PrepareDirectory \/ ApplyCronJob
    <2>1. UNCHANGED <<inst, sts, pod, pvc, engines>> /\ pc \in {"schedule", "cronjob"}
      BY <1>6 DEF PrepareDirectory, ApplyCronJob, data
    <2>2. Goto("cronjob") \/ Goto("finish") \/ Fail
      BY <1>6 DEF PrepareDirectory, ApplyCronJob
    <2>3. Follows(pc, "cronjob") /\ Follows(pc, "finish")
      BY <2>1
    <2> QED BY <2>1, <2>2, <2>3, GotoCalm, FailCalm
  <1>7. CASE RecordDatabases
    <2>1. UNCHANGED <<sts, pod, pvc, engines>> /\ Follows(pc, "schedule")
      BY <1>7, <1>u DEF RecordDatabases
    <2> QED BY <1>7, <1>s, <2>1, UpdateCalm DEF RecordDatabases
  <1>8. CASE ReleaseStorage
    <2>1. UNCHANGED <<sts, pod, pvc, engines>> /\ Follows(pc, "deletePrimary")
      BY <1>8, <1>u DEF ReleaseStorage
    <2> QED BY <1>8, <1>s, <2>1, UpdateCalm DEF ReleaseStorage
  <1>9. CASE SetPhase
    <2>1. UNCHANGED <<sts, pod, pvc, engines>> /\ Follows(pc, "available")
      BY <1>9, <1>u DEF SetPhase
    <2> QED BY <1>9, <1>s, <2>1, UpdateCalm DEF SetPhase
  <1>10. CASE SetAvailable
    <2>1. UNCHANGED <<sts, pod, pvc, engines>> /\ Follows(pc, "summary")
      BY <1>10, <1>u DEF SetAvailable
    <2> QED BY <1>10, <1>s, <2>1, UpdateCalm DEF SetAvailable
  <1>11. CASE ClearError
    <2>1. UNCHANGED <<sts, pod, pvc, engines>>
      BY <1>11, <1>u DEF ClearError
    <2> QED BY <1>11, <1>s, <2>1, UpdateCalm DEF ClearError
  <1>12. CASE SetProgress \/ SetError
    <2>1. UNCHANGED <<sts, pod, pvc, engines>> /\ Requeue
      BY <1>12, <1>u DEF SetProgress, SetError, Report
    <2>2. Same(inst', inst)
      BY <1>12, <1>o DEF SetProgress, SetError, Report, Same, Instances
    <2> QED BY <2>1, <2>2 DEF Requeue, Return, Calm, Moved
  <1>13. CASE ReportDeleting
    <2>1. UNCHANGED <<sts, pod, pvc, engines>> /\ Follows(pc, "deletionMessage")
      BY <1>13, <1>u DEF ReportDeleting
    <2> QED BY <1>13, <1>s, <2>1, UpdateCalm DEF ReportDeleting
  <1>14. CASE ReportDeletion
    <2> DEFINE next == IF WantsBackup(obj) /\ ~BackedUp(obj) THEN "backup" ELSE "release"
    <2>1. UNCHANGED <<sts, pod, pvc, engines>> /\ obj.life = "deleting"
      BY <1>14, <1>u DEF ReportDeletion, At, DeletionSteps
    <2>2. Follows(pc, next)
      BY <1>14, <2>1 DEF ReportDeletion
    <2>3. Set([obj EXCEPT !.message = "deleting"], next)
      BY <1>14 DEF ReportDeletion
    <2> QED BY <1>s, <2>1, <2>2, <2>3, UpdateCalm
  <1>15. CASE ReportFinalizer
    <2>1. UNCHANGED <<sts, pod, pvc, engines>> /\ Follows(pc, "removeFinalizer")
      BY <1>15, <1>u DEF ReportFinalizer
    <2> QED BY <1>15, <1>s, <2>1, UpdateCalm DEF ReportFinalizer
  <1>16. CASE Abort
    <2>1. UNCHANGED <<inst, sts, pod, pvc, engines>>
      BY <1>16, <1>u DEF Abort
    <2>2. CASE Requeue
      BY <2>1, <2>2, SameSelf DEF Requeue, Return, Calm, Moved
    <2>3. CASE Fail
      BY <2>1, <2>3, FailCalm
    <2> QED BY <1>16, <2>2, <2>3 DEF Abort
  <1> QED
    BY <1>1, <1>2, <1>3, <1>4, <1>5, <1>6, <1>7, <1>8, <1>9, <1>10,
       <1>11, <1>12, <1>13, <1>14, <1>15, <1>16 DEF Reports
-----------------------------------------------------------------------------
Engine == Known /\ Opened /\ Moves /\ Serves(pc, obj)

(* A calm step keeps it, and so does one that leaves the reconcile alone.   *)
LEMMA EngineCalm ==
    ASSUME Engine, Calm
    PROVE  Engine'
  <1> USE DEF Engine, Calm, Same
  <1>1. Known'
    <2>1. NoInstance.life = "absent"
      BY DEF NoInstance
    <2>2. obj'.life # "absent" => obj.life # "absent" /\ obj'.version = obj.version
      BY <2>1 DEF Moved
    <2> QED BY <2>2 DEF Known
  <1>2. Opened'
    BY DEF Opened
  <1>3. Moves'
    BY DEF Moves, Unopened, ServerDown
  <1>4. CASE pc' \in {"idle", "failed"}
    BY <1>1, <1>2, <1>3, <1>4 DEF Serves, Unheld
  <1>5. CASE Follows(pc, pc') /\ Same(obj', obj) /\ ready' = ready
    <2>1. Serves(pc, obj)'
      BY <1>5 DEF Serves, Follows, Fits, Unopened, ServerDown, Checked, AfterPVCs, Unheld
    <2> QED BY <1>1, <1>2, <1>3, <2>1
  <1> QED BY <1>4, <1>5 DEF Moved

(* A step that leaves all of it alone keeps it.                             *)
LEMMA EngineStill ==
    ASSUME Engine, UNCHANGED <<inst, pc, obj, ready, sts, pod, pvc, engines>>
    PROVE  Engine'
  <1>1. Known' /\ Opened' /\ Moves'
    BY DEF Engine, Known, Opened, Moves, Unopened, ServerDown
  <1>2. Serves(pc, obj)'
    BY DEF Engine, Serves, Fits, Unopened, ServerDown
  <1> QED BY <1>1, <1>2 DEF Engine

(* The initial states satisfy it.                                           *)
LEMMA EngineInit == Init => Engine
  <1> SUFFICES ASSUME Init PROVE Engine
    OBVIOUS
  <1>1. inst.life = "absent" /\ inst.stage = "None" /\ obj.life = "absent"
    BY DEF Init, NoInstance
  <1>2. sts.life = "absent" /\ sts.version = NoVersion /\ pod.st = "none" /\ pc \in Unheld
    BY DEF Init, NoSts, NoPod, Unheld
  <1>3. engines = {}
    BY DEF Init
  <1> QED BY <1>1, <1>2, <1>3 DEF Engine, Known, Opened, Moves, Serves

(* Every step keeps it.                                                     *)
LEMMA EngineNext ==
    ASSUME Careful, Tagged, EngineInv, [Next]_vars
    PROVE  Engine'
  <1> USE DEF Unheld
  <1>o. /\ obj \in Instances /\ inst \in Instances
        /\ World /\ Stands(pc, obj) /\ TypeOK /\ QuietInv
        /\ Known /\ Opened /\ Moves /\ Serves(pc, obj) /\ Engine
    BY DEF EngineInv, DataInv, TypeOK, ControlOK, Engine
  <1>c. pc \notin Unheld => Copied /\ Agrees(obj)
    BY <1>o DEF Stands, QuietInv
  <1>u. UNCHANGED <<cluster, data>> => UNCHANGED <<sts, pod, pvc, engines>>
    BY DEF cluster, data
  <1>k. \A v \in Versions : MajorOf[v] # 0
    BY DEF Tagged
  <1>1. CASE Reports \/ Abort \/ RestoreFails \/ StatementFails
    BY <1>o, <1>1, ReportsCalm, EngineCalm DEF QuietInv
  <1>2. CASE Reconcile
    <2>1. UNCHANGED <<inst, ready, sts, pod, pvc, engines>>
      BY <1>2, <1>u DEF Reconcile, local
    <2>2. CASE inst.life = "absent"
      BY <1>2, <1>o, <2>1, <2>2, EngineStill DEF Reconcile, local
    <2>3. CASE inst.life # "absent"
      <3>1. obj' = inst /\ pc' \in {"deletion", "upgrade", "addFinalizer"}
        BY <1>2, <2>3 DEF Reconcile, Read, Stale, Careful, Orderly
      <3>2. Known' /\ Opened' /\ Moves'
        BY <1>o, <2>1, <3>1 DEF Known, Opened, Moves, Unopened, ServerDown
      <3>3. Serves(pc, obj)'
        BY <2>1, <3>1 DEF Serves, Checked, AfterPVCs
      <3> QED BY <3>2, <3>3 DEF Engine
    <2> QED BY <2>2, <2>3
  <1>3. CASE AddFinalizer
    <2>1. UNCHANGED <<sts, pod, pvc, engines>> /\ obj.life = "live"
      BY <1>3, <1>u, <1>o DEF AddFinalizer, QuietInv, At, LiveSteps
    <2>2. CASE obj # inst
      <3>1. Calm
        BY <1>3, <2>1, <2>2, SameSelf DEF AddFinalizer, Update, Requeue, Return, Calm, Moved
      <3> QED BY <1>o, <3>1, EngineCalm
    <2>3. CASE obj = inst
      <3>1. /\ obj' = inst' /\ pc' = "upgrade"
            /\ inst' = [inst EXCEPT !.finalizer = TRUE]
        BY <1>3, <2>3 DEF AddFinalizer, Update
      <3>2. Same(inst', inst)
        BY <1>o, <3>1 DEF Same, Instances
      <3>3. Known' /\ Opened' /\ Moves'
        BY <1>o, <2>1, <3>1, <3>2 DEF Known, Opened, Moves, Same, Unopened, ServerDown
      <3>4. Serves(pc, obj)'
        BY <3>1 DEF Serves, Checked, AfterPVCs
      <3> QED BY <3>3, <3>4 DEF Engine
    <2> QED BY <2>2, <2>3
  <1>4. CASE ReconcileMajorUpgrade
    <2>1. /\ UNCHANGED <<inst, obj, ready, sts, pod, pvc, engines>>
          /\ pc = "upgrade" /\ obj.life = "live"
      BY <1>4, <1>u, <1>o DEF ReconcileMajorUpgrade, Goto, QuietInv, At, LiveSteps
    <2>2. Known' /\ Opened' /\ Moves'
      BY <1>o, <2>1 DEF Known, Opened, Moves, Unopened, ServerDown
    <2>3. obj.from = inst.from /\ obj.to = inst.to /\ obj.stage = inst.stage
      BY <1>o, <1>c, <2>1 DEF Serves, Agrees, Copied
    <2>4. \/ sts.life = "absent" /\ obj.stage = "None" /\ pc' = "pvcs"
          \/ pc' \in {"startUpgrade", "failed"}
          \/ obj.version = obj.to /\ pc' \in {"backup", "release", "restoring"}
          \/ obj.version = obj.to /\ obj.stage = "Restoring" /\ pc' = "pvcs"
      BY <1>4, <1>o, <2>3 DEF ReconcileMajorUpgrade, Goto, UpgradeStep, Moves, Instances, Stages
    <2>5. Serves(pc, obj)'
      BY <1>o, <2>1, <2>3, <2>4
      DEF Serves, Checked, AfterPVCs, Fits, Moves, Unopened, ServerDown
    <2> QED BY <2>2, <2>5 DEF Engine
  <1>5. CASE StartMajorUpgrade
    <2> DEFINE new == [obj EXCEPT !.stage = "BackingUp", !.from = running,
                                  !.to = obj.version, !.phase = "Upgrading"]
    <2>1. /\ UNCHANGED <<sts, pod, pvc, engines>> /\ pc = "startUpgrade"
          /\ obj.life = "live" /\ obj.stage = "None"
          /\ running = sts.version /\ sts.life # "absent"
      BY <1>5, <1>u, <1>o
      DEF StartMajorUpgrade, QuietInv, At, LiveSteps, PastBackup, Stands, Upgrades
    <2>2. CASE ~NeedsUpgrade(obj, running)
      <3>1. UNCHANGED <<inst, obj, ready>> /\ pc' = "pvcs"
        BY <1>5, <2>2 DEF StartMajorUpgrade, Goto
      <3>2. obj.version \in Versions /\ sts.version \in Versions
        BY <1>o, <2>1 DEF Known
      <3>3. MajorOf[obj.version] = MajorOf[sts.version]
        BY <1>k, <2>1, <2>2, <3>2 DEF NeedsUpgrade
      <3>4. Known' /\ Opened' /\ Moves'
        BY <1>o, <2>1, <3>1 DEF Known, Opened, Moves, Unopened, ServerDown
      <3>5. Serves(pc, obj)'
        BY <1>o, <2>1, <3>1, <3>3 DEF Serves, Checked, AfterPVCs, Fits
      <3> QED BY <3>4, <3>5 DEF Engine
    <2>3. CASE Fail /\ UNCHANGED inst
      BY <1>o, <2>1, <2>3, FailCalm, EngineCalm
    <2>4. CASE Update(new, "backup") /\ obj # inst
      <3>1. Calm
        BY <2>1, <2>4, SameSelf DEF Update, Requeue, Return, Calm, Moved
      <3> QED BY <1>o, <3>1, EngineCalm
    <2>5. CASE Update(new, "backup") /\ obj = inst
      <3>1. inst' = new /\ obj' = new /\ pc' = "backup" /\ ready' = ready
        BY <2>5 DEF Update
      <3>2. /\ new.life = "live" /\ new.stage = "BackingUp" /\ new.from = sts.version
            /\ new.version = obj.version /\ new.to = obj.version
        BY <1>o, <2>1 DEF Instances
      <3>3. Known' /\ Opened' /\ Moves'
        BY <1>o, <2>1, <2>5, <3>1, <3>2 DEF Known, Opened, Moves
      <3>4. Serves(pc, obj)'
        BY <3>1, <3>2 DEF Serves, Checked, AfterPVCs
      <3> QED BY <3>3, <3>4 DEF Engine
    <2> QED BY <1>5, <2>2, <2>3, <2>4, <2>5 DEF StartMajorUpgrade, Update
  <1>6. CASE ScaleDown
    <2>1. UNCHANGED <<inst, pod, pvc, engines>> /\ pc = "scale"
      BY <1>6 DEF ScaleDown, data
    <2>2. CASE sts.life = "absent"
      BY <1>6, <1>o, <2>1, <2>2, FailCalm, EngineCalm DEF ScaleDown
    <2>3. CASE sts.life # "absent"
      <3>1. /\ sts'.life = sts.life /\ sts'.version = sts.version /\ sts'.replicas = 0
            /\ obj' = obj /\ pc' = "waiting"
        BY <1>6, <1>o, <2>3 DEF ScaleDown, Goto, TypeOK, ClusterOK, StatefulSets
      <3>2. Known' /\ Opened' /\ Moves'
        BY <1>o, <2>1, <3>1 DEF Known, Opened, Moves, Unopened, ServerDown
      <3>3. Serves(pc, obj)'
        BY <1>o, <2>1, <3>1 DEF Serves, Checked, AfterPVCs
      <3> QED BY <3>2, <3>3 DEF Engine
    <2> QED BY <2>2, <2>3
  <1>7. CASE RecordBackedUp
    <2> DEFINE new == [obj EXCEPT !.databases = {}, !.stage = "Releasing"]
    <2>1. /\ UNCHANGED <<sts, pod, pvc, engines>> /\ pc = "backedUp" /\ ServerDown
          /\ obj.life = "live" /\ obj.stage = "BackingUp" /\ obj.version = obj.to
      BY <1>7, <1>u, <1>o
      DEF RecordBackedUp, QuietInv, At, LiveSteps, PastBackup, BackupSteps, Stands,
          Upgrades, Serves, Checked
    <2>2. CASE obj # inst
      <3>1. Calm
        BY <1>7, <2>1, <2>2, SameSelf DEF RecordBackedUp, Update, Requeue, Return, Calm, Moved
      <3> QED BY <1>o, <3>1, EngineCalm
    <2>3. CASE obj = inst
      <3>1. /\ new.life = "live" /\ new.stage = "Releasing" /\ new.from = obj.from
            /\ new.version = obj.version /\ new.to = obj.to
        BY <1>o, <2>1 DEF Instances
      <3>2. inst' = new /\ obj' = new /\ pc' \in {"release", "restoring"} /\ ready' = ready
        BY <1>7, <2>1, <2>3, <3>1 DEF RecordBackedUp, Update, UpgradeStep
      <3>3. Known' /\ Opened' /\ Moves'
        BY <1>o, <2>1, <2>3, <3>1, <3>2 DEF Known, Opened, Moves, ServerDown
      <3>4. Serves(pc, obj)'
        BY <2>1, <3>1, <3>2 DEF Serves, Checked, AfterPVCs
      <3> QED BY <3>3, <3>4 DEF Engine
    <2> QED BY <2>2, <2>3
  <1>8. CASE DeletePrimary \/ DeleteShadow
    <2>1. /\ UNCHANGED <<inst, obj, ready, sts, pod, engines>>
          /\ pc \in {"deletePrimary", "deleteShadow"}
          /\ pc' \in {"deleteShadow", "finalizerMessage", "released"}
      BY <1>8 DEF DeletePrimary, DeleteShadow, DeletePVC, Goto, AfterRelease, data
    <2>2. pvc'["primary"] = "absent" => pvc["primary"] = "absent"
      BY <1>8, <1>o
      DEF DeletePrimary, DeleteShadow, DeletePVC, TypeOK, ClusterOK, Vols
    <2>3. Known' /\ Opened' /\ Moves'
      BY <1>o, <2>1, <2>2 DEF Known, Opened, Moves, Unopened, ServerDown
    <2>4. Serves(pc, obj)'
      BY <1>o, <2>1 DEF Serves, Checked, AfterPVCs
    <2> QED BY <2>3, <2>4 DEF Engine
  <1>9. CASE RecordReleased
    <2> DEFINE new == [obj EXCEPT !.stage = "Restoring"]
    <2>1. /\ UNCHANGED <<sts, pod, pvc, engines>> /\ pc = "restoring"
          /\ pvc["primary"] = "absent"
          /\ obj.life = "live" /\ obj.stage = "Releasing" /\ obj.version = obj.to
      BY <1>9, <1>u, <1>o
      DEF RecordReleased, QuietInv, At, LiveSteps, PastBackup, Stands, Upgrades, Serves,
          Checked
    <2>2. CASE obj # inst
      <3>1. Calm
        BY <1>9, <2>1, <2>2, SameSelf DEF RecordReleased, Update, Requeue, Return, Calm, Moved
      <3> QED BY <1>o, <3>1, EngineCalm
    <2>3. CASE obj = inst
      <3>1. /\ new.life = "live" /\ new.stage = "Restoring" /\ new.from = obj.from
            /\ new.version = obj.version /\ new.to = obj.to
        BY <1>o, <2>1 DEF Instances
      <3>2. inst' = new /\ obj' = new /\ pc' = "pvcs" /\ ready' = ready
        BY <1>9, <2>3 DEF RecordReleased, Update
      <3>3. Unopened /\ sts.life # "absent"
        BY <1>o, <2>1, <2>3 DEF Opened, Moves, Unopened
      <3>4. Known' /\ Opened' /\ Moves'
        BY <1>o, <2>1, <2>3, <3>1, <3>2, <3>3
        DEF Known, Opened, Moves, Unopened, ServerDown
      <3>5. Serves(pc, obj)'
        BY <2>1, <3>1, <3>2, <3>3
        DEF Serves, Checked, AfterPVCs, Fits, Unopened, ServerDown
      <3> QED BY <3>4, <3>5 DEF Engine
    <2> QED BY <2>2, <2>3
  <1>10. CASE ReconcilePVCs
    <2>1. /\ UNCHANGED <<inst, obj, ready, sts, pod, engines>> /\ pc = "pvcs" /\ pc' = "sts"
          /\ pvc'["primary"] # "absent"
      BY <1>10 DEF ReconcilePVCs, Goto, data, Vols
    <2>2. Known' /\ Opened' /\ Moves'
      BY <1>o, <2>1 DEF Known, Opened, Moves, Unopened, ServerDown
    <2>3. Serves(pc, obj)'
      BY <1>o, <2>1 DEF Serves, Checked, AfterPVCs, Fits, Unopened, ServerDown
    <2> QED BY <2>2, <2>3 DEF Engine
  <1>11. CASE ApplyStatefulSet
    <2>1. /\ UNCHANGED <<inst, obj, pod, pvc, engines>> /\ pc = "sts"
          /\ sts'.life = "owned" /\ sts'.version = obj.version
          /\ pc' \in AfterPVCs \ {"sts"} /\ ready' = rep.ready
      BY <1>11 DEF ApplyStatefulSet, data, AfterPVCs
    <2>2. /\ obj.life = "live" /\ obj.version \in Versions /\ Fits(obj)
          /\ obj.stage # "None" => obj.version = obj.to
          /\ inst.life # "absent" /\ obj.stage = inst.stage /\ obj.to = inst.to
          /\ obj.stage \notin {"BackingUp", "Releasing"}
      BY <1>o, <1>c, <2>1
      DEF QuietInv, At, LiveSteps, PastBackup, Known, Serves, Checked, AfterPVCs, Copied,
          Agrees, Stands, Provides
    <2>3. Known'
      BY <1>o, <2>1, <2>2 DEF Known
    <2>4. /\ engines \subseteq {MajorOf[obj.version]}
          /\ pod.st # "none" => MajorOf[pod.version] = MajorOf[obj.version]
      BY <1>o, <2>2 DEF Opened, Fits, Unopened, ServerDown, QuietInv, Adopted
    <2>5. Opened'
      BY <1>o, <2>1, <2>4 DEF Opened
    <2>6. Moves'
      BY <1>o, <2>1, <2>2 DEF Moves, Unopened, Instances, Stages
    <2>7. rep.ready => engines # {}
      BY <1>o DEF QuietInv, Tracked, Reported, Opened, NoPod
    <2>8. Serves(pc, obj)'
      BY <1>o, <2>1, <2>2, <2>7 DEF Serves, Checked, AfterPVCs
    <2> QED BY <2>3, <2>5, <2>6, <2>8 DEF Engine
  <1>12. CASE FinishMajorUpgrade
    <2> DEFINE over == [obj EXCEPT !.stage = "None", !.from = NoVersion, !.to = NoVersion]
    <2>1. UNCHANGED <<sts, pod, pvc, engines>> /\ pc = "finish"
      BY <1>12, <1>u DEF FinishMajorUpgrade
    <2>2. CASE UNCHANGED <<inst, obj, ready>> /\ pc' = "phase"
      <3>1. Calm
        BY <2>1, <2>2, SameSelf DEF Calm, Moved, Follows, Checked, AfterPVCs, Same
      <3> QED BY <1>o, <3>1, EngineCalm
    <2>3. CASE Requeue /\ UNCHANGED inst
      <3>1. Calm
        BY <2>1, <2>3, SameSelf DEF Requeue, Return, Calm, Moved
      <3> QED BY <1>o, <3>1, EngineCalm
    <2>4. CASE obj = inst /\ inst' = over /\ obj' = over /\ pc' = "phase" /\ ready' = ready
      <3>1. over.life = obj.life /\ over.version = obj.version /\ over.stage = "None"
        BY <1>o DEF Instances
      <3>2. Known' /\ Opened' /\ Moves'
        BY <1>o, <2>1, <2>4, <3>1 DEF Known, Opened, Moves
      <3>3. Serves(pc, obj)'
        BY <1>o, <2>1, <2>4, <3>1 DEF Serves, Checked, AfterPVCs
      <3> QED BY <3>2, <3>3 DEF Engine
    <2> QED BY <1>12, <2>2, <2>3, <2>4 DEF FinishMajorUpgrade, Set, Update, Goto
  <1>13. CASE RemoveFinalizer
    <2>1. UNCHANGED <<pod, pvc, engines>>
      BY <1>13 DEF RemoveFinalizer, data
    <2>2. CASE obj # inst
      <3>1. Calm
        BY <1>13, <2>1, <2>2, SameSelf DEF RemoveFinalizer, Update, Requeue, Return, Calm, Moved
      <3> QED BY <1>o, <3>1, EngineCalm
    <2>3. CASE obj = inst
      <3>1. /\ inst'.life = "absent" /\ inst'.stage = "None" /\ obj'.life = "absent"
            /\ pc' = "idle"
        <4>1. inst' = NoInstance /\ obj' = NoInstance /\ pc' = "idle"
          BY <1>13, <2>3 DEF RemoveFinalizer, Update, Return
        <4> QED BY <4>1 DEF NoInstance
      <3>2. /\ sts'.version = sts.version
            /\ sts'.life = "absent" <=> sts.life = "absent"
        BY <1>13, <1>o DEF RemoveFinalizer, TypeOK, ClusterOK, StatefulSets
      <3>3. Known' /\ Opened' /\ Moves'
        BY <1>o, <2>1, <3>1, <3>2 DEF Known, Opened, Moves
      <3> QED BY <3>1, <3>3 DEF Engine, Serves
    <2> QED BY <2>2, <2>3
  <1>14. CASE PodLife
    <2>1. UNCHANGED <<inst, pc, obj, ready, sts, pvc>>
      BY <1>14
      DEF PodLife, PodCreated, PodReady, PodStopped, PodGone, SetPod, local
    <2>2. /\ engines' # engines => pod.st = "pending" /\ engines' = engines \cup {MajorOf[pod.version]}
                                   /\ pvc["primary"] = "bound"
          /\ engines \subseteq engines'
          /\ pod'.st = "ready" => engines' # {}
      BY <1>14, <1>o
      DEF PodLife, PodCreated, PodReady, PodStopped, PodGone, SetPod, TypeOK, ClusterOK,
          Pods, NoPod, Vols
    <2>3. /\ pod'.st # "none" =>
                \/ pod'.version = pod.version /\ pod.st # "none"
                \/ pod'.version = sts.version
          /\ ServerDown => pod'.st = "none" /\ engines' = engines
          /\ sts.life = "absent" => pod'.st \in {"none", "stopping"} /\ engines' = engines
      BY <1>14, <1>o
      DEF PodLife, PodCreated, PodReady, PodStopped, PodGone, SetPod, TypeOK, ClusterOK,
          Pods, NoPod, ServerDown, Opened
    <2>4. Known'
      BY <1>o, <2>1 DEF Known
    <2>5. Opened'
      BY <1>o, <2>1, <2>2, <2>3 DEF Opened
    <2>6. Moves'
      BY <1>o, <2>1, <2>2, <2>3 DEF Moves, Unopened, ServerDown
    <2>7. Serves(pc, obj)'
      BY <1>o, <2>1, <2>2, <2>3 DEF Serves, Fits, Unopened, ServerDown
    <2> QED BY <2>4, <2>5, <2>6, <2>7 DEF Engine
  <1>15. CASE CollectStatefulSet
    <2>1. /\ UNCHANGED <<inst, pc, obj, ready, pvc, engines>>
          /\ inst.life = "absent" /\ pc \in Unheld
          /\ sts'.life = "absent" /\ sts'.version = NoVersion
          /\ pod'.st \in {"none", "stopping"}
      BY <1>15, <1>o, <1>c
      DEF CollectStatefulSet, local, data, QuietInv, Adopted, Copied, NoSts, NoPod, TypeOK,
          ClusterOK, Pods
    <2>2. inst.stage = "None"
      BY <1>o, <2>1 DEF World, Volumed
    <2> QED BY <1>o, <2>1, <2>2 DEF Engine, Known, Opened, Moves, Serves
  <1>16. CASE Volumes
    <2>1. PICK v \in Vols : PVCRemoved(v)
      BY <1>16 DEF Volumes
    <2>2. UNCHANGED <<inst, pc, obj, ready, sts, pod>> /\ pod.st # "ready"
      BY <2>1 DEF PVCRemoved, InUse, local
    <2>3. CASE v = "primary"
      <3>1. engines' = {} /\ pvc["primary"] = "terminating"
        BY <2>1, <2>3 DEF PVCRemoved
      <3>2. pc \notin AfterPVCs
        BY <1>o, <3>1 DEF Stands, Provides, AfterPVCs, Held
      <3>3. Known' /\ Opened' /\ Moves'
        BY <1>o, <2>2, <3>1 DEF Known, Opened, Moves, Unopened, ServerDown
      <3>4. Serves(pc, obj)'
        BY <1>o, <2>2, <3>1, <3>2 DEF Serves, Fits, Unopened, ServerDown
      <3> QED BY <3>3, <3>4 DEF Engine
    <2>4. CASE v # "primary"
      <3>1. engines' = engines /\ pvc'["primary"] = pvc["primary"]
        BY <1>o, <2>1, <2>4 DEF PVCRemoved, TypeOK, ClusterOK, Vols
      <3>2. Known' /\ Opened' /\ Moves'
        BY <1>o, <2>2, <3>1 DEF Known, Opened, Moves, Unopened, ServerDown
      <3>3. Serves(pc, obj)'
        BY <1>o, <2>2, <3>1 DEF Serves, Fits, Unopened, ServerDown
      <3> QED BY <3>2, <3>3 DEF Engine
    <2> QED BY <2>3, <2>4
  <1>17. CASE UserCreates
    <2>1. /\ UNCHANGED <<pc, obj, ready, sts, pod, pvc, engines>> /\ inst.life = "absent"
          /\ pc \in Unheld /\ pvc["primary"] = "absent"
      BY <1>17, <1>c DEF UserCreates, Copied, cluster, data, Careful, Orderly, Clean, Vols
    <2>2. inst'.life = "live" /\ inst'.stage = "None" /\ inst'.version \in Versions
      BY <1>17, ConstantsAssumption DEF UserCreates, NoInstance
    <2> QED BY <1>o, <2>1, <2>2 DEF Engine, Known, Opened, Moves, Serves
  <1>18. CASE UserEdits
    <2>1. UNCHANGED <<pc, obj, ready, sts, pod, pvc, engines>> /\ inst.life = "live"
      BY <1>18 DEF UserEdits, local, cluster, data
    <2>2. PICK kind \in EditKinds : inst' \in Edited(kind)
      BY <1>18, ConstantsAssumption DEF UserEdits
    <2>3. /\ inst'.life = inst.life /\ inst'.stage = inst.stage /\ inst'.from = inst.from
          /\ inst'.to = inst.to
          /\ inst'.version = inst.version \/ inst'.version \in Versions
      BY <1>o, <2>2 DEF Edited, Instances, EditKinds
    <2>4. Known' /\ Opened' /\ Moves'
      BY <1>o, <2>1, <2>3 DEF Known, Opened, Moves, Unopened, ServerDown
    <2>5. Serves(pc, obj)'
      BY <1>o, <2>1, <2>3 DEF Serves, Fits, Unopened, ServerDown
    <2> QED BY <2>4, <2>5 DEF Engine
  <1>19. CASE UserDeletes
    <2>1. UNCHANGED <<pc, obj, ready, sts, pod, pvc, engines>> /\ inst.life = "live"
      BY <1>19 DEF UserDeletes, local, cluster, data
    <2>2. CASE inst.finalizer
      <3>1. /\ inst'.life = "deleting" /\ inst'.stage = inst.stage /\ inst'.to = inst.to
            /\ inst'.from = inst.from /\ inst'.version = inst.version
        BY <1>19, <1>o, <2>2 DEF UserDeletes, Instances
      <3>2. Known' /\ Opened' /\ Moves'
        BY <1>o, <2>1, <3>1 DEF Known, Opened, Moves, Unopened, ServerDown
      <3>3. Serves(pc, obj)'
        BY <1>o, <2>1, <3>1 DEF Serves, Fits, Unopened, ServerDown
      <3> QED BY <3>2, <3>3 DEF Engine
    <2>3. CASE ~inst.finalizer
      <3>1. inst'.life = "absent" /\ inst'.stage = "None"
        BY <1>19, <2>3 DEF UserDeletes, NoInstance
      <3>2. pc \in Unheld
        BY <1>c, <2>3 DEF Copied
      <3> QED BY <1>o, <2>1, <3>1, <3>2 DEF Engine, Known, Opened, Moves, Serves
    <2> QED BY <2>2, <2>3
  <1>20. CASE \/ ClientWrites \/ Backups \/ CollectBackupPod \/ CollectCronJob
              \/ CacheCatchesUp \/ StatusCatchesUp \/ UNCHANGED vars
    <2>1. UNCHANGED <<inst, pc, obj, ready, sts, pod, pvc, engines>>
      BY <1>20
      DEF ClientWrites, Backups, BackupStarts, BackupSucceeds, BackupFails,
          CollectBackupPod, CollectCronJob, CacheCatchesUp, StatusCatchesUp, vars, local,
          cluster, data
    <2> QED BY <1>o, <2>1, EngineStill
  <1> QED
    BY <1>1, <1>2, <1>3, <1>4, <1>5, <1>6, <1>7, <1>8, <1>9, <1>10,
       <1>11, <1>12, <1>13, <1>14, <1>15, <1>16, <1>17, <1>18, <1>19, <1>20
    DEF Next, Controller, Reports, Garbage, Users

(***************************************************************************)
(* A primary volume is only ever opened by servers of one Firebird major,   *)
(* for any databases, versions whose tags tell their majors, edits, bounds, *)
(* failed calls, evictions, early edits and early deletions                 *)
(* (reconcileMajorUpgrade, mutateStatefulSet).                              *)
(***************************************************************************)
THEOREM OneMajorPerVolume ==
    ASSUME Careful, Tagged
    PROVE  Spec => []OneEngine
  <1>1. Init => EngineInv
    BY TypeInit, QuietInit, DataInit, EngineInit DEF EngineInv, DataInv, Engine
  <1>2. EngineInv /\ [Next]_vars => EngineInv'
    BY TypeNext, QuietNext, DataNext, EngineNext DEF EngineInv, DataInv, Engine, Careful
  <1>3. EngineInv => OneEngine
    <2> SUFFICES ASSUME EngineInv PROVE Cardinality(engines) <= 1
      BY DEF OneEngine
    <2>1. CASE engines = {}
      BY <2>1, FS_EmptySet
    <2>2. CASE engines # {}
      <3>1. PICK m \in engines : engines = {m}
        BY <2>2 DEF EngineInv, Opened
      <3>2. Cardinality({m}) = 1
        BY FS_Singleton
      <3> QED BY <3>1, <3>2
    <2> QED BY <2>1, <2>2
  <1> QED BY <1>1, <1>2, <1>3, PTL DEF Spec

(* Only FinishMajorUpgrade takes a live Instance out of Restoring.          *)
LEMMA FinishStep ==
    ASSUME Careful, EngineInv, [Next]_vars,
           inst.stage = "Restoring", inst'.stage = "None", inst'.life = "live"
    PROVE  FinishMajorUpgrade /\ Done /\ obj = inst
  <1>o. obj \in Instances /\ inst \in Instances /\ TypeOK /\ At(pc, obj) /\ QuietInv /\ World
    BY DEF EngineInv, DataInv, QuietInv, TypeOK, ControlOK
  <1>n. inst' # inst
    OBVIOUS
  <1>1. ASSUME Calm PROVE FALSE
    BY <1>1 DEF Calm, Same
  <1>2. ~(Reports \/ Abort \/ RestoreFails \/ StatementFails)
    BY <1>o, <1>1, ReportsCalm
  <1>3. CASE AddFinalizer
    BY <1>o, <1>3, <1>n DEF AddFinalizer, Update, Instances
  <1>4. CASE StartMajorUpgrade
    <2>1. obj = inst
      BY <1>4, <1>n DEF StartMajorUpgrade, Update
    <2>2. inst' = [obj EXCEPT !.stage = "BackingUp", !.from = running,
                              !.to = obj.version, !.phase = "Upgrading"]
      BY <1>4, <1>n DEF StartMajorUpgrade, Update
    <2> QED BY <1>o, <2>1, <2>2 DEF Instances
  <1>5. CASE RecordBackedUp
    BY <1>o, <1>5, <1>n DEF RecordBackedUp, Update, Instances
  <1>6. CASE RecordReleased
    BY <1>o, <1>6, <1>n DEF RecordReleased, Update, Instances
  <1>7. CASE FinishMajorUpgrade
    BY <1>7, <1>n DEF FinishMajorUpgrade, Set, Update
  <1>8. CASE RemoveFinalizer
    <2>1. inst' = NoInstance
      BY <1>8, <1>n DEF RemoveFinalizer, Update
    <2> QED BY <2>1 DEF NoInstance
  <1>9. CASE UserCreates
    BY <1>9, <1>o DEF UserCreates, World, Volumed
  <1>10. CASE UserEdits
    <2>1. PICK kind \in EditKinds : inst' \in Edited(kind)
      BY <1>10, ConstantsAssumption DEF UserEdits
    <2> QED BY <1>o, <2>1 DEF Edited, Instances, EditKinds
  <1>11. CASE UserDeletes
    BY <1>11, <1>o DEF UserDeletes, NoInstance, Instances
  <1>12. CASE \/ Reconcile \/ ReconcileMajorUpgrade \/ ScaleDown \/ DeletePrimary
              \/ DeleteShadow \/ ReconcilePVCs \/ ApplyStatefulSet
    BY <1>12, <1>n
    DEF Reconcile, ReconcileMajorUpgrade, ScaleDown, DeletePrimary, DeleteShadow, DeletePVC,
        ReconcilePVCs, ApplyStatefulSet
  <1>13. CASE \/ ClientWrites \/ Backups \/ Garbage \/ Volumes \/ PodLife \/ CacheCatchesUp
              \/ StatusCatchesUp \/ UNCHANGED vars
    BY <1>13, <1>n
    DEF ClientWrites, Backups, BackupStarts, BackupSucceeds, BackupFails, Garbage,
        CollectStatefulSet, CollectBackupPod, CollectCronJob, Volumes, PVCRemoved,
        PodLife, PodCreated, PodReady, PodStopped, PodGone, SetPod, CacheCatchesUp,
        StatusCatchesUp, vars
  <1> QED
    BY <1>2, <1>3, <1>4, <1>5, <1>6, <1>7, <1>8, <1>9, <1>10, <1>11, <1>12, <1>13
    DEF Next, Controller, Reports, Users

(***************************************************************************)
(* An upgrade is reported finished only with everything clients wrote back  *)
(* in the databases of the new version's server, on storage that no other   *)
(* major ever opened (finishMajorUpgrade).                                  *)
(***************************************************************************)
THEOREM UpgradesFinishRestored ==
    ASSUME Careful, Tagged
    PROVE  Spec => FinishedMeansRestored
  <1> DEFINE Restored ==
               inst.stage = "Restoring" /\ inst'.stage = "None" /\ inst'.life = "live" =>
                  /\ engines = {MajorOf[inst.to]}
                  /\ \A db \in inst.databases : due[db] # Absent => disk[db] = due[db]
  <1>1. Init => EngineInv
    BY TypeInit, QuietInit, DataInit, EngineInit DEF EngineInv, DataInv, Engine
  <1>2. EngineInv /\ [Next]_vars => EngineInv'
    BY TypeNext, QuietNext, DataNext, EngineNext DEF EngineInv, DataInv, Engine, Careful
  <1>3. EngineInv /\ [Next]_vars => Restored
    <2> SUFFICES ASSUME EngineInv, [Next]_vars, inst.stage = "Restoring",
                        inst'.stage = "None", inst'.life = "live"
                 PROVE  /\ engines = {MajorOf[inst.to]}
                        /\ \A db \in inst.databases : due[db] # Absent => disk[db] = due[db]
      OBVIOUS
    <2>1. FinishMajorUpgrade /\ Done /\ obj = inst
      BY FinishStep
    <2>2. pc = "finish" /\ ready /\ pc \notin Unheld /\ obj.life = "live"
      BY <2>1
      DEF FinishMajorUpgrade, Done, Unheld, EngineInv, DataInv, QuietInv, At, LiveSteps,
          PastBackup
    <2>3. /\ inst.version = inst.to /\ sts.version = inst.version /\ engines # {}
      BY <2>1, <2>2 DEF EngineInv, Serves, Checked, AfterPVCs
    <2>4. Held /\ sts.life # "absent"
      BY <2>2 DEF EngineInv, DataInv, Stands, Provides, AfterPVCs
    <2>5. engines = {MajorOf[inst.to]}
      BY <2>3, <2>4 DEF EngineInv, Opened
    <2>6. inst \in Instances /\ World
      BY DEF EngineInv, DataInv, TypeOK, ControlOK
    <2>7. \A db \in inst.databases : due[db] # Absent => disk[db] = due[db]
      BY <2>4, <2>6 DEF World, Listed, Due, Instances
    <2> QED BY <2>5, <2>7
  <1> QED BY <1>1, <1>2, <1>3, PTL DEF Spec, FinishedMeansRestored
-----------------------------------------------------------------------------
(* A Ready Instance is not upgrading, not even one about to be reported so. *)
Truthful ==
    /\ inst.phase = "Ready" => inst.stage = "None"
    /\ pc \notin Unheld /\ obj.phase = "Ready" => obj.stage = "None"
    /\ pc = "phase" /\ Done => obj.stage = "None"

(* Writing, skipping a write, moving on, failing and returning.             *)
LEMMA TruthfulUpdate ==
    ASSUME Truthful, NEW new, NEW next, Update(new, next) \/ Set(new, next),
           new.phase = "Ready" => new.stage = "None", next # "phase", pc \notin Unheld
    PROVE  Truthful'
  BY DEF Truthful, Update, Set, Requeue, Return, Goto, Unheld

(* Moving on keeps it.                                                      *)
LEMMA TruthfulGoto ==
    ASSUME Truthful, NEW next, Goto(next), next # "phase", pc \notin Unheld, UNCHANGED inst
    PROVE  Truthful'
  BY DEF Truthful, Goto, Unheld

(* So does returning, or failing.                                           *)
LEMMA TruthfulReturn ==
    ASSUME Truthful, Return \/ Fail \/ Requeue, UNCHANGED inst
    PROVE  Truthful'
  BY DEF Truthful, Fail, Requeue, Return, Goto, Unheld

(* So does a step that changes neither copy.                                *)
LEMMA TruthfulStill ==
    ASSUME Truthful, inst'.phase = inst.phase, inst'.stage = inst.stage,
           UNCHANGED <<pc, obj, ready>>
    PROVE  Truthful'
  BY DEF Truthful, Done

(* Every step keeps it.                                                     *)
LEMMA TruthfulNext ==
    ASSUME Careful, TypeOK, QuietInv, Stands(pc, obj), Truthful, [Next]_vars
    PROVE  Truthful'
  <1> USE DEF Unheld
  <1>o. obj \in Instances /\ inst \in Instances /\ At(pc, obj)
    BY DEF QuietInv, TypeOK, ControlOK
  <1>s. /\ \A x : LET new == [obj EXCEPT !.message = x]
                  IN  new.phase = obj.phase /\ new.stage = obj.stage
        /\ \A x : LET new == [obj EXCEPT !.available = x]
                  IN  new.phase = obj.phase /\ new.stage = obj.stage
        /\ \A x : LET new == [obj EXCEPT !.databases = x]
                  IN  new.phase = obj.phase /\ new.stage = obj.stage
        /\ \A x : LET new == [obj EXCEPT !.phase = x]
                  IN  new.phase = x /\ new.stage = obj.stage
    BY <1>o DEF Instances
  <1>m. ASSUME NEW x, NEW next, Set([obj EXCEPT !.message = x], next), next # "phase",
               pc \notin Unheld
        PROVE  Truthful'
    BY <1>s, <1>m, TruthfulUpdate DEF Truthful
  <1>1. CASE Reconcile
    <2>1. UNCHANGED inst /\ (UNCHANGED <<pc, obj, ready>> \/ (obj' = inst /\ pc' # "phase"))
      BY <1>1 DEF Reconcile, local, Read, Stale, Careful, Orderly
    <2> QED BY <2>1, TruthfulStill DEF Truthful
  <1>2. CASE AddFinalizer
    <2>1. CASE obj # inst
      BY <1>2, <2>1, TruthfulReturn DEF AddFinalizer, Update
    <2>2. CASE obj = inst
      <3>1. inst' = [inst EXCEPT !.finalizer = TRUE] /\ obj' = inst' /\ pc' = "upgrade"
        BY <1>2, <2>2 DEF AddFinalizer, Update
      <3>2. inst'.phase = inst.phase /\ inst'.stage = inst.stage
        BY <1>o, <3>1 DEF Instances
      <3> QED BY <3>1, <3>2 DEF Truthful
    <2> QED BY <2>1, <2>2
  <1>3. CASE ReconcileMajorUpgrade \/ ReconcilePVCs \/ ApplyStatefulSet \/ AwaitRelease
             \/ DeletePrimary \/ DeleteShadow
    <2>1. UNCHANGED <<inst, obj>> /\ pc \notin Unheld /\ pc' # "phase"
      BY <1>3
      DEF ReconcileMajorUpgrade, UpgradeStep, ReconcilePVCs, ApplyStatefulSet, AwaitRelease,
          DeletePrimary, DeleteShadow, DeletePVC, AfterRelease, Goto
    <2> QED BY <2>1 DEF Truthful
  <1>4. CASE StartMajorUpgrade
    <2> DEFINE new == [obj EXCEPT !.stage = "BackingUp", !.from = running,
                                  !.to = obj.version, !.phase = "Upgrading"]
    <2>1. new.phase = "Upgrading" /\ pc \notin Unheld
      BY <1>4, <1>o DEF Instances, StartMajorUpgrade
    <2>2. (Goto("pvcs") /\ UNCHANGED inst) \/ (Fail /\ UNCHANGED inst) \/ Update(new, "backup")
      BY <1>4 DEF StartMajorUpgrade
    <2> QED BY <2>1, <2>2, TruthfulGoto, TruthfulReturn, TruthfulUpdate
  <1>5. CASE BackupDatabases
    <2>1. pc \notin Unheld /\ AfterBackup # "phase"
      BY <1>5 DEF BackupDatabases, AfterBackup
    <2>2. \/ Goto(AfterBackup) /\ UNCHANGED inst
          \/ Set([obj EXCEPT !.message = "stopping"], "scale")
          \/ Set([obj EXCEPT !.message = "stopping"], "waiting")
          \/ Set([obj EXCEPT !.message = "backingUp"], "offline")
      BY <1>5 DEF BackupDatabases, TypeOK, ClusterOK, StatefulSets
    <2> QED BY <1>m, <2>1, <2>2, TruthfulGoto
  <1>6. CASE ScaleDown \/ BackupDatabasesOffline \/ PrepareDirectory \/ ApplyCronJob
             \/ ExecFails \/ RestoreFails
    <2>1. UNCHANGED inst /\ pc \notin Unheld /\ AfterBackup # "phase"
      BY <1>6
      DEF ScaleDown, BackupDatabasesOffline, PrepareDirectory, ApplyCronJob, ExecFails,
          RestoreFails, AfterBackup
    <2>2. Fail \/ Goto("waiting") \/ Goto(AfterBackup) \/ Goto("cronjob") \/ Goto("finish")
      BY <1>6
      DEF ScaleDown, BackupDatabasesOffline, PrepareDirectory, ApplyCronJob, ExecFails,
          RestoreFails, TypeOK, ClusterOK, BackupPods
    <2> QED BY <2>1, <2>2, TruthfulGoto, TruthfulReturn
  <1>7. CASE RecordBackedUp
    <2> DEFINE new == [obj EXCEPT !.databases = {}, !.stage = "Releasing"]
    <2>1. pc = "backedUp" /\ obj.stage = "BackingUp"
      BY <1>7, <1>o DEF RecordBackedUp, At, LiveSteps, PastBackup, BackupSteps
    <2>2. new.phase = obj.phase /\ new.phase # "Ready"
      BY <1>o, <2>1 DEF Instances, Truthful
    <2>3. Update(new, UpgradeStep(new, running)) /\ UpgradeStep(new, running) # "phase"
      BY <1>7 DEF RecordBackedUp, UpgradeStep
    <2> QED BY <2>1, <2>2, <2>3, TruthfulUpdate
  <1>8. CASE RecordReleased
    <2> DEFINE new == [obj EXCEPT !.stage = "Restoring"]
    <2>1. pc = "restoring" /\ obj.stage = "Releasing"
      BY <1>8 DEF RecordReleased, Stands, Upgrades
    <2>2. new.phase = obj.phase /\ new.phase # "Ready"
      BY <1>o, <2>1 DEF Instances, Truthful
    <2> QED BY <1>8, <2>1, <2>2, TruthfulUpdate DEF RecordReleased
  <1>9. CASE ReleaseStorage \/ ClearError \/ ReportDeletion \/ ReportFinalizer
    BY <1>9, <1>m DEF ReleaseStorage, ClearError, ReportDeletion, ReportFinalizer
  <1>10. CASE RecordDatabases
    BY <1>10, <1>s, TruthfulUpdate DEF RecordDatabases, Truthful
  <1>11. CASE FinishMajorUpgrade
    <2> DEFINE over == [obj EXCEPT !.stage = "None", !.from = NoVersion, !.to = NoVersion]
    <2>1. /\ over.stage = "None" /\ over.phase = obj.phase /\ over.databases = obj.databases
          /\ over.dbs = obj.dbs
      BY <1>o DEF Instances
    <2>2. pc \notin Unheld
      BY <1>11 DEF FinishMajorUpgrade
    <2>3. CASE Done
      BY <1>11, <2>1, <2>2, <2>3
      DEF FinishMajorUpgrade, Set, Update, Requeue, Return, Goto, Truthful
    <2>4. CASE ~Done
      <3>1. UNCHANGED <<inst, obj, ready>>
        BY <1>11, <2>4 DEF FinishMajorUpgrade, Set, Goto
      <3> QED BY <2>2, <2>4, <3>1 DEF Truthful, Done
    <2> QED BY <2>3, <2>4
  <1>12. CASE SetPhase
    <2> DEFINE phase == IF Done THEN "Ready"
                        ELSE IF obj.stage # "None" THEN "Upgrading" ELSE "Provisioning"
    <2>1. phase = "Ready" => obj.stage = "None"
      BY <1>12 DEF SetPhase, Truthful
    <2>2. Set([obj EXCEPT !.phase = phase], "available") /\ pc \notin Unheld
      BY <1>12 DEF SetPhase
    <2> QED BY <1>s, <2>1, <2>2, TruthfulUpdate
  <1>13. CASE SetAvailable
    BY <1>13, <1>s, TruthfulUpdate DEF SetAvailable, Truthful
  <1>14. CASE SetProgress \/ SetError
    <2>1. inst'.phase = inst.phase /\ inst'.stage = inst.stage /\ pc' = "idle"
      BY <1>14, <1>o DEF SetProgress, SetError, Report, Requeue, Return, Instances
    <2> QED BY <2>1 DEF Truthful
  <1>15. CASE ReportDeleting
    BY <1>15, <1>s, TruthfulUpdate DEF ReportDeleting
  <1>16. CASE RemoveFinalizer
    <2>1. NoInstance.phase = ""
      BY DEF NoInstance
    <2> QED BY <1>16, <2>1, TruthfulUpdate DEF RemoveFinalizer
  <1>17. CASE Abort
    BY <1>17, TruthfulReturn DEF Abort
  <1>18. CASE UserCreates
    <2>1. inst'.phase = "" /\ UNCHANGED <<pc, obj, ready>>
      BY <1>18 DEF UserCreates, NoInstance
    <2> QED BY <2>1 DEF Truthful, Done
  <1>19. CASE UserEdits
    <2>1. PICK kind \in EditKinds : inst' \in Edited(kind)
      BY <1>19, ConstantsAssumption DEF UserEdits
    <2>2. inst'.phase = inst.phase /\ inst'.stage = inst.stage
      BY <1>o, <2>1 DEF Edited, Instances, EditKinds
    <2> QED BY <1>19, <2>2, TruthfulStill DEF UserEdits, local
  <1>20. CASE UserDeletes
    <2>1. UNCHANGED <<pc, obj, ready>>
      BY <1>20 DEF UserDeletes, local
    <2>2. \/ inst'.phase = inst.phase /\ inst'.stage = inst.stage
          \/ inst'.phase = ""
      BY <1>20, <1>o DEF UserDeletes, NoInstance, Instances
    <2> QED BY <2>1, <2>2 DEF Truthful, Done
  <1>21. CASE \/ ReconcileDatabase \/ StatementFails \/ ClientWrites \/ Backups \/ Garbage
              \/ Volumes \/ PodLife \/ CacheCatchesUp \/ StatusCatchesUp \/ UNCHANGED vars
    <2>1. UNCHANGED <<inst, pc, obj, ready>>
      BY <1>21
      DEF ReconcileDatabase, StatementFails, ClientWrites, Backups, BackupStarts,
          BackupSucceeds, BackupFails, Garbage, CollectStatefulSet, CollectBackupPod,
          CollectCronJob, Volumes, PVCRemoved, PodLife, PodCreated, PodReady, PodStopped,
          PodGone, SetPod, CacheCatchesUp, StatusCatchesUp, vars, local
    <2> QED BY <2>1, TruthfulStill
  <1> QED
    BY <1>1, <1>2, <1>3, <1>4, <1>5, <1>6, <1>7, <1>8, <1>9, <1>10,
       <1>11, <1>12, <1>13, <1>14, <1>15, <1>16, <1>17, <1>18, <1>19, <1>20, <1>21
    DEF Next, Controller, Users
-----------------------------------------------------------------------------
(***************************************************************************)
(* BackupByWriter rests on an Instance being deleted only once it has       *)
(* settled: a deletion backs up with spec.version, which is the version     *)
(* that wrote the databases only if no change of major is outstanding.      *)
(***************************************************************************)
Patient == "earlyDelete" \notin Faults

Parting ==
    /\ inst.life = "deleting" =>
          /\ inst.stage = "None" /\ sts.life # "absent"
          /\ MajorOf[inst.version] = MajorOf[sts.version]
    /\ pc \notin Unheld /\ obj.life = "deleting" => obj.version = inst.version

Written == bk.st \in {"pending", "running"} => engines \subseteq {MajorOf[bk.version]}

WriterInv == EngineInv /\ Truthful /\ Parting /\ Written

(* Every step keeps a deletion to one major.                                *)
LEMMA PartingNext ==
    ASSUME Careful, Patient, WriterInv, [Next]_vars
    PROVE  Parting'
  <1> USE DEF Unheld
  <1>o. /\ obj \in Instances /\ inst \in Instances
        /\ World /\ Stands(pc, obj) /\ TypeOK /\ QuietInv /\ At(pc, obj)
        /\ Known /\ Serves(pc, obj) /\ Parting /\ Truthful
    BY DEF WriterInv, EngineInv, DataInv, TypeOK, ControlOK, QuietInv
  <1>c. pc \notin Unheld => Copied
    BY <1>o DEF QuietInv
  <1>l. ASSUME inst'.life # "deleting", pc' \in Unheld \/ obj'.life # "deleting"
        PROVE  Parting'
    BY <1>l DEF Parting
  <1>q. ASSUME UNCHANGED <<inst, sts>>, pc' \in Unheld \/ (obj' = obj /\ pc \notin Unheld)
        PROVE  Parting'
    BY <1>o, <1>q DEF Parting
  <1>1. CASE Reports \/ Abort \/ RestoreFails \/ StatementFails
    <2>1. Calm
      BY <1>o, <1>1, ReportsCalm
    <2> QED BY <1>o, <2>1 DEF Calm, Moved, Follows, Same, Parting
  <1>2. CASE Reconcile
    <2>1. /\ UNCHANGED <<inst, sts>>
          /\ obj' = inst \/ (pc' = "idle" /\ obj' = obj)
      BY <1>2 DEF Reconcile, local, cluster, Read, Stale, Careful, Orderly
    <2> QED BY <1>o, <2>1 DEF Parting
  <1>3. CASE AddFinalizer \/ StartMajorUpgrade \/ RecordBackedUp \/ RecordReleased
             \/ FinishMajorUpgrade
    <2>1. /\ UNCHANGED sts /\ obj.life = "live"
      BY <1>3, <1>o
      DEF AddFinalizer, StartMajorUpgrade, RecordBackedUp, RecordReleased,
          FinishMajorUpgrade, cluster, At, LiveSteps, PastBackup
    <2>2. \/ UNCHANGED inst /\ (obj' = obj \/ pc' \in Unheld)
          \/ obj = inst /\ inst'.life = inst.life /\ obj' = inst'
      BY <1>3, <1>o
      DEF AddFinalizer, StartMajorUpgrade, RecordBackedUp, RecordReleased,
          FinishMajorUpgrade, Update, Set, Goto, Fail, Requeue, Return, UpgradeStep, Instances
    <2> QED BY <1>o, <2>1, <2>2 DEF Parting
  <1>4. CASE ReconcileMajorUpgrade \/ DeletePrimary \/ DeleteShadow \/ ReconcilePVCs
    <2>1. UNCHANGED <<inst, obj, sts>> /\ pc \notin Unheld
      BY <1>4
      DEF ReconcileMajorUpgrade, DeletePrimary, DeleteShadow, DeletePVC, ReconcilePVCs,
          Goto, cluster
    <2> QED BY <1>q, <2>1
  <1>5. CASE ScaleDown
    <2>1. /\ UNCHANGED inst /\ pc \notin Unheld
          /\ obj' = obj \/ pc' \in Unheld
          /\ sts'.life = sts.life /\ sts'.version = sts.version
      BY <1>5, <1>o
      DEF ScaleDown, Goto, Fail, Requeue, Return, TypeOK, ClusterOK, StatefulSets
    <2> QED BY <1>o, <2>1 DEF Parting
  <1>6. CASE ApplyStatefulSet
    <2>1. /\ UNCHANGED <<inst, obj>> /\ pc = "sts" /\ obj.life = "live"
          /\ sts'.life = "owned" /\ sts'.version = obj.version
      BY <1>6, <1>o DEF ApplyStatefulSet, At, LiveSteps, PastBackup
    <2>2. inst.stage = obj.stage /\ Fits(obj)
      BY <1>o, <1>c, <2>1 DEF Copied, Serves
    <2> QED BY <1>o, <2>1, <2>2 DEF Parting, Fits
  <1>7. CASE RemoveFinalizer
    <2>1. NoInstance.life = "absent"
      BY DEF NoInstance
    <2>2. \/ inst' = NoInstance /\ pc' = "idle"
          \/ UNCHANGED <<inst, sts>> /\ pc' = "idle"
      BY <1>7 DEF RemoveFinalizer, Update, Requeue, Return
    <2> QED BY <1>l, <1>q, <2>1, <2>2
  <1>8. CASE CollectStatefulSet
    <2>1. inst.life = "absent" /\ pc \in Unheld /\ UNCHANGED <<inst, pc>>
      BY <1>8, <1>o, <1>c DEF CollectStatefulSet, QuietInv, Adopted, Copied, local
    <2> QED BY <1>l, <2>1
  <1>9. CASE UserCreates
    <2>1. inst'.life = "live" /\ pc \in Unheld /\ UNCHANGED pc
      BY <1>9, <1>c DEF UserCreates, NoInstance, Copied
    <2> QED BY <1>l, <2>1
  <1>10. CASE UserEdits
    <2>1. PICK kind \in EditKinds : inst' \in Edited(kind)
      BY <1>10, ConstantsAssumption DEF UserEdits
    <2>2. inst'.life = inst.life /\ inst.life = "live"
      BY <1>10, <1>o, <2>1 DEF UserEdits, Edited, Instances, EditKinds
    <2>3. pc \in Unheld \/ obj.life # "deleting"
      BY <1>c, <2>2 DEF Copied
    <2> QED BY <1>10, <1>l, <2>2, <2>3 DEF UserEdits, local
  <1>11. CASE UserDeletes
    <2>1. /\ UNCHANGED <<pc, obj, sts>> /\ inst.life = "live"
          /\ inst.phase = "Ready" /\ inst.version = sts.version
      BY <1>11 DEF UserDeletes, local, cluster, Patient, Settled
    <2>2. inst.stage = "None" /\ sts.life # "absent"
      BY <1>o, <2>1, ConstantsAssumption DEF Truthful, Known
    <2>3. pc \in Unheld \/ obj.life # "deleting"
      BY <1>c, <2>1 DEF Copied
    <2>4. \/ inst'.life = "absent"
          \/ inst'.stage = inst.stage /\ inst'.version = inst.version
      BY <1>11, <1>o DEF UserDeletes, NoInstance, Instances
    <2> QED BY <2>1, <2>2, <2>3, <2>4 DEF Parting
  <1>12. CASE \/ ClientWrites \/ Backups \/ CollectBackupPod \/ CollectCronJob \/ Volumes
              \/ PodLife \/ CacheCatchesUp \/ StatusCatchesUp \/ UNCHANGED vars
    <2>1. UNCHANGED <<inst, pc, obj, sts>>
      BY <1>12
      DEF ClientWrites, Backups, BackupStarts, BackupSucceeds, BackupFails,
          CollectBackupPod, CollectCronJob, Volumes, PVCRemoved, PodLife, PodCreated,
          PodReady, PodStopped, PodGone, SetPod, CacheCatchesUp, StatusCatchesUp, vars,
          local, cluster
    <2> QED BY <1>o, <2>1 DEF Parting
  <1> QED
    BY <1>1, <1>2, <1>3, <1>4, <1>5, <1>6, <1>7, <1>8, <1>9, <1>10, <1>11, <1>12
    DEF Next, Controller, Reports, Garbage, Users

(* Every step keeps a backup Pod to the version that wrote the databases.   *)
LEMMA WrittenNext ==
    ASSUME Careful, Tagged, WriterInv, [Next]_vars
    PROVE  Written'
  <1>o. /\ obj \in Instances /\ inst \in Instances
        /\ TypeOK /\ QuietInv /\ At(pc, obj)
        /\ Opened /\ Moves /\ Serves(pc, obj) /\ Parting /\ Written
    BY DEF WriterInv, EngineInv, DataInv, TypeOK, ControlOK, QuietInv
  <1>s. ASSUME UNCHANGED <<bk, engines>> PROVE Written'
    BY <1>o, <1>s DEF Written
  <1>1. CASE BackupDatabasesOffline
    <2>1. UNCHANGED engines /\ pc = "offline"
      BY <1>1 DEF BackupDatabasesOffline, data
    <2>2. CASE bk.st = "none"
      <3>1. bk' = [st |-> "pending", version |-> BackupVersion(obj), dbs |-> obj.databases]
        BY <1>1, <2>2 DEF BackupDatabasesOffline
      <3>2. sts.life # "absent" /\ Copied
        BY <1>o, <2>1 DEF At, QuietInv
      <3>3. CASE obj.life = "deleting"
        <4>1. obj.stage = "None" /\ MajorOf[obj.version] = MajorOf[sts.version]
          BY <1>o, <2>1, <3>2, <3>3 DEF Copied, Unheld, Parting
        <4> QED BY <1>o, <2>1, <3>1, <3>2, <4>1 DEF Written, Opened, BackupVersion
      <3>4. CASE obj.life # "deleting"
        <4>1. obj.stage = "BackingUp" /\ inst.stage = "BackingUp" /\ obj.from = sts.version
          BY <1>o, <2>1, <3>2, <3>4 DEF At, BackupSteps, Copied, Unheld, Serves, Moves
        <4> QED BY <1>o, <2>1, <3>1, <3>2, <4>1 DEF Written, Opened, BackupVersion
      <3> QED BY <3>3, <3>4
    <2>3. CASE bk.st # "none"
      <3>1. bk' = bk \/ bk' = NoBackupPod
        BY <1>1, <1>o, <2>3 DEF BackupDatabasesOffline, TypeOK, ClusterOK, BackupPods
      <3> QED BY <1>o, <2>1, <3>1 DEF Written, NoBackupPod
    <2> QED BY <2>2, <2>3
  <1>2. CASE PodLife
    <2>1. UNCHANGED bk /\ (engines' # engines => pod.st = "pending")
      BY <1>2 DEF PodLife, PodCreated, PodReady, PodStopped, PodGone, SetPod
    <2> QED BY <1>o, <2>1 DEF Written, QuietInv, Quiet, ServerDown
  <1>3. CASE Volumes
    <2>1. UNCHANGED bk /\ (engines' = engines \/ engines' = {})
      BY <1>3 DEF Volumes, PVCRemoved
    <2> QED BY <1>o, <2>1 DEF Written
  <1>4. CASE Backups \/ CollectBackupPod
    <2>1. /\ UNCHANGED engines
          /\ bk'.st \in {"pending", "running"} =>
                bk.st \in {"pending", "running"} /\ bk'.version = bk.version
      BY <1>4, <1>o
      DEF Backups, BackupStarts, BackupSucceeds, BackupFails, CollectBackupPod, data,
          NoBackupPod, TypeOK, ClusterOK, BackupPods
    <2> QED BY <1>o, <2>1 DEF Written
  <1>5. CASE Controller /\ ~BackupDatabasesOffline
    <2>1. UNCHANGED <<bk, engines>>
      BY <1>5
      DEF Controller, Reconcile, AddFinalizer, ReconcileMajorUpgrade, StartMajorUpgrade,
          BackupDatabases, ScaleDown, RecordBackedUp, ReleaseStorage, DeletePrimary,
          DeleteShadow, DeletePVC, AwaitRelease, RecordReleased, ReconcilePVCs,
          ApplyStatefulSet, ReconcileDatabase, ExecFails, RecordDatabases,
          PrepareDirectory, ApplyCronJob, FinishMajorUpgrade, SetPhase, SetAvailable,
          ClearError, SetProgress, SetError, Report, ReportDeleting, ReportDeletion,
          ReportFinalizer, RemoveFinalizer, cluster, data
    <2> QED BY <1>s, <2>1
  <1>6. CASE \/ CacheCatchesUp \/ Abort \/ RestoreFails \/ StatementFails \/ StatusCatchesUp
             \/ CollectStatefulSet \/ CollectCronJob \/ Users \/ UNCHANGED vars
    <2>1. UNCHANGED <<bk, engines>>
      BY <1>6
      DEF CacheCatchesUp, Abort, RestoreFails, StatementFails, StatusCatchesUp,
          CollectStatefulSet, CollectCronJob, Users, UserCreates, UserEdits, UserDeletes,
          ClientWrites, vars, cluster, data
    <2> QED BY <1>s, <2>1
  <1> QED BY <1>1, <1>2, <1>3, <1>4, <1>5, <1>6 DEF Next, Garbage

(***************************************************************************)
(* A backup Pod runs the version that wrote the databases it backs up, for  *)
(* any databases, tagged versions, edits at any moment, failed calls and    *)
(* evictions, as long as Instances are deleted once they have settled (the  *)
(* version parameter of backupDatabases).                                   *)
(***************************************************************************)
THEOREM BackupsByWriter ==
    ASSUME Careful, Tagged, Patient
    PROVE  Spec => []BackupByWriter
  <1>1. Init => WriterInv
    <2>1. Init => EngineInv
      BY TypeInit, QuietInit, DataInit, EngineInit DEF EngineInv, DataInv, Engine
    <2>2. Init => Truthful /\ Parting /\ Written
      <3> SUFFICES ASSUME Init PROVE Truthful /\ Parting /\ Written
        OBVIOUS
      <3>1. inst.life = "absent" /\ inst.phase = "" /\ bk.st = "none" /\ pc = "idle"
        BY DEF Init, NoInstance, NoBackupPod
      <3> QED BY <3>1 DEF Truthful, Parting, Written, Unheld
    <2> QED BY <2>1, <2>2 DEF WriterInv
  <1>2. WriterInv /\ [Next]_vars => WriterInv'
    <2> SUFFICES ASSUME WriterInv, [Next]_vars PROVE WriterInv'
      OBVIOUS
    <2>1. EngineInv'
      BY TypeNext, QuietNext, DataNext, EngineNext
      DEF WriterInv, EngineInv, DataInv, Engine, Careful
    <2>2. Truthful'
      BY TruthfulNext DEF WriterInv, EngineInv, DataInv
    <2> QED BY <2>1, <2>2, PartingNext, WrittenNext DEF WriterInv
  <1>3. WriterInv => BackupByWriter
    BY DEF WriterInv, Written, BackupByWriter
  <1> QED BY <1>1, <1>2, <1>3, PTL DEF Spec
-----------------------------------------------------------------------------
(***************************************************************************)
(* Whether there is a backup volume is decided when the Instance is         *)
(* created: with edits that enable it later, an upgrade's backup Pod waits  *)
(* for a volume nobody creates, and the directory of a schedule is made in  *)
(* a pod that does not mount it.                                            *)
(***************************************************************************)
Fixed == "enableBackup" \notin Edits

Mounted ==
    /\ inst.life # "absent" /\ sts.life # "absent" =>
          sts.backup = inst.backup /\ (inst.backup => bpvc)
    /\ inst.life # "absent" /\ pod.st # "none" => pod.backup = inst.backup
    /\ pc \notin Unheld => obj.backup = inst.backup
    /\ pc = "sts" /\ obj.backup => bpvc
    /\ bk.st # "none" => bpvc

Prepared ==
    /\ inst.life # "absent" => cron # "orphan"
    /\ pc = "cronjob" /\ WantsSchedule(obj) => dir
    /\ cron = "owned" => dir

MountInv == DataInv /\ Mounted /\ Prepared

(* A step that changes none of it, and moves on to neither of its steps.    *)
LEMMA MountStill ==
    ASSUME Mounted, Prepared, UNCHANGED <<bpvc, cron, dir>>,
           UNCHANGED sts \/ (sts'.life = sts.life /\ sts'.backup = sts.backup),
           UNCHANGED pod \/ pod'.st = "none" \/
              (pod.st # "none" /\ pod'.backup = pod.backup),
           inst'.life # "absent" => inst.life # "absent",
           inst'.life # "absent" \/ pc' \notin Unheld => inst'.backup = inst.backup,
           pc' = pc \/ pc' \notin {"sts", "cronjob"},
           \/ pc' \in Unheld
           \/ pc \notin Unheld /\ obj'.backup = obj.backup
           \/ pc' \notin {"sts", "cronjob"} /\ obj'.backup = inst'.backup,
           bk'.st # "none" => bk.st # "none"
    PROVE  Mounted' /\ Prepared'
  <1> USE DEF Unheld
  <1>1. Mounted'
    BY DEF Mounted
  <1>2. Prepared'
    BY DEF Prepared, WantsSchedule
  <1> QED BY <1>1, <1>2

(* Every step keeps it.                                                     *)
LEMMA MountNext ==
    ASSUME Careful, Fixed, MountInv, [Next]_vars
    PROVE  Mounted' /\ Prepared'
  <1> USE DEF Unheld
  <1>o. /\ obj \in Instances /\ inst \in Instances
        /\ World /\ Stands(pc, obj) /\ TypeOK /\ QuietInv /\ At(pc, obj)
        /\ Mounted /\ Prepared
    BY DEF MountInv, DataInv, TypeOK, ControlOK, QuietInv
  <1>c. pc \notin Unheld => Copied /\ Agrees(obj) /\ inst.life # "absent"
    BY <1>o DEF QuietInv, Copied, Stands
  <1>1. CASE PrepareDirectory
    <2>1. /\ UNCHANGED <<inst, sts, pod, bk, bpvc, cron>> /\ pc = "schedule"
          /\ dir' = dir \/ (dir' = TRUE)
          /\ pc' \in {"cronjob"} \cup Unheld
          /\ pc' \notin Unheld => obj' = obj
      BY <1>1, <1>o, <1>c
      DEF PrepareDirectory, Goto, Fail, Requeue, Return, Mounted, WantsSchedule
    <2>2. pc' = "cronjob" /\ WantsSchedule(obj) => dir'
      <3>1. CASE cron = "absent" /\ WantsSchedule(obj) /\ pc' = "cronjob"
        <4>1. pod.st = "ready" /\ dir' = (dir \/ pod.backup)
          BY <1>1, <3>1 DEF PrepareDirectory, Fail, Requeue, Return, Goto
        <4>2. pod.backup
          BY <1>o, <1>c, <2>1, <3>1, <4>1 DEF Mounted, WantsSchedule
        <4> QED BY <4>1, <4>2
      <3>2. CASE cron # "absent" /\ WantsSchedule(obj)
        <4>1. cron = "owned" /\ dir' = dir
          BY <1>1, <1>o, <1>c, <2>1, <3>2
          DEF PrepareDirectory, Prepared, TypeOK, ClusterOK
        <4> QED BY <1>o, <4>1 DEF Prepared
      <3> QED BY <3>1, <3>2
    <2> QED BY <1>o, <2>1, <2>2 DEF Mounted, Prepared, WantsSchedule
  <1>2. CASE ApplyCronJob
    <2>1. /\ UNCHANGED <<inst, obj, sts, pod, bk, bpvc, dir>> /\ pc = "cronjob"
          /\ cron' = IF WantsSchedule(obj) THEN "owned" ELSE "absent"
          /\ pc' = "finish"
      BY <1>2 DEF ApplyCronJob, Goto
    <2> QED BY <1>o, <2>1 DEF Mounted, Prepared
  <1>3. CASE BackupDatabasesOffline
    <2>1. /\ UNCHANGED <<inst, sts, pod, bpvc, cron, dir>> /\ pc = "offline"
          /\ pc' \in {"waiting", "backedUp", "release"} \cup Unheld
          /\ pc' \notin Unheld => obj' = obj
      BY <1>3, <1>o
      DEF BackupDatabasesOffline, Goto, Fail, Requeue, Return, AfterBackup, sched, TypeOK,
          ClusterOK, BackupPods
    <2>2. obj.life = "deleting" => obj.backup
      BY <1>o, <2>1 DEF Stands, Deletes, BackupSteps, WantsBackup
    <2>3. obj.life # "deleting" => inst.backup
      BY <1>o, <1>c, <2>1 DEF At, BackupSteps, Copied, World, Staged
    <2>4. bpvc
      BY <1>o, <1>c, <2>1, <2>2, <2>3 DEF Mounted, At
    <2> QED BY <1>o, <2>1, <2>4 DEF Mounted, Prepared
  <1>4. CASE \/ Abort \/ RestoreFails \/ StatementFails
             \/ Reports /\ ~PrepareDirectory /\ ~ApplyCronJob /\ ~BackupDatabasesOffline
    <2>1. Calm
      BY <1>o, <1>4, ReportsCalm
    <2>2. UNCHANGED <<bk, bpvc, cron, dir>>
      BY <1>4
      DEF Reports, BackupDatabases, ReleaseStorage, AwaitRelease, ReconcileDatabase,
          ExecFails, RecordDatabases, SetPhase, SetAvailable, ClearError, SetProgress,
          SetError, Report, ReportDeleting, ReportDeletion, ReportFinalizer, Abort,
          RestoreFails, StatementFails, cluster, sched
    <2>3. pc' # "cronjob"
      BY <1>4
      DEF Reports, BackupDatabases, ReleaseStorage, AwaitRelease, ReconcileDatabase,
          ExecFails, RecordDatabases, SetPhase, SetAvailable, ClearError, SetProgress,
          SetError, Report, ReportDeleting, ReportDeletion, ReportFinalizer, Abort,
          RestoreFails, StatementFails, Set, Update, Goto, Fail, Requeue, Return, AfterBackup
    <2>4. pc' \in Unheld \/ (pc \notin Unheld /\ pc' # "sts" /\ obj'.backup = obj.backup)
      BY <2>1 DEF Calm, Moved, Follows, Same
    <2>5. UNCHANGED <<sts, pod>> /\ inst'.life = inst.life /\ inst'.backup = inst.backup
      BY <2>1 DEF Calm, Same
    <2> QED BY <1>o, <2>2, <2>3, <2>4, <2>5, MountStill
  <1>5. CASE Reconcile
    <2>1. /\ UNCHANGED <<inst, sts, pod, bk, bpvc, cron, dir>>
          /\ pc' \in {"idle", "deletion", "upgrade", "addFinalizer"}
          /\ pc' \notin Unheld => obj' = inst
      BY <1>5 DEF Reconcile, local, cluster, sched, Read, Stale, Careful, Orderly
    <2> QED BY <1>o, <2>1 DEF Mounted, Prepared
  <1>6. CASE AddFinalizer \/ StartMajorUpgrade \/ RecordBackedUp \/ RecordReleased
             \/ FinishMajorUpgrade
    <2>1. UNCHANGED <<sts, pod, bk, bpvc, cron, dir>>
      BY <1>6
      DEF AddFinalizer, StartMajorUpgrade, RecordBackedUp, RecordReleased,
          FinishMajorUpgrade, cluster, sched
    <2>2. /\ pc' \notin {"sts", "cronjob"}
          /\ \/ UNCHANGED inst /\ (pc' \in Unheld \/ (obj' = obj /\ pc \notin Unheld))
             \/ /\ obj' = inst' /\ inst'.life = inst.life /\ inst'.backup = inst.backup
      BY <1>6, <1>o
      DEF AddFinalizer, StartMajorUpgrade, RecordBackedUp, RecordReleased,
          FinishMajorUpgrade, Update, Set, Goto, Fail, Requeue, Return, UpgradeStep, Instances
    <2> QED BY <1>o, <2>1, <2>2, MountStill
  <1>7. CASE ReconcileMajorUpgrade \/ DeletePrimary \/ DeleteShadow
    <2>1. /\ UNCHANGED <<inst, obj, sts, pod, bk, bpvc, cron, dir>> /\ pc \notin Unheld
          /\ pc' \notin {"sts", "cronjob"}
      BY <1>7
      DEF ReconcileMajorUpgrade, UpgradeStep, DeletePrimary, DeleteShadow, DeletePVC,
          AfterRelease, Goto, cluster, sched
    <2> QED BY <1>o, <2>1, MountStill
  <1>8. CASE ScaleDown
    <2>1. /\ UNCHANGED <<inst, pod, bk, bpvc, cron, dir>> /\ pc \notin Unheld
          /\ (pc' = "waiting" /\ obj' = obj) \/ pc' \in Unheld
          /\ sts'.life = sts.life /\ sts'.backup = sts.backup
      BY <1>8, <1>o
      DEF ScaleDown, Goto, Fail, Requeue, Return, TypeOK, ClusterOK, StatefulSets, sched
    <2> QED BY <1>o, <2>1, MountStill
  <1>9. CASE ReconcilePVCs
    <2>1. /\ UNCHANGED <<inst, obj, sts, pod, bk, cron, dir>>
          /\ pc = "pvcs" /\ pc' = "sts" /\ bpvc' = (bpvc \/ obj.backup)
      BY <1>9 DEF ReconcilePVCs, Goto, sched
    <2> QED BY <1>o, <2>1 DEF Mounted, Prepared
  <1>10. CASE ApplyStatefulSet
    <2>1. /\ UNCHANGED <<inst, obj, pod, bk, bpvc, cron, dir>> /\ pc = "sts"
          /\ pc' \notin {"sts", "cronjob"} /\ sts'.backup = obj.backup
      BY <1>10 DEF ApplyStatefulSet, sched
    <2> QED BY <1>o, <2>1 DEF Mounted, Prepared
  <1>11. CASE RemoveFinalizer
    <2>1. NoInstance.life = "absent"
      BY DEF NoInstance
    <2>2. /\ UNCHANGED <<pod, bk, bpvc, dir>> /\ pc' = "idle"
          /\ \/ UNCHANGED <<inst, sts, cron>>
             \/ inst' = NoInstance /\ (cron' = "owned" => cron = "owned")
      BY <1>11 DEF RemoveFinalizer, Update, Requeue, Return
    <2> QED BY <1>o, <2>1, <2>2 DEF Mounted, Prepared
  <1>12. CASE PodLife
    <2>1. /\ UNCHANGED <<inst, pc, obj, sts, bk, bpvc, cron, dir>>
          /\ pod'.st # "none" =>
                \/ pod'.backup = pod.backup /\ pod.st # "none"
                \/ pod'.backup = sts.backup /\ sts.life # "absent"
      BY <1>12, <1>o
      DEF PodLife, PodCreated, PodReady, PodStopped, PodGone, SetPod, local, sched, TypeOK,
          ClusterOK, Pods, NoPod
    <2> QED BY <1>o, <2>1 DEF Mounted, Prepared, WantsSchedule
  <1>13. CASE CollectStatefulSet
    <2>1. /\ inst.life = "absent" /\ pc \in Unheld
          /\ UNCHANGED <<inst, pc, obj, bk, bpvc, cron, dir>>
      BY <1>13, <1>o, <1>c DEF CollectStatefulSet, QuietInv, Adopted, local, sched
    <2> QED BY <1>o, <2>1 DEF Mounted, Prepared
  <1>14. CASE CollectCronJob
    <2>1. UNCHANGED <<inst, pc, obj, sts, pod, bk, bpvc, dir>> /\ cron' = "absent"
      BY <1>14 DEF CollectCronJob, local
    <2> QED BY <1>o, <2>1 DEF Mounted, Prepared, WantsSchedule
  <1>15. CASE \/ ClientWrites \/ Backups \/ CollectBackupPod \/ Volumes
              \/ CacheCatchesUp \/ StatusCatchesUp \/ UNCHANGED vars
    <2>1. /\ UNCHANGED <<inst, pc, obj, sts, pod, bpvc, cron, dir>>
          /\ bk'.st # "none" => bk.st # "none"
      BY <1>15, <1>o
      DEF ClientWrites, Backups, BackupStarts, BackupSucceeds, BackupFails,
          CollectBackupPod, Volumes, PVCRemoved, CacheCatchesUp, StatusCatchesUp, vars,
          local, cluster, sched, NoBackupPod
    <2> QED BY <1>o, <2>1, MountStill
  <1>16. CASE UserCreates
    <2>1. /\ UNCHANGED <<pc, obj, sts, pod, bk, bpvc, cron, dir>> /\ pc \in Unheld
          /\ sts.life = "absent" /\ pod.st = "none" /\ cron = "absent"
      BY <1>16, <1>c DEF UserCreates, cluster, sched, Careful, Orderly, Clean
    <2> QED BY <1>o, <2>1 DEF Mounted, Prepared
  <1>17. CASE UserEdits
    <2>1. PICK kind \in EditKinds \ {"enableBackup", "disableBackup"} : inst' \in Edited(kind)
      BY <1>17, ConstantsAssumption DEF UserEdits, Careful, Fixed
    <2>2. inst'.life = inst.life /\ inst'.backup = inst.backup
      BY <1>o, <2>1 DEF Edited, Instances, EditKinds
    <2>3. UNCHANGED <<pc, obj, sts, pod, bk, bpvc, cron, dir>>
      BY <1>17 DEF UserEdits, local, cluster, sched
    <2> QED BY <1>o, <2>2, <2>3, MountStill
  <1>18. CASE UserDeletes
    <2>1. UNCHANGED <<pc, obj, sts, pod, bk, bpvc, cron, dir>> /\ inst.life = "live"
      BY <1>18 DEF UserDeletes, local, cluster, sched
    <2>2. \/ inst'.life = "deleting" /\ inst'.backup = inst.backup
          \/ inst'.life = "absent" /\ ~inst.finalizer
      BY <1>18, <1>o DEF UserDeletes, NoInstance, Instances
    <2>3. ~inst.finalizer => pc \in Unheld
      BY <1>c DEF Copied
    <2> QED BY <1>o, <2>1, <2>2, <2>3 DEF Mounted, Prepared, WantsSchedule
  <1> QED
    BY <1>1, <1>2, <1>3, <1>4, <1>5, <1>6, <1>7, <1>8, <1>9, <1>10,
       <1>11, <1>12, <1>13, <1>14, <1>15, <1>16, <1>17, <1>18
    DEF Next, Controller, Reports, Garbage, Users

(* The invariant of the backup volume, for the two theorems below.          *)
LEMMA MountAlways ==
    ASSUME Careful, Fixed
    PROVE  Spec => []MountInv
  <1>1. Init => MountInv
    <2>1. Init => DataInv
      BY TypeInit, QuietInit, DataInit DEF DataInv
    <2>2. Init => Mounted /\ Prepared
      <3> SUFFICES ASSUME Init PROVE Mounted /\ Prepared
        OBVIOUS
      <3>1. inst.life = "absent" /\ bk.st = "none" /\ pc = "idle" /\ cron = "absent"
        BY DEF Init, NoInstance, NoBackupPod
      <3> QED BY <3>1 DEF Mounted, Prepared, Unheld
    <2> QED BY <2>1, <2>2 DEF MountInv
  <1>2. MountInv /\ [Next]_vars => MountInv'
    BY TypeNext, QuietNext, DataNext, MountNext DEF MountInv, DataInv, Careful
  <1> QED BY <1>1, <1>2, PTL DEF Spec

(***************************************************************************)
(* The backup Pod of an upgrade or a deletion can always be scheduled: the  *)
(* volume it writes to exists (createDatabaseBackupPod, startMajorUpgrade). *)
(***************************************************************************)
THEOREM BackupVolumeExists ==
    ASSUME Careful, Fixed
    PROVE  Spec => []BackupHasVolume
  <1>1. MountInv => BackupHasVolume
    BY DEF MountInv, Mounted, BackupHasVolume
  <1> QED BY <1>1, MountAlways, PTL

(***************************************************************************)
(* A CronJob exists only where its runs find the directory they write to,   *)
(* prepared through a server pod that mounts the backup volume              *)
(* (reconcileScheduledBackupCronJob).                                       *)
(***************************************************************************)
THEOREM ScheduleDirectoryExists ==
    ASSUME Careful, Fixed
    PROVE  Spec => []ScheduleHasDirectory
  <1>1. MountInv => ScheduleHasDirectory
    BY DEF MountInv, Prepared, ScheduleHasDirectory
  <1> QED BY <1>1, MountAlways, PTL
-----------------------------------------------------------------------------
(***************************************************************************)
(* What a report writes, and to which copies: the copy the API server has   *)
(* and the reconcile's own stay equal where a write is accepted.            *)
(***************************************************************************)
Wrote(new) ==
    \/ UNCHANGED inst /\ pc' = "idle"
    \/ UNCHANGED <<inst, obj>> /\ new = obj
    \/ obj = inst /\ inst' = new /\ (pc' = "idle" \/ obj' = inst')

(* A write, accepted, refused or skipped, is one.                           *)
LEMMA UpdateWrote ==
    ASSUME NEW new, NEW next, Update(new, next) \/ Set(new, next)
    PROVE  Wrote(new) /\ pc' \in {"idle", next}
  <1>1. CASE Update(new, next)
    BY <1>1 DEF Update, Requeue, Return, Wrote
  <1>2. CASE Set(new, next) /\ new = obj
    BY <1>2 DEF Set, Return, Goto, Wrote
  <1>3. CASE Set(new, next) /\ new # obj
    BY <1>1, <1>3 DEF Set
  <1> QED BY <1>1, <1>2, <1>3

(* No report but its own writes status.databases or the phase.              *)
Restates ==
    /\ inst'.databases = inst.databases \/ RecordDatabases
    /\ inst'.phase = inst.phase \/ SetPhase \/ ReportDeleting
    /\ pc' \in {"idle", "failed"} \/ UNCHANGED <<inst, obj>> \/ (obj = inst /\ obj' = inst')
    /\ pc' = "databases" => ReconcileDatabase

(* Every report restates.                                                   *)
LEMMA ReportsRestate ==
    ASSUME TypeOK, Reports \/ Abort
    PROVE  Restates
  <1>o. obj \in Instances /\ inst \in Instances
    BY DEF TypeOK, ControlOK
  <1>m. \A x : /\ [obj EXCEPT !.message = x].databases = obj.databases
               /\ [obj EXCEPT !.message = x].phase = obj.phase
    BY <1>o DEF Instances
  <1>1. CASE BackupDatabases
    <2>1. CASE sts.life = "absent"
      BY <1>1, <2>1 DEF BackupDatabases, Goto, AfterBackup, Restates
    <2>2. CASE sts.life # "absent"
      <3>1. PICK x \in Messages, next \in {"scale", "waiting", "offline"} :
               Set([obj EXCEPT !.message = x], next)
        BY <1>1, <2>2 DEF BackupDatabases, TypeOK, ClusterOK, StatefulSets, Messages
      <3>2. Wrote([obj EXCEPT !.message = x]) /\ pc' \in {"idle", next}
        BY <3>1, UpdateWrote
      <3> QED BY <1>m, <3>2 DEF Wrote, Restates
    <2> QED BY <2>1, <2>2
  <1>2. CASE ReleaseStorage \/ ReportDeletion \/ ReportFinalizer \/ ClearError
    <2>1. PICK x \in Messages,
               next \in {"deletePrimary", "backup", "release", "removeFinalizer", "idle"} :
             Set([obj EXCEPT !.message = x], next)
      BY <1>2 DEF ReleaseStorage, ReportDeletion, ReportFinalizer, ClearError, Messages
    <2>2. Wrote([obj EXCEPT !.message = x]) /\ pc' \in {"idle", next}
      BY <2>1, UpdateWrote
    <2> QED BY <1>m, <2>2 DEF Wrote, Restates
  <1>3. CASE RecordDatabases
    <2>1. Update([obj EXCEPT !.databases = obj.dbs], "schedule")
      BY <1>3 DEF RecordDatabases
    <2>2. Wrote([obj EXCEPT !.databases = obj.dbs]) /\ pc' \in {"idle", "schedule"}
      BY <2>1, UpdateWrote
    <2>3. [obj EXCEPT !.databases = obj.dbs].phase = obj.phase
      BY <1>o DEF Instances
    <2> QED BY <1>3, <2>2, <2>3 DEF Wrote, Restates
  <1>4. CASE SetPhase \/ ReportDeleting
    <2>1. PICK x \in Phases, next \in {"available", "deletionMessage"} :
             Set([obj EXCEPT !.phase = x], next)
      BY <1>4 DEF SetPhase, ReportDeleting, Phases
    <2>2. Wrote([obj EXCEPT !.phase = x]) /\ pc' \in {"idle", next}
      BY <2>1, UpdateWrote
    <2>3. [obj EXCEPT !.phase = x].databases = obj.databases
      BY <1>o DEF Instances
    <2> QED BY <1>4, <2>2, <2>3 DEF Wrote, Restates
  <1>5. CASE SetAvailable
    <2>1. Set([obj EXCEPT !.available = Done], "summary")
      BY <1>5 DEF SetAvailable
    <2>2. Wrote([obj EXCEPT !.available = Done]) /\ pc' \in {"idle", "summary"}
      BY <2>1, UpdateWrote
    <2>3. /\ [obj EXCEPT !.available = Done].databases = obj.databases
          /\ [obj EXCEPT !.available = Done].phase = obj.phase
      BY <1>o DEF Instances
    <2> QED BY <2>2, <2>3 DEF Wrote, Restates
  <1>6. CASE SetProgress \/ SetError
    <2>1. pc' = "idle" /\ inst'.databases = inst.databases /\ inst'.phase = inst.phase
      BY <1>6, <1>o DEF SetProgress, SetError, Report, Requeue, Return, Instances
    <2> QED BY <2>1 DEF Restates
  <1>7. CASE BackupDatabasesOffline
    <2>1. Goto("waiting") \/ Goto(AfterBackup) \/ Fail
      BY <1>7 DEF BackupDatabasesOffline, TypeOK, ClusterOK, BackupPods
    <2> QED BY <1>7, <2>1
        DEF BackupDatabasesOffline, Goto, Fail, Requeue, Return, AfterBackup, Restates
  <1>8. CASE AwaitRelease \/ ReconcileDatabase \/ ExecFails \/ PrepareDirectory \/ ApplyCronJob
    BY <1>8
    DEF AwaitRelease, ReconcileDatabase, ExecFails, PrepareDirectory, ApplyCronJob, Goto,
        Fail, Requeue, Return, Restates
  <1>9. CASE Abort
    BY <1>9 DEF Abort, Fail, Requeue, Return, Goto, Restates
  <1> QED BY <1>1, <1>2, <1>3, <1>4, <1>5, <1>6, <1>7, <1>8, <1>9 DEF Reports
-----------------------------------------------------------------------------
(***************************************************************************)
(* A database the spec asks for and the status lists is on the primary      *)
(* volume for as long as that is bound.  What a reconcile drops, its copy   *)
(* of the spec does not ask for; nor does the spec by then, unless a user   *)
(* has asked again for the name dropped: without drops status lists nothing *)
(* else than the spec, without additions the spec asks for nothing that the *)
(* reconcile's copy does not.                                               *)
(***************************************************************************)
Drops == "dropDatabase" \in Edits

OneWay == ~Drops \/ "addDatabase" \notin Edits

Keeps(o) == IF Drops THEN inst.dbs \subseteq o.dbs ELSE o.databases \subseteq o.dbs

Present ==
    /\ ~Drops => inst.databases \subseteq inst.dbs
    /\ pc \notin Unheld => Keeps(obj)
    /\ Held => \A db \in inst.databases \cap inst.dbs : disk[db] # Absent
    /\ pc = "databases" => \A db \in (obj.dbs \ obj.databases) \ todo : disk[db] # Absent
    /\ bk.st = "running" => \A db \in bk.dbs \cap inst.dbs : disk[db] # Absent

PresentInv == DataInv /\ Present

(* A step that takes no file away and leaves the lists alone keeps it.      *)
LEMMA PresentStill ==
    ASSUME Present, inst \in Instances, obj \in Instances, bk \in BackupPods,
           inst'.databases = inst.databases, inst'.dbs = inst.dbs,
           Held' => Held, \A db \in DB : disk[db] # Absent => disk'[db] # Absent,
           bk'.st = "running" => bk' = bk,
           \/ pc' \in Unheld
           \/ /\ pc \notin Unheld
              /\ obj'.dbs = obj.dbs /\ obj'.databases = obj.databases
              /\ pc' = "databases" => pc = "databases" /\ todo' = todo
    PROVE  Present'
  <1>1. inst.databases \subseteq DB /\ obj.dbs \subseteq DB /\ bk.dbs \subseteq DB
    BY DEF Instances, BackupPods
  <1> QED BY <1>1 DEF Present, Keeps, Drops, Unheld

(* What a reconcile drops, the spec does not ask for.                       *)
LEMMA RemovedUnasked ==
    ASSUME Present, Stands(pc, obj), pc = "databases"
    PROVE  Removed \cap inst.dbs = {}
  <1>1. Removed \subseteq obj.databases \ obj.dbs
    BY DEF Stands, Provides, Removed, Unheld
  <1>2. Keeps(obj)
    BY DEF Present, Unheld
  <1> QED BY <1>1, <1>2 DEF Keeps, Removed

(* Every step keeps it.                                                     *)
LEMMA PresentNext ==
    ASSUME Careful, OneWay, PresentInv, [Next]_vars
    PROVE  Present'
  <1> USE DEF Unheld
  <1>o. /\ obj \in Instances /\ inst \in Instances /\ bk \in BackupPods
        /\ World /\ Stands(pc, obj) /\ TypeOK /\ QuietInv /\ Present
    BY DEF PresentInv, DataInv, TypeOK, ControlOK, ClusterOK
  <1>c. pc \notin Unheld => Copied /\ Agrees(obj)
    BY <1>o DEF Stands, QuietInv
  <1>h. pvc' = pvc => (Held' => Held)
    BY DEF Held
  <1>1. ASSUME Reports \/ Abort, ~ReconcileDatabase, ~RecordDatabases,
               ~BackupDatabasesOffline
        PROVE  Present'
    <2>1. Calm /\ Restates
      BY <1>o, <1>1, ReportsCalm, ReportsRestate DEF QuietInv
    <2>2. UNCHANGED <<disk, bk, pvc>>
      BY <1>1
      DEF Reports, Abort, BackupDatabases, ReleaseStorage, AwaitRelease, ExecFails,
          PrepareDirectory, ApplyCronJob, SetPhase, SetAvailable, ClearError, SetProgress,
          SetError, Report, ReportDeleting, ReportDeletion, ReportFinalizer, cluster, data
    <2>3. /\ inst'.databases = inst.databases /\ inst'.dbs = inst.dbs
          /\ pc' # "databases"
      BY <1>1, <2>1 DEF Calm, Same, Restates
    <2>4. \/ pc' \in Unheld
          \/ pc \notin Unheld /\ obj'.dbs = obj.dbs /\ obj'.databases = obj.databases
      BY <2>1, <2>3 DEF Calm, Moved, Follows, Same, Restates
    <2> QED BY <1>o, <1>h, <2>2, <2>3, <2>4, PresentStill
  <1>2. CASE BackupDatabasesOffline
    <2>1. /\ UNCHANGED <<inst, disk, pvc>> /\ (bk'.st # "running" \/ bk' = bk)
          /\ pc \notin Unheld
      BY <1>2 DEF BackupDatabasesOffline, data, NoBackupPod
    <2>2. Goto("waiting") \/ Goto(AfterBackup) \/ Fail
      BY <1>2 DEF BackupDatabasesOffline, TypeOK, ClusterOK, BackupPods
    <2>3. pc' \in Unheld \/ (obj' = obj /\ pc' # "databases")
      BY <2>2 DEF Goto, Fail, Requeue, Return, AfterBackup
    <2> QED BY <1>o, <1>h, <2>1, <2>3, PresentStill
  <1>3. CASE ReconcileDatabase
    <2>1. /\ UNCHANGED <<inst, pc, obj, pvc, bk>> /\ pc = "databases"
      BY <1>3 DEF ReconcileDatabase, cluster
    <2>2. PICK db \in todo : todo' = todo \ {db} /\ (DropDatabase(db) \/ ProvisionDatabase(db))
      BY <1>3 DEF ReconcileDatabase
    <2>3. db \in DB /\ disk \in [DB -> Files] /\ base \in [DB -> Files]
      BY <1>o, <2>2 DEF TypeOK, ControlOK, DataOK
    <2>4. inst.databases \subseteq DB /\ obj.dbs \subseteq DB /\ bk.dbs \subseteq DB
      BY <1>o DEF Instances, BackupPods
    <2>5. Keeps(obj) /\ UNCHANGED <<Held, Keeps(obj)>>
      BY <1>o, <2>1 DEF Present, Held, Keeps, Drops
    <2>6. CASE ProvisionDatabase(db)
      <3>1. /\ disk'[db] # Absent
            /\ \A other \in DB : disk[other] # Absent => disk'[other] # Absent
        BY <2>3, <2>6 DEF ProvisionDatabase, Restorable, Absent
      <3> QED BY <1>o, <2>1, <2>2, <2>4, <2>5, <3>1 DEF Present, Drops
    <2>7. CASE DropDatabase(db)
      <3>1. db \notin obj.dbs /\ db \notin inst.dbs
        BY <1>o, <2>1, <2>7, RemovedUnasked DEF DropDatabase, Removed
      <3>2. \A other \in DB \ {db} : disk'[other] = disk[other]
        BY <2>3, <2>7 DEF DropDatabase
      <3> QED BY <1>o, <2>1, <2>2, <2>4, <2>5, <3>1, <3>2 DEF Present, Drops
    <2> QED BY <2>2, <2>6, <2>7
  <1>4. CASE RecordDatabases
    <2>1. /\ UNCHANGED <<disk, pvc, bk>> /\ pc = "databases" /\ todo = {}
          /\ Update([obj EXCEPT !.databases = obj.dbs], "schedule")
      BY <1>4 DEF RecordDatabases, cluster, data
    <2>2. CASE obj # inst
      <3>1. UNCHANGED inst /\ pc' = "idle"
        BY <2>1, <2>2 DEF Update, Requeue, Return
      <3> QED BY <1>o, <2>1, <3>1 DEF Present, Keeps, Drops, Held
    <2>3. CASE obj = inst
      <3>1. inst' = [obj EXCEPT !.databases = obj.dbs] /\ obj' = inst' /\ pc' = "schedule"
        BY <2>1, <2>3 DEF Update
      <3>2. inst'.databases = obj.dbs /\ inst'.dbs = obj.dbs
        BY <1>o, <3>1 DEF Instances
      <3>3. \A db \in obj.dbs : Held => disk[db] # Absent
        BY <1>o, <2>1, <2>3 DEF Present
      <3> QED BY <1>o, <2>1, <2>3, <3>1, <3>2, <3>3 DEF Present, Keeps, Drops, Held
    <2> QED BY <2>2, <2>3
  <1>5. CASE Reconcile
    <2>1. /\ UNCHANGED <<inst, disk, pvc, bk>>
          /\ pc' \in {"idle", "deletion", "upgrade", "addFinalizer"}
          /\ pc' \notin Unheld => obj' = inst
      BY <1>5 DEF Reconcile, local, cluster, data, Read, Stale, Careful, Orderly
    <2> QED BY <1>o, <2>1 DEF Present, Keeps, Drops, Held
  <1>6. CASE AddFinalizer \/ StartMajorUpgrade \/ RecordReleased \/ FinishMajorUpgrade
    <2>1. UNCHANGED <<disk, pvc, bk>>
      BY <1>6
      DEF AddFinalizer, StartMajorUpgrade, RecordReleased, FinishMajorUpgrade, cluster, data
    <2>2. /\ pc' # "databases" /\ inst'.databases = inst.databases /\ inst'.dbs = inst.dbs
          /\ \/ pc' \in Unheld
             \/ obj' = inst'
             \/ obj' = obj /\ pc \notin Unheld
      <3>1. CASE AddFinalizer \/ RecordReleased
        BY <3>1, <1>o DEF AddFinalizer, RecordReleased, Update, Requeue, Return, Instances
      <3>2. CASE StartMajorUpgrade
        <4> DEFINE new == [obj EXCEPT !.stage = "BackingUp", !.from = running,
                                      !.to = obj.version, !.phase = "Upgrading"]
        <4>1. \/ Goto("pvcs") /\ UNCHANGED inst
              \/ Fail /\ UNCHANGED inst
              \/ Update(new, "backup")
          BY <3>2 DEF StartMajorUpgrade
        <4>2. new.databases = obj.databases /\ new.dbs = obj.dbs /\ pc \notin Unheld
          BY <3>2, <1>o DEF StartMajorUpgrade, Instances
        <4> HIDE DEF new
        <4>3. Update(new, "backup") => Wrote(new) /\ pc' \in {"idle", "backup"}
          BY UpdateWrote
        <4> QED BY <4>1, <4>2, <4>3 DEF Goto, Fail, Requeue, Return, Wrote
      <3>3. CASE FinishMajorUpgrade
        <4> DEFINE new == IF Done THEN [obj EXCEPT !.stage = "None", !.from = NoVersion,
                                                   !.to = NoVersion]
                          ELSE obj
        <4>1. Set(new, "phase")
          BY <3>3 DEF FinishMajorUpgrade
        <4>2. new.databases = obj.databases /\ new.dbs = obj.dbs /\ pc \notin Unheld
          BY <3>3, <1>o DEF FinishMajorUpgrade, Instances
        <4> HIDE DEF new
        <4>3. Wrote(new) /\ pc' \in {"idle", "phase"}
          BY <4>1, UpdateWrote
        <4> QED BY <4>2, <4>3 DEF Wrote
      <3> QED BY <1>6, <3>1, <3>2, <3>3
    <2> QED BY <1>o, <2>1, <2>2 DEF Present, Keeps, Drops, Held
  <1>7. CASE RecordBackedUp
    <2> DEFINE new == [obj EXCEPT !.databases = {}, !.stage = "Releasing"]
    <2>1. UNCHANGED <<disk, pvc, bk>> /\ Update(new, UpgradeStep(new, running))
      BY <1>7 DEF RecordBackedUp, cluster, data
    <2>2. new.databases = {} /\ new.dbs = obj.dbs /\ UpgradeStep(new, running) # "databases"
      BY <1>o DEF Instances, UpgradeStep
    <2>3. \/ UNCHANGED inst /\ pc' \in Unheld
          \/ /\ obj = inst /\ inst' = new
             /\ pc' \in Unheld \/ (obj' = inst' /\ pc' # "databases")
      BY <2>1, <2>2 DEF Update, Requeue, Return
    <2> HIDE DEF new
    <2> QED BY <1>o, <2>1, <2>2, <2>3 DEF Present, Keeps, Drops, Held
  <1>8. CASE ReconcileMajorUpgrade \/ DeletePrimary \/ DeleteShadow
    <2>1. /\ UNCHANGED <<inst, obj, bk, disk>> /\ pc \notin Unheld /\ pc' # "databases"
      BY <1>8
      DEF ReconcileMajorUpgrade, UpgradeStep, DeletePrimary, DeleteShadow, DeletePVC,
          AfterRelease, Goto, cluster, data
    <2>2. Held' => Held
      BY <1>8, <1>o
      DEF ReconcileMajorUpgrade, DeletePrimary, DeleteShadow, DeletePVC, cluster, Held,
          TypeOK, ClusterOK, Vols
    <2> QED BY <1>o, <2>1, <2>2, PresentStill
  <1>9. CASE ScaleDown
    <2>1. /\ UNCHANGED <<inst, bk, disk, pvc>> /\ pc \notin Unheld
          /\ (pc' = "waiting" /\ obj' = obj) \/ pc' \in Unheld
      BY <1>9 DEF ScaleDown, Goto, Fail, Requeue, Return, data
    <2> QED BY <1>o, <1>h, <2>1, PresentStill
  <1>10. CASE ReconcilePVCs
    <2>1. /\ UNCHANGED <<inst, obj, bk, disk>> /\ pc = "pvcs" /\ pc' = "sts"
          /\ obj.life = "live"
      BY <1>10, <1>o DEF ReconcilePVCs, Goto, data, QuietInv, At, LiveSteps, PastBackup
    <2>2. inst.databases # {} => Held
      BY <1>c, <2>1 DEF Agrees
    <2> QED BY <1>o, <2>1, <2>2 DEF Present, Keeps, Drops
  <1>11. CASE ApplyStatefulSet
    <2>1. /\ UNCHANGED <<inst, obj, bk, disk, pvc>> /\ pc = "sts"
          /\ pc' = "databases" => todo' = (obj.dbs \ obj.databases) \cup (obj.databases \ obj.dbs)
      BY <1>11 DEF ApplyStatefulSet, data
    <2> QED BY <1>o, <2>1 DEF Present, Keeps, Drops, Held
  <1>12. CASE RemoveFinalizer
    <2>1. NoInstance.databases = {} /\ NoInstance.dbs = {}
      BY DEF NoInstance
    <2>2. /\ UNCHANGED <<bk, disk, pvc>> /\ pc' = "idle"
          /\ inst' = inst \/ inst' = NoInstance
      BY <1>12 DEF RemoveFinalizer, Update, Requeue, Return, data
    <2> QED BY <1>o, <2>1, <2>2 DEF Present, Keeps, Drops, Held
  <1>13. CASE PodLife
    <2>1. UNCHANGED <<inst, pc, obj, todo, bk, pvc, disk>>
      BY <1>13 DEF PodLife, PodCreated, PodReady, PodStopped, PodGone, SetPod, local
    <2> QED BY <1>o, <1>h, <2>1, PresentStill
  <1>14. CASE \/ CollectStatefulSet \/ CollectBackupPod \/ CollectCronJob
              \/ CacheCatchesUp \/ StatusCatchesUp \/ UNCHANGED vars
    <2>1. /\ UNCHANGED <<inst, pc, obj, todo, pvc, disk>>
          /\ (bk'.st # "running" \/ bk' = bk)
      BY <1>14
      DEF CollectStatefulSet, CollectBackupPod, CollectCronJob, CacheCatchesUp,
          StatusCatchesUp, vars, local, cluster, data, NoBackupPod
    <2> QED BY <1>o, <1>h, <2>1, PresentStill
  <1>15. ASSUME NEW v \in Vols, PVCRemoved(v) PROVE Present'
    <2>1. UNCHANGED <<inst, pc, obj, todo, bk>> /\ bk.st # "running"
      BY <1>15 DEF PVCRemoved, local, InUse
    <2>2. CASE v = "primary"
      <3>1. ~Held /\ ~Held'
        BY <1>15, <1>o, <2>2 DEF PVCRemoved, TypeOK, ClusterOK, Held
      <3>2. pc # "databases"
        BY <1>o, <3>1 DEF Stands, Provides, AfterPVCs
      <3> QED BY <1>o, <2>1, <3>1, <3>2 DEF Present, Keeps, Drops
    <2>3. CASE v # "primary"
      <3>1. (Held' => Held) /\ UNCHANGED disk
        BY <1>15, <1>o, <2>3 DEF PVCRemoved, TypeOK, ClusterOK, Vols, Held
      <3> QED BY <1>o, <2>1, <3>1, PresentStill
    <2> QED BY <2>2, <2>3
  <1>16. CASE BackupStarts
    <2>1. /\ UNCHANGED <<inst, pc, obj, todo, pvc, disk>> /\ bk.st = "pending"
          /\ bk'.dbs = bk.dbs /\ Held
      BY <1>16, <1>o DEF BackupStarts, local, data, Held, Vols, BackupPods
    <2>2. inst.life # "absent"
      BY <1>o, <2>1 DEF World, Volumed
    <2>3. bk.dbs = inst.databases
      BY <1>o, <2>1, <2>2 DEF World, Copying
    <2> QED BY <1>o, <2>1, <2>3 DEF Present, Keeps, Drops, Held
  <1>17. CASE BackupSucceeds \/ BackupFails
    <2>1. UNCHANGED <<inst, pc, obj, todo, pvc, disk>> /\ bk'.st # "running"
      BY <1>17, <1>o DEF BackupSucceeds, BackupFails, local, BackupPods
    <2> QED BY <1>o, <1>h, <2>1, PresentStill
  <1>18. CASE UserCreates
    <2>1. /\ UNCHANGED <<pc, obj, bk, disk, pvc>> /\ bk.st = "none" /\ pc \in Unheld
      BY <1>18, <1>c DEF UserCreates, Copied, cluster, data, Careful, Orderly, Clean
    <2>2. inst'.databases = {}
      BY <1>18 DEF UserCreates, NoInstance
    <2> QED BY <2>1, <2>2 DEF Present, Keeps, Drops
  <1>19. CASE UserEdits
    <2>1. PICK kind \in Edits \cap EditKinds : inst' \in Edited(kind)
      BY <1>19, ConstantsAssumption DEF UserEdits
    <2>2. UNCHANGED <<pc, obj, todo, bk, disk, pvc, inst.databases>> /\ inst.life = "live"
      BY <1>19, <1>o, <2>1 DEF UserEdits, Edited, Instances, EditKinds, local, cluster, data
    <2>3. inst.databases \subseteq DB /\ bk.dbs \subseteq DB
      BY <1>o DEF Instances, BackupPods
    <2>4. CASE Drops
      <3>1. inst'.dbs \subseteq inst.dbs
        BY <1>o, <2>1, <2>4 DEF Edited, Instances, EditKinds, OneWay, Drops
      <3> QED BY <1>o, <2>2, <2>3, <2>4, <3>1 DEF Present, Keeps, Drops, Held
    <2>5. CASE ~Drops
      <3>1. inst.dbs \subseteq inst'.dbs
        BY <1>o, <2>1, <2>5 DEF Edited, Instances, EditKinds, Drops
      <3>2. inst.databases \subseteq inst.dbs
        BY <1>o, <2>5 DEF Present
      <3>3. bk.st = "running" => bk.dbs \subseteq inst.dbs
        BY <1>o, <2>2, <3>2 DEF World, Copying
      <3> QED BY <1>o, <2>2, <2>3, <2>5, <3>1, <3>2, <3>3 DEF Present, Keeps, Drops, Held
    <2> QED BY <2>4, <2>5
  <1>20. CASE UserDeletes
    <2>1. UNCHANGED <<pc, obj, todo, bk, disk, pvc>>
      BY <1>20 DEF UserDeletes, local, cluster, data
    <2>2. \/ inst'.databases = inst.databases /\ inst'.dbs = inst.dbs
          \/ inst'.databases = {} /\ inst'.dbs = {}
      BY <1>20, <1>o DEF UserDeletes, NoInstance, Instances
    <2> QED BY <1>o, <2>1, <2>2 DEF Present, Keeps, Drops, Held
  <1>21. CASE ClientWrites
    <2>1. UNCHANGED <<inst, pc, obj, todo, bk, pvc>>
      BY <1>21 DEF ClientWrites, local, cluster
    <2>2. PICK db \in DB : disk' = [disk EXCEPT ![db] = used.writes + 1]
      BY <1>21 DEF ClientWrites
    <2>3. \A other \in DB : disk[other] # Absent => disk'[other] # Absent
      BY <1>o, <2>2 DEF TypeOK, DataOK, Absent
    <2> QED BY <1>o, <1>h, <2>1, <2>3, PresentStill
  <1>22. ~RestoreFails /\ ~StatementFails
    BY DEF RestoreFails, StatementFails, Careful
  <1> QED
    BY <1>1, <1>2, <1>3, <1>4, <1>5, <1>6, <1>7, <1>8, <1>9, <1>10,
       <1>11, <1>12, <1>13, <1>14, <1>15, <1>16, <1>17, <1>18, <1>19, <1>20,
       <1>21, <1>22
    DEF Next, Controller, Reports, Garbage, Volumes, Backups, Users

(***************************************************************************)
(* The backup script finds every database it names but those dropped from   *)
(* the spec meanwhile, through failed calls, evictions, edits at any moment,*)
(* upgrades and deletions, unless users both drop databases and add them    *)
(* (databaseBackupScript, reconcileDatabases).                              *)
(***************************************************************************)
THEOREM BackupsFindRequested ==
    ASSUME Careful, OneWay
    PROVE  Spec => []BackupFindsRequested
  <1>1. Init => PresentInv
    <2>1. Init => DataInv
      BY TypeInit, QuietInit, DataInit DEF DataInv
    <2>2. Init => Present
      <3> SUFFICES ASSUME Init PROVE Present
        OBVIOUS
      <3>1. inst.databases = {} /\ bk.st = "none" /\ pc = "idle"
        BY DEF Init, NoInstance, NoBackupPod
      <3> QED BY <3>1 DEF Present, Drops, Unheld
    <2> QED BY <2>1, <2>2 DEF PresentInv
  <1>2. PresentInv /\ [Next]_vars => PresentInv'
    BY TypeNext, QuietNext, DataNext, PresentNext DEF PresentInv, DataInv, Careful
  <1>3. PresentInv => BackupFindsRequested
    BY DEF PresentInv, Present, BackupFindsRequested
  <1> QED BY <1>1, <1>2, <1>3, PTL DEF Spec
-----------------------------------------------------------------------------
(***************************************************************************)
(* Ready means served: nothing takes the volume from a Ready Instance, and  *)
(* a base backup torn by an eviction is taken again before anything would   *)
(* restore it.  A deletion that starts settled is reported, and has its     *)
(* backup, before it releases anything.                                     *)
(***************************************************************************)
NoneTorn == \A db \in DB : base[db] # Partial

Retaking == inst.stage = "BackingUp" \/ (inst.life = "deleting" /\ WantsBackup(inst))

AfterCopy == {"backedUp", "finalizerMessage", "removeFinalizer"} \cup ReleaseSteps

Mended ==
    /\ \A db \in DB : base[db] = Partial => db \in inst.databases /\ Retaking
    /\ bk.st = "succeeded" /\ inst.life # "absent" => NoneTorn
    /\ pc \in AfterCopy => NoneTorn
    /\ \A db \in DB : disk[db] # Partial

PastPhase == {"deletionMessage"} \cup BackupSteps \cup ReleaseSteps

Leaving ==
    /\ inst.life = "deleting" =>
          inst.stage = "None" /\ (bk.st # "none" => WantsBackup(inst))
    /\ bk.st = "running" \/ inst.phase = "Ready" => Held
    /\ pc \notin Unheld /\ obj.life = "deleting" =>
          obj = inst /\ (pc \in PastPhase => obj.phase = "Deleting")

ReadyInv == PresentInv /\ Truthful /\ Mended /\ Leaving

(* A step that leaves the Instance's course, and the volume, alone keeps it. *)
LEMMA LeavingStill ==
    ASSUME Leaving, Same(inst', inst), inst'.phase = "Ready" => inst.phase = "Ready" \/ Held,
           Held => Held', bk'.st # "none" => bk.st # "none",
           bk'.st = "running" => bk.st = "running" \/ Held,
           \/ pc' \in Unheld
           \/ obj'.life # "deleting"
           \/ /\ pc \notin Unheld /\ obj.life = "deleting"
              /\ (UNCHANGED <<inst, obj>> \/ obj' = inst')
              /\ pc' \in PastPhase => obj'.phase = "Deleting"
    PROVE  Leaving'
  BY DEF Leaving, Same, WantsBackup

(* Every step keeps it.                                                     *)
LEMMA LeavingNext ==
    ASSUME Careful, Patient, ReadyInv, [Next]_vars
    PROVE  Leaving'
  <1> USE DEF Unheld
  <1>o. /\ obj \in Instances /\ inst \in Instances /\ bk \in BackupPods
        /\ World /\ Stands(pc, obj) /\ TypeOK /\ QuietInv /\ Truthful /\ Leaving
    BY DEF ReadyInv, PresentInv, DataInv, TypeOK, ControlOK, ClusterOK
  <1>c. pc \notin Unheld => Copied /\ Agrees(obj)
    BY <1>o DEF Stands, QuietInv
  <1>h. pvc' = pvc => (Held => Held')
    BY DEF Held
  <1>p. PastPhase = {"deletionMessage", "backup", "scale", "offline", "backedUp", "release",
                     "deletePrimary", "deleteShadow"}
    BY DEF PastPhase, BackupSteps, ReleaseSteps
  <1>1. ASSUME Reports \/ Abort, ~SetPhase, ~ReportDeleting, ~BackupDatabasesOffline
        PROVE  Leaving'
    <2>1. Calm /\ Restates
      BY <1>o, <1>1, ReportsCalm, ReportsRestate DEF QuietInv
    <2>2. UNCHANGED <<bk, pvc>>
      BY <1>1
      DEF Reports, Abort, BackupDatabases, ReleaseStorage, AwaitRelease, ExecFails,
          ReconcileDatabase, RecordDatabases,
          PrepareDirectory, ApplyCronJob, SetPhase, SetAvailable, ClearError, SetProgress,
          SetError, Report, ReportDeleting, ReportDeletion, ReportFinalizer, cluster
    <2>3. Same(inst', inst) /\ inst'.phase = inst.phase
      BY <1>1, <2>1 DEF Calm, Restates
    <2>4. CASE pc' \in Unheld
      BY <1>o, <1>h, <2>2, <2>3, <2>4, LeavingStill
    <2>5. CASE pc' \notin Unheld
      <3>1. /\ pc \notin Unheld /\ obj'.life = obj.life
            /\ UNCHANGED <<inst, obj>> \/ (obj = inst /\ obj' = inst')
        BY <2>1, <2>5 DEF Calm, Moved, Follows, Same, Restates
      <3>2. obj'.phase = obj.phase
        BY <2>3, <3>1
      <3>3. obj.life = "deleting" /\ pc' \in PastPhase => pc \in PastPhase
        <4>1. CASE BackupDatabases \/ ReportDeletion \/ ReleaseStorage
          BY <1>p, <4>1 DEF BackupDatabases, ReportDeletion, ReleaseStorage
        <4>2. CASE ReportFinalizer
          <5>1. pc' \in {"idle", "removeFinalizer"}
            BY <4>2, UpdateWrote DEF ReportFinalizer
          <5> QED BY <1>p, <5>1
        <4>3. CASE \/ AwaitRelease \/ ReconcileDatabase \/ ExecFails \/ RecordDatabases
                   \/ PrepareDirectory \/ ApplyCronJob \/ SetAvailable \/ ClearError
          <5>1. obj.life = "live"
            BY <4>3, <1>o
            DEF AwaitRelease, ReconcileDatabase, ExecFails, RecordDatabases,
                PrepareDirectory, ApplyCronJob, SetAvailable, ClearError, QuietInv, At,
                LiveSteps, PastBackup
          <5> QED BY <5>1
        <4>4. CASE SetProgress \/ SetError \/ Abort
          BY <2>5, <4>4 DEF SetProgress, SetError, Report, Abort, Fail, Requeue, Return, Goto
        <4> QED BY <1>1, <4>1, <4>2, <4>3, <4>4 DEF Reports
      <3>4. obj'.life = "deleting" /\ pc' \in PastPhase => obj'.phase = "Deleting"
        BY <1>o, <3>1, <3>2, <3>3 DEF Leaving
      <3> QED BY <1>o, <1>h, <2>2, <2>3, <3>1, <3>4, LeavingStill
    <2> QED BY <2>4, <2>5
  <1>2. CASE SetPhase
    <2>1. /\ pc = "phase" /\ obj.life = "live" /\ Held /\ UNCHANGED <<bk, pvc>>
      BY <1>2, <1>o
      DEF SetPhase, cluster, QuietInv, At, LiveSteps, PastBackup, Stands, Provides, AfterPVCs
    <2>2. Calm
      BY <1>o, <1>2, ReportsCalm DEF QuietInv, Reports
    <2>3. Same(inst', inst) /\ (pc' \in Unheld \/ obj'.life # "deleting")
      BY <2>1, <2>2 DEF Calm, Moved, Same
    <2> QED BY <1>o, <1>h, <2>1, <2>3, LeavingStill
  <1>3. CASE ReportDeleting
    <2>1. /\ pc = "deletion" /\ obj.life = "deleting" /\ obj = inst /\ UNCHANGED <<bk, pvc>>
          /\ Set([obj EXCEPT !.phase = "Deleting"], "deletionMessage")
      BY <1>3, <1>o DEF ReportDeleting, cluster, QuietInv, At, DeletionSteps, Leaving
    <2>2. Wrote([obj EXCEPT !.phase = "Deleting"]) /\ Calm
      BY <1>o, <1>3, <2>1, UpdateWrote, ReportsCalm DEF QuietInv, Reports
    <2>3. [obj EXCEPT !.phase = "Deleting"].phase = "Deleting"
      BY <1>o DEF Instances
    <2>4. Same(inst', inst) /\ (inst' = inst \/ inst'.phase # "Ready")
      BY <2>2, <2>3 DEF Calm, Wrote
    <2>5. pc' \in Unheld \/ (obj' = inst' /\ obj'.phase = "Deleting")
      BY <2>1, <2>2, <2>3 DEF Wrote
    <2> QED BY <1>o, <1>h, <2>1, <2>4, <2>5, LeavingStill
  <1>4. CASE BackupDatabasesOffline
    <2>1. /\ UNCHANGED <<inst, pvc>> /\ (bk'.st # "running" \/ bk' = bk)
          /\ pc = "offline"
      BY <1>4 DEF BackupDatabasesOffline, NoBackupPod
    <2>2. Goto("waiting") \/ Goto(AfterBackup) \/ Fail
      BY <1>4 DEF BackupDatabasesOffline, TypeOK, ClusterOK, BackupPods
    <2>3. pc' \in Unheld \/ obj' = obj
      BY <2>2 DEF Goto, Fail, Requeue, Return
    <2>4. inst.life = "deleting" => WantsBackup(inst)
      <3>1. CASE obj.life = "deleting"
        <4>1. WantsBackup(obj) /\ obj = inst
          BY <1>o, <2>1, <3>1 DEF Stands, Deletes, BackupSteps, Leaving
        <4> QED BY <4>1
      <3>2. CASE obj.life # "deleting"
        <4>1. inst.stage = "BackingUp"
          BY <1>o, <1>c, <2>1, <3>2 DEF QuietInv, At, BackupSteps, Copied
        <4> QED BY <1>o, <4>1 DEF Leaving
      <3> QED BY <3>1, <3>2
    <2>5. obj.life = "deleting" => obj = inst /\ obj.phase = "Deleting"
      BY <1>o, <1>p, <2>1 DEF Leaving
    <2> QED BY <1>o, <2>1, <2>3, <2>4, <2>5 DEF Leaving, Held
  <1>5. CASE Reconcile
    <2>1. /\ UNCHANGED <<inst, bk, pvc>>
          /\ pc' \in {"idle", "deletion", "upgrade", "addFinalizer"}
          /\ pc' \notin Unheld => obj' = inst
      BY <1>5 DEF Reconcile, local, cluster, Read, Stale, Careful, Orderly
    <2> QED BY <1>o, <1>p, <2>1 DEF Leaving, Held
  <1>6. CASE AddFinalizer \/ RecordReleased \/ RecordBackedUp \/ FinishMajorUpgrade
             \/ StartMajorUpgrade
    <2>1. UNCHANGED <<bk, pvc>> /\ obj.life = "live"
      BY <1>6, <1>o
      DEF AddFinalizer, RecordReleased, RecordBackedUp, FinishMajorUpgrade,
          StartMajorUpgrade, cluster, QuietInv, At, LiveSteps, PastBackup
    <2>2. /\ UNCHANGED inst \/ (inst'.life = "live" /\ (inst'.phase = "Ready" => inst.phase = "Ready"))
          /\ pc' \in Unheld \/ obj'.life = "live"
      <3>1. CASE AddFinalizer \/ RecordReleased \/ RecordBackedUp
        BY <3>1, <1>o, <2>1
        DEF AddFinalizer, RecordReleased, RecordBackedUp, Update, Requeue, Return, Instances
      <3>2. CASE FinishMajorUpgrade
        <4> DEFINE new == IF Done THEN [obj EXCEPT !.stage = "None", !.from = NoVersion,
                                                   !.to = NoVersion]
                          ELSE obj
        <4>1. Set(new, "phase")
          BY <3>2 DEF FinishMajorUpgrade
        <4>2. new.life = obj.life /\ new.phase = obj.phase
          BY <1>o DEF Instances
        <4> HIDE DEF new
        <4>3. Wrote(new)
          BY <4>1, UpdateWrote
        <4> QED BY <2>1, <4>2, <4>3 DEF Wrote
      <3>3. CASE StartMajorUpgrade
        <4> DEFINE new == [obj EXCEPT !.stage = "BackingUp", !.from = running,
                                      !.to = obj.version, !.phase = "Upgrading"]
        <4>1. \/ Goto("pvcs") /\ UNCHANGED inst
              \/ Fail /\ UNCHANGED inst
              \/ Update(new, "backup")
          BY <3>3 DEF StartMajorUpgrade
        <4>2. new.life = obj.life /\ new.phase = "Upgrading"
          BY <1>o DEF Instances
        <4> HIDE DEF new
        <4>3. Update(new, "backup") => Wrote(new)
          BY UpdateWrote
        <4> QED BY <2>1, <4>1, <4>2, <4>3 DEF Goto, Fail, Requeue, Return, Wrote
      <3> QED BY <1>6, <3>1, <3>2, <3>3
    <2> QED BY <1>o, <2>1, <2>2 DEF Leaving, Held
  <1>7. CASE ReconcileMajorUpgrade \/ ApplyStatefulSet \/ ReconcilePVCs
    <2>1. UNCHANGED <<inst, obj, bk>> /\ obj.life = "live"
      BY <1>7, <1>o
      DEF ReconcileMajorUpgrade, ApplyStatefulSet, ReconcilePVCs, Goto, cluster, QuietInv,
          At, LiveSteps, PastBackup
    <2>2. Held => Held'
      BY <1>7 DEF ReconcileMajorUpgrade, ApplyStatefulSet, ReconcilePVCs, cluster, Held, Vols
    <2> QED BY <1>o, <2>1, <2>2 DEF Leaving
  <1>8. CASE DeletePrimary \/ DeleteShadow
    <2>1. /\ UNCHANGED <<inst, obj, bk>> /\ pc \in {"deletePrimary", "deleteShadow"}
          /\ pc' \in {"deleteShadow", "finalizerMessage", "released"}
      BY <1>8 DEF DeletePrimary, DeleteShadow, DeletePVC, AfterRelease, Goto
    <2>2. bk.st # "running" /\ inst.phase # "Ready"
      <3>1. CASE obj.life = "deleting"
        <4>1. obj = inst /\ inst.phase = "Deleting"
          BY <1>o, <1>p, <2>1, <3>1 DEF Leaving
        <4>2. pc = "deleteShadow" => ~Held
          BY <1>o, <2>1, <3>1 DEF Stands, Deletes
        <4>3. pc = "deletePrimary" => bk.st = "none"
          BY <1>o, <2>1, <3>1, <4>1 DEF Stands, Deletes, Leaving
        <4> QED BY <1>o, <2>1, <4>1, <4>2, <4>3 DEF Leaving
      <3>2. CASE obj.life # "deleting"
        <4>1. inst.stage = "Releasing"
          BY <1>o, <1>c, <2>1, <3>2 DEF Stands, Deletes, ReleaseSteps, Copied
        <4> QED BY <1>o, <4>1 DEF World, Staged, Early, Truthful
      <3> QED BY <3>1, <3>2
    <2> QED BY <1>o, <1>p, <2>1, <2>2 DEF Leaving
  <1>9. CASE ScaleDown
    <2>1. /\ UNCHANGED <<inst, bk, pvc>> /\ pc \notin Unheld
          /\ (pc' = "waiting" /\ obj' = obj) \/ pc' \in Unheld
      BY <1>9 DEF ScaleDown, Goto, Fail, Requeue, Return
    <2> QED BY <1>o, <1>p, <2>1 DEF Leaving, Held
  <1>10. CASE RemoveFinalizer
    <2>1. NoInstance.life = "absent" /\ NoInstance.phase = ""
      BY DEF NoInstance
    <2>2. /\ UNCHANGED <<bk, pvc>> /\ pc' = "idle"
          /\ inst' = inst \/ inst' = NoInstance
      BY <1>10 DEF RemoveFinalizer, Update, Requeue, Return
    <2> QED BY <1>o, <2>1, <2>2 DEF Leaving, Held
  <1>11. CASE \/ PodLife \/ CollectStatefulSet \/ CollectBackupPod \/ CollectCronJob
              \/ CacheCatchesUp \/ StatusCatchesUp \/ ClientWrites \/ UNCHANGED vars
    <2>1. /\ UNCHANGED <<inst, pc, obj, pvc>>
          /\ bk' = bk \/ bk'.st = "none"
      BY <1>11
      DEF PodLife, PodCreated, PodReady, PodStopped, PodGone, SetPod, CollectStatefulSet,
          CollectBackupPod, CollectCronJob, CacheCatchesUp, StatusCatchesUp, ClientWrites,
          vars, local, cluster, NoBackupPod
    <2> QED BY <1>o, <2>1 DEF Leaving, Held
  <1>12. ASSUME NEW v \in Vols, PVCRemoved(v) PROVE Leaving'
    <2>1. UNCHANGED <<inst, pc, obj, bk>>
      BY <1>12 DEF PVCRemoved, local
    <2>2. Held => Held'
      BY <1>12, <1>o DEF PVCRemoved, TypeOK, ClusterOK, Vols, Held
    <2> QED BY <1>o, <2>1, <2>2 DEF Leaving
  <1>13. CASE Backups
    <2>1. /\ UNCHANGED <<inst, pc, obj, pvc>> /\ bk.st # "none"
          /\ bk'.st = "running" => Held
      BY <1>13, <1>o
      DEF Backups, BackupStarts, BackupSucceeds, BackupFails, local, BackupPods, Held, Vols
    <2> QED BY <1>o, <2>1 DEF Leaving, Held
  <1>14. CASE UserCreates
    <2>1. /\ UNCHANGED <<pc, obj, bk, pvc>> /\ bk.st = "none" /\ pc \in Unheld
      BY <1>14, <1>c DEF UserCreates, Copied, cluster, Careful, Orderly, Clean
    <2>2. inst'.life = "live" /\ inst'.phase = ""
      BY <1>14 DEF UserCreates, NoInstance
    <2> QED BY <2>1, <2>2 DEF Leaving
  <1>15. CASE UserEdits
    <2>1. PICK kind \in EditKinds : inst' \in Edited(kind)
      BY <1>15, ConstantsAssumption DEF UserEdits
    <2>2. inst.life = "live" /\ inst'.life = "live" /\ inst'.phase = inst.phase
      BY <1>15, <1>o, <2>1 DEF UserEdits, Edited, Instances, EditKinds
    <2>3. UNCHANGED <<pc, obj, bk, pvc>>
      BY <1>15 DEF UserEdits, local, cluster
    <2>4. pc \notin Unheld => obj.life # "deleting"
      BY <1>c, <2>2 DEF Copied
    <2> QED BY <1>o, <2>2, <2>3, <2>4 DEF Leaving, Held
  <1>16. CASE UserDeletes
    <2>1. /\ UNCHANGED <<pc, obj, bk, pvc>> /\ inst.life = "live" /\ inst.phase = "Ready"
      BY <1>16 DEF UserDeletes, local, cluster, Patient, Settled
    <2>2. inst.stage = "None" /\ bk.st = "none" /\ Held
      BY <1>o, <2>1 DEF Truthful, QuietInv, Quiet, Leaving
    <2>3. \/ inst'.life = "deleting" /\ inst'.stage = inst.stage
          \/ inst'.life = "absent"
      BY <1>16, <1>o DEF UserDeletes, NoInstance, Instances
    <2>4. pc \notin Unheld => obj.life # "deleting"
      BY <1>c, <2>1 DEF Copied
    <2> QED BY <1>o, <2>1, <2>2, <2>3, <2>4 DEF Leaving, Held
  <1>17. ~RestoreFails /\ ~StatementFails
    BY DEF RestoreFails, StatementFails, Careful
  <1> QED
    BY <1>1, <1>2, <1>3, <1>4, <1>5, <1>6, <1>7, <1>8, <1>9, <1>10,
       <1>11, <1>12, <1>13, <1>14, <1>15, <1>16, <1>17
    DEF Next, Controller, Reports, Garbage, Volumes, Users

(* A step that touches no file keeps it, when it forgets no torn backup.    *)
LEMMA MendedStill ==
    ASSUME Mended, UNCHANGED <<disk, base>>,
           NoneTorn \/ (inst.databases \subseteq inst'.databases /\ (Retaking => Retaking')),
           bk'.st = "succeeded" /\ inst'.life # "absent" =>
              bk.st = "succeeded" /\ inst.life # "absent",
           pc' \in AfterCopy => NoneTorn
    PROVE  Mended'
  BY DEF Mended, NoneTorn

(* Every step keeps it.                                                     *)
LEMMA MendedNext ==
    ASSUME Careful, Patient, ReadyInv, [Next]_vars
    PROVE  Mended'
  <1> USE DEF Unheld
  <1>o. /\ obj \in Instances /\ inst \in Instances /\ bk \in BackupPods
        /\ World /\ Stands(pc, obj) /\ TypeOK /\ QuietInv /\ Truthful /\ Leaving
        /\ Present /\ Mended
    BY DEF ReadyInv, PresentInv, DataInv, TypeOK, ControlOK, ClusterOK
  <1>c. pc \notin Unheld => Copied /\ Agrees(obj)
    BY <1>o DEF Stands, QuietInv
  <1>p. AfterCopy = {"backedUp", "finalizerMessage", "removeFinalizer", "release",
                     "deletePrimary", "deleteShadow"}
    BY DEF AfterCopy, ReleaseSteps
  <1>n. ~Retaking \/ inst.databases = {} => NoneTorn
    BY <1>o DEF Mended, NoneTorn
  <1>k. pc \in AfterCopy => NoneTorn
    BY <1>o DEF Mended
  <1>s. Same(inst', inst) => (Retaking => Retaking') /\ inst'.life = inst.life
    BY DEF Same, Retaking, WantsBackup
  <1>1. ASSUME Reports \/ Abort, ~ReconcileDatabase, ~BackupDatabasesOffline
        PROVE  Mended'
    <2>1. Calm /\ Restates
      BY <1>o, <1>1, ReportsCalm, ReportsRestate DEF QuietInv
    <2>2. UNCHANGED <<bk, disk, base>>
      BY <1>1
      DEF Reports, Abort, BackupDatabases, ReleaseStorage, AwaitRelease, ExecFails,
          RecordDatabases, PrepareDirectory, ApplyCronJob, SetPhase, SetAvailable,
          ClearError, SetProgress, SetError, Report, ReportDeleting, ReportDeletion,
          ReportFinalizer, cluster, data
    <2>3. NoneTorn \/ inst.databases \subseteq inst'.databases
      <3>1. CASE RecordDatabases
        <4>1. inst' = inst \/ obj = inst
          BY <3>1 DEF RecordDatabases, Update
        <4>2. obj.life = "live" /\ obj.stage # "BackingUp"
          BY <1>o, <3>1
          DEF RecordDatabases, QuietInv, At, LiveSteps, PastBackup, Stands, Provides, AfterPVCs
        <4> QED BY <1>n, <4>1, <4>2 DEF Retaking
      <3>2. CASE ~RecordDatabases
        BY <2>1, <3>2 DEF Restates
      <3> QED BY <3>1, <3>2
    <2>4. Same(inst', inst)
      BY <2>1 DEF Calm
    <2>5. pc' \in AfterCopy => NoneTorn
      <3>1. CASE BackupDatabases
        <4>1. CASE sts.life = "absent"
          BY <1>o, <1>n, <4>1 DEF World, Volumed
        <4>2. CASE sts.life # "absent"
          <5>1. PICK x \in Messages, next \in {"scale", "waiting", "offline"} :
                   Set([obj EXCEPT !.message = x], next)
            BY <3>1, <4>2, <1>o
            DEF BackupDatabases, TypeOK, ClusterOK, StatefulSets, Messages
          <5>2. pc' \in {"idle", next}
            BY <5>1, UpdateWrote
          <5> QED BY <1>p, <5>2
        <4> QED BY <4>1, <4>2
      <3>2. CASE ReportDeletion
        <4>1. pc = "deletionMessage" /\ obj.life = "deleting" /\ obj = inst
          BY <3>2, <1>o DEF ReportDeletion, QuietInv, At, DeletionSteps, Leaving
        <4>2. inst.stage = "None"
          BY <1>o, <4>1 DEF Leaving
        <4>3. CASE WantsBackup(inst)
          <5>1. Set([obj EXCEPT !.message = "deleting"], "backup")
            BY <3>2, <4>1, <4>2, <4>3 DEF ReportDeletion, BackedUp
          <5>2. pc' \in {"idle", "backup"}
            BY <5>1, UpdateWrote
          <5> QED BY <1>p, <5>2
        <4>4. CASE ~WantsBackup(inst)
          BY <1>n, <4>2, <4>4 DEF Retaking
        <4> QED BY <4>3, <4>4
      <3>3. CASE ReleaseStorage \/ ReportFinalizer
        BY <1>p, <1>k, <3>3 DEF ReleaseStorage, ReportFinalizer
      <3>4. CASE RecordDatabases \/ SetPhase \/ SetAvailable \/ ClearError \/ ReportDeleting
        <4>1. PICK new : \/ Update(new, "schedule") \/ Set(new, "available")
                         \/ Set(new, "summary") \/ Set(new, "idle")
                         \/ Set(new, "deletionMessage")
          BY <3>4 DEF RecordDatabases, SetPhase, SetAvailable, ClearError, ReportDeleting
        <4>2. pc' \in {"idle", "schedule", "available", "summary", "deletionMessage"}
          BY <4>1, UpdateWrote
        <4> QED BY <1>p, <4>2
      <3>5. CASE \/ AwaitRelease \/ ExecFails \/ PrepareDirectory \/ ApplyCronJob
                 \/ SetProgress \/ SetError \/ Abort
        BY <1>p, <3>5
        DEF AwaitRelease, ExecFails, PrepareDirectory, ApplyCronJob, SetProgress, SetError,
            Report, Abort, Fail, Requeue, Return, Goto
      <3> QED BY <1>1, <3>1, <3>2, <3>3, <3>4, <3>5 DEF Reports
    <2> QED BY <1>o, <1>s, <2>2, <2>3, <2>4, <2>5, MendedStill
  <1>2. CASE BackupDatabasesOffline
    <2>1. /\ UNCHANGED <<inst, disk, base>> /\ bk'.st # "succeeded" /\ inst.life # "absent"
      BY <1>2, <1>o, <1>c DEF BackupDatabasesOffline, data, NoBackupPod, BackupPods, Copied
    <2>2. CASE bk.st = "succeeded"
      <3>1. NoneTorn
        BY <1>o, <2>1, <2>2 DEF Mended
      <3> QED BY <1>o, <2>1, <3>1, MendedStill
    <2>3. CASE bk.st # "succeeded"
      <3>1. Goto("waiting") \/ Fail
        BY <1>2, <2>3, <1>o DEF BackupDatabasesOffline, BackupPods
      <3>2. pc' \notin AfterCopy
        BY <1>p, <3>1 DEF Goto, Fail, Requeue, Return
      <3>3. Retaking => Retaking'
        BY <2>1 DEF Retaking
      <3> QED BY <1>o, <2>1, <3>2, <3>3, MendedStill
    <2> QED BY <2>2, <2>3
  <1>3. CASE ReconcileDatabase
    <2>1. /\ UNCHANGED <<inst, pc, obj, bk>> /\ pc = "databases"
      BY <1>3 DEF ReconcileDatabase, cluster
    <2>2. PICK db \in todo : DropDatabase(db) \/ ProvisionDatabase(db)
      BY <1>3 DEF ReconcileDatabase
    <2>3. db \in DB /\ disk \in [DB -> Files]
      BY <1>o, <2>2 DEF TypeOK, ControlOK, DataOK
    <2>4. ProvisionDatabase(db) => db \notin inst.databases
      BY <1>o, <1>c, <2>1, <2>2 DEF Stands, Provides, Agrees, ProvisionDatabase, Removed
    <2>5. ProvisionDatabase(db) => base[db] # Partial
      BY <1>o, <2>3, <2>4 DEF Mended
    <2>6. \A other \in DB : disk'[other] # Partial
      BY <1>o, <2>2, <2>3, <2>5
      DEF DropDatabase, ProvisionDatabase, Mended, Partial, Absent
    <2>7. UNCHANGED base
      BY <2>2 DEF DropDatabase, ProvisionDatabase
    <2> QED BY <1>o, <2>1, <2>6, <2>7 DEF Mended, NoneTorn, Retaking
  <1>4. CASE Reconcile
    <2>1. /\ UNCHANGED <<inst, disk, base, bk>>
          /\ pc' \in {"idle", "deletion", "upgrade", "addFinalizer"}
      BY <1>4 DEF Reconcile, local, cluster, data
    <2>2. Retaking => Retaking'
      BY <2>1 DEF Retaking
    <2> QED BY <1>o, <1>p, <2>1, <2>2, MendedStill
  <1>5. CASE AddFinalizer
    <2>1. UNCHANGED <<disk, base, bk>> /\ pc' \in {"idle", "upgrade"}
      BY <1>5, UpdateWrote DEF AddFinalizer, cluster, data
    <2>2. Same(inst', inst) /\ inst'.databases = inst.databases
      BY <1>5, <1>o DEF AddFinalizer, Update, Same, Instances
    <2> QED BY <1>o, <1>p, <1>s, <2>1, <2>2, MendedStill
  <1>6. CASE ReconcileMajorUpgrade
    <2>1. UNCHANGED <<inst, disk, base, bk>> /\ pc = "upgrade" /\ obj.life = "live"
      BY <1>6, <1>o DEF ReconcileMajorUpgrade, cluster, data, QuietInv, At, LiveSteps
    <2>2. pc' \in AfterCopy => obj.stage = "Releasing"
      BY <1>6, <1>p DEF ReconcileMajorUpgrade, UpgradeStep, Goto
    <2>3. obj.stage = "Releasing" => NoneTorn
      BY <1>o, <1>c, <1>n, <2>1 DEF Copied, Leaving, Retaking
    <2>4. Retaking => Retaking'
      BY <2>1 DEF Retaking
    <2> QED BY <1>o, <2>1, <2>2, <2>3, <2>4, MendedStill
  <1>7. CASE StartMajorUpgrade
    <2> DEFINE new == [obj EXCEPT !.stage = "BackingUp", !.from = running,
                                  !.to = obj.version, !.phase = "Upgrading"]
    <2>1. \/ Goto("pvcs") /\ UNCHANGED inst
          \/ Fail /\ UNCHANGED inst
          \/ Update(new, "backup")
      BY <1>7 DEF StartMajorUpgrade
    <2>2. new.databases = obj.databases /\ new.stage = "BackingUp" /\ new.life = obj.life
      BY <1>o DEF Instances
    <2> HIDE DEF new
    <2>3. Update(new, "backup") => Wrote(new) /\ pc' \in {"idle", "backup"}
      BY UpdateWrote
    <2>4. /\ pc' \notin AfterCopy
          /\ inst' = inst \/ (inst'.databases = inst.databases /\ inst'.stage = "BackingUp"
                              /\ inst'.life = inst.life)
      BY <1>p, <2>1, <2>2, <2>3 DEF Goto, Fail, Requeue, Return, Wrote
    <2>5. UNCHANGED <<disk, base, bk>>
      BY <1>7 DEF StartMajorUpgrade, cluster, data
    <2>6. Retaking => Retaking'
      BY <2>4 DEF Retaking
    <2> QED BY <1>o, <2>4, <2>5, <2>6, MendedStill
  <1>8. CASE RecordBackedUp \/ DeletePrimary \/ DeleteShadow \/ RemoveFinalizer
    <2>1. NoneTorn /\ UNCHANGED <<disk, base, bk>>
      BY <1>8, <1>p, <1>k
      DEF RecordBackedUp, DeletePrimary, DeleteShadow, DeletePVC, RemoveFinalizer, cluster,
          data
    <2>2. inst'.life # "absent" => inst.life # "absent"
      <3>1. CASE RecordBackedUp
        <4>1. pc \notin Unheld
          BY <3>1 DEF RecordBackedUp
        <4> QED BY <1>c, <4>1 DEF Copied
      <3>2. CASE DeletePrimary \/ DeleteShadow
        BY <3>2 DEF DeletePrimary, DeleteShadow, DeletePVC
      <3>3. CASE RemoveFinalizer
        BY <3>3, <1>c DEF RemoveFinalizer, Copied
      <3> QED BY <1>8, <3>1, <3>2, <3>3
    <2> QED BY <1>o, <2>1, <2>2, MendedStill
  <1>9. CASE RecordReleased \/ FinishMajorUpgrade
    <2>1. UNCHANGED <<disk, base, bk>> /\ pc \in {"restoring", "finish"} /\ obj.life = "live"
      BY <1>9, <1>o
      DEF RecordReleased, FinishMajorUpgrade, cluster, data, QuietInv, At, LiveSteps,
          PastBackup
    <2>2. inst.stage # "BackingUp" /\ inst.life # "absent"
      BY <1>o, <1>c, <2>1 DEF Stands, Upgrades, Provides, AfterPVCs, Copied
    <2>3. PICK new : Update(new, "pvcs") \/ Set(new, "phase")
      BY <1>9 DEF RecordReleased, FinishMajorUpgrade
    <2>4. Wrote(new) /\ pc' \in {"idle", "pvcs", "phase"}
      BY <2>3, UpdateWrote
    <2>5. pc' \notin AfterCopy
      BY <1>p, <2>4
    <2>6. CASE inst' = inst
      <3>1. Retaking => Retaking'
        BY <2>6 DEF Retaking
      <3> QED BY <1>o, <2>1, <2>5, <2>6, <3>1, MendedStill
    <2>7. CASE inst' # inst
      <3>1. obj = inst
        BY <2>4, <2>7 DEF Wrote
      <3>2. NoneTorn
        BY <1>n, <2>1, <2>2, <3>1 DEF Retaking
      <3> QED BY <1>o, <2>1, <2>2, <2>5, <3>2, MendedStill
    <2> QED BY <2>6, <2>7
  <1>10. CASE ScaleDown \/ ReconcilePVCs \/ ApplyStatefulSet
    <2>1. UNCHANGED <<inst, disk, base, bk>> /\ pc' \notin AfterCopy
      BY <1>10, <1>p
      DEF ScaleDown, ReconcilePVCs, ApplyStatefulSet, Goto, Fail, Requeue, Return, data
    <2>2. Retaking => Retaking'
      BY <2>1 DEF Retaking
    <2> QED BY <1>o, <2>1, <2>2, MendedStill
  <1>11. CASE \/ PodLife \/ CollectStatefulSet \/ CollectBackupPod \/ CollectCronJob
              \/ CacheCatchesUp \/ StatusCatchesUp \/ UNCHANGED vars
    <2>1. /\ UNCHANGED <<inst, pc, disk, base>>
          /\ bk' = bk \/ bk'.st = "none"
      BY <1>11
      DEF PodLife, PodCreated, PodReady, PodStopped, PodGone, SetPod, CollectStatefulSet,
          CollectBackupPod, CollectCronJob, CacheCatchesUp, StatusCatchesUp, vars, local,
          cluster, data, NoBackupPod
    <2>2. Retaking => Retaking'
      BY <2>1 DEF Retaking
    <2> QED BY <1>o, <1>k, <2>1, <2>2, MendedStill
  <1>12. ASSUME NEW v \in Vols, PVCRemoved(v) PROVE Mended'
    <2>1. UNCHANGED <<inst, pc, bk, base>>
      BY <1>12 DEF PVCRemoved, local
    <2>2. disk' = disk \/ disk' = [db \in DB |-> Absent]
      BY <1>12 DEF PVCRemoved
    <2> QED BY <1>o, <2>1, <2>2 DEF Mended, NoneTorn, Retaking, Partial, Absent
  <1>13. CASE Backups
    <2>1. /\ UNCHANGED <<inst, pc, disk>>
          /\ bk.st = "pending" => base' = base /\ bk'.st = "running"
          /\ bk.st \in {"pending", "running"}
      BY <1>13, <1>o
      DEF Backups, BackupStarts, BackupSucceeds, BackupFails, local, data, BackupPods
    <2>2. CASE bk.st = "pending"
      BY <1>o, <2>1, <2>2 DEF Mended, NoneTorn, Retaking
    <2>3. CASE bk.st = "running"
      <3>1. Held /\ inst.life # "absent"
        BY <1>o, <2>3 DEF Leaving, World, Volumed
      <3>2. bk.dbs = inst.databases /\ Retaking
        BY <1>o, <2>3, <3>1 DEF World, Copying, QuietInv, Quiet, Leaving, Retaking, Instances
      <3>3. pc \notin AfterCopy
        <4>1. pc \in AfterCopy => obj.life = "deleting"
          BY <1>o, <1>p, <2>3
          DEF QuietInv, At, PastBackup, ReleaseSteps, DeletionSteps
        <4>2. pc \in {"deleteShadow", "finalizerMessage", "removeFinalizer"} => ~Held
          BY <1>o, <4>1, <1>p DEF Stands, Deletes
        <4>3. pc \in {"release", "deletePrimary"} => obj = inst
          BY <1>o, <1>p, <4>1 DEF Leaving
        <4>4. pc \in {"release", "deletePrimary"} => ~WantsBackup(inst)
          BY <1>o, <1>p, <2>3, <4>1, <4>3 DEF Stands, Deletes
        <4>5. pc # "backedUp"
          BY <1>o, <2>3 DEF QuietInv, At, PastBackup
        <4> QED BY <1>o, <1>p, <2>3, <3>1, <4>1, <4>2, <4>3, <4>4, <4>5 DEF Leaving
      <3>4. CASE BackupSucceeds
        <4>1. base' = [db \in DB |-> IF db \in bk.dbs THEN disk[db] ELSE base[db]]
          BY <3>4 DEF BackupSucceeds
        <4>2. \A db \in DB : base'[db] # Partial
          BY <1>o, <3>2, <4>1 DEF Mended
        <4> QED BY <1>o, <2>1, <4>2 DEF Mended, NoneTorn
      <3>5. CASE BackupFails
        <4>1. PICK copied \in SUBSET Readable : \E torn \in SUBSET (Readable \ copied) :
                 base' = [db \in DB |-> IF db \in copied THEN disk[db]
                                        ELSE IF db \in torn THEN Partial ELSE base[db]]
          BY <3>5 DEF BackupFails
        <4>2. Readable \subseteq bk.dbs
          BY DEF Readable
        <4>3. \A db \in DB : base'[db] = Partial => db \in inst.databases
          BY <1>o, <3>2, <4>1, <4>2 DEF Mended
        <4>4. bk'.st = "failed" /\ Retaking'
          BY <1>o, <2>1, <3>2, <3>5 DEF BackupFails, BackupPods, Retaking
        <4> QED BY <1>o, <2>1, <3>3, <4>3, <4>4 DEF Mended
      <3> QED BY <1>13, <2>3, <3>4, <3>5 DEF Backups, BackupStarts
    <2> QED BY <2>1, <2>2, <2>3
  <1>14. CASE UserCreates
    <2>1. /\ UNCHANGED <<pc, bk, disk, base>> /\ bk.st = "none" /\ inst.life = "absent"
      BY <1>14 DEF UserCreates, cluster, data, Careful, Orderly, Clean
    <2>2. NoneTorn
      BY <1>o, <1>n, <2>1 DEF World, Volumed
    <2> QED BY <1>o, <2>1, <2>2, MendedStill
  <1>15. CASE UserEdits
    <2>1. PICK kind \in EditKinds : inst' \in Edited(kind)
      BY <1>15, ConstantsAssumption DEF UserEdits
    <2>2. /\ inst.life = "live" /\ inst'.life = "live" /\ inst'.stage = inst.stage
          /\ inst'.databases = inst.databases
      BY <1>15, <1>o, <2>1 DEF UserEdits, Edited, Instances, EditKinds
    <2>3. UNCHANGED <<pc, bk, disk, base>>
      BY <1>15 DEF UserEdits, local, cluster, data
    <2>4. Retaking => Retaking'
      BY <2>2 DEF Retaking
    <2> QED BY <1>o, <1>k, <2>2, <2>3, <2>4, MendedStill
  <1>16. CASE UserDeletes
    <2>1. /\ UNCHANGED <<pc, bk, disk, base>> /\ inst.life = "live" /\ inst.phase = "Ready"
      BY <1>16 DEF UserDeletes, local, cluster, data, Patient, Settled
    <2>2. NoneTorn
      BY <1>o, <1>n, <2>1 DEF Truthful, Retaking
    <2> QED BY <1>o, <2>1, <2>2, MendedStill
  <1>17. CASE ClientWrites
    <2>1. UNCHANGED <<inst, pc, bk, base>>
      BY <1>17 DEF ClientWrites, local, cluster
    <2>2. PICK db \in DB : disk' = [disk EXCEPT ![db] = used.writes + 1]
      BY <1>17 DEF ClientWrites
    <2>3. \A other \in DB : disk'[other] # Partial
      BY <1>o, <2>2 DEF TypeOK, DataOK, Mended, Partial
    <2> QED BY <1>o, <2>1, <2>3 DEF Mended, NoneTorn, Retaking
  <1>18. ~RestoreFails /\ ~StatementFails
    BY DEF RestoreFails, StatementFails, Careful
  <1> QED
    BY <1>1, <1>2, <1>3, <1>4, <1>5, <1>6, <1>7, <1>8, <1>9, <1>10,
       <1>11, <1>12, <1>13, <1>14, <1>15, <1>16, <1>17, <1>18
    DEF Next, Controller, Reports, Garbage, Volumes, Users

(***************************************************************************)
(* An Instance reported Ready has every requested database its status lists *)
(* whole on a primary volume nobody deleted, through evictions, failed      *)
(* calls, upgrades, deletions and recreations, as long as users do not both *)
(* drop databases and add them, and delete settled Instances only           *)
(* (reconcileDatabases, phaseReady).                                        *)
(***************************************************************************)
THEOREM ReadyIsServed ==
    ASSUME Careful, OneWay, Patient
    PROVE  Spec => []ReadyServesAll
  <1>1. Init => ReadyInv
    <2>1. Init => DataInv
      BY TypeInit, QuietInit, DataInit DEF DataInv
    <2>2. Init => Present /\ Truthful /\ Mended /\ Leaving
      <3> SUFFICES ASSUME Init PROVE Present /\ Truthful /\ Mended /\ Leaving
        OBVIOUS
      <3>1. /\ inst.databases = {} /\ inst.stage = "None" /\ inst.life = "absent"
            /\ inst.phase = "" /\ bk.st = "none" /\ pc = "idle"
        BY DEF Init, NoInstance, NoBackupPod
      <3>2. \A db \in DB : base[db] # Partial /\ disk[db] # Partial
        BY DEF Init, Partial, Absent
      <3> QED BY <3>1, <3>2
          DEF Present, Drops, Truthful, Mended, Leaving, Unheld, AfterCopy, ReleaseSteps, PastPhase
    <2> QED BY <2>1, <2>2 DEF ReadyInv, PresentInv
  <1>2. ReadyInv /\ [Next]_vars => ReadyInv'
    <2>1. ReadyInv /\ [Next]_vars => PresentInv'
      BY TypeNext, QuietNext, DataNext, PresentNext DEF ReadyInv, PresentInv, DataInv, Careful
    <2>2. ReadyInv /\ [Next]_vars => Truthful'
      BY TruthfulNext DEF ReadyInv, PresentInv, DataInv
    <2> QED BY <2>1, <2>2, MendedNext, LeavingNext DEF ReadyInv
  <1>3. ReadyInv => ReadyServesAll
    <2> SUFFICES ASSUME ReadyInv, inst.phase = "Ready"
                 PROVE  Held /\ \A db \in inst.databases \cap inst.dbs : disk[db] >= 0
      BY DEF ReadyServesAll, Held
    <2>1. Held
      BY DEF ReadyInv, Leaving
    <2>2. inst.databases \subseteq DB /\ disk \in [DB -> Files]
      BY DEF ReadyInv, PresentInv, DataInv, TypeOK, ControlOK, DataOK, Instances
    <2>3. \A db \in inst.databases \cap inst.dbs : disk[db] # Absent /\ disk[db] # Partial
      BY <2>1, <2>2 DEF ReadyInv, PresentInv, Present, Mended
    <2>4. MaxWrites \in Nat
      BY ConstantsAssumption
    <2> QED BY <2>1, <2>2, <2>3, <2>4 DEF Files, Absent, Partial
  <1> QED BY <1>1, <1>2, <1>3, PTL DEF Spec
=============================================================================
