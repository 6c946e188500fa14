---------------------- MODULE InstanceReconcilerProofs ----------------------
(* Theorems about InstanceReconciler, for every value of its constants.    *)
EXTENDS InstanceReconciler, TLAPS

(***************************************************************************)
(* Writing, skipping a write, failing and returning keep the types of what  *)
(* they touch (Update, Set, Fail, Requeue).                                 *)
(***************************************************************************)
LEMMA ReturnType ==
    ASSUME ControlOK, Return
    PROVE  /\ pc' \in Steps /\ obj' \in Instances
           /\ running' \in Versions \cup {NoVersion}
           /\ ready' \in BOOLEAN /\ todo' \in SUBSET DB
           /\ cache' \in Instances
  <1>1. cache' \in Instances
    BY DEF ControlOK, Return
  <1> QED BY <1>1
      DEF Return, Steps, Instances, NoInstance, Stages, Phases, Messages

(* A write of a well typed copy keeps ControlOK.                            *)
LEMMA UpdateType ==
    ASSUME ControlOK, NEW new \in Instances, NEW next \in Steps,
           Update(new, next)
    PROVE  ControlOK'
  <1>1. CASE obj # inst
    BY <1>1, ReturnType DEF Update, Requeue, ControlOK
  <1>2. CASE obj = inst /\ next = "idle"
    BY <1>2, ReturnType DEF Update, ControlOK
  <1>3. CASE obj = inst /\ next # "idle"
    BY <1>3 DEF Update, ControlOK
  <1> QED BY <1>1, <1>2, <1>3

(* So does one that may be skipped.                                         *)
LEMMA SetType ==
    ASSUME ControlOK, NEW new \in Instances, NEW next \in Steps,
           Set(new, next)
    PROVE  ControlOK'
  <1>1. CASE new # obj
    BY <1>1, UpdateType DEF Set
  <1>2. CASE new = obj /\ next = "idle"
    BY <1>2, ReturnType DEF Set, ControlOK
  <1>3. CASE new = obj /\ next # "idle"
    BY <1>3 DEF Set, Goto, ControlOK
  <1> QED BY <1>1, <1>2, <1>3

(* So does failing.                                                         *)
LEMMA FailType ==
    ASSUME ControlOK, Fail, UNCHANGED inst
    PROVE  ControlOK'
  <1>1. CASE obj.life = "deleting"
    BY <1>1, ReturnType DEF Fail, Requeue, ControlOK
  <1>2. CASE obj.life # "deleting"
    BY <1>2 DEF Fail, Goto, ControlOK, Steps
  <1> QED BY <1>1, <1>2

(***************************************************************************)
(* The type invariant holds in every reachable state, for any databases,    *)
(* versions, edits, faults and bounds (TypeOK).                             *)
(***************************************************************************)
LEMMA TypeInit == Init => TypeOK
  <1> SUFFICES ASSUME Init PROVE TypeOK
    OBVIOUS
  <1> USE ConstantsAssumption DEF Init
  <1>1. ControlOK
    BY DEF ControlOK, NoInstance, Instances, Stages, Phases, Messages, Steps
  <1>2. ClusterOK
    BY DEF ClusterOK, NoSts, NoPod, NoBackupPod, StatefulSets, Pods, BackupPods
  <1>3. DataOK
    BY DEF DataOK, Files, Absent, Partial
  <1> QED BY <1>1, <1>2, <1>3 DEF TypeOK

(* Every step keeps TypeOK.                                                 *)
LEMMA TypeNext == TypeOK /\ [Next]_vars => TypeOK'
  <1> SUFFICES ASSUME TypeOK, [Next]_vars PROVE TypeOK'
    OBVIOUS
  <1> USE ConstantsAssumption DEF TypeOK, sched
  <1>a. UNCHANGED <<cluster, data, due, used>> => ClusterOK' /\ DataOK'
    BY DEF ClusterOK, DataOK, cluster, data
  <1>o. obj \in Instances /\ inst \in Instances
    BY DEF ControlOK
  <1>1. ASSUME Reconcile PROVE TypeOK'
    BY <1>1, <1>a DEF Reconcile, Read, ControlOK, Steps, local
  <1>2. ASSUME AddFinalizer PROVE TypeOK'
    <2>1. [obj EXCEPT !.finalizer = TRUE] \in Instances
      BY <1>o DEF Instances, Stages, Phases, Messages
    <2>2. "upgrade" \in Steps
      BY DEF Steps
    <2> QED BY <1>2, <1>a, <2>1, <2>2, UpdateType DEF AddFinalizer
  <1>3. ASSUME ReconcileMajorUpgrade PROVE TypeOK'
    <2>1. sts.version \in Versions \cup {NoVersion}
      BY DEF ClusterOK, StatefulSets
    <2>2. UpgradeStep(obj, sts.version) \in Steps
      BY DEF UpgradeStep, Steps
    <2> QED BY <1>3, <1>a, <2>1, <2>2
        DEF ReconcileMajorUpgrade, Goto, ControlOK, Steps
  <1>4. ASSUME StartMajorUpgrade PROVE TypeOK'
    <2> DEFINE new == [obj EXCEPT !.stage = "BackingUp", !.from = running,
                                  !.to = obj.version, !.phase = "Upgrading"]
    <2>1. new \in Instances
      BY DEF ControlOK, Instances, Stages, Phases
    <2>2. "backup" \in Steps /\ "pvcs" \in Steps
      BY DEF Steps
    <2>3. ControlOK'
      BY <1>4, <2>1, <2>2, UpdateType, FailType
      DEF StartMajorUpgrade, Goto, ControlOK
    <2> QED BY <1>4, <1>a, <2>3 DEF StartMajorUpgrade
  <1>5. ASSUME BackupDatabases PROVE TypeOK'
    <2>1. /\ [obj EXCEPT !.message = "stopping"] \in Instances
          /\ [obj EXCEPT !.message = "backingUp"] \in Instances
      BY <1>o DEF Instances, Messages
    <2>2. /\ "scale" \in Steps /\ "waiting" \in Steps
          /\ "offline" \in Steps /\ AfterBackup \in Steps
      BY DEF Steps, AfterBackup
    <2>3. CASE sts.life = "absent"
      BY <1>5, <1>a, <2>2, <2>3 DEF BackupDatabases, Goto, ControlOK
    <2>4. CASE sts.life # "absent" /\ sts.replicas # 0
      BY <1>5, <1>a, <2>1, <2>2, <2>4, SetType DEF BackupDatabases
    <2>5. CASE sts.life # "absent" /\ sts.replicas = 0 /\ rep.replicas # 0
      BY <1>5, <1>a, <2>1, <2>2, <2>5, SetType DEF BackupDatabases
    <2>6. CASE sts.life # "absent" /\ sts.replicas = 0 /\ rep.replicas = 0
      BY <1>5, <1>a, <2>1, <2>2, <2>6, SetType DEF BackupDatabases
    <2> QED BY <2>3, <2>4, <2>5, <2>6
  <1>6. ASSUME ScaleDown PROVE TypeOK'
    <2>1. ControlOK'
      BY <1>6, FailType DEF ScaleDown, Goto, ControlOK, Steps
    <2>2. [sts EXCEPT !.replicas = 0] \in StatefulSets
      BY DEF ClusterOK, StatefulSets
    <2> QED BY <1>6, <2>1, <2>2 DEF ScaleDown, ClusterOK, DataOK, data
  <1>7. ASSUME BackupDatabasesOffline PROVE TypeOK'
    <2>1. BackupVersion(obj) \in Versions \cup {NoVersion}
      BY DEF BackupVersion, ControlOK, Instances
    <2>2. /\ [st |-> "pending", version |-> BackupVersion(obj),
              dbs |-> obj.databases] \in BackupPods
          /\ NoBackupPod \in BackupPods
      BY <2>1 DEF ControlOK, Instances, BackupPods, NoBackupPod
    <2>3. "waiting" \in Steps /\ AfterBackup \in Steps
      BY DEF Steps, AfterBackup
    <2>4. DataOK' /\ (bk' \in BackupPods => ClusterOK')
      BY <1>7 DEF BackupDatabasesOffline, ClusterOK, DataOK, data
    <2>5. CASE bk.st = "none"
      BY <1>7, <2>2, <2>3, <2>4, <2>5 DEF BackupDatabasesOffline, Goto, ControlOK
    <2>6. CASE bk.st = "succeeded"
      BY <1>7, <2>2, <2>3, <2>4, <2>6 DEF BackupDatabasesOffline, Goto, ControlOK
    <2>7. CASE bk.st = "failed"
      BY <1>7, <2>2, <2>4, <2>7, FailType DEF BackupDatabasesOffline
    <2>8. CASE bk.st \notin {"none", "succeeded", "failed"}
      BY <1>7, <2>3, <2>4, <2>8
      DEF BackupDatabasesOffline, Goto, ControlOK, ClusterOK
    <2> QED BY <2>5, <2>6, <2>7, <2>8
  <1>8. ASSUME RecordBackedUp PROVE TypeOK'
    <2> DEFINE new == [obj EXCEPT !.databases = {}, !.stage = "Releasing"]
    <2>1. new \in Instances
      BY DEF ControlOK, Instances, Stages
    <2>2. UpgradeStep(new, running) \in Steps
      BY DEF UpgradeStep, Steps
    <2> QED BY <1>8, <1>a, <2>1, <2>2, UpdateType DEF RecordBackedUp
  <1>9. ASSUME ReleaseStorage PROVE TypeOK'
    <2>1. [obj EXCEPT !.message = "releasing"] \in Instances
      BY <1>o DEF Instances, Messages
    <2>2. "deletePrimary" \in Steps
      BY DEF Steps
    <2> QED BY <1>9, <1>a, <2>1, <2>2, SetType DEF ReleaseStorage
  <1>10. ASSUME DeletePrimary \/ DeleteShadow PROVE TypeOK'
    <2>1. AfterRelease \in Steps /\ "deleteShadow" \in Steps
      BY DEF AfterRelease, Steps
    <2>2. ASSUME NEW v \in {"primary", "shadow"}, NEW next \in Steps, DeletePVC(v, next)
          PROVE  ControlOK' /\ ClusterOK'
      <3>1. ControlOK'
        BY <2>2 DEF DeletePVC, Goto, ControlOK
      <3>2. pvc' \in [Vols -> {"absent", "bound", "terminating"}]
        BY <2>2 DEF DeletePVC, ClusterOK
      <3> QED BY <2>2, <3>1, <3>2 DEF DeletePVC, ClusterOK
    <2>3. ControlOK' /\ ClusterOK'
      <3>1. CASE DeletePrimary
        BY <3>1, <2>1, <2>2 DEF DeletePrimary
      <3>2. CASE DeleteShadow
        BY <3>2, <2>1, <2>2 DEF DeleteShadow
      <3> QED BY <1>10, <3>1, <3>2
    <2>4. due' \in [DB -> {Absent} \cup 0..MaxWrites]
      BY <1>10 DEF DeletePrimary, DeleteShadow, DataOK
    <2> QED BY <1>10, <2>3, <2>4
        DEF DeletePrimary, DeleteShadow, DeletePVC, DataOK, data
  <1>11. ASSUME AwaitRelease PROVE TypeOK'
    BY <1>11, <1>a DEF AwaitRelease, Goto, ControlOK, Steps
  <1>12. ASSUME RecordReleased PROVE TypeOK'
    <2>1. [obj EXCEPT !.stage = "Restoring"] \in Instances
      BY <1>o DEF Instances, Stages, Phases, Messages
    <2>2. "pvcs" \in Steps
      BY DEF Steps
    <2> QED BY <1>12, <1>a, <2>1, <2>2, UpdateType DEF RecordReleased
  <1>13. ASSUME ReconcilePVCs PROVE TypeOK'
    <2>1. obj.backup \in BOOLEAN
      BY DEF ControlOK, Instances
    <2> QED BY <1>13, <2>1
        DEF ReconcilePVCs, Goto, ControlOK, ClusterOK, DataOK, data, Steps
  <1>14. ASSUME ApplyStatefulSet PROVE TypeOK'
    <2>1. [life |-> "owned", version |-> obj.version,
           backup |-> obj.backup, replicas |-> 1] \in StatefulSets
      BY DEF ControlOK, Instances, StatefulSets
    <2>2. /\ obj.dbs \in SUBSET DB /\ obj.databases \in SUBSET DB
          /\ rep.ready \in BOOLEAN
      BY DEF ControlOK, ClusterOK, Instances
    <2>3. ControlOK'
      BY <1>14, <2>2 DEF ApplyStatefulSet, ControlOK, Steps
    <2> QED BY <1>14, <2>1, <2>3 DEF ApplyStatefulSet, ClusterOK, DataOK, data
  <1>15. ASSUME ReconcileDatabase PROVE TypeOK'
    <2>1. disk' \in [DB -> Files] /\ due' \in [DB -> {Absent} \cup 0..MaxWrites]
      BY <1>15 DEF ReconcileDatabase, DropDatabase, ProvisionDatabase, DataOK,
                 Files, Absent, Partial
    <2> QED BY <1>15, <2>1
        DEF ReconcileDatabase, DropDatabase, ProvisionDatabase, ControlOK,
            ClusterOK, DataOK, cluster
  <1>16. ASSUME ExecFails PROVE TypeOK'
    BY <1>16, <1>a, FailType DEF ExecFails
  <1>17. ASSUME RestoreFails PROVE TypeOK'
    BY <1>17, FailType
    DEF RestoreFails, ClusterOK, DataOK, cluster, Files, Partial
  <1>18. ASSUME RecordDatabases PROVE TypeOK'
    <2>1. [obj EXCEPT !.databases = obj.dbs] \in Instances
      BY <1>o DEF Instances, Stages, Phases, Messages
    <2>2. "schedule" \in Steps
      BY DEF Steps
    <2> QED BY <1>18, <1>a, <2>1, <2>2, UpdateType DEF RecordDatabases
  <1>19. ASSUME FinishMajorUpgrade PROVE TypeOK'
    <2>1. [obj EXCEPT !.stage = "None", !.from = NoVersion,
                      !.to = NoVersion] \in Instances
      BY <1>o DEF Instances, Stages
    <2>2. "phase" \in Steps /\ obj \in Instances
      BY DEF Steps, ControlOK
    <2> QED BY <1>19, <1>a, <2>1, <2>2, SetType DEF FinishMajorUpgrade
  <1>20. ASSUME SetPhase PROVE TypeOK'
    <2> DEFINE phase == IF Done THEN "Ready"
                        ELSE IF obj.stage # "None" THEN "Upgrading"
                        ELSE "Provisioning"
    <2>1. phase \in Phases
      BY DEF Phases
    <2>2. [obj EXCEPT !.phase = phase] \in Instances
      BY <2>1 DEF ControlOK, Instances
    <2>3. "available" \in Steps
      BY DEF Steps
    <2> QED BY <1>20, <1>a, <2>2, <2>3, SetType DEF SetPhase
  <1>21. ASSUME SetAvailable PROVE TypeOK'
    <2>1. Done \in BOOLEAN
      BY Zenon DEF Done
    <2>2. [obj EXCEPT !.available = Done] \in Instances
      BY <2>1 DEF ControlOK, Instances
    <2>3. "summary" \in Steps
      BY DEF Steps
    <2> QED BY <1>21, <1>a, <2>2, <2>3, SetType DEF SetAvailable
  <1>22. ASSUME ClearError PROVE TypeOK'
    <2> DEFINE message == IF obj.available THEN "ready" ELSE "notReady"
    <2>1. message \in Messages
      BY DEF Messages
    <2>2. [obj EXCEPT !.message = message] \in Instances
      BY <2>1 DEF ControlOK, Instances
    <2>3. "idle" \in Steps
      BY DEF Steps
    <2> QED BY <1>22, <1>a, <2>2, <2>3, SetType DEF ClearError
  <1>23. ASSUME SetProgress \/ SetError PROVE TypeOK'
    <2>1. /\ [inst EXCEPT !.message = "waiting"] \in Instances
          /\ [inst EXCEPT !.message = "error"] \in Instances
      BY <1>o DEF Instances, Messages
    <2> QED BY <1>23, <1>a, <2>1, ReturnType
        DEF SetProgress, SetError, Report, Requeue, ControlOK
  <1>24. ASSUME ReportDeleting PROVE TypeOK'
    <2>1. [obj EXCEPT !.phase = "Deleting"] \in Instances
      BY <1>o DEF Instances, Stages, Phases, Messages
    <2>2. "deletionMessage" \in Steps
      BY DEF Steps
    <2> QED BY <1>24, <1>a, <2>1, <2>2, SetType DEF ReportDeleting
  <1>25. ASSUME ReportDeletion PROVE TypeOK'
    <2>1. [obj EXCEPT !.message = "deleting"] \in Instances
      BY <1>o DEF Instances, Messages
    <2>2. "backup" \in Steps /\ "release" \in Steps
      BY DEF Steps
    <2> QED BY <1>25, <1>a, <2>1, <2>2, SetType DEF ReportDeletion
  <1>26. ASSUME ReportFinalizer PROVE TypeOK'
    <2>1. [obj EXCEPT !.message = "finalizer"] \in Instances
      BY <1>o DEF Instances, Messages
    <2>2. "removeFinalizer" \in Steps
      BY DEF Steps
    <2> QED BY <1>26, <1>a, <2>1, <2>2, SetType DEF ReportFinalizer
  <1>27. ASSUME RemoveFinalizer PROVE TypeOK'
    <2>1. NoInstance \in Instances /\ "idle" \in Steps
      BY DEF NoInstance, Instances, Stages, Phases, Messages, Steps
    <2>2. [sts EXCEPT !.life = "orphan"] \in StatefulSets
      BY DEF ClusterOK, StatefulSets
    <2> QED BY <1>27, <2>1, <2>2, UpdateType
        DEF RemoveFinalizer, ClusterOK, DataOK, data
  <1>28. ASSUME Abort PROVE TypeOK'
    <2>1. ControlOK'
      BY <1>28, FailType, ReturnType DEF Abort, Requeue, ControlOK
    <2>2. used' \in [creates : 0..MaxCreates, edits : 0..MaxEdits,
                    errors : 0..MaxErrors, writes : 0..MaxWrites,
                    late : BOOLEAN]
      <3>1. (used.late \/ Late) \in BOOLEAN
        OBVIOUS
      <3>2. \/ used' = used
            \/ /\ used.errors < MaxErrors
               /\ \E late \in BOOLEAN :
                     used' = [used EXCEPT !.errors = @ + 1, !.late = late]
        BY <1>28, <3>1, Zenon DEF Abort
      <3>3. used.errors < MaxErrors => used.errors + 1 \in 0..MaxErrors
        BY ConstantsAssumption DEF DataOK
      <3> QED BY <3>2, <3>3 DEF DataOK
    <2> QED BY <1>28, <2>1, <2>2 DEF Abort, ClusterOK, DataOK, cluster, data
  <1>29. ASSUME PodLife PROVE TypeOK'
    <2>1. ASSUME NEW p \in Pods, SetPod(p)
          PROVE  /\ ControlOK' /\ ClusterOK'
                 /\ base' = base /\ writer' = writer /\ due' = due /\ used' = used
      BY <2>1 DEF SetPod, Reported, ControlOK, ClusterOK, Pods, local
    <2>2. CASE PodCreated
      <3>1. [st |-> "pending", version |-> sts.version, backup |-> sts.backup] \in Pods
        BY DEF ClusterOK, StatefulSets, Pods
      <3> QED BY <2>1, <2>2, <3>1 DEF PodCreated, DataOK
    <2>3. CASE PodReady
      <3>1. [pod EXCEPT !.st = "ready"] \in Pods /\ MajorOf[pod.version] \in Nat
        BY DEF ClusterOK, Pods
      <3> QED BY <2>1, <2>3, <3>1 DEF PodReady, DataOK
    <2>4. CASE PodStopped
      <3>1. [pod EXCEPT !.st = "stopping"] \in Pods /\ NoPod \in Pods
        BY DEF ClusterOK, Pods, NoPod
      <3> QED BY <2>1, <2>4, <3>1 DEF PodStopped, DataOK
    <2>5. CASE PodGone
      <3>1. NoPod \in Pods
        BY DEF Pods, NoPod
      <3> QED BY <2>1, <2>5, <3>1 DEF PodGone, DataOK
    <2> QED BY <1>29, <2>2, <2>3, <2>4, <2>5 DEF PodLife
  <1>30. ASSUME StatusCatchesUp PROVE TypeOK'
    <2>1. Reported(pod) \in [replicas : {0, 1}, ready : BOOLEAN]
      BY DEF Reported
    <2> QED BY <1>30, <2>1
        DEF StatusCatchesUp, ControlOK, ClusterOK, DataOK, local, data
  <1>31. ASSUME CollectStatefulSet PROVE TypeOK'
    <2>1. /\ [pod EXCEPT !.st = "stopping"] \in Pods
          /\ NoPod \in Pods /\ NoSts \in StatefulSets
      BY DEF ClusterOK, Pods, NoPod, StatefulSets, NoSts
    <2> QED BY <1>31, <2>1
        DEF CollectStatefulSet, ControlOK, ClusterOK, DataOK, local, data
  <1>32. ASSUME CollectBackupPod PROVE TypeOK'
    <2>1. NoBackupPod \in BackupPods
      BY DEF BackupPods, NoBackupPod
    <2> QED BY <1>32, <2>1
        DEF CollectBackupPod, ControlOK, ClusterOK, DataOK, local, data
  <1>33. ASSUME NEW v \in Vols, PVCRemoved(v) PROVE TypeOK'
    <2>1. ControlOK'
      BY <1>33 DEF PVCRemoved, ControlOK, local
    <2>2. pvc' \in [Vols -> {"absent", "bound", "terminating"}]
      BY <1>33 DEF PVCRemoved, ClusterOK
    <2>3. disk' \in [DB -> Files] /\ engines' \in SUBSET Nat
      BY <1>33 DEF PVCRemoved, DataOK, Files
    <2> QED BY <1>33, <2>1, <2>2, <2>3 DEF PVCRemoved, ClusterOK, DataOK
  <1>34. ASSUME Backups PROVE TypeOK'
    <2>1. /\ [bk EXCEPT !.st = "running"] \in BackupPods
          /\ [bk EXCEPT !.st = "succeeded"] \in BackupPods
          /\ [bk EXCEPT !.st = "failed"] \in BackupPods
      BY DEF ClusterOK, BackupPods
    <2>w. \A dbs : WrittenBy(dbs) \in [DB -> Nat]
      <3>1. MajorOf[bk.version] \in Nat /\ \A db \in DB : writer[db] \in Nat
        BY ConstantsAssumption DEF ClusterOK, BackupPods, DataOK
      <3> QED BY <3>1 DEF WrittenBy
    <2>2. CASE BackupStarts
      BY <2>1, <2>2 DEF BackupStarts, ControlOK, ClusterOK, DataOK, local, data
    <2>3. CASE BackupSucceeds
      BY <2>1, <2>w, <2>3 DEF BackupSucceeds, ControlOK, ClusterOK, DataOK, local
    <2>4. CASE BackupFails
      <3>1. PICK copied \in SUBSET Readable : \E torn \in SUBSET (Readable \ copied) :
               /\ base' = [db \in DB |-> IF db \in copied THEN disk[db]
                                        ELSE IF db \in torn THEN Partial ELSE base[db]]
               /\ writer' = WrittenBy(copied \cup torn)
        BY <2>4 DEF BackupFails
      <3>2. base' \in [DB -> Files]
        BY <2>1, <3>1 DEF DataOK, Files, Partial
      <3>3. writer' \in [DB -> Nat]
        BY <2>w, <3>1
      <3> QED
        BY <2>1, <2>4, <3>2, <3>3 DEF BackupFails, ControlOK, ClusterOK, DataOK, local
    <2> QED BY <1>34, <2>2, <2>3, <2>4 DEF Backups
  <1>35. ASSUME UserCreates PROVE TypeOK'
    <2>1. PICK spec \in Specs :
             /\ inst' = [NoInstance EXCEPT !.life = "live",
                           !.version = spec.version, !.backup = spec.backup,
                           !.backupOnDelete = spec.backupOnDelete, !.dbs = spec.dbs]
             /\ due' = IF spec.backup THEN due ELSE [db \in DB |-> Absent]
      BY <1>35 DEF UserCreates
    <2>2. spec \in [version : Versions, backup : BOOLEAN,
                   backupOnDelete : BOOLEAN, dbs : SUBSET DB]
      OBVIOUS
    <2>3. inst' \in Instances
      BY <2>1, <2>2 DEF NoInstance, Instances, Stages, Phases, Messages
    <2>4. used' \in [creates : 0..MaxCreates, edits : 0..MaxEdits,
                    errors : 0..MaxErrors, writes : 0..MaxWrites,
                    late : BOOLEAN]
      <3>1. used.creates + 1 \in 0..MaxCreates
        BY <1>35, ConstantsAssumption DEF UserCreates, DataOK
      <3>2. used' = [used EXCEPT !.creates = @ + 1, !.late = FALSE]
        BY <1>35 DEF UserCreates
      <3> QED BY <3>1, <3>2 DEF DataOK
    <2>5. cache' \in Instances
      BY <1>35, <2>3 DEF UserCreates, ControlOK
    <2> QED BY <1>35, <2>1, <2>3, <2>4, <2>5
        DEF UserCreates, ControlOK, ClusterOK, DataOK, local, cluster, data, Absent
  <1>36. ASSUME UserEdits PROVE TypeOK'
    <2>1. ASSUME NEW kind \in EditKinds, NEW new \in Edited(kind)
          PROVE  new \in Instances
      <3>1. CASE kind = "version"
        BY <3>1 DEF Edited, ControlOK, Instances
      <3>2. CASE kind = "addDatabase"
        BY <3>2 DEF Edited, ControlOK, Instances
      <3>3. CASE kind = "dropDatabase"
        BY <3>3 DEF Edited, ControlOK, Instances
      <3>4. CASE kind = "enableBackup"
        <4>1. [inst EXCEPT !.backup = TRUE] \in Instances
          BY <1>o DEF Instances
        <4> QED BY <3>4, <4>1 DEF Edited
      <3>5. CASE kind = "disableBackup"
        <4>1. [inst EXCEPT !.backup = FALSE] \in Instances
          BY <1>o DEF Instances
        <4> QED BY <3>5, <4>1 DEF Edited
      <3>6. CASE kind = "backupOnDelete"
        <4>1. [inst EXCEPT !.backupOnDelete = ~inst.backupOnDelete] \in Instances
          BY <1>o DEF Instances
        <4> QED BY <3>6, <4>1 DEF Edited
      <3> QED BY <3>1, <3>2, <3>3, <3>4, <3>5, <3>6 DEF EditKinds
    <2>2. used' \in [creates : 0..MaxCreates, edits : 0..MaxEdits,
                    errors : 0..MaxErrors, writes : 0..MaxWrites,
                    late : BOOLEAN]
      BY <1>36 DEF UserEdits, DataOK
    <2> QED BY <1>36, <2>1, <2>2
        DEF UserEdits, ControlOK, ClusterOK, DataOK, local, cluster, data
  <1>37. ASSUME UserDeletes PROVE TypeOK'
    <2>1. /\ [inst EXCEPT !.life = "deleting"] \in Instances
          /\ NoInstance \in Instances
      BY <1>o DEF NoInstance, Instances, Stages, Phases, Messages
    <2> QED BY <1>37, <2>1
        DEF UserDeletes, ControlOK, ClusterOK, DataOK, local, cluster, data
  <1>38. ASSUME ClientWrites PROVE TypeOK'
    <2>1. used.writes + 1 \in 0..MaxWrites
      BY <1>38 DEF ClientWrites, DataOK
    <2>2. used' \in [creates : 0..MaxCreates, edits : 0..MaxEdits,
                    errors : 0..MaxErrors, writes : 0..MaxWrites,
                    late : BOOLEAN]
      BY <1>38, <2>1 DEF ClientWrites, DataOK
    <2>3. disk' \in [DB -> Files] /\ due' \in [DB -> {Absent} \cup 0..MaxWrites]
      BY <1>38, <2>1 DEF ClientWrites, DataOK, Files
    <2> QED BY <1>38, <2>2, <2>3
        DEF ClientWrites, ControlOK, ClusterOK, DataOK, local, cluster
  <1>39. ASSUME UNCHANGED vars PROVE TypeOK'
    BY <1>39, <1>a DEF vars, local, ControlOK
  <1>40. ASSUME PrepareDirectory PROVE TypeOK'
    <2>1. dir' \in BOOLEAN
      BY <1>40 DEF PrepareDirectory, ClusterOK, Pods
    <2>2. ControlOK'
      BY <1>40, FailType DEF PrepareDirectory, Goto, ControlOK, Steps
    <2> QED BY <1>40, <2>1, <2>2 DEF PrepareDirectory, ClusterOK, DataOK, data
  <1>41. ASSUME ApplyCronJob PROVE TypeOK'
    BY <1>41 DEF ApplyCronJob, Goto, ControlOK, Steps, ClusterOK, DataOK, data
  <1>42. ASSUME CollectCronJob PROVE TypeOK'
    BY <1>42 DEF CollectCronJob, ControlOK, ClusterOK, DataOK, local, data
  <1>43. ASSUME StatementFails PROVE TypeOK'
    <2>1. due' \in [DB -> {Absent} \cup 0..MaxWrites]
      BY <1>43 DEF StatementFails, DataOK
    <2> QED BY <1>43, <2>1
        DEF StatementFails, ControlOK, ClusterOK, DataOK, cluster, data
  <1>44. ASSUME CacheCatchesUp PROVE TypeOK'
    BY <1>44, <1>a DEF CacheCatchesUp, ControlOK
  <1> QED
    BY <1>1, <1>2, <1>3, <1>4, <1>5, <1>6, <1>7, <1>8, <1>9, <1>10,
       <1>11, <1>12, <1>13, <1>14, <1>15, <1>16, <1>17, <1>18, <1>19, <1>20,
       <1>21, <1>22, <1>23, <1>24, <1>25, <1>26, <1>27, <1>28, <1>29, <1>30,
       <1>31, <1>32, <1>33, <1>34, <1>35, <1>36, <1>37, <1>38, <1>39, <1>40,
       <1>41, <1>42, <1>43, <1>44
    DEF Next, Controller, Garbage, Volumes, Users

(***************************************************************************)
(* Spec keeps the type invariant: no step of the controller, the cluster or *)
(* a user leaves the values the API types allow (TypeOK).                   *)
(***************************************************************************)
THEOREM TypeCorrect == Spec => []TypeOK
  BY TypeInit, TypeNext, PTL DEF Spec
-----------------------------------------------------------------------------
(***************************************************************************)
(* Why a backup Pod never runs beside a server.  BackupQuiesced is not      *)
(* inductive: what keeps the server down is that the StatefulSet's replicas *)
(* are zero, that its status tells the truth about its pod, and that no     *)
(* reconcile reaches CreateOrUpdate of the StatefulSet while a backup Pod   *)
(* exists, which in turn rests on status.upgrade still being BackingUp and  *)
(* on the reconcile having read it so.                                      *)
(***************************************************************************)
Orderly == \A fault \in {"statusLag", "earlyCreate", "staleCache"} : fault \notin Faults

(* Steps at which the reconcile may hold a copy of an Instance that is gone. *)
Unheld == {"idle", "addFinalizer", "failed"}

PastBackup == {"startUpgrade", "backedUp", "released", "restoring", "pvcs",
               "sts", "databases", "schedule", "cronjob", "finish", "phase",
               "available", "summary"}
LiveSteps == PastBackup \cup {"addFinalizer", "upgrade"}
DeletionSteps == {"deletion", "deletionMessage", "finalizerMessage",
                  "removeFinalizer"}
BackupSteps == {"backup", "scale", "offline", "backedUp"}
ReleaseSteps == {"release", "deletePrimary", "deleteShadow"}

ServerDown == /\ sts.life = "absent" \/ sts.replicas = 0
              /\ pod.st = "none"

(* What holds when a reconcile whose copy is o stands before step.          *)
At(step, o) ==
    /\ step \in LiveSteps => o.life = "live"
    /\ step \in DeletionSteps => o.life = "deleting"
    /\ step \in BackupSteps /\ o.life # "deleting" => o.stage = "BackingUp"
    /\ bk.st # "none" =>
          /\ step \notin PastBackup
          /\ step = "upgrade" => o.stage = "BackingUp"
          /\ step \in ReleaseSteps => o.life = "deleting"
    /\ step = "offline" => ServerDown /\ sts.life # "absent"

Tracked == rep = IF sts.life = "absent" THEN Reported(NoPod) ELSE Reported(pod)

Adopted == inst.life # "absent" =>
    /\ inst.life = "deleting" => inst.finalizer
    /\ sts.life # "orphan"
    /\ sts.life = "absent" => pod.st = "none" /\ bk.st = "none"

Copied == pc \notin Unheld =>
    /\ inst.life # "absent" /\ inst.finalizer /\ obj.finalizer
    /\ obj.stage = inst.stage /\ obj.life # "absent"
    /\ obj.life = "deleting" => inst.life = "deleting"

Quiet ==
    /\ bk.st # "none" /\ inst.life = "live" => inst.stage = "BackingUp"
    /\ bk.st \in {"pending", "running"} => ServerDown

QuietInv == Tracked /\ Adopted /\ Copied /\ At(pc, obj) /\ Quiet

(* Returning, failing and moving on keep QuietInv when they touch nothing else. *)
LEMMA ReturnQuiet ==
    ASSUME QuietInv, Return, UNCHANGED <<inst, cluster>>
    PROVE  QuietInv'
  BY DEF QuietInv, Return, Tracked, Adopted, Copied, At, Quiet, ServerDown, Unheld,
         PastBackup, LiveSteps, DeletionSteps, BackupSteps, ReleaseSteps, cluster,
         Reported, NoPod

(* Moving to a step whose claims hold keeps QuietInv.                       *)
LEMMA GotoQuiet ==
    ASSUME QuietInv, NEW next, Goto(next), At(next, obj), pc \notin Unheld,
           UNCHANGED <<inst, cluster>>
    PROVE  QuietInv'
  BY DEF QuietInv, Goto, Tracked, Adopted, Copied, At, Quiet, ServerDown,
         cluster, Reported, NoPod

(* So does failing.                                                         *)
LEMMA FailQuiet ==
    ASSUME QuietInv, Fail, UNCHANGED <<inst, cluster>>
    PROVE  QuietInv'
  <1>1. CASE obj.life = "deleting"
    BY <1>1, ReturnQuiet DEF Fail, Requeue
  <1>2. CASE obj.life # "deleting"
    BY <1>2
    DEF Fail, Goto, QuietInv, Tracked, Adopted, Copied, At, Quiet, ServerDown,
        Unheld, PastBackup, LiveSteps, DeletionSteps, BackupSteps, ReleaseSteps,
        cluster, Reported, NoPod
  <1> QED BY <1>1, <1>2

(* A write keeps QuietInv when it leaves life and finalizer alone.          *)
LEMMA UpdateQuiet ==
    ASSUME QuietInv, NEW new, NEW next, Update(new, next), UNCHANGED cluster,
           pc \notin Unheld, new.life = obj.life, new.finalizer = obj.finalizer,
           bk.st # "none" => new.stage = obj.stage,
           At(next, new)
    PROVE  QuietInv'
  <1>1. CASE obj # inst
    BY <1>1, ReturnQuiet DEF Update, Requeue
  <1>2. CASE obj = inst /\ next = "idle"
    BY <1>2
    DEF Update, Return, QuietInv, Tracked, Adopted, Copied, At, Quiet, ServerDown,
        Unheld, PastBackup, LiveSteps, DeletionSteps, BackupSteps, ReleaseSteps,
        cluster, Reported, NoPod
  <1>3. CASE obj = inst /\ next # "idle"
    BY <1>3
    DEF Update, QuietInv, Tracked, Adopted, Copied, At, Quiet, ServerDown,
        cluster, Reported, NoPod
  <1> QED BY <1>1, <1>2, <1>3

(* So does a write that may be skipped.                                     *)
LEMMA SetQuiet ==
    ASSUME QuietInv, NEW new, NEW next, Set(new, next), UNCHANGED cluster,
           pc \notin Unheld, new.life = obj.life, new.finalizer = obj.finalizer,
           bk.st # "none" => new.stage = obj.stage,
           At(next, new)
    PROVE  QuietInv'
  <1>1. CASE new # obj
    BY <1>1, UpdateQuiet DEF Set
  <1>2. CASE new = obj /\ next = "idle"
    BY <1>2, ReturnQuiet DEF Set
  <1>3. CASE new = obj /\ next # "idle"
    BY <1>3, GotoQuiet DEF Set
  <1> QED BY <1>1, <1>2, <1>3

(* The initial states satisfy the invariant, and every step keeps it.       *)
LEMMA QuietInit == Init => QuietInv
  <1> SUFFICES ASSUME Init PROVE QuietInv
    OBVIOUS
  <1>1. Tracked
    BY Zenon DEF Init, Tracked, Reported, NoPod, NoSts
  <1>2. Adopted /\ Copied /\ At(pc, obj) /\ Quiet
    BY DEF Init, Adopted, Copied, At, Quiet, Unheld, PastBackup, LiveSteps,
           DeletionSteps, BackupSteps, ReleaseSteps, NoInstance, NoBackupPod
  <1> QED BY <1>1, <1>2 DEF QuietInv

(* Every step keeps QuietInv.                                               *)
LEMMA QuietNext ==
    ASSUME Orderly, TypeOK, QuietInv, [Next]_vars
    PROVE  QuietInv'
  <1> USE DEF Unheld, PastBackup, LiveSteps, DeletionSteps, BackupSteps, ReleaseSteps
  <1>o. obj \in Instances /\ inst \in Instances
    BY DEF TypeOK, ControlOK
  <1>1. ASSUME Reconcile PROVE QuietInv'
    BY <1>1, <1>o
    DEF Reconcile, Read, Stale, Orderly, QuietInv, Tracked, Adopted, Copied, At, Quiet, ServerDown,
        Reported, NoPod, local, cluster, Instances
  <1>2. ASSUME AddFinalizer PROVE QuietInv'
    <2>1. CASE obj # inst
      BY <1>2, <2>1, ReturnQuiet DEF AddFinalizer, Update, Requeue
    <2>2. CASE obj = inst
      BY <1>2, <1>o, <2>2
      DEF AddFinalizer, Update, QuietInv, Tracked, Adopted, Copied, At, Quiet,
          ServerDown, Reported, NoPod, cluster, Instances
    <2> QED BY <2>1, <2>2
  <1>3. ASSUME ReconcileMajorUpgrade PROVE QuietInv'
    BY <1>3
    DEF ReconcileMajorUpgrade, Goto, UpgradeStep, QuietInv, Tracked, Adopted, Copied,
        At, Quiet, ServerDown, Reported, NoPod, cluster
  <1>4. ASSUME StartMajorUpgrade PROVE QuietInv'
    <2> DEFINE new == [obj EXCEPT !.stage = "BackingUp", !.from = running,
                                  !.to = obj.version, !.phase = "Upgrading"]
    <2>1. pc \notin Unheld /\ bk.st = "none" /\ obj.life = "live"
      BY <1>4 DEF StartMajorUpgrade, QuietInv, At
    <2>2. /\ new.life = obj.life /\ new.finalizer = obj.finalizer
          /\ At("backup", new) /\ At("pvcs", obj)
      BY <1>o, <2>1 DEF Instances, At
    <2>3. \/ Goto("pvcs") /\ UNCHANGED <<inst, queued>>
          \/ Fail /\ UNCHANGED inst
          \/ Update(new, "backup")
      BY <1>4 DEF StartMajorUpgrade
    <2>4. UNCHANGED cluster
      BY <1>4 DEF StartMajorUpgrade
    <2> QED BY <2>1, <2>2, <2>3, <2>4, GotoQuiet, FailQuiet, UpdateQuiet
  <1>5. ASSUME BackupDatabases PROVE QuietInv'
    <2> DEFINE stop == [obj EXCEPT !.message = "stopping"]
               back == [obj EXCEPT !.message = "backingUp"]
    <2>1. pc \notin Unheld /\ UNCHANGED cluster /\ inst.life # "absent"
      BY <1>5 DEF BackupDatabases, QuietInv, Copied
    <2>2. /\ stop.life = obj.life /\ stop.finalizer = obj.finalizer
          /\ stop.stage = obj.stage
          /\ back.life = obj.life /\ back.finalizer = obj.finalizer
          /\ back.stage = obj.stage
      BY <1>o DEF Instances
    <2>3. At("scale", stop) /\ At("waiting", stop)
      BY <1>5, <2>2 DEF BackupDatabases, QuietInv, At
    <2>4. CASE sts.life = "absent"
      <3>1. At(AfterBackup, obj)
        BY <1>5, <1>o, <2>1, <2>4
        DEF BackupDatabases, QuietInv, Adopted, Copied, At, AfterBackup, Instances
      <3> QED BY <1>5, <2>1, <2>4, <3>1, GotoQuiet DEF BackupDatabases
    <2>5. CASE sts.life # "absent" /\ sts.replicas # 0
      BY <1>5, <2>1, <2>2, <2>3, <2>5, SetQuiet DEF BackupDatabases
    <2>6. CASE sts.life # "absent" /\ sts.replicas = 0 /\ rep.replicas # 0
      BY <1>5, <2>1, <2>2, <2>3, <2>6, SetQuiet DEF BackupDatabases
    <2>7. CASE sts.life # "absent" /\ sts.replicas = 0 /\ rep.replicas = 0
      <3>1. pod.st = "none"
        BY <2>7 DEF QuietInv, Tracked, Reported
      <3>2. At("offline", back)
        BY <1>5, <2>2, <2>7, <3>1 DEF BackupDatabases, QuietInv, At, ServerDown
      <3> QED BY <1>5, <2>1, <2>2, <2>7, <3>2, SetQuiet DEF BackupDatabases
    <2> QED BY <2>4, <2>5, <2>6, <2>7
  <1>6. ASSUME ScaleDown PROVE QuietInv'
    <2>1. CASE sts.life = "absent"
      BY <1>6, <2>1, FailQuiet DEF ScaleDown, cluster
    <2>2. CASE sts.life # "absent"
      <3>1. sts'.life = sts.life /\ sts'.replicas = 0
        BY <1>6, <2>2 DEF ScaleDown, TypeOK, ClusterOK, StatefulSets
      <3> QED BY <1>6, <2>2, <3>1
          DEF ScaleDown, Goto, QuietInv, Tracked, Adopted, Copied, At, Quiet,
              ServerDown, Reported, NoPod
    <2> QED BY <2>1, <2>2
  <1>7. ASSUME BackupDatabasesOffline PROVE QuietInv'
    <2>1. ServerDown /\ pc \notin Unheld
      BY <1>7 DEF BackupDatabasesOffline, QuietInv, At
    <2>2. CASE bk.st = "none"
      <3>1. bk'.st = "pending" /\ Goto("waiting") /\ UNCHANGED <<inst, sts, rep, pod>>
        BY <1>7, <2>2 DEF BackupDatabasesOffline
      <3>2. inst.life = "live" => inst.stage = "BackingUp"
        BY <1>7, <1>o DEF BackupDatabasesOffline, QuietInv, Copied, At
      <3>3. sts.life # "absent"
        BY <1>7 DEF BackupDatabasesOffline, QuietInv, At
      <3> QED BY <2>1, <3>1, <3>2, <3>3
          DEF Goto, QuietInv, Tracked, Adopted, Copied, At, Quiet, ServerDown
    <2>3. CASE bk.st = "succeeded"
      <3>1. At(AfterBackup, obj)'
        BY <1>7, <1>o, <2>3
        DEF BackupDatabasesOffline, Goto, AfterBackup, NoBackupPod, QuietInv, Copied,
            At, Instances
      <3> QED BY <1>7, <2>3, <3>1
          DEF BackupDatabasesOffline, Goto, AfterBackup, NoBackupPod, QuietInv, Tracked,
              Adopted, Copied, Quiet
    <2>4. CASE bk.st = "failed"
      BY <1>7, <2>1, <2>4
      DEF BackupDatabasesOffline, Fail, Goto, Requeue, Return, NoBackupPod, QuietInv,
          Tracked, Adopted, Copied, At, Quiet, ServerDown, Reported, NoPod
    <2>5. CASE bk.st \notin {"none", "succeeded", "failed"}
      BY <1>7, <2>1, <2>5
      DEF BackupDatabasesOffline, Goto, QuietInv, Tracked, Adopted, Copied, At, Quiet,
          ServerDown, Reported, NoPod
    <2> QED BY <2>2, <2>3, <2>4, <2>5
  <1>8. ASSUME RecordBackedUp PROVE QuietInv'
    <2> DEFINE new == [obj EXCEPT !.databases = {}, !.stage = "Releasing"]
    <2>1. pc \notin Unheld /\ bk.st = "none" /\ obj.life = "live"
      BY <1>8 DEF RecordBackedUp, QuietInv, At
    <2>2. /\ new.life = obj.life /\ new.finalizer = obj.finalizer
          /\ new.stage = "Releasing"
      BY <1>o DEF Instances
    <2>3. At(UpgradeStep(new, running), new)
      BY <2>1, <2>2 DEF UpgradeStep, At
    <2> QED BY <1>8, <2>1, <2>2, <2>3, UpdateQuiet DEF RecordBackedUp
  <1>9. ASSUME ReleaseStorage PROVE QuietInv'
    <2> DEFINE new == [obj EXCEPT !.message = "releasing"]
    <2>1. /\ new.life = obj.life /\ new.finalizer = obj.finalizer
          /\ new.stage = obj.stage
      BY <1>o DEF Instances
    <2>2. At("deletePrimary", new) /\ pc \notin Unheld
      BY <1>9, <2>1 DEF ReleaseStorage, QuietInv, At
    <2> QED BY <1>9, <2>1, <2>2, SetQuiet DEF ReleaseStorage
  <1>10. ASSUME DeletePrimary PROVE QuietInv'
    BY <1>10, <1>o
    DEF DeletePrimary, DeletePVC, Goto, AfterRelease, QuietInv, Tracked, Adopted,
        Copied, At, Quiet, ServerDown, Instances
  <1>11. ASSUME DeleteShadow PROVE QuietInv'
    BY <1>11, <1>o
    DEF DeleteShadow, DeletePVC, Goto, AfterRelease, QuietInv, Tracked, Adopted,
        Copied, At, Quiet, ServerDown, Instances
  <1>12. ASSUME AwaitRelease PROVE QuietInv'
    <2>1. pc \notin Unheld /\ At("waiting", obj) /\ At("restoring", obj)
      BY <1>12 DEF AwaitRelease, QuietInv, At
    <2> QED BY <1>12, <2>1, GotoQuiet DEF AwaitRelease
  <1>13. ASSUME RecordReleased PROVE QuietInv'
    <2> DEFINE new == [obj EXCEPT !.stage = "Restoring"]
    <2>1. /\ new.life = obj.life /\ new.finalizer = obj.finalizer
          /\ bk.st # "none" => new.stage = obj.stage
      BY <1>13, <1>o DEF RecordReleased, Instances, QuietInv, At
    <2>2. At("pvcs", new) /\ pc \notin Unheld
      BY <1>13, <2>1 DEF RecordReleased, QuietInv, At
    <2> QED BY <1>13, <2>1, <2>2, UpdateQuiet DEF RecordReleased
  <1>14. ASSUME ReconcilePVCs PROVE QuietInv'
    BY <1>14
    DEF ReconcilePVCs, Goto, QuietInv, Tracked, Adopted, Copied, At, Quiet,
        ServerDown, Reported, NoPod
  <1>15. ASSUME ApplyStatefulSet PROVE QuietInv'
    <2>1. sts'.life = "owned" /\ sts'.replicas = 1
      BY <1>15 DEF ApplyStatefulSet
    <2>2. /\ bk.st = "none" /\ inst.life # "absent"
          /\ sts.life = "absent" => pod.st = "none"
      BY <1>15 DEF ApplyStatefulSet, QuietInv, At, Copied, Adopted
    <2>3. Tracked'
      BY <1>15, <2>1, <2>2 DEF ApplyStatefulSet, QuietInv, Tracked, Reported, NoPod
    <2> QED BY <1>15, <2>1, <2>2, <2>3
        DEF ApplyStatefulSet, QuietInv, Adopted, Copied, At, Quiet
  <1>16. ASSUME ReconcileDatabase PROVE QuietInv'
    BY <1>16
    DEF ReconcileDatabase, QuietInv, Tracked, Adopted, Copied, At, Quiet, ServerDown,
        Reported, NoPod, cluster
  <1>17. ASSUME ExecFails PROVE QuietInv'
    BY <1>17, FailQuiet DEF ExecFails
  <1>18. ASSUME RestoreFails PROVE QuietInv'
    BY <1>18, FailQuiet DEF RestoreFails
  <1>19. ASSUME RecordDatabases PROVE QuietInv'
    <2> DEFINE new == [obj EXCEPT !.databases = obj.dbs]
    <2>1. /\ new.life = obj.life /\ new.finalizer = obj.finalizer
          /\ bk.st # "none" => new.stage = obj.stage
      BY <1>19, <1>o DEF RecordDatabases, Instances, QuietInv, At
    <2>2. At("schedule", new) /\ pc \notin Unheld
      BY <1>19, <2>1 DEF RecordDatabases, QuietInv, At
    <2> QED BY <1>19, <2>1, <2>2, UpdateQuiet DEF RecordDatabases
  <1>20. ASSUME FinishMajorUpgrade PROVE QuietInv'
    <2> DEFINE new == IF Done
                      THEN [obj EXCEPT !.stage = "None", !.from = NoVersion,
                                       !.to = NoVersion]
                      ELSE obj
    <2>1. /\ new.life = obj.life /\ new.finalizer = obj.finalizer
          /\ bk.st # "none" => new.stage = obj.stage
      BY <1>20, <1>o DEF FinishMajorUpgrade, Instances, QuietInv, At
    <2>2. At("phase", new) /\ pc \notin Unheld
      BY <1>20, <2>1 DEF FinishMajorUpgrade, QuietInv, At
    <2> QED BY <1>20, <2>1, <2>2, SetQuiet DEF FinishMajorUpgrade
  <1>21. ASSUME SetPhase PROVE QuietInv'
    <2> DEFINE new == [obj EXCEPT !.phase =
                        IF Done THEN "Ready"
                        ELSE IF obj.stage # "None" THEN "Upgrading"
                        ELSE "Provisioning"]
    <2>1. /\ new.life = obj.life /\ new.finalizer = obj.finalizer
          /\ bk.st # "none" => new.stage = obj.stage
      BY <1>21, <1>o DEF SetPhase, Instances, QuietInv, At
    <2>2. At("available", new) /\ pc \notin Unheld
      BY <1>21, <2>1 DEF SetPhase, QuietInv, At
    <2> QED BY <1>21, <2>1, <2>2, SetQuiet DEF SetPhase
  <1>22. ASSUME SetAvailable PROVE QuietInv'
    <2> DEFINE new == [obj EXCEPT !.available = Done]
    <2>1. /\ new.life = obj.life /\ new.finalizer = obj.finalizer
          /\ bk.st # "none" => new.stage = obj.stage
      BY <1>22, <1>o DEF SetAvailable, Instances, QuietInv, At
    <2>2. At("summary", new) /\ pc \notin Unheld
      BY <1>22, <2>1 DEF SetAvailable, QuietInv, At
    <2> QED BY <1>22, <2>1, <2>2, SetQuiet DEF SetAvailable
  <1>23. ASSUME ClearError PROVE QuietInv'
    <2> DEFINE new == [obj EXCEPT !.message =
                        IF obj.available THEN "ready" ELSE "notReady"]
    <2>1. /\ new.life = obj.life /\ new.finalizer = obj.finalizer
          /\ bk.st # "none" => new.stage = obj.stage
      BY <1>23, <1>o DEF ClearError, Instances, QuietInv, At
    <2>2. At("idle", new) /\ pc \notin Unheld
      BY <1>23, <2>1 DEF ClearError, QuietInv, At
    <2> QED BY <1>23, <2>1, <2>2, SetQuiet DEF ClearError
  <1>24. ASSUME SetProgress \/ SetError PROVE QuietInv'
    <2>1. /\ inst'.life = inst.life /\ inst'.finalizer = inst.finalizer
          /\ inst'.stage = inst.stage
      BY <1>24, <1>o DEF SetProgress, SetError, Report, Instances
    <2> QED BY <1>24, <2>1
        DEF SetProgress, SetError, Report, Requeue, Return, QuietInv, Tracked,
            Adopted, Copied, At, Quiet, ServerDown, Reported, NoPod, cluster
  <1>25. ASSUME ReportDeleting PROVE QuietInv'
    <2> DEFINE new == [obj EXCEPT !.phase = "Deleting"]
    <2>1. /\ new.life = obj.life /\ new.finalizer = obj.finalizer
          /\ bk.st # "none" => new.stage = obj.stage
      BY <1>25, <1>o DEF ReportDeleting, Instances, QuietInv, At
    <2>2. At("deletionMessage", new) /\ pc \notin Unheld
      BY <1>25, <2>1 DEF ReportDeleting, QuietInv, At
    <2> QED BY <1>25, <2>1, <2>2, SetQuiet DEF ReportDeleting
  <1>26. ASSUME ReportDeletion PROVE QuietInv'
    <2> DEFINE new == [obj EXCEPT !.message = "deleting"]
               next == IF WantsBackup(obj) /\ ~BackedUp(obj) THEN "backup"
                       ELSE "release"
    <2>1. /\ new.life = obj.life /\ new.finalizer = obj.finalizer
          /\ new.stage = obj.stage
      BY <1>o DEF Instances
    <2>2. At(next, new) /\ pc \notin Unheld
      BY <1>26, <2>1 DEF ReportDeletion, QuietInv, At
    <2> QED BY <1>26, <2>1, <2>2, SetQuiet DEF ReportDeletion
  <1>27. ASSUME ReportFinalizer PROVE QuietInv'
    <2> DEFINE new == [obj EXCEPT !.message = "finalizer"]
    <2>1. /\ new.life = obj.life /\ new.finalizer = obj.finalizer
          /\ bk.st # "none" => new.stage = obj.stage
      BY <1>27, <1>o DEF ReportFinalizer, Instances, QuietInv, At
    <2>2. At("removeFinalizer", new) /\ pc \notin Unheld
      BY <1>27, <2>1 DEF ReportFinalizer, QuietInv, At
    <2> QED BY <1>27, <2>1, <2>2, SetQuiet DEF ReportFinalizer
  <1>28. ASSUME RemoveFinalizer PROVE QuietInv'
    <2>1. CASE obj # inst
      BY <1>28, <2>1, ReturnQuiet
      DEF RemoveFinalizer, Update, Requeue, cluster, sched
    <2>2. CASE obj = inst
      <3>1. /\ sts'.replicas = sts.replicas
            /\ sts'.life = "absent" <=> sts.life = "absent"
        BY <1>28, <2>2 DEF RemoveFinalizer, TypeOK, ClusterOK, StatefulSets
      <3>2. inst'.life = "absent" /\ pc' = "idle" /\ UNCHANGED <<rep, pod, bk>>
        <4>1. inst' = NoInstance /\ Return /\ UNCHANGED <<rep, pod, bk>>
          BY <1>28, <2>2 DEF RemoveFinalizer, Update
        <4> QED BY <4>1 DEF Return, NoInstance
      <3> QED BY <3>1, <3>2
          DEF QuietInv, Tracked, Adopted, Copied, At, Quiet, ServerDown
    <2> QED BY <2>1, <2>2
  <1>29. ASSUME Abort PROVE QuietInv'
    BY <1>29, ReturnQuiet, FailQuiet DEF Abort, Requeue
  <1>30. ASSUME PodLife PROVE QuietInv'
    <2>1. ASSUME NEW p \in Pods, SetPod(p),
                 inst.life # "absent" /\ sts.life = "absent" => p.st = "none",
                 ServerDown => p.st = "none"
          PROVE  QuietInv'
      BY <2>1
      DEF Orderly, SetPod, QuietInv, Tracked, Adopted, Copied, At, Quiet, ServerDown,
          Reported, NoPod, local
    <2>2. CASE PodCreated
      <3>1. [st |-> "pending", version |-> sts.version, backup |-> sts.backup] \in Pods
        BY DEF TypeOK, ClusterOK, StatefulSets, Pods
      <3> QED BY <2>1, <2>2, <3>1 DEF PodCreated, ServerDown
    <2>3. CASE PodReady
      <3>1. [pod EXCEPT !.st = "ready"] \in Pods
        BY DEF TypeOK, ClusterOK, Pods
      <3> QED BY <2>1, <2>3, <3>1 DEF PodReady, ServerDown, QuietInv, Adopted
    <2>4. CASE PodStopped
      <3>1. /\ [pod EXCEPT !.st = "stopping"] \in Pods
            /\ [pod EXCEPT !.st = "stopping"].st = "stopping"
            /\ NoPod \in Pods /\ NoPod.st = "none"
        BY DEF TypeOK, ClusterOK, Pods, NoPod
      <3> QED BY <2>1, <2>4, <3>1 DEF PodStopped, ServerDown
    <2>5. CASE PodGone
      <3>1. NoPod \in Pods /\ NoPod.st = "none"
        BY DEF Pods, NoPod
      <3> QED BY <2>1, <2>5, <3>1 DEF PodGone
    <2> QED BY <1>30, <2>2, <2>3, <2>4, <2>5 DEF PodLife
  <1>31. ASSUME StatusCatchesUp PROVE QuietInv'
    BY <1>31 DEF StatusCatchesUp, Orderly
  <1>32. ASSUME CollectStatefulSet PROVE QuietInv'
    <2>1. inst.life = "absent"
      BY <1>32 DEF CollectStatefulSet, QuietInv, Adopted
    <2>2. pod'.st \notin {"pending", "ready"}
      BY <1>32 DEF CollectStatefulSet, NoPod, TypeOK, ClusterOK, Pods
    <2> QED BY <1>32, <2>1, <2>2
        DEF CollectStatefulSet, NoSts, QuietInv, Tracked, Adopted, Copied, At, Quiet,
            ServerDown, Reported, NoPod, local
  <1>33. ASSUME CollectBackupPod PROVE QuietInv'
    BY <1>33
    DEF CollectBackupPod, NoBackupPod, QuietInv, Tracked, Adopted, Copied, At, Quiet,
        ServerDown, Reported, NoPod, local
  <1>34. ASSUME Volumes PROVE QuietInv'
    BY <1>34
    DEF Volumes, PVCRemoved, QuietInv, Tracked, Adopted, Copied, At, Quiet, ServerDown,
        Reported, NoPod, local
  <1>35. ASSUME Backups PROVE QuietInv'
    <2>1. bk.st \in {"pending", "running"} /\ bk'.st # "none"
      BY <1>35 DEF Backups, BackupStarts, BackupSucceeds, BackupFails, TypeOK, ClusterOK,
                BackupPods
    <2>2. UNCHANGED <<inst, local, sts, rep, pod>>
      BY <1>35 DEF Backups, BackupStarts, BackupSucceeds, BackupFails
    <2> QED BY <2>1, <2>2
        DEF QuietInv, Tracked, Adopted, Copied, At, Quiet, ServerDown, Reported, NoPod,
            local
  <1>36. ASSUME UserCreates PROVE QuietInv'
    <2>1. pc \in Unheld
      BY <1>36 DEF UserCreates, QuietInv, Copied
    <2>2. sts.life = "absent" /\ pod.st = "none" /\ bk.st = "none"
      BY <1>36 DEF UserCreates, Orderly, Clean
    <2> QED BY <1>36, <2>1, <2>2
        DEF UserCreates, QuietInv, Tracked, Adopted, Copied, At, Quiet, ServerDown,
            Reported, NoPod, local, cluster
  <1>37. ASSUME UserEdits PROVE QuietInv'
    <2>1. PICK kind \in EditKinds : inst' \in Edited(kind)
      BY <1>37, ConstantsAssumption DEF UserEdits
    <2>2. /\ inst'.life = inst.life /\ inst'.finalizer = inst.finalizer
          /\ inst'.stage = inst.stage
      BY <1>o, <2>1 DEF Edited, Instances, EditKinds
    <2> QED BY <1>37, <2>2
        DEF UserEdits, QuietInv, Tracked, Adopted, Copied, At, Quiet, ServerDown,
            Reported, NoPod, local, cluster
  <1>38. ASSUME UserDeletes PROVE QuietInv'
    <2>1. CASE inst.finalizer
      <3>1. /\ inst'.life = "deleting" /\ inst'.finalizer = inst.finalizer
            /\ inst'.stage = inst.stage
        BY <1>38, <1>o, <2>1 DEF UserDeletes, Instances
      <3> QED BY <1>38, <2>1, <3>1
          DEF UserDeletes, QuietInv, Tracked, Adopted, Copied, At, Quiet, ServerDown,
              Reported, NoPod, local, cluster
    <2>2. CASE ~inst.finalizer
      BY <1>38, <2>2
      DEF UserDeletes, NoInstance, QuietInv, Tracked, Adopted, Copied, At, Quiet,
          ServerDown, Reported, NoPod, local, cluster
    <2> QED BY <2>1, <2>2
  <1>39. ASSUME ClientWrites PROVE QuietInv'
    BY <1>39
    DEF ClientWrites, QuietInv, Tracked, Adopted, Copied, At, Quiet, ServerDown,
        Reported, NoPod, local, cluster
  <1>40. ASSUME PrepareDirectory PROVE QuietInv'
    <2>1. CASE Fail
      <3>1. UNCHANGED inst /\ UNCHANGED <<sts, rep, pod, bk>>
        BY <1>40 DEF PrepareDirectory
      <3> QED BY <1>40, <2>1, <3>1
          DEF PrepareDirectory, Fail, Requeue, Return, Goto, QuietInv, Tracked,
              Adopted, Copied, At, Quiet, ServerDown, Reported, NoPod
    <2>2. CASE Goto("cronjob")
      BY <1>40, <2>2
      DEF PrepareDirectory, Goto, QuietInv, Tracked, Adopted, Copied, At, Quiet,
          ServerDown, Reported, NoPod
    <2> QED BY <1>40, <2>1, <2>2 DEF PrepareDirectory
  <1>41. ASSUME ApplyCronJob PROVE QuietInv'
    BY <1>41
    DEF ApplyCronJob, Goto, QuietInv, Tracked, Adopted, Copied, At, Quiet,
        ServerDown, Reported, NoPod
  <1>42. ASSUME CollectCronJob PROVE QuietInv'
    BY <1>42
    DEF CollectCronJob, QuietInv, Tracked, Adopted, Copied, At, Quiet, ServerDown,
        Reported, NoPod, local
  <1>43. ASSUME UNCHANGED vars PROVE QuietInv'
    BY <1>43
    DEF vars, QuietInv, Tracked, Adopted, Copied, At, Quiet, ServerDown,
        Reported, NoPod, local, cluster
  <1>44. ASSUME StatementFails PROVE QuietInv'
    BY <1>44
    DEF StatementFails, QuietInv, Tracked, Adopted, Copied, At, Quiet, ServerDown,
        Reported, NoPod, cluster
  <1>45. ASSUME CacheCatchesUp PROVE QuietInv'
    BY <1>45 DEF CacheCatchesUp, Stale, Orderly
  <1> QED
    BY <1>1, <1>2, <1>3, <1>4, <1>5, <1>6, <1>7, <1>8, <1>9, <1>10,
       <1>11, <1>12, <1>13, <1>14, <1>15, <1>16, <1>17, <1>18, <1>19, <1>20,
       <1>21, <1>22, <1>23, <1>24, <1>25, <1>26, <1>27, <1>28, <1>29, <1>30,
       <1>31, <1>32, <1>33, <1>34, <1>35, <1>36, <1>37, <1>38, <1>39, <1>40,
       <1>41, <1>42, <1>43, <1>44, <1>45
    DEF Next, Controller, Garbage, Users

(***************************************************************************)
(* The offline backup never runs while a server pod exists, for any         *)
(* databases, versions, edits, failures and bounds, as long as StatefulSet  *)
(* status does not trail its pods, a reconcile reads what the last one      *)
(* wrote and names are not reused before their leftovers are gone           *)
(* (backupDatabases' replica checks, reconcileMajorUpgrade's early returns). *)
(***************************************************************************)
THEOREM BackupsRunAlone ==
    ASSUME Orderly
    PROVE  Spec => []BackupQuiesced
  <1>1. TypeOK /\ QuietInv /\ [Next]_vars => (TypeOK /\ QuietInv)'
    BY TypeNext, QuietNext
  <1>2. Init => TypeOK /\ QuietInv
    BY TypeInit, QuietInit
  <1>3. QuietInv => BackupQuiesced
    BY DEF QuietInv, Quiet, ServerDown, BackupQuiesced
  <1> QED BY <1>1, <1>2, <1>3, PTL DEF Spec
=============================================================================
