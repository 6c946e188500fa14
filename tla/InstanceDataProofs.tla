------------------------- MODULE InstanceDataProofs -------------------------
(***************************************************************************)
(* Why no data is lost, for every value of InstanceReconciler's constants.  *)
(* Where a client's last write is kept follows from whether status lists    *)
(* its database: a listed one has it on the primary volume, one that is not *)
(* has it in the backup volume.  Everything else here is what keeps a       *)
(* reconcile from releasing the volume, or from overwriting the backup,     *)
(* while the other one does not have it.  From the same facts, the          *)
(* reconciler implements DataCustody: every step of it is one of            *)
(* DataCustody's or changes nothing DataCustody speaks of.                  *)
(***************************************************************************)
EXTENDS InstanceReconcilerProofs

(***************************************************************************)
(* What is assumed of the faults and of the users' edits: each one left out *)
(* here is one TLC shows to lose data, or a finding of the README.          *)
(***************************************************************************)
Careful ==
    /\ Orderly
    /\ \A fault \in {"partialRestore", "silentSql", "unlistedWrite", "restoringWrite"} :
          fault \notin Faults
    /\ "disableBackup" \notin Edits

Due(db)  == due[db] # Absent
Held     == pvc["primary"] = "bound"
AllSaved == \A db \in DB : Due(db) => base[db] = due[db]
NoneDue  == \A db \in DB : ~Due(db)
SavedOnly == \E db \in DB : Due(db) /\ db \notin inst.databases

Early == {"None", "BackingUp"}

(* The two places.                                                          *)
Unlisted ==
    \A db \in DB : Due(db) /\ db \notin inst.databases =>
        base[db] = due[db] /\ disk[db] \in {Absent, due[db]}

Listed ==
    \A db \in DB : Due(db) /\ db \in inst.databases =>
        \/ Held /\ disk[db] = due[db]
        \/ /\ ~Held /\ inst.life = "deleting"
           /\ base[db] = due[db] /\ disk[db] \in {Absent, due[db]}

(* An upgrade past its backup has everything in the backup volume.          *)
Staged ==
    /\ inst.stage \notin Early => AllSaved /\ bk.st = "none"
    /\ inst.stage = "Releasing" => inst.databases = {}
    /\ inst.stage = "BackingUp" => inst.backup
    /\ inst.stage \in {"BackingUp", "Releasing"} =>
          sts.life # "absent" /\ sts.version # inst.to

(* What is only in the backup volume can be restored from there.            *)
Reachable ==
    SavedOnly /\ inst.life # "absent" =>
        /\ inst.backup
        /\ pod.st \in {"pending", "ready"} => pod.backup
        /\ sts.life # "absent" /\ sts.replicas = 1 => sts.backup

(* The primary volume is there for as long as status lists a database.      *)
Volumed ==
    /\ inst.life = "absent" => ~inst.finalizer
    /\ ~inst.finalizer => inst.databases = {} /\ inst.stage = "None" /\ ~Held
    /\ inst.databases # {} => sts.life # "absent"
    /\ inst.databases # {} /\ inst.life = "live" => Held
    /\ pvc["primary"] = "absent" => \A db \in DB : disk[db] = Absent
    /\ pvc["primary"] = "terminating" =>
          inst.life \in {"absent", "deleting"} \/ inst.stage = "Releasing"

(* The backup Pod copies what status lists, while nobody writes to it.      *)
Copying ==
    /\ bk.st # "none" /\ inst.life # "absent" => bk.dbs = inst.databases /\ ServerDown
    /\ bk.st = "succeeded" /\ inst.life # "absent" => AllSaved
    /\ bk.st = "running" => NoneDue \/ Held

(* A deletion that released the volume after its backup has no server left. *)
Released ==
    inst.life = "deleting" /\ ~Held /\ inst.databases # {} /\ inst.stage \in Early
        /\ WantsBackup(inst) => ServerDown

World == Unlisted /\ Listed /\ Staged /\ Reachable /\ Volumed /\ Copying /\ Released

(***************************************************************************)
(* What holds when a reconcile whose copy is o stands before step.          *)
(***************************************************************************)
AfterPVCs == {"sts", "databases", "schedule", "cronjob", "finish", "phase", "available",
              "summary"}

Agrees(o) ==
    /\ o.databases = inst.databases /\ o.to = inst.to
    /\ o.life = "deleting" =>
          o.backup = inst.backup /\ o.backupOnDelete = inst.backupOnDelete
    /\ SavedOnly => o.backup
    /\ o.life = "live" =>
          /\ inst.databases # {} => Held
          /\ pvc["primary"] = "terminating" => o.stage = "Releasing"

Upgrades(step, o) ==
    /\ step \in {"startUpgrade"} \cup BackupSteps /\ o.life = "live" =>
          running = sts.version
    /\ step = "startUpgrade" => sts.life # "absent" /\ o.stage = "None"
    /\ step = "backedUp" => AllSaved /\ ServerDown
    /\ step \in {"released", "restoring"} => o.stage = "Releasing"
    /\ step = "restoring" => pvc["primary"] = "absent"

Deletes(step, o) ==
    /\ step \in BackupSteps /\ o.life = "deleting" => o.stage \in Early /\ WantsBackup(o)
    /\ step \in ReleaseSteps /\ o.life # "deleting" => o.stage = "Releasing"
    /\ step \in {"release", "deletePrimary"} /\ o.life = "deleting" /\ WantsBackup(o) =>
          /\ AllSaved /\ bk.st = "none"
          /\ inst.databases # {} /\ inst.stage \in Early => ServerDown
    /\ step \in {"deleteShadow", "finalizerMessage", "removeFinalizer"}
          /\ o.life = "deleting" => AllSaved /\ ~Held

Provides(step, o) ==
    /\ step \in {"pvcs"} \cup AfterPVCs => o.stage \notin {"BackingUp", "Releasing"}
    /\ step \in AfterPVCs => Held
    /\ step \in AfterPVCs \ {"sts"} => sts.life # "absent"
    /\ step = "databases" =>
        /\ todo \subseteq (o.dbs \ o.databases) \cup (o.databases \ o.dbs)
        /\ \A db \in (o.dbs \ o.databases) \ todo : Due(db) => disk[db] = due[db]
        /\ \A db \in (o.databases \ o.dbs) \ todo : disk[db] = Absent /\ ~Due(db)

Stands(step, o) ==
    step \notin Unheld =>
        Agrees(o) /\ Upgrades(step, o) /\ Deletes(step, o) /\ Provides(step, o)

DataInv == TypeOK /\ QuietInv /\ World /\ Stands(pc, obj)
-----------------------------------------------------------------------------
(* Two copies of an Instance that differ in what they report at most.       *)
Alike(a, b) ==
    /\ a.life = b.life /\ a.finalizer = b.finalizer
    /\ a.backup = b.backup /\ a.backupOnDelete = b.backupOnDelete
    /\ a.dbs = b.dbs /\ a.databases = b.databases
    /\ a.stage = b.stage /\ a.to = b.to

stores == <<sts, pod, bk, pvc, disk, base, due>>

(* A step that changes none of the stores keeps every fact about them.      *)
LEMMA WorldStill ==
    ASSUME World, Alike(inst', inst), UNCHANGED stores
    PROVE  World'
  <1>1. Unlisted'
    BY DEF World, Alike, stores, Unlisted, Due
  <1>2. Listed'
    BY DEF World, Alike, stores, Listed, Due, Held
  <1>3. Staged'
    BY DEF World, Alike, stores, Staged, AllSaved, Due
  <1>4. Reachable'
    BY DEF World, Alike, stores, Reachable, SavedOnly, Due
  <1>5. Volumed'
    BY DEF World, Alike, stores, Volumed, Held
  <1>6. Copying'
    BY DEF World, Alike, stores, Copying, AllSaved, NoneDue, Due, Held, ServerDown
  <1>7. Released'
    BY DEF World, Alike, stores, Released, WantsBackup, Held, ServerDown
  <1> QED BY <1>1, <1>2, <1>3, <1>4, <1>5, <1>6, <1>7 DEF World

(* A reconcile that has returned claims nothing.                            *)
LEMMA DataReturn ==
    ASSUME World, Return, Alike(inst', inst), UNCHANGED stores
    PROVE  World' /\ Stands(pc, obj)'
  BY WorldStill DEF Return, Stands, Unheld

(* An Instance nobody wrote is like itself.                                *)
LEMMA AlikeSelf == ASSUME UNCHANGED inst PROVE Alike(inst', inst)
  BY DEF Alike

(* What a reconcile claims is about the stores and its copy only.           *)
LEMMA StandsStill ==
    ASSUME NEW step, pc' = step, Stands(step, obj), Alike(obj', obj),
           Alike(inst', inst), UNCHANGED <<stores, running, todo>>
    PROVE  Stands(pc, obj)'
  <1>1. CASE step \in Unheld
    BY <1>1 DEF Stands
  <1>2. CASE step \notin Unheld
    <2>1. Agrees(obj)'
      BY <1>2 DEF Stands, Agrees, Alike, stores, SavedOnly, Due, Held
    <2>2. Upgrades(pc, obj)'
      BY <1>2 DEF Stands, Upgrades, Alike, stores, AllSaved, Due, ServerDown
    <2>3. Deletes(pc, obj)'
      BY <1>2 DEF Stands, Deletes, Alike, stores, AllSaved, Due, Held, ServerDown,
                  WantsBackup
    <2>4. Provides(pc, obj)'
      BY <1>2 DEF Stands, Provides, Alike, stores, Due, Held
    <2> QED BY <2>1, <2>2, <2>3, <2>4 DEF Stands
  <1> QED BY <1>1, <1>2

(* Moving on, failing, writing and skipping a write, reports changed at most. *)
LEMMA DataGoto ==
    ASSUME World, NEW next, Goto(next), Stands(next, obj), UNCHANGED <<inst, stores>>
    PROVE  World' /\ Stands(pc, obj)'
  <1>1. Alike(inst', inst) /\ Alike(obj', obj)
    BY DEF Alike, Goto
  <1> QED BY <1>1, WorldStill, StandsStill DEF Goto

(* Failing keeps it.                                                        *)
LEMMA DataFail ==
    ASSUME World, Fail, UNCHANGED <<inst, stores>>
    PROVE  World' /\ Stands(pc, obj)'
  <1>1. CASE obj.life = "deleting"
    BY <1>1, AlikeSelf, DataReturn DEF Fail, Requeue
  <1>2. CASE obj.life # "deleting"
    <2>1. Stands("failed", obj)
      BY DEF Stands, Unheld
    <2> QED BY <1>2, <2>1, DataGoto DEF Fail
  <1> QED BY <1>1, <1>2

(* A write of what is reported keeps it.                                    *)
LEMMA DataUpdate ==
    ASSUME World, NEW new, NEW next, Update(new, next), Alike(new, obj),
           Stands(next, obj), UNCHANGED stores
    PROVE  World' /\ Stands(pc, obj)'
  <1>1. CASE obj # inst
    BY <1>1, AlikeSelf, DataReturn DEF Update, Requeue
  <1>2. CASE obj = inst /\ next = "idle"
    BY <1>2, DataReturn DEF Update
  <1>3. CASE obj = inst /\ next # "idle"
    <2>1. /\ pc' = next /\ Alike(obj', obj) /\ Alike(inst', inst)
          /\ UNCHANGED <<running, todo>>
      BY <1>3 DEF Update
    <2> QED BY <2>1, WorldStill, StandsStill
  <1> QED BY <1>1, <1>2, <1>3

(* So does one that may be skipped.                                         *)
LEMMA DataSet ==
    ASSUME World, NEW new, NEW next, Set(new, next), Alike(new, obj),
           Stands(next, obj), UNCHANGED stores
    PROVE  World' /\ Stands(pc, obj)'
  <1>1. CASE new # obj
    BY <1>1, DataUpdate DEF Set
  <1>2. CASE new = obj /\ next = "idle"
    BY <1>2, AlikeSelf, DataReturn DEF Set
  <1>3. CASE new = obj /\ next # "idle"
    BY <1>3, DataGoto DEF Set
  <1> QED BY <1>1, <1>2, <1>3

(* The initial states satisfy the invariant.                                *)
LEMMA DataInit == Init => World /\ Stands(pc, obj)
  <1> SUFFICES ASSUME Init PROVE World /\ Stands(pc, obj)
    OBVIOUS
  <1>1. /\ \A db \in DB : ~Due(db) /\ disk[db] = Absent
        /\ pvc["primary"] = "absent"
    BY DEF Init, Due, Absent, Vols
  <1>2. inst.life = "absent" /\ ~inst.finalizer /\ inst.databases = {} /\ inst.stage = "None"
    BY DEF Init, NoInstance
  <1>3. bk.st = "none" /\ pc \in Unheld
    BY DEF Init, NoBackupPod, Unheld
  <1> QED BY <1>1, <1>2, <1>3
      DEF World, Unlisted, Listed, Staged, Reachable, Volumed, Copying, Released,
          AllSaved, NoneDue, Held, Early, Stands

(* Every step keeps it.                                                     *)
LEMMA DataNext ==
    ASSUME Careful, DataInv, [Next]_vars
    PROVE  World' /\ Stands(pc, obj)'
  <1> USE DEF Unheld
  <1>o. /\ obj \in Instances /\ inst \in Instances
        /\ World /\ Stands(pc, obj) /\ TypeOK /\ QuietInv
    BY DEF DataInv, TypeOK, ControlOK
  <1>u. UNCHANGED <<cluster, data, due>> => UNCHANGED stores
    BY DEF cluster, data, stores
  <1>c. pc \notin Unheld => Copied /\ Agrees(obj)
    BY <1>o DEF Stands, QuietInv
  <1>1. ASSUME Reconcile PROVE World' /\ Stands(pc, obj)'
    <2>1. UNCHANGED <<stores, inst, running, todo>>
      BY <1>1, <1>u DEF Reconcile, local
    <2>2. World'
      BY <1>o, <2>1, WorldStill, AlikeSelf
    <2>3. CASE inst.life = "absent"
      <3>1. pc' \in Unheld
        BY <1>1, <2>3 DEF Reconcile, local
      <3> QED BY <2>2, <3>1 DEF Stands
    <2>4. CASE inst.life # "absent"
      <3>1. /\ obj' = inst
            /\ pc' = IF inst.life = "deleting" THEN "deletion"
                     ELSE IF inst.finalizer THEN "upgrade" ELSE "addFinalizer"
        BY <1>1, <2>4 DEF Reconcile, Read, Stale, Careful, Orderly
      <3>2. Agrees(obj)'
        BY <1>o, <2>1, <2>4, <3>1
        DEF Agrees, World, Reachable, Volumed, SavedOnly, Due, Held, stores
      <3>3. Upgrades(pc, obj)' /\ Deletes(pc, obj)' /\ Provides(pc, obj)'
        BY <3>1
        DEF Upgrades, Deletes, Provides, AfterPVCs, BackupSteps, ReleaseSteps
      <3> QED BY <2>2, <3>2, <3>3 DEF Stands
    <2> QED BY <2>3, <2>4
  <1>2. ASSUME AddFinalizer PROVE World' /\ Stands(pc, obj)'
    <2>0. UNCHANGED stores /\ obj.life = "live"
      BY <1>2, <1>u, <1>o DEF AddFinalizer, QuietInv, At, LiveSteps
    <2>1. CASE obj # inst
      BY <1>2, <1>o, <2>0, <2>1, AlikeSelf, DataReturn DEF AddFinalizer, Update, Requeue
    <2>2. CASE obj = inst
      <3>1. inst' = [inst EXCEPT !.finalizer = TRUE] /\ obj' = inst' /\ pc' = "upgrade"
        BY <1>2, <2>2 DEF AddFinalizer, Update
      <3>2. /\ inst'.life = "live" /\ inst'.finalizer
            /\ inst'.backup = inst.backup /\ inst'.databases = inst.databases
            /\ inst'.stage = inst.stage /\ inst'.to = inst.to
        BY <1>o, <2>0, <2>2, <3>1 DEF Instances
      <3>3. World'
        BY <1>o, <2>0, <2>2, <3>2
        DEF World, Unlisted, Listed, Staged, Reachable, Volumed, Copying, Released,
            AllSaved, NoneDue, SavedOnly, Held, Due, ServerDown, stores
      <3>4. Agrees(obj)'
        BY <3>1, <3>2, <3>3
        DEF Agrees, World, Reachable, Volumed, SavedOnly, Due, Held
      <3>5. Upgrades(pc, obj)' /\ Deletes(pc, obj)' /\ Provides(pc, obj)'
        BY <3>1
        DEF Upgrades, Deletes, Provides, AfterPVCs, BackupSteps, ReleaseSteps
      <3> QED BY <3>3, <3>4, <3>5 DEF Stands
    <2> QED BY <2>1, <2>2
  <1>3. ASSUME ReconcileMajorUpgrade PROVE World' /\ Stands(pc, obj)'
    <2>1. /\ UNCHANGED <<stores, inst, obj, todo>> /\ obj.life = "live"
          /\ pc \notin Unheld
      BY <1>3, <1>u, <1>o DEF ReconcileMajorUpgrade, Goto, QuietInv, At, LiveSteps
    <2>2. World'
      BY <1>o, <2>1, WorldStill, AlikeSelf
    <2>3. Agrees(obj)'
      BY <1>c, <2>1 DEF Agrees, SavedOnly, Due, Held, stores
    <2>4. /\ inst.stage = obj.stage /\ inst.to = obj.to
          /\ inst.stage \in {"BackingUp", "Releasing"} =>
                sts.life # "absent" /\ sts.version # inst.to
      BY <1>o, <1>c, <2>1 DEF Copied, Agrees, World, Staged
    <2>5. \/ sts.life = "absent" /\ pc' = "pvcs"
          \/ /\ sts.life # "absent" /\ running' = sts.version
             /\ \/ obj.stage = "None" /\ pc' = "startUpgrade"
                \/ pc' = "failed"
                \/ obj.stage = "BackingUp" /\ pc' = "backup"
                \/ obj.stage = "Releasing" /\ pc' = "release"
                \/ obj.stage \notin {"BackingUp", "Releasing"} /\ pc' = "pvcs"
      BY <1>3, <1>o, <2>4
      DEF ReconcileMajorUpgrade, Goto, UpgradeStep, Instances, Stages
    <2>6. Upgrades(pc, obj)' /\ Deletes(pc, obj)' /\ Provides(pc, obj)'
      BY <2>1, <2>4, <2>5
      DEF Upgrades, Deletes, Provides, AfterPVCs, BackupSteps, ReleaseSteps, stores
    <2> QED BY <2>2, <2>3, <2>6 DEF Stands
  <1>4. ASSUME StartMajorUpgrade PROVE World' /\ Stands(pc, obj)'
    <2> DEFINE new == [obj EXCEPT !.stage = "BackingUp", !.from = running,
                                  !.to = obj.version, !.phase = "Upgrading"]
    <2>1. /\ UNCHANGED stores /\ obj.life = "live" /\ pc \notin Unheld
          /\ bk.st = "none" /\ Copied /\ Agrees(obj) /\ Upgrades(pc, obj)
      BY <1>4, <1>u, <1>o DEF StartMajorUpgrade, QuietInv, At, LiveSteps, PastBackup, Stands
    <2>2. obj.stage = "None" /\ sts.life # "absent" /\ running = sts.version
      BY <1>4, <2>1 DEF StartMajorUpgrade, Upgrades
    <2>3. CASE Goto("pvcs") /\ UNCHANGED inst
      <3>1. Stands("pvcs", obj)
        BY <2>1, <2>2
        DEF Stands, Upgrades, Deletes, Provides, AfterPVCs, BackupSteps, ReleaseSteps
      <3> QED BY <1>o, <2>1, <2>3, <3>1, DataGoto
    <2>4. CASE Fail /\ UNCHANGED inst
      BY <1>o, <2>1, <2>4, DataFail
    <2>5. CASE Update(new, "backup") /\ NeedsUpgrade(obj, running) /\ obj.backup
      <3>1. CASE obj # inst
        BY <1>o, <2>1, <2>5, <3>1, AlikeSelf, DataReturn DEF Update, Requeue
      <3>2. CASE obj = inst
        <4>1. inst' = new /\ obj' = new /\ pc' = "backup" /\ UNCHANGED <<running, todo>>
          BY <2>5, <3>2 DEF Update
        <4>2. /\ inst'.life = "live" /\ inst'.finalizer = inst.finalizer
              /\ inst'.backup /\ inst.backup /\ inst'.databases = inst.databases
              /\ inst'.stage = "BackingUp" /\ inst'.to = inst.version
          BY <1>o, <2>1, <2>5, <3>2, <4>1 DEF Instances
        <4>3. sts.version # inst'.to
          BY <2>2, <2>5, <3>2, <4>2 DEF NeedsUpgrade
        <4>4. inst.life = "live" /\ inst.finalizer /\ inst.stage = "None"
          BY <2>1, <2>2, <3>2 DEF Copied
        <4>5. World'
          BY <1>o, <2>1, <2>2, <4>2, <4>3, <4>4
          DEF World, Unlisted, Listed, Staged, Reachable, Volumed, Copying, Released,
              AllSaved, NoneDue, SavedOnly, Held, Due, Early, ServerDown, stores
        <4>6. Agrees(obj)'
          BY <4>1, <4>2, <4>5 DEF Agrees, World, Reachable, Volumed, SavedOnly, Due, Held
        <4>7. Upgrades(pc, obj)' /\ Deletes(pc, obj)' /\ Provides(pc, obj)'
          BY <2>1, <2>2, <4>1, <4>2
          DEF Upgrades, Deletes, Provides, AfterPVCs, BackupSteps, ReleaseSteps, stores
        <4> QED BY <4>5, <4>6, <4>7 DEF Stands
      <3> QED BY <3>1, <3>2
    <2> QED BY <1>4, <1>o, <2>3, <2>4, <2>5 DEF StartMajorUpgrade, Instances
  <1>5. ASSUME BackupDatabases PROVE World' /\ Stands(pc, obj)'
    <2> DEFINE stop == [obj EXCEPT !.message = "stopping"]
               back == [obj EXCEPT !.message = "backingUp"]
    <2>1. /\ UNCHANGED stores /\ pc \notin Unheld /\ Copied /\ Agrees(obj)
          /\ Upgrades(pc, obj) /\ Deletes(pc, obj) /\ pc = "backup"
      BY <1>5, <1>u, <1>o DEF BackupDatabases, QuietInv, Stands
    <2>2. Alike(stop, obj) /\ Alike(back, obj)
      BY <1>o DEF Alike, Instances
    <2>3. Stands("scale", obj) /\ Stands("waiting", obj) /\ Stands("offline", obj)
      BY <2>1
      DEF Stands, Upgrades, Deletes, Provides, AfterPVCs, BackupSteps, ReleaseSteps
    <2>4. CASE sts.life = "absent"
      <3>1. /\ inst.databases = {} /\ bk.st = "none"
            /\ inst.stage \notin {"BackingUp", "Releasing"}
        BY <1>o, <2>1, <2>4 DEF World, Volumed, Staged, QuietInv, Adopted, Copied
      <3>2. obj.life = "deleting"
        BY <1>o, <2>1, <3>1 DEF QuietInv, At, Copied, BackupSteps, Instances
      <3>3. AllSaved
        BY <1>o, <3>1 DEF World, Unlisted, AllSaved
      <3>4. Stands("release", obj)
        BY <2>1, <3>1, <3>2, <3>3
        DEF Stands, Upgrades, Deletes, Provides, AfterPVCs, BackupSteps, ReleaseSteps
      <3> QED BY <1>5, <1>o, <2>1, <2>4, <3>2, <3>4, DataGoto
          DEF BackupDatabases, AfterBackup
    <2>5. CASE sts.life # "absent" /\ sts.replicas # 0
      BY <1>5, <1>o, <2>1, <2>2, <2>3, <2>5, DataSet DEF BackupDatabases
    <2>6. CASE sts.life # "absent" /\ sts.replicas = 0 /\ rep.replicas # 0
      BY <1>5, <1>o, <2>1, <2>2, <2>3, <2>6, DataSet DEF BackupDatabases
    <2>7. CASE sts.life # "absent" /\ sts.replicas = 0 /\ rep.replicas = 0
      BY <1>5, <1>o, <2>1, <2>2, <2>3, <2>7, DataSet DEF BackupDatabases
    <2> QED BY <2>4, <2>5, <2>6, <2>7
  <1>6. ASSUME ScaleDown PROVE World' /\ Stands(pc, obj)'
    <2>0. UNCHANGED <<inst, pod, bk, pvc, disk, base, due>> /\ pc = "scale"
      BY <1>6 DEF ScaleDown, data
    <2>1. CASE sts.life = "absent"
      BY <1>6, <1>o, <2>0, <2>1, DataFail DEF ScaleDown, stores
    <2>2. CASE sts.life # "absent"
      <3>1. /\ sts'.life = sts.life /\ sts'.replicas = 0
            /\ sts'.version = sts.version /\ sts'.backup = sts.backup
        BY <1>6, <1>o, <2>2 DEF ScaleDown, TypeOK, ClusterOK, StatefulSets
      <3>2. World'
        BY <1>o, <2>0, <2>2, <3>1
        DEF World, Unlisted, Listed, Staged, Reachable, Volumed, Copying, Released,
            AllSaved, NoneDue, SavedOnly, Held, Due, WantsBackup, ServerDown
      <3>3. pc' = "waiting" /\ UNCHANGED <<obj, running, todo>>
        BY <1>6, <2>2 DEF ScaleDown, Goto
      <3>4. Agrees(obj)'
        BY <1>c, <2>0, <3>3 DEF Agrees, SavedOnly, Due, Held
      <3> QED BY <3>2, <3>3, <3>4
          DEF Stands, Upgrades, Deletes, Provides, AfterPVCs, BackupSteps, ReleaseSteps
    <2> QED BY <2>1, <2>2
  <1>7. ASSUME BackupDatabasesOffline PROVE World' /\ Stands(pc, obj)'
    <2>1. /\ UNCHANGED <<inst, sts, pod, pvc, disk, base, due>> /\ pc \notin Unheld
          /\ Copied /\ Agrees(obj) /\ Upgrades(pc, obj) /\ Deletes(pc, obj)
          /\ pc = "offline" /\ ServerDown
      BY <1>7, <1>o DEF BackupDatabasesOffline, data, QuietInv, Stands, At
    <2>2. inst.stage \in Early
      BY <1>o, <2>1 DEF QuietInv, At, Copied, Deletes, BackupSteps, Early
    <2>3. CASE bk.st = "none"
      <3>1. bk'.st = "pending" /\ bk'.dbs = inst.databases /\ Goto("waiting")
        BY <1>7, <2>1, <2>3 DEF BackupDatabasesOffline, Agrees
      <3>2. World'
        BY <1>o, <2>1, <2>2, <3>1
        DEF World, Unlisted, Listed, Staged, Reachable, Volumed, Copying, Released,
            AllSaved, NoneDue, SavedOnly, Held, Due, WantsBackup, ServerDown
      <3>3. Agrees(obj)'
        BY <2>1, <3>1 DEF Goto, Agrees, SavedOnly, Due, Held
      <3> QED BY <3>1, <3>2, <3>3
          DEF Goto, Stands, Upgrades, Deletes, Provides, AfterPVCs, BackupSteps,
              ReleaseSteps
    <2>4. ASSUME bk'.st = "none" PROVE World'
      BY <1>o, <2>1, <2>2, <2>4
      DEF World, Unlisted, Listed, Staged, Reachable, Volumed, Copying, Released,
          AllSaved, NoneDue, SavedOnly, Held, Due, WantsBackup, ServerDown
    <2>5. CASE bk.st = "succeeded"
      <3>1. bk'.st = "none" /\ Goto(AfterBackup)
        BY <1>7, <2>5 DEF BackupDatabasesOffline, NoBackupPod
      <3>2. AllSaved /\ AllSaved' /\ ServerDown'
        BY <1>o, <2>1, <2>5 DEF World, Copying, Copied, AllSaved, Due, ServerDown
      <3>3. Agrees(obj)'
        BY <2>1, <3>1 DEF Goto, Agrees, SavedOnly, Due, Held
      <3>4. Upgrades(pc, obj)' /\ Deletes(pc, obj)' /\ Provides(pc, obj)'
        BY <1>o, <2>1, <3>1, <3>2
        DEF Goto, AfterBackup, Upgrades, Deletes, Provides, AfterPVCs, BackupSteps,
            ReleaseSteps, QuietInv, Copied, Instances
      <3> QED BY <2>4, <3>1, <3>3, <3>4 DEF Stands
    <2>6. CASE bk.st = "failed"
      <3>1. bk'.st = "none" /\ pc' \in Unheld
        BY <1>7, <2>6
        DEF BackupDatabasesOffline, NoBackupPod, Fail, Requeue, Return, Goto
      <3> QED BY <2>4, <3>1 DEF Stands
    <2>7. CASE bk.st \notin {"none", "succeeded", "failed"}
      <3>1. Stands("waiting", obj)
        BY <2>1
        DEF Stands, Upgrades, Deletes, Provides, AfterPVCs, BackupSteps, ReleaseSteps
      <3> QED BY <1>7, <1>o, <2>1, <2>7, <3>1, DataGoto
          DEF BackupDatabasesOffline, stores
    <2> QED BY <2>3, <2>5, <2>6, <2>7
  <1>8. ASSUME RecordBackedUp PROVE World' /\ Stands(pc, obj)'
    <2> DEFINE new == [obj EXCEPT !.databases = {}, !.stage = "Releasing"]
    <2>1. /\ UNCHANGED stores /\ pc \notin Unheld /\ pc = "backedUp"
          /\ Copied /\ Agrees(obj) /\ Upgrades(pc, obj)
          /\ bk.st = "none" /\ obj.life = "live" /\ obj.stage = "BackingUp"
      BY <1>8, <1>u, <1>o
      DEF RecordBackedUp, QuietInv, At, LiveSteps, PastBackup, BackupSteps, Stands
    <2>2. AllSaved /\ ServerDown /\ running = sts.version
      BY <2>1 DEF Upgrades, BackupSteps
    <2>3. CASE obj # inst
      BY <1>8, <1>o, <2>1, <2>3, AlikeSelf, DataReturn DEF RecordBackedUp, Update, Requeue
    <2>4. CASE obj = inst
      <3>1. /\ new.stage = "Releasing" /\ new.databases = {} /\ new.to = inst.to
            /\ new.life = "live" /\ new.finalizer = inst.finalizer
            /\ new.backup = inst.backup /\ new.version = inst.version
        BY <1>o, <2>1, <2>4 DEF Instances
      <3>2. inst.backup /\ sts.life # "absent" /\ sts.version # inst.to
        BY <1>o, <2>1, <2>4 DEF World, Staged
      <3>3. UpgradeStep(new, running) \in {"failed", "release"}
        BY <2>2, <3>1, <3>2 DEF UpgradeStep
      <3>4. inst' = new /\ obj' = new /\ pc' \in {"failed", "release"}
        BY <1>8, <2>4, <3>3 DEF RecordBackedUp, Update
      <3>5. Unlisted'
        BY <1>o, <2>1, <2>2, <2>4
        DEF World, Unlisted, Listed, AllSaved, Due, Held, stores
      <3>6. World'
        BY <1>o, <2>1, <2>2, <2>4, <3>1, <3>2, <3>4, <3>5
        DEF World, Listed, Staged, Reachable, Volumed, Copying, Released,
            AllSaved, NoneDue, SavedOnly, Held, Due, ServerDown, stores, Copied, Early
      <3>7. Agrees(obj)'
        BY <3>1, <3>4, <3>6
        DEF Agrees, World, Reachable, Volumed, SavedOnly, Due, Held
      <3>8. Upgrades(pc, obj)' /\ Deletes(pc, obj)' /\ Provides(pc, obj)'
        BY <3>1, <3>4
        DEF Upgrades, Deletes, Provides, AfterPVCs, BackupSteps, ReleaseSteps
      <3> QED BY <3>6, <3>7, <3>8 DEF Stands
    <2> QED BY <2>3, <2>4
  <1>9. ASSUME ReleaseStorage PROVE World' /\ Stands(pc, obj)'
    <2>1. Stands("deletePrimary", obj)
      BY <1>9, <1>o
      DEF ReleaseStorage, Stands, Upgrades, Deletes, Provides, AfterPVCs, BackupSteps,
          ReleaseSteps
    <2>2. Alike([obj EXCEPT !.message = "releasing"], obj)
      BY <1>o DEF Alike, Instances
    <2> QED BY <1>9, <1>o, <1>u, <2>1, <2>2, DataSet DEF ReleaseStorage
  <1>10. ASSUME DeletePrimary PROVE World' /\ Stands(pc, obj)'
    <2>1. /\ UNCHANGED <<inst, obj, sts, pod, bk, disk, base>> /\ pc = "deletePrimary"
          /\ pc \notin Unheld /\ Copied /\ Agrees(obj) /\ Deletes(pc, obj)
      BY <1>10, <1>o DEF DeletePrimary, DeletePVC, data, QuietInv, Stands, Goto
    <2>2. /\ ~Held'
          /\ pvc'["primary"] = "absent" => pvc["primary"] = "absent"
          /\ pvc'["primary"] \in {"absent", "terminating"}
      BY <1>10, <1>o
      DEF DeletePrimary, DeletePVC, Held, TypeOK, ClusterOK, Vols
    <2>3. \/ obj.life = "live" /\ inst.stage = "Releasing" /\ due' = due
          \/ /\ obj.life = "deleting" /\ inst.life = "deleting" /\ WantsBackup(inst)
             /\ AllSaved /\ bk.st = "none" /\ due' = due
             /\ inst.databases # {} /\ inst.stage \in Early => ServerDown
          \/ /\ obj.life = "deleting" /\ inst.life = "deleting" /\ ~WantsBackup(inst)
             /\ NoneDue'
      BY <1>10, <1>o, <2>1
      DEF DeletePrimary, Deletes, ReleaseSteps, Copied, Agrees, WantsBackup, NoneDue, Due,
          Instances
    <2>4. bk.st = "running" => obj.life = "deleting"
      BY <1>o, <2>1 DEF QuietInv, At, ReleaseSteps
    <2>5. \A db \in DB : Due(db)' => Due(db) /\ due'[db] = due[db]
      BY <2>3 DEF NoneDue, Due
    <2>6. inst.finalizer /\ inst.life # "absent"
      BY <2>1 DEF Copied
    <2>7. Unlisted' /\ Listed'
      BY <1>o, <2>1, <2>2, <2>3, <2>5
      DEF World, Unlisted, Listed, Staged, Due, NoneDue, AllSaved, Held
    <2>8. Staged' /\ Copying' /\ Released'
      BY <1>o, <2>1, <2>2, <2>3, <2>4, <2>5
      DEF World, Staged, Copying, Released, AllSaved, NoneDue, ServerDown, Held, Due,
          WantsBackup, Early
    <2>9. Reachable' /\ Volumed'
      BY <1>o, <1>c, <2>1, <2>2, <2>3, <2>5, <2>6
      DEF World, Reachable, Volumed, SavedOnly, Held, Due, Staged, Copied, Agrees
    <2>10. pc' \in {"deleteShadow", "finalizerMessage", "released"}
           /\ (pc' = "finalizerMessage" => obj.life = "deleting")
           /\ (pc' = "released" => obj.life # "deleting")
      BY <1>10 DEF DeletePrimary, DeletePVC, Goto, AfterRelease
    <2>11. Agrees(obj)'
      BY <1>o, <2>1, <2>2, <2>3, <2>5
      DEF Agrees, SavedOnly, Held, Due, Copied, World, Staged
    <2>12. obj.life = "deleting" => AllSaved'
      BY <2>1, <2>3, <2>5 DEF AllSaved, NoneDue, Due
    <2>13. Upgrades(pc, obj)' /\ Deletes(pc, obj)' /\ Provides(pc, obj)'
      <3>1. obj.life # "deleting" => obj.stage = "Releasing"
        BY <2>1, <2>3 DEF Copied
      <3> QED BY <2>1, <2>2, <2>10, <2>12, <3>1
          DEF Upgrades, Deletes, Provides, AfterPVCs, BackupSteps, ReleaseSteps
    <2> QED BY <2>7, <2>8, <2>9, <2>11, <2>13 DEF World, Stands
  <1>11. ASSUME DeleteShadow PROVE World' /\ Stands(pc, obj)'
    <2>1. /\ UNCHANGED <<inst, obj, sts, pod, bk, disk, base, due, running, todo>>
          /\ pc = "deleteShadow" /\ pc \notin Unheld /\ Copied /\ Agrees(obj)
          /\ Deletes(pc, obj) /\ pc' = AfterRelease
      BY <1>11, <1>o DEF DeleteShadow, DeletePVC, data, QuietInv, Stands, Goto
    <2>2. pvc'["primary"] = pvc["primary"]
      BY <1>11, <1>o DEF DeleteShadow, DeletePVC, TypeOK, ClusterOK, Vols
    <2>3. World'
      BY <1>o, <2>1, <2>2
      DEF World, Unlisted, Listed, Staged, Reachable, Volumed, Copying, Released,
          AllSaved, NoneDue, SavedOnly, Held, Due, WantsBackup, ServerDown
    <2>4. Agrees(obj)'
      BY <2>1, <2>2 DEF Agrees, SavedOnly, Due, Held
    <2>5. Upgrades(pc, obj)' /\ Deletes(pc, obj)' /\ Provides(pc, obj)'
      BY <1>o, <2>1, <2>2
      DEF AfterRelease, Upgrades, Deletes, Provides, AfterPVCs, BackupSteps, ReleaseSteps,
          AllSaved, Due, Held
    <2> QED BY <2>3, <2>4, <2>5 DEF Stands
  <1>12. ASSUME AwaitRelease PROVE World' /\ Stands(pc, obj)'
    <2>1. UNCHANGED <<inst, stores>> /\ pc = "released" /\ Agrees(obj) /\ Upgrades(pc, obj)
      BY <1>12, <1>o, <1>u DEF AwaitRelease, Stands
    <2>2. Stands("waiting", obj)
      BY <2>1
      DEF Stands, Upgrades, Deletes, Provides, AfterPVCs, BackupSteps, ReleaseSteps
    <2>3. ASSUME pvc["primary"] = "absent" PROVE Stands("restoring", obj)
      BY <2>1, <2>3
      DEF Stands, Upgrades, Deletes, Provides, AfterPVCs, BackupSteps, ReleaseSteps
    <2>4. \/ Goto("waiting")
          \/ Goto("restoring") /\ pvc["primary"] = "absent"
      BY <1>12 DEF AwaitRelease, Vols
    <2> QED BY <1>o, <2>1, <2>2, <2>3, <2>4, DataGoto
  <1>13. ASSUME RecordReleased PROVE World' /\ Stands(pc, obj)'
    <2> DEFINE new == [obj EXCEPT !.stage = "Restoring"]
    <2>1. /\ UNCHANGED stores /\ pc \notin Unheld /\ pc = "restoring"
          /\ Copied /\ Agrees(obj) /\ Upgrades(pc, obj) /\ obj.life = "live"
      BY <1>13, <1>u, <1>o DEF RecordReleased, QuietInv, At, LiveSteps, PastBackup, Stands
    <2>2. obj.stage = "Releasing" /\ pvc["primary"] = "absent"
      BY <2>1 DEF Upgrades
    <2>3. CASE obj # inst
      BY <1>13, <1>o, <2>1, <2>3, AlikeSelf, DataReturn DEF RecordReleased, Update, Requeue
    <2>4. CASE obj = inst
      <3>1. /\ new.stage = "Restoring" /\ new.databases = inst.databases
            /\ new.to = inst.to /\ new.life = "live" /\ new.finalizer = inst.finalizer
            /\ new.backup = inst.backup
        BY <1>o, <2>1, <2>4 DEF Instances
      <3>2. inst' = new /\ obj' = new /\ pc' = "pvcs"
        BY <1>13, <2>4 DEF RecordReleased, Update
      <3>3. inst.databases = {} /\ AllSaved /\ bk.st = "none" /\ inst.finalizer
        BY <1>o, <2>1, <2>2, <2>4 DEF World, Staged, Copied, Early
      <3>4. World'
        BY <1>o, <2>1, <2>2, <2>4, <3>1, <3>2, <3>3
        DEF World, Unlisted, Listed, Staged, Reachable, Volumed, Copying, Released,
            AllSaved, NoneDue, SavedOnly, Held, Due, ServerDown, stores, Early
      <3>5. Agrees(obj)'
        BY <2>1, <2>2, <3>1, <3>2, <3>4
        DEF Agrees, World, Reachable, Volumed, SavedOnly, Due, Held, stores
      <3>6. Upgrades(pc, obj)' /\ Deletes(pc, obj)' /\ Provides(pc, obj)'
        BY <3>1, <3>2
        DEF Upgrades, Deletes, Provides, AfterPVCs, BackupSteps, ReleaseSteps
      <3> QED BY <3>4, <3>5, <3>6 DEF Stands
    <2> QED BY <2>3, <2>4
  <1>14. ASSUME ReconcilePVCs PROVE World' /\ Stands(pc, obj)'
    <2>1. /\ UNCHANGED <<inst, obj, sts, pod, bk, disk, base, due>> /\ pc = "pvcs"
          /\ pc \notin Unheld /\ Copied /\ Agrees(obj) /\ Provides(pc, obj)
          /\ obj.life = "live" /\ bk.st = "none" /\ pc' = "sts"
      BY <1>14, <1>o
      DEF ReconcilePVCs, Goto, data, QuietInv, At, LiveSteps, PastBackup, Stands
    <2>2. obj.stage \notin {"BackingUp", "Releasing"} /\ obj.stage = inst.stage
      BY <2>1 DEF Provides, Copied
    <2>3. Held' /\ pvc["primary"] # "terminating"
      BY <1>14, <1>o, <2>1, <2>2
      DEF ReconcilePVCs, Agrees, Held, TypeOK, ClusterOK, Vols
    <2>4. inst.finalizer /\ inst.life # "absent"
      BY <2>1 DEF Copied
    <2>5. Listed'
      BY <1>o, <2>1, <2>3 DEF World, Listed, Agrees, Due, Held
    <2>6. World'
      BY <1>o, <2>1, <2>3, <2>4, <2>5
      DEF World, Unlisted, Staged, Reachable, Volumed, Copying, Released,
          AllSaved, NoneDue, SavedOnly, Held, Due, ServerDown
    <2>7. Agrees(obj)'
      BY <2>1, <2>3 DEF Agrees, SavedOnly, Held, Due
    <2>8. Upgrades(pc, obj)' /\ Deletes(pc, obj)' /\ Provides(pc, obj)'
      BY <2>1, <2>2, <2>3
      DEF Upgrades, Deletes, Provides, AfterPVCs, BackupSteps, ReleaseSteps
    <2> QED BY <2>6, <2>7, <2>8 DEF Stands
  <1>15. ASSUME ApplyStatefulSet PROVE World' /\ Stands(pc, obj)'
    <2>1. /\ UNCHANGED <<inst, obj, pod, bk, pvc, disk, base, due>> /\ pc = "sts"
          /\ pc \notin Unheld /\ Copied /\ Agrees(obj) /\ Provides(pc, obj)
          /\ obj.life = "live" /\ bk.st = "none"
          /\ pc' \in {"finish", "databases", "schedule"}
      BY <1>15, <1>o
      DEF ApplyStatefulSet, data, QuietInv, At, LiveSteps, PastBackup, Stands
    <2>2. sts'.life = "owned" /\ sts'.backup = obj.backup
      BY <1>15 DEF ApplyStatefulSet
    <2>3. Held /\ inst.stage \notin {"BackingUp", "Releasing"}
      BY <2>1 DEF Provides, Copied, AfterPVCs
    <2>4. World'
      BY <1>o, <2>1, <2>2, <2>3
      DEF World, Unlisted, Listed, Staged, Reachable, Volumed, Copying, Released,
          AllSaved, NoneDue, SavedOnly, Held, Due, Agrees
    <2>5. Agrees(obj)'
      BY <2>1 DEF Agrees, SavedOnly, Held, Due
    <2>6. pc' = "databases" =>
            todo' = (obj.dbs \ obj.databases) \cup (obj.databases \ obj.dbs)
      BY <1>15 DEF ApplyStatefulSet
    <2>7. Upgrades(pc, obj)' /\ Deletes(pc, obj)' /\ Provides(pc, obj)'
      BY <2>1, <2>2, <2>3, <2>6
      DEF Upgrades, Deletes, Provides, AfterPVCs, BackupSteps, ReleaseSteps, Copied, Held
    <2> QED BY <2>4, <2>5, <2>7 DEF Stands
  <1>16. ASSUME ReconcileDatabase PROVE World' /\ Stands(pc, obj)'
    <2>1. /\ UNCHANGED <<inst, obj, sts, pod, bk, pvc, base>> /\ pc = "databases"
          /\ pc' = pc /\ pod.st = "ready"
          /\ pc \notin Unheld /\ Copied /\ Agrees(obj) /\ Provides(pc, obj)
          /\ obj.life = "live" /\ bk.st = "none"
      BY <1>16, <1>o
      DEF ReconcileDatabase, DropDatabase, ProvisionDatabase, cluster, data, QuietInv, At,
          LiveSteps, PastBackup, Stands
    <2>2. /\ Held /\ inst.life # "absent" /\ obj.databases = inst.databases
          /\ todo \subseteq (obj.dbs \ obj.databases) \cup (obj.databases \ obj.dbs)
      BY <2>1 DEF Provides, AfterPVCs, Copied, Agrees
    <2>3. PICK db \in todo : /\ todo' = todo \ {db}
                             /\ DropDatabase(db) \/ ProvisionDatabase(db)
      BY <1>16 DEF ReconcileDatabase
    <2>4. db \in DB /\ disk \in [DB -> Files] /\ due \in [DB -> {Absent} \cup 0..MaxWrites]
      BY <1>o, <2>3 DEF TypeOK, ControlOK, DataOK
    <2>5. CASE DropDatabase(db)
      <3>1. /\ db \notin obj.dbs /\ ~Due(db)' /\ disk'[db] = Absent
            /\ \A other \in DB \ {db} : disk'[other] = disk[other] /\ due'[other] = due[other]
        BY <2>4, <2>5 DEF DropDatabase, Removed, Due
      <3>2. World'
        BY <1>o, <2>1, <2>2, <3>1
        DEF World, Unlisted, Listed, Staged, Reachable, Volumed, Copying, Released,
            AllSaved, NoneDue, SavedOnly, Held, Due
      <3>3. Agrees(obj)'
        BY <2>1, <3>1 DEF Agrees, SavedOnly, Due, Held
      <3>4. Provides(pc, obj)'
        BY <1>o, <2>1, <2>2, <2>3, <3>1
        DEF Provides, AfterPVCs, Due, Held, Instances
      <3> QED BY <2>1, <3>2, <3>3, <3>4
          DEF Stands, Upgrades, Deletes, BackupSteps, ReleaseSteps
    <2>6. CASE ProvisionDatabase(db)
      <3>1. /\ db \in obj.dbs /\ db \notin inst.databases /\ due' = due
            /\ \A other \in DB \ {db} : disk'[other] = disk[other]
            /\ disk'[db] = IF disk[db] # Absent THEN disk[db]
                           ELSE IF Restorable(db) THEN base[db] ELSE 0
        BY <2>2, <2>3, <2>4, <2>6 DEF ProvisionDatabase, Removed
      <3>2. ASSUME Due(db) PROVE disk'[db] = due[db]
        <4>1. base[db] = due[db] /\ disk[db] \in {Absent, due[db]}
          BY <1>o, <2>4, <3>1, <3>2 DEF World, Unlisted
        <4>2. SavedOnly
          BY <2>4, <3>1, <3>2 DEF SavedOnly
        <4>3. Restorable(db)
          BY <1>o, <2>1, <2>2, <3>2, <4>1, <4>2
          DEF Restorable, Agrees, World, Reachable, Due
        <4> QED BY <3>1, <4>1, <4>3
      <3>3. World'
        BY <1>o, <2>1, <2>2, <3>1, <3>2
        DEF World, Unlisted, Listed, Staged, Reachable, Volumed, Copying, Released,
            AllSaved, NoneDue, SavedOnly, Held, Due
      <3>4. Agrees(obj)'
        BY <2>1, <3>1 DEF Agrees, SavedOnly, Due, Held
      <3>5. Provides(pc, obj)'
        BY <1>o, <2>1, <2>2, <2>3, <3>1, <3>2
        DEF Provides, AfterPVCs, Due, Held, Instances
      <3> QED BY <2>1, <3>3, <3>4, <3>5
          DEF Stands, Upgrades, Deletes, BackupSteps, ReleaseSteps
    <2> QED BY <2>3, <2>5, <2>6
  <1>17. ASSUME ExecFails PROVE World' /\ Stands(pc, obj)'
    BY <1>17, <1>o, <1>u, DataFail DEF ExecFails
  <1>18. ASSUME RestoreFails \/ StatementFails \/ StatusCatchesUp \/ CacheCatchesUp
         PROVE FALSE
    BY <1>18
    DEF RestoreFails, StatementFails, StatusCatchesUp, CacheCatchesUp, Stale, Careful, Orderly
  <1>19. ASSUME RecordDatabases PROVE World' /\ Stands(pc, obj)'
    <2> DEFINE new == [obj EXCEPT !.databases = obj.dbs]
    <2>1. /\ UNCHANGED stores /\ pc \notin Unheld /\ pc = "databases" /\ todo = {}
          /\ Copied /\ Agrees(obj) /\ Provides(pc, obj) /\ obj.life = "live"
          /\ bk.st = "none"
      BY <1>19, <1>u, <1>o DEF RecordDatabases, QuietInv, At, LiveSteps, PastBackup, Stands
    <2>2. CASE obj # inst
      BY <1>19, <1>o, <2>1, <2>2, AlikeSelf, DataReturn DEF RecordDatabases, Update, Requeue
    <2>3. CASE obj = inst
      <3>1. /\ new.databases = inst.dbs /\ new.stage = inst.stage
            /\ new.to = inst.to /\ new.life = "live" /\ new.finalizer = inst.finalizer
            /\ new.backup = inst.backup
        BY <1>o, <2>1, <2>3 DEF Instances
      <3>2. inst' = new /\ obj' = new /\ pc' = "schedule"
        BY <1>19, <2>3 DEF RecordDatabases, Update
      <3>3. /\ Held /\ sts.life # "absent" /\ inst.finalizer
            /\ inst.stage \notin {"BackingUp", "Releasing"}
            /\ \A db \in inst.dbs \ inst.databases : Due(db) => disk[db] = due[db]
            /\ \A db \in inst.databases \ inst.dbs : ~Due(db)
        BY <2>1, <2>3 DEF Provides, AfterPVCs, Copied
      <3>4. \A db \in DB : Due(db)' /\ db \notin inst'.databases => Due(db) /\ db \notin inst.databases
        BY <2>1, <3>1, <3>2, <3>3 DEF Due, stores
      <3>5. Unlisted' /\ Listed'
        BY <1>o, <2>1, <3>1, <3>2, <3>3, <3>4 DEF World, Unlisted, Listed, Due, Held, stores
      <3>6. Reachable'
        BY <1>o, <2>1, <2>3, <3>1, <3>2, <3>4 DEF World, Reachable, SavedOnly, stores
      <3>7. World'
        BY <1>o, <2>1, <2>3, <3>1, <3>2, <3>3, <3>5, <3>6
        DEF World, Staged, Volumed, Copying, Released, AllSaved, NoneDue, Held, Due, stores,
            Early
      <3>8. Agrees(obj)'
        BY <2>1, <3>1, <3>2, <3>3, <3>7
        DEF Agrees, World, Reachable, Volumed, SavedOnly, Due, Held, stores
      <3>9. Upgrades(pc, obj)' /\ Deletes(pc, obj)' /\ Provides(pc, obj)'
        BY <2>1, <3>1, <3>2, <3>3
        DEF Upgrades, Deletes, Provides, AfterPVCs, BackupSteps, ReleaseSteps, stores, Held
      <3> QED BY <3>7, <3>8, <3>9 DEF Stands
    <2> QED BY <2>2, <2>3
  <1>20. ASSUME PrepareDirectory \/ ApplyCronJob PROVE World' /\ Stands(pc, obj)'
    <2>1. /\ UNCHANGED <<inst, stores>> /\ pc \in {"schedule", "cronjob"}
          /\ Agrees(obj) /\ Provides(pc, obj)
      BY <1>20, <1>o DEF PrepareDirectory, ApplyCronJob, stores, data, Stands
    <2>2. Stands("cronjob", obj) /\ Stands("finish", obj)
      BY <2>1
      DEF Stands, Upgrades, Deletes, Provides, AfterPVCs, BackupSteps, ReleaseSteps
    <2>3. Goto("cronjob") \/ Goto("finish") \/ Fail
      BY <1>20 DEF PrepareDirectory, ApplyCronJob
    <2> QED BY <1>o, <2>1, <2>2, <2>3, DataGoto, DataFail
  <1>21. ASSUME FinishMajorUpgrade PROVE World' /\ Stands(pc, obj)'
    <2> DEFINE over == [obj EXCEPT !.stage = "None", !.from = NoVersion, !.to = NoVersion]
    <2>1. /\ UNCHANGED stores /\ pc \notin Unheld /\ pc = "finish"
          /\ Copied /\ Agrees(obj) /\ Provides(pc, obj) /\ obj.life = "live"
          /\ bk.st = "none"
      BY <1>21, <1>u, <1>o DEF FinishMajorUpgrade, QuietInv, At, LiveSteps, PastBackup, Stands
    <2>2. Stands("phase", obj)
      BY <2>1
      DEF Stands, Upgrades, Deletes, Provides, AfterPVCs, BackupSteps, ReleaseSteps
    <2>3. CASE Set(obj, "phase")
      BY <1>o, <2>1, <2>2, <2>3, DataSet DEF Alike
    <2>4. CASE Set(over, "phase") /\ over = obj
      BY <1>o, <2>1, <2>2, <2>4, DataSet DEF Alike
    <2>5. CASE Set(over, "phase") /\ over # obj
      <3>1. Update(over, "phase")
        BY <2>5 DEF Set
      <3>2. CASE obj # inst
        BY <1>o, <2>1, <3>1, <3>2, AlikeSelf, DataReturn DEF Update, Requeue
      <3>3. CASE obj = inst
        <4>1. /\ over.databases = inst.databases /\ over.stage = "None"
              /\ over.life = "live" /\ over.finalizer = inst.finalizer
              /\ over.backup = inst.backup
          BY <1>o, <2>1, <3>3 DEF Instances
        <4>2. inst' = over /\ obj' = over /\ pc' = "phase" /\ UNCHANGED <<running, todo>>
          BY <3>1, <3>3 DEF Update
        <4>3. Held /\ sts.life # "absent" /\ inst.finalizer
          BY <2>1, <3>3 DEF Provides, AfterPVCs, Copied
        <4>4. World'
          BY <1>o, <2>1, <3>3, <4>1, <4>2, <4>3
          DEF World, Unlisted, Listed, Staged, Reachable, Volumed, Copying, Released,
              AllSaved, NoneDue, SavedOnly, Held, Due, stores, Early
        <4>5. Agrees(obj)'
          BY <2>1, <4>1, <4>2, <4>3, <4>4
          DEF Agrees, World, Reachable, Volumed, SavedOnly, Due, Held, stores
        <4>6. Upgrades(pc, obj)' /\ Deletes(pc, obj)' /\ Provides(pc, obj)'
          BY <2>1, <4>1, <4>2, <4>3
          DEF Upgrades, Deletes, Provides, AfterPVCs, BackupSteps, ReleaseSteps, stores, Held
        <4> QED BY <4>4, <4>5, <4>6 DEF Stands
      <3> QED BY <3>2, <3>3
    <2> QED BY <1>21, <2>3, <2>4, <2>5 DEF FinishMajorUpgrade
  <1>22. ASSUME SetPhase PROVE World' /\ Stands(pc, obj)'
    <2> DEFINE new == [obj EXCEPT !.phase =
                        IF Done THEN "Ready"
                        ELSE IF obj.stage # "None" THEN "Upgrading"
                        ELSE "Provisioning"]
    <2>1. Alike(new, obj)
      BY <1>o DEF Alike, Instances
    <2>2. Stands("available", obj)
      BY <1>22, <1>o
      DEF SetPhase, Stands, Upgrades, Deletes, Provides, AfterPVCs, BackupSteps, ReleaseSteps
    <2> QED BY <1>22, <1>o, <1>u, <2>1, <2>2, DataSet DEF SetPhase
  <1>23. ASSUME SetAvailable PROVE World' /\ Stands(pc, obj)'
    <2>1. Alike([obj EXCEPT !.available = Done], obj)
      BY <1>o DEF Alike, Instances
    <2>2. Stands("summary", obj)
      BY <1>23, <1>o
      DEF SetAvailable, Stands, Upgrades, Deletes, Provides, AfterPVCs, BackupSteps,
          ReleaseSteps
    <2> QED BY <1>23, <1>o, <1>u, <2>1, <2>2, DataSet DEF SetAvailable
  <1>24. ASSUME ClearError PROVE World' /\ Stands(pc, obj)'
    <2> DEFINE new == [obj EXCEPT !.message = IF obj.available THEN "ready" ELSE "notReady"]
    <2>1. Alike(new, obj) /\ Stands("idle", obj)
      BY <1>o DEF Alike, Instances, Stands
    <2> QED BY <1>24, <1>o, <1>u, <2>1, DataSet DEF ClearError
  <1>25. ASSUME SetProgress \/ SetError PROVE World' /\ Stands(pc, obj)'
    <2>1. Alike(inst', inst) /\ Return /\ UNCHANGED stores
      BY <1>25, <1>o, <1>u DEF SetProgress, SetError, Report, Requeue, Alike, Instances
    <2> QED BY <1>o, <2>1, DataReturn
  <1>26. ASSUME ReportDeleting PROVE World' /\ Stands(pc, obj)'
    <2>1. Alike([obj EXCEPT !.phase = "Deleting"], obj)
      BY <1>o DEF Alike, Instances
    <2>2. Stands("deletionMessage", obj)
      BY <1>26, <1>o
      DEF ReportDeleting, Stands, Upgrades, Deletes, Provides, AfterPVCs, BackupSteps,
          ReleaseSteps
    <2> QED BY <1>26, <1>o, <1>u, <2>1, <2>2, DataSet DEF ReportDeleting
  <1>27. ASSUME ReportDeletion PROVE World' /\ Stands(pc, obj)'
    <2>1. Alike([obj EXCEPT !.message = "deleting"], obj)
      BY <1>o DEF Alike, Instances
    <2>2. /\ Agrees(obj) /\ Copied /\ obj.life = "deleting" /\ pc \notin Unheld
          /\ obj.stage = inst.stage
      BY <1>27, <1>o DEF ReportDeletion, Stands, QuietInv, At, DeletionSteps, Copied
    <2>3. CASE WantsBackup(obj) /\ ~BackedUp(obj)
      <3>1. Stands("backup", obj)
        BY <1>o, <2>2, <2>3
        DEF Stands, Upgrades, Deletes, Provides, AfterPVCs, BackupSteps, ReleaseSteps,
            BackedUp, Early, Instances, Stages
      <3> QED BY <1>27, <1>o, <1>u, <2>1, <2>3, <3>1, DataSet DEF ReportDeletion
    <2>4. CASE ~(WantsBackup(obj) /\ ~BackedUp(obj))
      <3>1. WantsBackup(obj) => AllSaved /\ bk.st = "none" /\ inst.stage \notin Early
        BY <1>o, <2>2, <2>4 DEF World, Staged, BackedUp, Early
      <3>2. Stands("release", obj)
        BY <2>2, <3>1
        DEF Stands, Upgrades, Deletes, Provides, AfterPVCs, BackupSteps, ReleaseSteps
      <3> QED BY <1>27, <1>o, <1>u, <2>1, <2>4, <3>2, DataSet DEF ReportDeletion
    <2> QED BY <2>3, <2>4
  <1>28. ASSUME ReportFinalizer PROVE World' /\ Stands(pc, obj)'
    <2>1. Alike([obj EXCEPT !.message = "finalizer"], obj)
      BY <1>o DEF Alike, Instances
    <2>2. Stands("removeFinalizer", obj)
      BY <1>28, <1>o
      DEF ReportFinalizer, Stands, Upgrades, Deletes, Provides, AfterPVCs, BackupSteps,
          ReleaseSteps
    <2> QED BY <1>28, <1>o, <1>u, <2>1, <2>2, DataSet DEF ReportFinalizer
  <1>29. ASSUME RemoveFinalizer PROVE World' /\ Stands(pc, obj)'
    <2>1. /\ UNCHANGED <<pod, bk, pvc, disk, base, due>> /\ obj.life = "deleting"
          /\ AllSaved /\ ~Held
      BY <1>29, <1>o
      DEF RemoveFinalizer, data, QuietInv, At, DeletionSteps, Stands, Deletes
    <2>2. CASE obj # inst
      BY <1>29, <1>o, <2>1, <2>2, AlikeSelf, DataReturn
      DEF RemoveFinalizer, Update, Requeue, stores
    <2>3. CASE obj = inst
      <3>1. inst' = NoInstance /\ pc' = "idle"
        BY <1>29, <2>3 DEF RemoveFinalizer, Update, Return
      <3>2. /\ inst'.life = "absent" /\ ~inst'.finalizer /\ inst'.databases = {}
            /\ inst'.stage = "None"
        BY <3>1 DEF NoInstance
      <3>3. Unlisted'
        BY <1>o, <2>1 DEF World, Unlisted, Listed, AllSaved, Due, Held
      <3>4. World'
        BY <1>o, <2>1, <3>2, <3>3
        DEF World, Listed, Staged, Reachable, Volumed, Copying, Released, NoneDue, Held,
            Due, Early
      <3> QED BY <3>1, <3>4 DEF Stands
    <2> QED BY <2>2, <2>3
  <1>30. ASSUME Abort PROVE World' /\ Stands(pc, obj)'
    BY <1>30, <1>o, <1>u, AlikeSelf, DataReturn, DataFail DEF Abort, Requeue
  <1>31. ASSUME PodLife PROVE World' /\ Stands(pc, obj)'
    <2>1. UNCHANGED <<inst, pc, obj, running, todo, sts, bk, pvc, disk, base, due>>
      BY <1>31
      DEF PodLife, PodCreated, PodReady, PodStopped, PodGone, SetPod, local
    <2>2. pod.st = "none" => pod'.st = "pending" /\ sts.life # "absent" /\ sts.replicas = 1
      BY <1>31
      DEF PodLife, PodCreated, PodReady, PodStopped, PodGone, SetPod
    <2>3. pod'.st \in {"pending", "ready"} =>
             \/ pod.st = "pending" /\ pod'.backup = pod.backup
             \/ sts.life # "absent" /\ sts.replicas = 1 /\ pod'.backup = sts.backup
      BY <1>31, <1>o
      DEF PodLife, PodCreated, PodReady, PodStopped, PodGone, SetPod, NoPod, TypeOK,
          ClusterOK, Pods
    <2>4. ServerDown => ServerDown'
      BY <2>1, <2>2 DEF ServerDown
    <2>5. World'
      BY <1>o, <2>1, <2>3, <2>4
      DEF World, Unlisted, Listed, Staged, Reachable, Volumed, Copying, Released,
          AllSaved, NoneDue, SavedOnly, Held, Due, WantsBackup
    <2>6. CASE pc \notin Unheld
      <3>1. Agrees(obj)'
        BY <1>c, <2>1, <2>6 DEF Agrees, SavedOnly, Due, Held
      <3>2. Upgrades(pc, obj)'
        BY <1>o, <2>1, <2>4, <2>6 DEF Stands, Upgrades, AllSaved, Due
      <3>3. Deletes(pc, obj)'
        BY <1>o, <2>1, <2>4, <2>6 DEF Stands, Deletes, AllSaved, Due, Held, WantsBackup
      <3>4. Provides(pc, obj)'
        BY <1>o, <2>1, <2>6 DEF Stands, Provides, Due, Held
      <3> QED BY <2>5, <3>1, <3>2, <3>3, <3>4 DEF Stands
    <2>7. CASE pc \in Unheld
      BY <2>1, <2>5, <2>7 DEF Stands
    <2> QED BY <2>6, <2>7
  <1>32. ASSUME CollectStatefulSet PROVE World' /\ Stands(pc, obj)'
    <2>1. /\ UNCHANGED <<inst, pc, bk, pvc, disk, base, due>> /\ inst.life = "absent"
          /\ pc \in Unheld
      BY <1>32, <1>o, <1>c DEF CollectStatefulSet, QuietInv, Adopted, Copied, local, data
    <2>2. inst.databases = {} /\ inst.stage = "None"
      BY <1>o, <2>1 DEF World, Volumed
    <2>3. World'
      BY <1>o, <2>1, <2>2
      DEF World, Unlisted, Listed, Staged, Reachable, Volumed, Copying, Released,
          AllSaved, NoneDue, Held, Due, Early
    <2> QED BY <2>1, <2>3 DEF Stands
  <1>33. ASSUME CollectBackupPod PROVE World' /\ Stands(pc, obj)'
    <2>1. /\ UNCHANGED <<inst, pc, sts, pod, pvc, disk, base, due>> /\ inst.life = "absent"
          /\ pc \in Unheld /\ bk'.st = "none"
      BY <1>33, <1>c DEF CollectBackupPod, Copied, local, data, NoBackupPod
    <2>2. World'
      BY <1>o, <2>1
      DEF World, Unlisted, Listed, Staged, Reachable, Volumed, Copying, Released,
          AllSaved, NoneDue, SavedOnly, Held, Due
    <2> QED BY <2>1, <2>2 DEF Stands
  <1>34. ASSUME CollectCronJob \/ UNCHANGED vars PROVE World' /\ Stands(pc, obj)'
    <2>1. UNCHANGED <<inst, pc, obj, running, todo, stores>>
      BY <1>34 DEF CollectCronJob, vars, local, cluster, data, stores
    <2>2. Alike(obj', obj) /\ Alike(inst', inst)
      BY <2>1 DEF Alike
    <2> QED BY <1>o, <2>1, <2>2, WorldStill, StandsStill
  <1>35. ASSUME NEW v \in Vols, PVCRemoved(v) PROVE World' /\ Stands(pc, obj)'
    <2>1. UNCHANGED <<inst, pc, obj, running, todo, sts, pod, bk, base, due>>
      BY <1>35 DEF PVCRemoved, local
    <2>2. CASE v = "primary"
      <3>1. /\ pvc["primary"] = "terminating" /\ pvc'["primary"] = "absent"
            /\ \A db \in DB : disk'[db] = Absent
            /\ ~Held /\ ~Held'
        BY <1>35, <1>o, <2>2 DEF PVCRemoved, TypeOK, ClusterOK, Held
      <3>2. World'
        BY <1>o, <2>1, <3>1
        DEF World, Unlisted, Listed, Staged, Reachable, Volumed, Copying, Released,
            AllSaved, NoneDue, SavedOnly, Due, WantsBackup, ServerDown
      <3>3. CASE pc \notin Unheld
        <4>1. Agrees(obj)'
          BY <1>c, <2>1, <3>1, <3>3 DEF Agrees, SavedOnly, Due
        <4>2. Upgrades(pc, obj)'
          BY <1>o, <2>1, <3>1, <3>3 DEF Stands, Upgrades, AllSaved, Due, ServerDown
        <4>3. Deletes(pc, obj)'
          BY <1>o, <2>1, <3>1, <3>3
          DEF Stands, Deletes, AllSaved, Due, WantsBackup, ServerDown
        <4>4. Provides(pc, obj)'
          BY <1>o, <2>1, <3>1, <3>3 DEF Stands, Provides, AfterPVCs
        <4> QED BY <3>2, <4>1, <4>2, <4>3, <4>4 DEF Stands
      <3>4. CASE pc \in Unheld
        BY <2>1, <3>2, <3>4 DEF Stands
      <3> QED BY <3>3, <3>4
    <2>3. CASE v # "primary"
      <3>1. pvc'["primary"] = pvc["primary"] /\ UNCHANGED disk
        BY <1>35, <1>o, <2>3 DEF PVCRemoved, TypeOK, ClusterOK, Vols
      <3>2. World'
        BY <1>o, <2>1, <3>1
        DEF World, Unlisted, Listed, Staged, Reachable, Volumed, Copying, Released,
            AllSaved, NoneDue, SavedOnly, Held, Due, WantsBackup, ServerDown
      <3>3. CASE pc \notin Unheld
        <4>1. Agrees(obj)'
          BY <1>c, <2>1, <3>1, <3>3 DEF Agrees, SavedOnly, Due, Held
        <4>2. Upgrades(pc, obj)'
          BY <1>o, <2>1, <3>1, <3>3 DEF Stands, Upgrades, AllSaved, Due, ServerDown
        <4>3. Deletes(pc, obj)'
          BY <1>o, <2>1, <3>1, <3>3
          DEF Stands, Deletes, AllSaved, Due, Held, WantsBackup, ServerDown
        <4>4. Provides(pc, obj)'
          BY <1>o, <2>1, <3>1, <3>3 DEF Stands, Provides, Due, Held
        <4> QED BY <3>2, <4>1, <4>2, <4>3, <4>4 DEF Stands
      <3>4. CASE pc \in Unheld
        BY <2>1, <3>2, <3>4 DEF Stands
      <3> QED BY <3>3, <3>4
    <2> QED BY <2>2, <2>3
  <1>36. ASSUME Backups PROVE World' /\ Stands(pc, obj)'
    <2>1. /\ UNCHANGED <<inst, pc, obj, running, todo, sts, pod, pvc, disk, due>>
          /\ bk.st \in {"pending", "running"} /\ bk'.st # "none" /\ bk'.dbs = bk.dbs
      BY <1>36, <1>o
      DEF Backups, BackupStarts, BackupSucceeds, BackupFails, local, data, TypeOK,
          ClusterOK, BackupPods
    <2>2. \A db \in DB : db \notin bk.dbs => base'[db] = base[db]
      <3>1. CASE BackupStarts \/ BackupSucceeds
        BY <3>1 DEF BackupStarts, BackupSucceeds, data
      <3>2. CASE BackupFails
        <4>1. PICK copied \in SUBSET Readable : \E torn \in SUBSET (Readable \ copied) :
                 base' = [db \in DB |-> IF db \in copied THEN disk[db]
                                        ELSE IF db \in torn THEN Partial ELSE base[db]]
          BY <3>2 DEF BackupFails
        <4>2. Readable \subseteq bk.dbs
          BY DEF Readable
        <4> QED BY <4>1, <4>2
      <3> QED BY <1>36, <3>1, <3>2 DEF Backups
    <2>3. /\ bk'.st = "running" => Held
          /\ bk'.st = "succeeded" => \A db \in DB : db \in bk.dbs => base'[db] = disk[db]
          /\ bk.st = "pending" => base' = base
      BY <1>36, <1>o
      DEF Backups, BackupStarts, BackupSucceeds, BackupFails, data, TypeOK, ClusterOK,
          BackupPods, Vols, Held
    <2>4. base' # base => NoneDue \/ Held
      BY <1>o, <2>1, <2>3 DEF World, Copying
    <2>5. \A db \in DB : Due(db) => db \in inst.databases \/ base'[db] = base[db]
      BY <1>o, <2>1, <2>2, <2>4 DEF World, Copying, Volumed, NoneDue
    <2>6. Unlisted' /\ Listed'
      BY <1>o, <2>1, <2>4, <2>5 DEF World, Unlisted, Listed, Due, NoneDue, Held
    <2>7. inst.stage \in Early
      BY <1>o, <2>1 DEF World, Staged
    <2>8. Staged' /\ Reachable' /\ Volumed' /\ Released'
      BY <1>o, <2>1, <2>7
      DEF World, Staged, Reachable, Volumed, Released, SavedOnly, Held, Due, WantsBackup,
          ServerDown
    <2>9. bk'.st = "succeeded" /\ inst.life # "absent" => AllSaved'
      BY <1>o, <2>1, <2>3, <2>4, <2>6
      DEF World, Copying, Unlisted, Listed, AllSaved, Due, NoneDue, Held
    <2>10. Copying'
      BY <1>o, <2>1, <2>3, <2>9 DEF World, Copying, NoneDue, Due, Held, ServerDown
    <2>11. CASE pc \notin Unheld
      <3>1. Agrees(obj)'
        BY <1>c, <2>1, <2>11 DEF Agrees, SavedOnly, Due, Held
      <3>2. pc \notin PastBackup /\ (pc \in ReleaseSteps => obj.life = "deleting")
        BY <1>o, <2>1 DEF QuietInv, At
      <3>3. Upgrades(pc, obj)'
        BY <1>o, <2>1, <2>11, <3>2 DEF Stands, Upgrades, PastBackup
      <3>4. AllSaved /\ ~Held => AllSaved'
        BY <2>1, <2>4 DEF AllSaved, NoneDue, Due, Held
      <3>5. Deletes(pc, obj)'
        BY <1>o, <2>1, <2>11, <3>4 DEF Stands, Deletes, Held, WantsBackup
      <3>6. Provides(pc, obj)'
        BY <2>1, <3>2 DEF Provides, PastBackup, AfterPVCs
      <3> QED BY <2>6, <2>8, <2>10, <3>1, <3>3, <3>5, <3>6 DEF World, Stands
    <2>12. CASE pc \in Unheld
      BY <2>1, <2>6, <2>8, <2>10, <2>12 DEF World, Stands
    <2> QED BY <2>11, <2>12
  <1>37. ASSUME UserCreates PROVE World' /\ Stands(pc, obj)'
    <2>1. /\ UNCHANGED <<pc, sts, pod, bk, pvc, disk, base>> /\ inst.life = "absent"
          /\ pc \in Unheld
          /\ sts.life = "absent" /\ pod.st = "none" /\ bk.st = "none"
          /\ pvc["primary"] = "absent"
      BY <1>37, <1>c DEF UserCreates, Copied, cluster, data, Careful, Orderly, Clean, Vols
    <2>2. PICK spec \in Specs :
             /\ inst' = [NoInstance EXCEPT !.life = "live",
                           !.version = spec.version, !.backup = spec.backup,
                           !.backupOnDelete = spec.backupOnDelete, !.dbs = spec.dbs]
             /\ due' = IF spec.backup THEN due ELSE [db \in DB |-> Absent]
      BY <1>37 DEF UserCreates
    <2>3. /\ inst'.life = "live" /\ ~inst'.finalizer /\ inst'.databases = {}
          /\ inst'.stage = "None" /\ inst'.backup = spec.backup
      BY <2>2 DEF NoInstance
    <2>4. NoneDue' \/ (inst'.backup /\ due' = due)
      BY <2>2, <2>3 DEF NoneDue, Due
    <2>5. inst.databases = {}
      BY <1>o, <2>1 DEF World, Volumed
    <2>6. World'
      BY <1>o, <2>1, <2>3, <2>4, <2>5
      DEF World, Unlisted, Listed, Staged, Reachable, Volumed, Copying, Released,
          NoneDue, SavedOnly, Held, Due, Early
    <2> QED BY <2>1, <2>6 DEF Stands
  <1>38. ASSUME UserEdits PROVE World' /\ Stands(pc, obj)'
    <2>1. /\ UNCHANGED <<pc, obj, running, todo, sts, pod, bk, pvc, disk, base, due>>
          /\ inst.life = "live"
      BY <1>38 DEF UserEdits, local, cluster, data
    <2>2. PICK kind \in EditKinds \ {"disableBackup"} : inst' \in Edited(kind)
      BY <1>38, ConstantsAssumption DEF UserEdits, Careful
    <2>3. /\ inst'.life = inst.life /\ inst'.finalizer = inst.finalizer
          /\ inst'.databases = inst.databases /\ inst'.stage = inst.stage
          /\ inst'.to = inst.to /\ (inst.backup => inst'.backup)
      BY <1>o, <2>2 DEF Edited, Instances, EditKinds
    <2>4. World'
      BY <1>o, <2>1, <2>3
      DEF World, Unlisted, Listed, Staged, Reachable, Volumed, Copying, Released,
          AllSaved, NoneDue, SavedOnly, Held, Due, ServerDown
    <2>5. CASE pc \notin Unheld
      <3>0. obj.life # "deleting"
        BY <1>c, <2>1, <2>5 DEF Copied
      <3>1. Agrees(obj)'
        BY <1>c, <2>1, <2>3, <2>5, <3>0 DEF Agrees, SavedOnly, Due, Held
      <3>2. Upgrades(pc, obj)'
        BY <1>o, <2>1, <2>5 DEF Stands, Upgrades, AllSaved, Due, ServerDown
      <3>3. Deletes(pc, obj)'
        BY <1>o, <2>1, <2>5, <3>0 DEF Stands, Deletes
      <3>4. Provides(pc, obj)'
        BY <1>o, <2>1, <2>5 DEF Stands, Provides, Due, Held
      <3> QED BY <2>4, <3>1, <3>2, <3>3, <3>4 DEF Stands
    <2>6. CASE pc \in Unheld
      BY <2>1, <2>4, <2>6 DEF Stands
    <2> QED BY <2>5, <2>6
  <1>39. ASSUME UserDeletes PROVE World' /\ Stands(pc, obj)'
    <2>1. /\ UNCHANGED <<pc, obj, running, todo, sts, pod, bk, pvc, disk, base, due>>
          /\ inst.life = "live"
      BY <1>39 DEF UserDeletes, local, cluster, data
    <2>2. CASE inst.finalizer
      <3>1. /\ inst'.life = "deleting" /\ inst'.finalizer
            /\ inst'.databases = inst.databases /\ inst'.stage = inst.stage
            /\ inst'.to = inst.to /\ inst'.backup = inst.backup
            /\ inst'.backupOnDelete = inst.backupOnDelete
        BY <1>39, <1>o, <2>2 DEF UserDeletes, Instances
      <3>2. World'
        BY <1>o, <2>1, <3>1
        DEF World, Unlisted, Listed, Staged, Reachable, Volumed, Copying, Released,
            AllSaved, NoneDue, SavedOnly, Held, Due, ServerDown
      <3>3. CASE pc \notin Unheld
        <4>1. Agrees(obj)'
          BY <1>c, <2>1, <3>1, <3>3 DEF Agrees, SavedOnly, Due, Held
        <4>2. Upgrades(pc, obj)'
          BY <1>o, <2>1, <3>3 DEF Stands, Upgrades, AllSaved, Due, ServerDown
        <4>3. Deletes(pc, obj)'
          BY <1>o, <2>1, <3>1, <3>3
          DEF Stands, Deletes, AllSaved, Due, Held, WantsBackup, ServerDown
        <4>4. Provides(pc, obj)'
          BY <1>o, <2>1, <3>3 DEF Stands, Provides, Due, Held
        <4> QED BY <3>2, <4>1, <4>2, <4>3, <4>4 DEF Stands
      <3>4. CASE pc \in Unheld
        BY <2>1, <3>2, <3>4 DEF Stands
      <3> QED BY <3>3, <3>4
    <2>3. CASE ~inst.finalizer
      <3>1. /\ inst'.life = "absent" /\ ~inst'.finalizer /\ inst'.databases = {}
            /\ inst'.stage = "None"
        BY <1>39, <2>3 DEF UserDeletes, NoInstance
      <3>2. inst.databases = {} /\ ~Held
        BY <1>o, <2>3 DEF World, Volumed
      <3>3. World'
        BY <1>o, <2>1, <3>1, <3>2
        DEF World, Unlisted, Listed, Staged, Reachable, Volumed, Copying, Released,
            AllSaved, NoneDue, SavedOnly, Held, Due, Early
      <3>4. pc \in Unheld
        BY <1>c, <2>3 DEF Copied
      <3> QED BY <2>1, <3>3, <3>4 DEF Stands
    <2> QED BY <2>2, <2>3
  <1>40. ASSUME ClientWrites PROVE World' /\ Stands(pc, obj)'
    <2>1. /\ UNCHANGED <<inst, pc, obj, running, todo, sts, pod, bk, pvc, base>>
          /\ pod.st = "ready" /\ ~Discarded
      BY <1>40 DEF ClientWrites, local, cluster
    <2>2. PICK db \in DB : /\ disk[db] >= 0 /\ db \in inst.databases
                           /\ inst.stage # "Restoring"
                           /\ disk' = [disk EXCEPT ![db] = used.writes + 1]
                           /\ due' = [due EXCEPT ![db] = used.writes + 1]
      BY <1>40 DEF ClientWrites, Announced, Careful
    <2>3. /\ disk'[db] = due'[db] /\ disk[db] # Absent
          /\ \A other \in DB \ {db} : disk'[other] = disk[other] /\ due'[other] = due[other]
      BY <1>o, <2>2 DEF TypeOK, DataOK, Absent
    <2>4. inst.stage \in Early /\ ~ServerDown /\ inst.databases # {} /\ inst.life # "absent"
      BY <1>o, <2>1, <2>2 DEF World, Staged, Volumed, Early, ServerDown, Instances, Stages
    <2>5. Held
      BY <1>o, <2>1, <2>4 DEF World, Volumed, Released, Discarded, Instances
    <2>6. bk.st = "none"
      BY <1>o, <2>4 DEF World, Copying
    <2>7. World'
      BY <1>o, <2>1, <2>2, <2>3, <2>4, <2>5, <2>6
      DEF World, Unlisted, Listed, Staged, Reachable, Volumed, Copying, Released,
          SavedOnly, Held, Due
    <2>8. CASE pc \notin Unheld
      <3>1. Agrees(obj)'
        BY <1>c, <2>1, <2>2, <2>3, <2>8 DEF Agrees, SavedOnly, Due, Held
      <3>2. Upgrades(pc, obj)'
        BY <1>o, <2>1, <2>4, <2>8 DEF Stands, Upgrades
      <3>3. Deletes(pc, obj)'
        <4>1. obj.life = "deleting" => (WantsBackup(obj) <=> WantsBackup(inst))
                                       /\ inst.life = "deleting"
          BY <1>c, <2>8 DEF Agrees, Copied, WantsBackup
        <4> QED BY <1>o, <2>1, <2>4, <2>5, <2>8, <4>1
            DEF Stands, Deletes, Held, Discarded, WantsBackup
      <3>4. Provides(pc, obj)'
        BY <1>o, <1>c, <2>1, <2>2, <2>3, <2>8
        DEF Stands, Provides, Agrees, Due, Held, Instances
      <3> QED BY <2>7, <3>1, <3>2, <3>3, <3>4 DEF Stands
    <2>9. CASE pc \in Unheld
      BY <2>1, <2>7, <2>9 DEF Stands
    <2> QED BY <2>8, <2>9
  <1> QED
    BY <1>1, <1>2, <1>3, <1>4, <1>5, <1>6, <1>7, <1>8, <1>9, <1>10,
       <1>11, <1>12, <1>13, <1>14, <1>15, <1>16, <1>17, <1>18, <1>19, <1>20,
       <1>21, <1>22, <1>23, <1>24, <1>25, <1>26, <1>27, <1>28, <1>29, <1>30,
       <1>31, <1>32, <1>33, <1>34, <1>35, <1>36, <1>37, <1>38, <1>39, <1>40
    DEF Next, Controller, Garbage, Volumes, Users

(***************************************************************************)
(* Nothing a client wrote to an announced database is ever lost, for any    *)
(* databases, versions, edits, bounds, failed calls, evictions, early edits *)
(* and early deletions, as long as nothing happens that Careful excludes    *)
(* (reconcileMajorUpgrade, reconcileDeletion, backupDatabases,              *)
(* restoreDatabaseIfBackedUp).                                              *)
(***************************************************************************)
THEOREM DataKept ==
    ASSUME Careful
    PROVE  Spec => []NoDataLost
  <1>1. Init => DataInv
    BY TypeInit, QuietInit, DataInit DEF DataInv
  <1>2. DataInv /\ [Next]_vars => DataInv'
    BY TypeNext, QuietNext, DataNext DEF DataInv, Careful
  <1>3. DataInv => NoDataLost
    BY DEF DataInv, World, Unlisted, Listed, Due, Held, NoDataLost
  <1> QED BY <1>1, <1>2, <1>3, PTL DEF Spec
-----------------------------------------------------------------------------

(***************************************************************************)
(* Beyond DataInv, a step of the abstraction needs two facts: no file holds *)
(* a write that has not happened yet, so a new write makes every backup     *)
(* old; and a reconcile that finishes with a ready server has provisioned   *)
(* exactly the databases it was asked for, so counting them, as Done does,  *)
(* is enough.                                                               *)
(***************************************************************************)
Past == \A db \in DB : disk[db] <= used.writes /\ base[db] <= used.writes

Complete ==
    pc \in {"schedule", "cronjob"} \/ (pc = "finish" /\ ready) =>
        obj.databases = obj.dbs

CustodyInv == DataInv /\ Past /\ Complete

(* A count of writes is a number.                                           *)
LEMMA WritesType ==
    ASSUME TypeOK
    PROVE  /\ used.writes \in Nat
           /\ \A db \in DB : disk[db] \in Int /\ base[db] \in Int
  BY ConstantsAssumption DEF TypeOK, DataOK, Files, Absent, Partial

(* Every step keeps it.                                                     *)
LEMMA PastNext ==
    ASSUME TypeOK, TypeOK', Past, [Next]_vars
    PROVE  Past'
  <1>t. /\ used.writes \in Nat
        /\ \A db \in DB : disk[db] \in Int /\ base[db] \in Int
    BY WritesType
  <1>k. ASSUME UNCHANGED <<disk, base>>, used'.writes = used.writes PROVE Past'
    BY <1>k DEF Past
  <1>1. CASE ReconcileDatabase
    BY <1>1, <1>t
    DEF ReconcileDatabase, DropDatabase, ProvisionDatabase, Past, Absent, TypeOK, DataOK
  <1>2. CASE RestoreFails
    BY <1>2, <1>t DEF RestoreFails, Past, Partial, TypeOK, DataOK
  <1>3. CASE ClientWrites
    <2>1. PICK db \in DB : disk' = [disk EXCEPT ![db] = used.writes + 1]
      BY <1>3 DEF ClientWrites
    <2>2. used'.writes = used.writes + 1 /\ base' = base
      BY <1>3 DEF ClientWrites, TypeOK, DataOK
    <2> QED BY <1>t, <2>1, <2>2 DEF Past, TypeOK, DataOK
  <1>4. CASE Volumes
    BY <1>4, <1>t DEF Volumes, PVCRemoved, Past, Absent
  <1>5. CASE BackupSucceeds
    BY <1>5, <1>t DEF BackupSucceeds, Past
  <1>6. CASE BackupFails
    <2>1. PICK copied \in SUBSET Readable : \E torn \in SUBSET (Readable \ copied) :
             base' = [db \in DB |-> IF db \in copied THEN disk[db]
                                   ELSE IF db \in torn THEN Partial ELSE base[db]]
      BY <1>6 DEF BackupFails
    <2>2. UNCHANGED <<disk, used>>
      BY <1>6 DEF BackupFails
    <2> QED BY <1>t, <2>1, <2>2 DEF Past, Partial
  <1>7. CASE UserCreates \/ UserEdits \/ Abort
    <2>1. UNCHANGED <<disk, base>> /\ used'.writes = used.writes
      BY <1>7 DEF UserCreates, UserEdits, Abort, data, TypeOK, DataOK
    <2> QED BY <1>k, <2>1
  <1>8. CASE Controller /\ ~ReconcileDatabase
    <2>1. UNCHANGED <<disk, base, used>>
      BY <1>8
      DEF Controller, Reconcile, AddFinalizer, ReconcileMajorUpgrade, StartMajorUpgrade,
          BackupDatabases, ScaleDown, BackupDatabasesOffline, RecordBackedUp,
          ReleaseStorage, DeletePrimary, DeleteShadow, DeletePVC, AwaitRelease,
          RecordReleased, ReconcilePVCs, ApplyStatefulSet, ExecFails, RecordDatabases,
          PrepareDirectory, ApplyCronJob, FinishMajorUpgrade, SetPhase, SetAvailable,
          ClearError, SetProgress, SetError, Report, ReportDeleting, ReportDeletion,
          ReportFinalizer, RemoveFinalizer, data
    <2> QED BY <1>k, <2>1
  <1>9. CASE \/ CacheCatchesUp \/ StatementFails \/ PodLife \/ StatusCatchesUp
             \/ BackupStarts \/ Garbage \/ UserDeletes \/ UNCHANGED vars
    <2>1. UNCHANGED <<disk, base, used>>
      BY <1>9
      DEF CacheCatchesUp, StatementFails, PodLife, PodCreated, PodReady, PodStopped,
          PodGone, SetPod, StatusCatchesUp, BackupStarts, Garbage, CollectStatefulSet,
          CollectBackupPod, CollectCronJob, UserDeletes, vars, data
    <2> QED BY <1>k, <2>1
  <1> QED BY <1>1, <1>2, <1>3, <1>4, <1>5, <1>6, <1>7, <1>8, <1>9
      DEF Next, Backups, Users

(* Every step keeps it.                                                     *)
LEMMA CompleteNext ==
    ASSUME TypeOK, QuietInv, Complete, [Next]_vars
    PROVE  Complete'
  <1>o. obj \in Instances
    BY DEF TypeOK, ControlOK
  <1>k. ASSUME pc' \notin {"schedule", "cronjob", "finish"} PROVE Complete'
    BY <1>k DEF Complete
  <1>s. ASSUME UNCHANGED <<pc, obj, ready>> PROVE Complete'
    BY <1>s DEF Complete
  <1>1. CASE ApplyStatefulSet
    BY <1>1, <1>o DEF ApplyStatefulSet, Complete, Instances
  <1>2. CASE RecordDatabases
    <2>1. [obj EXCEPT !.databases = obj.dbs].databases = obj.dbs
          /\ [obj EXCEPT !.databases = obj.dbs].dbs = obj.dbs
      BY <1>o DEF Instances
    <2>2. \/ pc' = "schedule" /\ obj' = [obj EXCEPT !.databases = obj.dbs]
          \/ pc' = "idle"
      BY <1>2 DEF RecordDatabases, Update, Requeue, Return
    <2> QED BY <2>1, <2>2 DEF Complete
  <1>3. CASE PrepareDirectory \/ ApplyCronJob
    BY <1>3
    DEF PrepareDirectory, ApplyCronJob, Goto, Fail, Requeue, Return, Complete
  <1>4. CASE ReconcileDatabase \/ StatementFails
    <2>1. pc' = "databases"
      BY <1>4 DEF ReconcileDatabase, StatementFails
    <2> QED BY <1>k, <2>1
  <1>5. CASE Controller /\ ~ApplyStatefulSet /\ ~RecordDatabases /\ ~PrepareDirectory
             /\ ~ApplyCronJob /\ ~ReconcileDatabase /\ ~ReconcileMajorUpgrade
             /\ ~RecordBackedUp /\ ~Reconcile
    <2>1. pc' \notin {"schedule", "cronjob", "finish"}
      BY <1>5
      DEF Controller, AddFinalizer, StartMajorUpgrade,
          BackupDatabases, ScaleDown, BackupDatabasesOffline,
          ReleaseStorage, DeletePrimary, DeleteShadow, DeletePVC, AwaitRelease,
          RecordReleased, ReconcilePVCs, ExecFails,
          FinishMajorUpgrade, SetPhase, SetAvailable,
          ClearError, SetProgress, SetError, Report, ReportDeleting, ReportDeletion,
          ReportFinalizer, RemoveFinalizer, Update, Set, Goto, Fail, Requeue, Return,
          AfterBackup, AfterRelease
    <2> QED BY <1>k, <2>1
  <1>6. CASE ReconcileMajorUpgrade \/ RecordBackedUp \/ Reconcile
    <2>1. ASSUME NEW o, NEW run
          PROVE  UpgradeStep(o, run) \notin {"schedule", "cronjob", "finish", "idle"}
      BY DEF UpgradeStep
    <2>2. CASE ReconcileMajorUpgrade
      <3>1. pc' \notin {"schedule", "cronjob", "finish"}
        BY <2>1, <2>2 DEF ReconcileMajorUpgrade, Goto
      <3> QED BY <1>k, <3>1
    <2>3. CASE RecordBackedUp
      <3>1. pc' \notin {"schedule", "cronjob", "finish"}
        BY <2>1, <2>3 DEF RecordBackedUp, Update, Requeue, Return
      <3> QED BY <1>k, <3>1
    <2>4. CASE Reconcile
      <3>1. pc' \in {"idle", "deletion", "upgrade", "addFinalizer"}
        BY <2>4 DEF Reconcile, local
      <3> QED BY <1>k, <3>1
    <2> QED BY <1>6, <2>2, <2>3, <2>4
  <1>7. CASE Abort \/ RestoreFails
    <2>1. pc' \in {"idle", "failed"}
      BY <1>7 DEF Abort, RestoreFails, Fail, Requeue, Return, Goto
    <2> QED BY <1>k, <2>1
  <1>8. CASE \/ CacheCatchesUp \/ PodLife \/ StatusCatchesUp \/ Volumes \/ Backups
             \/ Garbage \/ Users \/ UNCHANGED vars
    <2>1. UNCHANGED <<pc, obj, ready>>
      BY <1>8
      DEF CacheCatchesUp, PodLife, PodCreated, PodReady, PodStopped, PodGone, SetPod,
          StatusCatchesUp, Volumes, PVCRemoved, Backups, BackupStarts, BackupSucceeds,
          BackupFails, Garbage, CollectStatefulSet, CollectBackupPod, CollectCronJob,
          Users, UserCreates, UserEdits, UserDeletes, ClientWrites, vars, local
    <2> QED BY <1>s, <2>1
  <1> QED BY <1>1, <1>2, <1>3, <1>4, <1>5, <1>6, <1>7, <1>8 DEF Next
-----------------------------------------------------------------------------
(* What DataCustody sees of a state.                                        *)
LEMMA DoingIs ==
    ASSUME TypeOK
    PROVE  /\ inst.life = "absent" => Doing = "Gone"
           /\ inst.life = "deleting" => Doing = "Deleting"
           /\ inst.life = "live" /\ inst.stage = "None" => Doing = "Serving"
           /\ inst.life = "live" /\ inst.stage # "None" => Doing = inst.stage
  BY DEF Doing, TypeOK, ControlOK, Instances

(* The same for the next state.                                             *)
LEMMA DoingIsNext ==
    ASSUME TypeOK'
    PROVE  /\ inst'.life = "absent" => Doing' = "Gone"
           /\ inst'.life = "deleting" => Doing' = "Deleting"
           /\ inst'.life = "live" /\ inst'.stage = "None" => Doing' = "Serving"
           /\ inst'.life = "live" /\ inst'.stage # "None" => Doing' = inst'.stage
  BY DEF Doing, TypeOK, ControlOK, Instances

(* A step that moves no file and changes no stage is none of its steps.     *)
Still ==
    /\ inst'.life = inst.life /\ inst'.stage = inst.stage /\ inst'.dbs = inst.dbs
    /\ Owed' = Owed /\ Served' = Served /\ Saved' = Saved

(* It is a stutter of DataCustody.                                          *)
LEMMA StillStutters ==
    ASSUME Still
    PROVE  UNCHANGED Custody!custody
  BY DEF Still, Doing, Custody!custody, Custody!files

(* Files nobody touched owe, serve and save the same databases.             *)
LEMMA FilesStill ==
    ASSUME UNCHANGED <<disk, base, due>>, pvc'["primary"] = pvc["primary"]
    PROVE  Owed' = Owed /\ Served' = Served /\ Saved' = Saved
  BY DEF Owed, Served, Saved

(* A write of a copy that is alike is not seen.                             *)
LEMMA UpdateStill ==
    ASSUME NEW new, NEW next, Update(new, next) \/ Set(new, next),
           new.life = obj.life, new.stage = obj.stage, new.dbs = obj.dbs
    PROVE  inst'.life = inst.life /\ inst'.stage = inst.stage /\ inst'.dbs = inst.dbs
  BY DEF Update, Set

CNext == [Custody!Next]_(Custody!custody)

(* Every step of the reconciler is a step of DataCustody, or not seen.      *)
LEMMA CustodyStep ==
    ASSUME Careful, CustodyInv, TypeOK', [Next]_vars
    PROVE  CNext
  <1> USE DEF Unheld
  <1>o. /\ obj \in Instances /\ inst \in Instances
        /\ World /\ Stands(pc, obj) /\ TypeOK /\ QuietInv
    BY DEF CustodyInv, DataInv, TypeOK, ControlOK
  <1>c. pc \notin Unheld => Copied /\ Agrees(obj)
    BY <1>o DEF Stands, QuietInv
  <1>f. UNCHANGED <<cluster, data, due>> => Owed' = Owed /\ Served' = Served /\ Saved' = Saved
    BY FilesStill DEF cluster, data
  <1>s. Still => CNext
    BY StillStutters DEF CNext
  <1>1. CASE Reconcile \/ ReconcileMajorUpgrade \/ AwaitRelease \/ ExecFails
    BY <1>1, <1>f, <1>s DEF Reconcile, ReconcileMajorUpgrade, AwaitRelease, ExecFails, Still
  <1>2. CASE AddFinalizer
    <2> DEFINE new == [obj EXCEPT !.finalizer = TRUE]
    <2>1. new.life = obj.life /\ new.stage = obj.stage /\ new.dbs = obj.dbs
      BY <1>o DEF Instances
    <2> QED BY <1>2, <1>f, <1>s, <2>1, UpdateStill DEF AddFinalizer, Still
  <1>3. CASE StartMajorUpgrade
    <2> DEFINE new == [obj EXCEPT !.stage = "BackingUp", !.from = running,
                                  !.to = obj.version, !.phase = "Upgrading"]
    <2>1. CASE UNCHANGED inst
      BY <1>3, <1>f, <1>s, <2>1 DEF StartMajorUpgrade, Still
    <2>2. CASE inst' # inst
      <3>1. obj = inst /\ inst' = new
        BY <1>3, <2>2 DEF StartMajorUpgrade, Update
      <3>2. obj.life = "live" /\ obj.stage = "None"
        BY <1>3, <1>o
        DEF StartMajorUpgrade, QuietInv, At, LiveSteps, PastBackup, Stands, Upgrades
      <3>3. inst'.life = "live" /\ inst'.stage = "BackingUp" /\ inst'.dbs = inst.dbs
        BY <1>o, <3>1, <3>2 DEF Instances
      <3>4. Doing = "Serving" /\ Doing' = "BackingUp"
        BY <1>o, <3>1, <3>2, <3>3, DoingIs, DoingIsNext
      <3>5. Custody!Advance
        BY <1>3, <1>f, <3>3, <3>4
        DEF StartMajorUpgrade, Custody!Advance, Custody!Allowed, Custody!files
      <3> QED BY <3>5 DEF CNext, Custody!Next
    <2> QED BY <2>1, <2>2
  <1>4. CASE BackupDatabases
    <2> DEFINE stop == [obj EXCEPT !.message = "stopping"]
               back == [obj EXCEPT !.message = "backingUp"]
    <2>1. /\ stop.life = obj.life /\ stop.stage = obj.stage /\ stop.dbs = obj.dbs
          /\ back.life = obj.life /\ back.stage = obj.stage /\ back.dbs = obj.dbs
      BY <1>o DEF Instances
    <2>2. UNCHANGED inst \/ Set(stop, "scale") \/ Set(stop, "waiting") \/ Set(back, "offline")
      BY <1>4, <1>o DEF BackupDatabases, TypeOK, ClusterOK, StatefulSets
    <2>3. inst'.life = inst.life /\ inst'.stage = inst.stage /\ inst'.dbs = inst.dbs
      BY <2>1, <2>2, UpdateStill
    <2> QED BY <1>4, <1>f, <1>s, <2>3 DEF BackupDatabases, Still
  <1>5. CASE ScaleDown \/ BackupDatabasesOffline \/ ApplyStatefulSet \/ PrepareDirectory
             \/ ApplyCronJob
    <2>1. UNCHANGED <<inst, disk, base, due, pvc>>
      BY <1>5
      DEF ScaleDown, BackupDatabasesOffline, ApplyStatefulSet, PrepareDirectory,
          ApplyCronJob, data
    <2> QED BY <1>s, <2>1, FilesStill DEF Still
  <1>6. CASE RecordBackedUp
    <2> DEFINE new == [obj EXCEPT !.databases = {}, !.stage = "Releasing"]
    <2>1. CASE obj # inst
      BY <1>6, <1>f, <1>s, <2>1 DEF RecordBackedUp, Update, Still
    <2>2. CASE obj = inst
      <3>1. inst' = new
        BY <1>6, <2>2 DEF RecordBackedUp, Update
      <3>2. obj.life = "live" /\ obj.stage = "BackingUp" /\ AllSaved
        BY <1>6, <1>o
        DEF RecordBackedUp, QuietInv, At, LiveSteps, PastBackup, BackupSteps, Stands, Upgrades
      <3>3. inst'.life = "live" /\ inst'.stage = "Releasing" /\ inst'.dbs = inst.dbs
        BY <1>o, <2>2, <3>1, <3>2 DEF Instances
      <3>4. Doing = "BackingUp" /\ Doing' = "Releasing"
        BY <1>o, <2>2, <3>2, <3>3, DoingIs, DoingIsNext
      <3>5. Owed \subseteq Saved
        BY <3>2 DEF AllSaved, Owed, Saved, Due
      <3>6. Custody!Advance
        BY <1>6, <1>f, <3>3, <3>4, <3>5
        DEF RecordBackedUp, Custody!Advance, Custody!Allowed, Custody!files
      <3> QED BY <3>6 DEF CNext, Custody!Next
    <2> QED BY <2>1, <2>2
  <1>7. CASE ReleaseStorage \/ SetPhase \/ SetAvailable \/ ClearError
             \/ ReportDeleting \/ ReportDeletion \/ ReportFinalizer
    <2>1. ASSUME NEW new, NEW next, Set(new, next), UNCHANGED <<cluster, data, due>>,
                 new.life = obj.life, new.stage = obj.stage, new.dbs = obj.dbs
          PROVE  CNext
      BY <1>f, <1>s, <2>1, UpdateStill DEF Still
    <2>2. UNCHANGED <<cluster, data, due>>
      BY <1>7
      DEF ReleaseStorage, SetPhase, SetAvailable, ClearError, ReportDeleting,
          ReportDeletion, ReportFinalizer
    <2>3. CASE ReleaseStorage
      <3> DEFINE new == [obj EXCEPT !.message = "releasing"]
      <3>1. new.life = obj.life /\ new.stage = obj.stage /\ new.dbs = obj.dbs
        BY <1>o DEF Instances
      <3>2. Set(new, "deletePrimary")
        BY <2>3 DEF ReleaseStorage
      <3> QED BY <2>1, <2>2, <3>1, <3>2
    <2>4. CASE SetPhase
      <3> DEFINE new == [obj EXCEPT !.phase =
                          IF Done THEN "Ready"
                          ELSE IF obj.stage # "None" THEN "Upgrading"
                          ELSE "Provisioning"]
      <3>1. new.life = obj.life /\ new.stage = obj.stage /\ new.dbs = obj.dbs
        BY <1>o DEF Instances
      <3>2. Set(new, "available")
        BY <2>4 DEF SetPhase
      <3> QED BY <2>1, <2>2, <3>1, <3>2
    <2>5. CASE SetAvailable
      <3> DEFINE new == [obj EXCEPT !.available = Done]
      <3>1. new.life = obj.life /\ new.stage = obj.stage /\ new.dbs = obj.dbs
        BY <1>o DEF Instances
      <3>2. Set(new, "summary")
        BY <2>5 DEF SetAvailable
      <3> QED BY <2>1, <2>2, <3>1, <3>2
    <2>6. CASE ClearError
      <3> DEFINE new == [obj EXCEPT !.message = IF obj.available THEN "ready" ELSE "notReady"]
      <3>1. new.life = obj.life /\ new.stage = obj.stage /\ new.dbs = obj.dbs
        BY <1>o DEF Instances
      <3>2. Set(new, "idle")
        BY <2>6 DEF ClearError
      <3> QED BY <2>1, <2>2, <3>1, <3>2
    <2>7. CASE ReportDeleting
      <3> DEFINE new == [obj EXCEPT !.phase = "Deleting"]
      <3>1. new.life = obj.life /\ new.stage = obj.stage /\ new.dbs = obj.dbs
        BY <1>o DEF Instances
      <3>2. Set(new, "deletionMessage")
        BY <2>7 DEF ReportDeleting
      <3> QED BY <2>1, <2>2, <3>1, <3>2
    <2>8. CASE ReportDeletion
      <3> DEFINE new == [obj EXCEPT !.message = "deleting"]
      <3>1. new.life = obj.life /\ new.stage = obj.stage /\ new.dbs = obj.dbs
        BY <1>o DEF Instances
      <3>2. Set(new, 
                IF WantsBackup(obj) /\ ~BackedUp(obj) THEN "backup" ELSE "release")
        BY <2>8 DEF ReportDeletion
      <3> QED BY <2>1, <2>2, <3>1, <3>2
    <2>9. CASE ReportFinalizer
      <3> DEFINE new == [obj EXCEPT !.message = "finalizer"]
      <3>1. new.life = obj.life /\ new.stage = obj.stage /\ new.dbs = obj.dbs
        BY <1>o DEF Instances
      <3>2. Set(new, "removeFinalizer")
        BY <2>9 DEF ReportFinalizer
      <3> QED BY <2>1, <2>2, <3>1, <3>2
    <2> QED BY <1>7, <2>3, <2>4, <2>5, <2>6, <2>7, <2>8, <2>9
  <1>8. CASE DeletePrimary
    <2>1. /\ UNCHANGED <<inst, obj, disk, base>> /\ pc = "deletePrimary"
          /\ Copied /\ Agrees(obj) /\ Deletes(pc, obj) /\ inst.life # "absent"
      BY <1>8, <1>o DEF DeletePrimary, DeletePVC, data, QuietInv, Stands, Goto, Copied
    <2>2. Doing' = Doing /\ Served' = {}
      BY <1>8, <1>o, <2>1
      DEF DeletePrimary, DeletePVC, TypeOK, ClusterOK, Vols, Served, Doing
    <2>3. CASE obj.life = "deleting" /\ ~WantsBackup(obj)
      <3>1. Doing = "Deleting"
        BY <1>o, <2>1, <2>3, DoingIs DEF Copied
      <3>2. Owed' = {} /\ Saved' = {}
        BY <1>8, <2>3 DEF DeletePrimary, Owed, Saved
      <3>3. Custody!Discard
        BY <2>1, <2>2, <3>1, <3>2 DEF Custody!Discard, Custody!Nothing
      <3> QED BY <3>3 DEF CNext, Custody!Next
    <2>4. CASE ~(obj.life = "deleting" /\ ~WantsBackup(obj))
      <3>1. AllSaved /\ Doing \in {"Deleting", "Releasing"}
        <4>1. CASE obj.life = "deleting"
          BY <1>o, <2>1, <2>4, <4>1, DoingIs DEF Deletes, Copied
        <4>2. CASE obj.life # "deleting"
          <5>1. inst.stage = "Releasing"
            BY <2>1, <4>2 DEF Deletes, Copied, ReleaseSteps
          <5>2. AllSaved
            BY <1>o, <5>1 DEF World, Staged, Early
          <5> QED BY <1>o, <2>1, <5>1, <5>2, DoingIs DEF Instances
        <4> QED BY <4>1, <4>2
      <3>2. Owed' = Owed /\ Saved' = Saved /\ Owed \subseteq Saved
        BY <1>8, <2>1, <2>4, <3>1 DEF DeletePrimary, Owed, Saved, AllSaved, Due
      <3>3. Custody!Release
        BY <2>1, <2>2, <3>1, <3>2 DEF Custody!Release
      <3> QED BY <3>3 DEF CNext, Custody!Next
    <2> QED BY <2>3, <2>4
  <1>9. CASE DeleteShadow
    <2>1. UNCHANGED <<inst, disk, base, due>> /\ pvc'["primary"] = pvc["primary"]
      BY <1>9, <1>o DEF DeleteShadow, DeletePVC, data, TypeOK, ClusterOK, Vols
    <2> QED BY <1>s, <2>1, FilesStill DEF Still
  <1>10. CASE RecordReleased
    <2> DEFINE new == [obj EXCEPT !.stage = "Restoring"]
    <2>1. CASE obj # inst
      BY <1>10, <1>f, <1>s, <2>1 DEF RecordReleased, Update, Still
    <2>2. CASE obj = inst
      <3>1. inst' = new
        BY <1>10, <2>2 DEF RecordReleased, Update
      <3>2. obj.life = "live" /\ obj.stage = "Releasing" /\ pvc["primary"] = "absent"
        BY <1>10, <1>o
        DEF RecordReleased, QuietInv, At, LiveSteps, PastBackup, Stands, Upgrades
      <3>3. inst'.life = "live" /\ inst'.stage = "Restoring" /\ inst'.dbs = inst.dbs
        BY <1>o, <2>2, <3>1, <3>2 DEF Instances
      <3>4. Doing = "Releasing" /\ Doing' = "Restoring" /\ Served = {}
        BY <1>o, <2>2, <3>2, <3>3, DoingIs, DoingIsNext DEF Served
      <3>5. Custody!Advance
        BY <1>10, <1>f, <3>3, <3>4
        DEF RecordReleased, Custody!Advance, Custody!Allowed, Custody!files
      <3> QED BY <3>5 DEF CNext, Custody!Next
    <2> QED BY <2>1, <2>2
  <1>11. CASE ReconcilePVCs
    <2>1. UNCHANGED <<inst, disk, base, due>>
      BY <1>11 DEF ReconcilePVCs, data
    <2>2. CASE pvc["primary"] = "absent"
      <3>1. Served = {} /\ Served' = {}
        BY <1>o, <2>1, <2>2 DEF Served, Owed, World, Volumed
      <3> QED BY <1>s, <2>1, <3>1 DEF Still, Owed, Saved
    <2>3. CASE pvc["primary"] # "absent"
      <3>1. pvc'["primary"] = pvc["primary"]
        BY <1>11, <2>3 DEF ReconcilePVCs, Vols
      <3> QED BY <1>s, <2>1, <3>1, FilesStill DEF Still
    <2> QED BY <2>2, <2>3
  <1>12. CASE ReconcileDatabase
    <2>1. /\ UNCHANGED <<inst, obj, pvc, base>> /\ pc = "databases"
          /\ Copied /\ Agrees(obj) /\ Provides(pc, obj)
      BY <1>12, <1>o
      DEF ReconcileDatabase, DropDatabase, ProvisionDatabase, cluster, QuietInv, Stands
    <2>2. /\ Held /\ inst.life # "absent" /\ inst.stage \notin {"BackingUp", "Releasing"}
          /\ todo \subseteq (obj.dbs \ inst.databases) \cup (inst.databases \ obj.dbs)
      BY <2>1 DEF Provides, AfterPVCs, Copied, Agrees
    <2>3. Doing \in {"Serving", "Restoring", "Deleting"} /\ Doing' = Doing
      BY <1>o, <2>1, <2>2, DoingIs DEF Doing, Instances, Stages
    <2>4. PICK db \in todo : DropDatabase(db) \/ ProvisionDatabase(db)
      BY <1>12 DEF ReconcileDatabase
    <2>5. db \in DB /\ disk \in [DB -> Files] /\ due \in [DB -> {Absent} \cup 0..MaxWrites]
      BY <1>o, <2>4 DEF TypeOK, ControlOK, DataOK
    <2>6. CASE DropDatabase(db)
      <3>1. due' = [due EXCEPT ![db] = Absent] /\ disk' = [disk EXCEPT ![db] = Absent]
        BY <2>6 DEF DropDatabase
      <3>2. Owed' = Owed \ {db} /\ Served' = Served \ {db} /\ Saved' = Saved \ {db}
        BY <2>1, <2>5, <3>1 DEF Owed, Served, Saved
      <3>3. Custody!Drop
        BY <2>1, <2>3, <2>5, <3>2 DEF Custody!Drop
      <3> QED BY <3>3 DEF CNext, Custody!Next
    <2>7. CASE ProvisionDatabase(db)
      <3>1. /\ db \notin inst.databases /\ due' = due
            /\ \A other \in DB \ {db} : disk'[other] = disk[other]
            /\ disk[db] # Absent => disk'[db] = disk[db]
        BY <2>2, <2>4, <2>5, <2>7 DEF ProvisionDatabase, Removed
      <3>2. Due(db) => base[db] = due[db]
        BY <1>o, <2>5, <3>1 DEF World, Unlisted
      <3>3. Owed' = Owed /\ Saved' = Saved
        BY <2>1, <3>1 DEF Owed, Saved
      <3>4. Served \subseteq Served' /\ Served' \subseteq Served \cup Saved
        BY <2>1, <2>5, <3>1, <3>2 DEF Served, Saved, Owed, Due
      <3>5. Custody!Restore
        BY <2>1, <2>3, <3>3, <3>4 DEF Custody!Restore
      <3> QED BY <3>5 DEF CNext, Custody!Next
    <2> QED BY <2>4, <2>6, <2>7
  <1>13. CASE RecordDatabases
    <2> DEFINE new == [obj EXCEPT !.databases = obj.dbs]
    <2>1. new.life = obj.life /\ new.stage = obj.stage /\ new.dbs = obj.dbs
      BY <1>o DEF Instances
    <2> QED BY <1>13, <1>f, <1>s, <2>1, UpdateStill DEF RecordDatabases, Still
  <1>14. CASE FinishMajorUpgrade
    <2> DEFINE over == [obj EXCEPT !.stage = "None", !.from = NoVersion, !.to = NoVersion]
    <2>1. /\ pc = "finish" /\ Copied /\ Agrees(obj) /\ Provides(pc, obj)
          /\ obj.life = "live" /\ UNCHANGED <<cluster, data, due>>
      BY <1>14, <1>o
      DEF FinishMajorUpgrade, QuietInv, At, LiveSteps, PastBackup, Stands
    <2>2. CASE UNCHANGED inst
      BY <1>f, <1>s, <2>1, <2>2 DEF Still
    <2>3. CASE inst' # inst
      <3>1. obj = inst /\ inst' = over /\ Done
        BY <1>14, <2>3 DEF FinishMajorUpgrade, Set, Update
      <3>2. inst'.life = "live" /\ inst'.stage = "None" /\ inst'.dbs = inst.dbs
        BY <1>o, <2>1, <3>1 DEF Instances
      <3>3. inst.life = "live" /\ inst.stage \in {"None", "Restoring"} /\ Held
        BY <1>o, <2>1, <3>1 DEF Provides, AfterPVCs, Instances, Stages
      <3>4. CASE inst.stage = "None"
        BY <1>f, <1>s, <2>1, <3>2, <3>3, <3>4 DEF Still
      <3>5. CASE inst.stage = "Restoring"
        <4>1. inst.databases = inst.dbs
          BY <2>1, <3>1 DEF CustodyInv, Complete, Done
        <4>2. Owed \cap inst.dbs \subseteq Served
          BY <1>o, <3>3, <4>1 DEF World, Listed, Owed, Served, Due, Held
        <4>3. Doing = "Restoring" /\ Doing' = "Serving"
          BY <1>o, <3>2, <3>3, <3>5, DoingIs, DoingIsNext
        <4>4. Custody!Advance
          BY <1>f, <2>1, <3>2, <4>2, <4>3 DEF Custody!Advance, Custody!Allowed, Custody!files
        <4> QED BY <4>4 DEF CNext, Custody!Next
      <3> QED BY <3>3, <3>4, <3>5
    <2> QED BY <2>2, <2>3
  <1>15. CASE SetProgress \/ SetError
    <2>1. inst'.life = inst.life /\ inst'.stage = inst.stage /\ inst'.dbs = inst.dbs
      BY <1>15, <1>o DEF SetProgress, SetError, Report, Instances
    <2> QED BY <1>15, <1>f, <1>s, <2>1 DEF SetProgress, SetError, Report, Still
  <1>16. CASE RemoveFinalizer
    <2>1. /\ UNCHANGED <<disk, base, due, pvc>> /\ pc = "removeFinalizer"
          /\ obj.life = "deleting" /\ Deletes(pc, obj) /\ Copied
      BY <1>16, <1>o DEF RemoveFinalizer, data, QuietInv, At, DeletionSteps, Stands
    <2>2. CASE obj # inst
      BY <1>16, <1>s, <2>1, <2>2, FilesStill DEF RemoveFinalizer, Update, Still
    <2>3. CASE obj = inst
      <3>1. inst' = NoInstance
        BY <1>16, <2>3 DEF RemoveFinalizer, Update
      <3>2. inst'.life = "absent" /\ inst'.dbs = {}
        BY <3>1 DEF NoInstance
      <3>3. Doing = "Deleting" /\ Doing' = "Gone"
        BY <1>o, <2>1, <2>3, <3>2, DoingIs, DoingIsNext
      <3>4. Owed \subseteq Saved /\ Served = {}
        BY <2>1 DEF Deletes, AllSaved, Due, Held, Owed, Saved, Served
      <3>5. Custody!Vanish
        BY <2>1, <3>2, <3>3, <3>4, FilesStill DEF Custody!Vanish, Custody!files
      <3> QED BY <3>5 DEF CNext, Custody!Next
    <2> QED BY <2>2, <2>3
  <1>17. CASE Abort \/ Garbage \/ CacheCatchesUp \/ StatusCatchesUp \/ BackupStarts
              \/ UNCHANGED vars
    <2>1. UNCHANGED <<inst, disk, base, due, pvc>>
      BY <1>17
      DEF Abort, Garbage, CollectStatefulSet, CollectBackupPod, CollectCronJob,
          CacheCatchesUp, StatusCatchesUp, BackupStarts, cluster, data, vars
    <2> QED BY <1>s, <2>1, FilesStill DEF Still
  <1>18. CASE PodLife
    <2>1. UNCHANGED <<inst, disk, base, due, pvc>>
      BY <1>18 DEF PodLife, PodCreated, PodReady, PodStopped, PodGone, SetPod
    <2> QED BY <1>s, <2>1, FilesStill DEF Still
  <1>19. CASE RestoreFails \/ StatementFails
    BY <1>19 DEF RestoreFails, StatementFails, Careful
  <1>20. CASE Volumes
    <2>1. PICK v \in Vols : PVCRemoved(v)
      BY <1>20 DEF Volumes
    <2>2. UNCHANGED <<inst, base, due>>
      BY <2>1 DEF PVCRemoved
    <2>3. CASE v = "primary"
      <3>1. pvc["primary"] = "terminating" /\ pvc'["primary"] = "absent"
        BY <1>o, <2>1, <2>3 DEF PVCRemoved, TypeOK, ClusterOK
      <3>2. Served = {} /\ Served' = {}
        BY <3>1 DEF Served
      <3> QED BY <1>s, <2>2, <3>2 DEF Still, Owed, Saved
    <2>4. CASE v # "primary"
      <3>1. pvc'["primary"] = pvc["primary"] /\ UNCHANGED disk
        BY <1>o, <2>1, <2>4 DEF PVCRemoved, TypeOK, ClusterOK, Vols
      <3> QED BY <1>s, <2>2, <3>1, FilesStill DEF Still
    <2> QED BY <2>3, <2>4
  <1>21. CASE BackupSucceeds \/ BackupFails
    <2>1. /\ UNCHANGED <<inst, pvc, disk, due>> /\ bk.st = "running"
          /\ NoneDue \/ Held
      BY <1>21, <1>o DEF BackupSucceeds, BackupFails, World, Copying
    <2>2. Owed' = Owed /\ Served' = Served /\ Doing' = Doing
      BY <2>1 DEF Owed, Served, Doing
    <2>3. CASE NoneDue
      <3>1. Saved = {} /\ Saved' = {}
        BY <2>1, <2>3 DEF NoneDue, Due, Saved, Owed
      <3> QED BY <1>s, <2>1, <2>2, <3>1 DEF Still
    <2>4. CASE Held
      <3>1. inst.life # "absent"
        BY <1>o, <2>4 DEF World, Volumed
      <3>2. bk.dbs = inst.databases
        BY <1>o, <2>1, <3>1 DEF World, Copying
      <3>3. \A db \in DB : db \notin inst.databases => base'[db] = base[db]
        <4>1. CASE BackupSucceeds
          BY <3>2, <4>1 DEF BackupSucceeds
        <4>2. CASE BackupFails
          <5>1. PICK copied \in SUBSET Readable : \E torn \in SUBSET (Readable \ copied) :
                   base' = [db \in DB |-> IF db \in copied THEN disk[db]
                                          ELSE IF db \in torn THEN Partial ELSE base[db]]
            BY <4>2 DEF BackupFails
          <5>2. Readable \subseteq inst.databases
            BY <3>2 DEF Readable
          <5> QED BY <5>1, <5>2
        <4> QED BY <1>21, <4>1, <4>2
      <3>4. Owed \cap inst.databases \subseteq Served
        BY <1>o, <2>4 DEF World, Listed, Owed, Served, Due, Held
      <3>5. /\ Saved' \subseteq Owed
            /\ Saved' \ Saved \subseteq Served /\ Saved \ Saved' \subseteq Served
        BY <2>1, <3>3, <3>4 DEF Saved, Owed
      <3>6. Doing \in {"BackingUp", "Deleting"}
        BY <1>o, <2>1, <3>1, DoingIs DEF QuietInv, Quiet, Instances
      <3>7. Custody!BackUp
        BY <2>1, <2>2, <3>5, <3>6 DEF Custody!BackUp
      <3> QED BY <3>7 DEF CNext, Custody!Next
    <2> QED BY <2>1, <2>3, <2>4
  <1>22. CASE UserCreates
    <2>1. /\ UNCHANGED <<pvc, disk, base>> /\ inst.life = "absent"
          /\ inst'.life = "live" /\ inst'.stage = "None"
          /\ due' = due \/ due' = [db \in DB |-> Absent]
      BY <1>22 DEF UserCreates, cluster, data, NoInstance
    <2>2. Doing = "Gone" /\ Doing' = "Serving"
      BY <1>o, <2>1, DoingIs, DoingIsNext
    <2>3. inst'.dbs \subseteq DB
      BY DEF TypeOK, ControlOK, Instances
    <2>4. Custody!Nothing \/ (Owed' = Owed /\ Served' = Served /\ Saved' = Saved)
      BY <2>1 DEF Custody!Nothing, Owed, Served, Saved
    <2>5. Custody!Create
      BY <2>2, <2>3, <2>4 DEF Custody!Create, Custody!files
    <2> QED BY <2>5 DEF CNext, Custody!Next
  <1>23. CASE UserEdits
    <2>1. UNCHANGED <<pvc, disk, base, due>> /\ inst.life = "live"
      BY <1>23 DEF UserEdits, cluster, data
    <2>2. PICK kind \in EditKinds : inst' \in Edited(kind)
      BY <1>23, ConstantsAssumption DEF UserEdits
    <2>3. inst'.life = inst.life /\ inst'.stage = inst.stage
      BY <1>o, <2>2 DEF Edited, Instances, EditKinds
    <2>4. Doing' = Doing /\ Doing \notin {"Gone", "Deleting"}
      BY <1>o, <2>1, <2>3, DoingIs DEF Doing, Instances, Stages
    <2>5. inst'.dbs \subseteq DB
      BY DEF TypeOK, ControlOK, Instances
    <2>6. Custody!Ask
      BY <2>1, <2>4, <2>5, FilesStill DEF Custody!Ask, Custody!files
    <2> QED BY <2>6 DEF CNext, Custody!Next
  <1>24. CASE UserDeletes
    <2>1. UNCHANGED <<pvc, disk, base, due>> /\ inst.life = "live"
      BY <1>24 DEF UserDeletes, cluster, data
    <2>2. CASE inst.finalizer
      <3>1. inst'.life = "deleting" /\ inst'.dbs = inst.dbs
        BY <1>24, <1>o, <2>2 DEF UserDeletes, Instances
      <3>2. Doing # "Gone" /\ Doing' = "Deleting"
        BY <1>o, <2>1, <3>1, DoingIs, DoingIsNext DEF Instances, Stages
      <3>3. Custody!Advance
        BY <2>1, <3>1, <3>2, FilesStill
        DEF Custody!Advance, Custody!Allowed, Custody!files
      <3> QED BY <3>3 DEF CNext, Custody!Next
    <2>3. CASE ~inst.finalizer
      <3>1. inst'.life = "absent" /\ inst'.dbs = {}
        BY <1>24, <2>3 DEF UserDeletes, NoInstance
      <3>2. inst.databases = {} /\ inst.stage = "None" /\ ~Held
        BY <1>o, <2>3 DEF World, Volumed
      <3>3. Doing = "Serving" /\ Doing' = "Gone"
        BY <1>o, <2>1, <3>1, <3>2, DoingIs, DoingIsNext
      <3>4. Owed \subseteq Saved /\ Served = {}
        BY <1>o, <3>2 DEF World, Unlisted, Due, Held, Owed, Saved, Served
      <3>5. Custody!Vanish
        BY <2>1, <3>1, <3>3, <3>4, FilesStill DEF Custody!Vanish, Custody!files
      <3> QED BY <3>5 DEF CNext, Custody!Next
    <2> QED BY <2>2, <2>3
  <1>25. CASE ClientWrites
    <2>1. UNCHANGED <<inst, pvc, base>> /\ pod.st = "ready" /\ ~Discarded
      BY <1>25 DEF ClientWrites, cluster
    <2>2. PICK db \in DB : /\ db \in inst.databases /\ inst.stage # "Restoring"
                           /\ disk' = [disk EXCEPT ![db] = used.writes + 1]
                           /\ due' = [due EXCEPT ![db] = used.writes + 1]
      BY <1>25 DEF ClientWrites, Announced, Careful
    <2>3. /\ inst.stage \in Early /\ ~ServerDown /\ inst.databases # {}
          /\ inst.life # "absent"
      BY <1>o, <2>1, <2>2 DEF World, Staged, Volumed, Early, ServerDown, Instances, Stages
    <2>4. Held
      BY <1>o, <2>1, <2>3 DEF World, Volumed, Released, Discarded, Instances
    <2>5. /\ disk'[db] = used.writes + 1 /\ due'[db] = used.writes + 1
          /\ \A other \in DB \ {db} : disk'[other] = disk[other] /\ due'[other] = due[other]
      BY <1>o, <2>2 DEF TypeOK, DataOK
    <2>6. /\ used.writes + 1 # Absent /\ base[db] # used.writes + 1
      BY <1>o, <2>2, WritesType DEF CustodyInv, Past, Absent
    <2>7. /\ Owed' = Owed \cup {db} /\ Served' = Served \cup {db}
          /\ Saved' = Saved \ {db}
      BY <2>1, <2>4, <2>5, <2>6 DEF Owed, Served, Saved, Held
    <2>8. Doing' = Doing /\ Doing \notin {"Gone", "Releasing"}
      BY <1>o, <2>1, <2>3, DoingIs DEF Doing, Instances, Early
    <2>9. Custody!Write
      BY <2>1, <2>7, <2>8 DEF Custody!Write
    <2> QED BY <2>9 DEF CNext, Custody!Next
  <1> QED
    BY <1>1, <1>2, <1>3, <1>4, <1>5, <1>6, <1>7, <1>8, <1>9, <1>10,
       <1>11, <1>12, <1>13, <1>14, <1>15, <1>16, <1>17, <1>18, <1>19, <1>20,
       <1>21, <1>22, <1>23, <1>24, <1>25
    DEF Next, Controller, Backups, Users

(***************************************************************************)
(* The reconciler keeps the custody DataCustody promises, for any           *)
(* databases, versions, edits and bounds and whatever fails in between, as  *)
(* long as nothing happens that Careful excludes (reconcileMajorUpgrade,    *)
(* reconcileDeletion, reconcileDatabases).                                  *)
(***************************************************************************)
THEOREM ImplementsCustody ==
    ASSUME Careful
    PROVE  Spec => KeepsCustody
  <1>1. Init => CustodyInv
    <2>1. Init => DataInv
      BY TypeInit, QuietInit, DataInit DEF DataInv
    <2>2. Init => Past
      BY ConstantsAssumption DEF Init, Past, Absent
    <2>3. Init => Complete
      BY DEF Init, Complete
    <2> QED BY <2>1, <2>2, <2>3 DEF CustodyInv
  <1>2. CustodyInv /\ [Next]_vars => CustodyInv'
    BY TypeNext, QuietNext, DataNext, PastNext, CompleteNext DEF CustodyInv, DataInv, Careful
  <1>3. Init => Custody!Init
    <2> SUFFICES ASSUME Init PROVE Custody!Init
      OBVIOUS
    <2>1. inst.life = "absent" /\ inst.dbs = {}
      BY DEF Init, NoInstance
    <2>2. Doing = "Gone"
      BY <2>1, TypeInit, DoingIs
    <2>3. Owed = {} /\ Served = {} /\ Saved = {}
      BY DEF Init, Owed, Served, Saved
    <2> QED BY <2>1, <2>2, <2>3 DEF Custody!Init
  <1>4. CustodyInv /\ [Next]_vars => CNext
    BY TypeNext, CustodyStep DEF CustodyInv, DataInv
  <1> QED BY <1>1, <1>2, <1>3, <1>4, PTL DEF Spec, KeepsCustody, Custody!Spec, CNext
=============================================================================
