--------------------------- MODULE ServerPodProofs ---------------------------
(***************************************************************************)
(* What holds of ServerPod for every set of databases, versions, passwords  *)
(* and specs, and every bound on edits, failures and restarts.              *)
(***************************************************************************)
EXTENDS ServerPod, TLAPS

(***************************************************************************)
(* Types.  A reconcile that runs has a copy of a real Instance, a version   *)
(* about to be patched is one a server reported, and a pod that exists has  *)
(* a version.                                                               *)
(***************************************************************************)
Copied  == pc # "idle" => obj \in Instances
Heard   == pc = "patch" => seen # None
Running == pod.st # "none" => pod.version # None

TypeInv == TypeOK /\ Copied /\ Heard /\ Running

(* None is not a value anything else has.                                   *)
LEMMA NoneApart ==
    /\ \A v \in Versions : v # None
    /\ \A p \in Passwords : p # None
    /\ \A g \in Generated : g # None /\ g \notin Passwords
BY PodAssumption

(* generateRandomPassword always finds a password.                          *)
LEMMA FreshExists ==
    ASSUME secret = None
    PROVE  (CHOOSE p \in Fresh : TRUE) \in Generated
<1> PICK g \in Generated : TRUE
  BY PodAssumption
<1> DEFINE Proxy(x) == IF x \in Generated THEN x ELSE g
<1>1. \A x : Proxy(x) \in Generated
  OBVIOUS
<1>2. PICK p \in Generated : p \notin {Proxy(template.hash.sha256),
                                       Proxy(pod.hash.sha256), Proxy(pod.password)}
  <2>1. Generated \ {Proxy(template.hash.sha256), Proxy(pod.hash.sha256),
                     Proxy(pod.password)} # {}
    <3> HIDE DEF Proxy
    <3> QED BY <1>1, PodAssumption
  <2> QED BY <2>1
<1>3. p \in Fresh
  BY <1>2, NoneApart DEF Fresh, InUse
<1> QED BY <1>3 DEF Fresh

(* The first states are well typed.                                         *)
LEMMA TypeInit == Init => TypeInv
<1> SUFFICES ASSUME Init PROVE TypeInv
  OBVIOUS
<1>1. PICK s \in Specs : inst = Created(s)
  BY DEF Init
<1>2. /\ s \in [version : Versions, ref : BOOLEAN, dbs : SUBSET DB]
  BY PodAssumption
<1>3. inst \in Instances
  BY <1>1, <1>2 DEF Created, Instances, Known
<1>4. pod \in Pods /\ pod.st = "none"
  BY DEF Init, NoPod, Pods, Known, Digests, NoDigest, Secrets
<1>5. used \in [edits : 0..MaxEdits, errors : 0..MaxErrors, restarts : 0..MaxRestarts]
  BY PodAssumption DEF Init
<1>6. labels \in [Owned \cup Retained -> Known] /\ seen \in Known /\ secret \in Secrets
  BY DEF Init, Known, Secrets
<1> QED
  BY <1>3, <1>4, <1>5, <1>6 DEF Init, TypeInv, TypeOK, Copied, Heard, Running

(* A status write leaves a well-typed Instance and a well-typed copy.       *)
LEMMA StatusType ==
    ASSUME TypeInv, NEW new \in Instances, NEW step, UpdateStatus(new, step)
    PROVE  /\ inst' \in Instances /\ obj' \in Instances \cup {NoInstance}
           /\ seen' \in Known /\ queued' \in BOOLEAN
           /\ pc' \in {"idle", step} /\ (pc' # "idle" => obj' \in Instances)
BY DEF TypeInv, TypeOK, UpdateStatus, Fail, Finish, Known

(* Labels stay labels.                                                      *)
LEMMA LabelType ==
    ASSUME TypeInv, NEW o \in Owned \cup Retained, NEW l \in Known, SetLabel(o, l)
    PROVE  labels' \in [Owned \cup Retained -> Known]
BY DEF TypeInv, TypeOK, SetLabel

(* A counter below its bound may be counted up.                             *)
LEMMA CountType ==
    ASSUME NEW u \in [edits : 0..MaxEdits, errors : 0..MaxErrors, restarts : 0..MaxRestarts]
    PROVE  LET U == [edits : 0..MaxEdits, errors : 0..MaxErrors, restarts : 0..MaxRestarts]
           IN  /\ u.edits < MaxEdits => [u EXCEPT !.edits = @ + 1] \in U
               /\ u.errors < MaxErrors => [u EXCEPT !.errors = @ + 1] \in U
               /\ u.restarts < MaxRestarts => [u EXCEPT !.restarts = @ + 1] \in U
<1>1. /\ MaxEdits \in Nat /\ MaxErrors \in Nat /\ MaxRestarts \in Nat
  BY PodAssumption
<1>2. \A n \in Nat : \A i \in 0..n : i < n => i + 1 \in 0..n
  OBVIOUS
<1>3. u.edits \in 0..MaxEdits /\ u.errors \in 0..MaxErrors /\ u.restarts \in 0..MaxRestarts
  OBVIOUS
<1>4. /\ u.edits < MaxEdits => u.edits + 1 \in 0..MaxEdits
      /\ u.errors < MaxErrors => u.errors + 1 \in 0..MaxErrors
      /\ u.restarts < MaxRestarts => u.restarts + 1 \in 0..MaxRestarts
  BY <1>1, <1>2, <1>3
<1> QED BY <1>3, <1>4

(* Every action keeps the types.                                            *)
LEMMA TypeNext == TypeInv /\ [Next]_vars => TypeInv'
<1> SUFFICES ASSUME TypeInv, [Next]_vars PROVE TypeInv'
  OBVIOUS
<1> USE NoneApart
<1>0. /\ inst \in Instances /\ obj \in Instances \cup {NoInstance}
      /\ pc # "idle" => obj \in Instances
      /\ secret \in Secrets /\ aliases \in SUBSET DB /\ pod \in Pods
      /\ labels \in [Owned \cup Retained -> Known]
      /\ used \in [edits : 0..MaxEdits, errors : 0..MaxErrors, restarts : 0..MaxRestarts]
      /\ queued \in BOOLEAN /\ seen \in Known
  BY DEF TypeInv, TypeOK, Copied
<1>1. CASE Reconcile
  BY <1>1 DEF Reconcile, TypeInv, TypeOK, Copied, Heard, Running
<1>2. CASE GetSecret
  <2>1. obj \in Instances /\ Synced(labels["secret"]) \in Known
    BY <1>0, <1>2 DEF GetSecret, Synced, Instances, Known, Owned, Retained
  <2>2. labels' \in [Owned \cup Retained -> Known]
    BY <1>0, <1>2, <2>1, LabelType DEF GetSecret, Owned, Retained
  <2> QED
    BY <1>0, <1>2, <2>1, <2>2
    DEF GetSecret, Goto, Fail, Finish, TypeInv, TypeOK, Copied, Heard, Running, Known
<1>3. CASE CreateSecret
  <2>1. secret' \in Secrets
    BY <1>0, <1>3, FreshExists DEF CreateSecret, Secrets
  <2>2. labels' \in [Owned \cup Retained -> Known]
    BY <1>0, <1>3, LabelType DEF CreateSecret, Owned, Retained, Instances
  <2> QED
    BY <1>0, <1>3, <2>1, <2>2
    DEF CreateSecret, Goto, Fail, Finish, TypeInv, TypeOK, Copied, Heard, Running, Known
<1>4. CASE ApplyConfigMap
  <2>1. labels' \in [Owned \cup Retained -> Known]
    BY <1>0, <1>4, LabelType DEF ApplyConfigMap, Owned, Retained, Instances
  <2> QED
    BY <1>0, <1>4, <2>1
    DEF ApplyConfigMap, Goto, TypeInv, TypeOK, Copied, Heard, Running, Instances
<1>5. CASE ApplyService
  <2>1. labels' \in [Owned \cup Retained -> Known]
    BY <1>0, <1>5, LabelType DEF ApplyService, Owned, Retained, Instances
  <2> QED
    BY <1>0, <1>5, <2>1
    DEF ApplyService, Goto, TypeInv, TypeOK, Copied, Heard, Running
<1>6. CASE ApplyPVCs
  <2>1. obj \in Instances /\ Synced(labels["backupPVC"]) \in Known
    BY <1>0, <1>6 DEF ApplyPVCs, Synced, Instances, Known, Owned, Retained
  <2>2. labels' \in [Owned \cup Retained -> Known]
    BY <1>0, <1>6, <2>1, LabelType DEF ApplyPVCs, Owned, Retained
  <2> QED
    BY <1>0, <1>6, <2>2
    DEF ApplyPVCs, Goto, TypeInv, TypeOK, Copied, Heard, Running
<1>7. CASE ApplyStatefulSet
  <2>1. labels' \in [Owned \cup Retained -> Known]
    BY <1>0, <1>7, LabelType DEF ApplyStatefulSet, Owned, Retained, Instances
  <2>2. template' \in [version : Versions, hash : Digests \ {NoDigest}] \cup {NoTemplate}
    <3>1. CASE secret = None
      BY <1>7, <3>1 DEF ApplyStatefulSet, TypeInv, TypeOK
    <3>2. CASE secret # None
      <4>1. obj.version \in Versions
        BY <1>0, <1>7 DEF ApplyStatefulSet, Instances
      <4>2. Hash(secret) \in Digests \ {NoDigest}
        BY <1>0, <3>2 DEF Hash, Digests, NoDigest
      <4> QED BY <1>7, <3>2, <4>1, <4>2 DEF ApplyStatefulSet
    <3> QED BY <3>1, <3>2
  <2>3. /\ pc' \in {"idle", "databases"} /\ inst' = inst
        /\ obj' \in Instances \cup {NoInstance} /\ (pc' # "idle" => obj' \in Instances)
        /\ seen' \in Known /\ queued' \in BOOLEAN
    BY <1>0, <1>7 DEF ApplyStatefulSet, Goto, Fail, Finish, Known
  <2> QED
    BY <1>0, <1>7, <2>1, <2>2, <2>3
    DEF ApplyStatefulSet, TypeInv, TypeOK, Copied, Heard, Running
<1>8. CASE ReconcileDatabases
  <2>1. [obj EXCEPT !.databases = obj.dbs] \in Instances
    BY <1>0, <1>8 DEF ReconcileDatabases, Instances
  <2>2. /\ inst' \in Instances /\ obj' \in Instances \cup {NoInstance}
        /\ seen' \in Known /\ queued' \in BOOLEAN
        /\ pc' \in {"idle", "version"} /\ (pc' # "idle" => obj' \in Instances)
    <3>1. CASE obj.databases = obj.dbs
      BY <1>0, <1>8, <3>1 DEF ReconcileDatabases, Goto
    <3>2. CASE obj.databases # obj.dbs /\ (secret = None \/ pod.st # "ready")
      BY <1>0, <1>8, <3>2 DEF ReconcileDatabases, Fail, Finish, Known
    <3>3. CASE obj.databases # obj.dbs /\ ~(secret = None \/ pod.st # "ready")
      BY <1>8, <3>3, <2>1, StatusType DEF ReconcileDatabases
    <3> QED BY <3>1, <3>2, <3>3
  <2> QED
    BY <1>0, <1>8, <2>2
    DEF ReconcileDatabases, TypeInv, TypeOK, Copied, Heard, Running
<1>9. CASE GetPod
  BY <1>0, <1>9
  DEF GetPod, Fail, Finish, TypeInv, TypeOK, Copied, Heard, Running, Known, Pods
<1>10. CASE ExecVersion
  BY <1>0, <1>10
  DEF ExecVersion, Fail, Finish, TypeInv, TypeOK, Copied, Heard, Running, Known, Pods
<1>11. CASE PatchPod
  BY <1>0, <1>11
  DEF PatchPod, Goto, Fail, Finish, TypeInv, TypeOK, Copied, Heard, Running, Known, Pods
<1>12. CASE RecordVersion
  <2>1. [obj EXCEPT !.detected = seen] \in Instances
    BY <1>0, <1>12 DEF RecordVersion, Instances
  <2>2. /\ inst' \in Instances /\ obj' \in Instances \cup {NoInstance}
        /\ seen' \in Known /\ queued' \in BOOLEAN /\ pc' = "idle"
    <3>1. CASE obj.detected = seen
      BY <1>0, <1>12, <3>1 DEF RecordVersion, Finish, Known
    <3>2. CASE obj.detected # seen
      BY <1>12, <3>2, <2>1, StatusType DEF RecordVersion
    <3> QED BY <3>1, <3>2
  <2> QED
    BY <1>0, <1>12, <2>2 DEF RecordVersion, TypeInv, TypeOK, Copied, Heard, Running
<1>13. CASE Abort
  <2>1. used' \in [edits : 0..MaxEdits, errors : 0..MaxErrors, restarts : 0..MaxRestarts]
    BY <1>0, <1>13, CountType DEF Abort
  <2> QED
    BY <1>0, <1>13, <2>1
    DEF Abort, Fail, Finish, TypeInv, TypeOK, Copied, Heard, Running, Known
<1>14. CASE PodCreated
  <2>1. template.version \in Versions /\ template.hash \in Digests
    BY <1>14 DEF PodCreated, TypeInv, TypeOK
  <2>2. /\ pod' = [NoPod EXCEPT !.st = "starting", !.version = template.version,
                                !.hash = template.hash]
        /\ queued' \in BOOLEAN
    BY <1>0, <1>14 DEF PodCreated, SetPod
  <2>3. pod' \in Pods /\ pod'.version # None
    BY <2>1, <2>2 DEF Pods, NoPod, Known, Secrets
  <2> QED
    BY <1>14, <2>2, <2>3
    DEF PodCreated, SetPod, local, TypeInv, TypeOK, Copied, Heard, Running
<1>15. CASE PodStarts
  <2>1. /\ pod' = [pod EXCEPT !.st = "ready", !.password = secret, !.aliases = aliases]
        /\ queued' \in BOOLEAN
    BY <1>0, <1>15 DEF PodStarts, SetPod
  <2>2. pod' \in Pods /\ pod'.version # None
    BY <1>0, <1>15, <2>1 DEF PodStarts, Pods, TypeInv, Running
  <2> QED
    BY <1>15, <2>1, <2>2
    DEF PodStarts, SetPod, local, TypeInv, TypeOK, Copied, Heard, Running
<1>16. CASE PodReplaced
  <2>1. NoPod \in Pods /\ NoPod.st = "none"
    BY DEF NoPod, Pods, Known, Digests, NoDigest, Secrets
  <2> QED
    BY <1>0, <1>16, <2>1
    DEF PodReplaced, SetPod, local, TypeInv, TypeOK, Copied, Heard, Running
<1>17. CASE PodDisturbed
  <2>1. NoPod \in Pods /\ NoPod.st = "none"
    BY DEF NoPod, Pods, Known, Digests, NoDigest, Secrets
  <2>2. PICK p \in {NoPod, [pod EXCEPT !.st = "starting"]} : SetPod(p)
    BY <1>17 DEF PodDisturbed
  <2>3. p \in Pods /\ (p.st # "none" => p.version # None)
    BY <1>0, <1>17, <2>1, <2>2 DEF PodDisturbed, Pods, TypeInv, Running
  <2>4. used' \in [edits : 0..MaxEdits, errors : 0..MaxErrors, restarts : 0..MaxRestarts]
    BY <1>0, <1>17, CountType DEF PodDisturbed
  <2> QED
    BY <1>0, <2>2, <2>3, <2>4 DEF SetPod, local, TypeInv, TypeOK, Copied, Heard, Running
<1>18. ASSUME Edit
       PROVE  used' \in [edits : 0..MaxEdits, errors : 0..MaxErrors,
                         restarts : 0..MaxRestarts]
  BY <1>0, <1>18, CountType DEF Edit
<1>19. CASE UserSetsSecret
  <2>1. secret' \in Secrets /\ labels' \in [Owned \cup Retained -> Known]
    BY <1>0, <1>19 DEF UserSetsSecret, Secrets, Known
  <2> QED
    BY <1>19, <1>18, <2>1
    DEF UserSetsSecret, local, TypeInv, TypeOK, Copied, Heard, Running
<1>20. CASE UserEdits
  <2>1. inst' \in Instances
    BY <1>0, <1>20 DEF UserEdits, Instances
  <2> QED
    BY <1>20, <1>18, <2>1
    DEF UserEdits, local, TypeInv, TypeOK, Copied, Heard, Running
<1>21. CASE UserRecreates
  <2>1. PICK v \in Versions : inst' = Created([inst EXCEPT !.version = v])
    BY <1>21 DEF UserRecreates
  <2>2. inst' \in Instances
    BY <1>0, <2>1 DEF Created, Instances, Known
  <2>3. NoPod \in Pods /\ NoPod.st = "none"
    BY DEF NoPod, Pods, Known, Digests, NoDigest, Secrets
  <2>4. labels' \in [Owned \cup Retained -> Known]
    BY <1>0, <1>21 DEF UserRecreates, Known
  <2> QED
    BY <1>21, <1>18, <2>2, <2>3, <2>4
    DEF UserRecreates, local, TypeInv, TypeOK, Copied, Heard, Running
<1>22. CASE UNCHANGED vars
  BY <1>22 DEF vars, local, TypeInv, TypeOK, Copied, Heard, Running
<1> QED
  BY <1>1, <1>2, <1>3, <1>4, <1>5, <1>6, <1>7, <1>8, <1>9, <1>10, <1>11, <1>12, <1>13,
     <1>14, <1>15, <1>16, <1>17, <1>19, <1>20, <1>21, <1>22
  DEF Next, Controller, PodLife

(* Every reachable state is well typed: in particular reconcileSysdbaSecret *)
(* and mutateStatefulSet never write an empty password or an empty hash.    *)
THEOREM TypeCorrect == Spec => []TypeOK
<1>1. Init => TypeInv
  BY TypeInit
<1>2. TypeInv /\ [Next]_vars => TypeInv'
  BY TypeNext
<1>3. TypeInv => TypeOK
  BY DEF TypeInv
<1> QED BY <1>1, <1>2, <1>3, PTL DEF Spec
-----------------------------------------------------------------------------
(***************************************************************************)
(* A password a user chose is kept.  The reconcile's copy agrees with the   *)
(* Instance on the Secret's name, and one that is about to create a Secret  *)
(* was not given a name.                                                    *)
(***************************************************************************)
Named == pc # "idle" => obj.ref = inst.ref
Asked == pc = "create" => ~obj.ref

SecretInv == TypeInv /\ Named /\ Asked

(* Only a UserRecreates, between reconciles, makes a new Instance.          *)
LEMMA SecretNext == SecretInv /\ [Next]_vars => SecretInv'
<1> SUFFICES ASSUME SecretInv, [Next]_vars PROVE SecretInv'
  OBVIOUS
<1>1. TypeInv'
  BY TypeNext DEF SecretInv
<1> USE DEF SecretInv, Named, Asked
<1>2. inst \in Instances /\ obj \in Instances \cup {NoInstance} /\ (pc # "idle" => obj \in Instances)
  BY DEF TypeInv, TypeOK, Copied
<1>3. CASE Reconcile
  BY <1>1, <1>3 DEF Reconcile
<1>4. CASE GetSecret
  BY <1>1, <1>4 DEF GetSecret, Goto, Fail, Finish
<1>5. CASE CreateSecret
  BY <1>1, <1>5 DEF CreateSecret, Goto, Fail, Finish
<1>6. CASE ApplyConfigMap \/ ApplyService \/ ApplyPVCs
  BY <1>1, <1>6 DEF ApplyConfigMap, ApplyService, ApplyPVCs, Goto
<1>7. CASE ApplyStatefulSet
  BY <1>1, <1>7 DEF ApplyStatefulSet, Goto, Fail, Finish
<1>8. CASE ReconcileDatabases
  BY <1>1, <1>2, <1>8 DEF ReconcileDatabases, Goto, UpdateStatus, Fail, Finish, Instances
<1>9. CASE GetPod \/ ExecVersion \/ PatchPod
  BY <1>1, <1>9 DEF GetPod, ExecVersion, PatchPod, Goto, Fail, Finish
<1>10. CASE RecordVersion
  BY <1>1, <1>10 DEF RecordVersion, UpdateStatus, Fail, Finish
<1>11. CASE Abort
  BY <1>1, <1>11 DEF Abort, Fail, Finish
<1>12. CASE PodCreated \/ PodStarts \/ PodReplaced \/ PodDisturbed
  BY <1>1, <1>12 DEF PodCreated, PodStarts, PodReplaced, PodDisturbed, SetPod, local
<1>13. CASE UserSetsSecret
  BY <1>1, <1>13 DEF UserSetsSecret, local
<1>14. CASE UserEdits
  BY <1>1, <1>2, <1>14 DEF UserEdits, local, Instances
<1>15. CASE UserRecreates
  BY <1>1, <1>15 DEF UserRecreates, local
<1>16. CASE UNCHANGED vars
  BY <1>1, <1>16 DEF vars, local
<1> QED
  BY <1>3, <1>4, <1>5, <1>6, <1>7, <1>8, <1>9, <1>10, <1>11, <1>12, <1>13, <1>14, <1>15,
     <1>16
  DEF Next, Controller, PodLife

(* Only CreateSecret writes a generated password.                           *)
LEMMA SecretStep ==
    ASSUME SecretInv, [Next]_vars, secret' \in Generated, secret' # secret
    PROVE  secret = None /\ ~inst.ref
<1>1. CASE CreateSecret
  BY <1>1 DEF CreateSecret, SecretInv, Named, Asked
<1>2. CASE UserSetsSecret
  BY <1>2, NoneApart DEF UserSetsSecret
<1>3. CASE [Next]_vars /\ ~CreateSecret /\ ~UserSetsSecret
  <2>1. UNCHANGED secret
    BY <1>3
    DEF Next, Controller, PodLife, vars, Reconcile, GetSecret, ApplyConfigMap, ApplyService,
        ApplyPVCs, ApplyStatefulSet, ReconcileDatabases, GetPod, ExecVersion, PatchPod,
        RecordVersion, Abort, PodCreated, PodStarts, PodReplaced, PodDisturbed, SetPod,
        UserEdits, UserRecreates
  <2> QED BY <2>1
<1> QED BY <1>1, <1>2, <1>3

(* reconcileSysdbaSecret never replaces a Secret that exists, nor generates *)
(* one whose name the spec gives, wherever users act between its calls.     *)
THEOREM PasswordKept == Spec => UserPasswordKept
<1>1. Init => SecretInv
  BY TypeInit DEF SecretInv, Named, Asked, Init
<1>2. SecretInv /\ [Next]_vars => SecretInv'
  BY SecretNext
<1>3. SecretInv /\ [Next]_vars
        => [secret' \in Generated /\ secret' # secret => secret = None /\ ~inst.ref]_vars
  BY SecretStep
<1> QED BY <1>1, <1>2, <1>3, PTL DEF Spec, UserPasswordKept
-----------------------------------------------------------------------------
(***************************************************************************)
(* A label tells the truth, as long as a pod is not replaced between its    *)
(* answer and the Patch: the pod about to be patched is the one that        *)
(* answered.                                                                *)
(***************************************************************************)
Unswapped == "podSwap" \notin Faults

Answered == pc = "patch" => pod.st = "ready" /\ seen = pod.version

LabelInv == TypeInv /\ Answered /\ LabelTruthful

(* Every action keeps the labels true.                                      *)
LEMMA LabelNext ==
    ASSUME Unswapped
    PROVE  LabelInv /\ [Next]_vars => LabelInv'
<1> SUFFICES ASSUME LabelInv, [Next]_vars PROVE LabelInv'
  OBVIOUS
<1>1. TypeInv'
  BY TypeNext DEF LabelInv
<1> USE DEF LabelInv, Answered, LabelTruthful
<1>2. pod \in Pods
  BY DEF TypeInv, TypeOK
<1>3. CASE Reconcile
  BY <1>1, <1>3 DEF Reconcile
<1>4. CASE GetSecret
  BY <1>1, <1>4 DEF GetSecret, Goto, Fail, Finish
<1>5. CASE CreateSecret
  BY <1>1, <1>5 DEF CreateSecret, Goto, Fail, Finish
<1>6. CASE ApplyConfigMap \/ ApplyService \/ ApplyPVCs
  BY <1>1, <1>6 DEF ApplyConfigMap, ApplyService, ApplyPVCs, Goto
<1>7. CASE ApplyStatefulSet
  BY <1>1, <1>7 DEF ApplyStatefulSet, Goto, Fail, Finish
<1>8. CASE ReconcileDatabases
  BY <1>1, <1>8 DEF ReconcileDatabases, Goto, UpdateStatus, Fail, Finish
<1>9. CASE GetPod \/ ExecVersion
  BY <1>1, <1>9 DEF GetPod, ExecVersion, Fail, Finish
<1>10. CASE PatchPod
  BY <1>1, <1>2, <1>10 DEF PatchPod, Goto, Fail, Finish, Pods
<1>11. CASE RecordVersion \/ Abort
  BY <1>1, <1>11 DEF RecordVersion, Abort, UpdateStatus, Fail, Finish
<1>12. CASE PodCreated
  BY <1>1, <1>12 DEF PodCreated, SetPod, local, NoPod
<1>13. CASE PodStarts
  BY <1>1, <1>2, <1>13 DEF PodStarts, SetPod, local, Pods
<1>14. CASE PodReplaced \/ PodDisturbed
  BY <1>1, <1>2, <1>14 DEF PodReplaced, PodDisturbed, SetPod, local, NoPod, Pods, Unswapped
<1>15. CASE UserSetsSecret \/ UserEdits
  BY <1>1, <1>15 DEF UserSetsSecret, UserEdits, local
<1>16. CASE UserRecreates
  BY <1>1, <1>16 DEF UserRecreates, local, NoPod
<1>17. CASE UNCHANGED vars
  BY <1>1, <1>17 DEF vars, local
<1> QED
  BY <1>3, <1>4, <1>5, <1>6, <1>7, <1>8, <1>9, <1>10, <1>11, <1>12, <1>13, <1>14, <1>15,
     <1>16, <1>17
  DEF Next, Controller, PodLife

(* reconcileFirebirdVersion never labels a pod with a version it does not   *)
(* run, whatever is edited, rotated, restarted or replaced before, as long  *)
(* as no pod is replaced between fbsvcmgr's answer and the Patch.           *)
THEOREM LabelsTruthful ==
    ASSUME Unswapped
    PROVE  Spec => []LabelTruthful
<1>1. Init => LabelInv
  BY TypeInit DEF LabelInv, Answered, LabelTruthful, Init, NoPod
<1>2. LabelInv /\ [Next]_vars => LabelInv'
  BY LabelNext
<1>3. LabelInv => LabelTruthful
  BY DEF LabelInv
<1> QED BY <1>1, <1>2, <1>3, PTL DEF Spec
-----------------------------------------------------------------------------
(***************************************************************************)
(* Nothing is missed.  While the name is not queued, nobody has changed     *)
(* anything since the reconcile began, and what it has passed is done.  Its *)
(* steps, each with those after it; "idle" comes last.                      *)
(***************************************************************************)
AfterVersion     == {"record", "idle"}
AfterDatabases   == AfterVersion \cup {"version", "exec", "patch"}
AfterStatefulSet == AfterDatabases \cup {"databases"}
AfterPVCs        == AfterStatefulSet \cup {"statefulset"}
AfterService     == AfterPVCs \cup {"pvcs"}
AfterConfigMap   == AfterService \cup {"service"}
AfterSecret      == AfterConfigMap \cup {"configmap"}

Current == pc # "idle" => obj = inst
Labelled ==
    /\ pc \in AfterConfigMap => labels["configmap"] = inst.detected
    /\ pc \in AfterService => labels["service"] = inst.detected
    /\ pc \in AfterStatefulSet => labels["statefulset"] = inst.detected
RetainedLabelled ==
    inst.detected # None =>
        /\ pc \in AfterSecret => labels["secret"] = inst.detected
        /\ pc \in AfterPVCs => labels["backupPVC"] = inst.detected
Applied ==
    /\ pc \in AfterConfigMap => aliases = inst.dbs
    /\ pc \in AfterStatefulSet =>
          secret # None /\ template = [version |-> inst.version, hash |-> Hash(secret)]
(* A reconcile gets beyond the StatefulSet only while the server runs.      *)
Attended == pc \in AfterStatefulSet \ {"idle"} => pod.st = "ready"
Inspected ==
    pod.st = "ready" =>
        /\ pc \in AfterDatabases => inst.databases = inst.dbs
        /\ pc = "record" => seen = pod.label
        /\ pc \in AfterVersion => pod.label # None
        /\ pc = "idle" => inst.detected = pod.label

UpToDate ==
    ~queued => Current /\ Labelled /\ RetainedLabelled /\ Applied /\ Attended /\ Inspected

SettledInv == TypeInv /\ UpToDate

(* The label a reconcile sets, and the ones it leaves.                      *)
LEMMA LabelSet ==
    ASSUME TypeInv, NEW o \in Owned \cup Retained, NEW l, SetLabel(o, l)
    PROVE  labels'[o] = l /\ \A x \in (Owned \cup Retained) \ {o} : labels'[x] = labels[x]
BY DEF SetLabel, TypeInv, TypeOK

(* Every action keeps UpToDate: it queues the name, or does its own part.   *)
LEMMA SettledNext == SettledInv /\ [Next]_vars => SettledInv'
<1> SUFFICES ASSUME SettledInv, [Next]_vars PROVE SettledInv'
  OBVIOUS
<1>1. TypeInv'
  BY TypeNext DEF SettledInv
<1>2. SUFFICES ASSUME ~queued' PROVE UpToDate'
  BY <1>1 DEF SettledInv, UpToDate
<1>t. TypeInv
  BY DEF SettledInv
<1> USE DEF AfterVersion, AfterDatabases, AfterStatefulSet, AfterPVCs, AfterService,
            AfterConfigMap, AfterSecret
<1>o. /\ {"configmap", "service", "statefulset", "secret", "backupPVC"} = Owned \cup Retained
  BY DEF Owned, Retained
<1>3. CASE Reconcile
  BY <1>3
  DEF Reconcile, UpToDate, Current, Labelled, RetainedLabelled, Applied, Attended, Inspected
<1>4. CASE GetSecret
  <2>1. CASE secret # None
    <3>1. ~queued /\ SetLabel("secret", Synced(labels["secret"])) /\ Goto("configmap")
      BY <1>2, <1>4, <2>1 DEF GetSecret
    <3>2. UpToDate /\ inst = obj /\ labels'["secret"] = Synced(labels["secret"])
      BY <1>4, <1>t, <1>o, <3>1, LabelSet DEF GetSecret, SettledInv, UpToDate, Current
    <3> QED
      BY <1>4, <3>1, <3>2
      DEF GetSecret, Goto, Synced, UpToDate, Current, Labelled, RetainedLabelled, Applied,
          Attended, Inspected
  <2>2. CASE secret = None
    <3>1. ~queued /\ Goto("create")
      BY <1>2, <1>4, <2>2 DEF GetSecret, Fail
    <3> QED
      BY <1>4, <3>1
      DEF GetSecret, Goto, SettledInv, UpToDate, Current, Labelled, RetainedLabelled, Applied,
          Attended, Inspected
  <2> QED BY <2>1, <2>2
<1>5. CASE CreateSecret
  BY <1>2, <1>5 DEF CreateSecret, Fail
<1>6. CASE ApplyConfigMap
  <2>1. ~queued /\ Goto("service") /\ SetLabel("configmap", obj.detected) /\ aliases' = obj.dbs
    BY <1>2, <1>6 DEF ApplyConfigMap
  <2>2. UpToDate /\ inst = obj /\ labels'["configmap"] = obj.detected /\ labels'["secret"] = labels["secret"]
    BY <1>6, <1>t, <1>o, <2>1, LabelSet DEF ApplyConfigMap, SettledInv, UpToDate, Current
  <2> QED
    BY <1>6, <2>1, <2>2
    DEF ApplyConfigMap, Goto, UpToDate, Current, Labelled, RetainedLabelled, Applied, Attended,
        Inspected
<1>7. CASE ApplyService
  <2>1. ~queued /\ Goto("pvcs") /\ SetLabel("service", obj.detected)
    BY <1>2, <1>7 DEF ApplyService
  <2>2. /\ UpToDate /\ inst = obj /\ labels'["service"] = obj.detected
        /\ labels'["secret"] = labels["secret"] /\ labels'["configmap"] = labels["configmap"]
    BY <1>7, <1>t, <1>o, <2>1, LabelSet DEF ApplyService, SettledInv, UpToDate, Current
  <2> QED
    BY <1>7, <2>1, <2>2
    DEF ApplyService, Goto, UpToDate, Current, Labelled, RetainedLabelled, Applied, Attended,
        Inspected
<1>8. CASE ApplyPVCs
  <2>1. ~queued /\ Goto("statefulset") /\ SetLabel("backupPVC", Synced(labels["backupPVC"]))
    BY <1>2, <1>8 DEF ApplyPVCs
  <2>2. /\ UpToDate /\ inst = obj /\ labels'["backupPVC"] = Synced(labels["backupPVC"])
        /\ labels'["secret"] = labels["secret"] /\ labels'["configmap"] = labels["configmap"]
        /\ labels'["service"] = labels["service"]
    BY <1>8, <1>t, <1>o, <2>1, LabelSet DEF ApplyPVCs, SettledInv, UpToDate, Current
  <2> QED
    BY <1>8, <2>1, <2>2
    DEF ApplyPVCs, Goto, Synced, UpToDate, Current, Labelled, RetainedLabelled, Applied, Attended,
        Inspected
<1>9. CASE ApplyStatefulSet
  <2>1. /\ ~queued /\ secret # None /\ SetLabel("statefulset", obj.detected)
        /\ template' = [version |-> obj.version, hash |-> Hash(secret)]
        /\ inst' = inst /\ secret' = secret /\ aliases' = aliases /\ pod' = pod
    BY <1>2, <1>9 DEF ApplyStatefulSet, Fail, Goto
  <2>2. /\ UpToDate /\ inst = obj /\ labels'["statefulset"] = obj.detected
        /\ labels'["secret"] = labels["secret"] /\ labels'["configmap"] = labels["configmap"]
        /\ labels'["service"] = labels["service"] /\ labels'["backupPVC"] = labels["backupPVC"]
    BY <1>9, <1>t, <1>o, <2>1, LabelSet DEF ApplyStatefulSet, SettledInv, UpToDate, Current
  <2>3. CASE pod.st = "ready"
    <3>1. Goto("databases") /\ pc = "statefulset"
      BY <1>9, <2>1, <2>3 DEF ApplyStatefulSet
    <3> QED
      BY <2>1, <2>2, <2>3, <3>1
      DEF Goto, Hash, UpToDate, Current, Labelled, RetainedLabelled, Applied, Attended, Inspected
  <2>4. CASE pod.st # "ready"
    <3>1. pc' = "idle" /\ pc = "statefulset"
      BY <1>9, <2>1, <2>4 DEF ApplyStatefulSet, Finish
    <3> QED
      BY <2>1, <2>2, <2>4, <3>1
      DEF Hash, UpToDate, Current, Labelled, RetainedLabelled, Applied, Attended, Inspected
  <2> QED BY <2>3, <2>4
<1>10. CASE ReconcileDatabases
  <2>1. ~queued /\ Goto("version") /\ obj.databases = obj.dbs
    BY <1>2, <1>10 DEF ReconcileDatabases, UpdateStatus, Fail
  <2> QED
    BY <1>10, <2>1
    DEF ReconcileDatabases, Goto, SettledInv, UpToDate, Current, Labelled, RetainedLabelled,
        Applied, Attended, Inspected, Hash
<1>11. CASE GetPod
  BY <1>2, <1>11
  DEF GetPod, Fail, SettledInv, UpToDate, Current, Labelled, RetainedLabelled, Applied,
      Attended, Inspected, Hash
<1>12. CASE ExecVersion
  BY <1>2, <1>12
  DEF ExecVersion, Fail, SettledInv, UpToDate, Current, Labelled, RetainedLabelled, Applied,
      Attended, Inspected, Hash
<1>13. CASE PatchPod
  <2>1. ~queued /\ Goto("record") /\ pod' = [pod EXCEPT !.label = seen] /\ seen # None
    BY <1>2, <1>13, <1>t DEF PatchPod, Fail, TypeInv, Heard
  <2>2. pod'.st = pod.st /\ pod'.label = seen
    BY <1>t, <2>1 DEF TypeInv, TypeOK, Pods
  <2> QED
    BY <1>13, <2>1, <2>2
    DEF PatchPod, Goto, SettledInv, UpToDate, Current, Labelled, RetainedLabelled, Applied,
        Attended, Inspected, Hash
<1>14. CASE RecordVersion
  <2>1. ~queued /\ Finish /\ inst' = inst /\ obj.detected = seen
    BY <1>2, <1>14 DEF RecordVersion, UpdateStatus, Fail
  <2> QED
    BY <1>14, <2>1
    DEF RecordVersion, Finish, SettledInv, UpToDate, Current, Labelled, RetainedLabelled,
        Applied, Attended, Inspected, Hash
<1>15. CASE Abort
  BY <1>2, <1>15 DEF Abort, Fail
<1>16. ASSUME NEW p, SetPod(p), p.st # "ready" \/ pod.st # "ready"
       PROVE  UpToDate'
  <2>1. ~queued /\ pod' = p /\ p.st # "ready" /\ pod.st # "ready"
    <3>1. ~((p.st = "ready") # (pod.st = "ready")) /\ ~queued /\ pod' = p
      BY <1>2, <1>16 DEF SetPod
    <3> QED BY <1>16, <3>1
  <2> QED
    BY <1>2, <1>16, <2>1
    DEF SetPod, local, SettledInv, UpToDate, Current, Labelled, RetainedLabelled, Applied,
        Attended, Inspected, Hash
<1>17. CASE PodCreated \/ PodStarts \/ PodReplaced \/ PodDisturbed
  <2>1. pod \in Pods
    BY <1>t DEF TypeInv, TypeOK
  <2>2. CASE PodCreated \/ PodStarts
    BY <1>16, <2>2 DEF PodCreated, PodStarts, NoPod
  <2>3. NoPod.st # "ready" /\ [pod EXCEPT !.st = "starting"].st # "ready"
    BY <2>1 DEF NoPod, Pods
  <2> QED BY <1>16, <1>17, <2>2, <2>3 DEF PodReplaced, PodDisturbed
<1>18. CASE UserSetsSecret \/ UserEdits \/ UserRecreates
  BY <1>2, <1>18 DEF UserSetsSecret, UserEdits, UserRecreates
<1>19. CASE UNCHANGED vars
  BY <1>2, <1>19
  DEF vars, local, SettledInv, UpToDate, Current, Labelled, RetainedLabelled, Applied,
      Attended, Inspected, Hash
<1> QED
  BY <1>3, <1>4, <1>5, <1>6, <1>7, <1>8, <1>9, <1>10, <1>11, <1>12, <1>13, <1>14, <1>15,
     <1>17, <1>18, <1>19
  DEF Next, Controller, PodLife

(* When the controller rests, the Secret, the spec, the running server and  *)
(* everything generated from them agree: no change that fell into a running *)
(* reconcile is ever missed, also with podSwap and reuse.                   *)
THEOREM NothingMissed == Spec => []Settled
<1>1. Init => SettledInv
  BY TypeInit DEF SettledInv, UpToDate, Init
<1>2. SettledInv /\ [Next]_vars => SettledInv'
  BY SettledNext
<1>3. SettledInv => Settled
  BY DEF SettledInv, UpToDate, Settled, Labelled, RetainedLabelled, Applied, Inspected, Owned,
         Retained, AfterVersion, AfterDatabases, AfterStatefulSet, AfterPVCs, AfterService,
         AfterConfigMap, AfterSecret
<1> QED BY <1>1, <1>2, <1>3, PTL DEF Spec
=============================================================================
