------------------------------ MODULE ServerPod ------------------------------
(***************************************************************************)
(* What the Firebird server pod of one Instance is started with, and what   *)
(* is reported about it: the SYSDBA Secret and its rotation                 *)
(* (reconcileSysdbaSecret, the password hash of mutateStatefulSet, the      *)
(* watch of findInstancesForSecret), the aliases ConfigMap, and the version *)
(* the running server reports (reconcileFirebirdVersion), from which every  *)
(* generated object is labelled.                                            *)
(*                                                                          *)
(* Versions are releases of one Firebird major: a change of major is        *)
(* InstanceReconciler's.  pc stops before every call that the cluster can   *)
(* observe; obj is the reconcile's copy of the Instance.                    *)
(***************************************************************************)
EXTENDS Integers

CONSTANTS
    DB,          \* database names
    Versions,    \* spec.version values
    Unstartable, \* those whose image cannot be pulled or started
    Passwords,   \* passwords a user may choose
    Generated,   \* passwords generateRandomPassword may come up with: always one more
    Specs,       \* the Instance specs a user may create
    Faults,      \* what may go wrong, see FaultKinds
    MaxEdits,    \* bound on what users do
    MaxErrors,   \* bound on failed calls
    MaxRestarts  \* bound on evicted pods and restarted containers

None == "none"

(***************************************************************************)
(* "podSwap": the pod is replaced between fbsvcmgr's answer and the Patch.  *)
(* "reuse": a user goes back to a password the template still has.          *)
(***************************************************************************)
FaultKinds == {"podSwap", "reuse"}

ASSUME PodAssumption ==
    /\ Unstartable \subseteq Versions
    /\ None \notin Versions \cup Passwords \cup Generated
    /\ Passwords \cap Generated = {}
    /\ Generated # {} /\ \A a, b, c \in Generated : Generated \ {a, b, c} # {}
    /\ Specs \subseteq [version : Versions, ref : BOOLEAN, dbs : SUBSET DB \ {{}}]
    /\ Faults \subseteq FaultKinds
    /\ MaxEdits \in Nat /\ MaxErrors \in Nat /\ MaxRestarts \in Nat

Known   == Versions \cup {None}
Secrets == Passwords \cup Generated \cup {None}

(* A digest tells passwords apart and nothing more: SHA-256 has no          *)
(* collisions among the passwords of one Instance.                          *)
Digests == [sha256 : Secrets]
NoDigest == [sha256 |-> None]

(* Owned objects go with their Instance, retained ones outlive it.          *)
Owned    == {"configmap", "service", "statefulset"}
Retained == {"secret", "backupPVC"}

VARIABLES
    inst,     \* spec (version, secretRef set, dbs) and status (databases, detected)
    secret,   \* the SYSDBA Secret's password, None when there is no Secret
    aliases,  \* the databases in the aliases ConfigMap
    template, \* the StatefulSet's pod template: version and password hash
    pod,      \* the server pod: what it was started with, and its label
    labels,   \* the firebird-version label of every other object
    queued,   \* whether the work queue holds the Instance's name
    pc,       \* the reconcile's next call
    obj,      \* its copy of the Instance
    seen,     \* the version it detected, or read off the pod's label
    used      \* edits, errors and restarts so far

local == <<pc, obj, seen>>
vars  == <<inst, secret, aliases, template, pod, labels, queued, local, used>>

Instances == [version : Versions, ref : BOOLEAN, dbs : SUBSET DB, databases : SUBSET DB,
              detected : Known]
NoInstance == [version |-> None, ref |-> FALSE, dbs |-> {}, databases |-> {},
               detected |-> None]
Pods == [st : {"none", "starting", "ready"}, version : Known, hash : Digests,
         password : Secrets, aliases : SUBSET DB, label : Known]

NoPod == [st |-> "none", version |-> None, hash |-> NoDigest, password |-> None,
          aliases |-> {}, label |-> None]
NoTemplate == [version |-> None, hash |-> NoDigest]

(* Every variable keeps its type.                                           *)
TypeOK ==
    /\ inst \in Instances /\ obj \in Instances \cup {NoInstance}
    /\ secret \in Secrets
    /\ aliases \in SUBSET DB
    /\ template \in [version : Versions, hash : Digests \ {NoDigest}] \cup {NoTemplate}
    /\ pod \in Pods
    /\ labels \in [Owned \cup Retained -> Known]
    /\ queued \in BOOLEAN
    /\ pc \in {"idle", "secret", "create", "configmap", "service", "pvcs",
               "statefulset", "databases", "version", "exec", "patch", "record"}
    /\ seen \in Known
    /\ used \in [edits : 0..MaxEdits, errors : 0..MaxErrors,
                 restarts : 0..MaxRestarts]

Created(spec) ==
    [version |-> spec.version, ref |-> spec.ref, dbs |-> spec.dbs,
     databases |-> {}, detected |-> None]

Init ==
    /\ \E spec \in Specs : inst = Created(spec)
    /\ secret \in Passwords \cup {None}
    /\ aliases = {} /\ template = NoTemplate /\ pod = NoPod
    /\ labels = [o \in Owned \cup Retained |-> None]
    /\ queued = TRUE
    /\ pc = "idle" /\ obj = NoInstance /\ seen = None
    /\ used = [edits |-> 0, errors |-> 0, restarts |-> 0]
-----------------------------------------------------------------------------
(***************************************************************************)
(* Control: an error ends the reconcile and requeues the name; the locals   *)
(* are dead between reconciles.                                             *)
(***************************************************************************)
Finish == pc' = "idle" /\ obj' = NoInstance /\ seen' = None

Fail == Finish /\ queued' = TRUE /\ UNCHANGED inst

Goto(step) == pc' = step /\ UNCHANGED <<inst, obj, seen>>

(* A status write is refused when the copy is stale.                        *)
UpdateStatus(new, step) ==
    \/ /\ obj = inst /\ inst' = new /\ queued' = TRUE
       /\ IF step = "idle" THEN Finish
          ELSE pc' = step /\ obj' = new /\ UNCHANGED seen
    \/ obj # inst /\ Fail

Reconcile ==
    /\ pc = "idle" /\ queued
    /\ queued' = FALSE
    /\ pc' = "secret" /\ obj' = inst
    /\ UNCHANGED <<inst, seen, secret, aliases, template, pod, labels, used>>
-----------------------------------------------------------------------------
(***************************************************************************)
(* reconcileSysdbaSecret.  syncFirebirdVersionLabel leaves the label of an  *)
(* existing Secret or PVC alone while the version is not known.             *)
(***************************************************************************)
Synced(label) == IF obj.detected = None THEN label ELSE obj.detected

SetLabel(o, label) == labels' = [labels EXCEPT ![o] = label]

GetSecret ==
    /\ pc = "secret"
    /\ IF secret # None
       THEN /\ SetLabel("secret", Synced(labels["secret"]))
            /\ queued' = (queued \/ labels' # labels)
            /\ Goto("configmap")
       ELSE /\ IF obj.ref THEN Fail ELSE Goto("create") /\ UNCHANGED queued
            /\ UNCHANGED labels
    /\ UNCHANGED <<secret, aliases, template, pod, used>>

InUse == {secret, template.hash.sha256, pod.hash.sha256, pod.password}

(* generateRandomPassword: never one that is still in use.                  *)
Fresh == Generated \ InUse

(* Faulty variant: the Secret is applied instead of created.                *)
CreateSecretOver ==
    /\ pc = "create"
    /\ secret' = CHOOSE p \in Fresh : TRUE
    /\ SetLabel("secret", obj.detected)
    /\ queued' = TRUE
    /\ Goto("configmap")
    /\ UNCHANGED <<aliases, template, pod, used>>

(* Create fails if there is a Secret by now.                                *)
CreateSecret ==
    /\ pc = "create"
    /\ IF secret # None THEN Fail /\ UNCHANGED <<secret, labels>>
       ELSE /\ secret' = CHOOSE p \in Fresh : TRUE
            /\ SetLabel("secret", obj.detected)
            /\ queued' = TRUE
            /\ Goto("configmap")
    /\ UNCHANGED <<aliases, template, pod, used>>

(* mutateAliasesConfigMap, mutateService and reconcilePVC.                  *)
ApplyConfigMap ==
    /\ pc = "configmap"
    /\ aliases' = obj.dbs
    /\ SetLabel("configmap", obj.detected)
    /\ queued' = (queued \/ aliases' # aliases \/ labels' # labels)
    /\ Goto("service")
    /\ UNCHANGED <<secret, template, pod, used>>

ApplyService ==
    /\ pc = "service"
    /\ SetLabel("service", obj.detected)
    /\ queued' = (queued \/ labels' # labels)
    /\ Goto("pvcs")
    /\ UNCHANGED <<secret, aliases, template, pod, used>>

ApplyPVCs ==
    /\ pc = "pvcs"
    /\ SetLabel("backupPVC", Synced(labels["backupPVC"]))
    /\ Goto("statefulset")
    /\ UNCHANGED <<queued, secret, aliases, template, pod, used>>

(***************************************************************************)
(* mutateStatefulSet: sysdbaPassword fails without a Secret, and the        *)
(* template records a hash of the password.                                 *)
(***************************************************************************)
(* Faulty variant: the template says nothing of the password.               *)
HashNothing(password) == NoDigest

Hash(password) == [sha256 |-> password]

ApplyStatefulSet ==
    /\ pc = "statefulset"
    /\ IF secret = None THEN Fail /\ UNCHANGED <<template, labels>>
       ELSE /\ template' = [version |-> obj.version, hash |-> Hash(secret)]
            /\ SetLabel("statefulset", obj.detected)
            /\ queued' = (queued \/ template' # template \/ labels' # labels)
            /\ IF pod.st = "ready" THEN Goto("databases")
               ELSE Finish /\ UNCHANGED inst
    /\ UNCHANGED <<secret, aliases, pod, used>>

(* reconcileDatabases: an exec, then the status write.                      *)
ReconcileDatabases ==
    /\ pc = "databases"
    /\ IF obj.databases = obj.dbs THEN Goto("version") /\ UNCHANGED queued
       ELSE IF secret = None \/ pod.st # "ready" THEN Fail
       ELSE UpdateStatus([obj EXCEPT !.databases = obj.dbs], "version")
    /\ UNCHANGED <<secret, aliases, template, pod, labels, used>>
-----------------------------------------------------------------------------
(***************************************************************************)
(* reconcileFirebirdVersion: the pod's own label says whether its version   *)
(* has been detected; otherwise fbsvcmgr asks the server, logging in with   *)
(* the Secret's password, and the answer is patched onto the pod by name.   *)
(***************************************************************************)
GetPod ==
    /\ pc = "version"
    /\ IF pod.st = "none" THEN Fail
       ELSE /\ pc' = IF pod.label = None THEN "exec" ELSE "record"
            /\ seen' = pod.label
            /\ UNCHANGED <<inst, obj, queued>>
    /\ UNCHANGED <<secret, aliases, template, pod, labels, used>>

(* Faulty variant: the version asked for stands for the one that runs.      *)
ExecVersionAsked ==
    /\ pc = "exec"
    /\ IF secret = None \/ pod.st # "ready" \/ pod.password # secret THEN Fail
       ELSE pc' = "patch" /\ seen' = obj.version /\ UNCHANGED <<inst, obj, queued>>
    /\ UNCHANGED <<secret, aliases, template, pod, labels, used>>

ExecVersion ==
    /\ pc = "exec"
    /\ IF secret = None \/ pod.st # "ready" \/ pod.password # secret THEN Fail
       ELSE pc' = "patch" /\ seen' = pod.version /\ UNCHANGED <<inst, obj, queued>>
    /\ UNCHANGED <<secret, aliases, template, pod, labels, used>>

PatchPod ==
    /\ pc = "patch"
    /\ IF pod.st = "none" THEN Fail /\ UNCHANGED pod
       ELSE pod' = [pod EXCEPT !.label = seen] /\ Goto("record") /\ UNCHANGED queued
    /\ UNCHANGED <<secret, aliases, template, labels, used>>

(* Faulty variant: a version that was recorded once stays.                  *)
RecordOnce ==
    /\ pc = "record"
    /\ IF obj.detected # None THEN Finish /\ UNCHANGED <<inst, queued>>
       ELSE UpdateStatus([obj EXCEPT !.detected = seen], "idle")
    /\ UNCHANGED <<secret, aliases, template, pod, labels, used>>

RecordVersion ==
    /\ pc = "record"
    /\ IF obj.detected = seen THEN Finish /\ UNCHANGED <<inst, queued>>
       ELSE UpdateStatus([obj EXCEPT !.detected = seen], "idle")
    /\ UNCHANGED <<secret, aliases, template, pod, labels, used>>

Abort ==
    /\ pc # "idle" /\ used.errors < MaxErrors
    /\ Fail
    /\ used' = [used EXCEPT !.errors = @ + 1]
    /\ UNCHANGED <<secret, aliases, template, pod, labels>>
-----------------------------------------------------------------------------
(***************************************************************************)
(* The StatefulSet controller and the kubelet.  A change of the pod's       *)
(* readiness is a StatefulSet status event.                                 *)
(***************************************************************************)
SetPod(p) ==
    /\ pod' = p
    /\ queued' = (queued \/ (p.st = "ready") # (pod.st = "ready"))
    /\ UNCHANGED <<inst, secret, aliases, template, labels, local>>

PodCreated ==
    /\ template # NoTemplate /\ pod.st = "none"
    /\ SetPod([NoPod EXCEPT !.st = "starting", !.version = template.version,
                            !.hash = template.hash])
    /\ UNCHANGED used

(* The container's environment is resolved, and the ConfigMap's file bound  *)
(* (it is a SubPath mount), when the container starts and never again.      *)
PodStarts ==
    /\ pod.st = "starting" /\ secret # None /\ pod.version \notin Unstartable
    /\ SetPod([pod EXCEPT !.st = "ready", !.password = secret, !.aliases = aliases])
    /\ UNCHANGED used

Outdated == pod.version # template.version \/ pod.hash # template.hash

(* A rolling update replaces a pod that is ready, and waits for any other.  *)
PodReplaced ==
    /\ pod.st = "ready" /\ Outdated
    /\ "podSwap" \in Faults \/ pc # "patch"
    /\ SetPod(NoPod)
    /\ UNCHANGED used

PodDisturbed ==
    /\ pod.st = "ready" /\ used.restarts < MaxRestarts
    /\ "podSwap" \in Faults \/ pc # "patch"
    /\ \E p \in {NoPod, [pod EXCEPT !.st = "starting"]} : SetPod(p)
    /\ used' = [used EXCEPT !.restarts = @ + 1]
-----------------------------------------------------------------------------
(***************************************************************************)
(* Users.  findInstancesForSecret queues every Instance of a Secret that    *)
(* appears, changes or goes.                                                *)
(***************************************************************************)
Edit == used.edits < MaxEdits /\ used' = [used EXCEPT !.edits = @ + 1]

(* Faulty variant: a Secret is not watched.                                 *)
UserSetsSecretUnwatched ==
    /\ Edit
    /\ \E p \in (Passwords \ IF "reuse" \in Faults THEN {} ELSE InUse) \cup {None} :
          /\ p # secret /\ secret' = p
          /\ labels' = IF p = None \/ secret = None
                       THEN [labels EXCEPT !["secret"] = None] ELSE labels
    /\ UNCHANGED <<inst, queued, aliases, template, pod, local>>

UserSetsSecret ==
    /\ Edit
    /\ \E p \in (Passwords \ IF "reuse" \in Faults THEN {} ELSE InUse) \cup {None} :
          /\ p # secret /\ secret' = p
          /\ labels' = IF p = None \/ secret = None
                       THEN [labels EXCEPT !["secret"] = None] ELSE labels
    /\ queued' = TRUE
    /\ UNCHANGED <<inst, aliases, template, pod, local>>

UserEdits ==
    /\ Edit
    /\ \/ \E v \in Versions \ {inst.version} : inst' = [inst EXCEPT !.version = v]
       \/ \E db \in DB \ inst.dbs : inst' = [inst EXCEPT !.dbs = @ \cup {db}]
       \/ \E db \in inst.dbs : inst.dbs # {db} /\ inst' = [inst EXCEPT !.dbs = @ \ {db}]
    /\ queued' = TRUE
    /\ UNCHANGED <<secret, aliases, template, pod, labels, local>>

(* Deleted, with all it owns, and created again under the same name.        *)
UserRecreates ==
    /\ Edit /\ pc = "idle"
    /\ \E v \in Versions : inst' = Created([inst EXCEPT !.version = v])
    /\ aliases' = {} /\ template' = NoTemplate /\ pod' = NoPod
    /\ labels' = [o \in Owned \cup Retained |->
                    IF o \in Retained THEN labels[o] ELSE None]
    /\ queued' = TRUE
    /\ UNCHANGED <<secret, local>>
-----------------------------------------------------------------------------
Controller ==
    \/ Reconcile \/ GetSecret \/ CreateSecret \/ ApplyConfigMap \/ ApplyService
    \/ ApplyPVCs \/ ApplyStatefulSet \/ ReconcileDatabases
    \/ GetPod \/ ExecVersion \/ PatchPod \/ RecordVersion

PodLife == PodCreated \/ PodStarts \/ PodReplaced

Next ==
    \/ Controller \/ Abort \/ PodLife \/ PodDisturbed
    \/ UserSetsSecret \/ UserEdits \/ UserRecreates

Spec == Init /\ [][Next]_vars

(* The worker takes what is queued; Kubernetes looks after the pod.         *)
FairSpec == Spec /\ WF_vars(Controller) /\ WF_vars(PodLife)
-----------------------------------------------------------------------------
(***************************************************************************)
(* A password a user chose is never replaced by a generated one while its   *)
(* Secret exists, and none is generated when spec names the Secret: between *)
(* reconcileSysdbaSecret's Get and its Create the user may have acted.      *)
(***************************************************************************)
UserPasswordKept ==
    [][secret' \in Generated /\ secret' # secret => secret = None /\ ~inst.ref]_vars

(***************************************************************************)
(* Once users stop, the server runs the version asked for with the Secret's *)
(* password, whichever step a rotation or a failure fell between: the hash  *)
(* in the template and the watch of the Secret.                             *)
(***************************************************************************)
PasswordFollows ==
    <>[](secret # None =>
            pod.st = "ready" /\ pod.password = secret /\ pod.version = inst.version)

(***************************************************************************)
(* Once users stop, status and every object's label show the version of the *)
(* server that runs, also of objects that outlived an earlier Instance      *)
(* (reconcileFirebirdVersion, syncFirebirdVersionLabel).                    *)
(***************************************************************************)
VersionReported ==
    <>[](secret # None =>
            /\ inst.detected = pod.version /\ pod.label = pod.version
            /\ \A o \in Owned \cup Retained : labels[o] = pod.version)

(***************************************************************************)
(* A pod's version label, once it has one, is the version it runs           *)
(* (reconcileFirebirdVersion's use of the label as a marker).               *)
(***************************************************************************)
LabelTruthful == pod.label # None => pod.label = pod.version

(***************************************************************************)
(* Nothing is missed: when no reconcile runs and none is queued, the last   *)
(* one left everything as the Secret, the spec and the running server have  *)
(* it now, although each of them may have changed while it ran (the watches *)
(* of SetupWithManager, findInstancesForSecret, the requeue after an error, *)
(* the stale copy of a status write).                                       *)
(***************************************************************************)
Settled ==
    pc = "idle" /\ ~queued =>
        /\ template = [version |-> inst.version, hash |-> Hash(secret)]
        /\ secret # None
        /\ aliases = inst.dbs
        /\ \A o \in Owned : labels[o] = inst.detected
        /\ inst.detected # None => \A o \in Retained : labels[o] = inst.detected
        /\ pod.st = "ready" =>
              inst.databases = inst.dbs /\ pod.label # None /\ inst.detected = pod.label

(***************************************************************************)
(* Once users stop, the server knows exactly the aliases of the databases   *)
(* asked for (mutateAliasesConfigMap, volumeMounts).                        *)
(***************************************************************************)
AliasesFollow == <>[](secret # None => pod.aliases = inst.dbs)
=============================================================================
