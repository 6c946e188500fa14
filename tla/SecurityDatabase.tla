-------------------------- MODULE SecurityDatabase --------------------------
(***************************************************************************)
(* The accounts of one Instance name: the security database a server of     *)
(* Firebird major M keeps in security<M>.fdb on the primary volume, the     *)
(* security-database-init container that seeds it before every server start *)
(* (securityDatabaseInitScript, securityMigrationScript), and its offline   *)
(* backup in security<M>.fbk (databaseBackupScript), across restarts, major *)
(* upgrades, deletions and recreations under the same name.                 *)
(*                                                                          *)
(* The controller's part is reduced to the order InstanceReconciler is      *)
(* checked for: a backup while no server runs, then the release of the      *)
(* primary volume, then a start on the version asked for.                   *)
(***************************************************************************)
EXTENDS Integers, Sequences

CONSTANTS
    Users,     \* account names other than SYSDBA
    Majors,    \* Firebird major versions
    TornFinal, \* whether a command may die while it writes the final name
    MaxLives,  \* bound on volumes: creations and upgrades
    MaxEdits,  \* bound on account changes
    MaxKills   \* bound on killed pods

ASSUME SecurityAssumption ==
    /\ Majors \subseteq Nat
    /\ TornFinal \in BOOLEAN
    /\ MaxLives \in Nat \ {0} /\ MaxEdits \in Nat /\ MaxKills \in Nat

(* A database file, or an archive of one: missing, incomplete or whole.     *)
Contents == [st : {"missing", "torn", "ok"}, users : SUBSET Users]

Missing  == [st |-> "missing", users |-> {}]
Torn     == [st |-> "torn", users |-> {}]
Whole(u) == [st |-> "ok", users |-> u]

VARIABLES
    plan,     \* what the controller is doing with the Instance
    spec,     \* major, backup volume and backupOnDelete it asks for
    next,     \* the major an upgrade is going to
    done,     \* whether the backup the plan needs has succeeded
    pc,       \* the server pod: the init container's step, or serving
    src,      \* the archive the init container chose
    file,     \* security<M>.fdb for each M, on the primary volume
    migrated, \* .security-migrated.fdb, there
    source,   \* .security-migration-source.fdb, there
    fbk,      \* security<M>.fbk for each M, in backup/base, with its modification time
    clock,    \* the time, counted in archives written
    accounts, \* ghost: the accounts the server must have
    saved,    \* ghost: what every successful backup saved, in order
    used      \* volumes, account changes and kills so far

control == <<plan, spec, next, done>>
volume  == <<file, migrated, source>>
backups == <<fbk, clock>>
ghosts  == <<accounts, saved>>
vars    == <<control, pc, src, volume, backups, ghosts, used>>

Archives == [st : {"missing", "torn", "ok"}, users : SUBSET Users, time : Nat]
NeverWritten == [st |-> "missing", users |-> {}, time |-> 0]
Sources == [major : Majors, st : {"torn", "ok"}, users : SUBSET Users]
NoArchive == [major |-> 0, st |-> "missing", users |-> {}]
InitSteps == {"check", "copy", "restore", "clear", "seed", "source", "users",
              "tidy", "rename"}

(* Every variable keeps its type.                                           *)
TypeOK ==
    /\ plan \in {"serve", "upgrade", "delete", "gone"}
    /\ spec \in [major : Majors, backup : BOOLEAN, keep : BOOLEAN]
    /\ next \in Majors
    /\ done \in BOOLEAN
    /\ pc \in {"down", "serving"} \cup InitSteps
    /\ src \in Sources \cup {NoArchive}
    /\ file \in [Majors -> Contents]
    /\ migrated \in Contents /\ source \in Contents
    /\ fbk \in [Majors -> Archives] /\ clock \in Nat
    /\ \A m \in Majors : fbk[m].st = "missing" <=> fbk[m].time = 0
    /\ \A m, k \in Majors : fbk[m].time = fbk[k].time /\ fbk[m].time # 0 => m = k
    /\ accounts \in SUBSET Users
    /\ saved \in Seq([major : Majors, users : SUBSET Users])
    /\ used \in [lives : 0..MaxLives, edits : 0..MaxEdits, kills : 0..MaxKills]

Empty == [m \in Majors |-> Missing]

Init ==
    /\ plan = "serve"
    /\ spec \in [major : Majors, backup : BOOLEAN, keep : BOOLEAN]
    /\ next = spec.major /\ done = FALSE
    /\ pc = "down" /\ src = NoArchive
    /\ file = Empty /\ migrated = Missing /\ source = Missing
    /\ fbk = [m \in Majors |-> NeverWritten] /\ clock = 0
    /\ saved = <<>> /\ accounts = {}
    /\ used = [lives |-> 1, edits |-> 0, kills |-> 0]
-----------------------------------------------------------------------------
(***************************************************************************)
(* securityDatabaseInitScript, command by command (set -e).                 *)
(***************************************************************************)
Goto(step) == pc' = step /\ UNCHANGED <<control, src, backups, ghosts, used>>

(* The script ends: the firebird container starts.                          *)
Serve == pc' = "serving" /\ src' = NoArchive

PodStarts ==
    /\ plan = "serve" /\ pc = "down"
    /\ Goto("check") /\ UNCHANGED volume

(* ls -t lists the newest first, and the script stops at the first archive  *)
(* of a major it can read.                                                  *)
Candidates(n) == {m \in Majors : m <= n /\ fbk[m].st # "missing"}

Archive(m) == [major |-> m, st |-> fbk[m].st, users |-> fbk[m].users]

(* Faulty variant: the archive of the highest major rather than the newest. *)
ChosenHighest(n) ==
    IF Candidates(n) = {} THEN NoArchive
    ELSE Archive(CHOOSE m \in Candidates(n) : \A k \in Candidates(n) : k <= m)

Chosen(n) ==
    IF Candidates(n) = {} THEN NoArchive
    ELSE Archive(CHOOSE m \in Candidates(n) :
                    \A k \in Candidates(n) : fbk[k].time <= fbk[m].time)

(* What is to be done with the archive it chose.                            *)
Seeding(archive) ==
    IF archive = NoArchive THEN "copy"
    ELSE IF archive.major = 3 /\ spec.major > 3 THEN "clear" ELSE "restore"

CheckExisting ==
    /\ pc = "check"
    /\ IF file[spec.major].st # "missing" THEN Serve
       ELSE /\ src' = IF spec.backup THEN Chosen(spec.major) ELSE NoArchive
            /\ pc' = Seeding(src')
    /\ UNCHANGED <<control, volume, backups, ghosts, used>>

(* The image's own security database has no account but SYSDBA.             *)
CopyDefault ==
    /\ pc = "copy"
    /\ file' = [file EXCEPT ![spec.major] = Whole({})]
    /\ Serve
    /\ UNCHANGED <<control, migrated, source, backups, ghosts, used>>

Restore ==
    /\ pc = "restore" /\ src.st = "ok"
    /\ file' = [file EXCEPT ![spec.major] = Whole(src.users)]
    /\ Serve
    /\ UNCHANGED <<control, migrated, source, backups, ghosts, used>>

(* From Firebird 3: rm -f of the temporary files, then cp of the default.   *)
(* Faulty variant: an earlier attempt's files are left where they are.      *)
ClearNothing ==
    /\ pc = "clear"
    /\ Goto("seed") /\ UNCHANGED volume

ClearTemporary ==
    /\ pc = "clear"
    /\ migrated' = Missing /\ source' = Missing
    /\ Goto("seed") /\ UNCHANGED file

(* Faulty variant: the database is built under its final name.              *)
SeedFinal ==
    /\ pc = "seed"
    /\ migrated' = Whole({}) /\ file' = [file EXCEPT ![spec.major] = Torn]
    /\ Goto("source") /\ UNCHANGED source

SeedMigrated ==
    /\ pc = "seed"
    /\ migrated' = Whole({})
    /\ Goto("source") /\ UNCHANGED <<file, source>>

(* gbak -create refuses a target that exists.                               *)
RestoreSource ==
    /\ pc = "source" /\ src.st = "ok" /\ source.st = "missing"
    /\ source' = Whole(src.users)
    /\ Goto("users") /\ UNCHANGED <<file, migrated>>

(* securityMigrationScript: one transaction, both kinds of accounts.        *)
CopyUsers ==
    /\ pc = "users"
    /\ migrated' = Whole(migrated.users \cup source.users)
    /\ Goto("tidy") /\ UNCHANGED <<file, source>>

RemoveSource ==
    /\ pc = "tidy"
    /\ source' = Missing
    /\ Goto("rename") /\ UNCHANGED <<file, migrated>>

Rename ==
    /\ pc = "rename"
    /\ file' = [file EXCEPT ![spec.major] = migrated]
    /\ migrated' = Missing
    /\ Serve
    /\ UNCHANGED <<control, source, backups, ghosts, used>>

(* A command that cannot succeed ends the container, which is started over. *)
CommandFails ==
    /\ \/ /\ pc = "restore" /\ src.st = "torn"
          /\ file' = IF TornFinal THEN [file EXCEPT ![spec.major] = Torn] ELSE file
          /\ UNCHANGED source
       \/ /\ pc = "source" /\ (src.st = "torn" \/ source.st # "missing")
          /\ source' \in {source, Torn}
          /\ UNCHANGED file
    /\ pc' = "down" /\ src' = NoArchive
    /\ UNCHANGED <<control, migrated, backups, ghosts, used>>

(***************************************************************************)
(* The pod is killed: between two commands, or in one that leaves a         *)
(* temporary file half written, and with TornFinal in one that leaves the   *)
(* security database itself half written.                                   *)
(***************************************************************************)
Killed ==
    /\ pc # "down" /\ used.kills < MaxKills
    /\ migrated' \in IF pc \in {"seed", "users"} THEN {migrated, Torn} ELSE {migrated}
    /\ source' \in IF pc = "source" THEN {source, Torn} ELSE {source}
    /\ file' \in IF pc \in {"copy", "restore"} /\ TornFinal
                 THEN {file, [file EXCEPT ![spec.major] = Torn]} ELSE {file}
    /\ pc' = "down" /\ src' = NoArchive
    /\ used' = [used EXCEPT !.kills = @ + 1]
    /\ UNCHANGED <<control, backups, ghosts>>
-----------------------------------------------------------------------------
(***************************************************************************)
(* The server's users, and the Instance's.                                  *)
(***************************************************************************)
ChangeAccount ==
    /\ pc = "serving" /\ used.edits < MaxEdits
    /\ \E u \in Users :
          LET change(s) == IF u \in s THEN s \ {u} ELSE s \cup {u}
          IN  /\ file' = [file EXCEPT ![spec.major].users = change(@)]
              /\ accounts' = change(accounts)
    /\ used' = [used EXCEPT !.edits = @ + 1]
    /\ UNCHANGED <<control, pc, src, migrated, source, backups, saved>>

(***************************************************************************)
(* A recreated Instance is owed what the last successful backup of a major  *)
(* no newer than its own saved; without a backup volume, nothing.           *)
(***************************************************************************)
Owed(n) ==
    LET S == {i \in DOMAIN saved : saved[i].major <= n}
    IN  IF S = {} THEN {}
        ELSE saved[CHOOSE i \in S : \A j \in S : j <= i].users

(* Changes the pod template, so the pod is replaced.                        *)
EnableBackup ==
    /\ plan = "serve" /\ ~spec.backup
    /\ spec' = [spec EXCEPT !.backup = TRUE]
    /\ pc' = "down" /\ src' = NoArchive
    /\ accounts' = IF file[spec.major] = Missing THEN Owed(spec.major) ELSE accounts
    /\ UNCHANGED <<plan, next, done, volume, backups, saved, used>>

(* startMajorUpgrade: upwards only, and with a backup volume.               *)
StartUpgrade ==
    /\ plan = "serve" /\ pc = "serving" /\ spec.backup /\ used.lives < MaxLives
    /\ plan' = "upgrade" /\ done' = FALSE
    /\ \E n \in Majors : n > spec.major /\ next' = n
    /\ UNCHANGED <<spec, pc, src, volume, backups, ghosts, used>>

WantsBackup == plan = "upgrade" \/ (spec.backup /\ spec.keep)

StartDeletion ==
    /\ plan = "serve" /\ (pc = "serving" \/ ~WantsBackup)
    /\ plan' = "delete" /\ done' = FALSE
    /\ UNCHANGED <<spec, next, pc, src, volume, backups, ghosts, used>>

(* Users may still edit an Instance that is being deleted.                  *)
KeepOff ==
    /\ plan = "delete" /\ spec.keep
    /\ spec' = [spec EXCEPT !.keep = FALSE]
    /\ UNCHANGED <<plan, next, done, pc, src, volume, backups, ghosts, used>>

(* backupDatabases stops the server first.                                  *)
StopServer ==
    /\ plan \in {"upgrade", "delete"} /\ pc # "down"
    /\ pc' = "down" /\ src' = NoArchive
    /\ UNCHANGED <<control, volume, backups, ghosts, used>>

(***************************************************************************)
(* databaseBackupScript's last command: gbak of security<M>.fdb, M being    *)
(* the major that ran, over an older archive of M.                          *)
(***************************************************************************)
(* Faulty variant: the archive keeps the time of the one it replaces.       *)
WriteUntimed(st, users) ==
    /\ clock' = clock + 1
    /\ fbk' = [fbk EXCEPT ![spec.major] = [st |-> st, users |-> users, time |-> @.time]]

Write(st, users) ==
    /\ clock' = clock + 1
    /\ fbk' = [fbk EXCEPT ![spec.major] = [st |-> st, users |-> users, time |-> clock']]

BackingUp == plan \in {"upgrade", "delete"} /\ pc = "down" /\ WantsBackup /\ ~done

BackUp ==
    /\ BackingUp /\ file[spec.major].st = "ok"
    /\ Write("ok", file[spec.major].users)
    /\ saved' = Append(saved, [major |-> spec.major, users |-> accounts])
    /\ done' = TRUE
    /\ UNCHANGED <<plan, spec, next, pc, src, volume, accounts, used>>

BackupKilled ==
    /\ BackingUp /\ used.kills < MaxKills
    /\ Write("torn", {})
    /\ used' = [used EXCEPT !.kills = @ + 1]
    /\ UNCHANGED <<control, pc, src, volume, ghosts>>

(* Faulty variant: the volume goes whether or not the backup succeeded.     *)
ReleaseUnsaved ==
    /\ plan \in {"upgrade", "delete"} /\ pc = "down"
    /\ file' = Empty /\ migrated' = Missing /\ source' = Missing
    /\ IF plan = "upgrade"
       THEN /\ plan' = "serve" /\ spec' = [spec EXCEPT !.major = next]
            /\ used' = [used EXCEPT !.lives = @ + 1]
       ELSE plan' = "gone" /\ UNCHANGED <<spec, used>>
    /\ UNCHANGED <<next, done, pc, src, backups, ghosts>>

(* releasePrimaryAndShadowStorage; an upgrade then starts its new version.  *)
Release ==
    /\ plan \in {"upgrade", "delete"} /\ pc = "down"
    /\ done \/ ~WantsBackup
    /\ file' = Empty /\ migrated' = Missing /\ source' = Missing
    /\ IF plan = "upgrade"
       THEN /\ plan' = "serve" /\ spec' = [spec EXCEPT !.major = next]
            /\ used' = [used EXCEPT !.lives = @ + 1]
       ELSE plan' = "gone" /\ UNCHANGED <<spec, used>>
    /\ UNCHANGED <<next, done, pc, src, backups, ghosts>>

Recreate ==
    /\ plan = "gone" /\ used.lives < MaxLives
    /\ plan' = "serve"
    /\ spec' \in [major : Majors, backup : BOOLEAN, keep : BOOLEAN]
    /\ accounts' = IF spec'.backup THEN Owed(spec'.major) ELSE {}
    /\ used' = [used EXCEPT !.lives = @ + 1]
    /\ UNCHANGED <<next, done, pc, src, volume, backups, saved>>
-----------------------------------------------------------------------------
InitContainer ==
    \/ PodStarts \/ CheckExisting \/ CopyDefault \/ Restore
    \/ ClearTemporary \/ SeedMigrated \/ RestoreSource \/ CopyUsers
    \/ RemoveSource \/ Rename \/ CommandFails

Controller == StopServer \/ BackUp \/ Release

Next ==
    \/ InitContainer \/ Controller \/ Killed \/ BackupKilled
    \/ ChangeAccount \/ EnableBackup \/ StartUpgrade \/ StartDeletion
    \/ KeepOff \/ Recreate

Spec == Init /\ [][Next]_vars

(* The kubelet keeps starting the pod, and the controller keeps going.      *)
FairSpec == Spec /\ WF_vars(InitContainer) /\ WF_vars(Controller)
-----------------------------------------------------------------------------
(***************************************************************************)
(* A server has exactly the accounts it must have: none is lost, and none   *)
(* that was dropped comes back from an archive left behind by an earlier    *)
(* major (securityDatabaseInitScript's choice of the newest archive, the    *)
(* migration, databaseBackupScript).                                        *)
(***************************************************************************)
ServesAccounts == pc = "serving" => file[spec.major].users = accounts

(***************************************************************************)
(* No server ever runs on a security database that is half built: what a    *)
(* pod start finds under the final name is finished (the rename that ends   *)
(* the migration).                                                          *)
(***************************************************************************)
ServesWhole == pc = "serving" => file[spec.major].st = "ok"

(***************************************************************************)
(* While an upgrade or a deletion with a backup is under way, the accounts  *)
(* are whole on the volume until the backup has succeeded, and from then on *)
(* in the newest archive, whenever a pod dies: what the release of the      *)
(* volume relies on (databaseBackupScript, releasePrimaryAndShadowStorage). *)
(***************************************************************************)
AccountsSafe ==
    plan \in {"upgrade", "delete"} /\ WantsBackup =>
        IF ~done THEN file[spec.major] = Whole(accounts)
        ELSE /\ Archive(spec.major) = [major |-> spec.major, st |-> "ok", users |-> accounts]
             /\ \A m \in Majors : fbk[m].time <= fbk[spec.major].time

(***************************************************************************)
(* Whatever an interrupted start left behind, a server that is wanted gets  *)
(* to run in the end (the rm -f of the temporary files).  The one exception *)
(* is a newest archive that a backup, given up halfway, left incomplete.    *)
(***************************************************************************)
Unreadable == spec.backup /\ Chosen(spec.major).st = "torn"

ServerStarts == plan = "serve" ~> pc = "serving" \/ plan # "serve" \/ Unreadable
=============================================================================
