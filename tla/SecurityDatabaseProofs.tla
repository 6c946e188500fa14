----------------------- MODULE SecurityDatabaseProofs -----------------------
(***************************************************************************)
(* What holds of SecurityDatabase for all users, every set of Firebird      *)
(* majors and every bound on volumes, account changes and killed pods.      *)
(***************************************************************************)
EXTENDS SecurityDatabase, BoundedSets, SequenceTheorems, TLAPS

(***************************************************************************)
(* Types.  securityDatabaseInitScript's choice is well defined: among the   *)
(* archives a major can read, if there are any, one is the newest, since no *)
(* two were written at one time.                                            *)
(***************************************************************************)
Newest(m, n) ==
    m \in Candidates(n) /\ \A k \in Candidates(n) : fbk[k].time <= fbk[m].time

NewestExists == \A n \in Majors : Candidates(n) # {} => \E m \in Majors : Newest(m, n)
TimesPast    == \A m \in Majors : fbk[m].time <= clock
(* An upgrade is started only while another volume may be made.             *)
Room         == plan = "upgrade" => used.lives < MaxLives

TypeInv == TypeOK /\ NewestExists /\ TimesPast /\ Room

(* The contents a file may have.                                            *)
LEMMA ContentsType ==
    /\ Missing \in Contents /\ Torn \in Contents
    /\ \A u \in SUBSET Users : Whole(u) \in Contents
    /\ Empty \in [Majors -> Contents]
    /\ Missing.st = "missing" /\ Torn.st = "torn"
    /\ \A u : Whole(u).st = "ok" /\ Whole(u).users = u
BY DEF Contents, Missing, Torn, Whole, Empty

(* A counter below its bound may be counted up.                             *)
LEMMA CountType ==
    ASSUME NEW u \in [lives : 0..MaxLives, edits : 0..MaxEdits, kills : 0..MaxKills]
    PROVE  LET U == [lives : 0..MaxLives, edits : 0..MaxEdits, kills : 0..MaxKills]
           IN  /\ u.lives < MaxLives => [u EXCEPT !.lives = @ + 1] \in U
               /\ u.edits < MaxEdits => [u EXCEPT !.edits = @ + 1] \in U
               /\ u.kills < MaxKills => [u EXCEPT !.kills = @ + 1] \in U
<1>1. /\ MaxLives \in Nat /\ MaxEdits \in Nat /\ MaxKills \in Nat
  BY SecurityAssumption
<1>2. \A n \in Nat : \A i \in 0..n : i < n => i + 1 \in 0..n
  OBVIOUS
<1>3. u.lives \in 0..MaxLives /\ u.edits \in 0..MaxEdits /\ u.kills \in 0..MaxKills
  OBVIOUS
<1>4. /\ u.lives < MaxLives => u.lives + 1 \in 0..MaxLives
      /\ u.edits < MaxEdits => u.edits + 1 \in 0..MaxEdits
      /\ u.kills < MaxKills => u.kills + 1 \in 0..MaxKills
  BY <1>1, <1>2, <1>3
<1> QED BY <1>3, <1>4

(* The archive the init container chooses is the newest it can read.        *)
LEMMA ChosenNewest ==
    ASSUME TypeInv, NEW n \in Majors
    PROVE  \/ Candidates(n) = {} /\ Chosen(n) = NoArchive
           \/ \E m \in Majors : Newest(m, n) /\ Chosen(n) = Archive(m)
<1>1. CASE Candidates(n) = {}
  BY <1>1 DEF Chosen
<1>2. CASE Candidates(n) # {}
  <2> DEFINE c == CHOOSE m \in Candidates(n) :
                    \A k \in Candidates(n) : fbk[k].time <= fbk[m].time
  <2>1. \E m \in Candidates(n) : \A k \in Candidates(n) : fbk[k].time <= fbk[m].time
    BY <1>2 DEF TypeInv, NewestExists, Newest
  <2>2. c \in Candidates(n) /\ \A k \in Candidates(n) : fbk[k].time <= fbk[c].time
    BY <2>1
  <2>3. c \in Majors /\ Newest(c, n)
    BY <2>2 DEF Newest, Candidates
  <2> QED BY <1>2, <2>3 DEF Chosen
<1> QED BY <1>1, <1>2

(* It is an archive, and never one that is missing.                         *)
LEMMA ChosenType ==
    ASSUME TypeInv, NEW n \in Majors
    PROVE  Chosen(n) \in Sources \cup {NoArchive}
<1>1. ASSUME NEW m \in Majors, Newest(m, n)
      PROVE  Archive(m) \in Sources
  <2>1. fbk[m] \in Archives /\ fbk[m].st # "missing"
    BY <1>1 DEF TypeInv, TypeOK, Newest, Candidates
  <2> QED BY <2>1 DEF Archive, Sources, Archives
<1> QED BY <1>1, ChosenNewest

(* A new archive is the newest one for every major that can read it, and    *)
(* the others' choice stays.                                                *)
LEMMA WriteNewest ==
    ASSUME TypeInv, NEW st \in {"torn", "ok"}, NEW u \in SUBSET Users, Write(st, u),
           NEW n \in Majors
    PROVE  /\ spec.major <= n => \A m \in Majors : Newest(m, n)' <=> m = spec.major
           /\ ~(spec.major <= n) =>
                 /\ Candidates(n)' = Candidates(n)
                 /\ \A m \in Majors : Newest(m, n)' <=> Newest(m, n)
                 /\ \A m \in Candidates(n) : fbk'[m] = fbk[m]
<1>0. PICK M \in Majors : M = spec.major
  BY DEF TypeInv, TypeOK
<1>1. M \in Majors /\ clock \in Nat /\ fbk \in [Majors -> Archives]
  BY DEF TypeInv, TypeOK
<1>2. \A m \in Majors : m \in Nat
  BY SecurityAssumption
<1>3. /\ fbk'[M] = [st |-> st, users |-> u, time |-> clock + 1]
      /\ \A m \in Majors \ {M} : fbk'[m] = fbk[m]
  BY <1>0, <1>1 DEF Write
<1>4. \A m \in Majors : fbk[m].time \in Nat /\ fbk[m].time <= clock
  BY <1>1 DEF TypeInv, TimesPast, Archives
<1>5. \A m \in Majors \ {M} : fbk'[m].time < fbk'[M].time
  BY <1>1, <1>3, <1>4
<1>6. CASE M <= n
  <2>1. M \in Candidates(n)'
    BY <1>1, <1>3, <1>6 DEF Candidates
  <2>2. fbk'[M].time \in Nat /\ \A m \in Majors \ {M} : fbk'[m].time \in Nat
    BY <1>1, <1>3, <1>4
  <2>3. Newest(M, n)'
    BY <1>5, <2>1, <2>2 DEF Newest, Candidates
  <2>4. ASSUME NEW m \in Majors, Newest(m, n)', m # M
        PROVE  FALSE
    BY <1>5, <2>1, <2>2, <2>4 DEF Newest
  <2> QED BY <1>0, <1>2, <1>6, <2>3, <2>4
<1>7. CASE ~(M <= n)
  <2>1. Candidates(n)' = Candidates(n)
    BY <1>3, <1>7 DEF Candidates
  <2>2. \A m \in Candidates(n) : m # M /\ m \in Majors
    BY <1>7 DEF Candidates
  <2>3. \A m \in Candidates(n) : fbk'[m] = fbk[m]
    BY <1>3, <2>2
  <2> QED BY <1>0, <1>7, <2>1, <2>3 DEF Newest
<1> QED BY <1>0, <1>6, <1>7

(* Writing an archive keeps the types.                                      *)
LEMMA WriteType ==
    ASSUME TypeInv, NEW st \in {"torn", "ok"}, NEW u \in SUBSET Users, Write(st, u)
    PROVE  /\ fbk' \in [Majors -> Archives] /\ clock' \in Nat
           /\ \A m \in Majors : fbk'[m].st = "missing" <=> fbk'[m].time = 0
           /\ \A m, k \in Majors : fbk'[m].time = fbk'[k].time /\ fbk'[m].time # 0 => m = k
           /\ NewestExists' /\ TimesPast'
<1> DEFINE M == spec.major
<1>1. M \in Majors /\ clock \in Nat /\ fbk \in [Majors -> Archives]
  BY DEF TypeInv, TypeOK
<1>2. /\ fbk'[M] = [st |-> st, users |-> u, time |-> clock + 1] /\ clock' = clock + 1
      /\ \A m \in Majors \ {M} : fbk'[m] = fbk[m]
  BY <1>1 DEF Write
<1>3. \A m \in Majors : fbk[m].time \in Nat /\ fbk[m].time <= clock
  BY <1>1 DEF TypeInv, TimesPast, Archives
<1>4. fbk' \in [Majors -> Archives] /\ clock' \in Nat
  <2>1. [st |-> st, users |-> u, time |-> clock'] \in Archives
    BY <1>1, <1>2 DEF Archives
  <2> QED BY <1>1, <1>2, <2>1 DEF Write
<1>5. fbk'[M].st # "missing" /\ fbk'[M].time = clock + 1 /\ fbk'[M].time # 0
  BY <1>1, <1>2
<1>6. \A m \in Majors : fbk'[m].st = "missing" <=> fbk'[m].time = 0
  BY <1>2, <1>5 DEF TypeInv, TypeOK
<1>7. \A m, k \in Majors : fbk'[m].time = fbk'[k].time /\ fbk'[m].time # 0 => m = k
  <2>1. \A m \in Majors \ {M} : fbk'[m].time # clock + 1
    BY <1>1, <1>2, <1>3
  <2> QED BY <1>2, <1>5, <2>1 DEF TypeInv, TypeOK
<1>8. TimesPast'
  BY <1>1, <1>2, <1>3, <1>5 DEF TimesPast
<1>9. NewestExists'
  <2> SUFFICES ASSUME NEW n \in Majors, Candidates(n)' # {}
               PROVE  \E m \in Majors : Newest(m, n)'
    BY DEF NewestExists
  <2> QED BY <1>1, WriteNewest DEF TypeInv, NewestExists
<1> QED BY <1>4, <1>6, <1>7, <1>8, <1>9

(* So does leaving them alone.                                              *)
LEMMA KeepType ==
    ASSUME TypeInv, UNCHANGED backups
    PROVE  /\ fbk' \in [Majors -> Archives] /\ clock' \in Nat
           /\ \A m \in Majors : fbk'[m].st = "missing" <=> fbk'[m].time = 0
           /\ \A m, k \in Majors : fbk'[m].time = fbk'[k].time /\ fbk'[m].time # 0 => m = k
           /\ NewestExists' /\ TimesPast'
BY DEF TypeInv, TypeOK, backups, NewestExists, TimesPast, Newest, Candidates

(* What a recreated Instance is owed is what the last backup saved that its *)
(* server could read, or nothing.                                           *)
LEMMA OwedLast ==
    ASSUME saved \in Seq([major : Majors, users : SUBSET Users]), NEW n \in Majors
    PROVE  \/ Owed(n) = {} /\ \A i \in DOMAIN saved : ~(saved[i].major <= n)
           \/ \E i \in DOMAIN saved :
                 /\ Owed(n) = saved[i].users /\ saved[i].major <= n
                 /\ \A j \in DOMAIN saved : saved[j].major <= n => j <= i
<1> DEFINE S == {i \in DOMAIN saved : saved[i].major <= n}
           c == CHOOSE i \in S : \A j \in S : j <= i
<1>1. CASE S = {}
  BY <1>1 DEF Owed
<1>2. CASE S # {}
  <2>1. Len(saved) \in Nat /\ S \in SUBSET (0..Len(saved))
    BY LenProperties
  <2> HIDE DEF S
  <2>2. \E i \in S : \A j \in S : j <= i
    BY <1>2, <2>1, GreatestExists
  <2>3. c \in S /\ \A j \in S : j <= c
    BY <2>2
  <2>4. Owed(n) = saved[c].users
    BY <1>2 DEF Owed, S
  <2> QED BY <2>3, <2>4 DEF S
<1> QED BY <1>1, <1>2

(* These are accounts.                                                      *)
LEMMA OwedType ==
    ASSUME saved \in Seq([major : Majors, users : SUBSET Users]), NEW n \in Majors
    PROVE  Owed(n) \in SUBSET Users
<1>1. \A i \in DOMAIN saved : saved[i] \in [major : Majors, users : SUBSET Users]
  BY ElementOfSeq, LenProperties
<1> QED BY <1>1, OwedLast

(* The first states are well typed.                                         *)
LEMMA TypeInit == Init => TypeInv
<1> SUFFICES ASSUME Init PROVE TypeInv
  OBVIOUS
<1>1. used \in [lives : 0..MaxLives, edits : 0..MaxEdits, kills : 0..MaxKills]
  BY SecurityAssumption DEF Init
<1>2. fbk \in [Majors -> Archives] /\ \A m \in Majors : fbk[m] = NeverWritten
  BY DEF Init, Archives, NeverWritten
<1>3. saved \in Seq([major : Majors, users : SUBSET Users])
  BY DEF Init
<1>4. /\ \A m \in Majors : fbk[m].st = "missing" /\ fbk[m].time = 0
  BY <1>2 DEF NeverWritten
<1>5. TypeOK
  BY <1>1, <1>2, <1>3, <1>4, ContentsType DEF Init, TypeOK
<1>6. NewestExists /\ TimesPast
  BY <1>4 DEF Init, NewestExists, TimesPast, Candidates
<1> QED BY <1>5, <1>6 DEF TypeInv, Room, Init

(* Every action keeps the types.                                            *)
LEMMA TypeNext == TypeInv /\ [Next]_vars => TypeInv'
<1> SUFFICES ASSUME TypeInv, [Next]_vars PROVE TypeInv'
  OBVIOUS
<1> USE ContentsType
<1> DEFINE BackupsOK ==
             /\ fbk' \in [Majors -> Archives] /\ clock' \in Nat
             /\ \A m \in Majors : fbk'[m].st = "missing" <=> fbk'[m].time = 0
             /\ \A m, k \in Majors : fbk'[m].time = fbk'[k].time /\ fbk'[m].time # 0 => m = k
             /\ NewestExists' /\ TimesPast'
           Counts == [lives : 0..MaxLives, edits : 0..MaxEdits, kills : 0..MaxKills]
           Specs == [major : Majors, backup : BOOLEAN, keep : BOOLEAN]
           Saves == Seq([major : Majors, users : SUBSET Users])
           ControlOK == /\ plan' \in {"serve", "upgrade", "delete", "gone"}
                        /\ spec' \in Specs /\ next' \in Majors /\ done' \in BOOLEAN
           PodOK == /\ pc' \in {"down", "serving"} \cup InitSteps
                    /\ src' \in Sources \cup {NoArchive}
           VolumeOK == /\ file' \in [Majors -> Contents]
                       /\ migrated' \in Contents /\ source' \in Contents
           GhostsOK == accounts' \in SUBSET Users /\ saved' \in Saves
           CountsOK == used' \in Counts /\ Room'
<1>1. SUFFICES BackupsOK /\ ControlOK /\ PodOK /\ VolumeOK /\ GhostsOK /\ CountsOK
  BY DEF TypeInv, TypeOK
<1>2. /\ plan \in {"serve", "upgrade", "delete", "gone"} /\ spec \in Specs
      /\ next \in Majors /\ done \in BOOLEAN
      /\ pc \in {"down", "serving"} \cup InitSteps /\ src \in Sources \cup {NoArchive}
      /\ file \in [Majors -> Contents] /\ migrated \in Contents /\ source \in Contents
      /\ accounts \in SUBSET Users /\ saved \in Saves /\ used \in Counts
      /\ plan = "upgrade" => used.lives < MaxLives
  BY DEF TypeInv, TypeOK, Room
<1>3. spec.major \in Majors /\ file[spec.major] \in Contents
  BY <1>2
<1>4. UNCHANGED backups => BackupsOK
  BY KeepType
<1>5. /\ UNCHANGED control => ControlOK
      /\ UNCHANGED volume => VolumeOK
      /\ UNCHANGED ghosts => GhostsOK
      /\ plan' # "upgrade" \/ plan' = plan => (UNCHANGED used => CountsOK)
      /\ UNCHANGED control => plan' = plan
  BY <1>2 DEF control, volume, ghosts, Room
<1> HIDE DEF BackupsOK, ControlOK, GhostsOK, CountsOK
<1>6. CASE PodStarts
  BY <1>2, <1>4, <1>5, <1>6 DEF PodStarts, Goto, InitSteps
<1>7. CASE CheckExisting
  <2>1. Chosen(spec.major) \in Sources \cup {NoArchive}
    BY <1>3, ChosenType
  <2>2. \A a : Seeding(a) \in InitSteps
    BY DEF Seeding, InitSteps
  <2>3. PodOK
    BY <1>7, <2>1, <2>2 DEF CheckExisting, Serve
  <2> QED BY <1>4, <1>5, <1>7, <2>3 DEF CheckExisting
<1>8. CASE CopyDefault
  BY <1>2, <1>3, <1>4, <1>5, <1>8 DEF CopyDefault, Serve
<1>9. CASE Restore
  <2>1. src.users \in SUBSET Users
    BY <1>2 DEF Sources, NoArchive
  <2> QED BY <1>2, <1>3, <1>4, <1>5, <1>9, <2>1 DEF Restore, Serve
<1>10. CASE ClearTemporary \/ SeedMigrated \/ RemoveSource
  BY <1>2, <1>4, <1>5, <1>10
  DEF ClearTemporary, SeedMigrated, RemoveSource, Goto, InitSteps
<1>11. CASE RestoreSource
  <2>1. src.users \in SUBSET Users
    BY <1>2 DEF Sources, NoArchive
  <2> QED BY <1>2, <1>4, <1>5, <1>11, <2>1 DEF RestoreSource, Goto, InitSteps
<1>12. CASE CopyUsers
  <2>1. migrated.users \cup source.users \in SUBSET Users
    BY <1>2 DEF Contents
  <2> QED BY <1>2, <1>4, <1>5, <1>12, <2>1 DEF CopyUsers, Goto, InitSteps
<1>13. CASE Rename
  BY <1>2, <1>3, <1>4, <1>5, <1>13 DEF Rename, Serve
<1>14. CASE CommandFails
  BY <1>2, <1>3, <1>4, <1>5, <1>14 DEF CommandFails
<1>15. CASE Killed
  <2>1. CountsOK
    BY <1>2, <1>15, CountType DEF Killed, CountsOK, Room, control
  <2> QED BY <1>2, <1>3, <1>4, <1>5, <1>15, <2>1 DEF Killed
<1>16. CASE ChangeAccount
  <2>1. CountsOK
    BY <1>2, <1>16, CountType DEF ChangeAccount, CountsOK, Room, control
  <2>2. PICK u \in Users :
          /\ file' = [file EXCEPT ![spec.major].users = IF u \in @ THEN @ \ {u} ELSE @ \cup {u}]
          /\ accounts' = IF u \in accounts THEN accounts \ {u} ELSE accounts \cup {u}
    BY <1>16 DEF ChangeAccount
  <2>3. GhostsOK
    BY <1>2, <1>16, <2>2 DEF ChangeAccount, GhostsOK
  <2>4. [file[spec.major] EXCEPT !.users = IF u \in @ THEN @ \ {u} ELSE @ \cup {u}] \in Contents
    BY <1>3 DEF Contents
  <2>5. file' \in [Majors -> Contents]
    BY <1>2, <1>3, <2>2, <2>4
  <2> QED BY <1>2, <1>4, <1>5, <1>16, <2>1, <2>3, <2>5 DEF ChangeAccount
<1>17. ASSUME NEW n \in Majors
       PROVE  Owed(n) \in SUBSET Users
  BY <1>2, <1>17, OwedType
<1>18. CASE EnableBackup
  <2>1. accounts' \in SUBSET Users
    BY <1>2, <1>3, <1>17, <1>18 DEF EnableBackup
  <2>2. ControlOK /\ GhostsOK
    BY <1>2, <1>18, <2>1 DEF EnableBackup, ControlOK, GhostsOK
  <2> QED BY <1>2, <1>4, <1>5, <1>18, <2>2 DEF EnableBackup
<1>19. CASE StartUpgrade
  <2>1. ControlOK
    BY <1>2, <1>19 DEF StartUpgrade, ControlOK
  <2>2. CountsOK
    BY <1>2, <1>19 DEF StartUpgrade, CountsOK, Room
  <2> QED BY <1>2, <1>4, <1>5, <1>19, <2>1, <2>2 DEF StartUpgrade
<1>20. CASE StartDeletion
  <2>1. ControlOK
    BY <1>2, <1>20 DEF StartDeletion, ControlOK
  <2> QED BY <1>2, <1>4, <1>5, <1>20, <2>1 DEF StartDeletion
<1>21. CASE KeepOff
  <2>1. ControlOK
    BY <1>2, <1>21 DEF KeepOff, ControlOK
  <2> QED BY <1>2, <1>4, <1>5, <1>21, <2>1 DEF KeepOff
<1>22. CASE StopServer
  BY <1>2, <1>4, <1>5, <1>22 DEF StopServer
<1>23. CASE BackUp
  <2>1. file[spec.major].users \in SUBSET Users
    BY <1>3 DEF Contents
  <2>2. BackupsOK
    BY <1>23, <2>1, WriteType DEF BackUp, BackupsOK
  <2>3. saved' \in Saves
    <3>1. [major |-> spec.major, users |-> accounts] \in [major : Majors, users : SUBSET Users]
      BY <1>2, <1>3
    <3> QED BY <1>2, <1>23, <3>1, AppendProperties DEF BackUp
  <2>4. ControlOK /\ GhostsOK
    BY <1>2, <1>23, <2>3 DEF BackUp, ControlOK, GhostsOK
  <2> QED BY <1>2, <1>5, <1>23, <2>2, <2>4 DEF BackUp
<1>24. CASE BackupKilled
  <2>1. BackupsOK
    BY <1>24, WriteType DEF BackupKilled, BackupsOK
  <2>2. CountsOK
    BY <1>2, <1>24, CountType DEF BackupKilled, CountsOK, Room, control
  <2> QED BY <1>2, <1>5, <1>24, <2>1, <2>2 DEF BackupKilled
<1>25. CASE Release
  <2>1. ControlOK
    BY <1>2, <1>25 DEF Release, ControlOK
  <2>2. CountsOK
    BY <1>2, <1>25, CountType DEF Release, CountsOK, Room
  <2> QED BY <1>2, <1>4, <1>5, <1>25, <2>1, <2>2 DEF Release
<1>26. CASE Recreate
  <2>1. accounts' \in SUBSET Users
    BY <1>17, <1>26 DEF Recreate
  <2>2. ControlOK /\ GhostsOK
    BY <1>2, <1>26, <2>1 DEF Recreate, ControlOK, GhostsOK
  <2>3. CountsOK
    BY <1>2, <1>26, CountType DEF Recreate, CountsOK, Room
  <2> QED BY <1>2, <1>4, <1>5, <1>26, <2>2, <2>3 DEF Recreate
<1>27. CASE UNCHANGED vars
  BY <1>2, <1>4, <1>5, <1>27 DEF vars
<1> QED
  BY <1>6, <1>7, <1>8, <1>9, <1>10, <1>11, <1>12, <1>13, <1>14, <1>15, <1>16, <1>18, <1>19,
     <1>20, <1>21, <1>22, <1>23, <1>24, <1>25, <1>26, <1>27
  DEF Next, InitContainer, Controller

(* Every reachable state is well typed: no two archives in backup/base were *)
(* written at one time, so ls -t orders them.                               *)
THEOREM TypeCorrect == Spec => []TypeOK
<1>1. Init => TypeInv
  BY TypeInit
<1>2. TypeInv /\ [Next]_vars => TypeInv'
  BY TypeNext
<1>3. TypeInv => TypeOK
  BY DEF TypeInv
<1> QED BY <1>1, <1>2, <1>3, PTL DEF Spec
-----------------------------------------------------------------------------
(***************************************************************************)
(* The accounts.  Every archive that may be chosen holds what the last      *)
(* successful backup of a major no newer saved, unless it is incomplete.    *)
(***************************************************************************)
LastSaved(i, n) ==
    /\ i \in DOMAIN saved /\ saved[i].major <= n
    /\ \A j \in DOMAIN saved : saved[j].major <= n => j <= i

ArchivesTrue ==
    \A m, n \in Majors :
        Newest(m, n) /\ fbk[m].st = "ok" =>
            \E i \in DOMAIN saved : LastSaved(i, n) /\ saved[i].users = fbk[m].users

ArchivesKept ==
    \A n \in Majors :
        Candidates(n) = {} => \A i \in DOMAIN saved : ~(saved[i].major <= n)

(* Owed, told without a choice.                                             *)
IsOwed(n, users) ==
    \/ users = {} /\ \A i \in DOMAIN saved : ~(saved[i].major <= n)
    \/ \E i \in DOMAIN saved : LastSaved(i, n) /\ users = saved[i].users

(* The volume has the accounts or nothing, and then they are owed.          *)
OnVolume == file[spec.major] \in {Missing, Whole(accounts)}
Pending ==
    plan # "gone" /\ file[spec.major] = Missing =>
        IF spec.backup THEN IsOwed(spec.major, accounts) ELSE accounts = {}

(* The init container's steps.                                              *)
Serving == pc = "serving" => file[spec.major] # Missing
Seeds ==
    pc \in InitSteps \ {"check"} =>
        /\ file[spec.major] = Missing
        /\ src.st = "ok" => src.users = accounts
        /\ pc = "copy" => accounts = {}
Migrating ==
    /\ pc \in {"source", "users"} => migrated = Whole({})
    /\ pc = "users" => source = Whole(accounts)
    /\ pc \in {"tidy", "rename"} => migrated = Whole(accounts)

(* The controller's plans.                                                  *)
Upgrading == plan = "upgrade" => spec.backup /\ next > spec.major
Unreleased ==
    plan \in {"upgrade", "delete"} /\ WantsBackup => file[spec.major] # Missing
BackedUp ==
    plan \in {"upgrade", "delete"} /\ done =>
        /\ pc = "down"
        /\ Len(saved) > 0 /\ saved[Len(saved)] = [major |-> spec.major, users |-> accounts]
        /\ fbk[spec.major].st = "ok" /\ fbk[spec.major].users = accounts
        /\ fbk[spec.major].time = clock
Gone == plan = "gone" => pc = "down" /\ file = Empty

AccountInv ==
    /\ TypeInv
    /\ ArchivesTrue /\ ArchivesKept
    /\ OnVolume /\ Pending /\ Serving /\ Seeds /\ Migrating
    /\ Upgrading /\ Unreleased /\ BackedUp /\ Gone

(* What a recreated Instance gets is what it is owed.                       *)
LEMMA OwedIs ==
    ASSUME TypeInv, NEW n \in Majors
    PROVE  IsOwed(n, Owed(n))
BY OwedLast DEF TypeInv, TypeOK, IsOwed, LastSaved

(* The archive that is chosen, if it is complete, has what is owed.         *)
LEMMA ChosenOwed ==
    ASSUME TypeInv, ArchivesTrue, ArchivesKept, NEW n \in Majors, NEW u, IsOwed(n, u)
    PROVE  /\ Chosen(n).st = "ok" => Chosen(n).users = u
           /\ Chosen(n) = NoArchive => u = {}
<1>1. saved \in Seq([major : Majors, users : SUBSET Users])
  BY DEF TypeInv, TypeOK
<1>2. DOMAIN saved = 1..Len(saved) /\ Len(saved) \in Nat
  BY <1>1, LenProperties
<1>3. \A i, j \in DOMAIN saved : LastSaved(i, n) /\ LastSaved(j, n) => i = j
  BY <1>2 DEF LastSaved
<1>4. CASE Candidates(n) = {} /\ Chosen(n) = NoArchive
  <2>1. \A i \in DOMAIN saved : ~(saved[i].major <= n)
    BY <1>4 DEF ArchivesKept
  <2>2. u = {}
    BY <2>1 DEF IsOwed, LastSaved
  <2> QED BY <1>4, <2>2 DEF NoArchive
<1>5. ASSUME NEW m \in Majors, Newest(m, n), Chosen(n) = Archive(m)
      PROVE  /\ Chosen(n).st = "ok" => Chosen(n).users = u
             /\ Chosen(n) # NoArchive
  <2>1. Chosen(n).st = fbk[m].st /\ Chosen(n).users = fbk[m].users
    BY <1>5 DEF Archive
  <2>2. Chosen(n).st # "missing"
    BY <1>5, <2>1 DEF Newest, Candidates
  <2>3. ASSUME fbk[m].st = "ok"
        PROVE  fbk[m].users = u
    <3>1. PICK i \in DOMAIN saved : LastSaved(i, n) /\ saved[i].users = fbk[m].users
      BY <1>5, <2>3 DEF ArchivesTrue
    <3> QED BY <1>3, <3>1 DEF IsOwed, LastSaved
  <2> QED BY <2>1, <2>2, <2>3 DEF NoArchive
<1> QED BY <1>4, <1>5, ChosenNewest

(* After a backup succeeded, that is what is owed to a later major.         *)
LEMMA LastOwed ==
    ASSUME TypeInv, NEW n \in Majors, Len(saved) > 0, saved[Len(saved)].major <= n
    PROVE  IsOwed(n, saved[Len(saved)].users)
<1>1. DOMAIN saved = 1..Len(saved) /\ Len(saved) \in Nat
  BY LenProperties DEF TypeInv, TypeOK
<1>2. Len(saved) \in DOMAIN saved
  BY <1>1
<1> QED BY <1>1, <1>2 DEF IsOwed, LastSaved

(* A successful backup of the accounts keeps the archives true.             *)
LEMMA ArchivesBackUp ==
    ASSUME TypeInv, ArchivesTrue, ArchivesKept, NEW u \in SUBSET Users, Write("ok", u),
           saved' = Append(saved, [major |-> spec.major, users |-> u])
    PROVE  ArchivesTrue' /\ ArchivesKept'
<1>0. PICK M \in Majors : M = spec.major
  BY DEF TypeInv, TypeOK
<1> DEFINE e == [major |-> M, users |-> u]
           L == Len(saved)
<1>1. saved \in Seq([major : Majors, users : SUBSET Users])
  BY DEF TypeInv, TypeOK
<1>2. e \in [major : Majors, users : SUBSET Users]
  OBVIOUS
<1>3. /\ L \in Nat /\ DOMAIN saved = 1..L /\ DOMAIN saved' = 1..(L + 1)
      /\ saved'[L + 1] = e /\ \A i \in 1..L : saved'[i] = saved[i]
  BY <1>0, <1>1, <1>2, AppendProperties, LenProperties
<1>4. fbk'[M].users = u
  BY <1>0 DEF Write, TypeInv, TypeOK
<1>5. \A m \in Majors : m \in Nat
  BY SecurityAssumption
<1> HIDE DEF L
<1>6. ASSUME NEW m \in Majors, NEW n \in Majors, Newest(m, n)', fbk'[m].st = "ok"
      PROVE  \E i \in DOMAIN saved' : LastSaved(i, n)' /\ saved'[i].users = fbk'[m].users
  <2>1. CASE M <= n
    <3>1. m = M
      BY <1>0, <1>6, <2>1, WriteNewest
    <3>2. PICK k \in Nat : k = L + 1
      BY <1>3
    <3>3. LastSaved(k, n)' /\ k \in DOMAIN saved' /\ saved'[k].users = u
      BY <1>3, <2>1, <3>2 DEF LastSaved
    <3> QED BY <1>4, <3>1, <3>3
  <2>2. CASE ~(M <= n)
    <3>1. Newest(m, n) /\ fbk'[m] = fbk[m]
      BY <1>0, <1>6, <2>2, WriteNewest DEF Newest
    <3>2. PICK i \in DOMAIN saved : LastSaved(i, n) /\ saved[i].users = fbk[m].users
      BY <1>6, <3>1 DEF ArchivesTrue
    <3>3. LastSaved(i, n)'
      BY <1>3, <2>2, <3>2 DEF LastSaved
    <3> QED BY <1>3, <3>1, <3>2, <3>3
  <2> QED BY <2>1, <2>2
<1>7. ASSUME NEW n \in Majors, Candidates(n)' = {}, NEW i \in DOMAIN saved'
      PROVE  ~(saved'[i].major <= n)
  <2>1. ~(M <= n)
    <3>1. ASSUME M <= n PROVE FALSE
      <4>1. Newest(M, n)'
        BY <1>0, <3>1, WriteNewest
      <4> QED BY <1>7, <4>1 DEF Newest
    <3> QED BY <3>1
  <2>2. Candidates(n) = {}
    BY <1>0, <1>7, <2>1, WriteNewest
  <2> QED BY <1>3, <2>1, <2>2 DEF ArchivesKept
<1> QED BY <1>6, <1>7 DEF ArchivesTrue, ArchivesKept

(* A backup that was killed leaves an archive that nobody is owed.          *)
LEMMA ArchivesKilled ==
    ASSUME TypeInv, ArchivesTrue, ArchivesKept, Write("torn", {}), UNCHANGED saved
    PROVE  ArchivesTrue' /\ ArchivesKept'
<1>0. PICK M \in Majors : M = spec.major
  BY DEF TypeInv, TypeOK
<1>1. fbk'[M].st = "torn"
  BY <1>0 DEF Write, TypeInv, TypeOK
<1>2. ASSUME NEW m \in Majors, NEW n \in Majors, Newest(m, n)', fbk'[m].st = "ok"
      PROVE  \E i \in DOMAIN saved' : LastSaved(i, n)' /\ saved'[i].users = fbk'[m].users
  <2>1. ~(M <= n)
    BY <1>0, <1>1, <1>2, WriteNewest
  <2>2. Newest(m, n) /\ fbk'[m] = fbk[m]
    BY <1>0, <1>2, <2>1, WriteNewest DEF Newest
  <2> QED BY <1>2, <2>2 DEF ArchivesTrue, LastSaved
<1>3. ASSUME NEW n \in Majors, Candidates(n)' = {}, NEW i \in DOMAIN saved'
      PROVE  ~(saved'[i].major <= n)
  <2>1. ~(M <= n)
    <3>1. ASSUME M <= n PROVE FALSE
      <4>1. Newest(M, n)'
        BY <1>0, <3>1, WriteNewest
      <4> QED BY <1>3, <4>1 DEF Newest
    <3> QED BY <3>1
  <2>2. Candidates(n) = {}
    BY <1>0, <1>3, <2>1, WriteNewest
  <2> QED BY <1>3, <2>2 DEF ArchivesKept
<1> QED BY <1>2, <1>3 DEF ArchivesTrue, ArchivesKept

(* A command that writes security<M>.fdb itself is not killed halfway: the  *)
(* others (the migration's, gbak's into backup/base) may be, at any time.   *)
Undisturbed == TornFinal = FALSE

(* Every action keeps the accounts, as long as no command dies while it     *)
(* writes security<M>.fdb under its final name.                             *)
LEMMA AccountNext ==
    ASSUME Undisturbed
    PROVE  AccountInv /\ [Next]_vars => AccountInv'
<1> SUFFICES ASSUME AccountInv, [Next]_vars PROVE AccountInv'
  OBVIOUS
<1>t. TypeInv /\ TypeInv'
  BY TypeNext DEF AccountInv
<1> DEFINE Volumes == OnVolume /\ Pending /\ Serving /\ Seeds /\ Migrating
           Plans == Upgrading /\ Unreleased /\ BackedUp /\ Gone
           Archived == ArchivesTrue /\ ArchivesKept
<1>1. SUFFICES Archived' /\ Volumes' /\ Plans'
  BY <1>t DEF AccountInv
<1>2. Archived /\ Volumes /\ Plans
  BY DEF AccountInv
<1>3. UNCHANGED <<backups, saved>> => Archived'
  BY <1>2 DEF backups, ArchivesTrue, ArchivesKept, Newest, LastSaved, Candidates
<1>4. /\ spec.major \in Majors /\ file \in [Majors -> Contents] /\ accounts \in SUBSET Users
      /\ spec \in [major : Majors, backup : BOOLEAN, keep : BOOLEAN]
  BY <1>t DEF TypeInv, TypeOK
<1>5. /\ \A u : Whole(u) # Missing /\ Whole(u).st = "ok" /\ Whole(u).users = u
      /\ Missing.st = "missing"
  BY DEF Whole, Missing
<1> HIDE DEF Archived
<1>6. CASE PodStarts
  <2>1. Archived' /\ spec' = spec /\ file' = file /\ accounts' = accounts /\ plan' = plan
    BY <1>3, <1>6 DEF PodStarts, Goto, control, volume, ghosts
  <2>2. Volumes'
    BY <1>2, <1>6, <2>1
    DEF PodStarts, Goto, control, volume, ghosts, OnVolume, Pending, Serving, Seeds, Migrating,
        IsOwed, LastSaved, InitSteps
  <2>3. Plans'
    BY <1>2, <1>6, <2>1
    DEF PodStarts, Goto, control, volume, ghosts, Upgrading, Unreleased, BackedUp, Gone,
        WantsBackup
  <2> QED BY <2>1, <2>2, <2>3
(* The pod's own steps, which leave the plan, the archives and the ghosts.  *)
<1>7. ASSUME UNCHANGED <<control, backups, ghosts>>, pc # "down",
             file'[spec.major] \in {file[spec.major], Whole(accounts)}
      PROVE  Archived' /\ OnVolume' /\ Pending' /\ Plans' /\ spec' = spec /\ accounts' = accounts
  <2>1. /\ Archived' /\ spec' = spec /\ accounts' = accounts /\ plan' = plan /\ saved' = saved
        /\ next' = next /\ done' = done
    BY <1>3, <1>7 DEF control, ghosts
  <2>2. OnVolume' /\ Pending'
    BY <1>2, <1>5, <1>7, <2>1 DEF OnVolume, Pending, IsOwed, LastSaved
  <2>3. plan # "gone" /\ ~(plan \in {"upgrade", "delete"} /\ done)
    BY <1>2, <1>7 DEF Gone, BackedUp
  <2>4. Plans'
    BY <1>2, <1>5, <1>7, <2>1, <2>3 DEF Upgrading, Unreleased, BackedUp, Gone, WantsBackup
  <2> QED BY <2>1, <2>2, <2>4
<1>8. CASE CheckExisting
  <2>1. /\ Archived' /\ OnVolume' /\ Pending' /\ Plans' /\ spec' = spec
        /\ accounts' = accounts /\ file' = file
    BY <1>7, <1>8 DEF CheckExisting, volume
  <2>2. CASE file[spec.major].st # "missing"
    <3>1. pc' = "serving" /\ file[spec.major] # Missing
      BY <1>5, <1>8, <2>2 DEF CheckExisting, Serve
    <3> QED BY <2>1, <3>1 DEF Serving, Seeds, Migrating, InitSteps
  <2>3. CASE file[spec.major].st = "missing"
    <3>1. /\ src' = IF spec.backup THEN Chosen(spec.major) ELSE NoArchive
          /\ pc' = Seeding(src')
      BY <1>8, <2>3 DEF CheckExisting
    <3>2. file[spec.major] = Missing /\ plan # "gone"
      BY <1>2, <1>5, <1>8, <2>3 DEF OnVolume, Gone, CheckExisting
    <3>3. (src'.st = "ok" => src'.users = accounts) /\ (src' = NoArchive => accounts = {})
      <4>1. CASE spec.backup
        <5>1. IsOwed(spec.major, accounts)
          BY <1>2, <3>2, <4>1 DEF Pending
        <5> QED BY <1>t, <1>2, <1>4, <3>1, <4>1, <5>1, ChosenOwed DEF Archived
      <4>2. CASE ~spec.backup
        BY <1>2, <3>1, <3>2, <4>2 DEF Pending, NoArchive
      <4> QED BY <4>1, <4>2
    <3>4. pc' \in {"copy", "clear", "restore"} /\ (pc' = "copy" => src' = NoArchive)
      BY <3>1 DEF Seeding
    <3> QED
      BY <2>1, <3>2, <3>3, <3>4 DEF Serving, Seeds, Migrating
  <2> QED BY <2>2, <2>3
<1>9. CASE CopyDefault
  <2>1. file'[spec.major] = Whole(accounts) /\ pc' = "serving"
    BY <1>2, <1>4, <1>9 DEF CopyDefault, Serve, Seeds, InitSteps
  <2>2. /\ Archived' /\ OnVolume' /\ Pending' /\ Plans' /\ spec' = spec
    BY <1>7, <1>9, <2>1 DEF CopyDefault
  <2> QED BY <1>5, <2>1, <2>2 DEF Serving, Seeds, Migrating, InitSteps
<1>10. CASE Restore
  <2>1. file'[spec.major] = Whole(accounts) /\ pc' = "serving"
    BY <1>2, <1>4, <1>10 DEF Restore, Serve, Seeds, InitSteps
  <2>2. /\ Archived' /\ OnVolume' /\ Pending' /\ Plans' /\ spec' = spec
    BY <1>7, <1>10, <2>1 DEF Restore
  <2> QED BY <1>5, <2>1, <2>2 DEF Serving, Seeds, Migrating, InitSteps
<1>11. CASE ClearTemporary
  <2>1. /\ Archived' /\ OnVolume' /\ Pending' /\ Plans' /\ spec' = spec
        /\ accounts' = accounts /\ file' = file /\ src' = src /\ pc' = "seed"
    BY <1>7, <1>11 DEF ClearTemporary, Goto
  <2> QED BY <1>2, <1>11, <2>1 DEF ClearTemporary, Serving, Seeds, Migrating, InitSteps
<1>12. CASE SeedMigrated
  <2>1. /\ Archived' /\ OnVolume' /\ Pending' /\ Plans' /\ spec' = spec
        /\ accounts' = accounts /\ file' = file /\ src' = src /\ pc' = "source"
    BY <1>7, <1>12 DEF SeedMigrated, Goto
  <2> QED BY <1>2, <1>12, <2>1 DEF SeedMigrated, Serving, Seeds, Migrating, InitSteps
<1>13. CASE RestoreSource
  <2>1. /\ Archived' /\ OnVolume' /\ Pending' /\ Plans' /\ spec' = spec
        /\ accounts' = accounts /\ file' = file /\ src' = src /\ pc' = "users"
    BY <1>7, <1>13 DEF RestoreSource, Goto
  <2> QED BY <1>2, <1>13, <2>1 DEF RestoreSource, Serving, Seeds, Migrating, InitSteps
<1>14. CASE CopyUsers
  <2>1. /\ Archived' /\ OnVolume' /\ Pending' /\ Plans' /\ spec' = spec
        /\ accounts' = accounts /\ file' = file /\ src' = src /\ pc' = "tidy"
    BY <1>7, <1>14 DEF CopyUsers, Goto
  <2>2. migrated' = Whole(accounts)
    <3>1. migrated.users = {} /\ source.users = accounts
      BY <1>2, <1>5, <1>14 DEF CopyUsers, Migrating
    <3> QED BY <1>14, <3>1 DEF CopyUsers
  <2> QED BY <1>2, <1>14, <2>1, <2>2 DEF CopyUsers, Serving, Seeds, Migrating, InitSteps
<1>15. CASE RemoveSource
  <2>1. /\ Archived' /\ OnVolume' /\ Pending' /\ Plans' /\ spec' = spec
        /\ accounts' = accounts /\ file' = file /\ src' = src /\ pc' = "rename"
    BY <1>7, <1>15 DEF RemoveSource, Goto
  <2> QED BY <1>2, <1>15, <2>1 DEF RemoveSource, Serving, Seeds, Migrating, InitSteps
<1>16. CASE Rename
  <2>1. file'[spec.major] = Whole(accounts) /\ pc' = "serving"
    BY <1>2, <1>4, <1>16 DEF Rename, Serve, Migrating
  <2>2. /\ Archived' /\ OnVolume' /\ Pending' /\ Plans' /\ spec' = spec
    BY <1>7, <1>16, <2>1 DEF Rename
  <2> QED BY <1>5, <2>1, <2>2 DEF Serving, Seeds, Migrating, InitSteps
<1>17. CASE CommandFails
  <2>1. file' = file /\ pc' = "down" /\ pc # "down" /\ UNCHANGED <<control, backups, ghosts>>
    BY <1>17 DEF CommandFails, Undisturbed
  <2>2. /\ Archived' /\ OnVolume' /\ Pending' /\ Plans'
    BY <1>7, <2>1
  <2> QED BY <2>1, <2>2 DEF Serving, Seeds, Migrating, InitSteps
<1>18. CASE Killed
  <2>1. file' = file /\ pc' = "down" /\ pc # "down" /\ UNCHANGED <<control, backups, ghosts>>
    BY <1>18 DEF Killed, Undisturbed
  <2>2. /\ Archived' /\ OnVolume' /\ Pending' /\ Plans'
    BY <1>7, <2>1
  <2> QED BY <2>1, <2>2 DEF Serving, Seeds, Migrating, InitSteps
<1>19. CASE StopServer
  <2>1. file' = file /\ pc' = "down" /\ pc # "down" /\ UNCHANGED <<control, backups, ghosts>>
    BY <1>19 DEF StopServer, volume
  <2>2. /\ Archived' /\ OnVolume' /\ Pending' /\ Plans'
    BY <1>7, <2>1
  <2> QED BY <2>1, <2>2 DEF Serving, Seeds, Migrating, InitSteps
<1>20. CASE ChangeAccount
  <2>1. PICK u \in Users :
          /\ file' = [file EXCEPT ![spec.major].users = IF u \in @ THEN @ \ {u} ELSE @ \cup {u}]
          /\ accounts' = IF u \in accounts THEN accounts \ {u} ELSE accounts \cup {u}
    BY <1>20 DEF ChangeAccount
  <2>2. file[spec.major] = Whole(accounts) /\ pc = "serving"
    BY <1>2, <1>20 DEF ChangeAccount, Serving, OnVolume
  <2>3. file'[spec.major] = Whole(accounts')
    BY <1>4, <2>1, <2>2 DEF Whole
  <2>4. /\ spec' = spec /\ plan' = plan /\ done' = done /\ next' = next /\ pc' = pc /\ Archived'
    BY <1>3, <1>20 DEF ChangeAccount, control
  <2>5. Volumes'
    BY <1>5, <2>2, <2>3, <2>4
    DEF OnVolume, Pending, Serving, Seeds, Migrating, InitSteps
  <2>6. Plans'
    BY <1>2, <1>5, <2>2, <2>3, <2>4 DEF Upgrading, Unreleased, BackedUp, Gone, WantsBackup
  <2> QED BY <2>4, <2>5, <2>6
<1>21. CASE EnableBackup
  <2>1. /\ Archived' /\ spec' = [spec EXCEPT !.backup = TRUE] /\ file' = file /\ plan' = "serve"
        /\ pc' = "down" /\ saved' = saved
        /\ accounts' = IF file[spec.major] = Missing THEN Owed(spec.major) ELSE accounts
    BY <1>3, <1>21 DEF EnableBackup, volume
  <2>2. spec'.major = spec.major /\ spec'.backup
    BY <1>4, <2>1
  <2>3. IsOwed(spec.major, Owed(spec.major))
    BY <1>t, <1>4, OwedIs
  <2>4. OnVolume' /\ Pending'
    BY <1>2, <1>5, <2>1, <2>2, <2>3 DEF OnVolume, Pending, IsOwed, LastSaved
  <2> QED
    BY <2>1, <2>4
    DEF Serving, Seeds, Migrating, InitSteps, Upgrading, Unreleased, BackedUp, Gone
<1>22. CASE StartUpgrade
  <2>1. /\ Archived' /\ spec' = spec /\ file' = file /\ plan' = "upgrade" /\ ~done'
        /\ next' > spec.major /\ pc' = "serving" /\ accounts' = accounts /\ spec.backup
        /\ pc = "serving"
    BY <1>3, <1>22 DEF StartUpgrade, volume, ghosts
  <2>2. file[spec.major] = Whole(accounts)
    BY <1>2, <2>1 DEF Serving, OnVolume
  <2> QED
    BY <1>5, <2>1, <2>2
    DEF OnVolume, Pending, Serving, Seeds, Migrating, InitSteps, Upgrading, Unreleased,
        BackedUp, Gone
<1>23. CASE StartDeletion
  <2>1. /\ Archived' /\ spec' = spec /\ file' = file /\ plan' = "delete" /\ ~done'
        /\ pc' = pc /\ src' = src /\ migrated' = migrated /\ source' = source
        /\ accounts' = accounts /\ saved' = saved /\ plan = "serve"
    BY <1>3, <1>23 DEF StartDeletion, volume, ghosts
  <2>2. Volumes'
    BY <1>2, <2>1
    DEF OnVolume, Pending, Serving, Seeds, Migrating, InitSteps, IsOwed, LastSaved
  <2>3. pc = "serving" \/ ~(spec.backup /\ spec.keep)
    BY <1>23, <2>1 DEF StartDeletion, WantsBackup
  <2>4. Plans'
    BY <1>2, <2>1, <2>3
    DEF Serving, Upgrading, Unreleased, BackedUp, Gone, WantsBackup
  <2> QED BY <2>1, <2>2, <2>4
<1>24. CASE KeepOff
  <2>1. /\ Archived' /\ spec' = [spec EXCEPT !.keep = FALSE] /\ file' = file /\ plan' = "delete"
        /\ done' = done /\ pc' = pc /\ src' = src /\ migrated' = migrated /\ source' = source
        /\ accounts' = accounts /\ saved' = saved /\ plan = "delete" /\ fbk' = fbk
        /\ clock' = clock
    BY <1>3, <1>24 DEF KeepOff, volume, ghosts, backups
  <2>2. spec'.major = spec.major /\ spec'.backup = spec.backup /\ ~spec'.keep
    BY <1>4, <2>1
  <2>3. Volumes'
    BY <1>2, <2>1, <2>2
    DEF OnVolume, Pending, Serving, Seeds, Migrating, InitSteps, IsOwed, LastSaved
  <2>4. Plans'
    BY <1>2, <2>1, <2>2
    DEF Upgrading, Unreleased, BackedUp, Gone, WantsBackup
  <2> QED BY <2>1, <2>3, <2>4
<1>25. CASE BackUp
  <2>1. /\ spec' = spec /\ file' = file /\ plan' = plan /\ done' = TRUE /\ next' = next
        /\ pc' = "down" /\ accounts' = accounts /\ plan \in {"upgrade", "delete"}
        /\ file[spec.major].st = "ok" /\ Write("ok", file[spec.major].users)
        /\ saved' = Append(saved, [major |-> spec.major, users |-> accounts])
    BY <1>25 DEF BackUp, BackingUp, volume
  <2>2. file[spec.major] = Whole(accounts) /\ file[spec.major].users = accounts
    BY <1>2, <1>5, <2>1 DEF OnVolume
  <2>3. Archived'
    BY <1>t, <1>2, <1>4, <2>1, <2>2, ArchivesBackUp DEF Archived
  <2>4. Volumes'
    BY <1>5, <2>1, <2>2 DEF OnVolume, Pending, Serving, Seeds, Migrating, InitSteps
  <2>5. /\ fbk'[spec.major] = [st |-> "ok", users |-> accounts, time |-> clock']
    BY <1>t, <1>4, <2>1, <2>2 DEF Write, TypeInv, TypeOK
  <2>6. Len(saved') > 0 /\ saved'[Len(saved')] = [major |-> spec.major, users |-> accounts]
    <3>1. saved \in Seq([major : Majors, users : SUBSET Users])
      BY <1>t DEF TypeInv, TypeOK
    <3>2. [major |-> spec.major, users |-> accounts] \in [major : Majors, users : SUBSET Users]
      BY <1>4
    <3>3. Len(saved') = Len(saved) + 1 /\ Len(saved) \in Nat
      BY <2>1, <3>1, <3>2, AppendProperties, LenProperties
    <3> QED BY <2>1, <3>1, <3>2, <3>3, AppendProperties
  <2>7. Plans'
    BY <1>2, <1>5, <2>1, <2>2, <2>5, <2>6 DEF Upgrading, Unreleased, BackedUp, Gone, WantsBackup
  <2> QED BY <2>3, <2>4, <2>7
<1>26. CASE BackupKilled
  <2>1. /\ spec' = spec /\ file' = file /\ plan' = plan /\ done' = done /\ next' = next
        /\ pc' = "down" /\ accounts' = accounts /\ saved' = saved /\ Write("torn", {})
        /\ plan \in {"upgrade", "delete"} /\ ~done
    BY <1>26 DEF BackupKilled, BackingUp, control, volume, ghosts
  <2>2. Archived'
    BY <1>t, <1>2, <2>1, ArchivesKilled DEF Archived
  <2>3. Volumes'
    BY <1>2, <2>1
    DEF OnVolume, Pending, Serving, Seeds, Migrating, InitSteps, IsOwed, LastSaved
  <2>4. Plans'
    BY <1>2, <2>1 DEF Upgrading, Unreleased, BackedUp, Gone, WantsBackup
  <2> QED BY <2>2, <2>3, <2>4
<1>27. CASE Release
  <2>1. /\ Archived' /\ file' = Empty /\ pc' = "down" /\ accounts' = accounts /\ saved' = saved
        /\ pc = "down"
    BY <1>3, <1>27 DEF Release, ghosts
  <2>2. \A m \in Majors : file'[m] = Missing
    BY <2>1 DEF Empty
  <2>3. spec' \in [major : Majors, backup : BOOLEAN, keep : BOOLEAN]
    BY <1>t DEF TypeInv, TypeOK
  <2>4. CASE plan = "upgrade"
    <3>1. plan' = "serve" /\ spec' = [spec EXCEPT !.major = next] /\ done
      BY <1>27, <2>4 DEF Release, WantsBackup
    <3>2. /\ Len(saved) > 0 /\ saved[Len(saved)] = [major |-> spec.major, users |-> accounts]
          /\ next > spec.major /\ spec.backup /\ next \in Majors
      BY <1>t, <1>2, <2>4, <3>1 DEF Upgrading, BackedUp, TypeInv, TypeOK
    <3>3. spec'.major = next /\ spec'.backup
      BY <1>4, <3>1, <3>2
    <3>4. spec.major <= next
      <4>1. spec.major \in Nat /\ next \in Nat
        BY <1>4, <3>2, SecurityAssumption
      <4> QED BY <3>2, <4>1
    <3>5. IsOwed(next, accounts)
      BY <1>t, <3>2, <3>4, LastOwed
    <3>6. Pending' /\ OnVolume'
      BY <2>1, <2>2, <2>3, <3>3, <3>5 DEF Pending, OnVolume, IsOwed, LastSaved
    <3> QED
      BY <2>1, <3>1, <3>6
      DEF Serving, Seeds, Migrating, InitSteps, Upgrading, Unreleased, BackedUp, Gone
  <2>5. CASE plan # "upgrade"
    <3>1. plan' = "gone"
      BY <1>27, <2>5 DEF Release
    <3> QED
      BY <2>1, <2>2, <2>3, <3>1
      DEF OnVolume, Pending, Serving, Seeds, Migrating, InitSteps, Upgrading, Unreleased,
          BackedUp, Gone
  <2> QED BY <2>4, <2>5
<1>28. CASE Recreate
  <2>1. /\ Archived' /\ file' = file /\ pc' = pc /\ saved' = saved /\ plan' = "serve"
        /\ spec' \in [major : Majors, backup : BOOLEAN, keep : BOOLEAN]
        /\ accounts' = IF spec'.backup THEN Owed(spec'.major) ELSE {}
    BY <1>3, <1>28 DEF Recreate, volume
  <2>2. pc = "down" /\ \A m \in Majors : file[m] = Missing
    BY <1>2, <1>28 DEF Recreate, Gone, Empty
  <2>3. PICK n \in Majors : n = spec'.major
    BY <2>1
  <2>4. IsOwed(n, Owed(n))
    BY <1>t, OwedIs
  <2>5. OnVolume' /\ Pending'
    BY <2>1, <2>2, <2>3, <2>4 DEF OnVolume, Pending, IsOwed, LastSaved
  <2> QED
    BY <2>1, <2>2, <2>5
    DEF Serving, Seeds, Migrating, InitSteps, Upgrading, Unreleased, BackedUp, Gone
<1>29. CASE UNCHANGED vars
  <2>1. Archived'
    BY <1>3, <1>29 DEF vars, ghosts
  <2>2. Volumes'
    BY <1>2, <1>29
    DEF vars, control, volume, ghosts, OnVolume, Pending, Serving, Seeds, Migrating, InitSteps,
        IsOwed, LastSaved
  <2>3. Plans'
    BY <1>2, <1>29
    DEF vars, control, volume, backups, ghosts, Upgrading, Unreleased, BackedUp, Gone, WantsBackup
  <2> QED BY <2>1, <2>2, <2>3
<1> QED
  BY <1>6, <1>8, <1>9, <1>10, <1>11, <1>12, <1>13, <1>14, <1>15, <1>16, <1>17, <1>18, <1>19,
     <1>20, <1>21, <1>22, <1>23, <1>24, <1>25, <1>26, <1>27, <1>28, <1>29
  DEF Next, InitContainer, Controller
-----------------------------------------------------------------------------
(* The first states: nothing is saved, owed or written.                     *)
LEMMA AccountInit == Init => AccountInv
<1> SUFFICES ASSUME Init PROVE AccountInv
  OBVIOUS
<1>1. TypeInv
  BY TypeInit
<1>2. /\ \A n \in Majors : Candidates(n) = {}
      /\ DOMAIN saved = {} /\ spec.major \in Majors
  BY DEF Init, Candidates, NeverWritten
<1>3. ArchivesTrue /\ ArchivesKept
  BY <1>2 DEF ArchivesTrue, ArchivesKept, Newest
<1>4. file[spec.major] = Missing /\ accounts = {}
  BY <1>2 DEF Init, Empty
<1>5. OnVolume /\ Pending
  BY <1>2, <1>4 DEF OnVolume, Pending, IsOwed
<1> QED
  BY <1>1, <1>3, <1>5
  DEF Init, AccountInv, Serving, Seeds, Migrating, InitSteps, Upgrading, Unreleased, BackedUp,
      Gone

(* Whatever is upgraded, deleted, recreated or killed, the server has the   *)
(* accounts it must have: the archive the init script chooses is the one    *)
(* the last successful backup it can read wrote.                            *)
THEOREM AccountsServed ==
    ASSUME Undisturbed
    PROVE  Spec => []ServesAccounts
<1>1. Init => AccountInv
  BY AccountInit
<1>2. AccountInv /\ [Next]_vars => AccountInv'
  BY AccountNext
<1>3. AccountInv => ServesAccounts
  BY DEF AccountInv, ServesAccounts, Serving, OnVolume, Whole
<1> QED BY <1>1, <1>2, <1>3, PTL DEF Spec

(* No server runs on a half built security database: what the migration is  *)
(* building gets its final name only when it is finished.                   *)
THEOREM WholeServed ==
    ASSUME Undisturbed
    PROVE  Spec => []ServesWhole
<1>1. Init => AccountInv
  BY AccountInit
<1>2. AccountInv /\ [Next]_vars => AccountInv'
  BY AccountNext
<1>3. AccountInv => ServesWhole
  BY DEF AccountInv, ServesWhole, Serving, OnVolume, Whole
<1> QED BY <1>1, <1>2, <1>3, PTL DEF Spec

(* An upgrade or a deletion with a backup never loses the accounts: until   *)
(* the backup has succeeded they are on the volume, and from then on in the *)
(* newest archive, so the volume may go.                                    *)
THEOREM AccountsSaved ==
    ASSUME Undisturbed
    PROVE  Spec => []AccountsSafe
<1>1. Init => AccountInv
  BY AccountInit
<1>2. AccountInv /\ [Next]_vars => AccountInv'
  BY AccountNext
<1>3. AccountInv => AccountsSafe
  <2> SUFFICES ASSUME AccountInv, plan \in {"upgrade", "delete"}, WantsBackup
               PROVE  IF ~done THEN file[spec.major] = Whole(accounts)
                      ELSE /\ Archive(spec.major) =
                                [major |-> spec.major, st |-> "ok", users |-> accounts]
                           /\ \A m \in Majors : fbk[m].time <= fbk[spec.major].time
    BY DEF AccountsSafe
  <2>1. CASE ~done
    BY <2>1 DEF AccountInv, Unreleased, OnVolume
  <2>2. CASE done
    BY <2>2 DEF AccountInv, BackedUp, Archive, TypeInv, TimesPast
  <2> QED BY <2>1, <2>2
<1> QED BY <1>1, <1>2, <1>3, PTL DEF Spec
=============================================================================
