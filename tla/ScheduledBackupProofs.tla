------------------------ MODULE ScheduledBackupProofs ------------------------
(***************************************************************************)
(* Proofs about ScheduledBackup, for any databases, frequencies, retention,  *)
(* number of overlapping Jobs and bound on time.                            *)
(***************************************************************************)
EXTENDS ScheduledBackup, BoundedSets, TLAPS

(* Every set of times that is not empty has a latest one.                   *)
LEMMA LatestTime ==
    ASSUME NEW S \in SUBSET Time, S # {}
    PROVE  \E m \in S : \A x \in S : x <= m
  <1>1. MaxClock \in Nat /\ S \in SUBSET (0..MaxClock)
    BY ScheduleAssumption DEF Time
  <1> QED BY <1>1, GreatestExists

(* The newest pool of a frequency is one of its pools, or it has none.      *)
LEMMA NewestPool ==
    ASSUME NEW f
    PROVE  \/ Newest(f) = Never /\ \A ts \in Time : <<f, ts>> \notin pools
           \/ /\ Newest(f) \in Time /\ <<f, Newest(f)>> \in pools
              /\ \A ts \in Time : <<f, ts>> \in pools => ts <= Newest(f)
  <1> DEFINE S == {ts \in Time : <<f, ts>> \in pools}
  <1>1. CASE S = {}
    BY <1>1 DEF Newest
  <1>2. CASE S # {}
    <2>1. \E m \in S : \A x \in S : x <= m
      BY <1>2, LatestTime
    <2>2. \E m \in Time : /\ <<f, m>> \in pools
                          /\ \A x \in Time : <<f, x>> \in pools => x <= m
      BY <2>1
    <2> QED BY <1>2, <2>2 DEF Newest
  <1> QED BY <1>1, <1>2

(* Timestamps are numbers, and Never is none of the times.                  *)
LEMMA TimeFacts ==
    /\ \A t \in Time : t \in Nat /\ t \in Stamps /\ t # Never
    /\ \A t \in Stamps : t \in Int
  BY ScheduleAssumption DEF Time, Stamps, Never

(* What a run is about to write, and its name, are of their types.          *)
LEMMA NameType ==
    ASSUME NEW b \in Backups
    PROVE  Name(b) \in Names
  BY DEF Backups, Name, Names, Stamps, Never

(* What a run is about to write is a backup.                                *)
LEMMA NewBackupType ==
    ASSUME TypeOK, NEW r \in Runs, NEW db \in DB, run[r].ts \in Time
    PROVE  NewBackup(r, db) \in Backups
  <1>1. run[r] \in RunRecords /\ history[db] \in Names /\ NoRow \in Names
    BY DEF TypeOK, Names
  <1> QED BY <1>1 DEF NewBackup, Backups, RunRecords

(* A run with a timestamp has a proper one: TypeOK alone is not inductive.  *)
TypeInv == TypeOK /\ \A r \in Runs : Stamped(r) => run[r].ts \in Time

(* The initial states satisfy TypeInv.                                      *)
LEMMA TypeInit == Init => TypeInv
  <1> SUFFICES ASSUME Init PROVE TypeInv
    OBVIOUS
  <1>1. Idle \in RunRecords /\ Idle.pc = "none"
    BY NamesAssumption DEF Idle, RunRecords, Modes, Stamps
  <1> QED BY <1>1, ScheduleAssumption DEF Init, TypeInv, TypeOK, Time, Names, Stamped

(* Every step keeps it.                                                     *)
LEMMA TypeNext ==
    ASSUME TypeInv, [Next]_vars
    PROVE  TypeInv'
  <1> USE DEF TypeInv, Stamped
  <1>t. \A r \in Runs : run[r] \in RunRecords
    BY DEF TypeOK
  <1>1. ASSUME NEW r \in Runs, Start(r) PROVE TypeInv'
    <2>1. PICK c \in Freqs \X Modes :
             run' = [run EXCEPT ![r] =
                    [@ EXCEPT !.freq = c[1], !.mode = c[2],
                              !.pc = IF c[2] = "logical" THEN "claim" ELSE "lock"]]
      BY <1>1, ScheduleAssumption DEF Start
    <2>2. run'[r] \in RunRecords /\ ~Stamped(r)'
      BY <1>t, <2>1, ZenonT(60) DEF TypeOK, RunRecords, Modes
    <2> QED BY <1>1, <1>t, <2>1, <2>2 DEF Start, TypeOK
  <1>2. ASSUME NEW r \in Runs, Lock(r) PROVE TypeInv'
    BY <1>2, <1>t DEF Lock, Step, TypeOK, RunRecords
  <1>3. ASSUME NEW r \in Runs, Claim(r) PROVE TypeInv'
    BY <1>3, <1>t DEF Claim, TypeOK, RunRecords, Stamps
  <1>4. ASSUME NEW r \in Runs, CheckClaim(r) PROVE TypeInv'
    BY <1>4, <1>t DEF CheckClaim, Step, TypeOK, RunRecords
  <1>5. ASSUME NEW r \in Runs, ChoosePool(r) PROVE TypeInv'
    <2>1. PICK p \in Stamps : run' = [run EXCEPT ![r].pc = "backup", ![r].pool = p]
      <3>1. run[r].ts \in Stamps /\ Newest(run[r].freq) \in Stamps
        BY <1>t, NewestPool DEF Stamps, RunRecords
      <3> QED BY <1>5, <3>1 DEF ChoosePool
    <2>2. run' \in [Runs -> RunRecords]
      BY <1>t, <2>1, ZenonT(60) DEF TypeOK, RunRecords
    <2>3. pools' \subseteq pools \cup {<<run[r].freq, run[r].ts>>}
      BY <1>5 DEF ChoosePool
    <2>4. <<run[r].freq, run[r].ts>> \in Freqs \X Time
      BY <1>5, <1>t DEF ChoosePool, RunRecords
    <2> QED BY <1>5, <1>t, <2>1, <2>2, <2>3, <2>4 DEF ChoosePool, TypeOK, RunRecords
  <1>6. ASSUME NEW r \in Runs, BeginBackup(r) PROVE TypeInv'
    <2>1. PICK db \in run[r].left :
             /\ backups' = {b \in backups : Name(b) # Name(NewBackup(r, db))}
                             \cup {NewBackup(r, db)}
             /\ run' = [run EXCEPT ![r].busy = {NewBackup(r, db)}]
      BY <1>6 DEF BeginBackup
    <2>2. NewBackup(r, db) \in Backups
      BY <1>6, <1>t, NewBackupType DEF BeginBackup, RunRecords
    <2> QED BY <1>6, <1>t, <2>1, <2>2 DEF BeginBackup, TypeOK, RunRecords
  <1>7. ASSUME NEW r \in Runs, NEW b \in run[r].busy, Complete(r, b)
        PROVE  backups' \subseteq Backups /\ history' \in [DB -> Names]
    <2>1. b \in Backups /\ Name(b) \in Names /\ b.db \in DB
      BY <1>t, NameType DEF RunRecords, Backups
    <2>2. [b EXCEPT !.ok = TRUE] \in Backups
      BY <2>1 DEF Backups
    <2> QED BY <1>7, <2>1, <2>2 DEF Complete, TypeOK
  <1>8. ASSUME NEW r \in Runs, EndBackup(r) PROVE TypeInv'
    <2>1. PICK b \in run[r].busy :
             /\ Complete(r, b)
             /\ run' = [run EXCEPT ![r].busy = {}, ![r].left = @ \ {b.db}]
      BY <1>8 DEF EndBackup
    <2>2. backups' \subseteq Backups /\ history' \in [DB -> Names]
      BY <1>7, <2>1
    <2>3. run' \in [Runs -> RunRecords]
      BY <1>t, <2>1, ZenonT(60) DEF TypeOK, RunRecords
    <2>4. \A o \in Runs : Stamped(o)' => Stamped(o) /\ run'[o].ts = run[o].ts
      BY <1>t, <2>1 DEF TypeOK, RunRecords
    <2> QED BY <1>8, <2>2, <2>3, <2>4 DEF EndBackup, TypeOK
  <1>9. ASSUME NEW r \in Runs, BackupFails(r) PROVE TypeInv'
    BY <1>9, <1>t, ZenonT(60) DEF BackupFails, Exit, TypeOK, RunRecords
  <1>10. ASSUME NEW r \in Runs, BackupsTaken(r) PROVE TypeInv'
    BY <1>10, <1>t DEF BackupsTaken, Step, TypeOK, RunRecords
  <1>11. ASSUME NEW r \in Runs, DeletePools(r) PROVE TypeInv'
    BY <1>11, <1>t DEF DeletePools, Step, TypeOK, RunRecords
  <1>12. ASSUME NEW r \in Runs, Prune(r) PROVE TypeInv'
    BY <1>12, <1>t DEF Prune, Step, TypeOK, RunRecords
  <1>13. ASSUME NEW r \in Runs, Killed(r) PROVE TypeInv'
    BY <1>13, <1>t DEF Killed, Step, TypeOK, RunRecords
  <1>14. ASSUME NEW r \in Runs, OrphanEnds(r) PROVE TypeInv'
    BY <1>14, <1>7, <1>t DEF OrphanEnds, TypeOK, RunRecords
  <1>15. ASSUME NEW db \in DB, Restored(db) PROVE TypeInv'
    BY <1>15 DEF Restored, TypeOK, Names
  <1>16. ASSUME Tick PROVE TypeInv'
    BY <1>16, ScheduleAssumption DEF Tick, TypeOK, Time
  <1>17. ASSUME UNCHANGED vars PROVE TypeInv'
    BY <1>17 DEF vars, TypeOK
  <1> QED BY <1>1, <1>2, <1>3, <1>4, <1>5, <1>6, <1>8, <1>9, <1>10, <1>11,
             <1>12, <1>13, <1>14, <1>15, <1>16, <1>17 DEF Next, Script

(***************************************************************************)
(* Every step of every Job, and every failure, keeps the type invariant     *)
(* (TypeOK).                                                                *)
(***************************************************************************)
THEOREM TypeCorrect == Spec => []TypeOK
  <1>1. Spec => []TypeInv
    BY TypeInit, TypeNext, PTL DEF Spec
  <1>2. TypeInv => TypeOK
    BY DEF TypeInv
  <1> QED BY <1>1, <1>2, PTL

(***************************************************************************)
(* Timestamps.  A run that may still write under its timestamp, killed ones *)
(* included, has that timestamp claimed or the second is over; no other     *)
(* such run of its frequency shares it.                                     *)
(***************************************************************************)
Live(r) == Stamped(r) \/ (run[r].pc = "failed" /\ run[r].busy # {})

Claimed == \A r \in Runs : Live(r) =>
    /\ run[r].ts \in Time /\ run[r].ts <= clock
    /\ <<run[r].freq, run[r].ts>> \in claims \/ run[r].ts < clock

Unshared == \A r, o \in Runs :
    r # o /\ Live(r) /\ Live(o) /\ run[r].freq = run[o].freq
        => run[r].ts # run[o].ts

(* What a run is writing is its own, unfinished, and one file at a time.    *)
Busy == \A r \in Runs :
    /\ run[r].pc \notin {"backup", "failed"} => run[r].busy = {}
    /\ \A b \in run[r].busy :
          /\ ~b.ok /\ b.db \in run[r].left /\ run[r].busy = {b}
          /\ b.freq = run[r].freq /\ b.pool = run[r].pool /\ b.ts = run[r].ts

(* A run has a pool exactly in mode.incremental, once it has chosen it.     *)
Pooled == \A r \in Runs :
    /\ run[r].pc \in {"none", "lock", "claim", "check", "pool"} => run[r].pool = Never
    /\ run[r].pool # Never => run[r].mode = "incremental" /\ run[r].pool <= clock
    /\ run[r].pc \in {"pool", "pools"} => run[r].mode = "incremental"
    /\ run[r].pc \in {"backup", "pools"} /\ run[r].mode = "incremental"
          => run[r].pool # Never
    /\ run[r].pc \in {"pools", "prune", "done"} => run[r].left = {}

PoolsPast == \A p \in pools : p[2] <= clock

StampInv == Claimed /\ Unshared /\ Busy /\ Pooled /\ PoolsPast

(* The initial states satisfy StampInv.                                     *)
LEMMA StampInit == Init => StampInv
  <1> SUFFICES ASSUME Init PROVE StampInv
    OBVIOUS
  <1>1. \A r \in Runs : run[r] = Idle
    BY DEF Init
  <1> QED BY <1>1 DEF Init, Idle, StampInv, Claimed, Unshared, Busy, Pooled, PoolsPast,
                     Live, Stamped

(* Every step keeps it.                                                     *)
LEMMA StampNext ==
    ASSUME TypeInv, StampInv, [Next]_vars
    PROVE  StampInv'
  <1> USE DEF StampInv, Live, Stamped
  <1>p. ASSUME UNCHANGED clock, pools' \subseteq pools PROVE PoolsPast'
    BY <1>p DEF PoolsPast
  <1>t. \A r \in Runs : run[r] \in RunRecords
    BY DEF TypeInv, TypeOK
  <1>c. clock \in Time /\ Time \subseteq Int
    BY ScheduleAssumption DEF TypeInv, TypeOK, Time
  <1>f. DOMAIN run = Runs
    BY DEF TypeInv, TypeOK
  <1>1. ASSUME NEW r \in Runs, Start(r) PROVE StampInv'
    <2>1. PICK c \in Freqs \X Modes :
             run' = [run EXCEPT ![r] =
                    [@ EXCEPT !.freq = c[1], !.mode = c[2],
                              !.pc = IF c[2] = "logical" THEN "claim" ELSE "lock"]]
      BY <1>1, ScheduleAssumption DEF Start
    <2>2. /\ run[r].pc = "none" /\ run'[r].pc \in {"claim", "lock"}
          /\ run'[r].busy = {} /\ run'[r].pool = run[r].pool
          /\ \A o \in Runs \ {r} : run'[o] = run[o]
      BY <1>1, <1>t, <1>f, <2>1 DEF Start, RunRecords, Busy
    <2>3. Claimed' /\ Unshared'
      BY <1>1, <2>2 DEF Start, Claimed, Unshared
    <2>4. Busy' /\ Pooled'
      BY <1>1, <2>2 DEF Start, Busy, Pooled
    <2> QED BY <1>1, <1>p, <2>3, <2>4 DEF Start
  <1>2. ASSUME NEW r \in Runs, Lock(r) PROVE StampInv'
    BY <1>2, <1>p, <1>t, <1>f DEF Lock, Step, RunRecords, Claimed, Unshared, Busy, Pooled
  <1>3. ASSUME NEW r \in Runs, Claim(r) PROVE StampInv'
    <2>1. Claimed' /\ Unshared'
      BY <1>3, <1>t, <1>f, <1>c DEF Claim, RunRecords, Claimed, Unshared, Busy
    <2>2. Busy' /\ Pooled'
      BY <1>3, <1>t, <1>f DEF Claim, RunRecords, Busy, Pooled
    <2> QED BY <1>3, <1>p, <2>1, <2>2 DEF Claim
  <1>4. ASSUME NEW r \in Runs, CheckClaim(r) PROVE StampInv'
    <2>1. Claimed' /\ Unshared'
      BY <1>4, <1>t, <1>f DEF CheckClaim, Step, RunRecords, Claimed, Unshared, Busy
    <2>2. Busy' /\ Pooled'
      BY <1>4, <1>t, <1>f DEF CheckClaim, Step, RunRecords, Busy, Pooled
    <2> QED BY <1>4, <1>p, <2>1, <2>2 DEF CheckClaim
  <1>5. ASSUME NEW r \in Runs, ChoosePool(r) PROVE StampInv'
    <2>1. PICK p \in Time :
             /\ run' = [run EXCEPT ![r].pc = "backup", ![r].pool = p] /\ p <= clock
             /\ pools' = pools \cup {<<run[r].freq, p>>}
      <3>1. run[r].ts \in Time /\ run[r].ts <= clock
        BY <1>5 DEF ChoosePool, Claimed
      <3>2. CASE pools' = pools \cup {<<run[r].freq, run[r].ts>>}
                 /\ run' = [run EXCEPT ![r].pc = "backup", ![r].pool = run[r].ts]
        BY <3>1, <3>2
      <3>3. CASE /\ pools' = pools /\ Newest(run[r].freq) # Never
                 /\ run' = [run EXCEPT ![r].pc = "backup", ![r].pool = Newest(run[r].freq)]
        <4>1. <<run[r].freq, Newest(run[r].freq)>> \in pools /\ Newest(run[r].freq) \in Time
          BY <3>3, NewestPool
        <4>2. Newest(run[r].freq) <= clock
          BY <4>1 DEF PoolsPast
        <4> QED BY <3>3, <4>1, <4>2
      <3> QED BY <1>5, <3>2, <3>3 DEF ChoosePool
    <2>2. Claimed' /\ Unshared'
      BY <1>5, <1>t, <1>f, <2>1 DEF ChoosePool, RunRecords, Claimed, Unshared, Busy
    <2>3. Busy'
      BY <1>5, <1>t, <1>f, <2>1 DEF ChoosePool, RunRecords, Busy
    <2>4. Pooled'
      BY <1>5, <1>t, <1>f, <2>1, TimeFacts DEF ChoosePool, RunRecords, Pooled
    <2>5. PoolsPast'
      BY <1>5, <2>1 DEF ChoosePool, PoolsPast
    <2> QED BY <2>2, <2>3, <2>4, <2>5
  <1>6. ASSUME NEW r \in Runs, BeginBackup(r) PROVE StampInv'
    <2>1. PICK db \in run[r].left : run' = [run EXCEPT ![r].busy = {NewBackup(r, db)}]
      BY <1>6 DEF BeginBackup
    <2>2. Claimed' /\ Unshared'
      BY <1>6, <1>t, <1>f, <2>1 DEF BeginBackup, RunRecords, Claimed, Unshared
    <2>3. Busy' /\ Pooled'
      <3> DEFINE new == NewBackup(r, db)
      <3>1. /\ ~new.ok /\ new.db = db /\ new.freq = run[r].freq
            /\ new.pool = run[r].pool /\ new.ts = run[r].ts
        BY DEF NewBackup
      <3> HIDE DEF new
      <3>2. run' = [run EXCEPT ![r].busy = {new}]
        BY <2>1 DEF new
      <3> QED BY <1>6, <1>t, <1>f, <3>1, <3>2 DEF BeginBackup, RunRecords, Busy, Pooled
    <2> QED BY <1>6, <1>p, <2>2, <2>3 DEF BeginBackup
  <1>8. ASSUME NEW r \in Runs, EndBackup(r) PROVE StampInv'
    <2>1. PICK b \in run[r].busy : run' = [run EXCEPT ![r].busy = {}, ![r].left = @ \ {b.db}]
      BY <1>8 DEF EndBackup
    <2>2. Claimed' /\ Unshared'
      BY <1>8, <1>t, <1>f, <2>1 DEF EndBackup, RunRecords, Claimed, Unshared
    <2>3. Busy' /\ Pooled'
      BY <1>8, <1>t, <1>f, <2>1 DEF EndBackup, RunRecords, Busy, Pooled
    <2> QED BY <1>8, <1>p, <2>2, <2>3 DEF EndBackup
  <1>9. ASSUME NEW r \in Runs, BackupFails(r) PROVE StampInv'
    <2>1. Claimed' /\ Unshared'
      BY <1>9, <1>t, <1>f DEF BackupFails, Exit, RunRecords, Claimed, Unshared
    <2>2. Busy' /\ Pooled'
      BY <1>9, <1>t, <1>f DEF BackupFails, Exit, RunRecords, Busy, Pooled
    <2> QED BY <1>9, <1>p, <2>1, <2>2 DEF BackupFails
  <1>10. ASSUME NEW r \in Runs, BackupsTaken(r) PROVE StampInv'
    <2>1. Claimed' /\ Unshared'
      BY <1>10, <1>t, <1>f DEF BackupsTaken, Step, RunRecords, Claimed, Unshared
    <2>2. Busy' /\ Pooled'
      BY <1>10, <1>t, <1>f DEF BackupsTaken, Step, RunRecords, Busy, Pooled
    <2> QED BY <1>10, <1>p, <2>1, <2>2 DEF BackupsTaken
  <1>11. ASSUME NEW r \in Runs, DeletePools(r) PROVE StampInv'
    <2>1. Claimed' /\ Unshared'
      BY <1>11, <1>t, <1>f DEF DeletePools, Step, RunRecords, Claimed, Unshared
    <2>2. Busy' /\ Pooled'
      BY <1>11, <1>t, <1>f DEF DeletePools, Step, RunRecords, Busy, Pooled
    <2> QED BY <1>11, <1>p, <2>1, <2>2 DEF DeletePools
  <1>12. ASSUME NEW r \in Runs, Prune(r) PROVE StampInv'
    <2>1. /\ run'[r].pc = "done" /\ run'[r].busy = {}
          /\ \A o \in Runs \ {r} : run'[o] = run[o]
      BY <1>12, <1>t, <1>f DEF Prune, Step, RunRecords, Busy
    <2>2. ASSUME NEW o \in Runs \ {r}, Live(o), <<run[o].freq, run[o].ts>> \in claims
          PROVE  <<run[o].freq, run[o].ts>> \in claims' \/ run[o].ts < clock
      <3>1. run[o].freq = run[r].freq => run[o].ts # run[r].ts
        BY <1>12, <2>2 DEF Prune, Unshared
      <3>2. Expired(r, run[o].ts) => run[o].ts < clock
        <4>1. Retention[run[r].freq] \in Nat /\ run[o].ts \in Int
          BY <1>c, <1>t, <2>2, ScheduleAssumption DEF Claimed, RunRecords
        <4> QED BY <1>c, <4>1 DEF Expired, Cutoff
      <3> QED BY <1>12, <2>2, <3>1, <3>2 DEF Prune
    <2>3. Claimed' /\ Unshared'
      BY <1>12, <2>1, <2>2 DEF Prune, Claimed, Unshared
    <2>4. Busy' /\ Pooled'
      BY <1>12, <1>t, <1>f DEF Prune, Step, RunRecords, Busy, Pooled
    <2> QED BY <1>12, <1>p, <2>3, <2>4 DEF Prune
  <1>13. ASSUME NEW r \in Runs, Killed(r) PROVE StampInv'
    <2>1. PICK busy \in {{}, run[r].busy} :
             run' = [run EXCEPT ![r].pc = "failed", ![r].busy = busy]
      <3>1. CASE Step(r, "failed")
        BY <3>1, <1>t, <1>f DEF Step, RunRecords
      <3> QED BY <1>13, <3>1 DEF Killed
    <2>2. busy # {} => run[r].pc = "backup"
      BY <1>13, <2>1 DEF Killed, Started, Busy
    <2>3. Claimed' /\ Unshared'
      BY <1>13, <1>t, <1>f, <2>1, <2>2 DEF Killed, RunRecords, Claimed, Unshared
    <2>4. Busy' /\ Pooled'
      BY <1>13, <1>t, <1>f, <2>1, <2>2 DEF Killed, RunRecords, Busy, Pooled
    <2> QED BY <1>13, <1>p, <2>3, <2>4 DEF Killed
  <1>14. ASSUME NEW r \in Runs, OrphanEnds(r) PROVE StampInv'
    <2>1. Claimed' /\ Unshared'
      BY <1>14, <1>t, <1>f DEF OrphanEnds, RunRecords, Claimed, Unshared
    <2>2. Busy' /\ Pooled'
      BY <1>14, <1>t, <1>f DEF OrphanEnds, RunRecords, Busy, Pooled
    <2> QED BY <1>14, <1>p, <2>1, <2>2 DEF OrphanEnds
  <1>15. ASSUME NEW db \in DB, Restored(db) PROVE StampInv'
    BY <1>15, <1>p DEF Restored, Claimed, Unshared, Busy, Pooled
  <1>16. ASSUME Tick PROVE StampInv'
    <2>1. \A x \in Int : x <= clock => x <= clock' /\ x < clock'
      BY <1>16, <1>c DEF Tick
    <2>2. Claimed'
      BY <1>16, <1>c, <2>1 DEF Tick, Claimed
    <2>3. Unshared' /\ Busy'
      BY <1>16 DEF Tick, Unshared, Busy
    <2>4. \A r \in Runs : run[r].pool \in Int
      BY <1>t, TimeFacts DEF RunRecords
    <2>5. Pooled'
      BY <1>16, <2>1, <2>4 DEF Tick, Pooled
    <2>6. PoolsPast'
      BY <1>16, <1>c, <2>1 DEF Tick, PoolsPast, TypeInv, TypeOK
    <2> QED BY <2>2, <2>3, <2>5, <2>6
  <1>17. ASSUME UNCHANGED vars PROVE StampInv'
    BY <1>17, <1>p DEF vars, Claimed, Unshared, Busy, Pooled
  <1> QED BY <1>1, <1>2, <1>3, <1>4, <1>5, <1>6, <1>8, <1>9, <1>10, <1>11,
             <1>12, <1>13, <1>14, <1>15, <1>16, <1>17 DEF Next, Script

(* The files named after a run's timestamp are the ones it wrote.           *)
Own(r, b) == /\ b.freq = run[r].freq /\ b.ts = run[r].ts
             /\ b.pool = Never \/ b.level = 1

Fresh == \A r \in Runs : run[r].pc \in {"pool", "backup"} =>
    \A b \in backups : Own(r, b) /\ b.db \in run[r].left => b \in run[r].busy

NamesDiffer == \A b, c \in backups : Name(b) = Name(c) => b = c

FileInv == Fresh /\ NamesDiffer

(* A run never starts a backup under a name that exists, finished or not.   *)
LEMMA BeginFresh ==
    ASSUME TypeInv, StampInv, FileInv, NEW r \in Runs, run[r].pc = "backup",
           run[r].busy = {}, NEW db \in run[r].left, NEW b \in backups
    PROVE  Name(b) # Name(NewBackup(r, db))
  <1> DEFINE new == NewBackup(r, db)
  <1>1. /\ new.freq = run[r].freq /\ new.pool = run[r].pool /\ new.db = db
        /\ new.ts = run[r].ts /\ new.level \in {0, 1}
        /\ new.level = 0 /\ run[r].mode = "incremental" =>
              ~Exists(Level0(run[r].freq, run[r].pool, db))
    BY DEF NewBackup
  <1>2. run[r].pool # Never => run[r].mode = "incremental"
    BY DEF StampInv, Pooled
  <1>3. b \in Backups
    BY DEF TypeInv, TypeOK
  <1> HIDE DEF new
  <1>4. SUFFICES ASSUME Name(b) = Name(new) PROVE FALSE
    BY DEF new
  <1>5. /\ b.freq = run[r].freq /\ b.pool = run[r].pool /\ b.db = db
        /\ b.level = new.level
    BY <1>1, <1>4 DEF Name
  <1>6. CASE new.level = 0 /\ run[r].pool # Never
    <2>1. Name(b) = Level0(run[r].freq, run[r].pool, db)
      BY <1>5, <1>6 DEF Name, Level0
    <2> QED BY <1>1, <1>2, <1>6, <2>1 DEF Exists
  <1>7. CASE new.level = 1 \/ run[r].pool = Never
    <2>1. b.ts = run[r].ts
      BY <1>1, <1>4, <1>5, <1>7 DEF Name
    <2>2. Own(r, b)
      BY <1>1, <1>5, <1>7, <2>1 DEF Own
    <2> QED BY <1>5, <2>2 DEF FileInv, Fresh
  <1> QED BY <1>1, <1>6, <1>7

(* Beginning a backup adds one file, under a name of its own.               *)
LEMMA BeginAdds ==
    ASSUME TypeInv, StampInv, FileInv, NEW r \in Runs, BeginBackup(r)
    PROVE  \E db \in run[r].left :
              /\ backups' = backups \cup {NewBackup(r, db)}
              /\ run' = [run EXCEPT ![r].busy = {NewBackup(r, db)}]
              /\ ~Refused(r, db)
              /\ \A b \in backups : Name(b) # Name(NewBackup(r, db))
  <1>1. PICK db \in run[r].left :
           /\ ~Refused(r, db)
           /\ backups' = {b \in backups : Name(b) # Name(NewBackup(r, db))}
                           \cup {NewBackup(r, db)}
           /\ run' = [run EXCEPT ![r].busy = {NewBackup(r, db)}]
    BY DEF BeginBackup
  <1>2. \A b \in backups : Name(b) # Name(NewBackup(r, db))
    BY BeginFresh DEF BeginBackup
  <1>3. backups' = backups \cup {NewBackup(r, db)}
    BY <1>1, <1>2
  <1> QED BY <1>1, <1>2, <1>3

(* Completing a backup changes nothing but whether it is complete.          *)
LEMMA CompleteKeeps ==
    ASSUME TypeInv, NEW r \in Runs, NEW b \in run[r].busy, Complete(r, b),
           NEW c \in backups'
    PROVE  \/ c \in backups /\ c # b
           \/ /\ b \in backups /\ c.ok /\ Name(c) = Name(b)
              /\ c.freq = b.freq /\ c.pool = b.pool /\ c.db = b.db
              /\ c.level = b.level /\ c.ts = b.ts /\ c.base = b.base
  <1>1. b \in Backups
    BY DEF TypeInv, TypeOK, RunRecords
  <1>2. PICK f \in backups : c = IF f = b THEN [b EXCEPT !.ok = TRUE] ELSE f
    BY DEF Complete
  <1>3. CASE f = b
    <2>1. c = [b EXCEPT !.ok = TRUE]
      BY <1>2, <1>3
    <2> QED BY <1>1, <1>3, <2>1 DEF Backups, Name
  <1> QED BY <1>2, <1>3

(* Removing files keeps FileInv.                                            *)
LEMMA FileShrinks ==
    ASSUME FileInv, backups' \subseteq backups,
           \A r \in Runs : run'[r].pc \in {"pool", "backup"} => run'[r] = run[r]
    PROVE  FileInv'
  BY DEF FileInv, Fresh, NamesDiffer, Own, Name

(* So does completing one.                                                  *)
LEMMA FileCompletes ==
    ASSUME TypeInv, StampInv, FileInv, NEW r \in Runs, NEW b \in run[r].busy,
           Complete(r, b), run[r].pc \in {"backup", "failed"},
           \A o \in Runs \ {r} : run'[o] = run[o],
           run'[r].pc \in {"pool", "backup"} =>
                /\ run[r].pc = "backup" /\ run'[r].left = run[r].left \ {b.db}
                /\ run'[r].freq = run[r].freq /\ run'[r].ts = run[r].ts
    PROVE  FileInv'
  <1>1. NamesDiffer'
    <2> SUFFICES ASSUME NEW c \in backups', NEW d \in backups', Name(c) = Name(d)
                 PROVE  c = d
      BY DEF NamesDiffer, Name
    <2>1. PICK f \in backups : c = IF f = b THEN [b EXCEPT !.ok = TRUE] ELSE f
      BY DEF Complete
    <2>2. PICK g \in backups : d = IF g = b THEN [b EXCEPT !.ok = TRUE] ELSE g
      BY DEF Complete
    <2>3. b \in Backups
      BY DEF TypeInv, TypeOK, RunRecords
    <2>4. Name([b EXCEPT !.ok = TRUE]) = Name(b)
      BY <2>3 DEF Backups, Name
    <2>5. Name(f) = Name(g)
      BY <2>1, <2>2, <2>4
    <2> QED BY <2>1, <2>2, <2>5 DEF FileInv, NamesDiffer
  <1>2. Fresh'
    <2> SUFFICES ASSUME NEW o \in Runs, run'[o].pc \in {"pool", "backup"},
                        NEW c \in backups', Own(o, c)', c.db \in run'[o].left
                 PROVE  c \in run'[o].busy
      BY DEF Fresh
    <2>1. b.freq = run[r].freq /\ b.ts = run[r].ts /\ run[r].busy = {b}
      BY DEF StampInv, Busy
    <2>2. CASE o = r
      BY <2>1, <2>2, CompleteKeeps DEF FileInv, Fresh, Own
    <2>3. CASE o # r
      <3>1. b.freq # run[o].freq \/ b.ts # run[o].ts
        BY <2>1, <2>3 DEF StampInv, Unshared, Live, Stamped
      <3> QED BY <2>3, <3>1, CompleteKeeps DEF FileInv, Fresh, Own
    <2> QED BY <2>2, <2>3
  <1> QED BY <1>1, <1>2 DEF FileInv

(* Every step keeps it.                                                     *)
LEMMA FileNext ==
    ASSUME TypeInv, StampInv, FileInv, [Next]_vars
    PROVE  FileInv'
  <1>t. \A r \in Runs : run[r] \in RunRecords
    BY DEF TypeInv, TypeOK
  <1>f. DOMAIN run = Runs
    BY DEF TypeInv, TypeOK
  <1>1. ASSUME NEW r \in Runs, Start(r) PROVE FileInv'
    <2>1. PICK c \in Configs :
             run' = [run EXCEPT ![r] =
                    [@ EXCEPT !.freq = c[1], !.mode = c[2],
                              !.pc = IF c[2] = "logical" THEN "claim" ELSE "lock"]]
      BY <1>1 DEF Start
    <2>2. run'[r].pc \in {"claim", "lock"} /\ \A o \in Runs \ {r} : run'[o] = run[o]
      BY <1>t, <1>f, <2>1 DEF RunRecords
    <2> QED BY <1>1, <2>2, FileShrinks DEF Start
  <1>2. ASSUME NEW r \in Runs, Lock(r) PROVE FileInv'
    BY <1>2, <1>t, <1>f, FileShrinks DEF Lock, Step, RunRecords
  <1>3. ASSUME NEW r \in Runs, Claim(r) PROVE FileInv'
    BY <1>3, <1>t, <1>f, FileShrinks DEF Claim, RunRecords
  <1>4. ASSUME NEW r \in Runs, CheckClaim(r) PROVE FileInv'
    <2>1. CASE Used(r)
      BY <1>4, <1>t, <1>f, <2>1, FileShrinks DEF CheckClaim, Step, RunRecords
    <2>2. CASE ~Used(r)
      <3>1. /\ run'[r].freq = run[r].freq /\ run'[r].ts = run[r].ts
            /\ \A o \in Runs \ {r} : run'[o] = run[o]
        BY <1>4, <1>t, <1>f, <2>2 DEF CheckClaim, RunRecords
      <3>2. \A b \in backups : ~Own(r, b)'
        BY <3>1, <2>2 DEF Used, Own
      <3> QED BY <1>4, <3>1, <3>2 DEF CheckClaim, FileInv, Fresh, NamesDiffer, Own, Name
    <2> QED BY <2>1, <2>2
  <1>5. ASSUME NEW r \in Runs, ChoosePool(r) PROVE FileInv'
    <2>1. /\ run[r].pc = "pool" /\ run'[r].freq = run[r].freq /\ run'[r].ts = run[r].ts
          /\ run'[r].left = run[r].left /\ run'[r].busy = run[r].busy
          /\ \A o \in Runs \ {r} : run'[o] = run[o]
          /\ backups' = backups
      BY <1>5, <1>t, <1>f DEF ChoosePool, RunRecords
    <2> QED BY <2>1 DEF FileInv, Fresh, NamesDiffer, Own, Name
  <1>6. ASSUME NEW r \in Runs, BeginBackup(r) PROVE FileInv'
    <2>1. PICK db \in run[r].left :
              /\ backups' = backups \cup {NewBackup(r, db)}
              /\ run' = [run EXCEPT ![r].busy = {NewBackup(r, db)}]
              /\ \A b \in backups : Name(b) # Name(NewBackup(r, db))
      BY <1>6, BeginAdds
    <2> DEFINE new == NewBackup(r, db)
    <2>2. new.freq = run[r].freq /\ new.ts = run[r].ts
      BY DEF NewBackup
    <2> HIDE DEF new
    <2>3. NamesDiffer'
      BY <2>1 DEF FileInv, NamesDiffer, Name, new
    <2>4. Fresh'
      <3> SUFFICES ASSUME NEW o \in Runs, run'[o].pc \in {"pool", "backup"},
                          NEW c \in backups', Own(o, c)', c.db \in run'[o].left
                   PROVE  c \in run'[o].busy
        BY DEF Fresh
      <3>1. /\ run'[o].pc = run[o].pc /\ run'[o].freq = run[o].freq
            /\ run'[o].ts = run[o].ts /\ run'[o].left = run[o].left
            /\ o # r => run'[o].busy = run[o].busy
            /\ run'[r].busy = {new} /\ run[r].busy = {} /\ run[r].pc = "backup"
        BY <1>6, <1>t, <1>f, <2>1 DEF BeginBackup, RunRecords, new
      <3>2. CASE c \in backups
        BY <3>1, <3>2 DEF FileInv, Fresh, Own
      <3>3. CASE c = new
        <4>1. o # r => run[o].freq # run[r].freq \/ run[o].ts # run[r].ts
          BY <3>1 DEF StampInv, Unshared, Live, Stamped
        <4> QED BY <2>2, <3>1, <3>3, <4>1 DEF Own
      <3> QED BY <2>1, <3>2, <3>3 DEF new
    <2> QED BY <2>3, <2>4 DEF FileInv
  <1>7. ASSUME NEW r \in Runs, EndBackup(r) PROVE FileInv'
    <2>1. PICK b \in run[r].busy : Complete(r, b)
             /\ run' = [run EXCEPT ![r].busy = {}, ![r].left = @ \ {b.db}]
      BY <1>7 DEF EndBackup
    <2>2. /\ run'[r].left = run[r].left \ {b.db} /\ run'[r].freq = run[r].freq
          /\ run'[r].ts = run[r].ts /\ \A o \in Runs \ {r} : run'[o] = run[o]
      BY <1>t, <1>f, <2>1 DEF RunRecords
    <2> QED BY <1>7, <2>1, <2>2, FileCompletes DEF EndBackup
  <1>8. ASSUME NEW r \in Runs, BackupFails(r) PROVE FileInv'
    BY <1>8, <1>t, <1>f, FileShrinks DEF BackupFails, Exit, RunRecords
  <1>9. ASSUME NEW r \in Runs, BackupsTaken(r) PROVE FileInv'
    BY <1>9, <1>t, <1>f, FileShrinks DEF BackupsTaken, Step, RunRecords
  <1>10. ASSUME NEW r \in Runs, DeletePools(r) PROVE FileInv'
    BY <1>10, <1>t, <1>f, FileShrinks DEF DeletePools, Step, RunRecords
  <1>11. ASSUME NEW r \in Runs, Prune(r) PROVE FileInv'
    BY <1>11, <1>t, <1>f, FileShrinks DEF Prune, Step, RunRecords
  <1>12. ASSUME NEW r \in Runs, Killed(r) PROVE FileInv'
    BY <1>12, <1>t, <1>f, FileShrinks DEF Killed, Step, RunRecords
  <1>13. ASSUME NEW r \in Runs, OrphanEnds(r) PROVE FileInv'
    <2>1. /\ run'[r].pc = "failed" /\ \A o \in Runs \ {r} : run'[o] = run[o]
      BY <1>13, <1>t, <1>f DEF OrphanEnds, RunRecords
    <2> QED BY <1>13, <2>1, FileCompletes DEF OrphanEnds
  <1>14. ASSUME NEW db \in DB, Restored(db) PROVE FileInv'
    BY <1>14, FileShrinks DEF Restored
  <1>15. ASSUME Tick \/ UNCHANGED vars PROVE FileInv'
    BY <1>15, FileShrinks DEF Tick, vars
  <1> QED BY <1>1, <1>2, <1>3, <1>4, <1>5, <1>6, <1>7, <1>8, <1>9, <1>10, <1>11,
             <1>12, <1>13, <1>14, <1>15 DEF Next, Script

(* Only the two steps that delete take a finished backup away.              *)
LEMMA OnlyDeletesTake ==
    ASSUME TypeInv, StampInv, FileInv, [Next]_vars,
           NEW b \in backups, b.ok, b \notin backups'
    PROVE  \E r \in Runs : DeletePools(r) \/ Prune(r)
  <1>1. ASSUME NEW r \in Runs, BeginBackup(r) PROVE FALSE
    BY <1>1, BeginAdds
  <1>2. ASSUME NEW r \in Runs, NEW c \in run[r].busy, Complete(r, c) PROVE FALSE
    <2>1. b # c
      BY DEF StampInv, Busy
    <2> QED BY <1>2, <2>1 DEF Complete
  <1>3. ASSUME NEW r \in Runs, Script(r) \/ Killed(r) \/ OrphanEnds(r)
        PROVE  DeletePools(r) \/ Prune(r)
    BY <1>1, <1>2, <1>3
    DEF Script, Start, Lock, Claim, CheckClaim, ChoosePool, EndBackup, BackupFails,
        BackupsTaken, Killed, OrphanEnds
  <1> QED BY <1>3 DEF Next, Tick, Restored, vars

(* A finished backup that goes leaves its name to nobody.                   *)
LEMMA StepKeepsFiles ==
    ASSUME TypeInv, StampInv, FileInv, [Next]_vars,
           NEW b \in backups, b.ok, b \notin backups', NEW new \in backups'
    PROVE  Name(new) # Name(b)
  <1>1. backups' \subseteq backups
    BY OnlyDeletesTake DEF DeletePools, Prune
  <1> QED BY <1>1 DEF FileInv, NamesDiffer

(* Under Spec the three invariants hold together.                           *)
LEMMA FilesHold == Spec => [](TypeInv /\ StampInv /\ FileInv)
  <1>1. Init => FileInv
    <2> SUFFICES ASSUME Init PROVE FileInv
      OBVIOUS
    <2> QED BY DEF Init, FileInv, Fresh, NamesDiffer
  <1> QED BY <1>1, TypeInit, TypeNext, StampInit, StampNext, FileNext, PTL DEF Spec

(***************************************************************************)
(* The claim directories do their work: of any number of overlapping Jobs,  *)
(* killed ones whose claims stay behind included, no two of a frequency     *)
(* ever work under one timestamp (UniqueTimestamps).                        *)
(***************************************************************************)
THEOREM TimestampsUnique == Spec => []UniqueTimestamps
  <1>1. StampInv => UniqueTimestamps
    BY DEF StampInv, Unshared, UniqueTimestamps, Live
  <1> QED BY <1>1, FilesHold, PTL

(***************************************************************************)
(* No Job, and no backup the server finishes for a killed one, ever writes  *)
(* over a finished backup, whatever the modes and frequencies that overlap  *)
(* (NeverOverwrites).                                                       *)
(***************************************************************************)
THEOREM FinishedNeverOverwritten == Spec => NeverOverwrites
  <1>1. ASSUME TypeInv /\ StampInv /\ FileInv, [Next]_vars
        PROVE  [\A b \in backups : b.ok /\ b \notin backups' =>
                   \A new \in backups' : Name(new) # Name(b)]_vars
    BY <1>1, StepKeepsFiles
  <1> QED BY <1>1, FilesHold, PTL DEF Spec, NeverOverwrites

(***************************************************************************)
(* Pools.                                                                   *)
(***************************************************************************)
Locked(r) == Physical(r) /\ run[r].pc \in
                {"claim", "check", "pool", "backup", "pools", "prune"}

Exclusive == \A r \in Runs : Locked(r) => lock = r

Age(f) == clock - Retention[f]

(* Files lie in existing pools, and carry times that have come.             *)
Placed == \A b \in backups :
    /\ b.ts <= clock
    /\ b.level = 1 => b.pool # Never
    /\ b.pool # Never => <<b.freq, b.pool>> \in pools

(* A physical run's pool is the newest, and its timestamp the latest.       *)
LatestFile == \A r \in Runs : Locked(r) /\ Stamped(r) =>
    \A b \in backups : b.pool # Never => b.ts <= run[r].ts

LatestStamp == \A r \in Runs : Locked(r) /\ run[r].pc \in {"check", "pool"} =>
    \A p \in pools : p[2] <= run[r].ts

LatestPool == \A r \in Runs :
    run[r].mode = "incremental" /\ run[r].pc \in {"backup", "pools"} =>
        \A p \in pools : p[1] = run[r].freq =>
            p[2] <= run[r].pool /\ <<run[r].freq, run[r].pool>> \in pools

Latest == LatestFile /\ LatestStamp /\ LatestPool

PoolInv == Exclusive /\ Placed /\ Latest

(* The lock of the physical modes.                                          *)
LEMMA ExclusiveNext ==
    ASSUME TypeInv, Exclusive, [Next]_vars
    PROVE  Exclusive'
  <1> USE DEF Exclusive, Locked, Physical
  <1>t. DOMAIN run = Runs /\ \A o \in Runs : run[o] \in RunRecords
    BY DEF TypeInv, TypeOK
  <1>1. ASSUME NEW r \in Runs, Start(r) PROVE Exclusive'
    <2>1. PICK c \in Configs :
             run' = [run EXCEPT ![r] =
                    [@ EXCEPT !.freq = c[1], !.mode = c[2],
                              !.pc = IF c[2] = "logical" THEN "claim" ELSE "lock"]]
      BY <1>1 DEF Start
    <2>2. /\ run'[r].mode = "logical" \/ run'[r].pc = "lock"
          /\ \A o \in Runs \ {r} : run'[o] = run[o]
      BY <1>t, <2>1 DEF RunRecords
    <2> QED BY <1>1, <2>2 DEF Start
  <1>2. ASSUME NEW r \in Runs, Lock(r) PROVE Exclusive'
    BY <1>2, <1>t, NamesAssumption DEF Lock, Step, RunRecords
  <1>3. ASSUME NEW r \in Runs, Claim(r) \/ CheckClaim(r) PROVE Exclusive'
    BY <1>3, <1>t DEF Claim, CheckClaim, Step, RunRecords
  <1>4. ASSUME NEW r \in Runs, ChoosePool(r) \/ BeginBackup(r) PROVE Exclusive'
    BY <1>4, <1>t DEF ChoosePool, BeginBackup, RunRecords
  <1>5. ASSUME NEW r \in Runs, EndBackup(r) \/ OrphanEnds(r) PROVE Exclusive'
    BY <1>5, <1>t DEF EndBackup, OrphanEnds, RunRecords
  <1>6. ASSUME NEW r \in Runs, BackupsTaken(r) \/ DeletePools(r) PROVE Exclusive'
    BY <1>6, <1>t DEF BackupsTaken, DeletePools, Step, RunRecords
  <1>7. ASSUME NEW r \in Runs, BackupFails(r) \/ Prune(r) \/ Killed(r) PROVE Exclusive'
    BY <1>7, <1>t DEF BackupFails, Exit, Prune, Killed, Step, RunRecords
  <1>8. ASSUME UNCHANGED <<run, lock>> PROVE Exclusive'
    BY <1>8
  <1> QED BY <1>1, <1>2, <1>3, <1>4, <1>5, <1>6, <1>7, <1>8
          DEF Next, Script, Tick, Restored, vars

(* Every step keeps PoolInv.                                                *)
LEMMA PoolNext ==
    ASSUME TypeInv, StampInv, FileInv, PoolInv, [Next]_vars
    PROVE  PoolInv'
  <1> USE DEF PoolInv, Locked, Physical, Stamped, Latest
  <1>t. DOMAIN run = Runs /\ \A o \in Runs : run[o] \in RunRecords
    BY DEF TypeInv, TypeOK
  <1>c. clock \in Int /\ \A o \in Runs : run[o].ts \in Int /\ run[o].pool \in Int
    <2>1. clock \in Time /\ \A o \in Runs : run[o].ts \in Stamps /\ run[o].pool \in Stamps
      BY <1>t DEF TypeInv, TypeOK, RunRecords
    <2> QED BY <2>1, TimeFacts
  <1>b. /\ \A b \in backups : b.ts \in Int /\ b.pool \in Int
        /\ \A p \in pools : p[2] \in Int /\ p = <<p[1], p[2]>>
    <2>1. \A b \in backups : b.ts \in Time /\ b.pool \in Stamps
      BY DEF TypeInv, TypeOK, Backups
    <2>2. \A p \in pools : p[2] \in Time /\ p = <<p[1], p[2]>>
      BY DEF TypeInv, TypeOK
    <2> QED BY <2>1, <2>2, TimeFacts
  <1>x. Exclusive'
    BY ExclusiveNext
  <1>s. ASSUME UNCHANGED <<clock, pools, backups>>,
               \A r \in Runs : run'[r].pc \in {"check", "pool", "backup", "pools", "prune"}
                    => /\ run'[r].freq = run[r].freq /\ run'[r].ts = run[r].ts
                       /\ run'[r].mode = run[r].mode
                       /\ run'[r].pool = run[r].pool
                       /\ \/ run'[r].pc = run[r].pc
                          \/ run[r].pc = "check" /\ run'[r].pc = "pool"
                          \/ run[r].pc = "check" /\ run'[r].pc = "backup" /\ run[r].mode # "incremental"
                          \/ run[r].pc = "backup" /\ run'[r].pc \in {"pools", "prune"}
        PROVE  Placed' /\ Latest'
    <2>1. Placed'
      BY <1>s DEF Placed
    <2>2. Latest'
      BY <1>s DEF LatestFile, LatestStamp, LatestPool
    <2> QED BY <2>1, <2>2
  <1>1. ASSUME NEW r \in Runs, Start(r) PROVE PoolInv'
    <2>1. PICK c \in Configs :
             run' = [run EXCEPT ![r] =
                    [@ EXCEPT !.freq = c[1], !.mode = c[2],
                              !.pc = IF c[2] = "logical" THEN "claim" ELSE "lock"]]
      BY <1>1 DEF Start
    <2>2. run'[r].pc \in {"claim", "lock"} /\ \A o \in Runs \ {r} : run'[o] = run[o]
      BY <1>t, <2>1 DEF RunRecords
    <2> QED BY <1>1, <1>s, <1>x, <2>2 DEF Start
  <1>2. ASSUME NEW r \in Runs, Lock(r) PROVE PoolInv'
    BY <1>2, <1>t, <1>s, <1>x DEF Lock, Step, RunRecords
  <1>3. ASSUME NEW r \in Runs, Claim(r) PROVE PoolInv'
    <2>1. /\ run'[r].ts = clock /\ run'[r].pc = "check"
          /\ \A o \in Runs \ {r} : run'[o] = run[o]
      BY <1>3, <1>t DEF Claim, RunRecords
    <2>2. Placed'
      BY <1>3 DEF Claim, Placed
    <2>3. Latest'
      <3>1. LatestFile'
        BY <1>3, <2>1 DEF Claim, Placed, LatestFile
      <3>2. LatestStamp'
        BY <1>3, <2>1 DEF Claim, LatestStamp, StampInv, PoolsPast
      <3>3. LatestPool'
        <4> SUFFICES ASSUME NEW o \in Runs, run'[o].mode = "incremental",
                            run'[o].pc \in {"backup", "pools"},
                            NEW p \in pools', p[1] = run'[o].freq
                     PROVE  p[2] <= run'[o].pool /\ <<run'[o].freq, run'[o].pool>> \in pools'
          BY DEF LatestPool
        <4>1. run'[o] = run[o] /\ pools' = pools
          BY <1>3, <2>1 DEF Claim
        <4> QED BY <4>1 DEF LatestPool
      <3> QED BY <3>1, <3>2, <3>3
    <2> QED BY <1>x, <2>2, <2>3
  <1>4. ASSUME NEW r \in Runs, CheckClaim(r) PROVE PoolInv'
    BY <1>4, <1>t, <1>s, <1>x DEF CheckClaim, Step, RunRecords
  <1>5. ASSUME NEW r \in Runs, ChoosePool(r) PROVE PoolInv'
    <2>1. PICK p \in Time :
             /\ run' = [run EXCEPT ![r].pc = "backup", ![r].pool = p]
             /\ pools' = pools \cup {<<run[r].freq, p>>}
             /\ \A q \in pools : q[1] = run[r].freq => q[2] <= p
             /\ p <= run[r].ts
      <3>1. CASE /\ pools' = pools \cup {<<run[r].freq, run[r].ts>>}
                 /\ run' = [run EXCEPT ![r].pc = "backup", ![r].pool = run[r].ts]
        <4>1. run[r].ts \in Time /\ run[r].mode = "incremental"
          BY <1>5 DEF ChoosePool, StampInv, Claimed, Live, Pooled
        <4>2. \A q \in pools : q[2] <= run[r].ts
          BY <1>5, <4>1 DEF ChoosePool, LatestStamp
        <4>3. run[r].ts <= run[r].ts
          BY <1>c
        <4> QED BY <3>1, <4>1, <4>2, <4>3
      <3>2. CASE /\ pools' = pools /\ Newest(run[r].freq) # Never
                 /\ run' = [run EXCEPT ![r].pc = "backup", ![r].pool = Newest(run[r].freq)]
        <4>1. /\ <<run[r].freq, Newest(run[r].freq)>> \in pools
              /\ Newest(run[r].freq) \in Time
              /\ \A q \in pools : q[1] = run[r].freq => q[2] <= Newest(run[r].freq)
          BY <3>2, NewestPool DEF TypeInv, TypeOK
        <4>2. Newest(run[r].freq) <= run[r].ts
          BY <1>5, <4>1 DEF ChoosePool, LatestStamp, StampInv, Pooled
        <4> QED BY <3>2, <4>1, <4>2
      <3> QED BY <1>5, <3>1, <3>2 DEF ChoosePool
    <2>2. /\ run'[r].pc = "backup" /\ run'[r].pool = p /\ run'[r].freq = run[r].freq
          /\ run'[r].ts = run[r].ts /\ run'[r].mode = run[r].mode
          /\ \A o \in Runs \ {r} : run'[o] = run[o]
          /\ run[r].pc = "pool" /\ run[r].mode = "incremental"
      BY <1>5, <1>t, <2>1 DEF ChoosePool, RunRecords, StampInv, Pooled
    <2>3. Placed'
      BY <1>5, <2>1 DEF ChoosePool, Placed
    <2>4. \A o \in Runs \ {r} : ~Locked(o)
      BY <2>2 DEF Exclusive
    <2>5. \A q \in pools' : q[1] = run[r].freq => q[2] <= p
      BY <1>c, <2>1, TimeFacts
    <2>6. Latest'
      <3>1. LatestFile'
        BY <1>5, <2>2 DEF ChoosePool, LatestFile
      <3>2. LatestStamp'
        BY <2>2, <2>4 DEF LatestStamp
      <3>3. LatestPool'
        <4> SUFFICES ASSUME NEW o \in Runs, run'[o].mode = "incremental",
                            run'[o].pc \in {"backup", "pools"},
                            NEW q \in pools', q[1] = run'[o].freq
                     PROVE  q[2] <= run'[o].pool /\ <<run'[o].freq, run'[o].pool>> \in pools'
          BY DEF LatestPool
        <4>1. o = r
          BY <2>2, <2>4
        <4> QED BY <2>1, <2>2, <2>5, <4>1
      <3> QED BY <3>1, <3>2, <3>3
    <2> QED BY <1>x, <2>3, <2>6
  <1>6. ASSUME NEW r \in Runs, BeginBackup(r) PROVE PoolInv'
    <2>1. PICK db \in run[r].left :
              /\ backups' = backups \cup {NewBackup(r, db)}
              /\ run' = [run EXCEPT ![r].busy = {NewBackup(r, db)}]
              /\ ~Refused(r, db)
      BY <1>6, BeginAdds
    <2> DEFINE new == NewBackup(r, db)
    <2>2. /\ new.freq = run[r].freq /\ new.ts = run[r].ts /\ new.pool = run[r].pool
          /\ new.level = 1 => run[r].mode = "incremental"
      BY DEF NewBackup
    <2> HIDE DEF new
    <2>3. /\ run[r].pc = "backup"
          /\ \A o \in Runs : /\ run'[o].pc = run[o].pc /\ run'[o].freq = run[o].freq
                             /\ run'[o].ts = run[o].ts /\ run'[o].mode = run[o].mode
                             /\ run'[o].pool = run[o].pool
      BY <1>6, <1>t, <2>1 DEF BeginBackup, RunRecords
    <2>4. run[r].ts <= clock /\ (run[r].mode = "incremental" <=> run[r].pool # Never)
      BY <2>3 DEF StampInv, Claimed, Live, Pooled
    <2>5. Placed'
      BY <1>6, <2>1, <2>2, <2>4 DEF BeginBackup, Placed, Refused, new
    <2>6. Latest'
      <3>1. new.pool # Never => \A o \in Runs \ {r} : ~Locked(o)
        BY <2>2, <2>3, <2>4 DEF Exclusive
      <3>2. backups' = backups \cup {new} /\ pools' = pools
        BY <1>6, <2>1 DEF BeginBackup, new
      <3> QED BY <1>c, <2>2, <2>3, <3>1, <3>2 DEF LatestFile, LatestStamp, LatestPool
    <2> QED BY <1>x, <2>5, <2>6
  <1>7. ASSUME NEW r \in Runs, NEW b \in run[r].busy, Complete(r, b),
               UNCHANGED <<clock, pools>>,
               \A o \in Runs :
                  /\ run'[o].pc = run[o].pc /\ run'[o].freq = run[o].freq
                  /\ run'[o].ts = run[o].ts /\ run'[o].mode = run[o].mode
                  /\ run'[o].pool = run[o].pool
        PROVE PoolInv'
    <2>1. \A c \in backups' : \E d \in backups : /\ c.freq = d.freq /\ c.pool = d.pool
                                                 /\ c.ts = d.ts /\ c.level = d.level
      BY <1>7, CompleteKeeps
    <2>2. Placed'
      BY <1>7, <2>1, ZenonT(60) DEF Placed
    <2>3. Latest'
      BY <1>7, <2>1 DEF LatestFile, LatestStamp, LatestPool
    <2> QED BY <1>x, <2>2, <2>3
  <1>8. ASSUME NEW r \in Runs, EndBackup(r) PROVE PoolInv'
    <2>1. PICK b \in run[r].busy : Complete(r, b)
             /\ run' = [run EXCEPT ![r].busy = {}, ![r].left = @ \ {b.db}]
      BY <1>8 DEF EndBackup
    <2>2. \A o \in Runs :
                  /\ run'[o].pc = run[o].pc /\ run'[o].freq = run[o].freq
                  /\ run'[o].ts = run[o].ts /\ run'[o].mode = run[o].mode
                  /\ run'[o].pool = run[o].pool
      BY <1>t, <2>1 DEF RunRecords
    <2> QED BY <1>7, <1>8, <2>1, <2>2 DEF EndBackup
  <1>9. ASSUME NEW r \in Runs, OrphanEnds(r) PROVE PoolInv'
    <2>1. \A o \in Runs :
                  /\ run'[o].pc = run[o].pc /\ run'[o].freq = run[o].freq
                  /\ run'[o].ts = run[o].ts /\ run'[o].mode = run[o].mode
                  /\ run'[o].pool = run[o].pool
      BY <1>9, <1>t DEF OrphanEnds, RunRecords
    <2> QED BY <1>7, <1>9, <2>1 DEF OrphanEnds
  <1>10. ASSUME NEW r \in Runs, BackupFails(r) PROVE PoolInv'
    BY <1>10, <1>t, <1>s, <1>x DEF BackupFails, Exit, RunRecords
  <1>11. ASSUME NEW r \in Runs, BackupsTaken(r) PROVE PoolInv'
    BY <1>11, <1>t, <1>s, <1>x DEF BackupsTaken, Step, RunRecords
  <1>12. ASSUME NEW r \in Runs, DeletePools(r) PROVE PoolInv'
    <2>1. /\ run'[r].pc = "prune" /\ run'[r].ts = run[r].ts /\ run[r].pc = "pools"
          /\ run[r].mode = "incremental" /\ run'[r].mode = run[r].mode
          /\ \A o \in Runs \ {r} : run'[o] = run[o]
      BY <1>12, <1>t DEF DeletePools, Step, RunRecords, StampInv, Pooled
    <2>2. \A o \in Runs \ {r} : ~Locked(o)
      BY <2>1 DEF Exclusive
    <2>3. Placed'
      BY <1>12 DEF DeletePools, Placed
    <2>4. Latest'
      <3>1. LatestFile'
        BY <1>12, <2>1, <2>2 DEF DeletePools, LatestFile
      <3>2. LatestStamp' /\ LatestPool'
        BY <2>1, <2>2 DEF LatestStamp, LatestPool
      <3> QED BY <3>1, <3>2
    <2> QED BY <1>x, <2>3, <2>4
  <1>13. ASSUME NEW r \in Runs, Prune(r) PROVE PoolInv'
    <2>1. /\ run'[r].pc = "done" /\ \A o \in Runs \ {r} : run'[o] = run[o]
      BY <1>13, <1>t DEF Prune, Step, RunRecords
    <2>2. Placed'
      BY <1>13 DEF Prune, Placed
    <2>3. Cutoff(r) \in Int
      BY <1>t, <1>c, ScheduleAssumption DEF Cutoff, RunRecords
    <2>4. ASSUME NEW o \in Runs \ {r}, run[o].mode = "incremental",
                 run[o].pc \in {"backup", "pools"}, NEW p \in pools', p[1] = run[o].freq
          PROVE  p[2] <= run[o].pool /\ <<run[o].freq, run[o].pool>> \in pools'
      <3>1. p \in pools /\ p[2] <= run[o].pool /\ <<run[o].freq, run[o].pool>> \in pools
        BY <1>13, <2>4 DEF Prune, LatestFile, LatestStamp, LatestPool
      <3> QED BY <1>13, <1>b, <1>c, <2>3, <2>4, <3>1 DEF Prune, Expired
    <2>5. Latest'
      <3>1. backups' \subseteq backups /\ pools' \subseteq pools
        BY <1>13 DEF Prune
      <3> QED BY <2>1, <2>4, <3>1 DEF LatestFile, LatestStamp, LatestPool
    <2> QED BY <1>x, <2>2, <2>5
  <1>14. ASSUME NEW r \in Runs, Killed(r) PROVE PoolInv'
    <2>1. run'[r].pc = "failed" /\ \A o \in Runs \ {r} : run'[o] = run[o]
      BY <1>14, <1>t DEF Killed, Step, RunRecords
    <2> QED BY <1>14, <1>s, <1>x, <2>1 DEF Killed
  <1>15. ASSUME NEW db \in DB, Restored(db) PROVE PoolInv'
    BY <1>15, <1>s, <1>x DEF Restored
  <1>16. ASSUME Tick PROVE PoolInv'
    <2>1. Placed'
      <3>1. \A x \in Int : x <= clock => x <= clock'
        BY <1>16, <1>c DEF Tick
      <3> QED BY <1>16, <1>b, <3>1 DEF Tick, Placed
    <2>2. Latest'
      BY <1>16 DEF Tick, LatestFile, LatestStamp, LatestPool
    <2> QED BY <1>x, <2>1, <2>2
  <1>17. ASSUME UNCHANGED vars PROVE PoolInv'
    BY <1>17, <1>s, <1>x DEF vars
  <1> QED BY <1>1, <1>2, <1>3, <1>4, <1>5, <1>6, <1>8, <1>9, <1>10, <1>11,
             <1>12, <1>13, <1>14, <1>15, <1>16, <1>17 DEF Next, Script

(***************************************************************************)
(* What RDB$BACKUP_HISTORY says about a pool's level 0, and what lies in    *)
(* the pools, orphaned backups included.                                    *)
(***************************************************************************)
Recorded(f, p, db) == history[db] = Level0(f, p, db)

HistoryZero == \A db \in DB :
    history[db] # NoRow => history[db][3] = db /\ history[db][4] = 0

HistoryPast == \A f \in Freqs, p \in Time, db \in DB :
    Recorded(f, p, db) => p < clock \/ <<f, p>> \in pools

HistoryTrue == \A b \in backups :
    b.level = 0 /\ b.pool # Never /\ history[b.db] = Name(b)
        => b.ok \/ b.pool < Age(b.freq)

HistoryFile == \A f \in Freqs, p \in Time, db \in DB :
    Recorded(f, p, db) /\ <<f, p>> \in pools
        => p < Age(f) \/ Exists(Level0(f, p, db))

(* A run that could make a pool does not make one that was there before,    *)
(* unless a prune of a Job without the lock has taken it since.             *)
Known(f, p) ==
    \/ \E db \in DB : Recorded(f, p, db)
    \/ \E o \in Runs : \E b \in run[o].busy : b.freq = f /\ b.pool = p

HistoryFresh == \A r \in Runs :
    run[r].mode = "incremental" /\ Known(run[r].freq, run[r].ts) =>
        /\ run[r].pc = "pool" => run[r].ts < Age(run[r].freq)
        /\ run[r].pc = "check" => run[r].ts < Age(run[r].freq)
                                    \/ <<run[r].freq, run[r].ts>> \in pools

(* What a physical run is writing is in its place until its pool is gone.   *)
Placing(b) ==
    /\ \A c \in backups : Name(c) = Name(b) => c = b
    /\ b.pool # Never =>
          IF <<b.freq, b.pool>> \in pools THEN b \in backups \/ b.pool < Age(b.freq)
          ELSE b.pool < clock

Writing == \A r \in Runs : \A b \in run[r].busy : Placing(b)

(* The pool a run works on has complete level 0 backups, but for the one    *)
(* the run itself is writing.                                               *)
Founded == \A r \in Runs :
    run[r].mode = "incremental" /\ run[r].pc \in {"backup", "pools"} =>
        /\ run[r].pool <= run[r].ts
        /\ \A b \in backups : Name(b) = Level0(run[r].freq, run[r].pool, b.db)
              => b.ok \/ b \in run[r].busy

(* A level 1 has a complete level 0 beside it, if not always its own base.  *)
Rooted == \A c \in backups : c.level = 1 =>
    /\ c.base[3] = c.db /\ c.base[4] = 0
    /\ \E z \in backups : z.ok /\ Name(z) = Level0(c.freq, c.pool, c.db)

(* Whatever is in a pool is no newer than the pools that follow it.         *)
Ordered == \A b \in backups : b.pool # Never =>
    /\ b.pool <= b.ts
    /\ \A p \in pools : p[1] = b.freq /\ b.pool < p[2] => b.ts <= p[2]

RootInv == HistoryZero /\ HistoryPast /\ HistoryTrue /\ HistoryFile /\ HistoryFresh
           /\ Writing /\ Founded /\ Rooted /\ Ordered

(* Names, and what they tell.                                               *)
LEMMA Level0Names ==
    ASSUME NEW b \in Backups, NEW f, NEW p \in Time, NEW db
    PROVE  Name(b) = Level0(f, p, db)
              <=> b.freq = f /\ b.pool = p /\ b.db = db /\ b.level = 0
  <1>1. p # Never /\ b.ts # Never /\ b.level \in {0, 1}
    BY TimeFacts DEF Backups
  <1> QED BY <1>1 DEF Name, Level0

(* What two backups of one name have in common.                             *)
LEMMA SameName ==
    ASSUME NEW b \in Backups, NEW c \in Backups, Name(b) = Name(c)
    PROVE  /\ b.freq = c.freq /\ b.pool = c.pool /\ b.db = c.db /\ b.level = c.level
           /\ b.pool = Never \/ b.level = 1 => b.ts = c.ts
  <1>1. b.level \in {0, 1}
    BY DEF Backups
  <1> QED BY <1>1 DEF Name

(* A backup has a name, never the missing row of the history.               *)
LEMMA NotNoRow == /\ \A b : Name(b) # NoRow
                  /\ \A f, p, db : Level0(f, p, db) # NoRow
  BY DEF Name, Level0, NoRow

(* Whoever is writing has a timestamp nobody shares.                        *)
LEMMA WriterLives ==
    ASSUME StampInv, NEW r \in Runs, NEW b \in run[r].busy
    PROVE  Live(r) /\ (b.pool # Never => Physical(r))
  BY DEF StampInv, Busy, Pooled, Live, Stamped, Physical

(* Two runs of the physical modes are never both under way.                 *)
LEMMA OneLocked ==
    ASSUME PoolInv, NEW r \in Runs, NEW o \in Runs, Locked(r), Locked(o)
    PROVE  r = o
  BY DEF PoolInv, Exclusive

(* A step that only moves runs on, without entering these steps.            *)
LEMMA RootQuiet ==
    ASSUME RootInv, UNCHANGED <<clock, pools, backups, history>>,
           \A r \in Runs :
              /\ run'[r].busy \in {{}, run[r].busy}
              /\ run'[r].pc \in {"check", "pool"} => run'[r] = run[r]
              /\ run'[r].pc \in {"backup", "pools"} =>
                    /\ run[r].pc \in {"backup", "pools"}
                    /\ run'[r].mode = run[r].mode /\ run'[r].freq = run[r].freq
                    /\ run'[r].pool = run[r].pool /\ run'[r].ts = run[r].ts
                    /\ run'[r].busy = run[r].busy
    PROVE  RootInv'
  <1> USE DEF RootInv
  <1>1. HistoryZero' /\ HistoryPast' /\ HistoryTrue' /\ HistoryFile'
    BY DEF HistoryZero, HistoryPast, HistoryTrue, HistoryFile, Recorded, Exists, Age,
           Name, Level0
  <1>2. HistoryFresh'
    <2>1. \A f, p : Known(f, p)' => Known(f, p)
      BY DEF Known, Recorded, Level0
    <2> QED BY <2>1 DEF HistoryFresh, Age
  <1>3. Writing'
    BY DEF Writing, Placing, Name, Age
  <1>4. Founded'
    BY DEF Founded, Name, Level0
  <1>5. Rooted' /\ Ordered'
    BY DEF Rooted, Ordered, Name, Level0
  <1> QED BY <1>1, <1>2, <1>3, <1>4, <1>5

(* The initial states satisfy RootInv.                                      *)
LEMMA RootInit == Init => RootInv
  <1> SUFFICES ASSUME Init PROVE RootInv
    OBVIOUS
  <1>1. \A r \in Runs : run[r].pc = "none" /\ run[r].busy = {}
    BY DEF Init, Idle
  <1>2. \A f \in Freqs, p \in Time, db \in DB : ~Recorded(f, p, db)
    BY NotNoRow DEF Init, Recorded
  <1>3. backups = {} /\ \A db \in DB : history[db] = NoRow
    BY DEF Init
  <1> QED BY <1>1, <1>2, <1>3
      DEF RootInv, HistoryZero, HistoryPast, HistoryTrue, HistoryFile, HistoryFresh,
          Writing, Founded, Rooted, Ordered

(* Choosing a pool, and what the steps that touch files or the history do.  *)
LEMMA RootChoose ==
    ASSUME TypeInv, StampInv, PoolInv, RootInv, NEW r \in Runs, ChoosePool(r)
    PROVE  RootInv'
  <1> USE DEF RootInv
  <1>t. DOMAIN run = Runs /\ \A o \in Runs : run[o] \in RunRecords
    BY DEF TypeInv, TypeOK
  <1>u. UNCHANGED <<clock, backups, history>> /\ run[r].pc = "pool"
    BY DEF ChoosePool
  <1>r. /\ run[r].mode = "incremental" /\ run[r].busy = {} /\ Locked(r)
        /\ run[r].ts \in Time /\ run[r].freq \in Freqs
    BY <1>t, <1>u DEF StampInv, Pooled, Busy, Claimed, Live, Stamped, Locked, Physical,
                      RunRecords
  <1>p. PICK p \in Time :
           /\ run' = [run EXCEPT ![r].pc = "backup", ![r].pool = p]
           /\ \/ /\ pools' = pools \cup {<<run[r].freq, p>>}
                 /\ p = run[r].ts /\ <<run[r].freq, p>> \notin pools
              \/ /\ pools' = pools /\ <<run[r].freq, p>> \in pools
                 /\ p >= Cutoff(r) /\ ~Stale(r, p)
    <2>1. Newest(run[r].freq) # Never =>
             /\ Newest(run[r].freq) \in Time
             /\ <<run[r].freq, Newest(run[r].freq)>> \in pools
      BY NewestPool
    <2> QED BY <1>r, <2>1 DEF ChoosePool
  <1>n. /\ run'[r].pc = "backup" /\ run'[r].pool = p /\ run'[r].freq = run[r].freq
        /\ run'[r].busy = run[r].busy /\ run'[r].mode = run[r].mode
        /\ run'[r].ts = run[r].ts
        /\ \A o \in Runs \ {r} : run'[o] = run[o]
    BY <1>t, <1>p DEF RunRecords
  <1>o. \A o \in Runs \ {r} : ~Locked(o)
    BY <1>r, OneLocked
  <1>b. backups \subseteq Backups
    BY DEF TypeInv, TypeOK
  <1>f. ASSUME NEW f, NEW q, Known(f, q), <<f, q>> \in pools', <<f, q>> \notin pools
        PROVE  q < Age(f)
    <2>1. f = run[r].freq /\ q = run[r].ts
      BY <1>f, <1>p
    <2> QED BY <1>f, <1>r, <1>u, <2>1 DEF HistoryFresh
  <1>1. HistoryZero' /\ HistoryPast' /\ HistoryTrue' /\ Rooted'
    BY <1>u, <1>p
    DEF HistoryZero, HistoryPast, HistoryTrue, Rooted, Recorded, Age, Name, Level0
  <1>2. HistoryFile'
    <2> SUFFICES ASSUME NEW f \in Freqs, NEW q \in Time, NEW db \in DB,
                        Recorded(f, q, db)', <<f, q>> \in pools'
                 PROVE  q < Age(f)' \/ Exists(Level0(f, q, db))'
      BY DEF HistoryFile, Level0
    <2>1. Recorded(f, q, db)
      BY <1>u DEF Recorded, Level0
    <2>2. CASE <<f, q>> \in pools
      BY <1>u, <2>1, <2>2 DEF HistoryFile, Age, Exists, Name, Level0
    <2>3. CASE <<f, q>> \notin pools
      <3>1. Known(f, q)
        BY <2>1 DEF Known
      <3>2. q < Age(f)
        BY <1>f, <2>3, <3>1
      <3> QED BY <1>u, <3>2 DEF Age
    <2> QED BY <2>2, <2>3
  <1>3. HistoryFresh'
    BY <1>n, <1>o DEF HistoryFresh, Locked, Physical
  <1>4. Writing'
    <2> SUFFICES ASSUME NEW o \in Runs, NEW b \in run[o].busy PROVE Placing(b)'
      BY <1>n DEF Writing
    <2>1. Placing(b) /\ Known(b.freq, b.pool)
      BY DEF Writing, Known
    <2>2. CASE <<b.freq, b.pool>> \in pools
      BY <1>p, <1>u, <2>1, <2>2 DEF Placing, Name, Age
    <2>3. CASE <<b.freq, b.pool>> \notin pools /\ <<b.freq, b.pool>> \in pools'
      <3>1. b.pool < Age(b.freq)
        BY <1>f, <2>1, <2>3
      <3> QED BY <1>u, <2>1, <2>3, <3>1 DEF Placing, Name, Age
    <2>4. CASE <<b.freq, b.pool>> \notin pools'
      BY <1>p, <1>u, <2>1, <2>4 DEF Placing, Name, Age
    <2> QED BY <2>2, <2>3, <2>4
  <1>5. Founded'
    <2>0. ASSUME NEW o \in Runs, run'[o].mode = "incremental",
                 run'[o].pc \in {"backup", "pools"}
          PROVE  o = r
      BY <1>n, <1>o, <2>0 DEF Locked, Physical
    <2>1. run'[r].pool <= run'[r].ts
      <3>1. <<run[r].freq, p>> \in pools => p <= run[r].ts
        BY <1>r, <1>u DEF PoolInv, Latest, LatestStamp
      <3>2. run[r].ts <= run[r].ts
        BY <1>r, TimeFacts
      <3> QED BY <1>n, <1>p, <3>1, <3>2
    <2>2. ASSUME NEW b \in backups, Name(b) = Level0(run'[r].freq, run'[r].pool, b.db)
          PROVE  b.ok
      <3>2. /\ Name(b) = Level0(run[r].freq, p, b.db) /\ b.freq = run[r].freq
            /\ b.pool = p /\ b.level = 0 /\ b.db \in DB /\ p # Never
        BY <1>n, <1>b, <2>2, Level0Names, TimeFacts DEF Backups
      <3>3. CASE <<run[r].freq, p>> \notin pools
        BY <3>2, <3>3 DEF PoolInv, Placed
      <3>4. CASE p >= Cutoff(r) /\ ~Stale(r, p)
        <4>1. history[b.db] = Name(b)
          BY <3>2, <3>4 DEF Stale, Exists
        <4>2. ~(b.pool < Age(b.freq))
          <5>1. Cutoff(r) \in Int /\ p \in Int /\ Cutoff(r) = Age(b.freq)
            BY <1>t, <3>2, ScheduleAssumption, TimeFacts
            DEF Cutoff, Age, RunRecords, TypeInv, TypeOK
          <5> QED BY <3>2, <3>4, <5>1
        <4> QED BY <3>2, <4>1, <4>2 DEF HistoryTrue
      <3> QED BY <1>p, <3>3, <3>4
    <2> QED BY <1>u, <2>0, <2>1, <2>2 DEF Founded, Name, Level0
  <1>6. Ordered'
    <2>1. \A b \in backups : b.pool # Never => b.ts <= run[r].ts
      BY <1>r, <1>u DEF PoolInv, Latest, LatestFile, Stamped
    <2> QED BY <1>p, <1>u, <2>1 DEF Ordered
  <1> QED BY <1>1, <1>2, <1>3, <1>4, <1>5, <1>6

(* Beginning a backup keeps RootInv.                                        *)
LEMMA RootBegin ==
    ASSUME TypeInv, StampInv, FileInv, PoolInv, RootInv, NEW r \in Runs, BeginBackup(r)
    PROVE  RootInv'
  <1> USE DEF RootInv
  <1>t. DOMAIN run = Runs /\ \A o \in Runs : run[o] \in RunRecords
    BY DEF TypeInv, TypeOK
  <1>u. UNCHANGED <<clock, pools, history>> /\ run[r].pc = "backup" /\ run[r].busy = {}
    BY DEF BeginBackup
  <1>r. /\ run[r].ts \in Time /\ run[r].freq \in Freqs /\ Live(r)
        /\ run[r].mode = "incremental" <=> run[r].pool # Never
        /\ run[r].pool # Never => run[r].pool \in Time
    BY <1>t, <1>u DEF StampInv, Pooled, Claimed, Live, Stamped, RunRecords, Stamps
  <1>d. PICK db \in run[r].left :
              /\ backups' = backups \cup {NewBackup(r, db)}
              /\ run' = [run EXCEPT ![r].busy = {NewBackup(r, db)}]
              /\ ~Refused(r, db)
              /\ \A b \in backups : Name(b) # Name(NewBackup(r, db))
    BY BeginAdds
  <1> DEFINE new == NewBackup(r, db)
  <1>w. /\ new \in Backups /\ db \in DB
        /\ new.freq = run[r].freq /\ new.ts = run[r].ts /\ new.pool = run[r].pool
        /\ new.db = db /\ new.level \in {0, 1} /\ ~new.ok
        /\ new.level = 1 <=> /\ run[r].mode = "incremental"
                             /\ Exists(Level0(run[r].freq, run[r].pool, db))
        /\ new.level = 1 => new.base = history[db]
    <2>1. new \in Backups /\ db \in DB
      BY <1>t, <1>r, NewBackupType DEF RunRecords, TypeInv
    <2> QED BY <2>1 DEF NewBackup
  <1>x. /\ new.level = 1 => history[db] # NoRow
        /\ new.pool # Never => <<new.freq, new.pool>> \in pools
        /\ Physical(r) => \A o \in Runs : Physical(o) => \A b \in run[o].busy : b.db # db
    BY <1>d, <1>w DEF Refused
  <1>y. /\ backups' = backups \cup {new} /\ run' = [run EXCEPT ![r].busy = {new}]
        /\ \A b \in backups : Name(b) # Name(new)
    BY <1>d
  <1> HIDE DEF new
  <1>n. /\ run'[r].busy = {new} /\ run'[r].left = run[r].left
        /\ \A o \in Runs \ {r} : run'[o] = run[o]
        /\ \A o \in Runs : /\ run'[o].pc = run[o].pc /\ run'[o].freq = run[o].freq
                           /\ run'[o].ts = run[o].ts /\ run'[o].mode = run[o].mode
                           /\ run'[o].pool = run[o].pool
    BY <1>t, <1>y DEF RunRecords
  <1>b. backups \subseteq Backups
    BY DEF TypeInv, TypeOK
  <1>l. new.pool # Never => Locked(r)
    BY <1>r, <1>u, <1>w DEF Locked, Physical
  <1>1. HistoryZero' /\ HistoryPast'
    BY <1>u DEF HistoryZero, HistoryPast, Recorded, Level0
  <1>2. HistoryTrue'
    <2> SUFFICES ASSUME new.level = 0, new.pool # Never, history[db] = Name(new)
                 PROVE  new.pool < Age(new.freq)
      BY <1>u, <1>w, <1>y DEF HistoryTrue, Age, Name
    <2>1. Name(new) = Level0(new.freq, new.pool, db)
      BY <1>r, <1>w, Level0Names
    <2>2. ~Exists(Level0(new.freq, new.pool, db))
      BY <1>r, <1>w
    <2> QED BY <1>r, <1>w, <1>x, <2>1, <2>2 DEF HistoryFile, Recorded
  <1>3. HistoryFile'
    BY <1>u, <1>y DEF HistoryFile, Recorded, Exists, Age, Name, Level0
  <1>4. HistoryFresh'
    <2> SUFFICES ASSUME NEW o \in Runs, run[o].mode = "incremental",
                        run[o].pc \in {"check", "pool"}, Known(run[o].freq, run[o].ts)'
                 PROVE  Known(run[o].freq, run[o].ts)
      BY <1>u, <1>n DEF HistoryFresh, Age
    <2>1. o # r /\ Locked(o) /\ run[o].ts \in Time
      BY <1>u DEF Locked, Physical, TypeInv, Stamped
    <2>2. run[o].ts # new.pool
      BY <1>l, <2>1, OneLocked, TimeFacts
    <2>3. \/ \E d \in DB : Recorded(run[o].freq, run[o].ts, d)
          \/ \E q \in Runs : \E b \in run'[q].busy : b.freq = run[o].freq /\ b.pool = run[o].ts
      BY <1>u, <1>n DEF Known, Recorded, Level0
    <2>4. ASSUME NEW q \in Runs, NEW b \in run'[q].busy, b.pool = run[o].ts
          PROVE  b \in run[q].busy
      BY <1>n, <2>2, <2>4
    <2> QED BY <2>3, <2>4 DEF Known
  <1>5. Writing'
    <2> SUFFICES ASSUME NEW o \in Runs, NEW b \in run'[o].busy PROVE Placing(b)'
      BY DEF Writing
    <2>1. CASE o = r
      <3>1. b = new
        BY <1>n, <2>1
      <3> QED BY <1>u, <1>x, <1>y, <3>1 DEF Placing, Name
    <2>2. CASE o # r
      <3>1. b \in run[o].busy /\ b \in Backups
        BY <1>n, <1>t, <2>2 DEF RunRecords
      <3>2. Name(new) # Name(b)
        <4> SUFFICES ASSUME Name(new) = Name(b) PROVE FALSE
          OBVIOUS
        <4>1. /\ new.freq = b.freq /\ new.pool = b.pool /\ new.db = b.db
              /\ new.pool = Never => new.ts = b.ts
          BY <1>w, <3>1, SameName
        <4>2. b.freq = run[o].freq /\ b.ts = run[o].ts /\ Live(o)
          BY <3>1, WriterLives DEF StampInv, Busy
        <4>3. CASE new.pool = Never
          BY <1>r, <1>w, <2>2, <4>1, <4>2, <4>3 DEF StampInv, Unshared
        <4>4. CASE new.pool # Never
          <5>1. Physical(o)
            BY <3>1, <4>1, <4>4, WriterLives
          <5>2. Physical(r)
            BY <1>l, <4>4 DEF Locked
          <5> QED BY <1>w, <1>x, <3>1, <4>1, <5>1, <5>2
        <4> QED BY <4>3, <4>4
      <3>3. Placing(b)
        BY <3>1 DEF Writing
      <3> QED BY <1>u, <1>y, <3>2, <3>3 DEF Placing, Name, Age
    <2> QED BY <2>1, <2>2
  <1>6. Founded'
    <2> SUFFICES ASSUME NEW o \in Runs, run[o].mode = "incremental",
                        run[o].pc \in {"backup", "pools"}
                 PROVE  /\ run[o].pool <= run[o].ts
                        /\ \A b \in backups' :
                              Name(b) = Level0(run[o].freq, run[o].pool, b.db)
                                 => b.ok \/ b \in run'[o].busy
      BY <1>n DEF Founded, Name, Level0
    <2>1. /\ run[o].pool <= run[o].ts
          /\ \A b \in backups : Name(b) = Level0(run[o].freq, run[o].pool, b.db)
                => b.ok \/ b \in run[o].busy
      BY DEF Founded
    <2>2. CASE o = r
      BY <1>n, <1>u, <1>y, <2>1, <2>2
    <2>3. CASE o # r
      <3>1. ~Locked(r)
        BY <2>3, OneLocked DEF Locked, Physical
      <3>2. new.pool = Never /\ run[o].pool # Never
        BY <1>l, <3>1 DEF StampInv, Pooled
      <3>3. run[o].pool \in Time
        BY <1>t, <3>2 DEF RunRecords, Stamps
      <3>4. Name(new) # Level0(run[o].freq, run[o].pool, new.db)
        BY <1>w, <3>2, <3>3, Level0Names
      <3> QED BY <1>n, <1>y, <2>1, <2>3, <3>4
    <2> QED BY <2>2, <2>3
  <1>7. Rooted'
    <2>1. ASSUME new.level = 1
          PROVE  /\ new.base[3] = new.db /\ new.base[4] = 0
                 /\ \E z \in backups : z.ok /\ Name(z) = Level0(new.freq, new.pool, new.db)
      <3>1. PICK z \in backups : Name(z) = Level0(run[r].freq, run[r].pool, db)
        BY <1>w, <2>1 DEF Exists
      <3>2. z.db = db
        BY <1>b, <1>r, <1>w, <2>1, <3>1, Level0Names
      <3>3. z.ok
        BY <1>u, <1>w, <2>1, <3>1, <3>2 DEF Founded
      <3>4. new.base[3] = db /\ new.base[4] = 0
        BY <1>w, <1>x, <2>1 DEF HistoryZero
      <3> QED BY <1>w, <3>1, <3>3, <3>4
    <2> QED BY <1>y, <2>1 DEF Rooted, Name, Level0
  <1>8. Ordered'
    <2>1. ASSUME new.pool # Never
          PROVE  /\ new.pool <= new.ts
                 /\ \A p \in pools : p[1] = new.freq => ~(new.pool < p[2])
      <3>1. new.pool <= new.ts
        BY <1>r, <1>u, <1>w, <2>1 DEF Founded
      <3>2. \A p \in pools : p[1] = new.freq => p[2] <= new.pool /\ p[2] \in Int
        BY <1>r, <1>u, <1>w, <2>1, TimeFacts
        DEF PoolInv, Latest, LatestPool, TypeInv, TypeOK
      <3>3. new.pool \in Int
        BY <1>r, <1>w, <2>1, TimeFacts
      <3> QED BY <3>1, <3>2, <3>3
    <2> QED BY <1>u, <1>y, <2>1 DEF Ordered
  <1> QED BY <1>1, <1>2, <1>3, <1>4, <1>5, <1>6, <1>7, <1>8

(* So does ending one, an orphan too, which adds its row to the history.    *)
LEMMA RootComplete ==
    ASSUME TypeInv, StampInv, FileInv, PoolInv, RootInv, NEW r \in Runs,
           NEW b \in run[r].busy, Complete(r, b), UNCHANGED <<clock, pools>>,
           run'[r].busy = {}, \A o \in Runs \ {r} : run'[o] = run[o],
           \A o \in Runs : /\ run'[o].pc = run[o].pc /\ run'[o].freq = run[o].freq
                           /\ run'[o].ts = run[o].ts /\ run'[o].mode = run[o].mode
                           /\ run'[o].pool = run[o].pool
    PROVE  RootInv'
  <1> USE DEF RootInv
  <1>t. DOMAIN run = Runs /\ \A o \in Runs : run[o] \in RunRecords
    BY DEF TypeInv, TypeOK
  <1>b. /\ b \in Backups /\ backups \subseteq Backups /\ b.db \in DB
        /\ b.freq = run[r].freq /\ b.pool = run[r].pool /\ b.ts = run[r].ts
        /\ ~b.ok /\ run[r].busy = {b} /\ Live(r) /\ Placing(b)
    BY <1>t, WriterLives DEF StampInv, Busy, TypeInv, TypeOK, RunRecords, Backups, Writing
  <1>h. /\ history' = history \/ (b.level = 0 /\ history' = [history EXCEPT ![b.db] = Name(b)])
        /\ DOMAIN history = DB
    BY DEF Complete, TypeInv, TypeOK
  <1>k. ASSUME NEW c \in backups'
        PROVE  \/ c \in backups /\ c # b
               \/ /\ b \in backups /\ c.ok /\ Name(c) = Name(b)
                  /\ c.freq = b.freq /\ c.pool = b.pool /\ c.db = b.db
                  /\ c.level = b.level /\ c.ts = b.ts /\ c.base = b.base
    BY CompleteKeeps
  <1>l. ASSUME NEW c \in backups, c # b PROVE c \in backups'
    BY <1>l DEF Complete
  <1>e. ASSUME NEW name, Exists(name) PROVE Exists(name)'
    <2>1. PICK c \in backups : Name(c) = name
      BY <1>e DEF Exists
    <2>2. Name([b EXCEPT !.ok = TRUE]) = Name(b)
      BY <1>b DEF Backups, Name
    <2>3. CASE c = b
      <3>1. [b EXCEPT !.ok = TRUE] \in backups'
        BY <2>1, <2>3 DEF Complete
      <3> QED BY <2>1, <2>2, <2>3, <3>1 DEF Exists, Name
    <2> QED BY <1>l, <2>1, <2>3 DEF Exists, Name
  <1>a. ASSUME NEW f \in Freqs, NEW p \in Time, NEW db \in DB, Recorded(f, p, db)',
               ~Recorded(f, p, db)
        PROVE  /\ Name(b) = Level0(f, p, db)
               /\ db = b.db /\ b.freq = f /\ b.pool = p /\ p # Never
    <2>1. db = b.db /\ Name(b) = Level0(f, p, db)
      BY <1>a, <1>h DEF Recorded, Level0
    <2> QED BY <1>b, <2>1, Level0Names, TimeFacts
  <1>1. HistoryZero'
    <2>1. b.level = 0 => Name(b)[3] = b.db /\ Name(b)[4] = 0
      BY DEF Name
    <2> QED BY <1>b, <1>h, <2>1 DEF HistoryZero
  <1>2. HistoryPast'
    <2> SUFFICES ASSUME NEW f \in Freqs, NEW p \in Time, NEW db \in DB, Recorded(f, p, db)'
                 PROVE  p < clock \/ <<f, p>> \in pools
      BY DEF HistoryPast
    <2>1. CASE Recorded(f, p, db)
      BY <2>1 DEF HistoryPast
    <2>2. CASE ~Recorded(f, p, db)
      BY <1>a, <1>b, <2>2 DEF Placing
    <2> QED BY <2>1, <2>2
  <1>3. HistoryTrue'
    <2> SUFFICES ASSUME NEW c \in backups', c.level = 0, c.pool # Never,
                        history'[c.db] = Name(c), ~c.ok
                 PROVE  c.pool < Age(c.freq)
      BY DEF HistoryTrue, Age, Name
    <2>1. c \in backups /\ c # b
      BY <1>k
    <2>2. Name(c) # Name(b)
      BY <1>b, <2>1 DEF Placing
    <2>3. history[c.db] = Name(c)
      BY <1>b, <1>h, <2>1, <2>2 DEF Backups
    <2> QED BY <2>1, <2>3 DEF HistoryTrue
  <1>4. HistoryFile'
    <2> SUFFICES ASSUME NEW f \in Freqs, NEW p \in Time, NEW db \in DB,
                        Recorded(f, p, db)', <<f, p>> \in pools
                 PROVE  p < Age(f) \/ Exists(Level0(f, p, db))'
      BY DEF HistoryFile, Age, Level0
    <2>1. CASE Recorded(f, p, db)
      BY <1>e, <2>1 DEF HistoryFile
    <2>2. CASE ~Recorded(f, p, db)
      <3>1. /\ Name(b) = Level0(f, p, db) /\ b.freq = f /\ b.pool = p /\ p # Never
        BY <1>a, <2>2
      <3>2. b \in backups => Exists(Level0(f, p, db))
        BY <3>1 DEF Exists
      <3> QED BY <1>b, <1>e, <3>1, <3>2 DEF Placing
    <2> QED BY <2>1, <2>2
  <1>5. HistoryFresh'
    <2> SUFFICES ASSUME NEW o \in Runs, run[o].pc \in {"check", "pool"},
                        Known(run[o].freq, run[o].ts)'
                 PROVE  Known(run[o].freq, run[o].ts)
      BY DEF HistoryFresh, Age
    <2>1. run[o].freq \in Freqs /\ run[o].ts \in Time
      BY <1>t DEF TypeInv, Stamped, RunRecords
    <2>2. CASE \E d \in DB : Recorded(run[o].freq, run[o].ts, d)'
      <3>1. PICK d \in DB : Recorded(run[o].freq, run[o].ts, d)'
        BY <2>2
      <3>2. CASE Recorded(run[o].freq, run[o].ts, d)
        BY <3>2 DEF Known
      <3>3. CASE ~Recorded(run[o].freq, run[o].ts, d)
        <4>1. b.freq = run[o].freq /\ b.pool = run[o].ts
          BY <1>a, <2>1, <3>1, <3>3
        <4> QED BY <4>1 DEF Known
      <3> QED BY <3>2, <3>3
    <2>3. CASE \E q \in Runs : \E c \in run'[q].busy :
                  c.freq = run[o].freq /\ c.pool = run[o].ts
      BY <2>3 DEF Known
    <2> QED BY <2>2, <2>3 DEF Known, Recorded, Level0
  <1>6. Writing'
    <2> SUFFICES ASSUME NEW o \in Runs, NEW c \in run'[o].busy PROVE Placing(c)'
      BY DEF Writing
    <2>1. o # r /\ c \in run[o].busy
      OBVIOUS
    <2>2. c.freq = run[o].freq /\ c.ts = run[o].ts /\ Live(o) /\ Placing(c)
      BY <2>1, WriterLives DEF StampInv, Busy, Writing
    <2>3. b # c
      BY <1>b, <2>1, <2>2 DEF StampInv, Unshared
    <2>4. ASSUME NEW d \in backups', Name(d) = Name(c) PROVE d = c
      BY <1>k, <2>2, <2>3, <2>4 DEF Placing
    <2>5. c \in backups => c \in backups'
      BY <1>l, <2>3
    <2> QED BY <2>2, <2>4, <2>5 DEF Placing, Name, Age
  <1>7. Founded'
    <2> SUFFICES ASSUME NEW o \in Runs, run[o].mode = "incremental",
                        run[o].pc \in {"backup", "pools"}
                 PROVE  /\ run[o].pool <= run[o].ts
                        /\ \A c \in backups' :
                              Name(c) = Level0(run[o].freq, run[o].pool, c.db)
                                 => c.ok \/ c \in run'[o].busy
      BY DEF Founded, Name, Level0
    <2>1. /\ run[o].pool <= run[o].ts
          /\ \A c \in backups : Name(c) = Level0(run[o].freq, run[o].pool, c.db)
                => c.ok \/ c \in run[o].busy
      BY DEF Founded
    <2>2. ASSUME NEW c \in backups, c # b, c \in run[o].busy PROVE c \in run'[o].busy
      BY <1>b, <2>2
    <2> QED BY <1>k, <2>1, <2>2
  <1>8. Rooted'
    <2> SUFFICES ASSUME NEW c \in backups', c.level = 1
                 PROVE  /\ c.base[3] = c.db /\ c.base[4] = 0
                        /\ \E z \in backups' : z.ok /\ Name(z) = Level0(c.freq, c.pool, c.db)
      BY DEF Rooted, Name, Level0
    <2>1. PICK d \in backups : /\ d.level = 1 /\ d.freq = c.freq /\ d.pool = c.pool
                               /\ d.base = c.base /\ d.db = c.db
      BY <1>k
    <2>2. PICK z \in backups : z.ok /\ Name(z) = Level0(d.freq, d.pool, d.db)
      BY <2>1 DEF Rooted
    <2>3. z \in backups'
      BY <1>b, <1>l, <2>2
    <2> QED BY <2>1, <2>2, <2>3 DEF Rooted
  <1>9. Ordered'
    <2> SUFFICES ASSUME NEW c \in backups', c.pool # Never
                 PROVE  /\ c.pool <= c.ts
                        /\ \A p \in pools : p[1] = c.freq /\ c.pool < p[2] => c.ts <= p[2]
      BY DEF Ordered
    <2>1. PICK d \in backups : d.freq = c.freq /\ d.pool = c.pool /\ d.ts = c.ts
      BY <1>k
    <2> QED BY <2>1 DEF Ordered
  <1> QED BY <1>1, <1>2, <1>3, <1>4, <1>5, <1>6, <1>7, <1>8, <1>9

(* Removing pools keeps what lies in the pools that stay.                   *)
LEMMA RootDelete ==
    ASSUME TypeInv, StampInv, PoolInv, RootInv, NEW r \in Runs, DeletePools(r)
    PROVE  RootInv'
  <1> USE DEF RootInv
  <1>t. DOMAIN run = Runs /\ \A o \in Runs : run[o] \in RunRecords
    BY DEF TypeInv, TypeOK
  <1>u. /\ UNCHANGED <<clock, history>> /\ run[r].pc = "pools"
        /\ pools' = {p \in pools : p[1] = run[r].freq => p[2] = run[r].pool}
        /\ backups' = {b \in backups : b.freq = run[r].freq /\ b.pool # Never
                                         => b.pool = run[r].pool}
    BY DEF DeletePools
  <1>r. run[r].mode = "incremental" /\ Locked(r) /\ run[r].busy = {}
    BY <1>u DEF StampInv, Pooled, Busy, Locked, Physical
  <1>n. run'[r].pc = "prune" /\ run'[r].busy = {} /\ \A o \in Runs \ {r} : run'[o] = run[o]
    BY <1>r, <1>t DEF DeletePools, Step, RunRecords
  <1>o. \A o \in Runs \ {r} : ~Locked(o)
    BY <1>r, OneLocked
  <1>b. backups \subseteq Backups
    BY DEF TypeInv, TypeOK
  <1>c. ASSUME NEW f, NEW p \in Time, <<f, p>> \in pools, <<f, p>> \notin pools'
        PROVE  p < clock
    <2>1. f = run[r].freq /\ p # run[r].pool
      BY <1>c, <1>u
    <2>2. p <= run[r].pool /\ run[r].pool <= clock
      BY <1>c, <1>u, <1>r, <2>1 DEF PoolInv, Latest, LatestPool, StampInv, Pooled
    <2>3. p \in Int /\ run[r].pool \in Int /\ clock \in Int
      BY <1>t, TimeFacts DEF RunRecords, TypeInv, TypeOK
    <2> QED BY <2>1, <2>2, <2>3
  <1>1. HistoryZero' /\ HistoryTrue' /\ Ordered'
    BY <1>u DEF HistoryZero, HistoryTrue, Ordered, Age, Name
  <1>2. HistoryPast'
    BY <1>c, <1>u DEF HistoryPast, Recorded, Level0
  <1>3. HistoryFile'
    <2> SUFFICES ASSUME NEW f \in Freqs, NEW p \in Time, NEW db \in DB,
                        Recorded(f, p, db), <<f, p>> \in pools', Exists(Level0(f, p, db))
                 PROVE  Exists(Level0(f, p, db))'
      BY <1>u DEF HistoryFile, Recorded, Age, Level0
    <2>1. PICK b \in backups : Name(b) = Level0(f, p, db)
      BY DEF Exists
    <2>2. b.freq = f /\ b.pool = p
      BY <1>b, <2>1, Level0Names
    <2>3. b \in backups'
      BY <1>u, <2>2
    <2> QED BY <2>1, <2>3 DEF Exists, Name, Level0
  <1>4. HistoryFresh' /\ Founded'
    BY <1>n, <1>o DEF HistoryFresh, Founded, Locked, Physical
  <1>5. Writing'
    <2> SUFFICES ASSUME NEW o \in Runs, NEW b \in run'[o].busy PROVE Placing(b)'
      BY DEF Writing
    <2>1. b \in run[o].busy /\ Placing(b)
      BY <1>n DEF Writing
    <2>2. ASSUME b.pool # Never, <<b.freq, b.pool>> \in pools', b \in backups
          PROVE  b \in backups'
      BY <1>u, <2>2
    <2>3. ASSUME b.pool # Never, <<b.freq, b.pool>> \in pools, <<b.freq, b.pool>> \notin pools'
          PROVE  b.pool < clock
      <3>1. b.pool \in Time
        BY <1>t, <2>1, <2>3 DEF RunRecords, Backups, Stamps
      <3> QED BY <1>c, <2>3, <3>1
    <2> QED BY <1>u, <2>1, <2>2, <2>3 DEF Placing, Name, Age
  <1>6. Rooted'
    <2> SUFFICES ASSUME NEW c \in backups', c.level = 1
                 PROVE  /\ c.base[3] = c.db /\ c.base[4] = 0
                        /\ \E z \in backups' : z.ok /\ Name(z) = Level0(c.freq, c.pool, c.db)
      BY DEF Rooted, Name, Level0
    <2>1. c \in backups /\ c.pool # Never /\ c.pool \in Time
      BY <1>b, <1>u DEF PoolInv, Placed, Backups, Stamps
    <2>2. PICK z \in backups : z.ok /\ Name(z) = Level0(c.freq, c.pool, c.db)
      BY <2>1 DEF Rooted
    <2>3. z.freq = c.freq /\ z.pool = c.pool
      BY <1>b, <2>1, <2>2, Level0Names
    <2>4. z \in backups'
      BY <1>u, <2>1, <2>3
    <2> QED BY <2>1, <2>2, <2>4 DEF Rooted
  <1> QED BY <1>1, <1>2, <1>3, <1>4, <1>5, <1>6

(* So does pruning.                                                         *)
LEMMA RootPrune ==
    ASSUME TypeInv, StampInv, PoolInv, RootInv, NEW r \in Runs, Prune(r)
    PROVE  RootInv'
  <1> USE DEF RootInv
  <1> DEFINE goes(p) == run[r].mode # "incremental" /\ Expired(r, p)
  <1>t. DOMAIN run = Runs /\ \A o \in Runs : run[o] \in RunRecords
    BY DEF TypeInv, TypeOK
  <1>u. /\ UNCHANGED <<clock, history>> /\ run[r].pc = "prune" /\ run[r].busy = {}
        /\ pools' = {p \in pools : p[1] = run[r].freq => ~goes(p[2])}
        /\ backups' = {b \in backups : b.freq = run[r].freq =>
                          IF b.pool = Never THEN ~Expired(r, b.ts) ELSE ~goes(b.pool)}
    BY DEF Prune, StampInv, Busy
  <1>n. run'[r].pc = "done" /\ run'[r].busy = {} /\ \A o \in Runs \ {r} : run'[o] = run[o]
    BY <1>t, <1>u DEF Prune, Step, RunRecords
  <1>b. backups \subseteq Backups
    BY DEF TypeInv, TypeOK
  <1>e. ASSUME NEW p \in Stamps, goes(p) PROVE p < clock /\ p < Age(run[r].freq)
    <2>1. /\ p \in Int /\ clock \in Int /\ Retention[run[r].freq] \in Nat
      BY <1>t, TimeFacts, ScheduleAssumption DEF TypeInv, TypeOK, RunRecords
    <2> QED BY <1>e, <2>1 DEF Expired, Cutoff, Age
  <1>g. ASSUME NEW f, NEW p \in Stamps, <<f, p>> \in pools, <<f, p>> \notin pools'
        PROVE  f = run[r].freq /\ p < clock /\ p < Age(f)
    BY <1>e, <1>g, <1>u
  <1> HIDE DEF goes
  <1>1. HistoryZero' /\ HistoryTrue' /\ Ordered'
    BY <1>u DEF HistoryZero, HistoryTrue, Ordered, Age, Name
  <1>2. HistoryPast'
    BY <1>u, <1>g, TimeFacts DEF HistoryPast, Recorded, Level0
  <1>3. HistoryFile'
    <2> SUFFICES ASSUME NEW f \in Freqs, NEW p \in Time, NEW db \in DB,
                        Recorded(f, p, db), <<f, p>> \in pools', Exists(Level0(f, p, db))
                 PROVE  Exists(Level0(f, p, db))'
      BY <1>u DEF HistoryFile, Recorded, Age, Level0
    <2>1. PICK b \in backups : Name(b) = Level0(f, p, db)
      BY DEF Exists
    <2>2. b.freq = f /\ b.pool = p /\ p # Never
      BY <1>b, <2>1, Level0Names, TimeFacts
    <2>3. b \in backups'
      BY <1>u, <2>2
    <2> QED BY <2>1, <2>3 DEF Exists, Name, Level0
  <1>4. HistoryFresh'
    <2>1. \A f, p : Known(f, p)' => Known(f, p)
      BY <1>n, <1>u DEF Known, Recorded, Level0
    <2>2. ASSUME NEW o \in Runs, run[o].pc \in {"check", "pool"},
                 <<run[o].freq, run[o].ts>> \in pools,
                 <<run[o].freq, run[o].ts>> \notin pools'
          PROVE  run[o].ts < Age(run[o].freq)
      BY <1>g, <1>t, <2>2 DEF RunRecords
    <2> QED BY <1>u, <1>n, <2>1, <2>2 DEF HistoryFresh, Age
  <1>5. Founded'
    BY <1>u, <1>n DEF Founded, Name, Level0
  <1>6. Writing'
    <2> SUFFICES ASSUME NEW o \in Runs, NEW b \in run'[o].busy PROVE Placing(b)'
      BY DEF Writing
    <2>1. b \in run[o].busy /\ b.pool \in Stamps /\ Placing(b)
      BY <1>n, <1>t DEF RunRecords, Backups, Writing
    <2>2. ASSUME b.pool # Never, <<b.freq, b.pool>> \in pools', b \in backups
          PROVE  b \in backups'
      BY <1>u, <2>2
    <2>3. ASSUME <<b.freq, b.pool>> \in pools, <<b.freq, b.pool>> \notin pools'
          PROVE  b.pool < clock
      BY <1>g, <2>1, <2>3
    <2> QED BY <1>u, <2>1, <2>2, <2>3 DEF Placing, Name, Age
  <1>7. Rooted'
    <2> SUFFICES ASSUME NEW c \in backups', c.level = 1
                 PROVE  /\ c.base[3] = c.db /\ c.base[4] = 0
                        /\ \E z \in backups' : z.ok /\ Name(z) = Level0(c.freq, c.pool, c.db)
      BY DEF Rooted, Name, Level0
    <2>1. c \in backups /\ c.pool # Never /\ c.pool \in Time
      BY <1>b, <1>u DEF PoolInv, Placed, Backups, Stamps
    <2>2. PICK z \in backups : z.ok /\ Name(z) = Level0(c.freq, c.pool, c.db)
      BY <2>1 DEF Rooted
    <2>3. z.freq = c.freq /\ z.pool = c.pool
      BY <1>b, <2>1, <2>2, Level0Names
    <2>4. z \in backups'
      BY <1>u, <2>1, <2>3
    <2> QED BY <2>1, <2>2, <2>4 DEF Rooted
  <1> QED BY <1>1, <1>2, <1>3, <1>4, <1>5, <1>6, <1>7

(* Every step keeps it, orphans included.                                   *)
LEMMA RootNext ==
    ASSUME TypeInv, StampInv, FileInv, PoolInv, RootInv, [Next]_vars
    PROVE  RootInv'
  <1> USE DEF RootInv
  <1>t. DOMAIN run = Runs /\ \A o \in Runs : run[o] \in RunRecords
    BY DEF TypeInv, TypeOK
  <1>1. ASSUME NEW r \in Runs, Start(r) PROVE RootInv'
    <2>1. PICK c \in Configs :
             run' = [run EXCEPT ![r] =
                    [@ EXCEPT !.freq = c[1], !.mode = c[2],
                              !.pc = IF c[2] = "logical" THEN "claim" ELSE "lock"]]
      BY <1>1 DEF Start
    <2>2. /\ run'[r].pc \in {"claim", "lock"} /\ run'[r].busy = run[r].busy
          /\ \A o \in Runs \ {r} : run'[o] = run[o]
      BY <1>t, <2>1 DEF RunRecords
    <2> QED BY <1>1, <2>2, RootQuiet DEF Start
  <1>2. ASSUME NEW r \in Runs, Lock(r) PROVE RootInv'
    <2>1. /\ run'[r].pc = "claim" /\ run'[r].busy = run[r].busy
          /\ \A o \in Runs \ {r} : run'[o] = run[o]
      BY <1>2, <1>t DEF Lock, Step, RunRecords
    <2> QED BY <1>2, <2>1, RootQuiet DEF Lock
  <1>b. ASSUME NEW r \in Runs, BackupsTaken(r) PROVE RootInv'
    <2>1. /\ run'[r].pc \in {"pools", "prune"} /\ run'[r].busy = run[r].busy
          /\ run'[r].mode = run[r].mode /\ run'[r].freq = run[r].freq
          /\ run'[r].pool = run[r].pool /\ run'[r].ts = run[r].ts
          /\ run[r].pc = "backup"
          /\ \A o \in Runs \ {r} : run'[o] = run[o]
      BY <1>b, <1>t DEF BackupsTaken, Step, RunRecords
    <2> QED BY <1>b, <2>1, RootQuiet DEF BackupsTaken
  <1>3. ASSUME NEW r \in Runs, Claim(r) PROVE RootInv'
    <2>1. /\ run'[r].pc = "check" /\ run'[r].ts = clock /\ run'[r].freq = run[r].freq
          /\ run'[r].busy = run[r].busy /\ \A o \in Runs \ {r} : run'[o] = run[o]
      BY <1>3, <1>t DEF Claim, RunRecords
    <2>2. UNCHANGED <<clock, pools, backups, history>>
      BY <1>3 DEF Claim
    <2>3. /\ HistoryZero' /\ HistoryPast' /\ HistoryTrue' /\ HistoryFile'
          /\ Rooted' /\ Ordered'
      BY <2>2
      DEF HistoryZero, HistoryPast, HistoryTrue, HistoryFile, Rooted, Ordered,
          Recorded, Exists, Age, Name, Level0
    <2>4. Writing' /\ Founded'
      BY <2>1, <2>2 DEF Writing, Placing, Founded, Age, Name, Level0
    <2>5. HistoryFresh'
      <3>1. clock \in Time /\ run[r].freq \in Freqs /\ ~(clock < clock)
        BY <1>t, TimeFacts DEF TypeInv, TypeOK, RunRecords
      <3>2. Known(run[r].freq, clock) => <<run[r].freq, clock>> \in pools
        <4>1. ASSUME NEW o \in Runs, NEW b \in run[o].busy, b.freq = run[r].freq,
                     b.pool = clock
              PROVE  <<run[r].freq, clock>> \in pools
          <5>1. Placing(b) /\ b.pool # Never
            BY <3>1, <4>1, TimeFacts DEF Writing
          <5> QED BY <3>1, <4>1, <5>1 DEF Placing
        <4> QED BY <3>1, <4>1 DEF HistoryPast, Known
      <3>3. \A f, p : Known(f, p)' => Known(f, p)
        BY <2>1, <2>2 DEF Known, Recorded, Level0
      <3> QED BY <2>1, <2>2, <3>2, <3>3 DEF HistoryFresh, Age
    <2> QED BY <2>3, <2>4, <2>5
  <1>4. ASSUME NEW r \in Runs, CheckClaim(r) PROVE RootInv'
    <2>1. CASE Used(r)
      <3>1. /\ run'[r].pc = "claim" /\ run'[r].busy = run[r].busy
            /\ \A o \in Runs \ {r} : run'[o] = run[o]
        BY <1>4, <1>t, <2>1 DEF CheckClaim, Step, RunRecords
      <3> QED BY <1>4, <3>1, RootQuiet DEF CheckClaim
    <2>2. CASE ~Used(r)
      <3>1. /\ run'[r].ts = run[r].ts /\ run'[r].freq = run[r].freq
            /\ run'[r].mode = run[r].mode /\ run'[r].busy = run[r].busy
            /\ run'[r].pc = IF run[r].mode = "incremental" THEN "pool" ELSE "backup"
            /\ \A o \in Runs \ {r} : run'[o] = run[o]
        BY <1>4, <1>t, <2>2 DEF CheckClaim, RunRecords
      <3>2. UNCHANGED <<clock, pools, backups, history>>
        BY <1>4 DEF CheckClaim
      <3>3. /\ HistoryZero' /\ HistoryPast' /\ HistoryTrue' /\ HistoryFile'
            /\ Rooted' /\ Ordered'
        BY <3>2
        DEF HistoryZero, HistoryPast, HistoryTrue, HistoryFile, Rooted, Ordered,
            Recorded, Exists, Age, Name, Level0
      <3>4. Writing' /\ Founded'
        BY <3>1, <3>2 DEF Writing, Placing, Founded, Age, Name, Level0
      <3>5. HistoryFresh'
        <4>1. \A f, p : Known(f, p)' => Known(f, p)
          BY <3>1, <3>2 DEF Known, Recorded, Level0
        <4>2. run[r].pc = "check" /\ <<run[r].freq, run[r].ts>> \notin pools
          BY <1>4, <2>2 DEF CheckClaim, Used
        <4> QED BY <3>1, <3>2, <4>1, <4>2 DEF HistoryFresh, Age
      <3> QED BY <3>3, <3>4, <3>5
    <2> QED BY <2>1, <2>2
  <1>5. ASSUME NEW r \in Runs, BackupFails(r) PROVE RootInv'
    <2>1. /\ run'[r].pc = "failed" /\ run'[r].busy = {}
          /\ \A o \in Runs \ {r} : run'[o] = run[o]
      BY <1>5, <1>t DEF BackupFails, Exit, RunRecords
    <2> QED BY <1>5, <2>1, RootQuiet DEF BackupFails
  <1>6. ASSUME NEW r \in Runs, Killed(r) PROVE RootInv'
    <2>1. /\ run'[r].pc = "failed" /\ run'[r].busy \in {{}, run[r].busy}
          /\ \A o \in Runs \ {r} : run'[o] = run[o]
      BY <1>6, <1>t DEF Killed, Step, RunRecords
    <2> QED BY <1>6, <2>1, RootQuiet DEF Killed
  <1>7. ASSUME NEW r \in Runs, EndBackup(r) \/ OrphanEnds(r) PROVE RootInv'
    <2>1. PICK b \in run[r].busy : Complete(r, b)
      BY <1>7 DEF EndBackup, OrphanEnds
    <2>2. /\ UNCHANGED <<clock, pools>> /\ run'[r].busy = {}
          /\ \A o \in Runs \ {r} : run'[o] = run[o]
          /\ run'[r].pc = run[r].pc /\ run'[r].freq = run[r].freq
          /\ run'[r].ts = run[r].ts /\ run'[r].mode = run[r].mode
          /\ run'[r].pool = run[r].pool
      BY <1>7, <1>t DEF EndBackup, OrphanEnds, RunRecords
    <2> QED BY <2>1, <2>2, RootComplete
  <1>8. ASSUME NEW db \in DB, Restored(db) PROVE RootInv'
    <2>1. /\ UNCHANGED <<clock, run, pools, backups>> /\ DOMAIN history = DB
          /\ history' = [history EXCEPT ![db] = NoRow]
      BY <1>8 DEF Restored, TypeInv, TypeOK
    <2>2. \A f, p : \A d \in DB : Recorded(f, p, d)' => Recorded(f, p, d)
      BY <2>1, NotNoRow DEF Recorded, Level0
    <2>3. HistoryPast' /\ HistoryFile' /\ Rooted' /\ Ordered'
      BY <2>1, <2>2 DEF HistoryPast, HistoryFile, Rooted, Ordered,
                        Exists, Age, Name, Level0
    <2>4. HistoryZero' /\ Writing' /\ Founded'
      BY <2>1 DEF HistoryZero, Writing, Placing, Founded, Age, Name, Level0
    <2>5. HistoryFresh'
      <3>1. \A f, p : Known(f, p)' => Known(f, p)
        BY <2>1, <2>2 DEF Known
      <3> QED BY <2>1, <3>1 DEF HistoryFresh, Age
    <2>6. HistoryTrue'
      <3>1. \A b \in backups : b.db \in DB /\ history'[b.db] \in {history[b.db], NoRow}
        BY <2>1 DEF TypeInv, TypeOK, Backups
      <3> QED BY <2>1, <3>1, NotNoRow DEF HistoryTrue, Age, Name
    <2> QED BY <2>3, <2>4, <2>5, <2>6
  <1>9. ASSUME Tick PROVE RootInv'
    <2>1. UNCHANGED <<run, pools, backups, history>> /\ clock' = clock + 1
      BY <1>9 DEF Tick
    <2>2. ASSUME NEW x \in Stamps
          PROVE  /\ x < clock => x < clock'
                 /\ \A f \in Freqs : x < Age(f) => x < Age(f)'
      <3>1. clock \in Int /\ x \in Int /\ \A f \in Freqs : Retention[f] \in Int
        BY TimeFacts, ScheduleAssumption DEF TypeInv, TypeOK
      <3> QED BY <2>1, <3>1 DEF Age
    <2>3. /\ \A b \in backups : b.freq \in Freqs /\ b.pool \in Stamps
          /\ \A r \in Runs : /\ run[r].freq \in Freqs /\ run[r].ts \in Stamps
                             /\ \A b \in run[r].busy : b.pool \in Stamps /\ b.freq \in Freqs
      BY <1>t DEF TypeInv, TypeOK, Backups, RunRecords
    <2>4. HistoryZero' /\ Founded' /\ Rooted' /\ Ordered'
      BY <2>1 DEF HistoryZero, Founded, Rooted, Ordered, Name, Level0
    <2>5. HistoryPast' /\ HistoryFile'
      BY <2>1, <2>2, TimeFacts DEF HistoryPast, HistoryFile, Recorded, Exists, Name, Level0
    <2>6. HistoryTrue'
      BY <2>1, <2>2, <2>3 DEF HistoryTrue, Name
    <2>7. HistoryFresh'
      <3>1. \A f, p : Known(f, p)' => Known(f, p)
        BY <2>1 DEF Known, Recorded, Level0
      <3> QED BY <2>1, <2>2, <2>3, <3>1 DEF HistoryFresh
    <2>8. Writing'
      BY <2>1, <2>2, <2>3 DEF Writing, Placing, Name
    <2> QED BY <2>4, <2>5, <2>6, <2>7, <2>8
  <1>10. ASSUME UNCHANGED vars PROVE RootInv'
    BY <1>10, RootQuiet DEF vars
  <1> QED BY <1>1, <1>2, <1>b, <1>3, <1>4, <1>5, <1>6, <1>7, <1>8, <1>9, <1>10,
             RootChoose, RootBegin, RootDelete, RootPrune
          DEF Next, Script

(***************************************************************************)
(* Without orphans, the level 0 a level 1 is relative to is the one beside  *)
(* it.                                                                      *)
(***************************************************************************)
Based == \A r \in Runs : run[r].mode = "incremental" /\ run[r].pc = "backup" =>
    \A b \in backups :
        b.db \in run[r].left \ {c.db : c \in run[r].busy}
        /\ Name(b) = Level0(run[r].freq, run[r].pool, b.db)
            => b.ok /\ history[b.db] \in {Name(b), NoRow}

Chains == \A b \in backups : Usable(b)

(* No orphan: what a killed run asked of the server ends with it.           *)
Attended == \A r \in Runs : run[r].pc = "failed" => run[r].busy = {}

ChainInv == Attended /\ Based /\ Chains

(* A step that only moves runs on keeps ChainInv.                           *)
LEMMA ChainQuiet ==
    ASSUME ChainInv, UNCHANGED <<backups, history>>,
           \A r \in Runs :
              /\ run'[r].pc = "failed" => run'[r].busy = {}
              /\ run'[r].pc = "backup" /\ run'[r].mode = "incremental" => run'[r] = run[r]
    PROVE  ChainInv'
  BY DEF ChainInv, Attended, Based, Chains, Usable, Name, Level0

(* The initial states satisfy ChainInv.                                     *)
LEMMA ChainInit == Init => ChainInv
  <1> SUFFICES ASSUME Init PROVE ChainInv
    OBVIOUS
  <1>1. \A r \in Runs : run[r].pc = "none" /\ run[r].busy = {}
    BY DEF Init, Idle
  <1>2. backups = {}
    BY DEF Init
  <1> QED BY <1>1, <1>2 DEF ChainInv, Attended, Based, Chains

(* Choosing a pool: its level 0 backups are those of the history.           *)
LEMMA ChainChoose ==
    ASSUME TypeInv, StampInv, PoolInv, RootInv, ChainInv, NEW r \in Runs, ChoosePool(r)
    PROVE  ChainInv'
  <1> USE DEF ChainInv, RootInv
  <1>t. DOMAIN run = Runs /\ \A o \in Runs : run[o] \in RunRecords
    BY DEF TypeInv, TypeOK
  <1>u. UNCHANGED <<clock, backups, history>> /\ run[r].pc = "pool"
    BY DEF ChoosePool
  <1>r. run[r].mode = "incremental" /\ Locked(r) /\ run[r].ts \in Time
    BY <1>t, <1>u DEF StampInv, Pooled, Claimed, Live, Stamped, Locked, Physical
  <1>p. PICK p \in Time :
           /\ run' = [run EXCEPT ![r].pc = "backup", ![r].pool = p]
           /\ \/ <<run[r].freq, p>> \notin pools
              \/ p >= Cutoff(r) /\ ~Stale(r, p)
    <2>1. Newest(run[r].freq) # Never => Newest(run[r].freq) \in Time
      BY NewestPool
    <2> QED BY <1>r, <2>1 DEF ChoosePool
  <1>n. /\ run'[r].pc = "backup" /\ run'[r].pool = p /\ run'[r].freq = run[r].freq
        /\ \A o \in Runs \ {r} : run'[o] = run[o]
    BY <1>t, <1>p DEF RunRecords
  <1>o. \A o \in Runs \ {r} : ~Locked(o)
    BY <1>r, OneLocked
  <1>b. backups \subseteq Backups
    BY DEF TypeInv, TypeOK
  <1>1. Attended' /\ Chains'
    BY <1>u, <1>n DEF Attended, Chains, Usable, Name
  <1>2. Based'
    <2> SUFFICES ASSUME NEW o \in Runs, run'[o].mode = "incremental", run'[o].pc = "backup",
                        NEW b \in backups, Name(b) = Level0(run'[o].freq, run'[o].pool, b.db)
                 PROVE  b.ok /\ history[b.db] \in {Name(b), NoRow}
      BY <1>u DEF Based, Name, Level0
    <2>1. o = r
      BY <1>n, <1>o DEF Locked, Physical
    <2>2. /\ Name(b) = Level0(run[r].freq, p, b.db) /\ b.freq = run[r].freq
          /\ b.pool = p /\ b.level = 0 /\ b.db \in DB /\ p # Never
      BY <1>n, <1>b, <2>1, Level0Names, TimeFacts DEF Backups
    <2>3. CASE <<run[r].freq, p>> \notin pools
      BY <2>2, <2>3 DEF PoolInv, Placed
    <2>4. CASE p >= Cutoff(r) /\ ~Stale(r, p)
      <3>1. history[b.db] = Name(b)
        BY <2>2, <2>4 DEF Stale, Exists
      <3>2. ~(b.pool < Age(b.freq))
        <4>1. Cutoff(r) \in Int /\ p \in Int /\ Cutoff(r) = Age(b.freq)
          BY <1>t, <2>2, ScheduleAssumption, TimeFacts
          DEF Cutoff, Age, RunRecords, TypeInv, TypeOK
        <4> QED BY <2>2, <2>4, <4>1
      <3> QED BY <2>2, <3>1, <3>2 DEF HistoryTrue
    <2> QED BY <1>p, <2>3, <2>4
  <1> QED BY <1>1, <1>2

(* Beginning a backup keeps ChainInv.                                       *)
LEMMA ChainBegin ==
    ASSUME TypeInv, StampInv, FileInv, PoolInv, ChainInv, NEW r \in Runs, BeginBackup(r)
    PROVE  ChainInv'
  <1> USE DEF ChainInv
  <1>t. DOMAIN run = Runs /\ \A o \in Runs : run[o] \in RunRecords
    BY DEF TypeInv, TypeOK
  <1>u. UNCHANGED <<clock, pools, history>> /\ run[r].pc = "backup" /\ run[r].busy = {}
    BY DEF BeginBackup
  <1>r. /\ run[r].ts \in Time
        /\ run[r].mode = "incremental" <=> run[r].pool # Never
        /\ run[r].pool # Never => run[r].pool \in Time
    BY <1>t, <1>u DEF StampInv, Pooled, Claimed, Live, Stamped, RunRecords, Stamps
  <1>d. PICK db \in run[r].left :
              /\ backups' = backups \cup {NewBackup(r, db)}
              /\ run' = [run EXCEPT ![r].busy = {NewBackup(r, db)}]
              /\ ~Refused(r, db)
    BY BeginAdds
  <1> DEFINE new == NewBackup(r, db)
  <1>w. /\ new \in Backups /\ db \in DB
        /\ new.freq = run[r].freq /\ new.pool = run[r].pool /\ new.db = db
        /\ new.level = 1 => /\ run[r].mode = "incremental"
                            /\ Exists(Level0(run[r].freq, run[r].pool, db))
                            /\ new.base = history[db]
    <2>1. new \in Backups /\ db \in DB
      BY <1>t, <1>r, NewBackupType DEF RunRecords, TypeInv
    <2> QED BY <2>1 DEF NewBackup
  <1>x. new.level = 1 => history[db] # NoRow
    BY <1>d DEF Refused
  <1>y. backups' = backups \cup {new} /\ run' = [run EXCEPT ![r].busy = {new}]
    BY <1>d
  <1> HIDE DEF new
  <1>n. /\ run'[r].busy = {new} /\ run'[r].left = run[r].left
        /\ \A o \in Runs \ {r} : run'[o] = run[o]
        /\ \A o \in Runs : /\ run'[o].pc = run[o].pc /\ run'[o].freq = run[o].freq
                           /\ run'[o].mode = run[o].mode /\ run'[o].pool = run[o].pool
    BY <1>t, <1>y DEF RunRecords
  <1>b. backups \subseteq Backups
    BY DEF TypeInv, TypeOK
  <1>1. Attended'
    BY <1>u, <1>n DEF Attended
  <1>2. Based'
    <2> SUFFICES ASSUME NEW o \in Runs, run[o].mode = "incremental", run[o].pc = "backup",
                        NEW b \in backups', b.db \in run'[o].left \ {c.db : c \in run'[o].busy},
                        Name(b) = Level0(run[o].freq, run[o].pool, b.db)
                 PROVE  b.ok /\ history[b.db] \in {Name(b), NoRow}
      BY <1>u, <1>n DEF Based, Name, Level0
    <2>1. CASE o = r
      <3>1. b.db \in run[r].left /\ b.db # db
        BY <1>n, <1>w, <2>1
      <3>2. b \in backups
        BY <1>y, <1>w, <3>1
      <3> QED BY <1>u, <2>1, <3>1, <3>2 DEF Based
    <2>2. CASE o # r
      <3>1. ~Locked(r)
        BY <2>2, OneLocked DEF Locked, Physical
      <3>2. new.pool = Never /\ run[o].pool # Never
        BY <1>u, <1>r, <1>w, <3>1 DEF Locked, Physical, StampInv, Pooled
      <3>3. run[o].pool \in Time
        BY <1>t, <3>2 DEF RunRecords, Stamps
      <3>4. b # new
        BY <1>w, <3>2, <3>3, Level0Names
      <3> QED BY <1>n, <1>y, <2>2, <3>4 DEF Based
    <2> QED BY <2>1, <2>2
  <1>3. Chains'
    <2>1. ASSUME new.level = 1
          PROVE  \E z \in backups : /\ z.ok /\ z.freq = new.freq /\ z.pool = new.pool
                                    /\ Name(z) = new.base
      <3>1. PICK z \in backups : Name(z) = Level0(run[r].freq, run[r].pool, db)
        BY <1>w, <2>1 DEF Exists
      <3>2. z.freq = new.freq /\ z.pool = new.pool /\ z.db = db
        BY <1>b, <1>r, <1>w, <2>1, <3>1, Level0Names
      <3>3. z.ok /\ history[db] \in {Name(z), NoRow}
        BY <1>u, <1>w, <2>1, <3>1, <3>2 DEF Based
      <3> QED BY <1>w, <1>x, <2>1, <3>2, <3>3
    <2> QED BY <1>y, <2>1 DEF Chains, Usable, Name
  <1> QED BY <1>1, <1>2, <1>3

(* So does ending one.                                                      *)
LEMMA ChainEnd ==
    ASSUME TypeInv, StampInv, FileInv, PoolInv, ChainInv, NEW r \in Runs, EndBackup(r)
    PROVE  ChainInv'
  <1> USE DEF ChainInv
  <1>t. DOMAIN run = Runs /\ \A o \in Runs : run[o] \in RunRecords
    BY DEF TypeInv, TypeOK
  <1>u. run[r].pc = "backup"
    BY DEF EndBackup
  <1>p. PICK b \in run[r].busy : /\ Complete(r, b)
           /\ run' = [run EXCEPT ![r].busy = {}, ![r].left = @ \ {b.db}]
    BY DEF EndBackup
  <1>b. /\ b \in Backups /\ backups \subseteq Backups /\ b.db \in DB
        /\ b.freq = run[r].freq /\ b.pool = run[r].pool /\ ~b.ok /\ run[r].busy = {b}
    BY <1>t DEF StampInv, Busy, TypeInv, TypeOK, RunRecords, Backups
  <1>n. /\ run'[r].busy = {} /\ run'[r].left = run[r].left \ {b.db}
        /\ \A o \in Runs \ {r} : run'[o] = run[o]
        /\ \A o \in Runs : /\ run'[o].pc = run[o].pc /\ run'[o].freq = run[o].freq
                           /\ run'[o].mode = run[o].mode /\ run'[o].pool = run[o].pool
    BY <1>t, <1>p DEF RunRecords
  <1>h. /\ history' = history \/ (Physical(r) /\ history' = [history EXCEPT ![b.db] = Name(b)])
        /\ DOMAIN history = DB
    BY <1>p DEF Complete, TypeInv, TypeOK
  <1>k. ASSUME NEW c \in backups'
        PROVE  \/ c \in backups /\ c # b
               \/ /\ b \in backups /\ c.ok /\ Name(c) = Name(b)
                  /\ c.freq = b.freq /\ c.pool = b.pool /\ c.db = b.db
                  /\ c.level = b.level /\ c.base = b.base
    BY <1>p, CompleteKeeps
  <1>l. ASSUME NEW c \in backups, c # b PROVE c \in backups'
    BY <1>p, <1>l DEF Complete
  <1>1. Attended'
    BY <1>n DEF Attended
  <1>2. Based'
    <2> SUFFICES ASSUME NEW o \in Runs, run[o].mode = "incremental", run[o].pc = "backup",
                        NEW c \in backups', c.db \in run'[o].left \ {d.db : d \in run'[o].busy},
                        Name(c) = Level0(run[o].freq, run[o].pool, c.db)
                 PROVE  c.ok /\ history'[c.db] \in {Name(c), NoRow}
      BY <1>n DEF Based, Name, Level0
    <2>1. CASE o = r
      <3>1. c.db \in run[r].left \ {d.db : d \in run[r].busy} /\ c.db # b.db
        BY <1>b, <1>n, <2>1
      <3>2. c \in backups /\ history'[c.db] = history[c.db]
        BY <1>b, <1>h, <1>k, <3>1 DEF Backups
      <3> QED BY <2>1, <3>1, <3>2 DEF Based
    <2>2. CASE o # r
      <3>1. ~Physical(r) /\ history' = history
        BY <1>h, <1>u, <2>2, OneLocked DEF Locked, Physical
      <3>2. run[o].pool \in Time /\ run[o].pool # Never /\ b.pool = Never
        BY <1>b, <1>t, <3>1 DEF StampInv, Pooled, RunRecords, Stamps, Physical
      <3>3. c \in backups
        BY <1>b, <1>k, <3>2, Level0Names
      <3> QED BY <1>n, <2>2, <3>1, <3>3 DEF Based
    <2> QED BY <2>1, <2>2
  <1>3. Chains'
    <2> SUFFICES ASSUME NEW c \in backups', c.level = 1
                 PROVE  \E z \in backups' : /\ z.ok /\ z.freq = c.freq /\ z.pool = c.pool
                                            /\ Name(z) = c.base
      BY DEF Chains, Usable, Name
    <2>1. PICK d \in backups : /\ d.level = 1 /\ d.freq = c.freq /\ d.pool = c.pool
                               /\ d.base = c.base
      BY <1>k
    <2>2. PICK z \in backups : /\ z.ok /\ z.freq = d.freq /\ z.pool = d.pool
                               /\ Name(z) = d.base
      BY <2>1 DEF Chains, Usable
    <2> QED BY <1>b, <1>l, <2>1, <2>2
  <1> QED BY <1>1, <1>2, <1>3

(* Removing files by whole pools, or outside pools, keeps it.               *)
LEMMA ChainShrinks ==
    ASSUME TypeInv, StampInv, PoolInv, ChainInv, NEW r \in Runs,
           DeletePools(r) \/ Prune(r)
    PROVE  ChainInv'
  <1> USE DEF ChainInv
  <1>t. DOMAIN run = Runs /\ \A o \in Runs : run[o] \in RunRecords
    BY DEF TypeInv, TypeOK
  <1>u. UNCHANGED history /\ backups' \subseteq backups
    BY DEF DeletePools, Prune
  <1>n. /\ run'[r].pc \in {"prune", "done"}
        /\ \A o \in Runs \ {r} : run'[o] = run[o]
    BY <1>t DEF DeletePools, Prune, Step, RunRecords
  <1>1. Attended'
    BY <1>n DEF Attended
  <1>2. Based'
    BY <1>u, <1>n DEF Based, Name, Level0
  <1>3. Chains'
    <2>1. CASE DeletePools(r)
      BY <2>1 DEF DeletePools, Chains, Usable, Name
    <2>2. CASE Prune(r)
      BY <2>2 DEF Prune, Chains, Usable, Name, PoolInv, Placed
    <2> QED BY <2>1, <2>2
  <1> QED BY <1>1, <1>2, <1>3

Supervised == "orphan" \notin Faults

(* Every step keeps it.                                                     *)
LEMMA ChainNext ==
    ASSUME Supervised, TypeInv, StampInv, FileInv, PoolInv, RootInv, ChainInv, [Next]_vars
    PROVE  ChainInv'
  <1> USE DEF ChainInv
  <1>t. DOMAIN run = Runs /\ \A o \in Runs : run[o] \in RunRecords
    BY DEF TypeInv, TypeOK
  <1>1. ASSUME NEW r \in Runs, Start(r) PROVE ChainInv'
    <2>1. PICK c \in Configs :
             run' = [run EXCEPT ![r] =
                    [@ EXCEPT !.freq = c[1], !.mode = c[2],
                              !.pc = IF c[2] = "logical" THEN "claim" ELSE "lock"]]
      BY <1>1 DEF Start
    <2>2. run'[r].pc \in {"claim", "lock"} /\ \A o \in Runs \ {r} : run'[o] = run[o]
      BY <1>t, <2>1 DEF RunRecords
    <2> QED BY <1>1, <2>2, ChainQuiet DEF Start, Attended
  <1>2. ASSUME NEW r \in Runs, Lock(r) \/ BackupsTaken(r) \/ Claim(r) PROVE ChainInv'
    <2>1. /\ run'[r].pc \in {"claim", "pools", "prune", "check"}
          /\ \A o \in Runs \ {r} : run'[o] = run[o]
      BY <1>2, <1>t DEF Lock, BackupsTaken, Claim, Step, RunRecords
    <2> QED BY <1>2, <2>1, ChainQuiet DEF Lock, BackupsTaken, Claim, Attended
  <1>4. ASSUME NEW r \in Runs, CheckClaim(r) PROVE ChainInv'
    <2>1. /\ run'[r].pc \in {"claim", "pool", "backup"}
          /\ run'[r].pc = "backup" => run'[r].mode # "incremental"
          /\ \A o \in Runs \ {r} : run'[o] = run[o]
      BY <1>4, <1>t DEF CheckClaim, Step, RunRecords
    <2> QED BY <1>4, <2>1, ChainQuiet DEF CheckClaim, Attended
  <1>5. ASSUME NEW r \in Runs, BackupFails(r) PROVE ChainInv'
    <2>1. /\ run'[r].pc = "failed" /\ run'[r].busy = {}
          /\ \A o \in Runs \ {r} : run'[o] = run[o]
      BY <1>5, <1>t DEF BackupFails, Exit, RunRecords
    <2> QED BY <1>5, <2>1, ChainQuiet DEF BackupFails, Attended
  <1>6. ASSUME NEW r \in Runs, Killed(r) PROVE ChainInv'
    <2>1. /\ run'[r].pc = "failed" /\ run'[r].busy = {}
          /\ \A o \in Runs \ {r} : run'[o] = run[o]
      BY <1>6, <1>t DEF Supervised, Killed, RunRecords
    <2> QED BY <1>6, <2>1, ChainQuiet DEF Killed, Attended
  <1>7. ASSUME NEW r \in Runs, OrphanEnds(r) PROVE FALSE
    BY <1>7 DEF OrphanEnds, Attended
  <1>8. ASSUME NEW db \in DB, Restored(db) PROVE ChainInv'
    <2>1. /\ UNCHANGED <<run, backups>> /\ DOMAIN history = DB
          /\ history' = [history EXCEPT ![db] = NoRow]
      BY <1>8 DEF Restored, TypeInv, TypeOK
    <2>2. \A b \in backups : b.db \in DB /\ history'[b.db] \in {history[b.db], NoRow}
      BY <2>1 DEF TypeInv, TypeOK, Backups
    <2>3. Attended' /\ Chains'
      BY <2>1 DEF Attended, Chains, Usable, Name
    <2>4. Based'
      BY <2>1, <2>2 DEF Based, Name, Level0
    <2> QED BY <2>3, <2>4
  <1>9. ASSUME Tick \/ UNCHANGED vars PROVE ChainInv'
    BY <1>9, ChainQuiet DEF Tick, vars, Attended
  <1> QED BY <1>1, <1>2, <1>4, <1>5, <1>6, <1>7, <1>8, <1>9,
             ChainChoose, ChainBegin, ChainEnd, ChainShrinks
          DEF Next, Script

(* The initial states satisfy PoolInv.                                      *)
LEMMA PoolInit == Init => PoolInv
  <1> SUFFICES ASSUME Init PROVE PoolInv
    OBVIOUS
  <1>1. \A r \in Runs : run[r].pc = "none"
    BY DEF Init, Idle
  <1> QED BY <1>1
      DEF Init, PoolInv, Exclusive, Placed, Latest, LatestFile, LatestStamp, LatestPool,
          Locked

(* The invariants that need no assumption.                                  *)
LEMMA PoolsHold == Spec => [](TypeInv /\ StampInv /\ FileInv /\ PoolInv)
  BY FilesHold, PoolInit, PoolNext, PTL DEF Spec

(* Nor does what lies in the pools.                                         *)
LEMMA RootHolds == Spec => [](TypeInv /\ StampInv /\ FileInv /\ PoolInv /\ RootInv)
  BY PoolsHold, RootInit, RootNext, PTL DEF Spec

(* With orphans excluded, the chains as well.                               *)
LEMMA ChainsHold ==
    ASSUME Supervised
    PROVE  Spec => [](TypeInv /\ StampInv /\ FileInv /\ PoolInv /\ ChainInv)
  BY RootHolds, ChainInit, ChainNext, PTL DEF Spec

(***************************************************************************)
(* scheduledBackupLockPath does its work: of any number of physical and     *)
(* incremental Jobs, whatever their frequencies and however some of them    *)
(* fail or are killed, one at most is asking the server for a backup        *)
(* (OneNbackup).                                                            *)
(***************************************************************************)
THEOREM OneNbackupAtATime == Spec => []OneNbackup
  <1>1. PoolInv => OneNbackup
    BY DEF PoolInv, Exclusive, Locked, OneNbackup
  <1> QED BY <1>1, PoolsHold, PTL

(***************************************************************************)
(* Every finished level 1 backup can be restored: the level 0 it is         *)
(* relative to is the complete one of its own pool.  This holds whatever    *)
(* fails or is killed and whenever a database is restored from gbak, as     *)
(* long as the server does not go on with what a killed Job asked for       *)
(* (ChainComplete).                                                         *)
(***************************************************************************)
THEOREM ChainsComplete ==
    ASSUME Supervised
    PROVE  Spec => []ChainComplete
  <1>1. ChainInv => ChainComplete
    BY DEF ChainInv, Chains, ChainComplete
  <1> QED BY <1>1, ChainsHold, PTL

(***************************************************************************)
(* What a run has saved so far is there until it expires: outside pools     *)
(* with its timestamp, in a pool with the whole pool.                       *)
(***************************************************************************)
Gone(r) == IF run[r].pool = Never THEN run[r].ts < Cutoff(r)
           ELSE <<run[r].freq, run[r].pool>> \notin pools

Holds(r, db, b) == /\ b.freq = run[r].freq /\ b.pool = run[r].pool
                   /\ b.ts = run[r].ts /\ b.db = db /\ b.ok

Saved == \A r \in Runs :
    /\ run[r].pc = "pool" => run[r].left = DB
    /\ run[r].pc \in {"backup", "pools", "prune"} /\ ~Gone(r) =>
          /\ run[r].busy \subseteq backups
          /\ \A db \in DB \ run[r].left : \E b \in backups : Holds(r, db, b)

(* A step that only moves runs on keeps Saved.                              *)
LEMMA SavedQuiet ==
    ASSUME Saved, UNCHANGED <<clock, pools>>, backups \subseteq backups',
           \A r \in Runs :
              run'[r].pc \in {"pool", "backup", "pools", "prune"} =>
                 /\ run'[r].pc = "pool" <=> run[r].pc = "pool"
                 /\ run[r].pc \in {"pool", "backup", "pools", "prune"}
                 /\ run'[r] = [run[r] EXCEPT !.pc = run'[r].pc] /\ run[r] \in RunRecords
    PROVE  Saved'
  <1> SUFFICES ASSUME NEW r \in Runs, run'[r].pc \in {"pool", "backup", "pools", "prune"}
               PROVE  /\ run'[r].pc = "pool" => run'[r].left = DB
                      /\ run'[r].pc \in {"backup", "pools", "prune"} /\ ~Gone(r)' =>
                           /\ run'[r].busy \subseteq backups'
                           /\ \A db \in DB \ run'[r].left : \E b \in backups' : Holds(r, db, b)'
    BY DEF Saved
  <1>1. /\ run'[r].left = run[r].left /\ run'[r].busy = run[r].busy
        /\ run'[r].freq = run[r].freq /\ run'[r].pool = run[r].pool
        /\ run'[r].ts = run[r].ts
    BY DEF RunRecords
  <1>2. Gone(r)' <=> Gone(r)
    BY <1>1 DEF Gone, Cutoff
  <1>3. \A db, b : Holds(r, db, b)' <=> Holds(r, db, b)
    BY <1>1 DEF Holds
  <1> QED BY <1>1, <1>2, <1>3 DEF Saved

(* So does completing a backup.                                             *)
LEMMA SavedCompletes ==
    ASSUME TypeInv, StampInv, Saved, NEW r \in Runs, NEW b \in run[r].busy,
           Complete(r, b), UNCHANGED <<clock, pools>>, Live(r),
           \A o \in Runs \ {r} : run'[o] = run[o],
           \/ run'[r].pc = "failed"
           \/ /\ run[r].pc = "backup" /\ run'[r].pc = "backup"
              /\ run'[r].left = run[r].left \ {b.db} /\ run'[r].busy = {}
              /\ run'[r].freq = run[r].freq /\ run'[r].pool = run[r].pool
              /\ run'[r].ts = run[r].ts
    PROVE  Saved'
  <1>b. /\ ~b.ok /\ b \in Backups /\ b.freq = run[r].freq /\ b.pool = run[r].pool
        /\ b.ts = run[r].ts
    BY DEF StampInv, Busy, TypeInv, TypeOK, RunRecords
  <1>l. ASSUME NEW c \in backups, c # b PROVE c \in backups'
    BY <1>l DEF Complete
  <1>1. ASSUME NEW o \in Runs \ {r}
        PROVE  /\ run[o].pc = "pool" => run[o].left = DB
               /\ run[o].pc \in {"backup", "pools", "prune"} /\ ~Gone(o) =>
                     /\ run[o].busy \subseteq backups'
                     /\ \A db \in DB \ run[o].left : \E c \in backups' : Holds(o, db, c)
    <2>1. run[o].pc \in {"backup", "pools", "prune"} => b \notin run[o].busy
      BY <1>b DEF StampInv, Busy, Unshared, Live, Stamped
    <2> QED BY <1>b, <1>l, <2>1 DEF Saved, Holds
  <1>2. ASSUME run'[r].pc = "backup", ~Gone(r)'
        PROVE  \A db \in DB \ run'[r].left : \E c \in backups' : Holds(r, db, c)'
    <2>1. ~Gone(r)
      BY <1>2 DEF Gone, Cutoff
    <2>2. run[r].busy \subseteq backups
      BY <1>2, <2>1 DEF Saved
    <2>3. [b EXCEPT !.ok = TRUE] \in backups'
      BY <2>2 DEF Complete
    <2>4. Holds(r, b.db, [b EXCEPT !.ok = TRUE])'
      BY <1>2, <1>b DEF Holds, Backups
    <2>5. ASSUME NEW db \in DB \ run[r].left PROVE \E c \in backups' : Holds(r, db, c)'
      <3>1. PICK c \in backups : Holds(r, db, c)
        BY <1>2, <2>1 DEF Saved
      <3> QED BY <1>2, <1>b, <1>l, <3>1 DEF Holds
    <2> QED BY <1>2, <2>3, <2>4, <2>5
  <1> QED BY <1>1, <1>2 DEF Saved, Gone, Holds, Cutoff

(* Every step keeps it.                                                     *)
LEMMA SavedNext ==
    ASSUME TypeInv, StampInv, FileInv, PoolInv, Saved, [Next]_vars
    PROVE  Saved'
  <1>t. DOMAIN run = Runs /\ \A o \in Runs : run[o] \in RunRecords
    BY DEF TypeInv, TypeOK
  <1>1. ASSUME NEW r \in Runs, Start(r) PROVE Saved'
    <2>1. PICK c \in Configs :
             run' = [run EXCEPT ![r] =
                    [@ EXCEPT !.freq = c[1], !.mode = c[2],
                              !.pc = IF c[2] = "logical" THEN "claim" ELSE "lock"]]
      BY <1>1 DEF Start
    <2>2. run'[r].pc \in {"claim", "lock"} /\ \A o \in Runs \ {r} : run'[o] = run[o]
      BY <1>t, <2>1 DEF RunRecords
    <2>3. \A o \in Runs \ {r} : run'[o] = [run[o] EXCEPT !.pc = run'[o].pc]
      BY <1>t, <2>2 DEF RunRecords
    <2> QED BY <1>1, <1>t, <2>2, <2>3, SavedQuiet DEF Start
  <1>q. ASSUME NEW r \in Runs, NEW pc \in {"claim", "check", "pools", "prune", "failed"},
               run'[r].pc = pc, \A o \in Runs \ {r} : run'[o] = run[o],
               pc \in {"pools", "prune"} =>
                   /\ run[r].pc = "backup" /\ run' = [run EXCEPT ![r].pc = pc],
               UNCHANGED <<clock, pools, backups>>
        PROVE  Saved'
    <2>1. \A o \in Runs \ {r} : run'[o] = [run[o] EXCEPT !.pc = run'[o].pc]
      BY <1>t, <1>q DEF RunRecords
    <2>2. pc \in {"pools", "prune"} => run'[r] = [run[r] EXCEPT !.pc = run'[r].pc]
      BY <1>t, <1>q DEF RunRecords
    <2> QED BY <1>t, <1>q, <2>1, <2>2, SavedQuiet
  <1>2. ASSUME NEW r \in Runs, Lock(r) PROVE Saved'
    BY <1>2, <1>t, <1>q DEF Lock, Step, RunRecords
  <1>3. ASSUME NEW r \in Runs, Claim(r) PROVE Saved'
    BY <1>3, <1>t, <1>q DEF Claim, RunRecords
  <1>4. ASSUME NEW r \in Runs, CheckClaim(r) PROVE Saved'
    <2>1. CASE Used(r)
      BY <1>4, <1>t, <1>q, <2>1 DEF CheckClaim, Step, RunRecords
    <2>2. CASE ~Used(r)
      <3>1. /\ run'[r].left = DB /\ run'[r].busy = {}
            /\ run'[r].pc \in {"pool", "backup"}
            /\ \A o \in Runs \ {r} : run'[o] = run[o]
        BY <1>4, <1>t, <2>2 DEF CheckClaim, RunRecords, StampInv, Busy
      <3> QED BY <1>4, <3>1 DEF CheckClaim, Saved, Gone, Holds, Cutoff
    <2> QED BY <2>1, <2>2
  <1>5. ASSUME NEW r \in Runs, ChoosePool(r) PROVE Saved'
    <2>1. /\ run[r].pc = "pool" /\ run'[r].left = run[r].left /\ run'[r].busy = run[r].busy
          /\ run'[r].pc = "backup" /\ run[r].busy = {}
          /\ \A o \in Runs \ {r} : run'[o] = run[o]
          /\ pools' \in {pools, pools \cup {<<run[r].freq, run[r].ts>>}}
          /\ backups' = backups /\ clock' = clock /\ Locked(r)
      BY <1>5, <1>t DEF ChoosePool, RunRecords, StampInv, Busy, Pooled, Locked, Physical
    <2>2. ASSUME NEW o \in Runs \ {r}, run[o].pc \in {"backup", "pools", "prune"}
          PROVE  Gone(o) <=> Gone(o)'
      <3>1. run[o].pool # Never => Locked(o)
        BY <2>2 DEF StampInv, Pooled, Locked, Physical
      <3>2. run[o].pool = Never
        BY <2>1, <3>1, OneLocked
      <3> QED BY <2>1, <3>2 DEF Gone, Cutoff
    <2> QED BY <2>1, <2>2 DEF Saved, Holds
  <1>6. ASSUME NEW r \in Runs, BeginBackup(r) PROVE Saved'
    <2>1. PICK db \in run[r].left :
              /\ backups' = backups \cup {NewBackup(r, db)}
              /\ run' = [run EXCEPT ![r].busy = {NewBackup(r, db)}]
      BY <1>6, BeginAdds
    <2>2. /\ run'[r].busy = {NewBackup(r, db)} /\ run'[r].left = run[r].left
          /\ run'[r].pc = run[r].pc /\ run'[r].freq = run[r].freq
          /\ run'[r].pool = run[r].pool /\ run'[r].ts = run[r].ts
          /\ \A o \in Runs \ {r} : run'[o] = run[o]
          /\ UNCHANGED <<clock, pools>>
      BY <1>6, <1>t, <2>1 DEF BeginBackup, RunRecords
    <2>3. \A o \in Runs : Gone(o)' = Gone(o) /\ \A d, b : Holds(o, d, b)' = Holds(o, d, b)
      BY <2>2 DEF Gone, Holds, Cutoff
    <2> QED BY <2>1, <2>2, <2>3 DEF Saved
  <1>7. ASSUME NEW r \in Runs, EndBackup(r) PROVE Saved'
    <2>1. PICK b \in run[r].busy : /\ Complete(r, b)
             /\ run' = [run EXCEPT ![r].busy = {}, ![r].left = @ \ {b.db}]
      BY <1>7 DEF EndBackup
    <2>2. /\ run'[r].busy = {} /\ run'[r].left = run[r].left \ {b.db}
          /\ run'[r].pc = run[r].pc /\ run'[r].freq = run[r].freq
          /\ run'[r].pool = run[r].pool /\ run'[r].ts = run[r].ts
          /\ \A o \in Runs \ {r} : run'[o] = run[o]
      BY <1>t, <2>1 DEF RunRecords
    <2> QED BY <1>7, <2>1, <2>2, SavedCompletes DEF EndBackup, Live, Stamped
  <1>8. ASSUME NEW r \in Runs, OrphanEnds(r) PROVE Saved'
    <2>1. run'[r].pc = "failed" /\ \A o \in Runs \ {r} : run'[o] = run[o]
      BY <1>8, <1>t DEF OrphanEnds, RunRecords
    <2> QED BY <1>8, <2>1, SavedCompletes DEF OrphanEnds, Live
  <1>9. ASSUME NEW r \in Runs, BackupFails(r) PROVE Saved'
    BY <1>9, <1>t, <1>q DEF BackupFails, Exit, RunRecords
  <1>10. ASSUME NEW r \in Runs, BackupsTaken(r) PROVE Saved'
    BY <1>10, <1>t, <1>q DEF BackupsTaken, Step, RunRecords
  <1>11. ASSUME NEW r \in Runs, DeletePools(r) PROVE Saved'
    <2>1. /\ run'[r].pc = "prune" /\ run[r].pc = "pools" /\ run'[r].left = run[r].left
          /\ run'[r].busy = run[r].busy /\ run[r].busy = {}
          /\ run'[r].freq = run[r].freq /\ run'[r].pool = run[r].pool
          /\ run'[r].ts = run[r].ts
          /\ \A o \in Runs \ {r} : run'[o] = run[o]
          /\ run[r].pool # Never /\ Locked(r)
      BY <1>11, <1>t DEF DeletePools, Step, RunRecords, StampInv, Pooled, Busy, Locked, Physical
    <2>2. ASSUME NEW o \in Runs \ {r}, run[o].pc \in {"backup", "pools", "prune"}
          PROVE  run[o].pool = Never
      BY <2>1, <2>2, OneLocked DEF StampInv, Pooled, Locked, Physical
    <2>3. ASSUME NEW o \in Runs, run[o].pc \in {"backup", "pools", "prune"}
          PROVE  /\ Gone(o)' <=> Gone(o)
                 /\ \A db, b : Holds(o, db, b)' <=> Holds(o, db, b)
                 /\ \A b \in backups : b.freq = run[o].freq /\ b.pool = run[o].pool => b \in backups'
      BY <1>11, <2>1, <2>2, <2>3 DEF DeletePools, Gone, Holds, Cutoff
    <2>4. ASSUME NEW o \in Runs, NEW b \in run[o].busy
          PROVE  b.freq = run[o].freq /\ b.pool = run[o].pool
      BY DEF StampInv, Busy
    <2> QED BY <2>1, <2>3, <2>4 DEF Saved, Holds
  <1>12. ASSUME NEW r \in Runs, Prune(r) PROVE Saved'
    <2>1. run'[r].pc = "done" /\ \A o \in Runs \ {r} : run'[o] = run[o]
      BY <1>12, <1>t DEF Prune, Step, RunRecords
    <2>2. ASSUME NEW o \in Runs \ {r}, ~Gone(o)', NEW b \in backups,
                 b.freq = run[o].freq, b.pool = run[o].pool, b.ts = run[o].ts,
                 run[o].pool # Never => <<run[o].freq, run[o].pool>> \in pools
          PROVE  b \in backups'
      BY <1>12, <2>1, <2>2 DEF Prune, Gone, Expired, Cutoff
    <2>3. ASSUME NEW o \in Runs \ {r}, ~Gone(o)'
          PROVE  ~Gone(o) /\ (run[o].pool # Never => <<run[o].freq, run[o].pool>> \in pools)
      BY <1>12, <2>1, <2>3 DEF Prune, Gone, Cutoff
    <2>4. ASSUME NEW o \in Runs, NEW b \in run[o].busy
          PROVE  b.freq = run[o].freq /\ b.pool = run[o].pool /\ b.ts = run[o].ts
      BY DEF StampInv, Busy
    <2>5. ASSUME NEW o \in Runs \ {r}, run[o].pc \in {"backup", "pools", "prune"}, ~Gone(o)'
          PROVE  /\ run[o].busy \subseteq backups'
                 /\ \A db \in DB \ run[o].left : \E b \in backups' : Holds(o, db, b)
      <3>1. ~Gone(o) /\ (run[o].pool # Never => <<run[o].freq, run[o].pool>> \in pools)
        BY <2>3, <2>5
      <3>2. run[o].busy \subseteq backups'
        BY <2>2, <2>4, <2>5, <3>1 DEF Saved
      <3>3. ASSUME NEW db \in DB \ run[o].left PROVE \E b \in backups' : Holds(o, db, b)
        <4>1. PICK b \in backups : Holds(o, db, b)
          BY <2>5, <3>1 DEF Saved
        <4> QED BY <2>2, <2>5, <3>1, <4>1 DEF Holds
      <3> QED BY <3>2, <3>3
    <2>6. \A o \in Runs \ {r} : \A db, b : Holds(o, db, b)' <=> Holds(o, db, b)
      BY <2>1 DEF Holds
    <2> QED BY <2>1, <2>5, <2>6 DEF Saved
  <1>13. ASSUME NEW r \in Runs, Killed(r) PROVE Saved'
    <2>1. run'[r].pc = "failed" /\ \A o \in Runs \ {r} : run'[o] = run[o]
      BY <1>13, <1>t DEF Killed, Step, RunRecords
    <2> QED BY <1>13, <1>q, <2>1 DEF Killed
  <1>14. ASSUME UNCHANGED <<clock, run, pools, backups>> PROVE Saved'
    BY <1>14 DEF Saved, Gone, Holds, Cutoff
  <1>15. ASSUME Tick PROVE Saved'
    <2>1. ASSUME NEW o \in Runs, Gone(o) PROVE Gone(o)'
      <3>1. /\ run[o].ts \in Int /\ Retention[run[o].freq] \in Int /\ clock \in Int
        BY <1>t, TimeFacts, ScheduleAssumption DEF RunRecords, TypeInv, TypeOK
      <3> QED BY <1>15, <2>1, <3>1 DEF Tick, Gone, Cutoff
    <2> QED BY <1>15, <2>1 DEF Tick, Saved, Holds
  <1> QED BY <1>1, <1>2, <1>3, <1>4, <1>5, <1>6, <1>7, <1>8, <1>9, <1>10, <1>11,
             <1>12, <1>13, <1>14, <1>15 DEF Next, Script, Restored, vars

(* A run is over by its prune, and then stays as it is.                     *)
LEMMA DoneByPrune ==
    ASSUME TypeInv, [Next]_vars, NEW r \in Runs, run'[r].pc = "done"
    PROVE  run'[r] = run[r] \/ Prune(r)
  <1>t. DOMAIN run = Runs /\ \A o \in Runs : run[o] \in RunRecords
    BY DEF TypeInv, TypeOK
  <1>1. ASSUME NEW o \in Runs, Script(o) \/ Killed(o) \/ OrphanEnds(o), o # r
        PROVE  run'[r] = run[r]
    BY <1>1, <1>t
    DEF Script, Start, Lock, Claim, CheckClaim, ChoosePool, BeginBackup, EndBackup,
        BackupFails, BackupsTaken, DeletePools, Prune, Killed, OrphanEnds, Step, Exit
  <1>2. ASSUME Script(r) \/ Killed(r) \/ OrphanEnds(r) PROVE Prune(r)
    <2>1. ~Start(r)
      BY <1>t DEF Start, RunRecords
    <2> QED BY <1>2, <1>t, <2>1
        DEF Script, Lock, Claim, CheckClaim, ChoosePool, BeginBackup, EndBackup,
            BackupFails, BackupsTaken, DeletePools, Killed, OrphanEnds, Step, Exit, RunRecords
  <1> QED BY <1>1, <1>2 DEF Next, Tick, Restored, vars

(***************************************************************************)
(* What a successful run saved.  Without logical and incremental Jobs of    *)
(* one frequency, only a Job that holds the lock may prune pools, so the    *)
(* pool of a run under way stays.                                           *)
(***************************************************************************)
Unmixed == \A f \in Freqs : ~(<<f, "logical">> \in Configs /\ <<f, "incremental">> \in Configs)

Configured ==
    /\ \A r \in Runs : run[r].pc # "none" => <<run[r].freq, run[r].mode>> \in Configs
    /\ \A b \in backups : b.pool # Never => <<b.freq, "incremental">> \in Configs

PoolStays == \A r \in Runs :
    run[r].mode = "incremental" /\ run[r].pc \in {"backup", "pools", "prune"} =>
        run[r].pool # Never /\ <<run[r].freq, run[r].pool>> \in pools

Kept == \A r \in Runs : run[r].pc = "done" /\ run[r].ts >= Cutoff(r) =>
    \A db \in DB : \E b \in backups :
        b.freq = run[r].freq /\ b.db = db /\ b.ts >= run[r].ts /\ b.ok

(* Every step keeps Configured.                                             *)
LEMMA ConfiguredNext ==
    ASSUME TypeInv, StampInv, FileInv, Configured, [Next]_vars
    PROVE  Configured'
  <1>t. DOMAIN run = Runs /\ \A o \in Runs : run[o] \in RunRecords
    BY DEF TypeInv, TypeOK
  <1>1. ASSUME NEW r \in Runs, Start(r) PROVE Configured'
    <2>1. PICK c \in Configs :
             run' = [run EXCEPT ![r] =
                    [@ EXCEPT !.freq = c[1], !.mode = c[2],
                              !.pc = IF c[2] = "logical" THEN "claim" ELSE "lock"]]
      BY <1>1 DEF Start
    <2>2. run'[r].freq = c[1] /\ run'[r].mode = c[2] /\ \A o \in Runs \ {r} : run'[o] = run[o]
      BY <1>t, <2>1 DEF RunRecords
    <2>3. <<c[1], c[2]>> = c
      BY ScheduleAssumption
    <2> QED BY <1>1, <2>2, <2>3 DEF Start, Configured
  <1>2. ASSUME NEW r \in Runs,
               Lock(r) \/ Claim(r) \/ CheckClaim(r) \/ ChoosePool(r) \/ BeginBackup(r)
               \/ EndBackup(r) \/ BackupFails(r) \/ BackupsTaken(r) \/ DeletePools(r)
               \/ Prune(r) \/ Killed(r) \/ OrphanEnds(r)
        PROVE  \A o \in Runs : run'[o].pc # "none" =>
                  run[o].pc # "none" /\ run'[o].freq = run[o].freq /\ run'[o].mode = run[o].mode
    BY <1>2, <1>t
    DEF Lock, Claim, CheckClaim, ChoosePool, BeginBackup, EndBackup, BackupFails,
        BackupsTaken, DeletePools, Prune, Killed, OrphanEnds, Step, Exit, Started, RunRecords
  <1>3. ASSUME NEW r \in Runs, BeginBackup(r) PROVE Configured'
    <2>1. PICK db \in run[r].left : backups' = backups \cup {NewBackup(r, db)}
      BY <1>3, BeginAdds
    <2>2. NewBackup(r, db).freq = run[r].freq /\ NewBackup(r, db).pool = run[r].pool
      BY DEF NewBackup
    <2>3. run[r].pool # Never => <<run[r].freq, "incremental">> \in Configs
      BY <1>3 DEF BeginBackup, StampInv, Pooled, Configured
    <2> QED BY <1>2, <1>3, <2>1, <2>2, <2>3 DEF Configured
  <1>4. ASSUME NEW r \in Runs, NEW b \in run[r].busy, Complete(r, b),
               EndBackup(r) \/ OrphanEnds(r)
        PROVE  Configured'
    <2>1. \A c \in backups' : \E d \in backups : c.freq = d.freq /\ c.pool = d.pool
      BY <1>4, CompleteKeeps
    <2> QED BY <1>2, <1>4, <2>1 DEF Configured
  <1>5. ASSUME NEW r \in Runs,
               Lock(r) \/ Claim(r) \/ CheckClaim(r) \/ ChoosePool(r)
               \/ BackupFails(r) \/ BackupsTaken(r) \/ DeletePools(r)
               \/ Prune(r) \/ Killed(r)
        PROVE  Configured'
    <2>1. backups' \subseteq backups
      BY <1>5 DEF Lock, Claim, CheckClaim, ChoosePool, BackupFails, BackupsTaken,
                  DeletePools, Prune, Killed
    <2> QED BY <1>2, <1>5, <2>1 DEF Configured
  <1>6. ASSUME UNCHANGED <<run, backups>> PROVE Configured'
    BY <1>6 DEF Configured
  <1> QED BY <1>1, <1>3, <1>4, <1>5, <1>6
          DEF Next, Script, EndBackup, OrphanEnds, Tick, Restored, vars

(* Every step keeps PoolStays.                                              *)
LEMMA PoolStaysNext ==
    ASSUME Unmixed, TypeInv, StampInv, PoolInv, Configured, PoolStays, [Next]_vars
    PROVE  PoolStays'
  <1>t. DOMAIN run = Runs /\ \A o \in Runs : run[o] \in RunRecords
    BY DEF TypeInv, TypeOK
  <1>1. ASSUME NEW r \in Runs, Start(r) PROVE PoolStays'
    <2>1. PICK c \in Configs :
             run' = [run EXCEPT ![r] =
                    [@ EXCEPT !.freq = c[1], !.mode = c[2],
                              !.pc = IF c[2] = "logical" THEN "claim" ELSE "lock"]]
      BY <1>1 DEF Start
    <2>2. run'[r].pc \in {"claim", "lock"} /\ \A o \in Runs \ {r} : run'[o] = run[o]
      BY <1>t, <2>1 DEF RunRecords
    <2> QED BY <1>1, <2>2 DEF Start, PoolStays
  <1>2. ASSUME NEW r \in Runs,
               Lock(r) \/ Claim(r) \/ CheckClaim(r) \/ BeginBackup(r)
               \/ EndBackup(r) \/ BackupFails(r) \/ BackupsTaken(r)
               \/ Killed(r) \/ OrphanEnds(r)
        PROVE  PoolStays'
    <2>1. \A o \in Runs :
             run'[o].mode = "incremental" /\ run'[o].pc \in {"backup", "pools", "prune"} =>
                /\ run[o].mode = "incremental" /\ run[o].pc \in {"backup", "pools", "prune"}
                /\ run'[o].freq = run[o].freq /\ run'[o].pool = run[o].pool
      BY <1>2, <1>t
      DEF Lock, Claim, CheckClaim, BeginBackup, EndBackup, BackupFails,
          BackupsTaken, Killed, OrphanEnds, Step, Exit, RunRecords
    <2>2. pools' = pools
      BY <1>2 DEF Lock, Claim, CheckClaim, BeginBackup, EndBackup, BackupFails,
                  BackupsTaken, Killed, OrphanEnds
    <2> QED BY <2>1, <2>2 DEF PoolStays
  <1>3. ASSUME NEW r \in Runs, ChoosePool(r) PROVE PoolStays'
    <2>1. CASE /\ pools' = pools \cup {<<run[r].freq, run[r].ts>>}
               /\ run' = [run EXCEPT ![r].pc = "backup", ![r].pool = run[r].ts]
      <3>1. run[r].ts # Never
        BY <1>3, TimeFacts DEF ChoosePool, StampInv, Claimed, Live, Stamped
      <3> QED BY <1>t, <2>1, <3>1 DEF PoolStays, RunRecords
    <2>2. CASE /\ pools' = pools /\ Newest(run[r].freq) # Never
               /\ run' = [run EXCEPT ![r].pc = "backup", ![r].pool = Newest(run[r].freq)]
      <3>1. <<run[r].freq, Newest(run[r].freq)>> \in pools
        BY <2>2, NewestPool
      <3> QED BY <1>t, <2>2, <3>1 DEF PoolStays, RunRecords
    <2> QED BY <1>3, <2>1, <2>2 DEF ChoosePool
  <1>4. ASSUME NEW r \in Runs, DeletePools(r) PROVE PoolStays'
    <2>1. /\ run[r].pc = "pools" /\ run[r].mode = "incremental" /\ Locked(r)
          /\ run'[r].freq = run[r].freq /\ run'[r].pool = run[r].pool
          /\ \A o \in Runs \ {r} : run'[o] = run[o]
      BY <1>4, <1>t DEF DeletePools, Step, RunRecords, StampInv, Pooled, Locked, Physical
    <2>2. \A o \in Runs \ {r} : ~Locked(o)
      BY <2>1, OneLocked
    <2> QED BY <1>4, <2>1, <2>2 DEF DeletePools, PoolStays, Locked, Physical
  <1>5. ASSUME NEW r \in Runs, Prune(r) PROVE PoolStays'
    <2>1. run'[r].pc = "done" /\ \A o \in Runs \ {r} : run'[o] = run[o]
      BY <1>5, <1>t DEF Prune, Step, RunRecords
    <2>2. ASSUME NEW o \in Runs \ {r}, run[o].mode = "incremental",
                 run[o].pc \in {"backup", "pools", "prune"}
          PROVE  <<run[o].freq, run[o].pool>> \in pools'
      <3>1. <<run[o].freq, run[o].pool>> \in pools /\ Locked(o)
        BY <2>2 DEF PoolStays, Locked, Physical
      <3>2. ~Physical(r)
        BY <1>5, <3>1, OneLocked DEF Prune, Locked
      <3>3. run[r].freq # run[o].freq
        BY <1>5, <1>t, <2>2, <3>2 DEF Prune, Unmixed, Configured, Physical, RunRecords
      <3> QED BY <1>5, <3>1, <3>3 DEF Prune
    <2> QED BY <2>1, <2>2 DEF PoolStays
  <1>6. ASSUME UNCHANGED <<run, pools>> PROVE PoolStays'
    BY <1>6 DEF PoolStays
  <1> QED BY <1>1, <1>2, <1>3, <1>4, <1>5, <1>6 DEF Next, Script, Tick, Restored, vars

(* Every step keeps Kept.                                                   *)
LEMMA KeptNext ==
    ASSUME Unmixed, TypeInv, StampInv, FileInv, PoolInv, Saved, Configured, PoolStays,
           Kept, [Next]_vars
    PROVE  Kept'
  <1> SUFFICES ASSUME NEW r \in Runs, run'[r].pc = "done", run'[r].ts >= Cutoff(r)',
                      NEW db \in DB
               PROVE  \E b \in backups' : /\ b.freq = run'[r].freq /\ b.db = db
                                          /\ b.ts >= run'[r].ts /\ b.ok
    BY DEF Kept
  <1>t. DOMAIN run = Runs /\ \A o \in Runs : run[o] \in RunRecords
    BY DEF TypeInv, TypeOK
  <1>i. /\ clock \in Int /\ \A f \in Freqs : Retention[f] \in Int
        /\ \A o \in Runs : run[o].ts \in Int /\ run[o].freq \in Freqs /\ Cutoff(o) \in Int
        /\ \A b \in backups : b.ts \in Int
    <2>1. /\ clock \in Int /\ \A f \in Freqs : Retention[f] \in Int
          /\ \A o \in Runs : run[o].ts \in Int /\ run[o].freq \in Freqs
      BY <1>t, TimeFacts, ScheduleAssumption DEF TypeInv, TypeOK, RunRecords
    <2>2. \A b \in backups : b.ts \in Int
      BY TimeFacts DEF TypeInv, TypeOK, Backups
    <2> QED BY <2>1, <2>2 DEF Cutoff
  (* What a run at its last step has saved.                                 *)
  <1>s. ASSUME NEW o \in Runs, run[o].pc \in {"pools", "prune"},
               run[o].pool = Never => run[o].ts >= Cutoff(o)
        PROVE  \E b \in backups : Holds(o, db, b)
    <2>1. run[o].left = {}
      BY <1>s DEF StampInv, Pooled
    <2>2. ~Gone(o)
      BY <1>i, <1>s DEF Gone, PoolStays, StampInv, Pooled
    <2> QED BY <1>s, <2>1, <2>2 DEF Saved
  <1>1. CASE Prune(r)
    <2>1. /\ run'[r].freq = run[r].freq /\ run'[r].ts = run[r].ts /\ clock' = clock
          /\ run[r].pc = "prune" /\ Cutoff(r)' = Cutoff(r)
      BY <1>1, <1>t DEF Prune, Step, RunRecords, Cutoff
    <2>2. PICK b \in backups : Holds(r, db, b)
      BY <1>s, <2>1
    <2>3. b \in backups'
      <3>1. b.pool # Never => run[r].mode = "incremental"
        BY <2>2 DEF Holds, StampInv, Pooled
      <3>2. ~Expired(r, b.ts)
        BY <1>i, <2>1, <2>2 DEF Holds, Expired
      <3> QED BY <1>1, <3>1, <3>2 DEF Prune
    <2> QED BY <1>i, <2>1, <2>2, <2>3 DEF Holds
  <1>2. CASE run'[r] = run[r]
    <2>1. run[r].ts >= Cutoff(r)
      <3>1. clock' \in Int /\ clock' >= clock
        <4>1. clock' = clock \/ clock' = clock + 1
          BY DEF Next, Script, Start, Lock, Claim, CheckClaim, ChoosePool, BeginBackup,
                 EndBackup, BackupFails, BackupsTaken, DeletePools, Prune, Killed,
                 OrphanEnds, Tick, Restored, vars
        <4> QED BY <1>i, <4>1
      <3>2. Cutoff(r)' = clock' - Retention[run[r].freq] /\ Cutoff(r) = clock - Retention[run[r].freq]
        BY <1>2 DEF Cutoff
      <3> QED BY <1>2, <1>i, <3>1, <3>2
    <2>2. PICK b \in backups : /\ b.freq = run[r].freq /\ b.db = db
                               /\ b.ts >= run[r].ts /\ b.ok
      BY <1>2, <2>1 DEF Kept
    <2>3. ASSUME NEW o \in Runs, DeletePools(o), b \notin backups'
          PROVE  \E c \in backups' : /\ c.freq = run[r].freq /\ c.db = db
                                     /\ c.ts >= run[r].ts /\ c.ok
      <3>1. /\ run[o].pc = "pools" /\ run[o].pool # Never /\ Locked(o) /\ Stamped(o)
            /\ b.freq = run[o].freq /\ b.pool # Never
        BY <2>3 DEF DeletePools, StampInv, Pooled, Locked, Physical, Stamped
      <3>2. PICK c \in backups : Holds(o, db, c)
        BY <1>s, <3>1
      <3>3. c \in backups'
        BY <2>3, <3>2 DEF DeletePools, Holds
      <3>4. b.ts <= run[o].ts
        BY <3>1 DEF PoolInv, Latest, LatestFile
      <3> QED BY <1>i, <2>2, <3>1, <3>2, <3>3, <3>4 DEF Holds
    <2>4. ASSUME NEW o \in Runs, Prune(o), b \notin backups'
          PROVE  \E c \in backups' : /\ c.freq = run[r].freq /\ c.db = db
                                     /\ c.ts >= run[r].ts /\ c.ok
      <3>1. /\ run[o].pc = "prune" /\ b.freq = run[o].freq
            /\ IF b.pool = Never THEN Expired(o, b.ts)
               ELSE run[o].mode # "incremental" /\ Expired(o, b.pool)
        BY <2>4 DEF Prune
      <3>2. Cutoff(o) = Cutoff(r)
        BY <2>2, <3>1 DEF Cutoff
      <3>3. b.pool # Never
        BY <1>i, <2>1, <2>2, <3>1, <3>2 DEF Expired
      <3>4. run[o].mode = "physical"
        BY <1>t, <3>1, <3>3 DEF Unmixed, Configured, RunRecords, Modes
      <3>5. b.ts <= run[o].ts
        BY <3>1, <3>3, <3>4 DEF PoolInv, Latest, LatestFile, Locked, Physical, Stamped
      <3>6. run[o].ts >= Cutoff(o) /\ run[o].pool = Never
        BY <1>i, <2>1, <2>2, <3>2, <3>4, <3>5 DEF StampInv, Pooled
      <3>7. PICK c \in backups : Holds(o, db, c)
        BY <1>s, <3>1, <3>6
      <3>8. c \in backups'
        BY <1>i, <2>4, <3>6, <3>7 DEF Prune, Holds, Expired
      <3> QED BY <1>i, <2>2, <3>1, <3>5, <3>7, <3>8 DEF Holds
    <2>5. b \notin backups' => \E o \in Runs : DeletePools(o) \/ Prune(o)
      BY <2>2, OnlyDeletesTake
    <2> QED BY <1>2, <2>2, <2>3, <2>4, <2>5
  <1> QED BY <1>1, <1>2, DoneByPrune

Poolless == \A c \in Configs : c[2] # "incremental"

(* What a run still under way has saved, always.                            *)
LEMMA SavedHolds ==
    Spec => [](TypeInv /\ StampInv /\ FileInv /\ PoolInv /\ Saved /\ Configured)
  <1>1. Init => Saved /\ Configured
    <2> SUFFICES ASSUME Init PROVE Saved /\ Configured
      OBVIOUS
    <2>1. backups = {} /\ \A r \in Runs : run[r].pc = "none"
      BY DEF Init, Idle
    <2> QED BY <2>1 DEF Saved, Configured
  <1> QED BY <1>1, PoolsHold, SavedNext, ConfiguredNext, PTL DEF Spec

(* Either hypothesis makes every level 1 backup usable.                     *)
LEMMA UsableAlways ==
    ASSUME Supervised \/ Poolless
    PROVE  Spec => []Chains
  <1>1. CASE Supervised
    <2>1. ChainInv => Chains
      BY DEF ChainInv
    <2> QED BY <1>1, <2>1, ChainsHold, PTL
  <1>2. CASE Poolless
    <2>1. TypeInv /\ PoolInv /\ Configured => Chains
      <3> SUFFICES ASSUME TypeInv, PoolInv, Configured, NEW b \in backups, b.level = 1
                   PROVE  FALSE
        BY DEF Chains, Usable
      <3>1. <<b.freq, "incremental">> \in Configs
        BY DEF PoolInv, Placed, Configured
      <3> QED BY <1>2, <3>1 DEF Poolless
    <2> QED BY <2>1, SavedHolds, PTL
  <1> QED BY <1>1, <1>2

(***************************************************************************)
(* What a successful Job saved stays restorable until the retention is      *)
(* over, whichever later Jobs overlap, fail or are killed                   *)
(* (KeptUntilExpired).  It needs two things of the surroundings: that       *)
(* server-side backups end with their Job, or that mode.incremental is not  *)
(* used; and that no frequency has Jobs of mode.logical, which take no      *)
(* lock, beside Jobs of mode.incremental.                                   *)
(***************************************************************************)
THEOREM SavedUntilExpired ==
    ASSUME Supervised \/ Poolless, Unmixed
    PROVE  Spec => []KeptUntilExpired
  <1>1. Init => PoolStays /\ Kept
    <2> SUFFICES ASSUME Init PROVE PoolStays /\ Kept
      OBVIOUS
    <2>1. \A r \in Runs : run[r].pc = "none"
      BY DEF Init, Idle
    <2> QED BY <2>1 DEF PoolStays, Kept
  <1>2. Spec => [](PoolStays /\ Kept)
    BY <1>1, SavedHolds, PoolStaysNext, KeptNext, PTL DEF Spec
  <1>3. Kept /\ Chains => KeptUntilExpired
    BY DEF Kept, Chains, KeptUntilExpired
  <1> QED BY <1>2, <1>3, UsableAlways, PTL
-----------------------------------------------------------------------------
(***************************************************************************)
(* The script implements RestorePoints.                                     *)
(***************************************************************************)
Point(b) == [freq |-> b.freq, pool |-> b.pool, db |-> b.db, ts |-> b.ts]

(* The restore points are those of the finished backups that are usable.    *)
LEMMA RestorableIs ==
    \A p : p \in Restorable <=> \E b \in backups : b.ok /\ Usable(b) /\ p = Point(b)
  BY DEF Restorable, Point

(* The same for the next state.                                             *)
LEMMA RestorableNext ==
    \A p : p \in Restorable' <=> \E b \in backups' : b.ok /\ Usable(b)' /\ p = Point(b)
  BY DEF Restorable, Point

(* Completing a backup makes no other backup usable, or useless: a level 1  *)
(* has a complete level 0 beside it, and none other has that name.          *)
LEMMA CompleteRoots ==
    ASSUME TypeInv, FileInv, PoolInv, RootInv,
           NEW r \in Runs, NEW b \in run[r].busy, ~b.ok, Complete(r, b),
           NEW d \in backups, NEW c,
           c.freq = d.freq, c.pool = d.pool, c.level = d.level, c.base = d.base
    PROVE  Usable(c)' <=> Usable(d)
  <1>b. b \in Backups /\ backups \subseteq Backups
    BY DEF TypeInv, TypeOK, RunRecords
  <1>1. ASSUME d.level = 1, NEW z \in backups, z.ok, z.freq = d.freq, z.pool = d.pool,
               Name(z) = d.base
        PROVE  Usable(c)'
    <2>1. z \in backups'
      BY <1>1 DEF Complete
    <2> QED BY <1>1, <2>1 DEF Usable, Name
  <1>2. ASSUME d.level = 1, NEW z \in backups', z.ok, z.freq = d.freq, z.pool = d.pool,
               Name(z) = d.base
        PROVE  Usable(d)
    <2>1. CASE z \in backups
      BY <1>2, <2>1 DEF Usable
    <2>2. CASE z \notin backups
      <3>1. /\ b \in backups /\ Name(b) = d.base /\ b.freq = d.freq /\ b.pool = d.pool
        BY <1>2, <2>2, CompleteKeeps
      <3>2. PICK y \in backups : y.ok /\ Name(y) = Level0(d.freq, d.pool, d.db)
        BY <1>2 DEF RootInv, Rooted
      <3>3. d.base[3] = d.db /\ d.base[4] = 0 /\ d.pool # Never
        BY <1>2 DEF RootInv, Rooted, PoolInv, Placed
      <3>4. Name(b)[3] = b.db /\ Name(b)[4] = b.level
        BY DEF Name
      <3>5. b.db = d.db /\ b.level = 0
        BY <3>1, <3>3, <3>4
      <3>6. Name(b) = Level0(d.freq, d.pool, d.db)
        BY <3>1, <3>3, <3>5 DEF Name, Level0
      <3> QED BY <3>1, <3>2, <3>6 DEF FileInv, NamesDiffer
    <2> QED BY <2>1, <2>2
  <1> QED BY <1>1, <1>2 DEF Usable, Name

(* Completing a backup saves one point at most; the others stay.            *)
LEMMA CompleteSaves ==
    ASSUME TypeInv, StampInv, FileInv, PoolInv, RootInv,
           NEW r \in Runs, NEW b \in run[r].busy, Complete(r, b), UNCHANGED clock
    PROVE  [Promise!Next]_<<clock, Restorable>>
  <1>b. b \in Backups /\ ~b.ok
    BY DEF StampInv, Busy, TypeInv, TypeOK, RunRecords
  <1>l. ASSUME NEW p \in Restorable PROVE p \in Restorable'
    <2>1. PICK c \in backups : c.ok /\ Usable(c) /\ p = Point(c)
      BY RestorableIs
    <2>2. c \in backups' /\ Usable(c)'
      BY <1>b, <2>1, CompleteRoots DEF Complete
    <2> QED BY <2>1, <2>2, RestorableNext
  <1>n. ASSUME NEW p \in Restorable', p \notin Restorable
        PROVE  b \in backups /\ Usable(b) /\ p = Point(b)
    <2>1. PICK c \in backups' : c.ok /\ Usable(c)' /\ p = Point(c)
      BY RestorableNext
    <2>2. CASE c \in backups
      <3>1. Usable(c)
        BY <1>b, <2>1, <2>2, CompleteRoots
      <3> QED BY <1>n, <2>1, <2>2, <3>1, RestorableIs
    <2>3. CASE c \notin backups
      <3>1. /\ b \in backups /\ Point(c) = Point(b)
            /\ c.freq = b.freq /\ c.pool = b.pool /\ c.level = b.level /\ c.base = b.base
        BY <2>3, CompleteKeeps DEF Point
      <3>2. Usable(b)
        BY <1>b, <2>1, <3>1, CompleteRoots
      <3> QED BY <2>1, <3>1, <3>2
    <2> QED BY <2>2, <2>3
  <1>1. CASE Restorable' \subseteq Restorable
    <2>1. Restorable' = Restorable
      BY <1>1, <1>l
    <2> QED BY <2>1
  <1>2. CASE ~(Restorable' \subseteq Restorable)
    <2>1. b \in backups /\ Point(b) \in Restorable' \ Restorable
      BY <1>2, <1>n
    <2>2. Restorable' = Restorable \cup {Point(b)}
      BY <1>l, <1>n, <2>1
    <2>3. Point(b) \in Promise!Points /\ Point(b).ts <= clock
      BY <1>b, <2>1 DEF Point, Promise!Points, Promise!Alone, Backups, Stamps, Never, Time,
                        PoolInv, Placed
    <2> QED BY <2>1, <2>2, <2>3 DEF Promise!Next, Promise!Save
  <1> QED BY <1>1, <1>2

(* Deleting the pools a new one replaces is a Replace.                      *)
LEMMA DeletePoolsReplaces ==
    ASSUME TypeInv, StampInv, PoolInv, RootInv, Saved, NEW r \in Runs, DeletePools(r)
    PROVE  Promise!Replace
  <1> DEFINE old == {p \in Restorable : p.freq = run[r].freq
                                          /\ p.pool \notin {Promise!Alone, run[r].pool}}
  <1>t. run[r] \in RunRecords /\ backups \subseteq Backups
    BY DEF TypeInv, TypeOK
  <1>r. /\ run[r].freq \in Freqs /\ run[r].pool \in 0..MaxClock /\ run[r].pool # Never
        /\ run[r].pc = "pools" /\ run[r].mode = "incremental" /\ run[r].left = {}
        /\ Promise!Alone = Never
    BY <1>t DEF DeletePools, StampInv, Pooled, RunRecords, Stamps, Time,
                Promise!Alone, Never
  <1>1. ASSUME NEW o \in old
        PROVE  \E p \in Restorable : /\ p.freq = run[r].freq /\ p.pool = run[r].pool
                                     /\ p.db = o.db /\ p.ts >= o.ts
    <2>1. PICK b \in backups : b.ok /\ o = Point(b)
      BY RestorableIs
    <2>2. /\ b.freq = run[r].freq /\ b.pool \notin {Never, run[r].pool}
          /\ b.db = o.db /\ b.ts = o.ts /\ b.db \in DB
      BY <1>r, <1>t, <2>1 DEF Point, Backups
    <2>3. <<b.freq, b.pool>> \in pools
      BY <2>2 DEF PoolInv, Placed
    <2>4. <<run[r].freq, run[r].pool>> \in pools /\ b.pool <= run[r].pool
      BY <1>r, <2>2, <2>3 DEF PoolInv, Latest, LatestPool
    <2>5. PICK c \in backups : Holds(r, b.db, c)
      BY <1>r, <2>2, <2>4 DEF Saved, Gone
    <2>6. PICK z \in backups : /\ z.ok /\ z.level = 0 /\ z.db = b.db
                               /\ z.freq = run[r].freq /\ z.pool = run[r].pool
      <3>1. CASE c.level = 0
        BY <2>5, <3>1 DEF Holds
      <3>2. CASE c.level = 1
        <4>1. PICK y \in backups : y.ok /\ Name(y) = Level0(c.freq, c.pool, c.db)
          BY <3>2 DEF RootInv, Rooted
        <4>2. c.freq = run[r].freq /\ c.pool = run[r].pool /\ c.db = b.db
              /\ c.pool \in Time
          BY <1>r, <2>5 DEF Holds, Time
        <4>3. /\ y.freq = run[r].freq /\ y.pool = run[r].pool /\ y.db = b.db
              /\ y.level = 0
          BY <1>t, <4>1, <4>2, Level0Names
        <4> QED BY <4>1, <4>3
      <3> QED BY <1>t, <3>1, <3>2 DEF Backups
    <2>7. /\ b.ts \in Int /\ z.ts \in Int /\ b.pool \in Int /\ run[r].pool \in Int
      BY <1>r, <1>t, TimeFacts DEF Backups, RunRecords
    <2>8. b.ts <= run[r].pool
      <3>1. b.pool < run[r].pool
        BY <2>2, <2>4, <2>7
      <3> QED BY <2>2, <2>4, <3>1 DEF RootInv, Ordered
    <2>9. run[r].pool <= z.ts
      BY <1>r, <2>6 DEF RootInv, Ordered
    <2>10. z.ts >= b.ts
      BY <2>7, <2>8, <2>9
    <2>11. Point(z) \in Restorable
      BY <2>6, RestorableIs DEF Usable
    <2> QED BY <2>2, <2>6, <2>10, <2>11 DEF Point
  <1>2. \A b \in backups : b \in backups' <=> ~(/\ b.freq = run[r].freq
                                               /\ b.pool \notin {Never, run[r].pool})
    BY DEF DeletePools
  <1>3. backups' \subseteq backups /\ clock' = clock
    BY DEF DeletePools
  <1>u. ASSUME NEW b \in backups' PROVE Usable(b)' <=> Usable(b)
    BY <1>2, <1>3 DEF Usable, Name
  <1>4. Restorable' = Restorable \ old
    <2>1. ASSUME NEW p \in Restorable' PROVE p \in Restorable \ old
      <3>1. PICK b \in backups' : b.ok /\ Usable(b)' /\ p = Point(b)
        BY RestorableNext
      <3> QED BY <1>2, <1>3, <1>r, <1>u, <3>1, RestorableIs DEF Point
    <2>2. ASSUME NEW p \in Restorable \ old PROVE p \in Restorable'
      <3>1. PICK b \in backups : b.ok /\ Usable(b) /\ p = Point(b)
        BY RestorableIs
      <3> QED BY <1>2, <1>r, <1>u, <3>1, RestorableNext DEF Point
    <2> QED BY <2>1, <2>2
  <1> QED BY <1>r, <1>1, <1>3, <1>4 DEF Promise!Replace

(* Pruning is an Expire.                                                    *)
LEMMA PruneExpires ==
    ASSUME TypeInv, PoolInv, NEW r \in Runs, Prune(r)
    PROVE  Promise!Expire
  <1> DEFINE f == run[r].freq
  <1>r. f \in Freqs /\ Promise!Alone = Never
    BY DEF TypeInv, TypeOK, RunRecords, Promise!Alone, Never
  <1>1. /\ clock' = clock /\ Cutoff(r) = clock - Retention[f]
        /\ backups' \subseteq backups
        /\ \A b \in backups : b \in backups' <=>
              ~(/\ b.freq = f
                /\ IF b.pool = Never THEN b.ts < Cutoff(r)
                   ELSE run[r].mode # "incremental" /\ b.pool < Cutoff(r))
    BY DEF Prune, Cutoff, Expired
  <1>u. ASSUME NEW b \in backups' PROVE Usable(b)' <=> Usable(b)
    <2>1. b.level = 1 => b.pool # Never
      BY <1>1 DEF PoolInv, Placed
    <2> QED BY <1>1, <2>1 DEF Usable, Name
  <1> DEFINE gone == IF run[r].mode = "incremental" THEN Promise!ExpiredFiles(f)
                     ELSE Promise!ExpiredFiles(f) \cup Promise!ExpiredPools(f)
  <1>2. \A p \in Restorable : p \in gone <=>
           /\ p.freq = f
           /\ IF p.pool = Never THEN p.ts < Cutoff(r)
              ELSE run[r].mode # "incremental" /\ p.pool < Cutoff(r)
    BY <1>r, <1>1 DEF Promise!ExpiredFiles, Promise!ExpiredPools
  <1> HIDE DEF gone, f
  <1>3. Restorable' = Restorable \ gone
    <2>1. ASSUME NEW p \in Restorable' PROVE p \in Restorable \ gone
      <3>1. PICK b \in backups' : b.ok /\ Usable(b)' /\ p = Point(b)
        BY RestorableNext
      <3>2. p \in Restorable
        BY <1>1, <1>u, <3>1, RestorableIs
      <3> QED BY <1>1, <1>2, <3>1, <3>2 DEF Point
    <2>2. ASSUME NEW p \in Restorable \ gone PROVE p \in Restorable'
      <3>1. PICK b \in backups : b.ok /\ Usable(b) /\ p = Point(b)
        BY RestorableIs
      <3>2. b \in backups'
        BY <1>1, <1>2, <2>2, <3>1 DEF Point
      <3> QED BY <1>u, <3>1, <3>2, RestorableNext
    <2> QED BY <2>1, <2>2
  <1> QED BY <1>r, <1>1, <1>3 DEF Promise!Expire, gone, f

(* Every step of the script is a step of the promise, or leaves it alone.   *)
LEMMA StepRefines ==
    ASSUME TypeInv, StampInv, FileInv, PoolInv, RootInv, Saved, [Next]_vars
    PROVE  [Promise!Next]_<<clock, Restorable>>
  <1>s. ASSUME \A b : b.ok => (b \in backups <=> b \in backups')
        PROVE  Restorable' = Restorable
    <2>1. ASSUME NEW b PROVE Usable(b)' <=> Usable(b)
      BY <1>s DEF Usable, Name
    <2>2. ASSUME NEW p PROVE p \in Restorable <=> p \in Restorable'
      BY <1>s, <2>1, RestorableIs, RestorableNext
    <2> QED BY <2>2
  <1>1. ASSUME NEW r \in Runs, BeginBackup(r) PROVE UNCHANGED <<clock, Restorable>>
    <2>1. PICK db \in run[r].left : backups' = backups \cup {NewBackup(r, db)}
      BY <1>1, BeginAdds
    <2>2. ~NewBackup(r, db).ok
      BY DEF NewBackup
    <2> QED BY <1>1, <1>s, <2>1, <2>2 DEF BeginBackup
  <1>2. ASSUME NEW r \in Runs, EndBackup(r) \/ OrphanEnds(r)
        PROVE  [Promise!Next]_<<clock, Restorable>>
    BY <1>2, CompleteSaves DEF EndBackup, OrphanEnds
  <1>3. ASSUME NEW r \in Runs, DeletePools(r) \/ Prune(r) PROVE Promise!Next
    BY <1>3, DeletePoolsReplaces, PruneExpires DEF Promise!Next
  <1>4. ASSUME Tick PROVE Promise!Next
    <2>1. Restorable' = Restorable
      BY <1>4, <1>s DEF Tick
    <2> QED BY <1>4, <2>1 DEF Tick, Promise!Next, Promise!Tick
  <1>5. ASSUME UNCHANGED <<clock, backups>> PROVE UNCHANGED <<clock, Restorable>>
    BY <1>5, <1>s
  <1>6. ASSUME NEW r \in Runs, Script(r) \/ Killed(r) \/ OrphanEnds(r)
        PROVE  \/ BeginBackup(r) \/ EndBackup(r) \/ OrphanEnds(r) \/ DeletePools(r)
               \/ Prune(r) \/ UNCHANGED <<clock, backups>>
    BY <1>6 DEF Script, Start, Lock, Claim, CheckClaim, ChoosePool, BackupFails,
                BackupsTaken, Killed
  <1> QED BY <1>1, <1>2, <1>3, <1>4, <1>5, <1>6 DEF Next, Restored, vars

(***************************************************************************)
(* The script implements RestorePoints: whatever Jobs overlap, fail or are  *)
(* killed, and even when the server goes on with what a killed Job asked    *)
(* for, a restore point is never altered, and goes only by expiry or for a  *)
(* pool that restores its database to a time no earlier                     *)
(* (KeepsRestorePoints).                                                    *)
(***************************************************************************)
THEOREM ImplementsRestorePoints == Spec => KeepsRestorePoints
  <1>1. Init => Promise!Init
    BY DEF Init, Promise!Init, Restorable
  <1>2. Spec => [][Promise!Next]_<<clock, Restorable>>
    BY SavedHolds, RootHolds, StepRefines, PTL DEF Spec
  <1> QED BY <1>1, <1>2, PTL DEF Spec, KeepsRestorePoints, Promise!Spec

=============================================================================
