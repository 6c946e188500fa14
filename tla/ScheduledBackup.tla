--------------------------- MODULE ScheduledBackup ---------------------------
(***************************************************************************)
(* The script a scheduled backup Job runs (scheduledBackupScript), by any   *)
(* number of Jobs at once: CronJobs of several frequencies, Jobs created by *)
(* hand next to them, and Jobs that outlive a change of spec.backup.mode.   *)
(* They share the backup volume (timestamp claims, backup files,            *)
(* mode.incremental's pools), the flock of the physical modes and each      *)
(* database's RDB$BACKUP_HISTORY.                                           *)
(*                                                                          *)
(* Time is a counter of seconds; a timestamp is its value.  Compression is  *)
(* left out: it renames a finished backup without touching its timestamp.   *)
(***************************************************************************)
EXTENDS Integers

CONSTANTS
    DB,         \* status.databases, as the script was rendered
    Freqs,      \* the frequencies of spec.backup.retention
    Configs,    \* the <<frequency, mode>> pairs the spec may enable over time
    Retention,  \* how long each frequency keeps its backups
    Runs,       \* Job runs
    Faults,     \* what may go wrong: see FaultKinds
    MaxClock    \* bound on time

Modes == {"logical", "physical", "incremental"}

(***************************************************************************)
(* "error": fbsvcmgr fails halfway through a database.                      *)
(* "kill": a Job's pod is killed, leaving its claim behind (deadline, node). *)
(* "orphan": what a killed run asked of the server goes on without it.      *)
(* "isql": the query of the backup history fails, which reads as no row.    *)
(* "restore": a database is restored from a gbak backup, without history.   *)
(***************************************************************************)
FaultKinds == {"error", "kill", "orphan", "isql", "restore"}

ASSUME ScheduleAssumption ==
    /\ Configs \subseteq Freqs \X Modes
    /\ Retention \in [Freqs -> Nat]
    /\ Faults \subseteq FaultKinds
    /\ MaxClock \in Nat

Never  == -1      \* no timestamp, no pool
NoRow  == <<>>    \* an empty backup history
Nobody == "nobody"

ASSUME NamesAssumption == Freqs # {} /\ Nobody \notin Runs

Time   == 0..MaxClock
Stamps == Time \cup {Never}

(***************************************************************************)
(* A backup: the pool it is in (or Never), its level, the run's timestamp,  *)
(* the level 0 a level 1 is relative to, and whether it is complete.  A     *)
(* pool's level 0 carries no timestamp in its name.                         *)
(***************************************************************************)
Name(b) == <<b.freq, b.pool, b.db, b.level,
             IF b.pool # Never /\ b.level = 0 THEN Never ELSE b.ts>>

Names == (Freqs \X Stamps \X DB \X {0, 1} \X Stamps) \cup {NoRow}
Backups == [freq : Freqs, pool : Stamps, db : DB, level : {0, 1},
            ts : Time, base : Names, ok : BOOLEAN]

VARIABLES
    clock,   \* the time
    run,     \* per run: its step, what it was rendered for and its locals
    lock,    \* the run holding scheduledBackupLockPath
    claims,  \* the .claim-<timestamp> directories
    pools,   \* the pool-<timestamp> directories
    backups, \* the backup files, complete or not
    history  \* per database, the latest level 0 in RDB$BACKUP_HISTORY

vars == <<clock, run, lock, claims, pools, backups, history>>

RunRecords ==
    [pc : {"none", "lock", "claim", "check", "pool", "backup", "pools", "prune",
           "done", "failed"},
     freq : Freqs, mode : Modes, ts : Stamps, pool : Stamps,
     left : SUBSET DB, busy : SUBSET Backups]

(* Every variable keeps its type.                                           *)
TypeOK ==
    /\ clock \in Time
    /\ run \in [Runs -> RunRecords]
    /\ lock \in Runs \cup {Nobody}
    /\ claims \subseteq Freqs \X Time
    /\ pools \subseteq Freqs \X Time
    /\ backups \subseteq Backups
    /\ history \in [DB -> Names]

Idle == [pc |-> "none", freq |-> CHOOSE f \in Freqs : TRUE, mode |-> "logical",
         ts |-> Never, pool |-> Never, left |-> {}, busy |-> {}]

Init ==
    /\ clock = 0
    /\ run = [r \in Runs |-> Idle]
    /\ lock = Nobody
    /\ claims = {} /\ pools = {} /\ backups = {}
    /\ history = [db \in DB |-> NoRow]
-----------------------------------------------------------------------------
Physical(r) == run[r].mode # "logical"

Started(r) == run[r].pc \notin {"none", "done", "failed"}

Cutoff(r) == clock - Retention[run[r].freq]

Step(r, pc) == run' = [run EXCEPT ![r].pc = pc]

(* The shell exits: its flock goes, and the EXIT trap removes its claim.    *)
Exit(r, result) ==
    /\ run' = [run EXCEPT ![r].pc = result, ![r].busy = {}]
    /\ lock' = IF lock = r THEN Nobody ELSE lock
    /\ claims' = claims \ {<<run[r].freq, run[r].ts>>}

Start(r) ==
    /\ run[r].pc = "none"
    /\ \E c \in Configs :
          run' = [run EXCEPT ![r] =
                    [@ EXCEPT !.freq = c[1], !.mode = c[2],
                              !.pc = IF c[2] = "logical" THEN "claim" ELSE "lock"]]
    /\ UNCHANGED <<clock, lock, claims, pools, backups, history>>

(* Faulty variant: flock is not waited for.                                 *)
LockIgnored(r) ==
    /\ run[r].pc = "lock"
    /\ lock' = r
    /\ Step(r, "claim")
    /\ UNCHANGED <<clock, claims, pools, backups, history>>

Lock(r) ==
    /\ run[r].pc = "lock" /\ lock = Nobody
    /\ lock' = r
    /\ Step(r, "claim")
    /\ UNCHANGED <<clock, claims, pools, backups, history>>
-----------------------------------------------------------------------------
(***************************************************************************)
(* scheduledBackupUniqueTimestampScript: claim the current timestamp with   *)
(* mkdir, give it up when a backup already carries it, and try again with   *)
(* another one a second later.                                              *)
(***************************************************************************)

(* Faulty variant: mkdir -p, which an existing claim does not stop.         *)
ClaimShared(r) ==
    /\ run[r].pc = "claim" /\ run[r].ts # clock
    /\ claims' = claims \cup {<<run[r].freq, clock>>}
    /\ run' = [run EXCEPT ![r].pc = "check", ![r].ts = clock]
    /\ UNCHANGED <<clock, lock, pools, backups, history>>

Claim(r) ==
    /\ run[r].pc = "claim" /\ run[r].ts # clock
    /\ <<run[r].freq, clock>> \notin claims
    /\ claims' = claims \cup {<<run[r].freq, clock>>}
    /\ run' = [run EXCEPT ![r].pc = "check", ![r].ts = clock]
    /\ UNCHANGED <<clock, lock, pools, backups, history>>

(* Faulty variant: only claims are looked at, not finished runs' backups.   *)
UsedNever(r) == FALSE

Used(r) ==
    \/ <<run[r].freq, run[r].ts>> \in pools
    \/ \E b \in backups : /\ b.freq = run[r].freq
                          /\ b.pool = Never \/ b.level = 1
                          /\ b.ts = run[r].ts

CheckClaim(r) ==
    /\ run[r].pc = "check"
    /\ IF Used(r)
       THEN /\ claims' = claims \ {<<run[r].freq, run[r].ts>>}
            /\ Step(r, "claim")
       ELSE /\ run' = [run EXCEPT ![r].left = DB,
                         ![r].pc = IF run[r].mode = "incremental" THEN "pool"
                                   ELSE "backup"]
            /\ UNCHANGED claims
    /\ UNCHANGED <<clock, lock, pools, backups, history>>
-----------------------------------------------------------------------------
(***************************************************************************)
(* incrementalBackupScript: carry on with the newest pool unless there is   *)
(* none, it has expired, or a database's latest level 0 is not the pool's.  *)
(***************************************************************************)
Newest(freq) ==
    IF \E ts \in Time : <<freq, ts>> \in pools
    THEN CHOOSE ts \in Time : /\ <<freq, ts>> \in pools
                              /\ \A other \in Time : <<freq, other>> \in pools => other <= ts
    ELSE Never

Level0(freq, pool, db) == <<freq, pool, db, 0, Never>>

Exists(name) == \E b \in backups : Name(b) = name

(* Faulty variant: the backup history is not looked at.                     *)
StaleNever(r, pool) == FALSE

Stale(r, pool) ==
    \E db \in DB : /\ Exists(Level0(run[r].freq, pool, db))
                   /\ history[db] # Level0(run[r].freq, pool, db)

ChoosePool(r) ==
    /\ run[r].pc = "pool"
    /\ LET pool == Newest(run[r].freq)
           new  == <<run[r].freq, run[r].ts>>
       IN  \/ /\ \/ pool = Never \/ pool < Cutoff(r) \/ Stale(r, pool)
                 \/ "isql" \in Faults /\ \E db \in DB : Exists(Level0(run[r].freq, pool, db))
              /\ new \notin pools
              /\ pools' = pools \cup {new}
              /\ run' = [run EXCEPT ![r].pc = "backup", ![r].pool = run[r].ts]
           \/ /\ pool # Never /\ pool >= Cutoff(r) /\ ~Stale(r, pool)
              /\ run' = [run EXCEPT ![r].pc = "backup", ![r].pool = pool]
              /\ UNCHANGED pools
    /\ UNCHANGED <<clock, lock, claims, backups, history>>

(***************************************************************************)
(* One database's backup.  The server refuses a second nbackup of it at     *)
(* once and a level 1 without any level 0, and needs the pool's directory.  *)
(***************************************************************************)
(* Faulty variant: the run's pool stands for its timestamp.                 *)
NewBackupByPool(r, db) ==
    [freq |-> run[r].freq, pool |-> run[r].pool, db |-> db,
     level |-> 0, ts |-> run[r].pool, base |-> NoRow, ok |-> FALSE]

NewBackup(r, db) ==
    LET level1 == /\ run[r].mode = "incremental"
                  /\ Exists(Level0(run[r].freq, run[r].pool, db))
    IN  [freq |-> run[r].freq, pool |-> run[r].pool, db |-> db,
         level |-> IF level1 THEN 1 ELSE 0, ts |-> run[r].ts,
         base |-> IF level1 THEN history[db] ELSE NoRow, ok |-> FALSE]

Refused(r, db) ==
    \/ Physical(r) /\ \E o \in Runs : Physical(o) /\ \E b \in run[o].busy : b.db = db
    \/ NewBackup(r, db).level = 1 /\ history[db] = NoRow
    \/ run[r].pool # Never /\ <<run[r].freq, run[r].pool>> \notin pools

BeginBackup(r) ==
    /\ run[r].pc = "backup" /\ run[r].busy = {}
    /\ \E db \in run[r].left :
          LET new == NewBackup(r, db)
          IN  /\ ~Refused(r, db)
              /\ backups' = {b \in backups : Name(b) # Name(new)} \cup {new}
              /\ run' = [run EXCEPT ![r].busy = {new}]
    /\ UNCHANGED <<clock, lock, claims, pools, history>>

(* A level 0 that is complete enters the database's history.                *)
Complete(r, b) ==
    /\ backups' = {IF f = b THEN [b EXCEPT !.ok = TRUE] ELSE f : f \in backups}
    /\ history' = IF Physical(r) /\ b.level = 0
                  THEN [history EXCEPT ![b.db] = Name(b)] ELSE history

EndBackup(r) ==
    /\ run[r].pc = "backup"
    /\ \E b \in run[r].busy :
          /\ Complete(r, b)
          /\ run' = [run EXCEPT ![r].busy = {}, ![r].left = @ \ {b.db}]
    /\ UNCHANGED <<clock, lock, claims, pools>>

(* The server ends what a killed run asked for, unless its file is gone.    *)
OrphanEnds(r) ==
    /\ run[r].pc = "failed"
    /\ \E b \in run[r].busy : Complete(r, b)
    /\ run' = [run EXCEPT ![r].busy = {}]
    /\ UNCHANGED <<clock, lock, claims, pools>>

(* set -e: a backup that is refused, or fails halfway, ends the run.        *)
BackupFails(r) ==
    /\ run[r].pc = "backup"
    /\ \/ run[r].busy = {} /\ \E db \in run[r].left : Refused(r, db)
       \/ run[r].busy # {} /\ "error" \in Faults
    /\ Exit(r, "failed")
    /\ UNCHANGED <<clock, pools, backups, history>>

(* Faulty variant: the old pools go before the new one is complete.         *)
BackupsTakenEarly(r) ==
    /\ run[r].pc = "backup" /\ run[r].busy = {}
    /\ run[r].left = {} \/ run[r].mode = "incremental"
    /\ Step(r, IF run[r].mode = "incremental" THEN "pools" ELSE "prune")
    /\ UNCHANGED <<clock, lock, claims, pools, backups, history>>

BackupsTaken(r) ==
    /\ run[r].pc = "backup" /\ run[r].busy = {} /\ run[r].left = {}
    /\ Step(r, IF run[r].mode = "incremental" THEN "pools" ELSE "prune")
    /\ UNCHANGED <<clock, lock, claims, pools, backups, history>>

DeletePools(r) ==
    /\ run[r].pc = "pools"
    /\ pools' = {p \in pools : p[1] = run[r].freq => p[2] = run[r].pool}
    /\ backups' = {b \in backups : b.freq = run[r].freq /\ b.pool # Never
                                     => b.pool = run[r].pool}
    /\ Step(r, "prune")
    /\ UNCHANGED <<clock, lock, claims, history>>
-----------------------------------------------------------------------------
(***************************************************************************)
(* pruneScheduledBackupsScript and, outside mode.incremental,               *)
(* pruneExpiredPoolsScript; then the run is over.                           *)
(***************************************************************************)

(* Faulty variant: prunes one second too many.                              *)
ExpiredEarly(r, ts) == ts <= Cutoff(r)

Expired(r, ts) == ts < Cutoff(r)

Prune(r) ==
    /\ run[r].pc = "prune"
    /\ LET freq == run[r].freq
           goes(p) == run[r].mode # "incremental" /\ Expired(r, p)
       IN  /\ backups' = {b \in backups : b.freq = freq =>
                            IF b.pool = Never THEN ~Expired(r, b.ts) ELSE ~goes(b.pool)}
           /\ pools' = {p \in pools : p[1] = freq => ~goes(p[2])}
           /\ claims' = {c \in claims : c[1] = freq =>
                            ~Expired(r, c[2]) /\ c[2] # run[r].ts}
    /\ lock' = IF lock = r THEN Nobody ELSE lock
    /\ Step(r, "done")
    /\ UNCHANGED <<clock, history>>

Killed(r) ==
    /\ "kill" \in Faults /\ Started(r)
    /\ \/ run' = [run EXCEPT ![r].pc = "failed", ![r].busy = {}]
       \/ "orphan" \in Faults /\ run[r].busy # {} /\ Step(r, "failed")
    /\ lock' = IF lock = r THEN Nobody ELSE lock
    /\ UNCHANGED <<clock, claims, pools, backups, history>>

Restored(db) ==
    /\ "restore" \in Faults /\ history[db] # NoRow
    /\ \A r \in Runs : \A b \in run[r].busy : b.db # db
    /\ history' = [history EXCEPT ![db] = NoRow]
    /\ UNCHANGED <<clock, run, lock, claims, pools, backups>>

Tick ==
    /\ clock < MaxClock
    /\ clock' = clock + 1
    /\ UNCHANGED <<run, lock, claims, pools, backups, history>>

Script(r) ==
    \/ Start(r) \/ Lock(r) \/ Claim(r) \/ CheckClaim(r) \/ ChoosePool(r)
    \/ BeginBackup(r) \/ EndBackup(r) \/ BackupFails(r) \/ BackupsTaken(r)
    \/ DeletePools(r) \/ Prune(r)

Next ==
    \/ Tick
    \/ \E r \in Runs : Script(r) \/ Killed(r) \/ OrphanEnds(r)
    \/ \E db \in DB : Restored(db)

Spec == Init /\ [][Next]_vars
-----------------------------------------------------------------------------
(***************************************************************************)
(* No run ever writes over a finished backup: it may only go as a whole     *)
(* (scheduledBackupUniqueTimestampScript).                                  *)
(***************************************************************************)
NeverOverwrites ==
    [][\A b \in backups : b.ok /\ b \notin backups' =>
           \A new \in backups' : Name(new) # Name(b)]_vars

(***************************************************************************)
(* Two runs under way never share a timestamp of one frequency, so no two   *)
(* runs write the same file (scheduledBackupUniqueTimestampScript).         *)
(***************************************************************************)
Stamped(r) == run[r].pc \in {"check", "pool", "backup", "pools", "prune"}

UniqueTimestamps ==
    \A r, o \in Runs :
        r # o /\ Stamped(r) /\ Stamped(o) /\ run[r].freq = run[o].freq
            => run[r].ts # run[o].ts

(***************************************************************************)
(* Of the physical runs, across every frequency, one at most talks to the   *)
(* server (scheduledBackupLockPath).                                        *)
(***************************************************************************)
OneNbackup ==
    \A r, o \in Runs :
        Physical(r) /\ Physical(o) /\ run[r].pc = "backup" /\ run[o].pc = "backup"
            => r = o

(***************************************************************************)
(* Every level 1 backup can be restored: it is relative to the level 0 of   *)
(* its own pool, which is complete and still there (incrementalBackupScript).*)
(***************************************************************************)
Usable(b) ==
    b.level = 1 => \E z \in backups :
        z.ok /\ z.freq = b.freq /\ z.pool = b.pool /\ Name(z) = b.base

ChainComplete == \A b \in backups : b.ok => Usable(b)

(***************************************************************************)
(* The backups that can be restored are the restore points of               *)
(* RestorePoints: however Jobs overlap, fail or are killed, a point is      *)
(* never altered and goes only by expiry or for a pool that replaces it     *)
(* (incrementalBackupScript, pruneScheduledBackupsScript).                  *)
(***************************************************************************)
Restorable ==
    {[freq |-> b.freq, pool |-> b.pool, db |-> b.db, ts |-> b.ts] :
        b \in {f \in backups : f.ok /\ Usable(f)}}

Promise == INSTANCE RestorePoints WITH now <- clock, points <- Restorable

KeepsRestorePoints == Promise!Spec

(***************************************************************************)
(* What a successful run saved stays restorable until it is older than the  *)
(* retention: there is always a usable backup of each database at least as  *)
(* recent, whichever later runs fail or are killed (DeletePools, Prune).    *)
(***************************************************************************)
KeptUntilExpired ==
    \A r \in Runs : run[r].pc = "done" /\ run[r].ts >= Cutoff(r) =>
        \A db \in DB : \E b \in backups :
            /\ b.freq = run[r].freq /\ b.db = db /\ b.ts >= run[r].ts
            /\ b.ok /\ Usable(b)
=============================================================================
