---------------------------- MODULE RestorePoints ----------------------------
(***************************************************************************)
(* What scheduled backups promise, without Jobs, locks, claims or files: a  *)
(* set of points each database can be restored to.  A point never changes.  *)
(* It goes only once its frequency's retention is over, counted for a pool  *)
(* of incremental backups from the pool's start, or when another pool of    *)
(* its frequency can restore its database to a time no earlier.             *)
(***************************************************************************)
EXTENDS Integers

CONSTANTS
    DB,        \* databases
    Freqs,     \* frequencies
    Retention, \* how long each frequency keeps its backups
    MaxClock   \* bound on time

VARIABLES
    now,    \* the time
    points  \* the points: [freq, pool, db, ts], pool being -1 outside pools

Alone == -1

Points == [freq : Freqs, pool : {Alone} \cup 0..MaxClock, db : DB, ts : 0..MaxClock]

Init == now = 0 /\ points = {}

Tick ==
    /\ now < MaxClock
    /\ now' = now + 1
    /\ UNCHANGED points

Save ==
    /\ \E p \in points' \ points : /\ p \in Points /\ p.ts <= now
                                  /\ points' = points \cup {p}
    /\ UNCHANGED now

ExpiredFiles(f) ==
    {p \in points : p.freq = f /\ p.pool = Alone /\ p.ts < now - Retention[f]}

ExpiredPools(f) ==
    {p \in points : p.freq = f /\ p.pool # Alone /\ p.pool < now - Retention[f]}

Expire ==
    /\ \E f \in Freqs :
          \/ points' = points \ ExpiredFiles(f)
          \/ points' = points \ (ExpiredFiles(f) \cup ExpiredPools(f))
    /\ UNCHANGED now

Replace ==
    /\ \E f \in Freqs, pool \in 0..MaxClock :
          LET old == {p \in points : p.freq = f /\ p.pool \notin {Alone, pool}}
          IN  /\ \A o \in old : \E p \in points :
                    p.freq = f /\ p.pool = pool /\ p.db = o.db /\ p.ts >= o.ts
              /\ points' = points \ old
    /\ UNCHANGED now

Next == Tick \/ Save \/ Replace \/ Expire

Spec == Init /\ [][Next]_<<now, points>>
=============================================================================
