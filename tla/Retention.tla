------------------------------ MODULE Retention ------------------------------
(***************************************************************************)
(* spec.backup.retention: what a value such as "3d" or "1m" means to the    *)
(* reconciler (parseRetention, enabled), to the shell script that prunes    *)
(* (dateAgo, pruneScheduledBackupsScript) and to the API server's rule, and *)
(* which backups of one frequency are on the volume as its CronJob keeps    *)
(* running over months and leap years.                                      *)
(*                                                                          *)
(* Time is counted in minutes, in the proleptic Gregorian calendar and UTC. *)
(* A value is its digits and its unit; a timestamp is its digits.           *)
(***************************************************************************)
EXTENDS Integers, Sequences

CONSTANTS
    Configs,     \* <<frequency, retention>> pairs, a retention being [digits, unit]
    Starts,      \* when the Instance is created
    Durations,   \* how long a run may take
    MaxRuns,     \* bound on runs
    MaxFailures  \* bound on failed runs

Frequencies == {"hour", "day", "week", "month", "year"}
Units == {"h", "d", "w", "m", "y"}
Hour  == 60
Day   == 24 * Hour
NoUnit == ""
Unset == [digits |-> <<>>, unit |-> NoUnit]
Never == -1

(***************************************************************************)
(* The pattern of RetentionSpec's fields, and a Job's active deadline.      *)
(***************************************************************************)
ASSUME RetentionAssumption ==
    /\ \A c \in Configs :
          /\ c = <<c[1], c[2]>> /\ c[1] \in Frequencies
          /\ c[2] # Unset => /\ c[2].unit \in Units
                             /\ Len(c[2].digits) \in 1..15
                             /\ \A i \in 1..Len(c[2].digits) : c[2].digits[i] \in 0..9
    /\ Starts \subseteq Nat
    /\ Durations \subseteq 0..(6 * Hour)
    /\ MaxRuns \in Nat /\ MaxFailures \in Nat

VARIABLES
    freq,    \* the frequency
    value,   \* its retention
    now,     \* the time
    due,     \* when its CronJob is next due
    run,     \* when the run under way started, or Never
    kept,    \* the start times of the backups in its directory
    pruned,  \* when it was last pruned, or Never
    last,    \* when the last successful run started, or Never
    recent,  \* ghost: the successful runs the retention still covers
    runs,    \* runs so far
    failures \* failed runs so far

vars == <<freq, value, now, due, run, kept, pruned, last, recent, runs, failures>>
-----------------------------------------------------------------------------
(***************************************************************************)
(* parseRetention (with strconv.Atoi), enabled, and the API server's view   *)
(* of whether a frequency is enabled (the rule on BackupSpec).              *)
(***************************************************************************)
Atoi(digits) ==
    LET upTo[i \in 0..Len(digits)] ==
            IF i = 0 THEN 0 ELSE 10 * upTo[i - 1] + digits[i]
    IN  upTo[Len(digits)]

ParseRetention(v) ==
    IF v = Unset THEN [amount |-> 0, unit |-> NoUnit]
    ELSE [amount |-> Atoi(v.digits), unit |-> v.unit]

(* Faulty variant: any value switches its frequency on.                     *)
EnabledIfSet(d) == d.unit # NoUnit

Enabled(d) == d.amount > 0

CountsAsEnabled(v) == \E i \in 1..Len(v.digits) : v.digits[i] \in 1..9
-----------------------------------------------------------------------------
(***************************************************************************)
(* The calendar.  Day 1 is Monday, 1 January of year 1; a long retention    *)
(* reaches back to years before it.                                         *)
(***************************************************************************)
Leap(y) == y % 4 = 0 /\ (y % 100 = 0 => y % 400 = 0)

DaysBefore(y, m) ==
    <<0, 31, 59, 90, 120, 151, 181, 212, 243, 273, 304, 334>>[m]
        + IF m > 2 /\ Leap(y) THEN 1 ELSE 0

DayNumber(y, m, d) ==
    LET z == y - 1
    IN  365 * z + z \div 4 - z \div 100 + z \div 400 + DaysBefore(y, m) + d

Civil(n) ==
    LET years == (n \div 366)..(n \div 365 + 1) \cup (n \div 365)..(n \div 366 + 1)
        y == CHOOSE y \in years :
                DayNumber(y, 1, 1) <= n /\ n < DayNumber(y + 1, 1, 1)
        m == CHOOSE m \in 1..12 : /\ DayNumber(y, m, 1) <= n
                                  /\ m < 12 => n < DayNumber(y, m + 1, 1)
    IN  [y |-> y, m |-> m, d |-> n - DayNumber(y, m, 1) + 1]

(***************************************************************************)
(* dateAgo under GNU date: hours, days and weeks are exact; months and      *)
(* years keep the day of the month and let it run over into the next month  *)
(* when the month is too short.                                             *)
(***************************************************************************)
MonthsAgo(n, t) ==
    LET c == Civil(t \div Day)
        k == 12 * c.y + c.m - 1 - n
    IN  (DayNumber(k \div 12, (k % 12) + 1, 1) + c.d - 1) * Day + (t % Day)

(* Faulty variant: "m" taken for minutes.                                   *)
DateAgoMinutes(d, t) ==
    CASE d.unit = "h" -> t - d.amount * Hour
      [] d.unit = "d" -> t - d.amount * Day
      [] d.unit = "w" -> t - d.amount * 7 * Day
      [] d.unit = "m" -> t - d.amount
      [] OTHER        -> MonthsAgo(12 * d.amount, t)

DateAgo(d, t) ==
    CASE d.unit = "h" -> t - d.amount * Hour
      [] d.unit = "d" -> t - d.amount * Day
      [] d.unit = "w" -> t - d.amount * 7 * Day
      [] d.unit = "m" -> MonthsAgo(d.amount, t)
      [] OTHER        -> MonthsAgo(12 * d.amount, t)

(***************************************************************************)
(* scheduledBackupTimestampDate: fixed width, most significant first, so    *)
(* that expr's comparison of strings compares times.                        *)
(***************************************************************************)
Two(n) == <<n \div 10, n % 10>>

(* Faulty variant: months and days without their leading zero (%-m, %-d).   *)
StampUnpadded(t) ==
    LET c == Civil(t \div Day)
        short(n) == IF n < 10 THEN <<n>> ELSE Two(n)
    IN  Two(c.y \div 100) \o Two(c.y % 100) \o short(c.m) \o short(c.d)
            \o Two((t % Day) \div Hour) \o Two(t % Hour)

Stamp(t) ==
    LET c == Civil(t \div Day)
    IN  Two(c.y \div 100) \o Two(c.y % 100) \o Two(c.m) \o Two(c.d)
            \o Two((t % Day) \div Hour) \o Two(t % Hour)

Less(s, u) ==
    \E i \in 1..Len(u) :
        /\ \A j \in 1..(i - 1) : j <= Len(s) /\ s[j] = u[j]
        /\ i > Len(s) \/ (i <= Len(s) /\ s[i] < u[i])

(* Faulty variant: every so often instead of at fixed times (@every).       *)
NextDueEvery(f, t) ==
    CASE f = "hour"  -> t + Hour
      [] f = "day"   -> t + Day
      [] f = "week"  -> t + 7 * Day
      [] f = "month" -> t + 30 * Day
      [] OTHER       -> t + 365 * Day

(* backupFrequencies: when a schedule is next due after t.                  *)
NextDue(f, t) ==
    LET n == t \div Day
        c == Civil(n)
    IN  CASE f = "hour"  -> (t \div Hour + 1) * Hour
          [] f = "day"   -> (n + 1) * Day
          [] f = "week"  -> (n + 7 - (n % 7)) * Day
          [] f = "month" -> (IF c.m = 12 THEN DayNumber(c.y + 1, 1, 1)
                             ELSE DayNumber(c.y, c.m + 1, 1)) * Day
          [] OTHER       -> DayNumber(c.y + 1, 1, 1) * Day
(***************************************************************************)
(* The shortest and the longest time a retention stands for: months have    *)
(* 28 to 31 days, n of them in a row at least 30n - 2.                      *)
(***************************************************************************)
Shortest(d) ==
    CASE d.unit = "h" -> d.amount * Hour
      [] d.unit = "d" -> d.amount * Day
      [] d.unit = "w" -> d.amount * 7 * Day
      [] d.unit = "m" -> (d.amount * 30 - 2) * Day
      [] OTHER        -> d.amount * 365 * Day

Longest(d) ==
    CASE d.unit \in {"h", "d", "w"} -> Shortest(d)
      [] d.unit = "m" -> d.amount * 31 * Day
      [] OTHER        -> d.amount * 366 * Day
-----------------------------------------------------------------------------
Init ==
    /\ \E c \in Configs : freq = c[1] /\ value = c[2]
    /\ now \in Starts
    /\ due = NextDue(freq, now)
    /\ run = Never /\ pruned = Never /\ last = Never
    /\ kept = {} /\ recent = {} /\ runs = 0 /\ failures = 0

(* Every variable keeps its type.                                           *)
TypeOK ==
    /\ <<freq, value>> \in Configs
    /\ now \in Nat
    /\ due \in Nat /\ due % Hour = 0
    /\ {run, pruned, last} \subseteq Nat \cup {Never}
    /\ kept \subseteq Nat /\ recent \subseteq Nat
    /\ runs \in 0..MaxRuns /\ failures \in 0..MaxFailures

(***************************************************************************)
(* One run at a time (ConcurrencyPolicy Forbid): a run that comes due while *)
(* another one is under way starts when that one ends.                      *)
(***************************************************************************)
StartRun ==
    /\ Enabled(ParseRetention(value))
    /\ run = Never /\ runs < MaxRuns
    /\ runs' = runs + 1
    /\ run' = IF due > now THEN due ELSE now
    /\ now' = run'
    /\ due' = NextDue(freq, run')
    /\ UNCHANGED <<freq, value, kept, pruned, last, recent, failures>>

(***************************************************************************)
(* A run that took its backup prunes, counting back from the time it does   *)
(* (pruneScheduledBackupsScript).                                           *)
(***************************************************************************)
Pruned(files, t) ==
    LET cutoff == Stamp(DateAgo(ParseRetention(value), t))
    IN  {f \in files : ~Less(Stamp(f), cutoff)}

FinishRun ==
    /\ run # Never
    /\ \E d \in Durations : now' = run + d
    /\ kept' = Pruned(kept \cup {run}, now')
    /\ pruned' = now' /\ last' = run
    /\ recent' = {t \in recent \cup {run} : now' - t <= Shortest(ParseRetention(value))}
    /\ run' = Never
    /\ UNCHANGED <<freq, value, due, runs, failures>>

(* Faulty variant: a failed run prunes too.                                 *)
FailRunPruning ==
    /\ run # Never /\ failures < MaxFailures
    /\ \E d \in Durations : now' = run + d
    /\ failures' = failures + 1
    /\ kept' = Pruned(kept, now')
    /\ run' = Never
    /\ UNCHANGED <<freq, value, due, pruned, last, recent, runs>>

(* set -e: a run whose backup fails ends before it prunes.                  *)
FailRun ==
    /\ run # Never /\ failures < MaxFailures
    /\ \E d \in Durations : now' = run + d
    /\ failures' = failures + 1
    /\ run' = Never
    /\ UNCHANGED <<freq, value, due, kept, pruned, last, recent, runs>>

Next == StartRun \/ FinishRun \/ FailRun

Spec == Init /\ [][Next]_vars
-----------------------------------------------------------------------------
(***************************************************************************)
(* The reconciler creates a CronJob for exactly the values the API server's *)
(* rule counts as enabled, leading zeros included: with mode.incremental,   *)
(* which allows one frequency, no second one ever runs (parseRetention,     *)
(* BackupSpec's rule).                                                      *)
(***************************************************************************)
EnabledAgree == Enabled(ParseRetention(value)) <=> CountsAsEnabled(value)

(***************************************************************************)
(* No prune, now or earlier, has deleted a backup that is still younger     *)
(* than the retention's shortest reading, over month ends, leap days and    *)
(* year ends (dateAgo, pruneScheduledBackupsScript).                        *)
(***************************************************************************)
KeptLongEnough ==
    \A t \in recent : now - t <= Shortest(ParseRetention(value)) => t \in kept

(***************************************************************************)
(* The volume does not fill up: after a prune no backup is older than the   *)
(* retention's longest reading (pruneScheduledBackupsScript).               *)
(***************************************************************************)
KeptNoLonger ==
    \A t \in kept : pruned - t <= Longest(ParseRetention(value))

(***************************************************************************)
(* A successful run's own backup is there until the next one succeeds,      *)
(* however late that is and however many runs fail in between, unless the   *)
(* run took longer than the whole retention: pruning counts back from its   *)
(* own time and comes only after a backup (pruneScheduledBackupsScript).    *)
(***************************************************************************)
LatestKept ==
    pruned - last <= Shortest(ParseRetention(value)) => last \in kept \/ last = Never
=============================================================================
