-------------------------- MODULE MCScheduledBackup --------------------------
(* Small instances of ScheduledBackup for TLC.                             *)
EXTENDS ScheduledBackup, TLC

CONSTANTS d1, d2, r1, r2, r3

Two == {d1, d2}
One == {d1}
ThreeRuns == {r1, r2, r3}

HourDay == {"hour", "day"}
OneSecond == [f \in Freqs |-> 1]

(* Hourly incremental backups, and hourly or daily physical ones before or  *)
(* after them.                                                              *)
PoolConfigs == {<<"hour", "incremental">>, <<"hour", "physical">>, <<"day", "physical">>}

(* A frequency switched between logical and physical, next to another one.  *)
FileConfigs == {<<"hour", "logical">>, <<"hour", "physical">>, <<"day", "physical">>}

Symmetry == Permutations(Runs) \cup Permutations(DB)
=============================================================================
