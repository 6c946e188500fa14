------------------------ MODULE MCInstanceReconciler ------------------------
(* Small instances of InstanceReconciler for TLC.                          *)
EXTENDS InstanceReconciler, TLC

CONSTANTS d1, d2

(* 3.0.14, 4.0.3 and 4.0.5.                                                *)
V3  == 30
V4  == 40
V4b == 41

MCMajorOf == [v \in Versions \cup {NoVersion} |-> v \div 10]

OneDB  == {d1}
TwoDBs == {d1, d2}

Names == Permutations(TwoDBs)

Upgradable  == {V3, V4}
AllVersions == {V3, V4, V4b}

SpecOf(v, b) == [version |-> v, backup |-> b, backupOnDelete |-> TRUE, dbs |-> {d1}]

TwoBackedUp  == {[SpecOf(V3, TRUE) EXCEPT !.dbs = {d1, d2}]}
OldBackedUp  == {SpecOf(V3, TRUE)}
OldOrNew     == {SpecOf(V3, TRUE), SpecOf(V4, TRUE)}
AnyBackup    == {SpecOf(V3, TRUE), SpecOf(V3, FALSE)}
=============================================================================
