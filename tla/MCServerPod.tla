----------------------------- MODULE MCServerPod -----------------------------
(* Small instances of ServerPod for TLC: two releases of one major.  The    *)
(* releases, and the databases, are interchangeable, so one of each to      *)
(* start with is enough.                                                    *)
EXTENDS ServerPod

CONSTANTS d1, d2, v1, v2, p1, p2, g1, g2, g3, g4

MCSpecs == [version : {v1}, ref : BOOLEAN, dbs : {{d1}, {d1, d2}}]
=============================================================================
