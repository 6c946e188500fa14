------------------------- MODULE MCSecurityDatabase -------------------------
(* A small instance of SecurityDatabase for TLC: Firebird 3, 4 and 5.       *)
EXTENDS SecurityDatabase

CONSTANT u1

MCMajors == {3, 4, 5}
=============================================================================
