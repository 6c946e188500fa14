---------------------------- MODULE DataCustody ----------------------------
(***************************************************************************)
(* What Kubebird promises about an Instance's data, without reconciles,     *)
(* pods, volumes or files: everything clients wrote is in the storage that  *)
(* serves them or in the backup volume, and each stage of an upgrade or a   *)
(* deletion may only begin once the data is where that stage needs it.      *)
(***************************************************************************)
EXTENDS FiniteSets

CONSTANT DB

VARIABLES
    stage,  \* what the Instance is doing
    asked,  \* databases its spec asks for
    owed,   \* databases that hold something a client wrote
    served, \* those whose last write is in the storage in use
    saved   \* those whose last write is in the backup volume

files   == <<owed, served, saved>>
custody == <<stage, asked, files>>

Nothing == owed' = {} /\ served' = {} /\ saved' = {}

Init == stage = "Gone" /\ asked = {} /\ owed = {} /\ served = {} /\ saved = {}

(* Users may ask for other databases at any time.                           *)
Ask ==
    /\ stage \notin {"Gone", "Deleting"}
    /\ asked' \subseteq DB
    /\ UNCHANGED <<stage, files>>

(* A write makes what the backup volume holds of that database old.         *)
Write ==
    /\ stage \notin {"Gone", "Releasing"}
    /\ \E db \in DB : /\ owed' = owed \cup {db}
                      /\ served' = served \cup {db}
                      /\ saved' = saved \ {db}
    /\ UNCHANGED <<stage, asked>>

(* A database its user no longer asks for is dropped.                       *)
Drop ==
    /\ stage \in {"Serving", "Restoring", "Deleting"}
    /\ \E db \in DB : /\ owed' = owed \ {db}
                      /\ served' = served \ {db}
                      /\ saved' = saved \ {db}
    /\ UNCHANGED <<stage, asked>>

(* A backup, one that fails too, may damage only what it can take again.    *)
BackUp ==
    /\ stage \in {"BackingUp", "Deleting"}
    /\ saved' \subseteq owed
    /\ saved' \ saved \subseteq served
    /\ saved \ saved' \subseteq served
    /\ UNCHANGED <<stage, asked, owed, served>>

(* Storage is let go only once all of it is saved.                          *)
Release ==
    /\ stage \in {"Releasing", "Deleting"}
    /\ owed \subseteq saved
    /\ served' = {}
    /\ UNCHANGED <<stage, asked, owed, saved>>

(* A deletion nobody asked a backup of.                                     *)
Discard == stage = "Deleting" /\ Nothing /\ UNCHANGED <<stage, asked>>

(* The last reconcile before a deletion may still be restoring.             *)
Restore ==
    /\ stage \in {"Serving", "Restoring", "Deleting"}
    /\ served \subseteq served'
    /\ served' \subseteq served \cup saved
    /\ UNCHANGED <<stage, asked, owed, saved>>

(* An Instance without a backup volume starts from nothing.                 *)
Create ==
    /\ stage = "Gone" /\ stage' = "Serving" /\ asked' \subseteq DB
    /\ Nothing \/ UNCHANGED files

Vanish ==
    /\ stage \in {"Serving", "Deleting"} /\ stage' = "Gone" /\ asked' = {}
    /\ owed \subseteq saved /\ served = {}
    /\ UNCHANGED files

Allowed(from, to) ==
    \/ from = "Serving"   /\ to = "BackingUp"
    \/ from = "BackingUp" /\ to = "Releasing" /\ owed \subseteq saved
    \/ from = "Releasing" /\ to = "Restoring" /\ served = {}
    \/ from = "Restoring" /\ to = "Serving"   /\ owed \cap asked \subseteq served
    \/ from # "Gone"      /\ to = "Deleting"

Advance == Allowed(stage, stage') /\ UNCHANGED <<asked, files>>

Next == \/ Ask \/ Write \/ Drop \/ BackUp \/ Release \/ Discard \/ Restore
        \/ Create \/ Vanish \/ Advance

Spec == Init /\ [][Next]_custody
=============================================================================
