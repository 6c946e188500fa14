SPECIFICATION Spec
CONSTANTS
  d1 = d1
  d2 = d2
  DB <- TwoDBs
  Versions <- Upgradable
  MajorOf <- MCMajorOf
  Shadow = TRUE
  Scheduled = FALSE
  Specs <- TwoBackedUp
  Edits = {"version", "backupOnDelete", "dropDatabase"}
  Faults = {"error", "evict", "earlyEdit", "earlyDelete"}
  MaxCreates = 2
  MaxEdits = 2
  MaxErrors = 0
  MaxWrites = 1
SYMMETRY Names
INVARIANTS
  NoDataLost
  BackupFindsRequested
PROPERTIES
  KeepsCustody
CHECK_DEADLOCK FALSE
