SPECIFICATION Spec
CONSTANTS
  d1 = d1
  d2 = d2
  DB <- OneDB
  Versions <- Upgradable
  MajorOf <- MCMajorOf
  Shadow = FALSE
  Scheduled = FALSE
  Specs <- OldBackedUp
  Edits = {"version"}
  Faults = {"restoringWrite", "earlyDelete"}
  MaxCreates = 1
  MaxEdits = 1
  MaxErrors = 0
  MaxWrites = 2
INVARIANTS
  NoDataLost
CHECK_DEADLOCK FALSE
