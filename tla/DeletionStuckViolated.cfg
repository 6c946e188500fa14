SPECIFICATION FairSpec
CONSTANTS
  d1 = d1
  d2 = d2
  DB <- OneDB
  Versions <- Upgradable
  MajorOf <- MCMajorOf
  Shadow = FALSE
  Scheduled = FALSE
  Specs <- OldBackedUp
  Edits = {}
  Faults = {}
  MaxCreates = 1
  MaxEdits = 1
  MaxErrors = 1
  MaxWrites = 1
PROPERTIES
  DeletionCompletes
CHECK_DEADLOCK FALSE
