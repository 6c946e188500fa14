SPECIFICATION FairSpec
CONSTANTS
  d1 = d1
  d2 = d2
  DB <- TwoDBs
  Versions <- AllVersions
  MajorOf <- MCMajorOf
  Shadow = TRUE
  Scheduled = TRUE
  Specs <- OldBackedUp
  Edits = {"version", "addDatabase", "dropDatabase"}
  Faults = {"statusLag", "earlyDelete"}
  MaxCreates = 2
  MaxEdits = 2
  MaxErrors = 2
  MaxWrites = 0
PROPERTIES
  UpgradeCompletes
  Converges
  DeletionEnds
CHECK_DEADLOCK FALSE
