SPECIFICATION Spec
CONSTANTS
  d1 = d1
  d2 = d2
  DB <- TwoDBs
  Versions <- Upgradable
  MajorOf <- MCMajorOf
  Shadow = FALSE
  Scheduled = TRUE
  Specs <- AnyBackup
  Edits = {"version", "addDatabase"}
  Faults = {"error", "evict", "earlyEdit"}
  MaxCreates = 1
  MaxEdits = 2
  MaxErrors = 0
  MaxWrites = 2
INVARIANTS
  TypeOK
  BackupQuiesced
  BackupByWriter
  BackupHasVolume
  ScheduleHasDirectory
  ReadyServesAll
PROPERTIES
  FinishedMeansRestored
  KeepsCustody
CHECK_DEADLOCK FALSE
