SPECIFICATION Spec
CONSTANTS
  d1 = d1
  d2 = d2
  DB <- OneDB
  Versions <- Upgradable
  MajorOf <- MCMajorOf
  Shadow = FALSE
  Scheduled = FALSE
  Specs <- OldOrNew
  Edits = {"version"}
  Faults = {"error", "partialRestore", "silentSql", "staleCache", "earlyEdit", "earlyDelete", "earlyCreate"}
  MaxCreates = 2
  MaxEdits = 1
  MaxErrors = 0
  MaxWrites = 0
INVARIANTS
  OneEngine
CHECK_DEADLOCK FALSE
