SPECIFICATION FairSpec
CONSTANTS
  u1 = u1
  Users = {u1}
  Majors <- MCMajors
  TornFinal = FALSE
  MaxLives = 3
  MaxEdits = 2
  MaxKills = 2
INVARIANTS
  TypeOK
  ServesAccounts
  ServesWhole
  AccountsSafe
PROPERTIES
  ServerStarts
CHECK_DEADLOCK FALSE
