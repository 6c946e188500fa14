SPECIFICATION Spec
CONSTANTS
  d1 = d1
  d2 = d2
  r1 = r1
  r2 = r2
  r3 = r3
  DB <- Two
  Freqs <- HourDay
  Configs <- PoolConfigs
  Retention <- OneSecond
  Runs <- ThreeRuns
  Faults = {"error", "kill", "restore", "isql"}
  MaxClock = 3
SYMMETRY Symmetry
INVARIANTS
  TypeOK
  OneNbackup
  ChainComplete
  KeptUntilExpired
PROPERTIES
  KeepsRestorePoints
CHECK_DEADLOCK FALSE
