SPECIFICATION Spec
CONSTANTS
  d1 = d1
  d2 = d2
  r1 = r1
  r2 = r2
  r3 = r3
  DB <- One
  Freqs <- HourDay
  Configs <- FileConfigs
  Retention <- OneSecond
  Runs <- ThreeRuns
  Faults = {"error", "kill", "orphan"}
  MaxClock = 3
SYMMETRY Symmetry
INVARIANTS
  UniqueTimestamps
  KeptUntilExpired
PROPERTIES
  NeverOverwrites
  KeepsRestorePoints
CHECK_DEADLOCK FALSE
