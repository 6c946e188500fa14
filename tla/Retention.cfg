SPECIFICATION Spec
CONSTANTS
  Configs <- MCConfigs
  Starts <- MCStarts
  Durations = {2, 200}
  MaxRuns = 34
  MaxFailures = 1
INVARIANTS
  TypeOK
  EnabledAgree
  KeptLongEnough
  KeptNoLonger
  LatestKept
CHECK_DEADLOCK FALSE
