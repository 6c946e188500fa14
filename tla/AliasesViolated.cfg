SPECIFICATION FairSpec
CONSTANTS
  d1 = d1
  d2 = d2
  v1 = v1
  v2 = v2
  p1 = p1
  p2 = p2
  g1 = g1
  g2 = g2
  g3 = g3
  g4 = g4
  DB = {d1, d2}
  Versions = {v1, v2}
  Unstartable = {}
  Passwords = {p1, p2}
  Generated = {g1, g2, g3, g4}
  Specs <- MCSpecs
  Faults = {}
  MaxEdits = 1
  MaxErrors = 0
  MaxRestarts = 0
PROPERTIES
  AliasesFollow
CHECK_DEADLOCK FALSE
