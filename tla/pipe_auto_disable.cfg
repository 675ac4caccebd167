SPECIFICATION Spec
CONSTANTS
  Values = {1, 2}
  Changing <- SomeSlots
  Colors = {red, blue}
  s1 = s1
  s2 = s2
  s3 = s3
  plain = plain
  tiled = tiled
  Surfaces = {s1, s2, s3}
  Levels = {plain, tiled}
  LevelOf <- MCLevelOf
  TsLevels <- MCTsLevels
  MsaaLevels <- MCMsaaLevels
  ManyTemps = {1}
  Reset = Reset
  Clobbered = Clobbered
  MaxCalls = 4
  Practices <- NoPractices
SYMMETRY Symmetry
INVARIANT AutoDisableRestored
CHECK_DEADLOCK FALSE
