SPECIFICATION Spec
CONSTANTS
  w1 = w1
  w2 = w2
  Workers = {w1, w2}
  NumFixes = 4
  MaxClock = 6
  BatchSize = 2
  Guard = 2
  Margin = 1
  Horizon = 3
  Width = 3
  MaxIdle = 2
  Hour = 1
  MaxKinds = 2
  MaxLate = 1
  MaxFails = 1
  MaxDown = 1
  MaxHandoffs = 1
  MaxCrashes = 1
SYMMETRY Sym
 
 
PROPERTY RebuildReplaces
CHECK_DEADLOCK FALSE
