SPECIFICATION Spec
CONSTANTS
  w1 = w1
  w2 = w2
  c1 = c1
  c2 = c2
  Workers = {w1, w2}
  Channels = {c1, c2}
  NumFixes = 3
  BatchSize = 2
  Cooldown = 2
  NumSpells = 2
  MaxTries = 2
  MaxKinds = 2
  MaxLate = 1
  MaxFails = 1
  MaxRedis = 1
  MaxSends = 2
  MaxHandoffs = 2
  MaxCrashes = 1
SYMMETRY Sym
 
INVARIANT AlertsDoNotRepeat
INVARIANT Told
CHECK_DEADLOCK FALSE
