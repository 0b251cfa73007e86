SPECIFICATION FairSpec
CONSTANTS
  None = None
  w1 = w1
  w2 = w2
  k1 = k1
  Workers = {w1, w2}
  Key = {k1}
  MaxEntries = 2
  BatchSize = 1
  MaxLen = 1
  MaxStalls = 0
  MaxCrashes = 1
  MaxFaults = 1
  MaxRefusals = 1
PROPERTY EveryEntrySettles
CHECK_DEADLOCK FALSE
