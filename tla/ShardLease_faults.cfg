SPECIFICATION FairSpec
CONSTANTS
  None = None
  w1 = w1
  w2 = w2
  c1 = c1
  c2 = c2
  Workers = {w1, w2}
  Slots = {c1, c2}
  MaxStalls = 1
  MaxFaults = 1
  MaxTimeouts = 1
  MaxDrains = 1
  MaxCrashes = 1
  MaxKinds = 2
INVARIANT ExclusiveProcessing
INVARIANT OneLiveLoop
INVARIANT DeadSlotIsCleared
 
