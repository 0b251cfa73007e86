SPECIFICATION Spec
CONSTANTS
  None = None
  w1 = w1
  w2 = w2
  c1 = c1
  c2 = c2
  Workers = {w1, w2}
  Slots = {c1, c2}
  MaxStalls = 1
  MaxFaults = 0
  MaxTimeouts = 0
  MaxDrains = 0
  MaxCrashes = 0
  MaxKinds = 1
INVARIANT OwnedIsServed
