SPECIFICATION Spec
CONSTANTS
  None = None
  w1 = w1
  w2 = w2
  k1 = k1
  Workers = {w1, w2}
  Key = {k1}
  MaxEntries = 2
  BatchSize = 2
  MaxLen = 1
  MaxStalls = 1
  MaxCrashes = 1
  MaxFaults = 1
  MaxRefusals = 0
SYMMETRY Sym
INVARIANT TypeOK
INVARIANT AckedIsSettled
 
 
PROPERTY KeepsLedger
CHECK_DEADLOCK FALSE
