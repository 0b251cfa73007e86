SPECIFICATION Spec
CONSTANTS
  None = None
  w1 = w1
  w2 = w2
  Workers = {w1, w2}
  NumFixes = 6
  Lag = 2
  BatchSize = 4
  Streak = 2
  MaxKinds = 2
  MaxOdd = 1
  MaxFails = 2
  MaxLosses = 1
  MaxEdits = 2
  MaxHandoffs = 2
  MaxCrashes = 1
SYMMETRY Sym
INVARIANT SideIsRecorded
INVARIANT OneRowPerCrossing
INVARIANT EventsAlternate
INVARIANT CrossingNoticed
 
CHECK_DEADLOCK FALSE
