SPECIFICATION Spec
CONSTANTS
  None = None
  NumCmds = 4
  Writes = {1, 3}
  Once = {}
  MaxAttempts = 3
  MaxKinds = 2
  MaxLate = 0
  MaxDrops = 0
  MaxRefusals = 0
  MaxAborts = 0
  MaxCrashes = 0
INVARIANT RunsOnce
INVARIANT AckedIsAnswered
 
CHECK_DEADLOCK FALSE
