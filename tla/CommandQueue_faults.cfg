SPECIFICATION FairSpec
CONSTANTS
  None = None
  NumCmds = 2
  Writes = {}
  Once = {2}
  MaxAttempts = 2
  MaxKinds = 1
  MaxLate = 1
  MaxDrops = 2
  MaxRefusals = 1
  MaxAborts = 1
  MaxCrashes = 1
INVARIANT AttemptsBounded
PROPERTY NeverSendsOverdue
PROPERTY TerminalStays
PROPERTY EveryCommandEnds
CHECK_DEADLOCK FALSE
