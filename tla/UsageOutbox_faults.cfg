SPECIFICATION FairSpec
CONSTANTS
  None = None
  small = small
  large = large
  flat = flat
  Prices = {small, large, flat}
  Included <- MCIncluded
  Window = 2
  Dedup = 2
  MaxTick = 5
  MaxDevices = 2
  MaxGrowth = 2
  MaxChanges = 2
  MaxAborts = 1
INVARIANT MeterMatchesLog
 
PROPERTY NothingOwedIsLost
CHECK_DEADLOCK FALSE
