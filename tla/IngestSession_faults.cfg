SPECIFICATION FairSpec
CONSTANTS
  None = None
  s1 = s1
  s2 = s2
  d1 = d1
  Socks = {s1, s2}
  Ids = {d1}
  MaxPackets = 2
  Poison = {2}
  MaxKinds = 2
  MaxSurges = 1
  MaxResponses = 2
  MaxNoise = 1
  MaxErrors = 1
  MaxRefusals = 1
  MaxHangups = 1
  MaxRetires = 2
  MaxCrashes = 1
INVARIANT DiscardedIsDurable
 
INVARIANT ChunksBounded
INVARIANT OneLiveSession
 
PROPERTY AllDelivered
CHECK_DEADLOCK FALSE
