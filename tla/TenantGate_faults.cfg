SPECIFICATION FairSpec
CONSTANTS
  None = None
  d1 = d1
  d2 = d2
  d3 = d3
  i1 = i1
  i2 = i2
  Devices = {d1, d2}
  Imei <- MCImei
  Own = {d1}
  r1 = r1
  r2 = r2
  Requests = {r1, r2}
  sweep = sweep
  Sweeper = sweep
  SUSPEND_AFTER = 1
  MaxDay = 2
  MaxRequests = 2
  MaxLapses = 2
  MaxAborts = 1
INVARIANT RegistryAgrees
PROPERTY CutOnlyAfterWarning
PROPERTY FleetFollowsBilling
