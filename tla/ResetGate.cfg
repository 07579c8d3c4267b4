CONSTANTS
  Apps = {1, 2}
  Pinnable = {1}
  Cache = Cache
  Origin = Origin
  Proxy = Proxy
  Services = {Cache, Proxy, Origin}
  Restarted <- AllButOrigin
  MaxRuns = 3
SPECIFICATION Spec
INVARIANTS ResidueOnlyUnseen UnlikeRecordsHaveAGap
CHECK_DEADLOCK FALSE
