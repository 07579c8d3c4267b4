CONSTANTS
  None = None
  h1 = h1
  h2 = h2
  Hosts = {h1}
  LookupEnabled = TRUE
  LookupQueueMax = 1
  TelemetryMax = 1
  BatchSize = 1
  HintTtl = 2
  JoinsExpire = FALSE
  MaxObservations = 2
  MaxHints = 1
  MaxClock = 2
SPECIFICATION FairSpec
PROPERTIES ReportsLeave
CHECK_DEADLOCK FALSE
