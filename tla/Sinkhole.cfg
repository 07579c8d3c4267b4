CONSTANTS
  None = None
  h1 = h1
  h2 = h2
  Hosts = {h1}
  LookupEnabled = TRUE
  LookupQueueMax = 1
  TelemetryMax = 1
  BatchSize = 2
  HintTtl = 2
  JoinsExpire = TRUE
  MaxObservations = 2
  MaxHints = 2
  MaxClock = 3
SPECIFICATION Spec
INVARIANTS EachReportedOnce NoHintSkipped EarlyHintJoins
PROPERTIES ConfidenceNeverDrops
CHECK_DEADLOCK FALSE
