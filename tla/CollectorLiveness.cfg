CONSTANTS
  None = None
  c1 = c1
  c2 = c2
  x1 = x1
  Callers = {c1, c2}
  Readers = {x1}
  Apps = {}
  QueueMax = 1
  WriteBatch = 2
  MaxEventsPerBatch = 2
  PageLimit = 1
  RawBatches <- SingleEvents
  CommitErrors <- Refused
  MaxRuns = 2
  MaxEvents = 1
  MaxReceived = 1
SPECIFICATION FairSpec
PROPERTIES CallsReturn EventsSettle
