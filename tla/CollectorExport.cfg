CONSTANTS
  None = None
  c1 = c1
  x1 = x1
  Callers = {c1}
  Readers = {x1}
  Apps = {}
  QueueMax = 1
  WriteBatch = 2
  MaxEventsPerBatch = 2
  PageLimit = 1
  RawBatches <- PlainBatches
  CommitErrors <- AnyFailure
  MaxRuns = 2
  MaxEvents = 2
  MaxReceived = 2
SPECIFICATION Spec
INVARIANTS ExportComplete
