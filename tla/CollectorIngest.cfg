CONSTANTS
  None = None
  c1 = c1
  Callers = {c1}
  Readers = {}
  Apps = {}
  QueueMax = 2
  WriteBatch = 2
  MaxEventsPerBatch = 2
  PageLimit = 1
  RawBatches <- MixedBatches
  CommitErrors <- Refused
  MaxRuns = 2
  MaxEvents = 3
  MaxReceived = 4
SPECIFICATION Spec
INVARIANTS SeqFollowsArrival EventAccounted IntakeReconciles
PROPERTIES ImplementsRunLog
