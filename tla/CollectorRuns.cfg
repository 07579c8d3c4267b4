CONSTANTS
  None = None
  c1 = c1
  c2 = c2
  a1 = a1
  a2 = a2
  Callers = {c1, c2}
  Readers = {}
  Apps = {a1, a2}
  QueueMax = 1
  WriteBatch = 1
  MaxEventsPerBatch = 2
  PageLimit = 1
  RawBatches <- SingleEvents
  CommitErrors <- Refused
  MaxRuns = 2
  MaxEvents = 1
  MaxReceived = 1
SPECIFICATION Spec
SYMMETRY Symmetry
INVARIANTS TypeOK OneActiveRow PointerAgrees AddressesKept
PROPERTIES SealedIsFinal
