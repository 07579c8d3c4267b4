CONSTANTS
  Apps = {1, 2}
  Wall = 3
  PollInterval = 1
  Grace = 1
  StartTime = 1
  LogTime = 1
  Keep = FALSE
  MaxRuns = 2
SPECIFICATION FairSpec
INVARIANTS OverrunBounded CompletedIsWhole NoStrangerScans ScanFailureIsRecorded
PROPERTY EveryRunEnds
CHECK_DEADLOCK FALSE
