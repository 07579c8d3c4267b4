CONSTANTS
  None = None
  c1 = c1
  c2 = c2
  w1 = w1
  w2 = w2
  Callers = {c1, c2}
  Workers = {w1, w2}
  QueueMax = 2
  BatchMax = 2
  Attempts = 2
  Inherited <- NoneOrOne
  RaceAfterFork = FALSE
  MaxMade <- TwoAndOne
  MaxFlushes = 1
SPECIFICATION Spec
SYMMETRY Symmetry
INVARIANTS RecordsAccounted NoOvertaking FlushMeansLeft StrandedOnlyInGap InheritedStaysBehind

CHECK_DEADLOCK FALSE
