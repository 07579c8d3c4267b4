CONSTANTS
  q1 = q1
  q2 = q2
  q3 = q3
  plain = plain
  internal = internal
  Queries = {q1, q2, q3}
  Names = {plain, internal}
  Internal = {internal}
  Servers = 2
  Slots = 2
  PositiveTtl = 2
  NegativeTtl = 1
  CacheMax = 0
SPECIFICATION Spec
SYMMETRY Symmetry
INVARIANTS AnswersInTime NoSlotIdle
PROPERTY LooksUpOnlyUnknown
