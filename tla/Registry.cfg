CONSTANTS
  None = None
  h1 = h1
  h2 = h2
  i1 = i1
  i2 = i2
  i3 = i3
  w1 = w1
  w2 = w2
  Ids = {i1, i2, i3}
  Named = {i1}
  Hosts = {h1, h2}
  Related <- SameHost
  Waiters = {w1, w2}
  MaxEntries = 2
  Ttls <- ShortAndLong
  MaxClock = 3
  MaxRegistered = 3
SPECIFICATION Spec
SYMMETRY Symmetry
INVARIANTS HintsAccounted NoLostWakeup
PROPERTY LiveHintsStay
