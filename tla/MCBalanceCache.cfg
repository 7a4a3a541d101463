SPECIFICATION CacheFairSpec
CONSTANTS
  Charges = {c1, c2}
  Workers = {w1, w2}
  Absent = Absent
  QueueSize = 1
  Balance0 = 2
  Points0 = 1
  MaxTopUps = 2
INVARIANTS
  CacheTypeOK
  CacheTracksBalance
PROPERTY
  StaleBalanceEnds
CHECK_DEADLOCK FALSE
