CONSTANTS
  None = None
  t1 = t1  t2 = t2  m1 = m1  m2 = m2  m3 = m3
  Ticks = {t1, t2}
  Ids = {m1, m2}
  Day = 3
  Gap = 2
  Hours = {0, 1}
  MaxSenders = 1
  Threshold = 2
  MaxTime = 2
  MaxCrashes = 1
  MaxLost = 1
SPECIFICATION Spec
SYMMETRY DigestSymmetry
CHECK_DEADLOCK FALSE
INVARIANTS DigestMissesNothing DigestOnce
