CONSTANTS
  None = None
  t1 = t1  t2 = t2  r1 = r1  r2 = r2
  Ticks = {t1, t2}
  Requests = {r1}
  MaxMsgs = 2
  MaxGrants = 2
  MaxCrashes = 1
SPECIFICATION Spec
SYMMETRY TickSymmetry
CHECK_DEADLOCK FALSE
INVARIANTS NothingSkipped IngestedOnce ReconnectHolds
