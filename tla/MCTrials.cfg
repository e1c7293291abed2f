CONSTANTS
  None = None
  t1 = t1  t2 = t2
  Ticks = {t1, t2}
  TrialLen = 2
  Lead = 1
  MaxTime = 2
  MaxOwners = 2
  MaxCrashes = 1
  MaxLost = 1
  Tries = 3
  MaxFaults = 1
  MaxCalls = 2
  MaxVisits = 2
  MaxSignIns = 1
  MaxPayments = 1
SPECIFICATION TrialsFair
CHECK_DEADLOCK FALSE
INVARIANTS RemindedOnce VerifiedByLink
PROPERTIES EndedNoticed WallFalls
