CONSTANTS
  None = None
  Accts = {1, 2}
  Exempt = {1}
  r1 = r1  r2 = r2
  Reqs = {r1, r2}
  TrialLen = 1
  MinCarry = 0
  MaxTime = 1
  MaxOwners = 2
  MaxAsked = 2
  MaxSubs = 2
  MaxEvents = 4
  MaxCrashes = 1
SPECIFICATION Spec
SYMMETRY RequestSymmetry
CHECK_DEADLOCK FALSE
INVARIANTS SettledIsStripe NoEarlyCharge DeletedNotCharged

