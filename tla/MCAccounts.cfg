CONSTANTS
  n1 = n1  n2 = n2  e1 = e1  e2 = e2  s1 = s1  s2 = s2  r1 = r1  r2 = r2
  None = None  Operator = Operator
  Names = {n1, n2}
  Emails = {e1, e2}
  Secrets = {s1, s2}
  Requests = {r1, r2}
  MaxUsers = 2
  MaxAliases = 1
  MaxOps = 6
SPECIFICATION Spec
SYMMETRY AccountsSymmetry
CHECK_DEADLOCK FALSE
INVARIANTS AddressHeldOnce NothingOfAnother SeedIsConfirmed
