CONSTANTS
  m1 = m1  m2 = m2  shop = shop  byShop = byShop  byDomain = byDomain
  None = None
  Ids = {m1, m2}
  Senders = {shop}
  Rules = {byShop, byDomain}
  From <- FromDef
  WithFiles = {m1}
  Matches <- All
  Moves <- All
  AddressOf <- AddressOfDef
  Ttl = 1
  Sla = 2
  MuteTime = 1
  MaxTime = 2
  MaxCrashes = 1
SPECIFICATION FairSpec
CHECK_DEADLOCK FALSE
INVARIANTS RowsMatchFiles Searchable RescuedNeverSwept AllowedNotQuarantined RejectedStaysHidden
PROPERTY ExpiredIsSwept
