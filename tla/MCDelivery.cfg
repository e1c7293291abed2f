CONSTANTS
  home = home  other = other  a1 = a1
  contact = contact  friend = friend  owner = owner  spare = spare
  None = None
  Sessions = {s1, s2}
  Mail <- Letters
  Homes = {home, other}
  Aliases = {a1}
  Emails = {contact, friend, owner, spare}
  Databases <- BothAndForward
  ForwardMax = 1
  ReplyMax = 1
  BoxRows = 2
  TargetRows = 1
  MaxRcpts = 2
  MaxTries = 2
  MaxEdits = 1
SPECIFICATION Spec
SYMMETRY SymmetricSessions
CHECK_DEADLOCK FALSE
INVARIANTS TypeOK NoSilentLoss CopiesOnlyByRetry ForwardsBounded
PROPERTY ImplementsCustody
