CONSTANTS
  home = home  other = other  a1 = a1
  contact = contact  friend = friend  owner = owner  spare = spare
  None = None
  Sessions = {s1, s2}
  Mail <- Replies
  Homes = {home, other}
  Aliases = {a1}
  Emails = {contact, friend, owner, spare}
  Databases <- ForwardOnly
  ForwardMax = 1
  ReplyMax = 1
  BoxRows = 1
  TargetRows = 3
  MaxRcpts = 1
  MaxTries = 1
  MaxEdits = 1
SPECIFICATION FairSpec
CHECK_DEADLOCK FALSE
INVARIANTS RepliesBounded OutboundOnlyAsAsked
PROPERTY EveryMessageAnswered
