CONSTANTS
  None = None
  b1 = b1  b2 = b2
  Boxes = {b1, b2}
  MaxEdits = 2
  MaxPanels = 2
  MaxDrafts = 2
  MaxClicks = 1
  Nil = Nil
  Same = Same
  x = x  y = y  c1 = c1  c2 = c2
  Emails = {x, y}
  Logins = {x}
  Shelves = {c1, c2}
  MaxTargets = 2
  MaxRows = 1
  MaxLinks = 2
  MaxAsked = 4
SPECIFICATION PanelsSpec
SYMMETRY BoxSymmetry
CHECK_DEADLOCK FALSE
INVARIANTS CalmSendIsExact FailureIsTrue ForwardsToConfirmed
PROPERTIES NothingNewerDropped
