CONSTANTS
  NONE = NONE
  ALL = ALL
  s1 = s1  s2 = s2
  Keys <- OneBox
  Boxes <- TwoBoxes
  Senders = {s1, s2}
  Ops = {"change", "allow"}
  MaxPersons = 2
  MaxOps = 2
  MaxFaults = 1
SPECIFICATION PocketSpec
SYMMETRY SenderSymmetry
CHECK_DEADLOCK FALSE
INVARIANTS OwnMailShown HiddenComesBack
