CONSTANTS
  Msgs = {1, 2}
  Boxes = {"b1", "b2"}
  BoxOf <- TwoOfOne
  Matching = {1}
  NONE = NONE
  MaxOps = 3
  MaxFaults = 1
  MaxCalls = 2
SPECIFICATION MCWebmailSpec
CHECK_DEADLOCK FALSE
INVARIANTS ListIsTrue NobodySkipped
