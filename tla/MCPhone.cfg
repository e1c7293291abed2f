CONSTANTS
  MaxSignIns = 2
  MaxTokens = 2
  MaxFailed = 1
  MaxStarts = 1
  MaxCalls = 2
  MaxNotes = 1
SPECIFICATION PhoneSpec
CHECK_DEADLOCK FALSE
INVARIANTS QuietAfterSignOut NotificationsStayOn StaysSignedOut
