CONSTANTS
  Securities = 16
  AlpacaBatch = 16
  TwelveBatch = 8
  MaxSymbols = 8
  WindowCredits = 8
  StudyCredits = 161
  StudyRequests = 49
  MaxOdd = 2
SPECIFICATION Spec
INVARIANTS PaidAndApproved ExitZeroIsEarned NothingLeftBehind
CHECK_DEADLOCK FALSE
