CONSTANTS
  Window = 3
  Safety = 1
  WindowCredits = 3
  StudyCredits = 6
  StudyRequests = 4
  MaxTime = 8
SPECIFICATION FairSpec
INVARIANTS WindowHeld BudgetHeld SleepsAreEnough
PROPERTY CallsEnd
CHECK_DEADLOCK FALSE
