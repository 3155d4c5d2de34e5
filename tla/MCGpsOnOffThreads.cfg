SPECIFICATION Spec
CONSTANTS
  RepeatCount = 2
  SrcRepeatCount = 1
  Timeout = 1
  MaxRequests = 2
  Preempt = TRUE
INVARIANTS TypeOK NotForgotten RetryBudget NoEarlyFailure LatestRequestWins
