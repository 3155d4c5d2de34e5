SPECIFICATION FairSpec
CONSTANTS
  RepeatCount = 3
  SrcRepeatCount = 1
  Timeout = 2
  MaxRequests = 2
  Preempt = FALSE
PROPERTIES PromiseKept
