SPECIFICATION Spec
CONSTANTS
  RepeatCount = 2
  Timeout = 1
  RefreshPeriod = 1
  MaxEvents = 2
  MaxAnswers = 2
  Recorded = TRUE
INVARIANTS AskedToTheEnd ConfirmedWasHeld
