SPECIFICATION Spec
CONSTANTS
  Day = 2
  Stale = 2
  SendPeriod = 1
  Poll = 1
  Reconnect = 2
  Setup = 1
  MaxTime = 5
  Offsets <- Stepped
  WrongDays <- WrongDay
  MaxUpsets = 1
INVARIANTS NoFrozenPosition
\* The run ends at MaxTime.
CHECK_DEADLOCK FALSE
