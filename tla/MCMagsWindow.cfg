SPECIFICATION BoardSpec
CONSTANTS
  Window = 6
  Busy = 1
  Idle = 2
  PerTick = 2
  MaxRecords = 15
  Second = 2
  MaxDamage = 1
  MaxSilent = 1
INVARIANTS WindowsInOrder NeverTorn WindowTakenInTime WholeSentenceRecorded StatusIsRecent
\* A sentence that is cut short may end the program.
CHECK_DEADLOCK FALSE
