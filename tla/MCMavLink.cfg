SPECIFICATION FairSpec
CONSTANTS
  MaxByte = 4
  Senders = {logger, gps}
  logger = logger
  gps = gps
  Kinds = {"com", "tcp"}
  Lengths = {1, 2}
  Cuts = {0, 7, 20}
  MaxMessages = 3
  MaxFailures = 1
CHECK_DEADLOCK FALSE
INVARIANTS DamageIsLocal
PROPERTIES IsFifo SendersReturn QueueMoves BoardServed
