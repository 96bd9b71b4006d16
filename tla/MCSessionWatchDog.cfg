SPECIFICATION Spec
CONSTANTS
  Backlog = 6
  MaxUsers = 2
  PingTrial = 3
  Loads <- MCLoads
  Silent = Silent
INVARIANTS
  NoHastyAbort
PROPERTIES
  ShutdownEnds
  HangIsBroken
CHECK_DEADLOCK FALSE
