SPECIFICATION FairSpec
CONSTANTS
  root = root
  a = a
  b = b
  Levels = {root}
  Kind <- AllCommit
  Resumable = {root}
  N = 3
  Before <- SecondDropped
  PersistEvery = 2
  MayFail = TRUE
  MaxSessions = 3
PROPERTIES DeliversAtLeastOnce SessionEnds
CHECK_DEADLOCK FALSE
