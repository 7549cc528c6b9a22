SPECIFICATION Spec
CONSTANTS
  root = root
  a = a
  b = b
  Levels = {a, b}
  Kind <- KeyedAndRename
  Resumable = {a}
  N = 2
  Before <- OneToOne
  PersistEvery = 2
  MayFail = TRUE
  MaxSessions = 2
INVARIANTS ResumeLosesNothing DoneIsComplete
CHECK_DEADLOCK FALSE
