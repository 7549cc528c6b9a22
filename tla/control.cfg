SPECIFICATION RunFairSpec
CONSTANTS
  c1 = c1
  c2 = c2
  Calls = {c1, c2}
  Steps = 2
  StepsFail = TRUE
  StoreFails = TRUE
  MaxSessions = 2
INVARIANTS ExecutingMayFinish DoneMeansComplete
PROPERTIES FinishedIsAnnounced EndsOrIsPaused
CHECK_DEADLOCK FALSE
