SPECIFICATION FairSpec
CONSTANTS
  k1 = k1
  k2 = k2
  NoKey = NoKey
  Keys = {k1, k2}
  Key <- TwoAlike
  Count = 4
  Window = 2
  Max = 1
  MayFail = TRUE
INVARIANTS WindowIsBounded NothingVanishes ResultsAreEarned
PROPERTIES IsSequential StageSettles
CHECK_DEADLOCK FALSE
