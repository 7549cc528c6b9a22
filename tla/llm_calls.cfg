SPECIFICATION CallFairSpec
CONSTANTS
  c1 = c1
  c2 = c2
  Calls = {c1, c2}
  CallKeys = {k1, k2}
  NoCallKey = NoCallKey
  Last = 1
  Own <- Pins
  Prompt <- Alike
  Cached = TRUE
  Retries <- OneFix
  Shrinks <- OneShrink
  Fixes <- OneFix
INVARIANT NoModelTwice
PROPERTIES PinMovesFromFailed CallsSettle
CHECK_DEADLOCK FALSE
