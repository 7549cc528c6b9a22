SPECIFICATION Spec
CONSTANTS
  k1 = k1
  k2 = k2
  one = one
  two = two
  r1 = r1
  r2 = r2
  a = a
  b = b
  Default = openrouter
  Named = {ollama}
  Specs = {one, two}
  KeysOf <- KeysOfSpec
  Absent = Absent
  NoKey = NoKey
  Vault <- BothKeys
  MaxChanges = 1
  Slots = {r1, r2}
  Clients = {a, b}
  Client <- OwnClient
  Budget = 1
  ClientBudget = 1
  Texts <- FirstTranslates
  MaxDay = 2
  MaxCalls = 2
  MaxBoots = 1
  Streams = TRUE
  Loses = TRUE
INVARIANT LoggedIsBounded
PROPERTIES ReloadKeepsPools RefusedStaysOut
CHECK_DEADLOCK FALSE
