SPECIFICATION Spec
CONSTANTS
  N = 3
  Size = 2
  Scopes <- GroupsFirst
  Original <- GapInside
  None = None
  Branches = 3
  Children <- SecondDoubles
  StoreFails = TRUE
INVARIANTS DeclaredOrder MembersAsCommitted
CHECK_DEADLOCK FALSE
