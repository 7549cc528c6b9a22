SPECIFICATION ToolSpec
CONSTANTS
  Overhead = 1
  Marker = 1
  MinChars = 2
  KeepLast = 1
  KeepHead = 1
  KeepTail = 1
  WindowSize = 4
  SummarySizes = {2}
  SystemSize = 2
  PrefixSize = 1
  Slack = 2
  Safety = 1
  Texts <- ThreeWords
  Settings <- SomeSettings
  Talks <- SomeTalks
INVARIANTS ProtectedSurvive LongestRecentPart ChunksAreTheText NoCallTooMany ChunksAreSentWhole
CHECK_DEADLOCK FALSE
