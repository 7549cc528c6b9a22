SPECIFICATION Spec
CONSTANTS
  t1 = t1
  t2 = t2
  main = main
  topic = topic
  HEAD = HEAD
  Targets = {t1, t2}
  Main = main
  Topic = topic
  Detached = HEAD
  Asked <- FirstAsksForMain
  MaxWork = 2
  MaxRuns = 2
INVARIANTS CommittedIsKept SilentMeansMerged
PROPERTY SharedBranchesGrow
CHECK_DEADLOCK FALSE
