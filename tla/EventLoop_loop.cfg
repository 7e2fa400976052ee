CONSTANTS
  root = root
  a = a
  b = b
  Repos = {root, a, b}
  Root = root
  MaxThreads = 1
  Lists <- MCLists
  OptionSets <- DryRuns
  LoopOptionSets <- EachLoopOption
  Inputs = {"terminal"}
  Broken = Broken
  Interval = 1
  RescanInterval = 1
  MaxChanges = 1
SPECIFICATION LoopSpec
INVARIANTS
  NobodyAfterExit
PROPERTIES
  ListStableDuringScan
  StopsEventually
  ScansRecur
  NewReposAreListed
