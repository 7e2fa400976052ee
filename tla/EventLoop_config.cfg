CONSTANTS
  root = root
  a = a
  b = b
  Repos = {root, a, b}
  Root = root
  MaxThreads = 1
  Lists <- MCLists
  OptionSets <- DryRuns
  LoopOptionSets <- Reloading
  Inputs = {"terminal", "pipe"}
  Broken = Broken
  Interval = 1
  RescanInterval = 1
  MaxChanges = 1
SPECIFICATION LoopSpec
PROPERTY ConfigApplied
