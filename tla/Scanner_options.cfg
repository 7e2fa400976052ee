CONSTANTS
  a = a
  b = b
  c = c
  Repos = {a, b}
  MaxThreads = 2
  Lists <- UniqueLists
  OptionSets <- EveryOption
SPECIFICATION Spec
INVARIANTS
  SkippedAreNotPulled
PROPERTIES
  EveryRepoIsRevisited
