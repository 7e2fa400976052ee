CONSTANTS
  a = a
  b = b
  c = c
  Repos = {a, b, c}
  MaxThreads = 2
  Lists <- ThreePaths
  OptionSets <- PoolOptions
SPECIFICATION Spec
INVARIANTS
  TypeOK
  OneWorkerPerRepo
  PullingIsOwned
  ScanCoversList
  ScanBoundaries
PROPERTIES
  ImplementsRounds
  PulledIsKept
