CONSTANTS
  IntMax = 33554431
  UIntMax = 67108863
  LongBits = 30
  NumeralValue <- Numerals
  PathKeys <- SlashedKeys
  Cores = 9
  Covers <- Globs
  Printed <- Reprints
  BaseZero <- Octals
  MutantStates <- States
  Scenarios <- Reloads
  FileEdits <- Changes
  DiskEdits <- Trees
  MaxEdits = 2
SPECIFICATION Spec
INVARIANT ForcedIsConfirmed
