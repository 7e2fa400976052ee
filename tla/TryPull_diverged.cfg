CONSTANTS
  MaxCommits = 3
  MaxEdits = 2
  MaxCalls = 2
SPECIFICATION Spec
CHECK_DEADLOCK FALSE
PROPERTY OnlyFastForwards
