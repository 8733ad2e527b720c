SPECIFICATION Spec
CONSTANTS
  Ids <- MCIds
  Periods <- MCPeriods
  Second = 2
  MaxBusy = 3
  MaxTime = 16
  None = None
INVARIANTS
  TypeOK
  NeverForgotten
PROPERTIES
  StampsAreTrue
CHECK_DEADLOCK FALSE
