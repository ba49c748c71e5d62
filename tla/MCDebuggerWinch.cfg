SPECIFICATION Spec
CONSTANTS
  Programs <- MCCallProgram
  MaxWinch = 1
  MaxOther = 0
  MayBeKilled = FALSE
  Locations <- MCLocations
  StepLimit = 5
PROPERTIES
  NoBreakpointMissed
