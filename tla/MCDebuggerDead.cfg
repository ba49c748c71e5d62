SPECIFICATION Spec
CONSTANTS
  Programs <- MCCallProgram
  MaxWinch = 0
  MaxOther = 0
  MayBeKilled = FALSE
  Locations <- MCLocations
  StepLimit = 5
INVARIANTS
  NeverAborts
