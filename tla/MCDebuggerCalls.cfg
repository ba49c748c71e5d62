SPECIFICATION Spec
CONSTANTS
  Programs <- MCBehindProgram
  MaxWinch = 0
  MaxOther = 0
  MayBeKilled = FALSE
  Locations <- MCLocations
  StepLimit = 5
PROPERTIES
  NextStaysOutOfCalls
