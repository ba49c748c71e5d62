SPECIFICATION Spec
CONSTANTS
  Programs <- MCPieProgram
  MaxWinch = 0
  MaxOther = 0
  MayBeKilled = FALSE
  Locations <- MCLocations
  StepLimit = 5
PROPERTIES
  NextStopsAtNextLine
