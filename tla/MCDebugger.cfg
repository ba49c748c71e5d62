SPECIFICATION FairSpec
CONSTANTS
  Programs <- MCPrograms
  MaxWinch = 1
  MaxOther = 1
  MayBeKilled = TRUE
  Locations <- MCLocations
  StepLimit = 5
INVARIANTS
  TypeOK
  PromptBreakpointsAreUsers
  PcStaysTrue
PROPERTIES
  MissedOnlyInWinch
  StopsWhereTold
  CommandsAdvance
  NextRunsOneLine
  CommandsReturn
