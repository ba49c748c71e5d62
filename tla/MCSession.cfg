\* Every command line, and then every line of input after every other one.
\* The program and spray itself really stop.
SPECIFICATION FairSpec
CHECK_DEADLOCK FALSE
CONSTANTS
  CommandLines <- MCCommandLines
  Dashed <- MCDashed
  Files <- MCFiles
  MaxSignals = 2
  Lines <- MCLines
  Identifiers <- MCIdentifiers
  Base10 <- MCBase10
  Base16 <- MCBase16
  FileLines <- MCFileLines
  Percent <- MCPercent
  RegisterNames <- MCRegisterNames
  SYM_ALLOC_SIZE = 2
INVARIANTS
  HeldSymbolsFresh
  OnlyWholeCommandsRun
  ArgumentsPassedOn
  OneDebugger
  TablesFound
PROPERTIES
  RepeatsLastTyped
  StartupSettles
