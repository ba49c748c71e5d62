\* One set command at any moment, and any number of prints and backtraces.
SPECIFICATION FairSpec
CONSTANTS
  BYTE = 6
  WORD = 2
  Programs <- MCPrograms
  Names <- MCNames
  Numbers <- MCNumbers
  Places = {10, 23}
  Registers = {"rbp", "cs"}
  Filters = {"dec", "deref"}
  Protected = {"cs"}
  MaxSets = 1
  MaxFrames = 5
INVARIANTS
  OwnVariableFirst
  ConfirmTrue
  BacktraceTrue
PROPERTIES
  SetThenShow
  WideSetsKeepNeighbours
  PointeeShown
  BacktraceReturns
