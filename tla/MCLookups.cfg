\* Every layout.
SPECIFICATION Spec
CONSTANTS
  Programs <- MCPrograms
  LineNumbers = {1, 2, 3, 4, 5, 6, 7, 8}
INVARIANTS
  BreaksBehindPrologue
  BreaksInFile
  ExactMeansRow
  NextSeesFunction
