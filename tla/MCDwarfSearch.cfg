\* Searches of an intact and of a damaged file, with one failure for lack of
\* memory anywhere.
SPECIFICATION FairSpec
CONSTANTS
  NInfo = 2
  NUnits = 3
  NEntries = 8
  UnitOf <- MCUnitOf
  Level <- MCLevel
  Wanted <- MCWanted
  MaxFailures = 1
  Damages <- MCDamages
INVARIANTS
  TypeOK
  AnswerLeavesStart
  HandlesHeld
  AbsentLeaksOnlyTypes
  OpenedFilesAnswer
PROPERTIES
  VisitsInOrder
  RefinesEntrySearch
  SearchReturns
