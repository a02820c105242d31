\* Every path, cut into calls in every way.
CONSTANTS
  Tree <- MCTree
  Texts <- MCTexts
  Kind <- MCKind
  Filters <- MCFilters
  Paths <- MCPaths_
  IntMin <- MCIntMin
SPECIFICATION Spec
INVARIANTS TypeOK
PROPERTIES ReachesNode NeverAstray NullFromIndex Survives FilterAgrees BulkAgrees OnlyEntryValuesRetyped
\* a read may end the process
CHECK_DEADLOCK FALSE
