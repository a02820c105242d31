\* Several items are removed in one call, in any order.
CONSTANTS
  a = a
  b = b
  c = c
  empty = empty
  EmptyText = empty
  NoText = NoText
  Comma = Comma
  Texts <- ThreeTexts
  Requests <- DistinctRequests
  Parsed <- DistinctLists
  IntMin <- MCIntMin
  MaxItems = 4
SPECIFICATION Spec
INVARIANT RemovalTakesGivenPositions
\* a program that has ended stops
CHECK_DEADLOCK FALSE
