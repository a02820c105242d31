\* A list is emptied with '() and edited again.
CONSTANTS
  a = a
  b = b
  c = c
  empty = empty
  EmptyText = empty
  NoText = NoText
  Comma = Comma
  Texts <- ShapeTexts
  Requests <- AnyRequests
  Parsed <- ShapeLists
  IntMin <- MCIntMin
  MaxItems = 4
SPECIFICATION Spec
INVARIANT ItemEditHasExprList
\* a program that has ended stops
CHECK_DEADLOCK FALSE
