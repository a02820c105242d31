\* Every kind of call, the ill-formed ones included.
CONSTANTS
  a = a
  b = b
  c = c
  empty = empty
  EmptyText = empty
  NoText = NoText
  Comma = Comma
  Texts <- ShapeTexts
  Requests <- AnyRequests
  Parsed <- ShapeLists
  IntMin <- MCIntMin
  MaxItems = 4
SPECIFICATION Spec
INVARIANTS TypeOK CommaDiscipline LoopPosition
PROPERTIES CommaInFrontFromNothing RefusalChangesNothing CallReturns
\* a program that has ended stops
CHECK_DEADLOCK FALSE
