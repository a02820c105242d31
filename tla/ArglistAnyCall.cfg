\* Every kind of call, the ill-formed ones included.
CONSTANTS
  a = a
  b = b
  c = c
  v = v
  Comma = Comma
  Keys <- ThreeKeys
  Values <- MCValues
  Requests <- MCRequests
  Parsed <- DistinctTargets
  IntMin <- MCIntMin
  MaxItems = 4
SPECIFICATION Spec
INVARIANTS TypeOK CommaDiscipline SpliceIsContiguous
PROPERTIES FailureLosesNothing CallReturns ImplementsItemList
\* a crashed or exited program stops
CHECK_DEADLOCK FALSE
