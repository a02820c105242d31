\* A binding is set! under the name of an attribute.
CONSTANTS
  a = a
  b = b
  c = c
  v = v
  Comma = Comma
  Keys <- ThreeKeys
  Values <- MCValues
  Requests <- MCRequests
  Parsed <- DistinctTargets
  IntMin <- MCIntMin
  MaxItems = 4
SPECIFICATION Spec
PROPERTIES NamedIsReplaced
\* a crashed or exited program stops
CHECK_DEADLOCK FALSE
