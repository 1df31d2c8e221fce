SPECIFICATION Spec
CONSTANTS
  client = client
  secret = secret
  v1 = v1
  v2 = v2
  Callers = {c1, c2}
  Empty = Empty
  Keys <- MCKeys
  Lower <- MCLower
  BlankKeys <- MCBlankKeys
  MaxInt64 = 7
  Configs <- MCConfigs
  Options <- MCOptions
  Requests <- MCRequests
  Values <- MCValues
INVARIANTS TypeOK URLIsAsAsked OnlyItsOwnCallback
PROPERTIES BeginReturns ImplementsAtomicBegin
CHECK_DEADLOCK FALSE
