CONSTANTS
  None = None
  FalsyStation = FalsyStation
  c1 = c1  c2 = c2  c3 = c3
  k1 = k1  k2 = k2
  s1 = s1  s2 = s2
  i1 = i1  i2 = i2
  Calls = {c1, c2}
  Carriers = {k1, k2}
  Stations = {s1, s2}
  Idents = {i1, i2}
  Requests <- MCRequests
  Arrivals = {k1}
  ById <- MCById
  ByName <- MCByName
  ByDigits <- MCByDigits
  Resource <- MCResource
  Par <- MCPar
  AsyncReads = FALSE
  WritesMayFail = TRUE
  Fields = {"xDone"}
  MaxDisturbances = 1
  MaxMoves = 2
SPECIFICATION Spec
INVARIANTS TypeOK AckFromOwnStation
PROPERTIES WritesContiguous LockSafety
CHECK_DEADLOCK FALSE
SYMMETRY Symmetric
