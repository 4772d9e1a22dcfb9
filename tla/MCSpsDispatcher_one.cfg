CONSTANTS
  None = None
  FalsyStation = s1
  c1 = c1  c2 = c2  c3 = c3
  k1 = k1  k2 = k2
  s1 = s1  s2 = s2
  i1 = i1  i2 = i2
  Calls = {c1, c2}
  Carriers = {k1, k2}
  Stations = {s1}
  Idents = {i1, i2}
  Requests <- MCRequestsOne
  Arrivals = {k1}
  ById <- MCById
  ByName <- MCByName
  ByDigits <- MCByDigits
  Resource <- MCResourceOne
  Par <- MCPar
  AsyncReads = TRUE
  WritesMayFail = FALSE
  Fields = {"xStart", "xDone"}
  MaxDisturbances = 1
  MaxMoves = 1
SPECIFICATION FairSpec
INVARIANTS HandshakeExclusive ListenerOwned
PROPERTIES NeverCutShort ResultsAreFinal DispatchReturns LockFairness
CHECK_DEADLOCK FALSE
