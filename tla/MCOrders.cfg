CONSTANTS
  None = None
  r1 = r1  r2 = r2  r3 = r3  r4 = r4  o1 = o1
  Calls = {r1, r2, r3}
  OrderIds = {o1}
  Ops <- AllOps
  Quantity = 2
  MaxInFlight = 3
SPECIFICATION FairSpec
INVARIANTS TypeOK StepNeverAhead HandshakeBeforeSave
PROPERTIES DeletedAtRestStaysDeleted RequestsAreAnswered
CHECK_DEADLOCK FALSE
