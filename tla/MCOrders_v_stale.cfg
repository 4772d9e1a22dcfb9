CONSTANTS
  None = None
  r1 = r1  r2 = r2  r3 = r3  r4 = r4  o1 = o1
  Calls = {r1, r2, r3, r4}
  OrderIds = {o1}
  Ops <- RaceOps
  Quantity = 2
  MaxInFlight = 2
SPECIFICATION Spec
PROPERTIES PatchesAreValidated
CHECK_DEADLOCK FALSE
