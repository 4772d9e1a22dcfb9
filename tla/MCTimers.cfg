SPECIFICATION TimersSpec
CONSTANTS
  None = None
  r1 = r1  r2 = r2  r3 = r3  r4 = r4  o1 = o1
  Calls = {r1, r2, r3}
  OrderIds = {o1}
  Ops <- PatchOps
  Quantity = 2
  MaxInFlight = 1
  Polls = {l1, l2}
  Clicks = {k1}
  Sockets = {c1, c2}
  Nothing = Nothing
INVARIANTS TimersTypeOK
PROPERTIES FollowsWorkflow PageCatchesUp GoneAreDropped StationComesBack
CHECK_DEADLOCK FALSE
