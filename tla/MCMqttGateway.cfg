CONSTANTS
  None = None
  c1 = c1  c2 = c2  c3 = c3  c4 = c4  u1 = u1
  Clients = {c1, c2, c3, c4}
  DefaultUrl = "default"
  EnvUrl = "env"
  Urls = {"default", "env", "other", "bad"}
  BadUrls = {"bad"}
  Users = {u1}
  MaxOps = 3
SYMMETRY Symmetric
SPECIFICATION GatewaySpec
INVARIANTS GatewayTypeOK OneLiveClient ConnectedIsReal DisconnectHolds OperatorsBroker FileIsCurrent
CHECK_DEADLOCK FALSE
