CONSTANTS
  None = None
  c1 = c1  c2 = c2  t1 = t1  t2 = t2  m1 = m1  m2 = m2
  Clients = {c1}
  DefaultUrl = "default"
  EnvUrl = "default"
  Urls = {"default"}
  BadUrls = {}
  Users = {}
  MaxOps = 0
  Tabs = {t1, t2}
  Messages = {m1}
  Orderable = {m1}
  Importable = {m1}
  Lidded = {m1}
  MaxUses = 1
SPECIFICATION Spec
INVARIANT WaitsForClick
CHECK_DEADLOCK FALSE
