SPECIFICATION Spec
CONSTANTS
  StationIds = {1, 2}
  Sessions = {k1, k2, k3}
  Reloads = {t1, t2}
  Boot = boot
  StoredLists <- MCStoredLists
  DeployEnvs <- MCDeployEnvs
  Legacy = {}
  None = None
  MaxClicks = 4
  Names = {admin, operator}
  Admin = admin
  Operator = operator
  Passwords = {p1, p2}
  DefaultPassword = p1
  Requests = {t1, t2}
  Nobody = Nobody
  AlarmIds = {a1}
  Slots = {t1, t2}
  MqttAlarms = {a1}
  PostBodies <- MCPostBodies
  PatchBodies <- MCPatchBodies
  Absent = Absent
  i1 = i1
  i2 = i2
  n1 = n1
  n2 = n2
  day = day
  t0 = t0
  TableIds <- MCTableIds
  CarrierNames <- MCCarrierNames
  ShiftTypes <- MCShiftTypes
  MachineSlots <- MCMachineSlots
  Imports <- MCImports
  FileRows = 2
SYMMETRY Symmetric
CONSTRAINT MCBound
INVARIANTS
  ServicesTypeOK AckHolds SentWasEmitted PagesShowWhatHappened OnlyRacesDuplicate MarkSurvives
  ImportAccounts OnlyOverlapLeaks ReloadTakesEffect EntriesAreOpen AnswersStayTrue
CHECK_DEADLOCK FALSE
