SPECIFICATION Spec
CONSTANTS
  A = A
  B = B
  C = C
  web = web
  api = api
  db = db
  aws = aws
  v1 = v1
  v2 = v2
  Deployers = {A, B, C}
  Apps = {web, api}
  Deps = {db}
  Plugins = {aws}
  Values = {v1, v2}
  Absent = Absent
  NoOne = NoOne
  Config <- AllUpdate
  Targets <- AWebCApi
  Skips <- NoTargets3
  SkipAllApps = {}
  Needs <- MCNeeds
  PluginOf <- MCPluginOf
  Verify <- AVerifies3
  Locking = {A, B, C}
  Statuses = {}
  InitialStates <- FromEmptyOrV1
  Faults = {"read", "decode", "build", "check", "plan", "release"}
CHECK_DEADLOCK FALSE
INVARIANTS IInv LockReturned RecordMatchesCloud
PROPERTIES NoLostSave ImplementsStateFile
