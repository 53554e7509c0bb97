SPECIFICATION Spec
CONSTANTS
  A = A
  B = B
  C = C
  web = web
  api = api
  db = db
  aws = aws
  v1 <- V11
  v2 <- V21
  Deployers = {A, B}
  Apps = {web, api}
  Deps = {db}
  Plugins = {aws}
  Values <- MCValues
  Fields = {"app", "deployment"}
  Contents = {1, 2}
  Absent = Absent
  NoOne = NoOne
  Config <- BDropsWeb
  Targets <- NoTargets
  Skips <- NoTargets
  SkipAllApps = {}
  Needs <- MCNeeds
  PluginOf <- MCPluginOf
  Verify <- NoVerify
  InitialStates <- FromV1
  Faults = {}
INVARIANT DiffApplies
CHECK_DEADLOCK FALSE
