SPECIFICATION FairSpec
CONSTANTS
  A = A
  B = B
  C = C
  web = web
  api = api
  db = db
  aws = aws
  v1 = v1
  v2 = v2
  Deployers = {A, B, C}
  Apps = {web, api}
  Deps = {db}
  Plugins = {aws}
  Values = {v1, v2}
  Absent = Absent
  NoOne = NoOne
  Config <- NoApi
  Targets <- NoTargets3
  Skips <- NoTargets3
  SkipAllApps = {B}
  Needs <- MCNeeds
  PluginOf <- MCPluginOf
  Verify <- NoVerify3
  Locking = {A, C}
  Statuses = {B}
  InitialStates <- FromEmptyOrFailedDb
  Faults = {"read", "decode", "build", "check", "plan", "apply", "save", "release", "crash"}
CHECK_DEADLOCK FALSE
INVARIANT OneLockedRun
PROPERTIES StatusWritesBack EveryRunEnds
