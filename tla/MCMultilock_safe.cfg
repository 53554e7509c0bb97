SPECIFICATION FairSpec
CONSTANTS
  A = A
  B = B
  C = C
  web = web
  api = api
  db = db
  aws = aws
  v1 <- V11
  v2 <- V21
  Deployers = {A, B, C}
  Apps = {web, api}
  Deps = {db}
  Plugins = {aws}
  Values <- MCValues
  Fields = {"app", "deployment"}
  Contents = {1, 2}
  Absent = Absent
  NoOne = NoOne
  Config <- PartsDiffer
  Targets <- AWebCApi
  Skips <- NoTargets3
  SkipAllApps = {}
  Needs <- MCNeeds
  PluginOf <- MCPluginOf
  Verify <- NoVerify3
  InitialStates <- FromEmptyOrV1
  Faults = {}
CHECK_DEADLOCK FALSE
INVARIANTS ExclusiveApply RecordMatchesCloud
PROPERTY NoForeignSave
