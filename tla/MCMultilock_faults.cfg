SPECIFICATION FairSpec
CONSTANTS
  A = A
  B = B
  C = C
  web = web
  api = api
  db = db
  aws = aws
  v1 <- V11
  v2 <- V21
  Deployers = {A, B}
  Apps = {web, api}
  Deps = {db}
  Plugins = {aws}
  Values <- MCValues
  Fields = {"app", "deployment"}
  Contents = {1, 2}
  Absent = Absent
  NoOne = NoOne
  Config <- BDropsWeb
  Targets <- NoTargets
  Skips <- ASkipsApi
  SkipAllApps = {}
  Needs <- MCNeeds
  PluginOf <- MCPluginOf
  Verify <- AVerifies
  InitialStates <- FromV1WithOrWithoutWeb
  Faults = {"read", "acquire", "prepare", "plan", "apply", "decode", "save",
            "release", "timeout", "crash"}
CHECK_DEADLOCK FALSE
INVARIANTS IInv ApplyUnderLock LocksReturned
PROPERTIES SavesOnlyItsDiff RelockAsksMore EveryRunEnds ImplementsStateFile
