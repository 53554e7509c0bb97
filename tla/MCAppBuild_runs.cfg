SPECIFICATION FairSpec
CONSTANTS
    r1 = r1
    r2 = r2
    dev = dev
    prod = prod
    api = api
    img = img
    fn = fn
    web = web
    Runs = {r1, r2}
    Envs = {dev, prod}
    Apps = {api, img, fn, web}
    Services = {api, img}
    Functions = {fn}
    SkipsBuild = {img}
    Custom = {img}
    Commands = {fn, web}
    Archives = {fn}
    Options <- MCOptions
    Interrupted = {r1}
    Concurrency = 1
    Faults = {"command", "line"}
CHECK_DEADLOCK FALSE
INVARIANTS Artifacts
PROPERTIES BuildsEnd
