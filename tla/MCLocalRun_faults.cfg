\* run local_run
CONSTANTS
    web = web
    api = api
    db = db
    p = p
    q = q
    AppIds = {web, api}
    DepIds = {db}
    Plugins = {p, q}
    ListenPort = 1
    Projects <- AllProjects
    Faults = {"hosts", "start", "mute", "empty", "exit", "stream", "odd", "listen"}
SPECIFICATION FairSpec
CHECK_DEADLOCK FALSE
INVARIANTS IInv GroupErrorsAreReal FailureStopsStart
PROPERTIES HostsRestored EndsUnlessStuck
