\* run plugin_loader
CONSTANTS
    a = a
    b = b
    here = here
    there = there
    None = None
    Link = Link
    Partial = Partial
    Runs = {a, b}
    Projects = {here, there}
    Jobs <- AllJobs
    Versions = {1, 2, 3}
    Release <- Releases
    Checkouts <- Clones
    Cached = {3}
    Tagged = {1}
    MaxAttempts = 2
    Faults = {"net", "disk", "nolink", "crash"}
SPECIFICATION FairSpec
CHECK_DEADLOCK FALSE
INVARIANTS
    IInv
    LoadedIsVersion
PROPERTIES
    LockGoesBackOnlyIfStale
    EveryRunEnds
