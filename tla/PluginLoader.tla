---------------------------- MODULE PluginLoader ----------------------------
(***************************************************************************)
(* How runs of `ok' find, download and install one plugin: LoadPlugins of  *)
(* pkg/config/project.go, pkg/plugins/loader.go with its downloaders, and  *)
(* `ok plugins update' of pkg/actions/plugins.go.  The cache, the clone    *)
(* of the plugin's repository and the directory a release is unpacked to   *)
(* belong to the user; the installed plugins and the lock file belong to   *)
(* the project.  Nothing locks any of them.                                *)
(***************************************************************************)
EXTENDS Integers, FiniteSets, FiniteSetsExt

CONSTANTS
    Runs, Projects, Versions,
    Jobs,            \* Jobs[r]: pairs of a command and a project for the run r
    Checkouts,       \* the lock and the constraint of each project, at first
    Cached, Tagged,  \* the versions in the cache, and published, at first
    Release,         \* the release of a version: see ReleaseKinds
    MaxAttempts,     \* pluginDownloadMaxAttempts
    Faults,          \* a subset of FaultKinds
    None, Link, Partial

Kinds == {"other", "update", "force", "add"}
ReleaseKinds == {"asset", "source", "missing"}
FaultKinds == {"net", "disk", "nolink", "crash"}

\* What a directory holds: the files of a version, or some files.
Contents == Versions \cup {Partial}

ASSUME LoaderAssumption ==
    /\ Versions \subseteq Nat /\ IsFiniteSet(Versions)
    /\ Jobs \in [Runs -> SUBSET (Kinds \X Projects)]
    /\ Checkouts \subseteq [Projects -> [lock : Versions \cup {None}, allowed : SUBSET Versions]]
    /\ Release \in [Versions -> ReleaseKinds]
    /\ Cached \subseteq Versions /\ Tagged \subseteq Versions
    /\ MaxAttempts \in Nat \ {0} /\ Faults \subseteq FaultKinds
    /\ {None, Link, Partial} \cap Versions = {} /\ Cardinality({None, Link, Partial}) = 3

VARIABLES
    tags,      \* the versions in the plugin's repository
    tree, out, \* what is in the clone, and in the directory of unpacked releases
    cache,     \* the directories of versions in the cache
    inst,      \* the entries for them in a project: a link to the cache, or a copy
    lock,      \* the version in the lock file of a project
    allowed,   \* the constraint in the project's YAML
    job, pc,   \* what a run does, and where it is
    seen,      \* the lock and the constraint a run has read, and the update it wants
    ver, dir,  \* the version it has chosen, and where it takes it from
    attempt,   \* the count of downloadPluginWithRetry
    got,       \* what was in the directory when it was loaded
    disturbed  \* history: two runs were loading at once, or a copy or a removal was cut
               \* short, or a copy was made over itself

files == <<tags, tree, out, cache, inst, lock, allowed>>
local == <<job, seen, ver, dir, attempt, got>>
vars == <<files, pc, local, disturbed>>

Ended == {"done", "failed", "dead"}
Loading == {"installed", "cached", "fetch", "wait", "checkout", "clear", "unpack", "mkdir",
            "copy", "rmout", "remove", "removing", "link", "install", "read"}

TypeOK ==
    /\ tags \subseteq Versions
    /\ tree \in Versions \cup {None} /\ out \in Versions \cup {None}
    /\ cache \in [Versions -> Contents \cup {None}]
    /\ inst \in [Projects -> [Versions -> Contents \cup {None, Link}]]
    /\ lock \in [Projects -> Versions \cup {None}]
    /\ allowed \in [Projects -> SUBSET Versions]
    /\ job \in [Runs -> Kinds \X Projects]
    /\ pc \in [Runs -> Ended \cup Loading \cup {"start", "use", "yaml", "save"}]
    /\ seen \in [Runs -> [lock : Versions \cup {None}, allowed : SUBSET Versions, exact : Versions \cup {None}]]
    /\ ver \in [Runs -> Versions \cup {None}]
    /\ dir \in [Runs -> {"cache", "project"}]
    /\ attempt \in [Runs -> 0..MaxAttempts]
    /\ got \in [Runs -> Contents \cup {None}]
    /\ disturbed \in BOOLEAN

Init ==
    /\ tags = Tagged /\ tree = None /\ out = None
    /\ cache = [v \in Versions |-> IF v \in Cached THEN v ELSE None]
    /\ inst = [p \in Projects |-> [v \in Versions |-> None]]
    /\ \E git \in Checkouts :
        /\ lock = [p \in Projects |-> git[p].lock]
        /\ allowed = [p \in Projects |-> git[p].allowed]
    /\ job \in [Runs -> Kinds \X Projects] /\ \A r \in Runs : job[r] \in Jobs[r]
    /\ pc = [r \in Runs |-> "start"]
    /\ seen = [r \in Runs |-> [lock |-> None, allowed |-> {}, exact |-> None]]
    /\ ver = [r \in Runs |-> None] /\ dir = [r \in Runs |-> "cache"]
    /\ attempt = [r \in Runs |-> 0] /\ got = [r \in Runs |-> None]
    /\ disturbed = FALSE

Kind(r) == job[r][1]
ProjectOf(r) == job[r][2]

At(r, from, to) == pc[r] = from /\ pc' = [pc EXCEPT ![r] = to]

-----------------------------------------------------------------------------
(* Finding a version *)

\* newPluginInfo: a lock that does not fit the constraint is ignored.
LockOf(r) ==
    IF seen[r].exact = None /\ seen[r].lock \in seen[r].allowed THEN seen[r].lock ELSE None

\* Its verConstraint.
Fitting(r) == IF seen[r].exact = None THEN seen[r].allowed ELSE {seen[r].exact}

\* Mutant: a version that is there is preferred to the locked one.
MutChoose(r, S) ==
    IF LockOf(r) \in S THEN LockOf(r)
    ELSE IF S \cap Fitting(r) = {} THEN None ELSE Max(S \cap Fitting(r))

\* pluginInfo.matches over the versions of S: the locked one, or the highest.
Choose(r, S) ==
    IF LockOf(r) # None THEN IF LockOf(r) \in S THEN LockOf(r) ELSE None
    ELSE IF S \cap Fitting(r) = {} THEN None ELSE Max(S \cap Fitting(r))

Disturbs(r) == \E q \in Runs \ {r} : pc[q] \in Loading

\* LoadProjectConfig reads the YAML and the lock file.  A plugin that is being
\* added is in neither, and the version asked for is not made a constraint.
Begin(r) ==
    /\ At(r, "start", "installed")
    /\ seen' = [seen EXCEPT ![r] =
          IF Kind(r) = "add" THEN [lock |-> None, allowed |-> Versions, exact |-> None]
          ELSE [lock |-> lock[ProjectOf(r)], allowed |-> allowed[ProjectOf(r)], exact |-> None]]
    /\ disturbed' = (disturbed \/ Disturbs(r))
    /\ UNCHANGED <<files, job, ver, dir, attempt, got>>

\* findInstalledPluginLocation; links are resolved.
FindInstalled(r) ==
    LET entries == inst[ProjectOf(r)]
        v == Choose(r, {u \in Versions : entries[u] # None})
    IN /\ At(r, "installed", IF v = None THEN "cached" ELSE "read")
       /\ ver' = [ver EXCEPT ![r] = v]
       /\ dir' = [dir EXCEPT ![r] = IF v = None \/ entries[v] = Link THEN "cache" ELSE "project"]
       /\ UNCHANGED <<files, job, seen, attempt, got, disturbed>>

\* findCachedPluginLocation; if there is none the download starts.
FindCached(r) ==
    LET v == Choose(r, {u \in Versions : cache[u] # None})
    IN /\ At(r, "cached", IF v = None THEN "fetch" ELSE "remove")
       /\ ver' = [ver EXCEPT ![r] = v]
       /\ attempt' = [attempt EXCEPT ![r] = IF v = None THEN 1 ELSE 0]
       /\ UNCHANGED <<files, job, seen, dir, got, disturbed>>

-----------------------------------------------------------------------------
(* Downloading it, with retries *)

\* Mutant: the attempts of the first plugin that is downloaded are not counted.
MutFailure(r) ==
    /\ pc' = [pc EXCEPT ![r] = IF seen[r].exact # None THEN "failed" ELSE "wait"]
    /\ UNCHANGED attempt

\* DownloadPlugin fails.  The updates are not tried again.
Failure(r) ==
    IF seen[r].exact # None \/ attempt[r] = MaxAttempts
    THEN pc' = [pc EXCEPT ![r] = "failed"] /\ UNCHANGED attempt
    ELSE /\ pc' = [pc EXCEPT ![r] = "wait"]
         /\ attempt' = [attempt EXCEPT ![r] = @ + 1]

\* The wait before the next attempt, which an interrupt ends.
Wait(r) ==
    /\ \E next \in {"fetch", "failed"} : At(r, "wait", next)
    /\ UNCHANGED <<files, local, disturbed>>

\* VCSDownloader.fetch and matchingVersion: the clone is updated and its tags read.
Fetch(r) ==
    LET v == Choose(r, tags)
    IN /\ At(r, "fetch", "checkout")
       /\ v # None
       /\ ver' = [ver EXCEPT ![r] = v]
       /\ UNCHANGED <<files, job, seen, dir, attempt, got, disturbed>>

\* No version fits, or the network fails here, or later in a download.
FetchFails(r) ==
    /\ \/ pc[r] = "fetch" /\ Choose(r, tags) = None
       \/ pc[r] \in {"fetch", "clear"} /\ "net" \in Faults
    /\ Failure(r)
    /\ UNCHANGED <<files, job, seen, ver, dir, got, disturbed>>

\* Mutant: the clone is checked out only when it is new.
MutCheckout(r) ==
    /\ pc[r] = "checkout"
    /\ tree' = IF tree = None THEN ver[r] ELSE tree
    /\ IF Release[ver[r]] = "missing" THEN Failure(r)
       ELSE /\ pc' = [pc EXCEPT ![r] = IF Release[ver[r]] = "asset" THEN "clear" ELSE "mkdir"]
            /\ UNCHANGED attempt
    /\ UNCHANGED <<tags, out, cache, inst, lock, allowed, job, seen, ver, dir, got, disturbed>>

\* UpdateVersion, then GetReleaseByTag: a tag without a release cannot be loaded,
\* a release without a file for this machine is taken from the clone.
Checkout(r) ==
    /\ pc[r] = "checkout"
    /\ tree' = ver[r]
    /\ IF Release[ver[r]] = "missing" THEN Failure(r)
       ELSE /\ pc' = [pc EXCEPT ![r] = IF Release[ver[r]] = "asset" THEN "clear" ELSE "mkdir"]
            /\ UNCHANGED attempt
    /\ UNCHANGED <<tags, out, cache, inst, lock, allowed, job, seen, ver, dir, got, disturbed>>

ClearOut(r) ==
    /\ At(r, "clear", "unpack")
    /\ out' = None
    /\ UNCHANGED <<tags, tree, cache, inst, lock, allowed, local, disturbed>>

\* archiver.Unarchive does not overwrite.
Unpack(r) ==
    /\ pc[r] = "unpack"
    /\ IF out = None THEN At(r, "unpack", "mkdir") /\ out' = ver[r] /\ UNCHANGED attempt
       ELSE Failure(r) /\ UNCHANGED out
    /\ UNCHANGED <<tags, tree, cache, inst, lock, allowed, job, seen, ver, dir, got, disturbed>>

\* From now on the directory exists under the name of the version.
StartCopy(r) ==
    /\ At(r, "mkdir", "copy")
    /\ cache' = [cache EXCEPT ![ver[r]] = Partial]
    /\ UNCHANGED <<tags, tree, out, inst, lock, allowed, local, disturbed>>

\* The file of the release if there is one, the clone otherwise.
Source(r) == IF Release[ver[r]] = "asset" THEN out ELSE tree

Copy(r) ==
    /\ pc[r] = "copy" /\ Source(r) # None
    /\ At(r, "copy", IF Release[ver[r]] = "asset" THEN "rmout" ELSE "remove")
    /\ cache' = [cache EXCEPT ![ver[r]] = Source(r)]
    /\ UNCHANGED <<tags, tree, out, inst, lock, allowed, local, disturbed>>

\* The source is gone, or the disk is full: what was copied stays.
CopyFails(r) ==
    /\ pc[r] = "copy" /\ (Source(r) = None \/ "disk" \in Faults)
    /\ Failure(r)
    /\ disturbed' = TRUE
    /\ UNCHANGED <<files, job, seen, ver, dir, got>>

RemoveOut(r) ==
    /\ At(r, "rmout", "remove")
    /\ out' = None
    /\ UNCHANGED <<tags, tree, cache, inst, lock, allowed, local, disturbed>>

-----------------------------------------------------------------------------
(* Installing and loading it *)

\* Only what fails after a download is tried again.
LoadingFails(r) ==
    IF attempt[r] = 0 THEN pc' = [pc EXCEPT ![r] = "failed"] /\ UNCHANGED attempt ELSE Failure(r)

\* A directory cannot be made, the source not be removed, the owner of the files not be
\* set, or the plugin's file not be read.
DiskFails(r) ==
    /\ pc[r] \in {"mkdir", "rmout", "remove", "read"} /\ "disk" \in Faults
    /\ LoadingFails(r)
    /\ UNCHANGED <<files, job, seen, ver, dir, got, disturbed>>

Entry(r) == inst[ProjectOf(r)][ver[r]]
SetEntry(r, c) == inst' = [inst EXCEPT ![ProjectOf(r)][ver[r]] = c]

\* installPlugin: the old entry goes, a copy not at once.
RemoveEntry(r) ==
    /\ pc[r] = "remove"
    /\ IF Entry(r) \in Contents THEN At(r, "remove", "removing") /\ SetEntry(r, Partial)
       ELSE At(r, "remove", "link") /\ SetEntry(r, None)
    /\ dir' = [dir EXCEPT ![r] = "cache"]
    /\ UNCHANGED <<tags, tree, out, cache, lock, allowed, job, seen, ver, attempt, got, disturbed>>

\* An error of RemoveAll is ignored.
RemoveCopy(r) ==
    /\ At(r, "removing", "link")
    /\ \/ SetEntry(r, None) /\ UNCHANGED disturbed
       \/ "disk" \in Faults /\ UNCHANGED inst /\ disturbed' = TRUE
    /\ UNCHANGED <<tags, tree, out, cache, lock, allowed, local>>

\* Then a link is made.
MakeLink(r) ==
    /\ At(r, "link", "read")
    /\ Entry(r) = None /\ SetEntry(r, Link)
    /\ UNCHANGED <<tags, tree, out, cache, lock, allowed, local, disturbed>>

\* If that fails, all is copied: over the directory of the cache itself when there is a
\* link, of another run or of this one, which could not set its owner.
StartInstall(r) ==
    /\ At(r, "link", "install")
    /\ Entry(r) = None => "nolink" \in Faults
    /\ \/ Entry(r) # Link /\ SetEntry(r, Partial) /\ UNCHANGED <<cache, disturbed>>
       \/ /\ Entry(r) \notin Contents /\ SetEntry(r, Link) /\ disturbed' = TRUE
          /\ cache' \in {cache, [cache EXCEPT ![ver[r]] = Partial]}
    /\ UNCHANGED <<tags, tree, out, lock, allowed, local>>

Install(r) ==
    /\ At(r, "install", "read")
    /\ Entry(r) # None
    /\ IF Entry(r) = Link THEN UNCHANGED inst ELSE SetEntry(r, cache[ver[r]])
    /\ UNCHANGED <<tags, tree, out, cache, lock, allowed, local, disturbed>>

\* What was copied stays.
InstallFails(r) ==
    /\ pc[r] = "install" /\ (Entry(r) = None \/ "disk" \in Faults)
    /\ LoadingFails(r)
    /\ disturbed' = TRUE
    /\ UNCHANGED <<files, job, seen, ver, dir, got>>

Content(r) == IF dir[r] = "cache" THEN cache[ver[r]] ELSE Entry(r)

\* Loader.loadPlugin: all it needs is plugin.yaml.
Load(r) ==
    /\ pc[r] = "read" /\ Content(r) \in Contents
    /\ At(r, "read", IF seen[r].exact # None THEN "yaml" ELSE "use")
    /\ got' = [got EXCEPT ![r] = Content(r)]
    /\ UNCHANGED <<files, job, seen, ver, dir, attempt, disturbed>>

LoadFails(r) ==
    /\ pc[r] = "read" /\ Content(r) \notin Versions
    /\ LoadingFails(r)
    /\ UNCHANGED <<files, job, seen, ver, dir, got, disturbed>>

-----------------------------------------------------------------------------
(* The command, and the lock file *)

Updating(r) == Kind(r) \in {"update", "force"}

\* MatchingVersion checks that there is a release; --force ignores the constraint.
Newest(r) ==
    LET fit == {v \in tags : Release[v] # "missing" /\ (Kind(r) = "force" \/ v \in seen[r].allowed)}
    IN IF fit = {} THEN None ELSE Max(fit)

\* Mutant: any other version counts as an update.
MutUpdates(r) == Updating(r) /\ Newest(r) \notin {None, ver[r]}

Updates(r) == Updating(r) /\ Newest(r) # None /\ Newest(r) > ver[r]

\* Update downloads exactly the version it has found.
StartUpdate(r) ==
    /\ At(r, "use", "fetch") /\ Updates(r)
    /\ seen' = [seen EXCEPT ![r].exact = Newest(r)]
    /\ attempt' = [attempt EXCEPT ![r] = 1]
    /\ disturbed' = (disturbed \/ Disturbs(r))
    /\ UNCHANGED <<files, job, ver, dir, got>>

\* There is nothing to update, or the command is another one, or the plugin that is added
\* aborts its ProjectInit: then `plugins add' ends as if it had added it.
Use(r) ==
    /\ \E next \in {"save"} \cup (IF Kind(r) = "add" THEN {"yaml"} ELSE {}) : At(r, "use", next)
    /\ ~Updates(r) /\ (Updating(r) => Newest(r) # None)
    /\ UNCHANGED <<files, local, disturbed>>

UseFails(r) ==
    /\ "net" \in Faults \/ (Updating(r) /\ Newest(r) = None)
    /\ At(r, "use", "failed")
    /\ UNCHANGED <<files, local, disturbed>>

\* replacePluginsInYAML, from the YAML that was read: a plugin that was added, or
\* updated out of its constraint, gets the constraint ^version.
WriteYAML(r) ==
    /\ At(r, "yaml", "save")
    /\ allowed' = IF Kind(r) = "update" THEN allowed
                  ELSE [allowed EXCEPT ![ProjectOf(r)] =
                          IF Kind(r) = "force" /\ ver[r] \in seen[r].allowed THEN seen[r].allowed
                          ELSE {v \in Versions : v >= ver[r]}]
    /\ UNCHANGED <<tags, tree, out, cache, inst, lock, local, disturbed>>

\* The end of every command that succeeds.
SaveLock(r) ==
    /\ At(r, "save", "done")
    /\ lock' = [lock EXCEPT ![ProjectOf(r)] = ver[r]]
    /\ UNCHANGED <<tags, tree, out, cache, inst, allowed, local, disturbed>>

Crash(r) ==
    /\ "crash" \in Faults /\ pc[r] \notin Ended \cup {"start"}
    /\ pc' = [pc EXCEPT ![r] = "dead"]
    /\ disturbed' = (disturbed \/ pc[r] \in {"copy", "removing", "install"})
    /\ UNCHANGED <<files, local>>

Publish(v) ==
    /\ v \notin tags
    /\ tags' = tags \cup {v}
    /\ UNCHANGED <<tree, out, cache, inst, lock, allowed, pc, local, disturbed>>

Step(r) ==
    \/ FindInstalled(r) \/ FindCached(r) \/ Wait(r) \/ Fetch(r) \/ FetchFails(r)
    \/ Checkout(r) \/ ClearOut(r) \/ Unpack(r) \/ StartCopy(r) \/ Copy(r) \/ CopyFails(r)
    \/ RemoveOut(r) \/ DiskFails(r) \/ RemoveEntry(r) \/ RemoveCopy(r) \/ MakeLink(r)
    \/ StartInstall(r) \/ Install(r) \/ InstallFails(r) \/ Load(r) \/ LoadFails(r)
    \/ StartUpdate(r) \/ Use(r) \/ UseFails(r) \/ WriteYAML(r) \/ SaveLock(r)

Next ==
    \/ \E r \in Runs : Begin(r) \/ Step(r) \/ Crash(r)
    \/ \E v \in Versions : Publish(v)

Spec == Init /\ [][Next]_vars

\* A run that has begun goes on.  Nobody has to begin, or to publish a version.
FairSpec == Spec /\ \A r \in Runs : WF_vars(Step(r))

-----------------------------------------------------------------------------
(* Properties *)

Loaded(r) == pc[r] \in {"use", "yaml", "save", "done"}
Chosen(r) == Loaded(r) \/ pc[r] \in Loading \ {"installed", "cached", "fetch", "wait"}

\* Wherever a version was found, a run with a lock that fits the constraint takes
\* the locked version or none, and a run without one stays within the constraint.
LockDecides ==
    \A r \in Runs : Chosen(r) =>
        /\ ver[r] \in Fitting(r)
        /\ LockOf(r) # None => ver[r] = LockOf(r)

\* An update goes up from a locked version.
UpdatesGoUp ==
    \A r \in Runs : seen[r].exact # None /\ seen[r].lock \in seen[r].allowed =>
        seen[r].lock < seen[r].exact

\* What r copies, installs or has loaded is of the version it has chosen.
LoadsRight(r) ==
    /\ pc[r] \in {"clear", "unpack", "mkdir", "copy"} => tree = ver[r]
    /\ pc[r] \in {"mkdir", "copy"} => Source(r) = ver[r]
    /\ pc[r] \in {"rmout", "remove", "removing", "link", "install"} => cache[ver[r]] = ver[r]
    /\ pc[r] = "link" => Entry(r) = None
    /\ pc[r] \in {"removing", "install"} => Entry(r) = Partial
    /\ Loaded(r) => got[r] = ver[r]

\* One run loads at a time, and only the directory it copies to or removes is incomplete.
OneLoads ==
    /\ \A r, q \in Runs : pc[r] \in Loading /\ pc[q] \in Loading => r = q
    /\ \A v \in Versions : cache[v] \in {None, v} \/
          (cache[v] = Partial /\ \E r \in Runs : pc[r] = "copy" /\ ver[r] = v)
    /\ \A p \in Projects, v \in Versions : inst[p][v] \in {None, Link, v} \/
          (inst[p][v] = Partial /\ \E r \in Runs : /\ pc[r] \in {"removing", "install"}
                                                 /\ ProjectOf(r) = p /\ ver[r] = v)
    /\ \A r \in Runs : LoadsRight(r)

\* pluginInfo.matches decides the version alike for installed, cached and published
\* ones, and undisturbed loaders leave the files complete.
IInv == TypeOK /\ LockDecides /\ UpdatesGoUp /\ (disturbed \/ OneLoads)

\* Unless two runs have loaded plugins at the same time, or a copy or a removal was cut
\* short, or a copy made over itself, a plugin that is loaded is complete and of the
\* version it is loaded as: whatever else has failed or crashed before, in this or
\* another project.
LoadedIsVersion ==
    \A r \in Runs : Loaded(r) /\ ~disturbed => got[r] = ver[r]

\* The lock file goes back to an older version only through a run that started
\* before the newer one was saved, or if the constraint has excluded it.
LockGoesBackOnlyIfStale ==
    [][\A p \in Projects : lock[p] # None /\ lock'[p] < lock[p] =>
          \E r \in Runs : /\ pc[r] = "save" /\ pc'[r] = "done" /\ ProjectOf(r) = p
                          /\ seen[r].lock # lock[p] \/ lock[p] \notin seen[r].allowed]_vars

\* A run that has begun ends, however often a download fails.
EveryRunEnds == \A r \in Runs : pc[r] # "start" ~> pc[r] \in Ended
=============================================================================
