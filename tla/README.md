# A TLA+ development of the Outblocks CLI

`ok` deploys the apps and dependencies of a project through plugins: separate
processes that `ok` starts and calls over gRPC. What is deployed is recorded in
a state file, which a *state plugin* keeps and which several people and CI jobs
share. This directory models what is hard about that: several runs of
`ok deploy` against one environment, each of which reads the state, plans, asks,
changes the cloud and writes the state back, with locks that are taken before
it is known what they are needed for. Around it are the other parts of the
program that several processes or goroutines share: builds, the download,
start and stop of plugins, secrets that several people edit, and `ok run`.

All source paths are relative to the root of the repository. The table of
definitions and source lines is `map` in `PROJECT.json`.

## 1. The system

| Component | State | Operations | Talks to |
|---|---|---|---|
| Deployment (`pkg/actions/deploy.go`) | a copy of the state file, acquired locks, the plan | `Run`, `stateLockDeploy`, `multilockDeploy`, `multilockPlanAndApplyDeploy`, `planAndApply` | state plugin, deploy / DNS / monitoring plugins, user |
| State file and locks (external: the state plugin, used through `pkg/plugins/client/state.go`, `lock.go`) | file, lock of the file, named locks | `GetState`, `SaveState`, `ReleaseStateLock`, `AcquireLocks`, `ReleaseLocks` | - |
| Filter (`deploy_filter.go`, `internal/util/target_match.go`) | target and skip matchers with match counts | `filterApps`, `filterDependencies`, `Matches`, `ResetMatches` | called by `planAndApply`, once per round |
| State diff (`internal/statefile`) | `Diff`: maps of updated, deleted and nested keys | `NewDiff`, `Diff.Apply` | called by `planAndApply` and `multilockDeploy` |
| Plugin calls (`planDeploy`, `applyDeploy`, hooks, DNS, monitoring) | `state`, shared by goroutines; a mutex per stage | one goroutine per plugin and stage, `mergeState` | plugin clients |
| Force unlock (`force_unlock.go`) | - | `Run` | state plugin |
| Build (`deploy_build.go`) | Docker images under a tag per project and app, archives in a directory per environment | `prepareApps`, `buildApps`, `runAppCommand` | Docker, shell, files |
| Executor (`cmd/executor.go`, `executor_config.go`, `main.go`) | loaded project, lock file, context | `Execute`, `commandPreRun`, `saveLockfile`, `cleanupProject` | everything |
| Plugin client (`pkg/plugins/client`) | process, connection, two `sync.Once` | `Init`, `Start`, `Stop`, one method per RPC | plugin process |
| Host server (`pkg/server`) | gRPC server, questions under way | `Prompt*`, `Stop` | called by plugins, asks the user |
| Local run (`run.go`, `run/`, `client/run.go`) | ports, started apps, channels, wait group, hosts file | `prepareRun`, `start`, `waitAll`, shutdown | processes, run plugins |
| Plugin loader (`pkg/plugins/loader.go`, downloaders, `config/project.go`) | cache and install directories, clone, lock file | find, download, install, `plugins update`, `plugins add` | file system, network |
| Secrets (`secrets.go`) | the secrets of an environment | get, set, delete, edit, import | secrets plugin |
| Configuration, prompts, templates, parsing, logging | - | - | files, terminal |

How they interact: a run of `ok deploy` has one main goroutine. It shares
memory only with the goroutines of one stage of `planAndApply`, and shares the
state plugin and the cloud with the other runs. Runs on one machine also share,
without any lock, the Docker images, the build directory, the plugin cache, the
files of the project and the hosts file. A plugin is one process with one
client; while it serves a call it may call back into the host server of `ok`.

What is hard, in the order in which it decides whether a deployment is correct:

1. Locks are chosen from the project and a state read *before* locking, but what
   is needed is known only from the plan; the loop releases, reads and acquires
   again until they cover the plan.
2. The state file is shared, so a run saves a diff on top of a state that others
   have changed since (named locks), or the whole file (state lock).
3. Every call can fail, and each failure has its own way out of two functions
   that hold locks; a killed run leaves its locks.
4. Plugins of a group work concurrently on one `state`; a failing plugin must
   not cost the record of what the others did.
5. Targets, skips, `--destroy` and `--skip-all-apps` decide which resources are
   in the plan, and a resource that is not in the plan is removed.
6. What a run builds is what it deploys, although image tags and the archive
   directory are shared with other runs.
7. Loading a plugin is a dozen steps over shared directories, any of which may
   fail, be retried, or happen in between those of another run.
8. A command ends in many ways, and each has its own idea of which plugins to
   stop and whether to write the lock file.
9. The goroutines of `ok run` share one `err`, one channel for one error, and a
   pair of channels per group of plugins.

The full list, at its lines, is `hazards` in `PROJECT.json`.

## 2. The modules

| Module | Models | Lines up with |
|---|---|---|
| `DeployPlan` | the pure part: what a run plans, and which locks it needs | `deploy_filter.go`, `util.go` |
| `StateDiff` | the diff of two states and what it makes of a third | `NewDiff`, `Diff.Apply`, `MapDiff`, `RegistryDiff` of `internal/statefile` |
| `LockedStateFile` | abstract: a file that only the holder of its lock writes, over the content it has read | the contract of `GetState` / `SaveState` / `ReleaseStateLock` |
| `MultilockDeploy` | runs with named locks, and force-unlock | `multilockDeploy`, `multilockPlanAndApplyDeploy` |
| `StateLockDeploy` | runs with one lock for the file, runs without a lock, `ok status` | `stateLockDeploy` |
| `DeployFilter` | the loops of the filter, one visit per step, over several rounds | `filterApps*`, `TargetMatcher` |
| `PlanAndApply` | the stages of one `planAndApply`, one goroutine per plugin | `planAndApply`, `planDeploy`, `applyDeploy`, hooks, DNS, monitoring |
| `AppBuild` | the commands of two deployments on one machine, over the images and archives they share | `deploy_build.go`, `cmd/deploy.go` |
| `LocalRun` | `ok run`: ports, start, the goroutines that wait, shutdown | `run.go`, `run/`, `client/run.go` |
| `Executor` | one command: the processes of its plugins, the host server, every way out | `cmd/`, `main.go`, `client/start.go`, `client/client.go`, `pkg/server` |
| `PluginLoader` | runs that find, download, install and load one plugin | `loader.go`, downloaders, `config/project.go`, `lockfile.go`, `actions/plugins.go` |
| `Secrets` | users who set, delete, edit and import secrets | `secrets.go` |
| `*_proofs` | theorems (section 4); those about `DeployPlan` and `StateDiff` are in `MultilockDeploy_proofs`, those about `DeployFilter` and `AppBuild`, alone and together, in `FilterAndBuild_proofs` | |
| `MC*` | small instances for TLC; `MCDefs` holds the projects and state files | |

`StateLockDeploy` extends `DeployPlan`, and `MultilockDeploy`, which alone saves a
diff, extends `StateDiff`, which extends it; both instantiate `LockedStateFile`. `DeployFilter` instantiates `DeployPlan` to say that the
loops compute what `DeployPlan` describes; so the deployment models may treat
planning as one step. `PlanAndApply` opens the two steps that the deployment
models call `Plan` and `ApplyOne` / `ApplyFails`: its invariant `AllRecorded` is
why these may change the cloud and the record together. `AppBuild` opens the
step of `StateLockDeploy` and `MultilockDeploy` that builds: it ends where `Plan`
begins, with what was built, or it fails. `LocalRun`, `Executor`, `PluginLoader`
and `Secrets` stand alone; what one takes from another is an input that may
turn out either way (in `Executor`, loading the project ends well or does not).

### Data

A *resource* is an app or a dependency; its definition is one of `Values`, and
`Absent` stands for none. A state has two maps over the resources: `ent` (the
keys of `StateData.Apps` and `Dependencies`, with the definition they were
planned with) and `reg` (what the registries in `StateData.Plugins` record as
deployed). `cloud` is what is really deployed. Strings, YAML, protobuf
conversion, logging and progress bars are left out.

In `StateDiff` a definition has *parts*: it is a function from `Fields` to
`Contents` or `Absent`. In the maps of apps and dependencies these are the fields
of `AppState` and `DependencyState` (the app, its DNS, its deployment), and in a
registry the properties of a resource. A diff is one operation per resource and
map: `keep`, `delete`, `set` or `nested` for an entry (`MapDiff`, two levels), and
`keep`, `delete`, `create` or `merge` for a record (`RegistryDiff`). `nested` and
`merge` name the parts that differ, and touch no others. Everywhere else a
definition is one value.

*History variables* are read by properties only. `mixed` has the resources that
a save has merged into a change its run had not read; `kept` and `left` say which
lock a run could not give back, and after what; `lost` has the resources of a call
of Apply without a last answer; `broke` and `odd` have the streams of run plugins that ended by
themselves or sent what they should not; `raced` and `disturbed` remember that two
runs met on one machine, or that a copy or a removal was cut short.

### Steps

One action is what a run does up to its next call of a plugin whose effect
others can see. `pc` names the place in the code:

| `MultilockDeploy` | code |
|---|---|
| `start` | `Run` before `getState` (deploy.go:491) |
| `acquire`, `locked` | before and after `AcquireLocks` (354) |
| `relock`, `reread` | locks are missing (397), then `getState` again (406) |
| `prompt`, `applying` | `planPrompt`, then the apply stages (768-801) |
| `failed` | `planAndApply` returned an error with a result (386); the locks go first (387) |
| `save`, `write`, `unlock` | `getState` with the lock, `Diff.Apply` and `saveState`, `releaseStateLock` (428-447) |
| `release`, `done` | `releaseLocks` (455) or that of an early return |

`Plan` covers `planAndApply` up to and including the check for missing locks in
`promptDiff`. External behaviour is modelled as `ok` relies on it: the state
plugin grants all of the named locks or none, frees a lock for its lock info
only, and lets one run hold the lock of the file; a deploy plugin removes what
its registry has and the plan lacks, leaves planned resources marked `Skip`
alone, and with `--verify` takes the cloud for the record. What it deploys is what
the plan says: plugins that choose some properties themselves are not modelled.
A call that fails may have had its effect: `ReleaseBreaks`, `AcquireFails`,
`LockState` and `UnlockState` leave it open whether the plugin has moved the lock.

The other modules, by the variables that carry them:

- `AppBuild`: `pc` goes from emptying the build directory (`mkdir`, cmd/deploy.go:47)
  through the inspection and the pull of images (`docker`, `prepare`, `pull`) to
  `build` and `ready`; `work` says what each app's goroutine does: waiting for its
  turn, running a command, stuck on an output nobody reads, making the archive,
  or made and to be inspected. `hash` is what the plan gets; `store` holds images and
  archives named after the run that made them; `raced` remembers that one was
  replaced before it was inspected.
- `LocalRun`: `pc` is `Run` and `start`; `stream` the goroutines of
  `client/run.go`, `seen` those of `run/plugin.go`, `sent` and `closed` the channel
  of a group; `waiter` the goroutines of `start`. A waiter first assigns the shared
  `err`, then checks it: two steps, between which another may assign. A stream is
  *mute* while its plugin owes the handshake, *absent* if it ended before the
  start response, and *odd* after a response of the wrong kind.
- `Executor`: `pc` is `Execute`; `client` is the two `sync.Once` and the connection,
  `call` the call under way, `proc` the process. A call is *active* under the
  context of the command, or *detached* under `context.Background()`. A plugin has a
  `temper`: a *mute* one never writes its handshake, a *deaf* one does not end on
  SIGTERM.
- `PluginLoader`: `tree` is the clone, `out` the directory of unpacked releases,
  `cache` and `inst` the cache and a project's install directory; an entry is the
  version whose files it has, `Partial`, or `Link`. Each step of the loader that
  reads or writes one of them is an action, and retries go back to the first. The
  removal of a copied plugin and the copy into a project are two steps each, with a
  partial directory in between, which a failure or a crash leaves behind.
- `Secrets`: `seen` is what the plugin answered, `vals` what the file starts from,
  `file` what the user has made of it.

## 3. What is checked

All runs are listed in `PROJECT.json`, with their configuration files. Deadlock
checking is off everywhere because runs end.

| Run | Question | Instance |
|---|---|---|
| `multilock_safe` | Do runs exclude each other where they should, and is the record right? | three runs, two with targets, two apps and a dependency, definitions of two parts, of which the projects change one or both; no failures; from a full, a partial and an empty state |
| `multilock_faults` | Does the locking survive every failure? | two runs, one verifies, one skips an app; reading, locking, preparing, planning, applying, decoding, saving and releasing may fail, runs are killed and force-unlocked |
| `statelock_safe` | The same for the lock of the file | three locking runs; everything may fail but what makes the record wrong (an apply or a save, a kill) |
| `statelock_mixed` | What do `ok status` and every failure do to it? | two locking runs and a status run; every failure and a kill |
| `filter_plans` | Does the filter compute the described plan in every map order? | four apps (two types, two names), all subsets as project and as state, four target and three skip lists, two rounds with any state in the second |
| `planapply_errors` | Is all that was done recorded, in order? | two plugins, one in two groups, a hook, DNS and monitoring; calls fail, streams break, or end without a last answer |
| `multilock_panic` | Does a diff always apply? No: section 6 | the smallest instance that shows it |
| `app_build` | Does a run deploy what it built, and do builds end? | two runs, of one environment or two; two services, a function with an archive and a static app; failing commands, a line of 64 KB, a signal |
| `local_run` | Are ports distinct, errors seen, and does a shutdown end? | five projects of two apps and a dependency, with two plugins; plugins that are mute, end too early or answer what they should not, apps that exit, a hosts file that cannot be saved; an interrupt at any time |
| `executor` | What is left running, what is in the lock file, and what can hang? | two plugins of every temper, one with the secrets; four kinds of commands; calls that fail, or do not end with the command, plugins that die, a panic |
| `plugin_loader` | Is the right version loaded, and complete? | two runs and two projects over one cache, three versions, two states of the projects (no lock file; a lock here, and there one that the constraint excludes); downloads, copies, removals and links fail, runs crash |
| `secrets` | What may an edit or an import undo? | two users, two keys, every initial store |

Main properties:

- `ApplyUnderLock`, `ExclusiveApply`: changes are made under the right lock, and
  never twice at once.
- `FreshWrite`, `SavesOnlyItsDiff`, `NoForeignSave`, `NoLostSave`: a save is made
  over the state file as it is, and leaves the records of other runs alone.
- `RecordMatchesCloud`: when nobody holds a lock that covers a resource, its
  record is right. Checked where no call fails after an apply. With named locks
  it and `NoForeignSave` leave out the mixtures of section 6, and `MixturesMoved`
  says when one comes about.
- `LocksReturned`, `LockReturned`: a run that ends by itself keeps a lock only for
  the reasons these list. Named locks: the call that was to release them failed,
  or the one that was to acquire them. The lock of the file: its release failed,
  the file could not be decoded, or, without named locks, the build or the plan
  failed. A cancel, or a check, an apply or a save that fails, is no reason.
- `RelockAsksMore`, `EveryRunEnds`, `Returns`: the loop over locks, every run and
  `planAndApply` end.
- `ImplementsStateFile`: both deployment models implement `LockedStateFile` with
  `file <- remote`, `holder <- stateLock`, and the holder's copy.
- `PlansSound`, `GivenAppsExist`, `DeletesTargets`: the filter returns the plan of
  `DeployPlan`, for options that name apps, and a delete deletes.
- `AllRecorded`, `StagesInOrder`: `planAndApply` records exactly what was deployed, and
  keeps the order of groups and stages, over its inductive invariant. Both leave
  out the resources of a call of Apply that ended without a last answer (`lost`).
- `Artifacts`: the hashes a run plans with are those of what it made, and the
  archives are there, but for the two races it names. `BuildsEnd`.
- `GroupErrorsAreReal`, `FailureStopsStart`: an error reaches the goroutine that
  waits for it, and none is made up, unless a stream was odd. `HostsRestored`,
  `EndsUnlessStuck`: what an interrupt achieves, and the three ways in which a
  shutdown of the model hangs: two errors to report, a group none of whose streams
  was ever there, and a plugin that owes its handshake.
- `LeftRunning`, `LockKept`, `EndsWhenInterrupted`: which processes a command may
  leave, when the lock file loses plugins, and what keeps an interrupted program:
  a handshake that does not come, an apply without an answer, a plugin that does
  not stop, a question. These bound the behaviour from above; they do not say that
  each case occurs, which the mutants show for some.
- `LoadedIsVersion`, `LockGoesBackOnlyIfStale`, `EveryRunEnds`: the loader, alone in
  its directories and with nothing cut short; the last two without this exception.
- `UntouchedKept`: an edit changes a secret the user left alone only if somebody
  else had changed it meanwhile, or if it is declared and had no value.

Several of these are of the form "P, unless one of the following": the exceptions
are what the code really does (section 6), and the property says that there are
no others. Type invariants are parts of the invariants (`IInv`, `Artifacts`,
`PlansSound`, `StagesInOrder`), and those are the inductive invariants of the
proofs: TLC checks them on each instance first.

### Bounds

- Two or three runs. Every property relates two runs at most, apart from the
  round of missing locks, for which a third run adds a holder that changes
  between rounds. The theorems need no bound.
- Two apps, one dependency, one plugin, two versions: enough for an app that is
  targeted and one that is not, a dependency shared by them, a resource that
  is added, updated and removed, and lock names of all three kinds.
- Two parts with two contents each: a part that two plans change alike, differently,
  or only one of them, which is all that `Overlay` tells apart.
- A run deploys once; a later deployment of the same person is another run.
- `Rounds = 2` in `DeployFilter`: the second round finds the counts and skips
  the first has left, a third would find nothing new.
- Two plugins in `PlanAndApply`: one alone in a group, and two in one group.
- `Concurrency = 1` in `app_build` (5 in the code): with one turn and four apps the
  queue is full, which with five needs six apps. Failures of Docker, of an image,
  of an archive and of the lock are off: each ends in the step that the
  interrupt takes too.
- Two plugins in `executor` (the one before and the one after the one that does
  not end well) and in `local_run` (a group of one, a group of two).
- Three versions in `plugin_loader`: one with an asset, one that is only source,
  one in the cache whose release is gone; `MaxAttempts = 2` (3 in the code): a
  first attempt that is not the last, and the last. One plugin: runs meet per
  plugin only, apart from the lock file.
- Two keys in `secrets`: one declared by a plugin, one not.
- `Faults` is the set of failures of an instance; each run names its own.

### Fairness

`FairSpec` is weak fairness of the step of each process: a process that can go on
goes on. Waits for locks have limits (`--lock-wait`, 30 s for the lock of the state
file), and what a blocked run waits for is either released or its wait fails, which
is the same step. That RPCs end, and that the user answers the prompt, is assumed
in the deployment models and `PlanAndApply`, not justified: an apply has no limit,
and `Executor` is where the assumption is dropped. Nothing is assumed
of kills and of force-unlock. `EveryRunEnds` does not depend on who wins a race.

The other modules assume less. `AppBuild`: a run goes on, and a command ends whose
output is read; a blocked one does not. `LocalRun`: goroutines are scheduled, and
a process or a stream that is told to stop stops; apps need not come up, a mute
plugin need not speak, and nothing has to fail. `Executor`: the program goes on and
makes finitely many calls, a plugin that is not mute
shakes hands, one that is not deaf ends on SIGTERM, and gRPC gives up a request
whose connection is lost, or that was made with the context of the command once
this is canceled; no plugin has to answer otherwise, no user, and nothing has to fail.
`PluginLoader`: a run that has begun goes on. `Secrets` has no fairness: there
is nothing in it that must happen.

## 4. What is proved

For every number of runs, users, resources, apps, plugins and versions, every
project, option and set of failures, under the named assumptions on the constants
(ids are disjoint, and finite where the code has a finite map; the options have
their types; the words that stand for "nothing" are not values). A theorem with
another hypothesis is listed with it, and each hypothesis is one that the instance
of a run in section 3 satisfies.

The argument has the same shape everywhere. A safety property says something of
one place in the code only, so it is not inductive: that a run applies under its
locks says nothing of a run that is still at the prompt. The inductive invariant
says what has been established at every place; a lemma per action, or per group
of them, shows that a step keeps it; the property follows from it. The invariants
named `IInv`, `PlansSound`, `StagesInOrder` and `Artifacts` are also checked by TLC.

| Module | Theorems | Hypothesis |
|---|---|---|
| `MultilockDeploy_proofs` | `TypeCorrect`, `LockInvariant`, `ChangesAreLocked`, `SavesAreFresh`, `EndedRunsHoldNothing`, `RoundsGrow`, `StepsAreFinite`, `SavesAreLocal`, `OtherAppsStay`, `Refinement` | |
| | `ChangesAreExclusive` | projects define every resource |
| | `RecordsMatch`, `SavesOwnRecords`, `DiffsApply` | `Orderly` |
| | `PanicNeedsLostEntry`, `MixturesMoved` | |
| `StateLockDeploy_proofs` | `LockInvariant`, `LockedRunsExclude`, `LocksReturn`, `StatusWrites`, `OtherAppsStay` | |
| | `LockedSavesAreFresh`, `Refinement` | every run locks |
| | `RecordsMatch` | every run locks; no failing apply or save, no kill |
| `FilterAndBuild_proofs` | `PlansAreSound`, `OptionsNameApps`, `DeletesAreDone`, `ArtifactsAreKept` | |
| | `ErrorsAreDescribed` | in its statement: `Exact`, `Separate` |
| | `PlannedAppsAreBuilt` | in its statement: `BuildsFor` |
| `PlanAndApply_proofs` | `GroupsAndStages`, `RecordsAreExact` | |
| `Executor_proofs` | `Invariant`, `ProcessesEnd`, `LockFileKept` | |
| `LocalRun_proofs` | `Invariant`, `GroupErrors`, `EarlyEndsStop`, `OnlyKnownCausesBlock` | |
| `PluginLoader_proofs` | `Invariant`, `LoadedVersions`, `LockGoesUp`, `StepsAreFinite` | |
| `Secrets_proofs` | `ReadInvariant`, `UntouchedStays` | |

**Named locks.** `IInv` is the conjunction of

- `TypeOK`;
- `OwnersAgree`: a lock with an owner is among those the owner acquired, unless a
  call of the owner failed that may have taken it; up to its first release a run
  owns all it acquired; and a run that is over owns none, unless a call to give
  them back, or to take them, failed (`kept`);
- `ChangesCovered`: what a run is about to change is locked by what it acquired -
  established by the check for missing locks, kept because neither the list nor
  the changes grow later;
- `StateLockAgrees`: the saving run owns the lock of the file and has its content; a
  run past its save owns it only if it could not decode the file or its release failed.

`Refinement`: every step is a step of `LockedStateFile` or leaves it alone.
`ChangesAreExclusive` has its hypothesis because without it two runs can name the
lock of one resource differently: section 6, item 2.

That the record matches the cloud needs an invariant over the copies, plans and
diffs of all runs at once, `RecordsKept`. Its parts follow a change on its way from
the cloud to the file: a run may alter in its copy only what it has locked
(`PlanKept`), its diff sets entry and record of a locked resource to what is
deployed (`DiffKept`), and wherever file and cloud differ, the owner of the lock
still has the difference in its copy or diff (`CloudKept`), or the resource is in
`mixed`; copies may be old, but have no entry that the file has lost since
(`CopyKept`), because no orderly plan removes one. `Orderly` says that nothing fails once locks are held, that
projects define every resource, that nobody verifies or skips apps, and that the
file at the start has an entry for what it records and for nothing else. Each part
is needed: a failure after an apply releases the locks before the save (section
6), a removal is locked under the name of the plugin, with `--verify` a run records
what it finds of resources it has no lock for, and a skipped app loses its entry.

`OtherAppsStay` needs no such hypothesis. An app is `OutOfReach` of a run if it has an
entry in the state the run has planned from and the run was told nothing about it
(it has targets and the app is not one, and is not skipped by name; or
`--skip-all-apps`, or `ok status`). The invariant `Spared` follows such an app
through the run: it is not in the plan's changes, the copy has it as it was read,
and the diff keeps it. The entry is needed: an app without one is not kept by the
filter and its record is removed by the plan; and a skipped app loses its entry
(section 6, item 4).

`StepsAreFinite` is what can be proved of `EveryRunEnds`: each step of a run lowers
the lexicographic measure `Closer` - locks not asked for, then the phase, then
the changes left to make - and no step of another run raises it. The loop over
missing locks is the only way back to an earlier phase, and each of its rounds
lowers the first number. What the theorem cannot say is that a run takes its next
step; only `LockState` waits, for a run that is saving or gone.

`PanicNeedsLostEntry` and `MixturesMoved` are about `StateDiff`. A diff applied to the
state it was computed from gives the other state without a panic (a lemma, over both
levels). Applied to another state it can panic only where an entry of both sides
has vanished, and a save makes something else of a resource than its run has planned
only where the file's entry or record is no longer what the run had planned from
(`MixturesMoved`, of every save of every run).

**State lock.** `IInv` says that a busy locking run owns the lock of the file and,
if every run locks, that the owner has the file as it is. `RecordsMatch` adds
`RecordKept`: file and cloud agree but for the owner, whose copy agrees with the
cloud. `LocksReturn` needs no hypothesis: `OwnerWorks` says that the owner of the
lock is busy, was killed, or has ended after one of the four failures in `left` that
keep it (section 6, item 3; a name in `--target-apps` that nothing defines counts as
a failing plan). `StatusWrites` adds
that a status run which does not verify has in its copy what it has read, and needs
no hypothesis about the others. `OtherAppsStay` is the theorem of the same name for
named locks: what a run leaves alone it saves as it has read it, which is what the
file has if every run locks.

**Filter.** `PlansSound` holds at every visit: `PlanSoFar` says what the plan is for the
apps visited and not visited, `UsedByApps` that a matcher counts as used only by
an app that is there, `NoTargetKept` that a delete plans none of its targets. The
lemmas are about the matchers: counting and resetting change counts only (`Alike`), and
what is selected depends on nothing else. `Description` unfolds the instance of
`DeployPlan`; with it `PlansAreSound` shows that the loops, in whatever order Go
walks its maps and with whatever an earlier round has left in the matchers,
compute what `DeployPlan` takes in one step. `ErrorsAreDescribed` adds its error, which
`DeployPlan` has as a guard over sets (`UnknownTarget`, `UnknownSkip`) and the code
as a count of the matchers that were never used. Its invariant `Found` says that
every matcher which selects a visited app counts as used. The two agree on lists in
which each matcher names one app (`Exact`: one without a type is used when an app of
any type is there, while `DeployPlan` names them all) and no app twice
(`Separate`: an app uses the first matcher that selects it, so a second one stays
unused and is reported although the app is there).

**App build.** `Artifacts` has one part for each thing that later steps rely on, and
four of them with the types are inductive together (`BuildInv`). `WorkBegun`: only
apps that a run has to prepare or build are being worked on, and in the stage that
works on them. `StagesDone`: a stage is left when all of its apps are done.
`HashesRead`: what a run has made is in its place until its hash is read, unless the
loss is in `raced`. `ArchivesMade` says of each archive from the moment it is made
what `ArchivesKept` says when the run is ready; the step that empties the build
directory is why it needs to know which runs have begun since. `HashesKnown` and
`ArchivesKept` follow for a run that is ready: `ArtifactsAreKept`.

`PlannedAppsAreBuilt` puts the two modules side by side, for a run whose options say
what the filter's matchers say (`BuildsFor`: the test of `buildApps` at
deploy_build.go:468 over the apps of the project). The filter then plans from the
project all that the run has built, and the run has the hash, and the archive unless
another run has removed it, of every app that is planned from the project: the
loops of the filter take their decisions in another order, over the state first, and
count matchers on the way.

**Plan and apply.** `Exact`: a plugin's record is what it has deployed, except while
an answer of the apply has not been merged, or never came (`lost`), and, with
`--verify`, until a plan has looked. `GroupsDone` says it of the groups that are not being applied, and relates
the cloud to the plan. That a stage ends only when all of its goroutines have
(`Running`) makes the two meet at the end of each stage.

**Executor.** `Cleaning` is the heart: the clean-up leaves behind it no process that
it knows, so a process that is left belongs to a client that it never reached, or to
a command that does not clean up. A call that fails fails the command, but the
command may go on to call plugins that are started, as a deployment does to save
and to release its locks. `NoBrokenCall`, `CallsInRun`, `Loaded` and
`NotYetUsed` say where calls and processes can exist at all.

**Local run.** `StreamsAgree` relates a stream to its context, `ErrorsKept` is about
the one-place channel of a group: an error that a stream has sent is in the channel
or with one watcher, and unless a stream of the group was odd nobody reads a `nil`
before it. `NoneFinished` is about the shared `err` while `start` waits for health; it
needs that no stream of any group was odd, because the `nil` of one group may
overwrite the error of another. `OnlyKnownCausesBlock` is the safety half
of `EndsUnlessStuck`: `CanMove` lists the guards of all goroutines, and in
`wg.Wait` one of them holds unless two goroutines report an error or a group
has no stream that was ever open. (The third cause, a mute plugin, is before
`wg.Wait`.) Its invariant `Tracked` says that what `wg` counts has not ended, that
all it waits for was started, and that a reader which has ended has closed its
channel; so a watcher has a reader that goes on, an error to read, or a closed
channel, if its group has a reader at all.

**Loader.** `LockDecides` and `UpdatesGoUp` fix the version. `OneLoads` says which
directory may be incomplete and what each place of the loader relies on; it is kept
until runs load at the same time, a copy or a removal is cut short, or a copy is made
over itself (`disturbed`). `LockGoesUp`
needs the first two only. `StepsAreFinite` bounds the retries: each step finds the
one update a run may look for, begins one more of at most `MaxAttempts` downloads, or
is further in the current one, whatever the other runs do to the directories
they share. `Counted` says that the count starts at zero and that an update is looked
for once.

**Secrets.** `IInv` says that what the file started from is still what was read, as
`SecretsValues` shows it; of all steps, only the replacement at the end of an edit
or an import needs it.

## 5. What is only model-checked

- Liveness under fairness is out of the prover's reach: `EveryRunEnds` (three
  modules), `Returns`, `BuildsEnd`, `HostsRestored`, `EndsUnlessStuck` and
  `EndsWhenInterrupted`.
  Of `EveryRunEnds` (named locks, loader) and `EndsUnlessStuck` the safety half
  is proved: `StepsAreFinite`, `OnlyKnownCausesBlock`.
- With failures after an apply, with `--verify` or with projects that define
  different resources, `RecordMatchesCloud` and `NoForeignSave` are false, not
  unproved: section 6. Of a mixture nothing is claimed but when it comes about.

## 6. Where the code differs from what it says

1. **A diff can panic** (`multilock_panic`). `MapDiff.Apply` (mapdiff.go:106) takes
   the interface of a missing key. One run updates an app, another removes it and
   saves first; the first run panics with the lock of the file held.

The others have no run of their own. Each is in a model, and a property defined
there states what one would expect; to see it fail, add it to a configuration of
its module.

2. **Two names for one lock.** A resource in neither the project nor the planned
   state is locked under the name of its plugin (util.go:101), so its removal and
   another run's update do not exclude each other: `ExclusiveApply` with projects
   that define different dependencies.
3. **Failures that keep a lock.** A failed build keeps the lock of the state file,
   and so does a plan that fails (deploy.go:104-109, 119-122), a state that cannot be
   decoded (1103, with named locks too) and a release that fails (138, 445). Named
   locks stay after a failed release, of which the early one is ignored (387) and
   the one between two rounds ends the run (399-402). `LockReturned` and
   `LocksReturned` name these and exclude all others; with the exception (`left`,
   `kept`) taken out, TLC finds both violated.
4. **Skipped apps are removed.** The loop drops the apps that are to be skipped
   instead of keeping them as they are (deploy_filter.go:17): `SkippedAppsStay`.
5. **Deleting one app removes others.** The guard of `filterAppsDestroy` reads the
   matcher the loop adds to (deploy_filter.go:64): `DeletesOnlyTargets`.
6. **A map is read without its mutex** (client/deploy.go:17): `NoMapRace` in
   `planapply_errors`.
7. **Two errors hang a shutdown.** `errCh` holds one error (run.go:702) and its
   reader has gone, so the second sender never calls `wg.Done`: `TwoReports` in `EndsUnlessStuck`.
8. **A channel is closed twice.** Every stream of a group closes the channels
   they share (client/run.go:31); with two plugins in one group the process ends
   in a panic, `pc = "crashed"` in `LocalRun`.
9. **`ok version` empties the lock file** of a project whose plugins cannot be
   loaded (root.go:321): the exception in `LockKept`.
10. **A line of 64 KB blocks a build** (deploy_build.go:95): the exception in
    `BuildsEnd`.
11. **A stream that ends too early is a success.** `mapError` turns `io.EOF` into no
    error (client/errors.go:45). `client.Apply` then returns neither a result nor an error
    (client/deploy.go:60): nothing is merged, and the later groups, DNS and hooks
    run over work that is not recorded. The exception `lost` in `AllRecorded` and
    `StagesInOrder`.
12. **An unexpected response of a run plugin is a success** too: `client/run.go:57`
    prepends a message to an error that is nil, and sends nil. The group ends well,
    and as `err` is shared this may hide the error of another group. The exception
    `odd` in `GroupErrorsAreReal` and `FailureStopsStart`.
13. **A run plugin that ends before its start response** is followed by nobody
    (client/run.go:23): the shutdown waits for ever, or, for a dependency, the nil
    response is read and the process panics (run.go:425). `Unanswered` in
    `EndsUnlessStuck`.
14. **An interrupt does not end an apply.** The apply stages are called with
    `context.Background()` (deploy.go:777, 786, 793): `Stuck` in
    `EndsWhenInterrupted`.
15. **A save may mix two plans.** The state is read before the locks are acquired,
    and read again only when locks are missing (406). If another run has changed
    and saved a resource in between, the first plans from the old copy, and its
    diff merges the parts that differ from that copy into what the file has now; a
    record that has been created meanwhile keeps its old properties
    (`RegistryDiff`). The exception `mixed` in `RecordMatchesCloud`.

Found while modelling, and visible in the models as they are:

- After an apply error the named locks are released before the state is saved
  (`ReleaseEarly` comes before `LockState`; with `"apply"` among the faults
  `NoForeignSave` fails).
- The diff has no part for monitoring data (diff.go:13), so a run with named locks never
  saves any; the model leaves monitoring data out.
- `ok status` writes the state file, without its lock (`StatusWritesBack` bounds
  what). An app that does not exist cannot be skipped although the flag says "if
  they exist" (`UnknownGiven`).
- `prepareApps` inspects the images of all services, also of those that a target
  or a skip leaves out. An image tag names the project and the app but not the
  environment, and the image is inspected under the tag after the build. The
  build directory is emptied before any lock is taken. (`Artifacts`)
- The plugins that `ok init` loads are never stopped; `cleanupProject` stops at the
  first plugin that does not end well; the handshake of a plugin is read without
  a limit, and only the first signal is read. (`LeftRunning`, `EndsWhenInterrupted`)
- A mute plugin keeps an interrupted `ok run` from restoring the hosts file; saving
  this file may fail (run.go:95), and when that happens at the end of an
  interrupted run, the run still returns no error. (`HostsRestored`)
- A copy of a plugin into a project that fails, or is cut short, stays (loader.go:219),
  and so does what a removal has not reached (216): the next run takes it for
  an installed plugin. (`LoadedIsVersion`)
- A `plugins add` that is aborted saves the lock file but not the YAML
  (actions/plugins.go:220).
- `plugins add` takes the newest version whatever `--version` says, and the YAML
  it writes is the one it read, over what was written since.
- `secrets edit` writes an empty value for every declared secret that has none,
  once anything else is edited; `import` replaces everything, so it drops the
  secrets that are not in its file. (`UntouchedKept`)

## 7. What is not modelled

- Validation of the configuration, templates, parsing, logging, prompts and the
  commands that write configuration (`init`, `apps add`): pure functions, and
  terminal I/O with no state that outlives a call. Their outcome is an input.
- What a plugin, Docker or a build command does inside a call, other than in
  section 2.
- Monitoring data, domains and DNS records in the *saved* state (`StateDiff` has
  the maps of apps and dependencies, and the registries), and of a record its
  reference id, its mark as new and its list of dependencies.
- Deployments with `--lock=false` are in `StateLockDeploy` (those not in `Locking`), and
  in the theorems without the hypothesis that every run locks, but in no instance:
  there only `ok status` runs without a lock.
- In `Executor`: the host's answer to a plugin that asks for a secret, the log
  service, `help` and completion. In `PluginLoader`: `plugins list` and
  `plugins delete`, sources other than GitHub, several plugins at once. In
  `Secrets`: `view` and `get`, which only read, and `destroy`, whose command is
  never added (cmd/secrets.go:139).

## 8. Plan

1. `RecordsMatch` for named locks with `--verify` and with `--skip-apps`, as far as it
   holds.
2. `StateDiff` with the dependency lists of registries, DNS, domains and monitoring.
3. `PluginLoader` with two plugins, which share the lock file.
