------------------------------ MODULE AppBuild ------------------------------
(***************************************************************************)
(* What deployments on one machine build before they plan: prepareApps and  *)
(* buildApps of pkg/actions/deploy_build.go.  Images are built under a tag  *)
(* of the project and the app, in the one Docker daemon; archives are made  *)
(* in a directory of the project and the environment.  Neither is guarded   *)
(* by the locks of the deployment: the tag is shared by the environments,   *)
(* and the directory is emptied before any lock is asked for.               *)
(*                                                                         *)
(* The names of the specification carry the part, so that a module can     *)
(* extend this one together with DeployFilter.                             *)
(***************************************************************************)
EXTENDS Naturals, FiniteSets

CONSTANTS
    Runs, Envs, Apps,
    Services, Functions,  \* the other apps are static
    SkipsBuild,           \* services with build.skip_build
    Custom,               \* services with build.docker_image
    Commands,             \* static apps and functions with a build command
    Archives,             \* functions whose deploy plugin wants an archive
    Options,              \* the options and the environment each run may have
    Interrupted,          \* the runs that may get a signal
    Concurrency,          \* how many commands run at a time
    Faults                \* a subset of {"docker", "image", "command", "line", "archive", "lock"}

\* --skip-build (or --skip-all-apps) and --destroy, and what the targets or the
\* skips of a run leave.
OptionsType ==
    [mode : {"build", "skip", "destroy"}, picked : SUBSET Apps, env : Envs]

ASSUME AppBuildAssumption ==
    /\ Services \subseteq Apps /\ Functions \subseteq Apps \ Services
    /\ SkipsBuild \subseteq Services /\ Custom \subseteq Services
    /\ Commands \subseteq Apps \ Services /\ Archives \subseteq Functions
    /\ \A r \in Runs : Options[r] \subseteq OptionsType
    /\ Interrupted \subseteq Runs
    /\ Concurrency \in Nat \ {0}
    /\ {"none", "old", "remote", "docker"} \cap (Runs \cup Envs) = {}

VARIABLES
    option, pc,
    dir,       \* whether the directory of an environment exists
    store,     \* the images and the archives, named after who made them
    work,      \* what a run does for an app
    hash,      \* LocalDockerHash, LocalArchiveHash
    raced,     \* history: what another run has replaced before its maker read it
    canceled

buildVars == <<option, pc, dir, store, work, hash, raced, canceled>>

Places == Envs \cup {"docker"}

\* Mutant: the directory is that of the project.
MutPlace(r, a) == IF a \in Services THEN "docker" ELSE CHOOSE e \in Envs : TRUE

Place(r, a) == IF a \in Services THEN "docker" ELSE option[r].env

Contents == Runs \cup {"none", "old", "remote"}
Over == {"done", "failed"}

BuildTypeOK ==
    /\ option \in [Runs -> OptionsType]
    /\ pc \in [Runs -> {"start", "mkdir", "docker", "prepare", "pull", "lock", "build",
                        "ready", "cleanup", "ended"}]
    /\ dir \in [Envs -> BOOLEAN]
    /\ store \in [Places -> [Apps -> Contents]]
    /\ work \in [Runs -> [Apps -> Over \cup {"new", "queued", "running", "stuck", "archive", "made"}]]
    /\ hash \in [Runs -> [Apps -> Contents]]
    /\ raced \subseteq Runs \X Apps
    /\ canceled \in [Runs -> BOOLEAN]

BuildInit ==
    /\ option \in [Runs -> OptionsType] /\ \A r \in Runs : option[r] \in Options[r]
    /\ pc = [r \in Runs |-> "start"]
    /\ dir = [e \in Envs |-> FALSE]
    /\ \E images \in [Apps -> {"none", "old"}] :
          /\ \A a \in Apps \ Services : images[a] = "none"
          /\ store = [p \in Places |-> IF p = "docker" THEN images ELSE [a \in Apps |-> "none"]]
    /\ work = [r \in Runs |-> [a \in Apps |-> "new"]]
    /\ hash = [r \in Runs |-> [a \in Apps |-> "none"]]
    /\ raced = {}
    /\ canceled = [r \in Runs |-> FALSE]

Goto(r, from, to) == pc[r] = from /\ pc' = [pc EXCEPT ![r] = to]
Becomes(r, a, what) == work' = [work EXCEPT ![r][a] = what]

\* The runs whose image or archive of an app is replaced or removed unread.
Losers(r, gone) ==
    {l \in (Runs \ {r}) \X Apps :
        Place(l[1], l[2]) \in gone[l[2]] /\ work[l[1]][l[2]] = "made"}

-----------------------------------------------------------------------------
(* The deploy command *)

\* os.RemoveAll of the directory, before the build and when the command ends.
RemoveAll(r) ==
    /\ dir' = [dir EXCEPT ![option[r].env] = FALSE]
    /\ store' = [store EXCEPT ![option[r].env] = [a \in Apps |-> "none"]]
    /\ raced' = raced \cup Losers(r, [a \in Apps |-> {option[r].env}])
    /\ UNCHANGED <<option, work, hash, canceled>>

Start(r) == Goto(r, "start", "mkdir") /\ RemoveAll(r)
End(r) == Goto(r, "cleanup", "ended") /\ RemoveAll(r)

MakeDir(r) ==
    /\ Goto(r, "mkdir", "docker")
    /\ dir' = [dir EXCEPT ![option[r].env] = TRUE]
    /\ UNCHANGED <<option, store, work, hash, raced, canceled>>

Interrupt(r) ==
    /\ r \in Interrupted /\ ~canceled[r] /\ pc[r] # "ended"
    /\ canceled' = [canceled EXCEPT ![r] = TRUE]
    /\ UNCHANGED <<option, pc, dir, store, work, hash, raced>>

\* Between prepareApps and buildApps come the state and its locks, and the plan
\* and the apply come afterwards.
Moves(r, from, to) ==
    /\ Goto(r, from, to)
    /\ UNCHANGED <<option, dir, store, work, hash, raced, canceled>>

LockFails(r) == (canceled[r] \/ "lock" \in Faults) /\ Moves(r, "lock", "cleanup")
Apply(r) == Moves(r, "ready", "cleanup")

-----------------------------------------------------------------------------
(* prepareApps *)

\* The first call of dockerClient; every deployment makes it.
Docker(r) == Moves(r, "docker", "prepare")
DockerFails(r) == (canceled[r] \/ "docker" \in Faults) /\ Moves(r, "docker", "cleanup")

\* The services that are not built, whether the run targets them or not.
Prepared(r) == IF option[r].mode = "destroy" THEN {} ELSE IF option[r].mode = "skip" THEN Services ELSE SkipsBuild

Read(r, a) ==
    /\ store[Place(r, a)][a] # "none"
    /\ hash' = [hash EXCEPT ![r][a] = store[Place(r, a)][a]]
    /\ Becomes(r, a, "done")
    /\ UNCHANGED <<option, pc, dir, store, raced, canceled>>

CannotRead(r, a) == store[Place(r, a)][a] = "none" \/ canceled[r] \/ "image" \in Faults

\* ImageInspect in the loop: what is found is used, what can be pulled is queued.
Inspect(r, a) == pc[r] = "prepare" /\ a \in Prepared(r) /\ work[r][a] = "new" /\ Read(r, a)

Queue(r, a) ==
    /\ pc[r] = "prepare" /\ a \in Prepared(r) /\ work[r][a] = "new"
    /\ CannotRead(r, a) /\ a \in Custom
    /\ Becomes(r, a, "queued")
    /\ UNCHANGED <<option, pc, dir, store, hash, raced, canceled>>

PrepareFails(r) ==
    /\ \E a \in Prepared(r) \ Custom : work[r][a] = "new" /\ CannotRead(r, a)
    /\ Moves(r, "prepare", "cleanup")

Pull(r) ==
    /\ \A a \in Prepared(r) : work[r][a] # "new"
    /\ Moves(r, "prepare", "pull")

\* g.Wait: the context of the group is not that of its commands, so a failure
\* stops none of the others.
Waited(r, from, to, apps) ==
    /\ \A a \in apps : work[r][a] \in Over
    /\ Moves(r, from, IF \E a \in apps : work[r][a] = "failed" THEN "cleanup" ELSE to)

PullEnds(r) == Waited(r, "pull", "lock", Prepared(r))

-----------------------------------------------------------------------------
(* buildApps, for the apps that the targets and the skips leave *)

Builders(r) ==
    IF option[r].mode # "build" THEN {}
    ELSE option[r].picked \cap ((Services \ SkipsBuild) \cup Functions \cup Commands)

Build(r) ==
    /\ Goto(r, "lock", "build")
    /\ work' = [work EXCEPT ![r] = [a \in Apps |-> IF a \in Builders(r) THEN "queued" ELSE @[a]]]
    /\ UNCHANGED <<option, dir, store, hash, raced, canceled>>

BuildEnds(r) == Waited(r, "build", "ready", Builders(r))

-----------------------------------------------------------------------------
(* runAppCommand, and what the image or the archive is made of *)

Free(r) == Cardinality({a \in Apps : work[r][a] \notin Over \cup {"new", "queued"}}) < Concurrency

Archiving(a) == IF a \in Archives THEN "archive" ELSE "done"

Begin(r, a) ==
    /\ pc[r] \in {"pull", "build"} /\ work[r][a] = "queued" /\ Free(r)
    /\ Becomes(r, a, IF a \in Services \cup Commands THEN "running" ELSE Archiving(a))
    /\ UNCHANGED <<option, pc, dir, store, hash, raced, canceled>>

\* The scanner gives up a line that is too long, and the command waits for
\* somebody to read its output.
LineTooLong(r, a) ==
    /\ work[r][a] = "running" /\ "line" \in Faults
    /\ Becomes(r, a, "stuck")
    /\ UNCHANGED <<option, pc, dir, store, hash, raced, canceled>>

Write(r, a, content) ==
    /\ store' = [store EXCEPT ![Place(r, a)][a] = content]
    /\ raced' = (raced \ {<<r, a>>}) \cup Losers(r, [b \in Apps |-> IF b = a THEN {Place(r, a)} ELSE {}])
    /\ Becomes(r, a, "made")
    /\ UNCHANGED <<option, pc, dir, hash, canceled>>

\* The command of a service ends: docker build, or docker pull.
Image(r, a) ==
    /\ work[r][a] = "running" /\ a \in Services
    /\ Write(r, a, IF pc[r] = "pull" THEN "remote" ELSE r)

CommandEnds(r, a) ==
    /\ work[r][a] = "running" /\ a \notin Services
    /\ Becomes(r, a, Archiving(a))
    /\ UNCHANGED <<option, pc, dir, store, hash, raced, canceled>>

\* Mutant: only a signal that comes before the command starts is noticed.
MutStopped(r, a) == FALSE

\* ctx.Done: the command is signaled, and killed after commandCleanupTimeout.
Stopped(r, a) == canceled[r] /\ work[r][a] \in {"running", "stuck"}

\* A pull that fails is only printed: the image is inspected all the same.
CommandFails(r, a) ==
    /\ Stopped(r, a) \/ (work[r][a] = "running" /\ "command" \in Faults)
    /\ Becomes(r, a, IF pc[r] = "pull" THEN "made" ELSE "failed")
    /\ UNCHANGED <<option, pc, dir, store, hash, raced, canceled>>

\* ArchiveDir, into a directory that may be gone.
Archive(r, a) ==
    /\ work[r][a] = "archive" /\ dir[option[r].env]
    /\ Write(r, a, r)

ArchiveFails(r, a) ==
    /\ work[r][a] = "archive" /\ (~dir[option[r].env] \/ "archive" \in Faults)
    /\ Becomes(r, a, "failed")
    /\ UNCHANGED <<option, pc, dir, store, hash, raced, canceled>>

\* ImageInspect of what was made, or HashFile.
ReadBack(r, a) == work[r][a] = "made" /\ Read(r, a)

ReadBackFails(r, a) ==
    /\ work[r][a] = "made" /\ CannotRead(r, a)
    /\ Becomes(r, a, "failed")
    /\ UNCHANGED <<option, pc, dir, store, hash, raced, canceled>>

Main(r) ==
    \/ Start(r) \/ MakeDir(r) \/ Docker(r) \/ DockerFails(r) \/ Pull(r) \/ PrepareFails(r)
    \/ PullEnds(r) \/ LockFails(r) \/ Build(r) \/ BuildEnds(r) \/ Apply(r) \/ End(r)
    \/ \E a \in Apps : Inspect(r, a) \/ Queue(r, a)

Command(r, a) ==
    \/ Begin(r, a) \/ Image(r, a) \/ CommandEnds(r, a) \/ CommandFails(r, a)
    \/ Archive(r, a) \/ ArchiveFails(r, a) \/ ReadBack(r, a) \/ ReadBackFails(r, a)

BuildNext ==
    \E r \in Runs :
        \/ Main(r) \/ Interrupt(r)
        \/ \E a \in Apps : Command(r, a) \/ LineTooLong(r, a)

BuildSpec == BuildInit /\ [][BuildNext]_buildVars

\* A run goes on, and a command ends whose output is read; nothing else does.
FairSpec ==
    /\ BuildSpec
    /\ \A r \in Runs : WF_buildVars(Main(r)) /\ \A a \in Apps : WF_buildVars(Command(r, a))

-----------------------------------------------------------------------------
(* Properties *)

\* A run that goes on to its plan knows the image of every service it does not
\* build; what it has built is its own, unless another run has replaced it
\* between the end of the build and the inspection.
HashesKnown ==
    \A r \in Runs : pc[r] = "ready" =>
        /\ \A a \in Prepared(r) : hash[r][a] # "none"
        /\ \A a \in Builders(r) \cap (Services \cup Archives) :
              hash[r][a] = r \/ <<r, a>> \in raced

\* An archive is as its run has made it, unless a run of the same environment has
\* begun, and may have ended, meanwhile.
ArchiveThere(r, a) ==
    \/ store[Place(r, a)][a] = r
    \/ \E q \in Runs \ {r} : option[q].env = option[r].env /\ pc[q] # "start"

\* The archives of a run are there until it ends.
ArchivesKept ==
    \A r \in Runs : pc[r] = "ready" =>
        \A a \in Builders(r) \cap Archives : ArchiveThere(r, a)

\* A run has begun with an app only where it was to, and works on apps only while
\* it waits for them.
Begun(r, a) ==
    /\ work[r][a] # "new" =>
          \/ a \in Prepared(r) /\ pc[r] \notin {"start", "mkdir", "docker"}
          \/ a \in Builders(r) /\ pc[r] \in {"build", "ready", "cleanup", "ended"}
    /\ work[r][a] \notin Over \cup {"new", "queued"} => pc[r] \in {"pull", "build"}
    /\ work[r][a] = "archive" => a \in Archives
    /\ work[r][a] = "made" => a \in Services \cup Archives

WorkBegun == \A r \in Runs, a \in Apps : Begun(r, a)

\* A stage is left for the next one when all of its apps are done.
StagesDone ==
    \A r \in Runs :
        /\ pc[r] \in {"lock", "build", "ready"} => \A a \in Prepared(r) : work[r][a] = "done"
        /\ pc[r] = "ready" => \A a \in Builders(r) : work[r][a] = "done"

\* An app is done with when its hash is read, and until then what was made of it
\* is its maker's, or the loss is on record.
HashRead(r, a) ==
    /\ work[r][a] = "done" => hash[r][a] # "none"
    /\ pc[r] \in {"build", "ready"} /\ a \in Builders(r) /\ <<r, a>> \notin raced =>
          /\ work[r][a] = "made" => store[Place(r, a)][a] = r
          /\ work[r][a] = "done" => hash[r][a] = r

HashesRead == \A r \in Runs, a \in Services \cup Archives : HashRead(r, a)

\* They are there from the moment they are made.
ArchivesMade ==
    \A r \in Runs, a \in Archives :
        pc[r] \in {"build", "ready"} /\ a \in Builders(r) /\ work[r][a] \in {"made", "done"} =>
            ArchiveThere(r, a)

\* What prepareApps and buildApps have made, or found, is what the plan will use:
\* stage by stage, each app's work ends in a hash and an archive of the run's own.
Artifacts ==
    /\ BuildTypeOK /\ WorkBegun /\ StagesDone /\ HashesRead /\ ArchivesMade
    /\ HashesKnown /\ ArchivesKept

\* A run ends, or waits for a command whose output nobody reads; a signal ends
\* that wait too.
BuildsEnd ==
    \A r \in Runs :
        <>[](pc[r] = "ended" \/ (~canceled[r] /\ \E a \in Apps : work[r][a] = "stuck"))
=============================================================================
