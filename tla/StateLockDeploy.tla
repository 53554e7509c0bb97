--------------------------- MODULE StateLockDeploy ---------------------------
(***************************************************************************)
(* `ok deploy' runs that lock the whole state file, or nothing, and        *)
(* `ok status': Deploy.Run, stateLockDeploy and planAndApply of            *)
(* pkg/actions/deploy.go with a state plugin that offers no named locks,   *)
(* with --lock=false, or with a local state file.                          *)
(***************************************************************************)
EXTENDS DeployPlan

CONSTANTS
    NoOne,
    Verify,        \* Verify[d]: --verify
    Locking,       \* the runs that lock the state file
    Statuses,      \* the runs of `ok status': SkipApply, SkipDiff, SkipStateCreate
    InitialStates,
    Faults

FaultKinds == {"read", "decode", "build", "check", "plan", "apply", "save", "release",
               "crash"}
\* The ways out of a run that keep the lock of the state file, or may.
Leaks == {"decode", "build", "plan", "release"}

ASSUME LockAssumption ==
    /\ NoOne \notin Deployers
    /\ Verify \in [Deployers -> BOOLEAN]
    /\ Locking \subseteq Deployers /\ Statuses \subseteq Deployers \ Locking
    /\ Statuses \subseteq SkipAllApps
    /\ InitialStates \subseteq States
    /\ Faults \subseteq FaultKinds

VARIABLES
    remote, created, cloud, stateLock,  \* as in MultilockDeploy
    pc,
    first,   \* GetStateResponse_State.StateCreated
    snap,    \* `state': what was read, then its planned and applied form
    seen,    \* what was last read or written of the file; `stateBefore'
    todo,    \* changes the plugins have still to make
    left     \* history: the failures after which a run has kept its lock, or may have

shared == <<remote, created, cloud, stateLock>>
local == <<first, snap, seen, todo>>
vars == <<shared, pc, local, left>>

PCs == {"start", "read", "built", "prompt", "applying", "save", "unlock", "done", "crashed"}

TypeOK ==
    /\ remote \in States
    /\ created \in BOOLEAN
    /\ cloud \in Recorded
    /\ stateLock \in Deployers \cup {NoOne}
    /\ pc \in [Deployers -> PCs]
    /\ first \in [Deployers -> BOOLEAN]
    /\ snap \in [Deployers -> States]
    /\ seen \in [Deployers -> States]
    /\ todo \in [Deployers -> SUBSET Resources]
    /\ left \in [Deployers -> SUBSET Leaks]

Init ==
    /\ remote \in InitialStates
    /\ created \in {c \in BOOLEAN : ~c => remote = EmptyState}
    /\ cloud = remote.reg
    /\ stateLock = NoOne
    /\ pc = [d \in Deployers |-> "start"]
    /\ first = [d \in Deployers |-> FALSE]
    /\ snap = [d \in Deployers |-> EmptyState]
    /\ seen = [d \in Deployers |-> EmptyState]
    /\ todo = [d \in Deployers |-> {}]
    /\ left = [d \in Deployers |-> {}]

Goto(d, from, to) == pc[d] = from /\ pc' = [pc EXCEPT ![d] = to]

-----------------------------------------------------------------------------
(* Run *)

\* Mutant: the state is read without its lock.
MutReadUnlocked(d) ==
    /\ pc[d] = "start"
    /\ created' = TRUE
    /\ first' = [first EXCEPT ![d] = ~created]
    /\ snap' = [snap EXCEPT ![d] = remote]
    /\ seen' = [seen EXCEPT ![d] = remote]
    /\ pc' = [pc EXCEPT ![d] = "read"]
    /\ UNCHANGED <<remote, cloud, stateLock, todo, left>>

\* getState, with the lock of the state file or without.  `ok status' creates no
\* state file and stops at an empty one.
ReadState(d) ==
    /\ pc[d] = "start"
    /\ IF d \in Locking THEN stateLock = NoOne /\ stateLock' = d
                        ELSE UNCHANGED stateLock
    /\ created' = (created \/ d \notin Statuses)
    /\ first' = [first EXCEPT ![d] = created' /\ ~created]
    /\ snap' = [snap EXCEPT ![d] = remote]
    /\ seen' = [seen EXCEPT ![d] = remote]
    /\ pc' = [pc EXCEPT ![d] = IF d \in Statuses /\ remote = EmptyState THEN "done" ELSE "read"]
    /\ UNCHANGED <<remote, cloud, todo, left>>

\* Mutant: the wait for the lock has no limit.
MutWaitsForever(d) ==
    /\ Goto(d, "start", "done")
    /\ "read" \in Faults /\ stateLock = NoOne
    /\ UNCHANGED <<shared, local, left>>

\* The lock stays taken for longer than --lock-wait, or the read fails.
ReadFails(d) ==
    /\ Goto(d, "start", "done")
    /\ "read" \in Faults \/ (d \in Locking /\ stateLock # NoOne)
    /\ UNCHANGED <<shared, local, left>>

\* The plugin has locked the state file, but what it answers is lost, or ReadState
\* cannot read it.
DecodeFails(d) ==
    /\ "decode" \in Faults
    /\ Goto(d, "start", "done")
    /\ IF d \in Locking THEN stateLock = NoOne /\ stateLock' = d
                        ELSE UNCHANGED stateLock
    /\ created' = (created \/ d \notin Statuses)
    /\ seen' = [seen EXCEPT ![d] = remote]
    /\ left' = [left EXCEPT ![d] = @ \cup {"decode"}]
    /\ UNCHANGED <<remote, cloud, first, snap, todo>>

-----------------------------------------------------------------------------
(* stateLockDeploy *)

Build(d) ==
    /\ Goto(d, "read", "built")
    /\ UNCHANGED <<shared, local, left>>

\* The run returns without releasing the lock.
BuildFails(d) ==
    /\ "build" \in Faults /\ d \notin Statuses
    /\ Goto(d, "read", "done")
    /\ left' = [left EXCEPT ![d] = @ \cup {"build"}]
    /\ UNCHANGED <<shared, local>>

\* preChecks fails: the lock is released, if that works.
CheckFails(d) ==
    /\ "check" \in Faults
    /\ Goto(d, "built", "unlock")
    /\ UNCHANGED <<shared, local, left>>

\* planAndApply fails before it has a result: the run returns without releasing
\* the lock.
PlanFails(d) ==
    /\ "plan" \in Faults \/ UnknownTarget(d) \/ UnknownSkip(d, snap[d])
    /\ Goto(d, "built", "done")
    /\ left' = [left EXCEPT ![d] = @ \cup {"plan"}]
    /\ UNCHANGED <<shared, local>>

\* planAndApply up to promptDiff, which does not ask in `ok status'.
Plan(d) ==
    LET s == snap[d]
        actual == Actual(d, s, cloud, Verify[d] \/ first[d])
        planned == [ent |-> Desired(d, s), reg |-> actual]
        changes == Changes(d, s, actual)
    IN  /\ ~UnknownTarget(d) /\ ~UnknownSkip(d, s)
        /\ Goto(d, "built", IF changes # {} /\ d \notin Statuses THEN "prompt"
                            ELSE IF changes # {} \/ planned # s THEN "save" ELSE "unlock")
        /\ snap' = [snap EXCEPT ![d] = planned]
        /\ todo' = [todo EXCEPT ![d] = IF d \in Statuses THEN {} ELSE changes]
        /\ UNCHANGED <<shared, first, seen, left>>

Approve(d) ==
    /\ Goto(d, "prompt", "applying")
    /\ UNCHANGED <<shared, local, left>>

\* Mutant: a canceled run is saved as if it had been applied.
MutCancelSaves(d) ==
    /\ Goto(d, "prompt", "save")
    /\ todo' = [todo EXCEPT ![d] = {}]
    /\ snap' = [snap EXCEPT ![d].reg = snap[d].ent]
    /\ UNCHANGED <<shared, first, seen, left>>

\* Mutant: a canceled run returns at once.
MutCancelReturns(d) ==
    /\ Goto(d, "prompt", "done")
    /\ todo' = [todo EXCEPT ![d] = {}]
    /\ UNCHANGED <<shared, first, snap, seen, left>>

Cancel(d) ==
    /\ Goto(d, "prompt", "unlock")
    /\ todo' = [todo EXCEPT ![d] = {}]
    /\ UNCHANGED <<shared, first, snap, seen, left>>

ApplyOne(d, r) ==
    /\ pc[d] = "applying" /\ r \in todo[d]
    /\ cloud' = [cloud EXCEPT ![r] = snap[d].ent[r]]
    /\ snap' = [snap EXCEPT ![d].reg[r] = snap[d].ent[r]]
    /\ todo' = [todo EXCEPT ![d] = @ \ {r}]
    /\ UNCHANGED <<remote, created, stateLock, pc, first, seen, left>>

ApplyDone(d) ==
    /\ Goto(d, "applying", "save")
    /\ todo[d] = {}
    /\ UNCHANGED <<shared, local, left>>

\* As in MultilockDeploy; here the state is saved all the same.
ApplyFails(d) ==
    /\ "apply" \in Faults
    /\ Goto(d, "applying", "save")
    /\ \E lost \in SUBSET todo[d] :
          cloud' = [r \in Resources |-> IF r \in lost THEN snap[d].ent[r] ELSE cloud[r]]
    /\ todo' = [todo EXCEPT ![d] = {}]
    /\ UNCHANGED <<remote, created, stateLock, first, snap, seen, left>>

\* The whole state is written, not a diff.
Save(d) ==
    /\ Goto(d, "save", "unlock")
    /\ remote' = snap[d]
    /\ seen' = [seen EXCEPT ![d] = snap[d]]
    /\ UNCHANGED <<created, cloud, stateLock, first, snap, todo, left>>

SaveFails(d) ==
    /\ "save" \in Faults
    /\ Goto(d, "save", "unlock")
    /\ UNCHANGED <<shared, local, left>>

\* releaseStateLock does nothing for a run that has no lock info.
Unlock(d) ==
    /\ Goto(d, "unlock", "done")
    /\ stateLock' = IF d \in Locking THEN NoOne ELSE stateLock
    /\ UNCHANGED <<remote, created, cloud, local, left>>

\* The call fails; the lock may be released all the same.
UnlockFails(d) ==
    /\ "release" \in Faults /\ d \in Locking
    /\ Goto(d, "unlock", "done")
    /\ stateLock' \in {d, NoOne}
    /\ left' = [left EXCEPT ![d] = @ \cup {"release"}]
    /\ UNCHANGED <<remote, created, cloud, local>>

-----------------------------------------------------------------------------

Crash(d) ==
    /\ "crash" \in Faults
    /\ pc[d] \notin {"done", "crashed"}
    /\ pc' = [pc EXCEPT ![d] = "crashed"]
    /\ UNCHANGED <<shared, local, left>>

\* `ok force-unlock' for a run that is gone.
ForceUnlock(d) ==
    /\ pc[d] \in {"done", "crashed"}
    /\ stateLock = d
    /\ stateLock' = NoOne
    /\ UNCHANGED <<remote, created, cloud, pc, local, left>>

Step(d) ==
    \/ ReadState(d) \/ ReadFails(d) \/ DecodeFails(d)
    \/ Build(d) \/ BuildFails(d) \/ CheckFails(d)
    \/ PlanFails(d) \/ Plan(d)
    \/ Approve(d) \/ Cancel(d)
    \/ \E r \in Resources : ApplyOne(d, r)
    \/ ApplyDone(d) \/ ApplyFails(d)
    \/ Save(d) \/ SaveFails(d) \/ Unlock(d) \/ UnlockFails(d)

Next == \E d \in Deployers : Step(d) \/ Crash(d) \/ ForceUnlock(d)

Spec == Init /\ [][Next]_vars

FairSpec == Spec /\ \A d \in Deployers : WF_vars(Step(d))

-----------------------------------------------------------------------------
(* Properties *)

Busy == {"read", "built", "prompt", "applying", "save", "unlock"}

\* A locking run owns the lock of the state file from its read to its release,
\* and only locking runs ever own it.
BusyRunsOwn ==
    /\ stateLock # NoOne => stateLock \in Locking
    /\ \A d \in Locking : pc[d] \in Busy => stateLock = d

\* If every run locks, the owner has the file as it is.
OwnerHasFile == Locking = Deployers => \A d \in Deployers : stateLock = d => seen[d] = remote

\* A locking run of stateLockDeploy owns the lock of the file while it is busy, and
\* has the file as it is if every run locks.
IInv == TypeOK /\ BusyRunsOwn /\ OwnerHasFile

\* Runs that lock the state file never overlap.
OneLockedRun ==
    \A d, e \in Locking : pc[d] \in Busy /\ pc[e] \in Busy => d = e

\* While nobody holds the lock, the file records what is deployed.
RecordMatchesCloud == stateLock = NoOne => remote.reg = cloud

\* A run that has ended owns the lock of the state file only if it could not decode the
\* file, build or plan, or if the call that was to release the lock failed.  A run
\* that is canceled, or fails to check, apply or save, gives it back.
LockReturned == \A d \in Deployers : pc[d] = "done" /\ stateLock = d => left[d] # {}

\* A save overwrites the state its run read, and no save in between.
NoLostSave ==
    [][\A d \in Locking : pc[d] = "save" /\ remote' # remote /\ pc'[d] = "unlock"
          => seen[d] = remote]_vars

\* Without --verify, all that `ok status' may write is what it has read.
StatusWritesBack ==
    [][\A d \in Statuses : pc[d] = "save" /\ remote' # remote /\ pc'[d] = "unlock" /\ ~Verify[d]
          => remote' = seen[d]]_vars

\* Seen from the state file, a run is a client of a file with a lock.
StateFile == INSTANCE LockedStateFile WITH
    Holders <- Deployers, NoHolder <- NoOne, Contents <- States, NoCopy <- EmptyState,
    file <- remote, holder <- stateLock,
    copy <- IF stateLock = NoOne THEN EmptyState ELSE seen[stateLock]

\* Runs that all lock implement the locked state file.
ImplementsStateFile == StateFile!Spec

\* Every run ends.
EveryRunEnds == \A d \in Deployers : <>(pc[d] \in {"done", "crashed"})
=============================================================================
