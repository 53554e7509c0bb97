--------------------------- MODULE MultilockDeploy ---------------------------
(***************************************************************************)
(* `ok deploy' runs of one environment whose state plugin offers named     *)
(* locks: Deploy.Run, multilockDeploy, multilockPlanAndApplyDeploy and     *)
(* planAndApply of pkg/actions/deploy.go, interleaved at every call that   *)
(* reaches the state plugin or a deploy plugin.  The state file, its lock  *)
(* and the named locks live in the state plugin; the cloud is what the     *)
(* deploy plugins change.                                                  *)
(***************************************************************************)
EXTENDS StateDiff

CONSTANTS
    NoOne,
    Verify,        \* Verify[d]: --verify
    InitialStates, \* the state files the runs may start from
    Faults         \* which failures happen, a subset of FaultKinds

FaultKinds ==
    {"read", "acquire", "prepare", "plan", "apply", "decode", "save", "release",
     "timeout", "crash"}
LockKinds == {"named", "state"}

ASSUME LockAssumption ==
    /\ NoOne \notin Deployers
    /\ Verify \in [Deployers -> BOOLEAN]
    /\ InitialStates \subseteq States
    /\ Faults \subseteq FaultKinds

VARIABLES
    remote,     \* the state file
    created,    \* whether it exists
    cloud,      \* what is really deployed
    lockOwner,  \* the named locks
    stateLock,  \* the lock of the state file
    pc,
    first,      \* GetStateResponse_State.StateCreated
    snap,       \* `state': a copy of the state file, then its planned form
    before,     \* `stateBefore'
    asked,      \* `locks': the names to acquire
    acquired,   \* `acquiredLocks'
    todo,       \* changes the plugins have still to make
    diff,       \* `res.stateDiff'
    kept,       \* history: the locks that a call which failed may have left with a run
    mixed       \* history: the resources a save left other than its run had planned

shared == <<remote, created, cloud, lockOwner, stateLock>>
local == <<first, snap, before, asked, acquired, todo, diff>>
history == <<kept, mixed>>
vars == <<shared, pc, local, history>>

PCs == {"start", "acquire", "locked", "relock", "reread", "prompt", "applying",
        "failed", "save", "write", "unlock", "release", "done", "crashed"}

TypeOK ==
    /\ remote \in States
    /\ created \in BOOLEAN
    /\ cloud \in Recorded
    /\ lockOwner \in [LockIds -> Deployers \cup {NoOne}]
    /\ stateLock \in Deployers \cup {NoOne}
    /\ pc \in [Deployers -> PCs]
    /\ first \in [Deployers -> BOOLEAN]
    /\ snap \in [Deployers -> States]
    /\ before \in [Deployers -> States]
    /\ asked \in [Deployers -> SUBSET LockIds]
    /\ acquired \in [Deployers -> SUBSET LockIds]
    /\ todo \in [Deployers -> SUBSET Resources]
    /\ diff \in [Deployers -> Diffs]
    /\ kept \in [Deployers -> SUBSET LockKinds]
    /\ mixed \subseteq Resources

Init ==
    /\ remote \in InitialStates
    /\ created \in {c \in BOOLEAN : ~c => remote = EmptyState}
    /\ cloud = remote.reg
    /\ lockOwner = [l \in LockIds |-> NoOne]
    /\ stateLock = NoOne
    /\ pc = [d \in Deployers |-> "start"]
    /\ first = [d \in Deployers |-> FALSE]
    /\ snap = [d \in Deployers |-> EmptyState]
    /\ before = [d \in Deployers |-> EmptyState]
    /\ asked = [d \in Deployers |-> {}]
    /\ acquired = [d \in Deployers |-> {}]
    /\ todo = [d \in Deployers |-> {}]
    /\ diff = [d \in Deployers |-> NoDiff]
    /\ kept = [d \in Deployers |-> {}]
    /\ mixed = {}

Goto(d, from, to) == pc[d] = from /\ pc' = [pc EXCEPT ![d] = to]

\* The locks after d releases the ones it acquired.  The plugin frees a lock
\* only for the owner's lock info (external: the state plugin).
Released(d) ==
    [l \in LockIds |-> IF l \in acquired[d] /\ lockOwner[l] = d THEN NoOne ELSE lockOwner[l]]

\* The two ways releaseLocks ends.  Without locks it makes no call; a call that
\* fails may have freed them, all or none like Acquire (external).
ReleaseSucceeds(d) ==
    /\ lockOwner' = Released(d)
    /\ kept' = [kept EXCEPT ![d] = @ \ {"named"}]

ReleaseBreaks(d) ==
    /\ "release" \in Faults /\ acquired[d] # {}
    /\ lockOwner' \in {lockOwner, Released(d)}
    /\ kept' = [kept EXCEPT ![d] = @ \cup {"named"}]

-----------------------------------------------------------------------------
(* Run, up to the first AcquireLocks. *)

\* getState without the state lock, then the first choice of locks.
ReadState(d) ==
    LET partial == (Targets[d] # {} \/ Skips[d] = {}) /\ created
    IN  /\ Goto(d, "start", "acquire")
        /\ created' = TRUE
        /\ first' = [first EXCEPT ![d] = ~created]
        /\ snap' = [snap EXCEPT ![d] = remote]
        /\ asked' = [asked EXCEPT ![d] = IF partial THEN PartialLockIds(d, remote)
                                                    ELSE AllLockIds(d, remote)]
        /\ UNCHANGED <<remote, cloud, lockOwner, stateLock, before, acquired, todo, diff, history>>

ReadFails(d) ==
    /\ "read" \in Faults
    /\ Goto(d, "start", "done") \/ Goto(d, "reread", "done")
    /\ UNCHANGED <<shared, local, history>>

-----------------------------------------------------------------------------
(* multilockPlanAndApplyDeploy *)

\* All of the locks or none of them (external: the state plugin).
Acquire(d) ==
    /\ Goto(d, "acquire", "locked")
    /\ \A l \in asked[d] : lockOwner[l] = NoOne
    /\ lockOwner' = [l \in LockIds |-> IF l \in asked[d] THEN d ELSE lockOwner[l]]
    /\ acquired' = [acquired EXCEPT ![d] = asked[d]]
    /\ UNCHANGED <<remote, created, cloud, stateLock, first, snap, before, asked, todo, diff, history>>

\* Mutant: the error of AcquireLocks is overwritten and the run goes on.
MutAcquireIgnored(d) ==
    /\ Goto(d, "acquire", "locked")
    /\ \E l \in asked[d] : lockOwner[l] # NoOne
    /\ UNCHANGED <<shared, local, history>>

\* Another run holds one of the locks for longer than --lock-wait, or the call
\* fails; the plugin may have taken the locks, and the run does not know.
AcquireFails(d) ==
    /\ Goto(d, "acquire", "done")
    /\ \/ /\ "acquire" \in Faults \/ \E l \in asked[d] : lockOwner[l] # NoOne
          /\ UNCHANGED <<lockOwner, kept>>
       \/ /\ "acquire" \in Faults /\ \A l \in asked[d] : lockOwner[l] = NoOne
          /\ lockOwner' = [l \in LockIds |-> IF l \in asked[d] THEN d ELSE lockOwner[l]]
          /\ kept' = [kept EXCEPT ![d] = @ \cup {"named"}]
    /\ UNCHANGED <<remote, created, cloud, stateLock, local, mixed>>

\* buildApps or preChecks fails; planAndApply fails before it has a result.
PrepareFails(d) ==
    /\ "prepare" \in Faults
    /\ Goto(d, "locked", "release")
    /\ UNCHANGED <<shared, local, history>>

PlanFails(d) ==
    /\ "plan" \in Faults \/ UnknownTarget(d) \/ UnknownSkip(d, snap[d])
    /\ Goto(d, "locked", "release")
    /\ UNCHANGED <<shared, local, history>>

\* Mutant: promptDiff does not look at the acquired locks.
MutNoCheck(d, planned, changes) == {}

\* promptDiff: the locks of the changes that are not among the acquired ones.
Missing(d, planned, changes) ==
    {LockOf(d, planned, r) : r \in changes} \ acquired[d]

\* Mutant: the missing locks replace the list instead of extending it.
MutReplaceLocks(d, missing) == IF missing = {} THEN asked[d] ELSE missing

\* The list of lock names for the next round.
NextLocks(d, missing) == asked[d] \cup missing

\* planAndApply up to promptDiff: the plan, the locks it still misses, and
\* whether there is anything to ask about or to save.
Plan(d) ==
    LET s == snap[d]
        actual == Actual(d, s, cloud, Verify[d] \/ first[d])
        planned == [ent |-> Desired(d, s), reg |-> actual]
        changes == Changes(d, s, actual)
        missing == Missing(d, planned, changes)
    IN  /\ ~UnknownTarget(d) /\ ~UnknownSkip(d, s)
        /\ Goto(d, "locked", IF missing # {} THEN "relock"
                             ELSE IF changes # {} THEN "prompt"
                             ELSE IF planned # s THEN "save" ELSE "release")
        /\ before' = [before EXCEPT ![d] = s]
        /\ snap' = [snap EXCEPT ![d] = planned]
        /\ todo' = [todo EXCEPT ![d] = IF missing = {} THEN changes ELSE {}]
        /\ asked' = [asked EXCEPT ![d] = NextLocks(d, missing)]
        /\ UNCHANGED <<shared, first, acquired, diff, history>>

\* Some locks are missing: give all of them back, read the state again, and
\* acquire the longer list.  A run that cannot give them back ends with them.
Relock(d) ==
    /\ \/ Goto(d, "relock", "reread") /\ ReleaseSucceeds(d)
       \/ Goto(d, "relock", "done") /\ ReleaseBreaks(d)
    /\ UNCHANGED <<remote, created, cloud, stateLock, local, mixed>>

Reread(d) ==
    /\ Goto(d, "reread", "acquire")
    /\ snap' = [snap EXCEPT ![d] = remote]
    /\ UNCHANGED <<shared, first, before, asked, acquired, todo, diff, history>>

Approve(d) ==
    /\ Goto(d, "prompt", "applying")
    /\ UNCHANGED <<shared, local, history>>

\* Mutant: a canceled run returns before it releases its locks.
MutCancelReturns(d) ==
    /\ Goto(d, "prompt", "done")
    /\ todo' = [todo EXCEPT ![d] = {}]
    /\ UNCHANGED <<shared, first, snap, before, asked, acquired, diff, history>>

Cancel(d) ==
    /\ Goto(d, "prompt", "release")
    /\ todo' = [todo EXCEPT ![d] = {}]
    /\ UNCHANGED <<shared, first, snap, before, asked, acquired, diff, history>>

\* A plugin makes one of the planned changes and records it.
ApplyOne(d, r) ==
    /\ pc[d] = "applying" /\ r \in todo[d]
    /\ cloud' = [cloud EXCEPT ![r] = snap[d].ent[r]]
    /\ snap' = [snap EXCEPT ![d].reg[r] = snap[d].ent[r]]
    /\ todo' = [todo EXCEPT ![d] = @ \ {r}]
    /\ UNCHANGED <<remote, created, lockOwner, stateLock, pc, first, before, asked, acquired, diff, history>>

\* Mutant: the locks are released before the state is saved.
MutReleaseBeforeSave(d) ==
    /\ Goto(d, "applying", "failed")
    /\ todo[d] = {}
    /\ UNCHANGED <<shared, local, history>>

ApplyDone(d) ==
    /\ Goto(d, "applying", "save")
    /\ todo[d] = {}
    /\ UNCHANGED <<shared, local, history>>

\* A plugin or a hook fails, or the stream of a plugin breaks before its last
\* answer: some of the changes are made and not recorded, the others are dropped.
ApplyFails(d) ==
    /\ "apply" \in Faults
    /\ Goto(d, "applying", "failed")
    /\ \E lost \in SUBSET todo[d] :
          cloud' = [r \in Resources |-> IF r \in lost THEN snap[d].ent[r] ELSE cloud[r]]
    /\ todo' = [todo EXCEPT ![d] = {}]
    /\ UNCHANGED <<remote, created, lockOwner, stateLock, first, snap, before, asked, acquired, diff, history>>

\* planAndApply returned an error: the named locks go before the state is saved,
\* and an error of their release is ignored.
ReleaseEarly(d) ==
    /\ Goto(d, "failed", "save")
    /\ ReleaseSucceeds(d) \/ ReleaseBreaks(d)
    /\ UNCHANGED <<remote, created, cloud, stateLock, local, mixed>>

-----------------------------------------------------------------------------
(* multilockDeploy *)

\* Mutant: the state read at the start is saved again, with the diff on top.
MutLockWithoutReading(d) ==
    /\ Goto(d, "save", "write")
    /\ stateLock = NoOne
    /\ stateLock' = d
    /\ diff' = [diff EXCEPT ![d] = NewDiff(before[d], snap[d])]
    /\ snap' = [snap EXCEPT ![d] = before[d]]
    /\ UNCHANGED <<remote, created, cloud, lockOwner, first, before, asked, acquired, todo, history>>

\* getState with the state lock; the diff of the planned state is kept aside.
\* When the plugin's answer is lost or cannot be decoded, the run has no lock info
\* to release the lock with.
LockState(d) ==
    /\ \/ Goto(d, "save", "write") /\ UNCHANGED kept
       \/ /\ "decode" \in Faults
          /\ Goto(d, "save", "release")
          /\ kept' = [kept EXCEPT ![d] = @ \cup {"state"}]
    /\ stateLock = NoOne
    /\ stateLock' = d
    /\ diff' = [diff EXCEPT ![d] = NewDiff(before[d], snap[d])]
    /\ snap' = [snap EXCEPT ![d] = remote]
    /\ UNCHANGED <<remote, created, cloud, lockOwner, first, before, asked, acquired, todo, mixed>>

\* The state cannot be read, or its lock stays taken for stateLockWait: by a run
\* that will not give it back, or, if "timeout" is a fault, by one slow to save.
LockStateFails(d) ==
    /\ Goto(d, "save", "release")
    /\ \/ "read" \in Faults
       \/ /\ stateLock # NoOne
          /\ "timeout" \in Faults \/ pc[stateLock] \notin {"write", "unlock"}
    /\ UNCHANGED <<shared, local, history>>

Write(d) ==
    /\ Goto(d, "write", "unlock")
    /\ ~ApplyPanics(diff[d], snap[d])
    /\ snap' = [snap EXCEPT ![d] = ApplyDiff(diff[d], snap[d])]
    /\ remote' = snap'[d]
    /\ mixed' = mixed \cup Mixtures(diff[d], snap[d])
    /\ UNCHANGED <<created, cloud, lockOwner, stateLock, first, before, asked, acquired, todo, diff, kept>>

WriteFails(d) ==
    /\ "save" \in Faults
    /\ Goto(d, "write", "unlock")
    /\ ~ApplyPanics(diff[d], snap[d])
    /\ UNCHANGED <<shared, local, history>>

WritePanics(d) ==
    /\ Goto(d, "write", "crashed")
    /\ ApplyPanics(diff[d], snap[d])
    /\ UNCHANGED <<shared, local, history>>

\* An error of releaseStateLock is "less important": the run goes on.
UnlockState(d) ==
    /\ Goto(d, "unlock", "release")
    /\ \/ stateLock' = NoOne /\ UNCHANGED kept
       \/ /\ "release" \in Faults
          /\ stateLock' \in {d, NoOne}
          /\ kept' = [kept EXCEPT ![d] = @ \cup {"state"}]
    /\ UNCHANGED <<remote, created, cloud, lockOwner, local, mixed>>

ReleaseLocks(d) ==
    /\ Goto(d, "release", "done")
    /\ ReleaseSucceeds(d) \/ ReleaseBreaks(d)
    /\ UNCHANGED <<remote, created, cloud, stateLock, local, mixed>>

-----------------------------------------------------------------------------
(* What ends a run from outside, and what cleans up after it. *)

Crash(d) ==
    /\ "crash" \in Faults
    /\ pc[d] \notin {"done", "crashed"}
    /\ pc' = [pc EXCEPT ![d] = "crashed"]
    /\ UNCHANGED <<shared, local, history>>

\* `ok force-unlock' with what the lock error printed: the locks of a run that
\* is gone, or the lock of the state file.
ForceUnlock(d) ==
    /\ pc[d] \in {"done", "crashed"}
    /\ \/ /\ \E l \in LockIds : lockOwner[l] = d
          /\ lockOwner' = [l \in LockIds |-> IF lockOwner[l] = d THEN NoOne ELSE lockOwner[l]]
          /\ UNCHANGED stateLock
       \/ /\ stateLock = d
          /\ stateLock' = NoOne
          /\ UNCHANGED lockOwner
    /\ UNCHANGED <<remote, created, cloud, pc, local, history>>

-----------------------------------------------------------------------------

Step(d) ==
    \/ ReadState(d) \/ ReadFails(d)
    \/ Acquire(d) \/ AcquireFails(d)
    \/ PrepareFails(d) \/ PlanFails(d) \/ Plan(d)
    \/ Relock(d) \/ Reread(d)
    \/ Approve(d) \/ Cancel(d)
    \/ \E r \in Resources : ApplyOne(d, r)
    \/ ApplyDone(d) \/ ApplyFails(d) \/ ReleaseEarly(d)
    \/ LockState(d) \/ LockStateFails(d)
    \/ Write(d) \/ WriteFails(d) \/ WritePanics(d)
    \/ UnlockState(d) \/ ReleaseLocks(d)

Next == \E d \in Deployers : Step(d) \/ Crash(d) \/ ForceUnlock(d)

Spec == Init /\ [][Next]_vars

\* A process that runs goes on: every call it makes returns (the RPCs have
\* timeouts, the waits for locks end) and the user answers the prompt.
FairSpec == Spec /\ \A d \in Deployers : WF_vars(Step(d))

-----------------------------------------------------------------------------
(* Properties *)

\* Where a run may own locks, and where it owns all that it acquired.
MayOwn == {"locked", "relock", "prompt", "applying", "failed",
           "save", "write", "unlock", "release", "crashed"}
OwnsAll == {"locked", "relock", "prompt", "applying", "failed"}

\* The lock table and the runs agree on who owns what.
OwnersAgree ==
    \A d \in Deployers :
        /\ \A l \in LockIds : lockOwner[l] = d =>
              \/ l \in acquired[d] /\ pc[d] \in MayOwn
              \/ pc[d] = "done" /\ "named" \in kept[d]
        /\ pc[d] \in OwnsAll => \A l \in acquired[d] : lockOwner[l] = d

\* What a run is about to change is covered by what it acquired, and what it
\* acquired is what it asked for.
ChangesCovered ==
    \A d \in Deployers :
        /\ pc[d] = "locked" => asked[d] = acquired[d]
        /\ pc[d] \in {"prompt", "applying"} =>
              \A r \in todo[d] : LockOf(d, snap[d], r) \in acquired[d]

\* The run that is saving owns the lock of the state file, and it has the file as
\* it is; besides it, only one that a failed call left with the lock.
StateLockAgrees ==
    \A d \in Deployers :
        /\ stateLock = d =>
              \/ pc[d] \in {"write", "unlock", "crashed"}
              \/ pc[d] \in {"release", "done"} /\ "state" \in kept[d]
        /\ pc[d] \in {"write", "unlock"} => stateLock = d
        /\ pc[d] = "write" => snap[d] = remote

\* Runs own the locks that cover their changes, and the one that saves has the
\* file as it is: multilockDeploy and its locks, in every reachable state.
IInv == TypeOK /\ OwnersAgree /\ ChangesCovered /\ StateLockAgrees

\* A plugin changes a resource only while its run owns the lock that the check
\* in promptDiff asked for.
ApplyUnderLock ==
    \A d \in Deployers : pc[d] = "applying" =>
        \A r \in todo[d] : lockOwner[LockOf(d, snap[d], r)] = d

\* Two runs never change the same resource at the same time.
ExclusiveApply ==
    \A d, e \in Deployers :
        d # e /\ pc[d] = "applying" /\ pc[e] = "applying" => todo[d] \cap todo[e] = {}

\* Between the getState that takes the state lock and the save, the state file
\* is the one that was read: no save of another run is lost.
FreshWrite ==
    \A d \in Deployers : pc[d] = "write" => stateLock = d /\ snap[d] = remote

\* A run that has ended holds no lock that it could have released: named locks
\* only after the last call that was to release them failed, or one that was to
\* acquire them; the lock of the state file only after its release failed, or
\* the state that came with it could not be decoded.
LocksReturned ==
    \A d \in Deployers : pc[d] = "done" =>
        /\ stateLock = d => "state" \in kept[d]
        /\ (\E l \in LockIds : lockOwner[l] = d) => "named" \in kept[d]

\* While no run holds a lock that covers a resource, the state file records
\* what is deployed of it, unless a save had to merge its change of the resource
\* into a change that its run had not read.
RecordMatchesCloud ==
    \A r \in Resources \ mixed :
        lockOwner[r] = NoOne /\ lockOwner[PluginOf[r]] = NoOne => remote.reg[r] = cloud[r]

\* Applying the diff to the state file that was just read does not end the
\* process: the save, and the release of the state lock, still come.
DiffApplies ==
    \A d \in Deployers : pc[d] = "write" => ~ApplyPanics(diff[d], snap[d])

Saves(d) == pc[d] = "write" /\ pc'[d] = "unlock"

\* A save changes the records of what its run planned to change, and of an entry
\* the parts that the plan changes; all else it leaves as the last save left it.
SavesOnlyItsDiff ==
    [][\A d \in Deployers : Saves(d) =>
          \A r \in Resources :
              /\ ~Touches(diff[d], r) =>
                    remote'.ent[r] = remote.ent[r] /\ remote'.reg[r] = remote.reg[r]
              /\ diff[d].ent[r].op = "nested" =>
                    \A f \in Fields \ diff[d].ent[r].parts :
                        remote'.ent[r][f] = remote.ent[r][f]]_vars

\* A save never writes the record of a resource whose lock another run holds,
\* unless the record is a mixture already.
NoForeignSave ==
    [][\A d \in Deployers : Saves(d) =>
          \A r \in Touched(diff[d]) \ mixed : lockOwner[r] \in {d, NoOne}]_vars

\* Each time locks turn out to be missing, the run asks for more than it had:
\* the loop of multilockPlanAndApplyDeploy cannot go round forever.
RelockAsksMore ==
    [][\A d \in Deployers : pc[d] = "locked" /\ pc'[d] = "relock" =>
          acquired[d] \subseteq asked'[d] /\ acquired[d] # asked'[d]]_vars

\* Seen from the state file, a run is a client of a file with a lock.
StateFile == INSTANCE LockedStateFile WITH
    Holders <- Deployers, NoHolder <- NoOne, Contents <- States, NoCopy <- EmptyState,
    file <- remote, holder <- stateLock,
    copy <- IF stateLock = NoOne THEN EmptyState ELSE snap[stateLock]

\* The deployment implements the locked state file.
ImplementsStateFile == StateFile!Spec

\* Every run ends.
EveryRunEnds == \A d \in Deployers : <>(pc[d] \in {"done", "crashed"})
=============================================================================
