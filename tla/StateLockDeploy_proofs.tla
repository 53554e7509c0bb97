----------------------- MODULE StateLockDeploy_proofs -----------------------
(***************************************************************************)
(* The lock of the state file in StateLockDeploy: what it gives to runs    *)
(* that take it, next to runs that do not.                                 *)
(***************************************************************************)
EXTENDS StateLockDeploy, TLAPS

\* A plan is a well-typed pair of records, and its changes are resources.
LEMMA PlanTypes ==
    ASSUME NEW d \in Deployers, NEW s \in States, NEW c \in Recorded, NEW v \in BOOLEAN
    PROVE  /\ Desired(d, s) \in Recorded
           /\ Actual(d, s, c, v) \in Recorded
           /\ Changes(d, s, Actual(d, s, c, v)) \subseteq Resources
  <1>1. Config[d] \in Recorded
    BY OptionsAssumption
  <1>2. s.ent \in Recorded /\ s.reg \in Recorded
    BY DEF States
  <1>3. Desired(d, s) \in Recorded
    BY <1>1, <1>2 DEF Desired, Recorded
  <1>4. Actual(d, s, c, v) \in Recorded
    BY <1>2 DEF Actual, Recorded
  <1> QED
    BY <1>3, <1>4 DEF Changes

\* The empty state is well typed.
LEMMA EmptyStateType == EmptyState \in States
  BY DEF EmptyState, States, Nothing, Recorded

\* No step takes a variable out of its type.
LEMMA TypeStep == TypeOK /\ [Next]_vars => TypeOK'
<1> SUFFICES ASSUME TypeOK, [Next]_vars PROVE TypeOK'
  OBVIOUS
<1> USE DEF TypeOK, PCs, Leaks, Goto, shared, local
<1>1. ASSUME NEW d \in Deployers, ReadState(d) \/ ReadFails(d) \/ DecodeFails(d) PROVE TypeOK'
  <2>1. created' \in BOOLEAN
    BY <1>1 DEF ReadState, ReadFails, DecodeFails
  <2>2. first' \in [Deployers -> BOOLEAN]
    BY <1>1, <2>1 DEF ReadState, ReadFails, DecodeFails
  <2>3. pc' \in [Deployers -> PCs]
    BY <1>1 DEF ReadState, ReadFails, DecodeFails
  <2>4. /\ UNCHANGED <<remote, cloud, todo>> /\ stateLock' \in Deployers \cup {NoOne}
        /\ snap' \in [Deployers -> States] /\ seen' \in [Deployers -> States]
        /\ left' \in [Deployers -> SUBSET Leaks]
    BY <1>1 DEF ReadState, ReadFails, DecodeFails
  <2> QED
    BY <2>1, <2>2, <2>3, <2>4
<1>2. ASSUME NEW d \in Deployers, Build(d) \/ BuildFails(d) \/ CheckFails(d) \/ PlanFails(d)
      PROVE  TypeOK'
  BY <1>2 DEF Build, BuildFails, CheckFails, PlanFails
<1>3. ASSUME NEW d \in Deployers, Plan(d) PROVE TypeOK'
  <2> DEFINE s == snap[d]
             actual == Actual(d, s, cloud, Verify[d] \/ first[d])
             planned == [ent |-> Desired(d, s), reg |-> actual]
             changes == Changes(d, s, actual)
  <2>1. s \in States /\ (Verify[d] \/ first[d]) \in BOOLEAN
    OBVIOUS
  <2>2. planned \in States /\ changes \in SUBSET Resources
    BY <2>1, PlanTypes DEF States
  <2> HIDE DEF s, actual, planned, changes
  <2>3. /\ pc' = [pc EXCEPT ![d] = IF changes # {} /\ d \notin Statuses THEN "prompt"
                                   ELSE IF changes # {} \/ planned # s THEN "save" ELSE "unlock"]
        /\ snap' = [snap EXCEPT ![d] = planned]
        /\ todo' = [todo EXCEPT ![d] = IF d \in Statuses THEN {} ELSE changes]
        /\ UNCHANGED <<shared, first, seen, left>>
    BY <1>3 DEF Plan, s, actual, planned, changes
  <2> QED
    BY <2>2, <2>3
<1>4. ASSUME NEW d \in Deployers, Approve(d) \/ Cancel(d) \/ ApplyDone(d) PROVE TypeOK'
  BY <1>4 DEF Approve, Cancel, ApplyDone
<1>5. ASSUME NEW d \in Deployers, NEW r \in Resources, ApplyOne(d, r) PROVE TypeOK'
  <2>1. snap[d] \in States /\ snap[d].ent[r] \in Values \cup {Absent}
    BY DEF States, Recorded
  <2>2. cloud' \in Recorded
    BY <1>5, <2>1 DEF ApplyOne, Recorded
  <2>3. snap' \in [Deployers -> States]
    BY <1>5, <2>1 DEF ApplyOne, States, Recorded
  <2> QED
    BY <1>5, <2>2, <2>3 DEF ApplyOne
<1>6. ASSUME NEW d \in Deployers, ApplyFails(d) PROVE TypeOK'
  <2>1. snap[d].ent \in Recorded
    BY DEF States
  <2>2. cloud' \in Recorded
    BY <1>6, <2>1 DEF ApplyFails, Recorded
  <2> QED
    BY <1>6, <2>2 DEF ApplyFails
<1>7. ASSUME NEW d \in Deployers, Save(d) \/ SaveFails(d) \/ Unlock(d) \/ UnlockFails(d)
      PROVE  TypeOK'
  BY <1>7 DEF Save, SaveFails, Unlock, UnlockFails
<1>8. ASSUME NEW d \in Deployers, Crash(d) \/ ForceUnlock(d) PROVE TypeOK'
  BY <1>8 DEF Crash, ForceUnlock
<1>9. CASE UNCHANGED vars
  BY <1>9 DEF vars
<1> QED
  BY <1>1, <1>2, <1>3, <1>4, <1>5, <1>6, <1>7, <1>8, <1>9 DEF Next, Step

-----------------------------------------------------------------------------
(* The lock of the state file *)

\* A step keeps the lock with the run that took it until that run releases it or
\* is gone.
LEMMA OwnershipStep == TypeOK /\ BusyRunsOwn /\ [Next]_vars => BusyRunsOwn'
<1> SUFFICES ASSUME TypeOK, BusyRunsOwn, [Next]_vars PROVE BusyRunsOwn'
  OBVIOUS
<1> USE DEF TypeOK, PCs, BusyRunsOwn, Busy, Goto, shared, local
<1>0. NoOne \notin Deployers /\ Locking \subseteq Deployers
  BY LockAssumption
<1>1. ASSUME NEW d \in Deployers, ReadState(d) \/ ReadFails(d) \/ DecodeFails(d)
      PROVE  BusyRunsOwn'
  BY <1>0, <1>1 DEF ReadState, ReadFails, DecodeFails
<1>2. ASSUME NEW d \in Deployers,
             \/ Build(d) \/ BuildFails(d) \/ CheckFails(d) \/ PlanFails(d)
             \/ Approve(d) \/ Cancel(d) \/ ApplyDone(d) \/ ApplyFails(d)
             \/ Save(d) \/ SaveFails(d) \/ Crash(d)
      PROVE  BusyRunsOwn'
  BY <1>0, <1>2 DEF Build, BuildFails, CheckFails, PlanFails, Approve, Cancel, ApplyDone,
     ApplyFails, Save, SaveFails, Crash
<1>3. ASSUME NEW d \in Deployers, Plan(d) PROVE BusyRunsOwn'
  <2>1. /\ UNCHANGED stateLock /\ pc[d] = "built"
        /\ \E to \in {"prompt", "save", "unlock"} : pc' = [pc EXCEPT ![d] = to]
    BY <1>3 DEF Plan
  <2> QED
    BY <1>0, <2>1
<1>4. ASSUME NEW d \in Deployers, NEW r \in Resources, ApplyOne(d, r) PROVE BusyRunsOwn'
  BY <1>4 DEF ApplyOne
<1>5. ASSUME NEW d \in Deployers, Unlock(d) \/ UnlockFails(d) \/ ForceUnlock(d)
      PROVE  BusyRunsOwn'
  BY <1>0, <1>5 DEF Unlock, UnlockFails, ForceUnlock
<1>6. CASE UNCHANGED vars
  BY <1>6 DEF vars
<1> QED
  BY <1>1, <1>2, <1>3, <1>4, <1>5, <1>6 DEF Next, Step

\* If every run locks, only the owner writes the file, and it keeps what it wrote.
LEMMA OwnerHasFileStep == IInv /\ [Next]_vars => OwnerHasFile'
<1> SUFFICES ASSUME IInv, [Next]_vars, Locking = Deployers,
                    NEW e \in Deployers, stateLock' = e
             PROVE  seen'[e] = remote'
  BY DEF OwnerHasFile
<1> USE DEF IInv, TypeOK, PCs, BusyRunsOwn, Busy, OwnerHasFile, Goto, shared, local
<1>0. NoOne \notin Deployers
  BY LockAssumption
<1>1. ASSUME NEW d \in Deployers, ReadState(d) \/ ReadFails(d) \/ DecodeFails(d)
      PROVE  seen'[e] = remote'
  BY <1>0, <1>1 DEF ReadState, ReadFails, DecodeFails
<1>2. ASSUME NEW d \in Deployers,
             \/ Build(d) \/ BuildFails(d) \/ CheckFails(d) \/ PlanFails(d) \/ Plan(d)
             \/ Approve(d) \/ Cancel(d) \/ ApplyDone(d) \/ ApplyFails(d)
             \/ SaveFails(d) \/ Crash(d) \/ \E r \in Resources : ApplyOne(d, r)
      PROVE  seen'[e] = remote'
  <2>1. UNCHANGED <<remote, stateLock, seen>>
    BY <1>2 DEF Build, BuildFails, CheckFails, PlanFails, Plan, Approve, Cancel, ApplyDone,
       ApplyFails, SaveFails, Crash, ApplyOne
  <2> QED
    BY <2>1
<1>3. ASSUME NEW d \in Deployers, Save(d) PROVE seen'[e] = remote'
  <2>1. stateLock = d
    BY <1>3 DEF Save
  <2> QED
    BY <1>3, <2>1 DEF Save
<1>4. ASSUME NEW d \in Deployers, Unlock(d) \/ UnlockFails(d) \/ ForceUnlock(d)
      PROVE  seen'[e] = remote'
  BY <1>0, <1>4 DEF Unlock, UnlockFails, ForceUnlock
<1>5. CASE UNCHANGED vars
  BY <1>5 DEF vars
<1> QED
  BY <1>1, <1>2, <1>3, <1>4, <1>5 DEF Next, Step

\* The inductive invariant: types, ownership of the lock, the owner's copy.
THEOREM LockInvariant == Spec => []IInv
<1>1. Init => IInv
  BY LockAssumption, EmptyStateType
     DEF Init, IInv, TypeOK, PCs, BusyRunsOwn, Busy, OwnerHasFile, States
<1>2. IInv /\ [Next]_vars => IInv'
  BY TypeStep, OwnershipStep, OwnerHasFileStep DEF IInv
<1> QED
  BY <1>1, <1>2, PTL DEF Spec

\* Of the runs that lock the state file, one at a time is between its read and
\* its release, whatever the others do without the lock.
THEOREM LockedRunsExclude == Spec => []OneLockedRun
<1>1. IInv => OneLockedRun
  BY DEF IInv, BusyRunsOwn, OneLockedRun
<1> QED
  BY <1>1, LockInvariant, PTL

\* If every run locks, a run that saves overwrites what it read.
THEOREM LockedSavesAreFresh == ASSUME Locking = Deployers PROVE Spec => NoLostSave
<1> DEFINE Fresh(d) == pc[d] = "save" /\ remote' # remote /\ pc'[d] = "unlock" => seen[d] = remote
<1>1. ASSUME IInv PROVE \A d \in Locking : Fresh(d)
  <2> SUFFICES ASSUME NEW d \in Locking, pc[d] = "save" PROVE seen[d] = remote
    OBVIOUS
  <2>1. stateLock = d
    BY <1>1 DEF IInv, BusyRunsOwn, Busy
  <2> QED
    BY <1>1, <2>1 DEF IInv, OwnerHasFile
<1> QED
  BY <1>1, LockInvariant, PTL DEF Spec, NoLostSave, Fresh

-----------------------------------------------------------------------------
(* The state file *)

\* If every run locks, a step of a run is a step of a client of the locked state
\* file, or leaves the file, its lock and the owner's copy alone.
LEMMA StateFileStep ==
    ASSUME Locking = Deployers, IInv, [Next]_vars
    PROVE  [StateFile!Next]_(StateFile!vars)
<1> USE DEF IInv, TypeOK, BusyRunsOwn, Busy, OwnerHasFile, Goto, shared, local, StateFile!vars
<1> DEFINE copy == IF stateLock = NoOne THEN EmptyState ELSE seen[stateLock]
<1> SUFFICES ASSUME NEW d \in Deployers, Step(d) \/ Crash(d) \/ ForceUnlock(d)
             PROVE  StateFile!Next \/ UNCHANGED <<remote, stateLock, copy>>
  BY DEF Next, vars
<1>1. NoOne \notin Deployers
  BY LockAssumption
<1>2. CASE ReadState(d) \/ DecodeFails(d)
  <2>1. StateFile!Take(d)
    BY <1>1, <1>2 DEF ReadState, DecodeFails, StateFile!Take
  <2> QED
    BY <2>1 DEF StateFile!Next
<1>3. CASE Save(d)
  <2>1. stateLock = d /\ seen[d] = remote /\ snap[d] \in States
    BY <1>3 DEF Save
  <2>2. StateFile!Put(d)
    BY <1>1, <1>3, <2>1 DEF Save, StateFile!Put
  <2> QED
    BY <2>2 DEF StateFile!Next
<1>4. CASE Unlock(d) \/ UnlockFails(d) \/ ForceUnlock(d)
  <2>1. stateLock = d /\ stateLock' \in {d, NoOne} /\ UNCHANGED <<remote, seen>>
    BY <1>4 DEF Unlock, UnlockFails, ForceUnlock
  <2>2. CASE stateLock' = d
    BY <2>1, <2>2
  <2>3. CASE stateLock' = NoOne
    <3>1. StateFile!Drop(d)
      BY <2>1, <2>3 DEF StateFile!Drop
    <3> QED
      BY <3>1 DEF StateFile!Next
  <2> QED
    BY <2>1, <2>2, <2>3
<1>5. CASE \/ ReadFails(d) \/ Build(d) \/ BuildFails(d) \/ CheckFails(d) \/ PlanFails(d) \/ Plan(d)
           \/ Approve(d) \/ Cancel(d) \/ ApplyDone(d) \/ ApplyFails(d)
           \/ SaveFails(d) \/ Crash(d) \/ \E r \in Resources : ApplyOne(d, r)
  <2>1. UNCHANGED <<remote, stateLock, seen>>
    BY <1>5 DEF ReadFails, Build, BuildFails, CheckFails, PlanFails, Plan, Approve, Cancel,
       ApplyDone, ApplyFails, SaveFails, Crash, ApplyOne
  <2> QED
    BY <2>1
<1> QED
  BY <1>2, <1>3, <1>4, <1>5 DEF Step

\* Runs that all lock the state file are clients that write it only under its
\* lock and over what they have read, whatever fails and whoever is killed.
THEOREM Refinement == ASSUME Locking = Deployers PROVE Spec => ImplementsStateFile
<1>1. Init => StateFile!Init
  BY LockAssumption DEF Init, StateFile!Init
<1>2. IInv /\ [Next]_vars => [StateFile!Next]_(StateFile!vars)
  BY StateFileStep
<1> QED
  BY <1>1, <1>2, LockInvariant, PTL DEF Spec, ImplementsStateFile, StateFile!Spec

-----------------------------------------------------------------------------
(* What is left when runs have ended *)

\* The owner of the lock is busy, was killed, or ended in a way that may keep the lock.
OwnerWorks ==
    \A d \in Deployers :
        stateLock = d => pc[d] \in Busy \cup {"crashed"} \/ (pc[d] = "done" /\ left[d] # {})

LEMMA OwnerWorksStep == IInv /\ OwnerWorks /\ [Next]_vars => OwnerWorks'
<1> SUFFICES ASSUME IInv, OwnerWorks, [Next]_vars PROVE OwnerWorks'
  OBVIOUS
<1> USE DEF IInv, TypeOK, PCs, BusyRunsOwn, Busy, OwnerWorks, Goto, shared, local
<1>0. NoOne \notin Deployers /\ Statuses \cap Locking = {}
  BY LockAssumption
<1>1. ASSUME NEW d \in Deployers, ReadState(d) \/ ReadFails(d) PROVE OwnerWorks'
  <2>1. stateLock # d
    BY <1>1 DEF ReadState, ReadFails
  <2> QED
    BY <1>0, <1>1, <2>1 DEF ReadState, ReadFails
<1>2. ASSUME NEW d \in Deployers, DecodeFails(d) \/ BuildFails(d) \/ PlanFails(d) \/ UnlockFails(d)
      PROVE  OwnerWorks'
  <2>1. /\ pc' = [pc EXCEPT ![d] = "done"] /\ stateLock' \in {stateLock, d, NoOne}
        /\ left'[d] # {} /\ \A e \in Deployers \ {d} : left'[e] = left[e]
    BY SMTT(30), <1>2 DEF DecodeFails, BuildFails, PlanFails, UnlockFails
  <2> QED
    BY <1>0, <2>1
<1>3. ASSUME NEW d \in Deployers,
             \/ Build(d) \/ CheckFails(d) \/ Approve(d) \/ Cancel(d)
             \/ ApplyDone(d) \/ ApplyFails(d) \/ Save(d) \/ SaveFails(d) \/ Crash(d)
      PROVE  OwnerWorks'
  BY <1>3 DEF Build, CheckFails, Approve, Cancel, ApplyDone, ApplyFails, Save, SaveFails, Crash
<1>4. ASSUME NEW d \in Deployers, Plan(d) PROVE OwnerWorks'
  <2>1. /\ UNCHANGED <<stateLock, left>>
        /\ \E to \in {"prompt", "save", "unlock"} : pc' = [pc EXCEPT ![d] = to]
    BY <1>4 DEF Plan
  <2> QED
    BY <2>1
<1>5. ASSUME NEW d \in Deployers, NEW r \in Resources, ApplyOne(d, r) PROVE OwnerWorks'
  BY <1>5 DEF ApplyOne
<1>6. ASSUME NEW d \in Deployers, Unlock(d) PROVE OwnerWorks'
  <2>1. stateLock' # d
    BY <1>0, <1>6 DEF Unlock
  <2> QED
    BY <1>0, <1>6, <2>1 DEF Unlock
<1>7. ASSUME NEW d \in Deployers, ForceUnlock(d) PROVE OwnerWorks'
  BY <1>0, <1>7 DEF ForceUnlock
<1>8. CASE UNCHANGED vars
  BY <1>8 DEF vars
<1> QED
  BY <1>1, <1>2, <1>3, <1>4, <1>5, <1>6, <1>7, <1>8 DEF Next, Step

\* Whatever fails: a run that has ended owns the lock of the state file only if it could
\* not decode the file, build or plan, or if the release of the lock failed.  A run that
\* is canceled, or that fails to check, apply or save, has given the lock back.
THEOREM LocksReturn == Spec => []LockReturned
<1>1. Init => OwnerWorks
  BY LockAssumption DEF Init, OwnerWorks
<1>2. IInv /\ OwnerWorks /\ [Next]_vars => OwnerWorks'
  BY OwnerWorksStep
<1>3. OwnerWorks => LockReturned
  BY DEF OwnerWorks, LockReturned, Busy
<1> QED
  BY <1>1, <1>2, <1>3, LockInvariant, PTL DEF Spec

\* What a run that is at work believes deployed is deployed; and so is what the
\* file records, unless the run at work is applying.
RecordKept ==
    /\ \A d \in Deployers :
          pc[d] \in {"read", "built", "prompt", "applying", "save"} => snap[d].reg = cloud
    /\ remote.reg # cloud => \E d \in Deployers : stateLock = d /\ pc[d] \in {"applying", "save"}

\* An exact registry stays what a plan works from, verified or not.
LEMMA ActualIsDeployed ==
    ASSUME NEW d \in Deployers, NEW s \in States, NEW v \in BOOLEAN
    PROVE  Actual(d, s, s.reg, v) = s.reg
  BY DEF Actual, States, Recorded

\* Runs that apply and save without an error keep the file exact.
LEMMA RecordStep ==
    ASSUME Locking = Deployers, Faults \cap {"apply", "save", "crash"} = {},
           IInv, RecordKept, [Next]_vars
    PROVE  RecordKept'
<1> USE DEF IInv, TypeOK, PCs, BusyRunsOwn, Busy, OwnerHasFile, RecordKept, Goto, shared, local
<1>0. NoOne \notin Deployers /\ Statuses = {}
  BY LockAssumption
<1>1. ASSUME NEW d \in Deployers, ReadState(d) \/ ReadFails(d) \/ DecodeFails(d)
      PROVE  RecordKept'
  BY <1>0, <1>1 DEF ReadState, ReadFails, DecodeFails
<1>2. ASSUME NEW d \in Deployers,
             \/ Build(d) \/ BuildFails(d) \/ CheckFails(d) \/ PlanFails(d)
             \/ Approve(d) \/ Cancel(d) \/ ApplyDone(d)
      PROVE  RecordKept'
  BY <1>2 DEF Build, BuildFails, CheckFails, PlanFails, Approve, Cancel, ApplyDone
<1>3. ASSUME NEW d \in Deployers, ApplyFails(d) \/ SaveFails(d) \/ Crash(d) PROVE FALSE
  BY <1>3 DEF ApplyFails, SaveFails, Crash
<1>4. ASSUME NEW d \in Deployers, Plan(d) PROVE RecordKept'
  <2>1. snap[d].reg = cloud /\ snap[d] \in States /\ (Verify[d] \/ first[d]) \in BOOLEAN
    BY <1>4, LockAssumption DEF Plan
  <2>2. Actual(d, snap[d], cloud, Verify[d] \/ first[d]) = cloud
    BY <2>1, ActualIsDeployed
  <2>3. /\ UNCHANGED <<shared, first, seen>> /\ pc[d] = "built"
        /\ \E to \in {"prompt", "save", "unlock"} : pc' = [pc EXCEPT ![d] = to]
        /\ snap' = [snap EXCEPT ![d] = [ent |-> Desired(d, snap[d]), reg |-> cloud]]
    BY <1>4, <2>2 DEF Plan
  <2> QED
    BY <2>3
<1>5. ASSUME NEW d \in Deployers, NEW r \in Resources, ApplyOne(d, r) PROVE RecordKept'
  <2>1. pc[d] = "applying" /\ stateLock = d /\ \A e \in Deployers \ {d} : pc[e] \notin Busy
    BY <1>5 DEF ApplyOne
  <2>2. snap[d].reg = cloud /\ snap[d] \in States
    BY <2>1
  <2>3. snap'[d].reg = [cloud EXCEPT ![r] = snap[d].ent[r]]
    BY <1>5, <2>2 DEF ApplyOne, States
  <2> QED
    BY <1>5, <2>1, <2>3 DEF ApplyOne
<1>6. ASSUME NEW d \in Deployers, Save(d) PROVE RecordKept'
  BY <1>6 DEF Save
<1>7. ASSUME NEW d \in Deployers, Unlock(d) \/ UnlockFails(d) \/ ForceUnlock(d)
      PROVE  RecordKept'
  BY <1>0, <1>7 DEF Unlock, UnlockFails, ForceUnlock
<1>8. CASE UNCHANGED vars
  BY <1>8 DEF vars
<1> QED
  BY <1>1, <1>2, <1>3, <1>4, <1>5, <1>6, <1>7, <1>8 DEF Next, Step

\* Runs that all lock, and whose plugins and saves do not fail, leave a file that
\* records what is deployed, whichever of them cancel or fail before they apply.
THEOREM RecordsMatch ==
    ASSUME Locking = Deployers, Faults \cap {"apply", "save", "crash"} = {}
    PROVE  Spec => []RecordMatchesCloud
<1>1. Init => RecordKept
  BY DEF Init, RecordKept
<1>2. IInv /\ RecordKept /\ [Next]_vars => RecordKept'
  BY RecordStep
<1>3. RecordKept => RecordMatchesCloud
  BY LockAssumption DEF RecordKept, RecordMatchesCloud
<1> QED
  BY <1>1, <1>2, <1>3, LockInvariant, PTL DEF Spec

-----------------------------------------------------------------------------
(* `ok status' *)

\* `ok status' applies nothing; without --verify, the state it holds is the one it
\* has read.
StatusCopies ==
    \A d \in Statuses :
        pc[d] \in Busy => /\ ~first[d] /\ pc[d] \notin {"prompt", "applying"}
                          /\ ~Verify[d] => snap[d] = seen[d]

\* A run that skips all apps and does not verify plans the state it is given.
LEMMA SkipAllPlansState ==
    ASSUME NEW d \in SkipAllApps, NEW s \in States, NEW c \in Recorded
    PROVE  [ent |-> Desired(d, s), reg |-> Actual(d, s, c, FALSE)] = s
  <1>1. s.ent \in Recorded /\ s.reg \in Recorded /\ s = [ent |-> s.ent, reg |-> s.reg]
    BY DEF States
  <1>2. FromConfig(d) = {} /\ FromState(d, s) = Present(s.ent)
    BY DEF FromConfig, FromState
  <1>3. Desired(d, s) = s.ent
    BY <1>1, <1>2 DEF Desired, Present, Recorded
  <1>4. Actual(d, s, c, FALSE) = s.reg
    BY <1>1 DEF Actual, Recorded
  <1> QED
    BY <1>1, <1>3, <1>4

\* No step of any run makes `ok status' plan anything.
LEMMA StatusStep == IInv /\ StatusCopies /\ [Next]_vars => StatusCopies'
<1> SUFFICES ASSUME IInv, StatusCopies, [Next]_vars PROVE StatusCopies'
  OBVIOUS
<1> USE DEF IInv, TypeOK, PCs, Busy, StatusCopies, Goto, shared, local
<1>0. /\ Statuses \subseteq Deployers /\ Statuses \subseteq SkipAllApps
      /\ Verify \in [Deployers -> BOOLEAN]
  BY LockAssumption
<1>1. ASSUME NEW d \in Deployers, ReadState(d) \/ ReadFails(d) \/ DecodeFails(d)
      PROVE  StatusCopies'
  <2>1. \A e \in Deployers \ {d} :
            pc'[e] = pc[e] /\ first'[e] = first[e] /\ snap'[e] = snap[e] /\ seen'[e] = seen[e]
    BY <1>1 DEF ReadState, ReadFails, DecodeFails
  <2>2. CASE ReadState(d)
    <3>1. pc'[d] \in {"read", "done"} /\ snap'[d] = seen'[d] /\ (d \in Statuses => ~first'[d])
      BY <2>2 DEF ReadState
    <3> QED
      BY <1>0, <2>1, <3>1
  <2>3. CASE ReadFails(d) \/ DecodeFails(d)
    <3>1. pc'[d] = "done"
      BY <2>3 DEF ReadFails, DecodeFails
    <3> QED
      BY <1>0, <2>1, <3>1
  <2> QED
    BY <1>1, <2>2, <2>3
<1>2. ASSUME NEW d \in Deployers,
             \/ Build(d) \/ BuildFails(d) \/ CheckFails(d) \/ PlanFails(d)
             \/ Approve(d) \/ Cancel(d) \/ ApplyDone(d) \/ ApplyFails(d)
             \/ SaveFails(d) \/ Unlock(d) \/ UnlockFails(d) \/ Crash(d) \/ ForceUnlock(d)
      PROVE  StatusCopies'
  <2>1. UNCHANGED <<first, snap, seen>>
    BY <1>2 DEF Build, BuildFails, CheckFails, PlanFails, Approve, Cancel, ApplyDone,
       ApplyFails, SaveFails, Unlock, UnlockFails, Crash, ForceUnlock
  <2>2. \A e \in Deployers \ {d} : pc'[e] = pc[e]
    BY <1>2 DEF Build, BuildFails, CheckFails, PlanFails, Approve, Cancel, ApplyDone,
       ApplyFails, SaveFails, Unlock, UnlockFails, Crash, ForceUnlock
  <2>3. pc'[d] \in Busy => pc[d] \in Busy
    BY <1>2 DEF Build, BuildFails, CheckFails, PlanFails, Approve, Cancel, ApplyDone,
       ApplyFails, SaveFails, Unlock, UnlockFails, Crash, ForceUnlock
  <2>4. pc'[d] \in {"prompt", "applying"} => pc[d] \in {"prompt", "applying"}
    BY <1>2 DEF Build, BuildFails, CheckFails, PlanFails, Approve, Cancel, ApplyDone,
       ApplyFails, SaveFails, Unlock, UnlockFails, Crash, ForceUnlock
  <2> QED
    BY <1>0, <2>1, <2>2, <2>3, <2>4
<1>3. ASSUME NEW d \in Deployers, Plan(d) PROVE StatusCopies'
  <2>1. /\ UNCHANGED <<first, seen>> /\ pc[d] = "built" /\ snap[d] \in States
        /\ \A e \in Deployers \ {d} : pc'[e] = pc[e] /\ snap'[e] = snap[e]
    BY <1>3 DEF Plan
  <2>2. ASSUME d \in Statuses, ~Verify[d] PROVE snap'[d] = snap[d]
    <3>1. (Verify[d] \/ first[d]) = FALSE
      BY <2>1, <2>2
    <3>2. snap'[d] = [ent |-> Desired(d, snap[d]), reg |-> Actual(d, snap[d], cloud, FALSE)]
      BY <1>3, <3>1 DEF Plan
    <3>3. [ent |-> Desired(d, snap[d]), reg |-> Actual(d, snap[d], cloud, FALSE)] = snap[d]
      BY ZenonT(60), <1>0, <2>1, <2>2, SkipAllPlansState
    <3> QED
      BY <3>2, <3>3
  <2>3. d \in Statuses => pc'[d] \in {"save", "unlock"}
    BY <1>3 DEF Plan
  <2> QED
    BY <1>0, <2>1, <2>2, <2>3
<1>4. ASSUME NEW d \in Deployers, NEW r \in Resources, ApplyOne(d, r) PROVE StatusCopies'
  <2>1. pc[d] = "applying"
    BY <1>4 DEF ApplyOne
  <2> QED
    BY <1>0, <1>4, <2>1 DEF ApplyOne
<1>5. ASSUME NEW d \in Deployers, Save(d) PROVE StatusCopies'
  BY <1>0, <1>5 DEF Save
<1>6. CASE UNCHANGED vars
  BY <1>6 DEF vars
<1> QED
  BY <1>1, <1>2, <1>3, <1>4, <1>5, <1>6 DEF Next, Step

\* Whatever happens, and whoever else deploys, all that `ok status' writes without
\* --verify is the state it has read.
THEOREM StatusWrites == Spec => StatusWritesBack
<1> DEFINE WritesBack(d) ==
        pc[d] = "save" /\ remote' # remote /\ pc'[d] = "unlock" /\ ~Verify[d] => remote' = seen[d]
<1>1. Init => StatusCopies
  BY LockAssumption DEF Init, StatusCopies, Busy
<1>2. IInv /\ StatusCopies /\ [Next]_vars => StatusCopies'
  BY StatusStep
<1>3. IInv /\ StatusCopies /\ [Next]_vars => \A d \in Statuses : WritesBack(d)
  <2> SUFFICES ASSUME IInv, StatusCopies, [Next]_vars, NEW d \in Statuses,
                      pc[d] = "save", remote' # remote, pc'[d] = "unlock", ~Verify[d]
               PROVE  remote' = seen[d]
    OBVIOUS
  <2> USE DEF IInv, TypeOK, Goto, shared, local
  <2>1. d \in Deployers /\ Verify \in [Deployers -> BOOLEAN]
    BY LockAssumption
  <2>2. ~Verify[d] => snap[d] = seen[d]
    BY <2>1 DEF StatusCopies, Busy
  <2>3. PICK e \in Deployers : Save(e)
    BY DEF Next, Step, vars, ReadState, ReadFails, DecodeFails, Build, BuildFails, CheckFails,
       PlanFails, Plan, Approve, Cancel, ApplyOne, ApplyDone, ApplyFails, SaveFails, Unlock,
       UnlockFails, Crash, ForceUnlock
  <2>4. e = d
    BY <2>1, <2>3 DEF Save
  <2> QED
    BY <2>1, <2>2, <2>3, <2>4 DEF Save
<1> QED
  BY <1>1, <1>2, <1>3, LockInvariant, PTL DEF Spec, StatusWritesBack, WritesBack

-----------------------------------------------------------------------------
(* The apps a run was not told to deploy *)

\* An app with an entry in the state that run d has read, and that d was told nothing
\* about: it is not among the targets d was given, and not skipped by name; or d leaves
\* every app as it is.
OutOfReach(d, a) ==
    /\ seen[d].ent[a] # Absent
    /\ d \in SkipAllApps \/ (Targets[d] # {} /\ a \notin Targets[d] /\ a \notin Skips[d])

\* Run d is about to leave app a as it is, and to write of it what it has read.
Spares(d, a) ==
    /\ pc[d] \in {"read", "built"} => snap[d] = seen[d]
    /\ pc[d] \in {"prompt", "applying"} => a \notin todo[d]
    /\ pc[d] \in {"prompt", "applying", "save"} =>
          snap[d].ent[a] = seen[d].ent[a] /\ snap[d].reg[a] = seen[d].reg[a]

Spared == \A d \in Deployers, a \in Apps : OutOfReach(d, a) => Spares(d, a)

\* The plan has such an app as the state has it.
LEMMA OutOfReachPlan ==
    ASSUME NEW d \in Deployers, NEW s \in States, NEW c \in Recorded, NEW v \in BOOLEAN,
           NEW a \in Apps, s.ent[a] # Absent,
           d \in SkipAllApps \/ (Targets[d] # {} /\ a \notin Targets[d] /\ a \notin Skips[d])
    PROVE  /\ Desired(d, s)[a] = s.ent[a]
           /\ Actual(d, s, c, v)[a] = s.reg[a]
           /\ a \notin Changes(d, s, Actual(d, s, c, v))
<1>1. a \in Resources
  BY DEF Resources
<1>2. a \notin FromConfig(d)
  BY DEF FromConfig
<1>3. a \in FromState(d, s)
  BY <1>1 DEF FromState, Filtered, Present
<1>4. a \in LeftAlone(d, s)
  BY <1>3 DEF LeftAlone, Planned
<1> QED
  BY <1>1, <1>2, <1>3, <1>4 DEF Desired, Actual, Changes

\* Steps of one run leave what the others have read and planned alone.
LEMMA OthersSpare ==
    ASSUME TypeOK, NEW d \in Deployers, Step(d) \/ Crash(d) \/ ForceUnlock(d),
           NEW e \in Deployers \ {d}
    PROVE  pc'[e] = pc[e] /\ todo'[e] = todo[e] /\ snap'[e] = snap[e] /\ seen'[e] = seen[e]
<1> USE DEF TypeOK, Goto, shared, local
<1>1. CASE \/ ReadState(d) \/ ReadFails(d) \/ DecodeFails(d)
           \/ Build(d) \/ BuildFails(d) \/ CheckFails(d) \/ PlanFails(d)
  BY <1>1 DEF ReadState, ReadFails, DecodeFails, Build, BuildFails, CheckFails, PlanFails
<1>2. CASE Plan(d)
  BY <1>2 DEF Plan
<1>3. CASE Approve(d) \/ Cancel(d) \/ ApplyDone(d) \/ ApplyFails(d)
  BY <1>3 DEF Approve, Cancel, ApplyDone, ApplyFails
<1>4. CASE \E r \in Resources : ApplyOne(d, r)
  BY <1>4 DEF ApplyOne
<1>5. CASE Save(d) \/ SaveFails(d) \/ Unlock(d) \/ UnlockFails(d) \/ Crash(d) \/ ForceUnlock(d)
  BY <1>5 DEF Save, SaveFails, Unlock, UnlockFails, Crash, ForceUnlock
<1> QED
  BY <1>1, <1>2, <1>3, <1>4, <1>5 DEF Step

\* A step of the run itself: what is out of its reach stays out of its plan, and is not
\* changed by it.
LEMMA SparedByStep ==
    ASSUME TypeOK, Spared, NEW d \in Deployers, Step(d) \/ Crash(d) \/ ForceUnlock(d), NEW a \in Apps
    PROVE  /\ OutOfReach(d, a)' => Spares(d, a)'
           /\ OutOfReach(d, a) =>
                 /\ cloud'[a] = cloud[a]
                 /\ \/ UNCHANGED remote
                    \/ /\ pc[d] = "save" /\ pc'[d] = "unlock"
                       /\ remote'.ent[a] = seen[d].ent[a] /\ remote'.reg[a] = seen[d].reg[a]
<1> USE DEF TypeOK, Goto, shared, local
<1>0. a \in Resources /\ (OutOfReach(d, a) => Spares(d, a))
  BY DEF Resources, Spared
<1>1. CASE ReadState(d)
  <2>1. UNCHANGED <<cloud, remote>> /\ pc'[d] \in {"read", "done"} /\ snap'[d] = seen'[d]
    BY <1>1 DEF ReadState
  <2> QED
    BY <2>1 DEF Spares
<1>2. CASE Build(d)
  BY <1>0, <1>2 DEF Build, Spares, OutOfReach
<1>3. CASE Plan(d)
  <2> DEFINE s == snap[d]
             verify == Verify[d] \/ first[d]
             actual == Actual(d, s, cloud, verify)
             changes == Changes(d, s, actual)
  <2>1. /\ UNCHANGED <<cloud, remote, seen>> /\ pc[d] = "built"
        /\ snap'[d] = [ent |-> Desired(d, s), reg |-> actual]
        /\ todo'[d] \subseteq changes
        /\ pc'[d] \in {"prompt", "save", "unlock"}
    BY <1>3 DEF Plan
  <2>2. s \in States /\ cloud \in Recorded /\ verify \in BOOLEAN
    BY LockAssumption
  <2>3. OutOfReach(d, a)' => OutOfReach(d, a) /\ s = seen[d]
    BY <1>0, <2>1 DEF OutOfReach, Spares
  <2> HIDE DEF s, verify
  <2>4. ASSUME s.ent[a] # Absent,
               d \in SkipAllApps \/ (Targets[d] # {} /\ a \notin Targets[d] /\ a \notin Skips[d])
        PROVE  Desired(d, s)[a] = s.ent[a] /\ actual[a] = s.reg[a] /\ a \notin changes
    BY <2>2, <2>4, OutOfReachPlan
  <2> HIDE DEF actual, changes
  <2>5. OutOfReach(d, a)' =>
            Desired(d, s)[a] = s.ent[a] /\ actual[a] = s.reg[a] /\ a \notin changes /\ s = seen[d]
    BY <2>3, <2>4 DEF OutOfReach
  <2> QED
    BY <2>1, <2>5 DEF Spares
<1>4. CASE Approve(d) \/ Cancel(d) \/ ApplyDone(d)
  <2>1. /\ UNCHANGED <<cloud, remote, snap, seen>> /\ todo'[d] \subseteq todo[d]
        /\ \/ pc[d] = "prompt" /\ pc'[d] \in {"applying", "unlock"}
           \/ pc[d] = "applying" /\ pc'[d] = "save"
    BY <1>4 DEF Approve, Cancel, ApplyDone
  <2> QED
    BY <1>0, <2>1 DEF Spares, OutOfReach
<1>5. ASSUME NEW r \in Resources, ApplyOne(d, r)
      PROVE  /\ OutOfReach(d, a)' => Spares(d, a)'
             /\ OutOfReach(d, a) => cloud'[a] = cloud[a] /\ UNCHANGED remote
  <2>1. /\ pc[d] = "applying" /\ r \in todo[d] /\ cloud' = [cloud EXCEPT ![r] = snap[d].ent[r]]
        /\ snap' = [snap EXCEPT ![d].reg[r] = snap[d].ent[r]]
        /\ todo'[d] = todo[d] \ {r} /\ UNCHANGED <<remote, pc, seen>>
    BY <1>5 DEF ApplyOne
  <2>2. OutOfReach(d, a) => a # r /\ a \notin todo[d]
    BY <1>0, <2>1 DEF Spares
  <2>3. a # r => cloud'[a] = cloud[a] /\ snap'[d].ent[a] = snap[d].ent[a] /\ snap'[d].reg[a] = snap[d].reg[a]
    BY <1>0, <2>1 DEF States, Recorded
  <2>4. OutOfReach(d, a)' <=> OutOfReach(d, a)
    BY <2>1 DEF OutOfReach
  <2> QED
    BY <1>0, <2>1, <2>2, <2>3, <2>4 DEF Spares
<1>6. CASE ApplyFails(d)
  <2>1. PICK lost \in SUBSET todo[d] :
            cloud' = [r \in Resources |-> IF r \in lost THEN snap[d].ent[r] ELSE cloud[r]]
    BY <1>6 DEF ApplyFails
  <2>2. pc[d] = "applying" /\ pc'[d] = "save" /\ UNCHANGED <<remote, snap, seen>>
    BY <1>6 DEF ApplyFails
  <2> QED
    BY <1>0, <2>1, <2>2 DEF Spares, OutOfReach
<1>7. CASE Save(d)
  <2>1. pc[d] = "save" /\ pc'[d] = "unlock" /\ cloud' = cloud /\ remote' = snap[d]
    BY <1>7 DEF Save
  <2> QED
    BY <1>0, <2>1 DEF Spares
<1>8. CASE \/ ReadFails(d) \/ DecodeFails(d) \/ BuildFails(d) \/ CheckFails(d) \/ PlanFails(d)
           \/ SaveFails(d) \/ Unlock(d) \/ UnlockFails(d) \/ Crash(d) \/ ForceUnlock(d)
  <2>1. pc'[d] \in {"unlock", "done", "crashed"} /\ UNCHANGED <<cloud, remote>>
    BY <1>8 DEF ReadFails, DecodeFails, BuildFails, CheckFails, PlanFails, SaveFails, Unlock,
                UnlockFails, Crash, ForceUnlock
  <2> QED
    BY <2>1 DEF Spares
<1> QED
  BY <1>1, <1>2, <1>3, <1>4, <1>5, <1>6, <1>7, <1>8 DEF Step

LEMMA SparedStep == IInv /\ Spared /\ [Next]_vars => Spared'
<1> SUFFICES ASSUME IInv, Spared, [Next]_vars, NEW d \in Deployers, NEW a \in Apps
             PROVE  OutOfReach(d, a)' => Spares(d, a)'
  BY DEF Spared
<1>1. CASE UNCHANGED vars
  BY <1>1 DEF vars, shared, local, Spared, OutOfReach, Spares
<1>2. CASE Next
  <2>1. PICK e \in Deployers : Step(e) \/ Crash(e) \/ ForceUnlock(e)
    BY <1>2 DEF Next
  <2>2. CASE e = d
    BY <2>1, <2>2, SparedByStep DEF IInv
  <2>3. CASE e # d
    BY <2>1, <2>3, OthersSpare DEF IInv, Spared, OutOfReach, Spares
  <2> QED
    BY <2>2, <2>3
<1> QED
  BY <1>1, <1>2

\* The step is d's: it changes where d is, or what d has still to do.
Moves(d) == pc'[d] # pc[d] \/ todo'[d] # todo[d]

\* Whatever fails, and whoever else deploys: a run changes no app that it was told
\* nothing about, and writes of it what it has read; and if every run locks the state
\* file, that is what the file has of it.
THEOREM OtherAppsStay ==
    Spec => [][\A d \in Deployers, a \in Apps : Moves(d) /\ OutOfReach(d, a) =>
                  /\ cloud'[a] = cloud[a]
                  /\ remote' # remote =>
                        remote'.ent[a] = seen[d].ent[a] /\ remote'.reg[a] = seen[d].reg[a]
                  /\ Locking = Deployers =>
                        remote'.ent[a] = remote.ent[a] /\ remote'.reg[a] = remote.reg[a]]_vars
<1> DEFINE Stays(d, a) ==
              /\ cloud'[a] = cloud[a]
              /\ remote' # remote =>
                    remote'.ent[a] = seen[d].ent[a] /\ remote'.reg[a] = seen[d].reg[a]
              /\ Locking = Deployers =>
                    remote'.ent[a] = remote.ent[a] /\ remote'.reg[a] = remote.reg[a]
           Still == \A d \in Deployers, a \in Apps : Moves(d) /\ OutOfReach(d, a) => Stays(d, a)
<1>1. Init => Spared
  BY DEF Init, Spared, Spares
<1>2. ASSUME IInv, Spared, [Next]_vars PROVE [Still]_vars
  <2> SUFFICES ASSUME Next, NEW d \in Deployers, NEW a \in Apps, Moves(d), OutOfReach(d, a)
               PROVE  Stays(d, a)
    BY <1>2
  <2>1. PICK e \in Deployers : Step(e) \/ Crash(e) \/ ForceUnlock(e)
    BY DEF Next
  <2>2. e = d
    BY <1>2, <2>1, OthersSpare DEF IInv, Moves
  <2>3. /\ cloud'[a] = cloud[a]
        /\ \/ UNCHANGED remote
           \/ /\ pc[d] = "save"
              /\ remote'.ent[a] = seen[d].ent[a] /\ remote'.reg[a] = seen[d].reg[a]
    BY <1>2, <2>1, <2>2, SparedByStep DEF IInv
  <2>4. Locking = Deployers /\ pc[d] = "save" => seen[d] = remote
    BY <1>2 DEF IInv, BusyRunsOwn, Busy, OwnerHasFile
  <2> QED
    BY <2>3, <2>4
<1> QED
  BY <1>1, <1>2, LockInvariant, SparedStep, PTL DEF Spec
=============================================================================
