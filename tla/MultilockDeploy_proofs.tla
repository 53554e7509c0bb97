----------------------- MODULE MultilockDeploy_proofs -----------------------
(***************************************************************************)
(* The plan, the diff and the locking of MultilockDeploy, for any number   *)
(* of runs and resources, any projects and options, and any failures.      *)
(***************************************************************************)
EXTENDS MultilockDeploy, FiniteSetTheorems, TLAPS

-----------------------------------------------------------------------------
(* DeployPlan: the plan, and the diff of two states *)

\* A plan is a well-typed pair of records, and its changes are resources.
LEMMA PlanTypes ==
    ASSUME NEW d \in Deployers, NEW s \in States, NEW c \in Recorded, NEW v \in BOOLEAN
    PROVE  /\ Desired(d, s) \in Recorded
           /\ Actual(d, s, c, v) \in Recorded
           /\ Changes(d, s, Actual(d, s, c, v)) \subseteq Resources
  <1>1. Config[d] \in Recorded
    BY OptionsAssumption
  <1>2. s.ent \in Recorded /\ s.reg \in Recorded
    BY DEF States
  <1>3. Desired(d, s) \in Recorded
    BY <1>1, <1>2 DEF Desired, Recorded
  <1>4. Actual(d, s, c, v) \in Recorded
    BY <1>2 DEF Actual, Recorded
  <1> QED
    BY <1>3, <1>4 DEF Changes

\* Every lock a run asks for is the id of a resource or of a plugin.
LEMMA LockTypes ==
    ASSUME NEW d \in Deployers, NEW s \in States
    PROVE  /\ PartialLockIds(d, s) \subseteq LockIds
           /\ AllLockIds(d, s) \subseteq LockIds
           /\ \A r \in Resources : LockOf(d, s, r) \in LockIds
  <1>1. \A r \in Resources : PluginOf[r] \in Plugins
    BY OptionsAssumption
  <1> QED
    BY <1>1 DEF PartialLockIds, AllLockIds, LockOf, LockIds, Resources, Present

\* The change of one key, and what it makes of the value it was computed from.
LEMMA KeyDiffRoundTrip ==
    ASSUME NEW old \in Values \cup {Absent}, NEW new \in Values \cup {Absent},
           NEW fresh \in {"set", "create"}, NEW both \in {"nested", "merge"}
    PROVE  /\ KeyDiff(old, new, fresh, both) \in KeyDiffs(fresh, both)
           /\ ApplyKey(KeyDiff(old, new, fresh, both), old) = new
           /\ KeyDiff(old, new, fresh, both).op = "keep" <=> old = new
           /\ KeyDiff(old, new, fresh, both).op \in {"nested", "merge"} => old # Absent
  <1>1. CASE old = new
    <2>1. KeyDiff(old, new, fresh, both) = [op |-> "keep"]
      BY <1>1 DEF KeyDiff
    <2> QED
      BY <1>1, <2>1 DEF ApplyKey, KeyDiffs
  <1>2. CASE old # new /\ new = Absent
    <2>1. KeyDiff(old, new, fresh, both) = [op |-> "delete"]
      BY <1>2 DEF KeyDiff
    <2> QED
      BY <1>2, <2>1 DEF ApplyKey, KeyDiffs
  <1>3. CASE old # new /\ new # Absent /\ old = Absent
    <2>1. KeyDiff(old, new, fresh, both) = [op |-> fresh, to |-> new]
      BY <1>3 DEF KeyDiff
    <2>2. KeyDiff(old, new, fresh, both) \in KeyDiffs(fresh, both)
      BY <1>3, <2>1 DEF KeyDiffs
    <2> QED
      BY <1>3, <2>1, <2>2 DEF ApplyKey
  <1>4. CASE old # new /\ new # Absent /\ old # Absent
    <2> DEFINE parts == {f \in Fields : old[f] # new[f]}
               kd == [op |-> both, to |-> new, parts |-> parts]
    <2>1. KeyDiff(old, new, fresh, both) = kd
      BY <1>4 DEF KeyDiff
    <2>2. kd \in KeyDiffs(fresh, both)
      BY <1>4 DEF KeyDiffs
    <2>3. Overlay(old, kd) = new
      <3>1. old \in [Fields -> Contents \cup {Absent}] /\ new \in [Fields -> Contents \cup {Absent}]
        BY <1>4, ValuesAssumption
      <3> QED
        BY <3>1 DEF Overlay
    <2>4. ApplyKey(kd, old) = Overlay(old, kd)
      BY <1>4 DEF ApplyKey
    <2> QED
      BY <1>4, <2>1, <2>2, <2>3, <2>4
  <1> QED
    BY <1>1, <1>2, <1>3, <1>4

\* What the change of one key makes of a value that it can be applied to.
LEMMA ApplyKeyTypes ==
    ASSUME NEW fresh \in {"set", "create"}, NEW both \in {"nested", "merge"},
           NEW kd \in KeyDiffs(fresh, both), NEW v \in Values \cup {Absent},
           kd.op = "nested" => v # Absent
    PROVE  /\ ApplyKey(kd, v) \in Values \cup {Absent}
           /\ kd.op \notin {"keep", "delete"} => ApplyKey(kd, v) \in Values
  <1>1. kd.op \in {"keep", "delete", "set", "create", "nested", "merge"}
    BY DEF KeyDiffs
  <1>2. kd.op \in {"set", "create", "nested", "merge"} => kd.to \in Values
    BY DEF KeyDiffs
  <1>3. CASE kd.op \in {"keep", "delete", "set", "create"} \/ v = Absent
    BY <1>1, <1>2, <1>3 DEF ApplyKey
  <1>4. CASE kd.op \in {"nested", "merge"} /\ v # Absent
    <2>1. kd.to \in [Fields -> Contents \cup {Absent}] /\ v \in [Fields -> Contents \cup {Absent}]
      BY <1>2, <1>4, ValuesAssumption
    <2>2. Overlay(v, kd) \in [Fields -> Contents \cup {Absent}]
      BY <2>1 DEF Overlay
    <2>3. ApplyKey(kd, v) = Overlay(v, kd)
      BY <1>4 DEF ApplyKey
    <2> QED
      BY <2>2, <2>3, ValuesAssumption
  <1> QED
    BY <1>1, <1>3, <1>4

\* A diff of two states is well typed, and so is what it makes of a third.
LEMMA DiffTypes ==
    ASSUME NEW old \in States, NEW new \in States
    PROVE  NewDiff(old, new) \in Diffs
  <1>1. \A r \in Resources :
            /\ old.ent[r] \in Values \cup {Absent} /\ old.reg[r] \in Values \cup {Absent}
            /\ new.ent[r] \in Values \cup {Absent} /\ new.reg[r] \in Values \cup {Absent}
    BY DEF States, Recorded
  <1>2. \A r \in Resources :
            /\ KeyDiff(old.ent[r], new.ent[r], "set", "nested") \in KeyDiffs("set", "nested")
            /\ KeyDiff(old.reg[r], new.reg[r], "create", "merge") \in KeyDiffs("create", "merge")
    BY <1>1, KeyDiffRoundTrip
  <1> QED
    BY <1>2 DEF NewDiff, Diffs

LEMMA ApplyTypes ==
    ASSUME NEW delta \in Diffs, NEW s \in States, ~ApplyPanics(delta, s)
    PROVE  ApplyDiff(delta, s) \in States
  <1>1. ASSUME NEW r \in Resources
        PROVE  ApplyKey(delta.ent[r], s.ent[r]) \in Values \cup {Absent}
    <2>1. delta.ent[r] \in KeyDiffs("set", "nested") /\ s.ent[r] \in Values \cup {Absent}
      BY DEF Diffs, States, Recorded
    <2>2. delta.ent[r].op = "nested" => s.ent[r] # Absent
      BY DEF ApplyPanics
    <2> QED
      BY <2>1, <2>2, ApplyKeyTypes
  <1>2. ASSUME NEW r \in Resources
        PROVE  ApplyKey(delta.reg[r], s.reg[r]) \in Values \cup {Absent}
    <2>1. delta.reg[r] \in KeyDiffs("create", "merge") /\ s.reg[r] \in Values \cup {Absent}
      BY DEF Diffs, States, Recorded
    <2>2. delta.reg[r].op # "nested"
      BY <2>1 DEF KeyDiffs
    <2> QED
      BY <2>1, <2>2, ApplyKeyTypes
  <1> QED
    BY <1>1, <1>2 DEF ApplyDiff, States, Recorded

\* A resource that the state has as the state which the diff was computed from is
\* left as the other state has it.
LEMMA DiffRoundTrip ==
    ASSUME NEW old \in States, NEW new \in States, NEW s \in States, NEW r \in Resources,
           s.ent[r] = old.ent[r], s.reg[r] = old.reg[r]
    PROVE  /\ ApplyDiff(NewDiff(old, new), s).ent[r] = new.ent[r]
           /\ ApplyDiff(NewDiff(old, new), s).reg[r] = new.reg[r]
           /\ r \notin Mixtures(NewDiff(old, new), s)
  <1>1. /\ old.ent[r] \in Values \cup {Absent} /\ old.reg[r] \in Values \cup {Absent}
        /\ new.ent[r] \in Values \cup {Absent} /\ new.reg[r] \in Values \cup {Absent}
    BY DEF States, Recorded
  <1>2. \A x, y \in Values \cup {Absent} :
            /\ ApplyKey(KeyDiff(x, y, "set", "nested"), x) = y
            /\ ApplyKey(KeyDiff(x, y, "create", "merge"), x) = y
    BY KeyDiffRoundTrip
  <1> DEFINE ent == KeyDiff(old.ent[r], new.ent[r], "set", "nested")
             reg == KeyDiff(old.reg[r], new.reg[r], "create", "merge")
  <1>3. ApplyKey(ent, old.ent[r]) = new.ent[r] /\ ApplyKey(reg, old.reg[r]) = new.reg[r]
    BY <1>1, <1>2
  <1>4. /\ ent.op # "keep" => new.ent[r] = IF ent.op = "delete" THEN Absent ELSE ent.to
        /\ reg.op # "keep" => new.reg[r] = IF reg.op = "delete" THEN Absent ELSE reg.to
    BY DEF KeyDiff
  <1>5. NewDiff(old, new).ent[r] = ent /\ NewDiff(old, new).reg[r] = reg
    BY DEF NewDiff
  <1> HIDE DEF ent, reg
  <1>6. ~Misses(ent, old.ent[r])
    BY <1>3, <1>4 DEF Misses
  <1>7. ~Misses(reg, old.reg[r])
    BY <1>3, <1>4 DEF Misses
  <1>8. r \notin Mixtures(NewDiff(old, new), s)
    BY <1>5, <1>6, <1>7 DEF Mixtures
  <1> QED
    BY <1>3, <1>5, <1>8 DEF ApplyDiff

\* The diff can only end the process on a state that lost an entry both of the
\* compared states have.
THEOREM PanicNeedsLostEntry ==
    ASSUME NEW old \in States, NEW new \in States, NEW s \in States,
           ApplyPanics(NewDiff(old, new), s)
    PROVE  \E r \in Resources :
               old.ent[r] # Absent /\ new.ent[r] # Absent /\ s.ent[r] = Absent
  <1>1. PICK r \in Resources : NewDiff(old, new).ent[r].op = "nested" /\ s.ent[r] = Absent
    BY DEF ApplyPanics
  <1>2. KeyDiff(old.ent[r], new.ent[r], "set", "nested").op = "nested"
    BY <1>1 DEF NewDiff
  <1>3. old.ent[r] # Absent /\ new.ent[r] # Absent
    BY <1>2 DEF KeyDiff
  <1> QED
    BY <1>1, <1>3

-----------------------------------------------------------------------------
(* Types *)

\* EmptyState and NoDiff are well typed.
LEMMA NothingTypes == EmptyState \in States /\ NoDiff \in Diffs
  BY DEF EmptyState, States, Nothing, Recorded, NoDiff, Diffs, KeyDiffs

\* Releasing locks leaves a lock table.
LEMMA ReleasedType ==
    ASSUME TypeOK, NEW d \in Deployers
    PROVE  Released(d) \in [LockIds -> Deployers \cup {NoOne}]
  BY DEF TypeOK, Released

\* The locks that promptDiff finds missing are lock ids.
LEMMA MissingType ==
    ASSUME NEW d \in Deployers, NEW s \in States, NEW changes \in SUBSET Resources
    PROVE  Missing(d, s, changes) \subseteq LockIds
  BY LockTypes DEF Missing

\* Every variable of the protocol keeps its type.
LEMMA TypeInit == Init => TypeOK
  <1> SUFFICES ASSUME Init PROVE TypeOK
    OBVIOUS
  <1>1. remote \in States /\ cloud \in Recorded
    BY LockAssumption DEF Init, States
  <1> QED
    BY <1>1, NothingTypes DEF Init, TypeOK, PCs

LEMMA TypeStep == TypeOK /\ [Next]_vars => TypeOK'
  <1> SUFFICES ASSUME TypeOK, [Next]_vars PROVE TypeOK'
    OBVIOUS
  <1> USE DEF TypeOK, PCs, LockKinds, Goto, shared, local, history
  <1>1. ASSUME NEW d \in Deployers, ReadState(d) PROVE TypeOK'
    BY <1>1, LockTypes DEF ReadState
  <1>2. ASSUME NEW d \in Deployers, ReadFails(d) PROVE TypeOK'
    BY <1>2 DEF ReadFails
  <1>3. ASSUME NEW d \in Deployers, Acquire(d) PROVE TypeOK'
    BY <1>3 DEF Acquire
  <1>4. ASSUME NEW d \in Deployers, AcquireFails(d) PROVE TypeOK'
    BY <1>4 DEF AcquireFails
  <1>5. ASSUME NEW d \in Deployers, PrepareFails(d) \/ PlanFails(d) PROVE TypeOK'
    BY <1>5 DEF PrepareFails, PlanFails
  <1>6. ASSUME NEW d \in Deployers, Plan(d) PROVE TypeOK'
    <2> DEFINE s == snap[d]
               actual == Actual(d, s, cloud, Verify[d] \/ first[d])
               planned == [ent |-> Desired(d, s), reg |-> actual]
               changes == Changes(d, s, actual)
               missing == Missing(d, planned, changes)
    <2>1. s \in States /\ (Verify[d] \/ first[d]) \in BOOLEAN
      OBVIOUS
    <2>2. planned \in States /\ changes \in SUBSET Resources
      BY <2>1, PlanTypes DEF States
    <2>3. missing \subseteq LockIds
      BY <2>2, MissingType
    <2> HIDE DEF s, actual, planned, changes, missing
    <2>4. /\ snap' = [snap EXCEPT ![d] = planned]
          /\ before' = [before EXCEPT ![d] = s]
          /\ todo' = [todo EXCEPT ![d] = IF missing = {} THEN changes ELSE {}]
          /\ asked' = [asked EXCEPT ![d] = asked[d] \cup missing]
          /\ pc' = [pc EXCEPT ![d] = IF missing # {} THEN "relock"
                                     ELSE IF changes # {} THEN "prompt"
                                     ELSE IF planned # s THEN "save" ELSE "release"]
          /\ UNCHANGED <<shared, first, acquired, diff, history>>
      BY <1>6 DEF Plan, NextLocks, s, actual, planned, changes, missing
    <2> QED
      BY <2>1, <2>2, <2>3, <2>4
  <1>7. ASSUME NEW d \in Deployers, Relock(d) PROVE TypeOK'
    <2>1. CASE Goto(d, "relock", "reread") /\ ReleaseSucceeds(d)
      BY <1>7, <2>1, ReleasedType DEF Relock, ReleaseSucceeds
    <2>2. CASE Goto(d, "relock", "done") /\ ReleaseBreaks(d)
      BY <1>7, <2>2, ReleasedType DEF Relock, ReleaseBreaks
    <2> QED
      BY <1>7, <2>1, <2>2 DEF Relock
  <1>8. ASSUME NEW d \in Deployers, Reread(d) PROVE TypeOK'
    BY <1>8 DEF Reread
  <1>9. ASSUME NEW d \in Deployers, Approve(d) \/ Cancel(d) PROVE TypeOK'
    BY <1>9 DEF Approve, Cancel
  <1>10. ASSUME NEW d \in Deployers, NEW r \in Resources, ApplyOne(d, r) PROVE TypeOK'
    <2>1. snap[d] \in States
      OBVIOUS
    <2>2. snap[d].ent[r] \in Values \cup {Absent}
      BY <2>1 DEF States, Recorded
    <2>3. cloud' \in Recorded
      BY <1>10, <2>2 DEF ApplyOne, Recorded
    <2>4. snap' \in [Deployers -> States]
      BY <1>10, <2>1, <2>2 DEF ApplyOne, States, Recorded
    <2> QED
      BY <1>10, <2>3, <2>4 DEF ApplyOne
  <1>11. ASSUME NEW d \in Deployers, ApplyDone(d) PROVE TypeOK'
    BY <1>11 DEF ApplyDone
  <1>12. ASSUME NEW d \in Deployers, ApplyFails(d) PROVE TypeOK'
    <2>1. snap[d].ent \in Recorded
      BY DEF States
    <2>2. cloud' \in Recorded
      BY <1>12, <2>1 DEF ApplyFails, Recorded
    <2> QED
      BY <1>12, <2>2 DEF ApplyFails
  <1>13. ASSUME NEW d \in Deployers, ReleaseEarly(d) PROVE TypeOK'
    BY <1>13, ReleasedType DEF ReleaseEarly, ReleaseSucceeds, ReleaseBreaks
  <1>14. ASSUME NEW d \in Deployers, LockState(d) PROVE TypeOK'
    BY <1>14, DiffTypes DEF LockState
  <1>15. ASSUME NEW d \in Deployers, LockStateFails(d) PROVE TypeOK'
    BY <1>15 DEF LockStateFails
  <1>16. ASSUME NEW d \in Deployers, Write(d) PROVE TypeOK'
    <2>1. ApplyDiff(diff[d], snap[d]) \in States
      BY <1>16, ApplyTypes DEF Write
    <2>2. Mixtures(diff[d], snap[d]) \subseteq Resources
      BY DEF Mixtures
    <2> QED
      BY <1>16, <2>1, <2>2 DEF Write
  <1>17. ASSUME NEW d \in Deployers, WriteFails(d) \/ WritePanics(d) PROVE TypeOK'
    BY <1>17 DEF WriteFails, WritePanics
  <1>18. ASSUME NEW d \in Deployers, UnlockState(d) PROVE TypeOK'
    BY <1>18 DEF UnlockState
  <1>19. ASSUME NEW d \in Deployers, ReleaseLocks(d) PROVE TypeOK'
    BY SMTT(30), <1>19, ReleasedType DEF ReleaseLocks, ReleaseSucceeds, ReleaseBreaks
  <1>20. ASSUME NEW d \in Deployers, Crash(d) PROVE TypeOK'
    BY <1>20 DEF Crash
  <1>21. ASSUME NEW d \in Deployers, ForceUnlock(d) PROVE TypeOK'
    BY <1>21 DEF ForceUnlock
  <1>22. CASE UNCHANGED vars
    BY <1>22 DEF vars
  <1> QED
    BY <1>1, <1>2, <1>3, <1>4, <1>5, <1>6, <1>7, <1>8, <1>9, <1>10, <1>11, <1>12,
       <1>13, <1>14, <1>15, <1>16, <1>17, <1>18, <1>19, <1>20, <1>21, <1>22
       DEF Next, Step

\* Every variable of the protocol keeps its type, whatever the runs do.
THEOREM TypeCorrect == Spec => []TypeOK
  BY TypeInit, TypeStep, PTL DEF Spec

-----------------------------------------------------------------------------
(* Locks *)

\* No run owns a lock of the initial state.
LEMMA LockInit == Init => IInv
  <1> SUFFICES ASSUME Init PROVE OwnersAgree /\ ChangesCovered /\ StateLockAgrees
    BY TypeInit DEF IInv
  <1> QED
    BY LockAssumption DEF Init, OwnersAgree, ChangesCovered, StateLockAgrees, MayOwn, OwnsAll

\* A step of one run keeps the lock table in agreement with all of them.
LEMMA LockStep == IInv /\ [Next]_vars => IInv'
  <1> SUFFICES ASSUME IInv, [Next]_vars
               PROVE  OwnersAgree' /\ ChangesCovered' /\ StateLockAgrees'
    BY TypeStep DEF IInv
  <1> DEFINE Good == OwnersAgree' /\ ChangesCovered' /\ StateLockAgrees'
  <1>0. TypeOK /\ NoOne \notin Deployers
    BY LockAssumption DEF IInv
  <1> USE <1>0 DEF IInv, TypeOK, Goto, shared, local, history, OwnersAgree, ChangesCovered,
                   StateLockAgrees, MayOwn, OwnsAll
  <1>1. ASSUME NEW d \in Deployers, ReadState(d) PROVE Good
    BY <1>1 DEF ReadState
  <1>2. ASSUME NEW d \in Deployers, ReadFails(d) PROVE Good
    BY <1>2 DEF ReadFails
  <1>3. ASSUME NEW d \in Deployers, Acquire(d) PROVE Good
    BY <1>3 DEF Acquire
  <1>4. ASSUME NEW d \in Deployers, AcquireFails(d) PROVE Good
    BY <1>4 DEF AcquireFails
  <1>5. ASSUME NEW d \in Deployers, PrepareFails(d) \/ PlanFails(d) PROVE Good
    BY <1>5 DEF PrepareFails, PlanFails
  <1>6. ASSUME NEW d \in Deployers, Plan(d) PROVE Good
    <2> DEFINE s == snap[d]
               actual == Actual(d, s, cloud, Verify[d] \/ first[d])
               planned == [ent |-> Desired(d, s), reg |-> actual]
               changes == Changes(d, s, actual)
               missing == Missing(d, planned, changes)
    <2> HIDE DEF s, actual, planned, changes, missing
    <2>1. /\ snap' = [snap EXCEPT ![d] = planned]
          /\ todo' = [todo EXCEPT ![d] = IF missing = {} THEN changes ELSE {}]
          /\ pc[d] = "locked"
          /\ pc' = [pc EXCEPT ![d] = IF missing # {} THEN "relock"
                                     ELSE IF changes # {} THEN "prompt"
                                     ELSE IF planned # s THEN "save" ELSE "release"]
          /\ UNCHANGED <<shared, acquired, history>>
      BY <1>6 DEF Plan, s, actual, planned, changes, missing
    <2>2. asked' = [asked EXCEPT ![d] = NextLocks(d, missing)]
      BY <1>6 DEF Plan, s, actual, planned, changes, missing
    <2>3. missing = {} => \A r \in changes : LockOf(d, planned, r) \in acquired[d]
      BY DEF missing, Missing
    <2>4. OwnersAgree'
      BY <2>1
    <2>5. ChangesCovered'
      BY <2>1, <2>2, <2>3
    <2>6. StateLockAgrees'
      BY <2>1
    <2> QED
      BY <2>4, <2>5, <2>6
  <1>7. ASSUME NEW d \in Deployers, Relock(d) PROVE Good
    BY <1>7 DEF Relock, Released, ReleaseSucceeds, ReleaseBreaks
  <1>8. ASSUME NEW d \in Deployers, Reread(d) PROVE Good
    BY <1>8 DEF Reread
  <1>9. ASSUME NEW d \in Deployers, Approve(d) \/ Cancel(d) PROVE Good
    BY <1>9 DEF Approve, Cancel
  <1>10. ASSUME NEW d \in Deployers, NEW r \in Resources, ApplyOne(d, r) PROVE Good
    <2>1. \A q \in Resources : LockOf(d, snap'[d], q) = LockOf(d, snap[d], q)
      BY <1>10 DEF ApplyOne, LockOf, Present, States
    <2>2. ChangesCovered'
      BY SMTT(30), <1>10, <2>1 DEF ApplyOne
    <2> QED
      BY SMTT(30), <1>10, <2>2 DEF ApplyOne
  <1>11. ASSUME NEW d \in Deployers, ApplyDone(d) PROVE Good
    BY <1>11 DEF ApplyDone
  <1>12. ASSUME NEW d \in Deployers, ApplyFails(d) PROVE Good
    BY <1>12 DEF ApplyFails
  <1>13. ASSUME NEW d \in Deployers, ReleaseEarly(d) PROVE Good
    BY <1>13 DEF ReleaseEarly, Released, ReleaseSucceeds, ReleaseBreaks
  <1>14. ASSUME NEW d \in Deployers, LockState(d) PROVE Good
    BY <1>14 DEF LockState
  <1>15. ASSUME NEW d \in Deployers, LockStateFails(d) PROVE Good
    BY <1>15 DEF LockStateFails
  <1>16. ASSUME NEW d \in Deployers, Write(d) PROVE Good
    BY <1>16 DEF Write
  <1>17. ASSUME NEW d \in Deployers, WriteFails(d) \/ WritePanics(d) PROVE Good
    BY <1>17 DEF WriteFails, WritePanics
  <1>18. ASSUME NEW d \in Deployers, UnlockState(d) PROVE Good
    BY <1>18 DEF UnlockState
  <1>19. ASSUME NEW d \in Deployers, ReleaseLocks(d) PROVE Good
    BY <1>19 DEF ReleaseLocks, Released, ReleaseSucceeds, ReleaseBreaks
  <1>20. ASSUME NEW d \in Deployers, Crash(d) PROVE Good
    BY <1>20 DEF Crash
  <1>21. ASSUME NEW d \in Deployers, ForceUnlock(d) PROVE Good
    BY <1>21 DEF ForceUnlock
  <1>22. CASE UNCHANGED vars
    BY <1>22 DEF vars
  <1> QED
    BY <1>1, <1>2, <1>3, <1>4, <1>5, <1>6, <1>7, <1>8, <1>9, <1>10, <1>11, <1>12,
       <1>13, <1>14, <1>15, <1>16, <1>17, <1>18, <1>19, <1>20, <1>21, <1>22
       DEF Next, Step

\* The invariant all the locking theorems follow from.
THEOREM LockInvariant == Spec => []IInv
  BY LockInit, LockStep, PTL DEF Spec

-----------------------------------------------------------------------------
(* What the locking is for *)

\* However runs interleave and fail, a plugin changes a resource only while its
\* run owns the lock promptDiff asked for.
THEOREM ChangesAreLocked == Spec => []ApplyUnderLock
<1>1. IInv => ApplyUnderLock
  BY DEF IInv, OwnersAgree, ChangesCovered, OwnsAll, ApplyUnderLock
<1> QED
  BY <1>1, LockInvariant, PTL

\* If every project defines every resource, no resource is ever changed by two
\* runs at once.  README.md shows a run without the hypothesis in which it is.
THEOREM ChangesAreExclusive ==
    ASSUME \A d \in Deployers : Present(Config[d]) = Resources
    PROVE  Spec => []ExclusiveApply
<1>1. IInv => ExclusiveApply
  <2> SUFFICES ASSUME IInv, NEW d \in Deployers, NEW e \in Deployers, d # e,
                      pc[d] = "applying", pc[e] = "applying",
                      NEW r \in todo[d] \cap todo[e]
               PROVE  FALSE
    BY DEF ExclusiveApply
  <2>1. r \in Resources
    BY DEF IInv, TypeOK
  <2>2. LockOf(d, snap[d], r) = r /\ LockOf(e, snap[e], r) = r
    BY <2>1 DEF LockOf
  <2>3. r \in acquired[d] /\ r \in acquired[e]
    BY <2>2 DEF IInv, ChangesCovered
  <2>4. lockOwner[r] = d /\ lockOwner[r] = e
    BY <2>3 DEF IInv, OwnersAgree, OwnsAll
  <2> QED
    BY <2>4
<1> QED
  BY <1>1, LockInvariant, PTL

\* No save of another run is lost between the read under the state lock and the
\* save.
THEOREM SavesAreFresh == Spec => []FreshWrite
<1>1. IInv => FreshWrite
  BY DEF IInv, StateLockAgrees, FreshWrite
<1> QED
  BY <1>1, LockInvariant, PTL

\* A run that ends by itself leaves no lock behind but for a call of its own that
\* failed: the last release of its named locks, or their acquisition; the release of
\* the lock of the state file, or the decoding of the state that came with it.
THEOREM EndedRunsHoldNothing == Spec => []LocksReturned
<1>1. IInv => LocksReturned
  BY DEF IInv, OwnersAgree, MayOwn, StateLockAgrees, LocksReturned
<1> QED
  BY <1>1, LockInvariant, PTL

\* A step moves one run only: a run whose phase changes took the step.
LEMMA OneRunMoves ==
    ASSUME TypeOK, Next, NEW d \in Deployers, pc'[d] # pc[d]
    PROVE  Step(d) \/ Crash(d)
  <1>1. PICK e \in Deployers : Step(e) \/ Crash(e) \/ ForceUnlock(e)
    BY DEF Next
  <1>2. pc \in [Deployers -> PCs]
    BY DEF TypeOK
  <1>3. ~ForceUnlock(e)
    BY DEF ForceUnlock
  <1>4. \A x, y : Goto(e, x, y) => \A f \in Deployers : f # e => pc'[f] = pc[f]
    BY <1>2 DEF Goto
  <1>5. \A f \in Deployers : f # e => pc'[f] = pc[f]
    <2>1. CASE Step(e)
      BY <1>4, <2>1 DEF Step, ReadState, ReadFails, Acquire, AcquireFails, PrepareFails, PlanFails, Plan,
              Relock, Reread, Approve, Cancel, ApplyOne, ApplyDone, ApplyFails,
              ReleaseEarly, LockState, LockStateFails, Write, WriteFails, WritePanics,
              UnlockState, ReleaseLocks
    <2>2. CASE Crash(e)
      BY <1>2, <2>2 DEF Crash
    <2> QED
      BY <1>1, <1>3, <2>1, <2>2
  <1> QED
    BY <1>1, <1>3, <1>5

\* Every further round of the lock loop asks for more locks than the last.
THEOREM RoundsGrow == Spec => RelockAsksMore
<1> DEFINE Grows(d) == pc[d] = "locked" /\ pc'[d] = "relock" =>
                          acquired[d] \subseteq asked'[d] /\ acquired[d] # asked'[d]
<1>1. ASSUME IInv, [Next]_vars PROVE [\A d \in Deployers : Grows(d)]_vars
  <2> SUFFICES ASSUME Next, NEW d \in Deployers, pc[d] = "locked", pc'[d] = "relock"
               PROVE  acquired[d] \subseteq asked'[d] /\ acquired[d] # asked'[d]
    BY <1>1
  <2>1. pc \in [Deployers -> PCs] /\ asked \in [Deployers -> SUBSET LockIds]
    BY <1>1 DEF IInv, TypeOK
  <2>2. Plan(d)
    <3>1. Step(d) \/ Crash(d)
      BY <1>1, OneRunMoves DEF IInv
    <3> QED
      BY <2>1, <3>1 DEF Step, Goto, ReadState, ReadFails, Acquire, AcquireFails,
                PrepareFails, PlanFails, Relock, Reread, Approve, Cancel, ApplyOne,
                ApplyDone, ApplyFails, ReleaseEarly, LockState, LockStateFails, Write,
                WriteFails, WritePanics, UnlockState, ReleaseLocks, Crash
  <2> DEFINE s == snap[d]
             actual == Actual(d, s, cloud, Verify[d] \/ first[d])
             planned == [ent |-> Desired(d, s), reg |-> actual]
             changes == Changes(d, s, actual)
             missing == Missing(d, planned, changes)
  <2>3. missing # {} /\ asked'[d] = asked[d] \cup missing
    <3> HIDE DEF s, actual, planned, changes, missing
    <3>1. /\ pc' = [pc EXCEPT ![d] = IF missing # {} THEN "relock"
                                     ELSE IF changes # {} THEN "prompt"
                                     ELSE IF planned # s THEN "save" ELSE "release"]
          /\ asked' = [asked EXCEPT ![d] = NextLocks(d, missing)]
      BY <2>2 DEF Plan, Goto, s, actual, planned, changes, missing
    <3> QED
      BY <2>1, <3>1 DEF NextLocks
  <2>4. missing \cap acquired[d] = {}
    BY DEF Missing
  <2>5. asked[d] = acquired[d]
    BY <1>1 DEF IInv, ChangesCovered
  <2> QED
    BY <2>3, <2>4, <2>5
<1> QED
  BY <1>1, LockInvariant, PTL DEF Spec, RelockAsksMore, Grows

\* A run saves with Write, or fails to.
LEMMA SaveIsWrite ==
    ASSUME IInv, Next, NEW d \in Deployers, Saves(d)
    PROVE  Write(d) \/ WriteFails(d)
<1>1. pc \in [Deployers -> PCs]
  BY DEF IInv, TypeOK
<1>2. Step(d) \/ Crash(d)
  BY OneRunMoves DEF IInv, Saves
<1> QED
  BY <1>1, <1>2 DEF Saves, Step, Goto, ReadState, ReadFails, Acquire, AcquireFails,
     PrepareFails, PlanFails, Plan, Relock, Reread, Approve, Cancel, ApplyOne,
     ApplyDone, ApplyFails, ReleaseEarly, LockState, LockStateFails,
     WritePanics, UnlockState, ReleaseLocks, Crash

\* A save leaves every record its own diff does not touch as the last save of any run
\* left it, and of an entry that it changes the parts that its plan did not change.
THEOREM SavesAreLocal == Spec => SavesOnlyItsDiff
<1> DEFINE Local(d) == Saves(d) =>
              \A r \in Resources :
                  /\ ~Touches(diff[d], r) =>
                        remote'.ent[r] = remote.ent[r] /\ remote'.reg[r] = remote.reg[r]
                  /\ diff[d].ent[r].op = "nested" =>
                        \A f \in Fields \ diff[d].ent[r].parts :
                            remote'.ent[r][f] = remote.ent[r][f]
<1>1. ASSUME IInv, [Next]_vars PROVE [\A d \in Deployers : Local(d)]_vars
  <2> SUFFICES ASSUME Next, NEW d \in Deployers, Saves(d), NEW r \in Resources
               PROVE  /\ ~Touches(diff[d], r) =>
                            remote'.ent[r] = remote.ent[r] /\ remote'.reg[r] = remote.reg[r]
                      /\ diff[d].ent[r].op = "nested" =>
                            \A f \in Fields \ diff[d].ent[r].parts :
                                remote'.ent[r][f] = remote.ent[r][f]
    BY <1>1
  <2>1. /\ remote \in States /\ snap \in [Deployers -> States] /\ snap[d] = remote
    BY <1>1 DEF IInv, TypeOK, StateLockAgrees, Saves
  <2>2. CASE Write(d)
    <3>1. remote' = ApplyDiff(diff[d], remote) /\ ~ApplyPanics(diff[d], remote)
      BY <2>1, <2>2 DEF Write
    <3>2. /\ remote'.ent[r] = ApplyKey(diff[d].ent[r], remote.ent[r])
          /\ remote'.reg[r] = ApplyKey(diff[d].reg[r], remote.reg[r])
      BY <3>1 DEF ApplyDiff
    <3>3. ~Touches(diff[d], r) => diff[d].ent[r].op = "keep" /\ diff[d].reg[r].op = "keep"
      BY DEF Touches
    <3>4. diff[d].ent[r].op = "nested" => remote'.ent[r] = Overlay(remote.ent[r], diff[d].ent[r])
      BY <3>1, <3>2 DEF ApplyKey, ApplyPanics
    <3>5. diff[d].ent[r].op = "nested" => \A f \in Fields \ diff[d].ent[r].parts :
              remote'.ent[r][f] = remote.ent[r][f]
      BY <3>4 DEF Overlay
    <3> QED
      BY <3>2, <3>3, <3>5 DEF ApplyKey
  <2>3. CASE WriteFails(d)
    BY <2>3 DEF WriteFails, shared
  <2> QED
    BY <1>1, <2>2, <2>3, SaveIsWrite
<1> QED
  BY <1>1, LockInvariant, PTL DEF Spec, SavesOnlyItsDiff, Local

-----------------------------------------------------------------------------
(* The state file *)

\* A step of a run is a step of a client of the locked state file, or leaves the
\* file, its lock and the owner's copy alone.
LEMMA StateFileStep ==
    ASSUME IInv, [Next]_vars
    PROVE  [StateFile!Next]_(StateFile!vars)
<1> USE DEF IInv, TypeOK, Goto, shared, local, history, StateFile!vars
<1> DEFINE copy == IF stateLock = NoOne THEN EmptyState ELSE snap[stateLock]
<1> SUFFICES ASSUME NEW d \in Deployers, Step(d) \/ Crash(d) \/ ForceUnlock(d)
             PROVE  StateFile!Next \/ UNCHANGED <<remote, stateLock, copy>>
  BY DEF Next, vars
<1>1. NoOne \notin Deployers
  BY LockAssumption
<1>2. ASSUME UNCHANGED <<remote, stateLock>>,
             \A e \in Deployers : e # d => snap'[e] = snap[e],
             stateLock # d \/ snap'[d] = snap[d]
      PROVE  UNCHANGED <<remote, stateLock, copy>>
  BY <1>1, <1>2
<1>3. CASE LockState(d)
  <2>1. StateFile!Take(d)
    BY <1>1, <1>3 DEF LockState, StateFile!Take
  <2> QED
    BY <2>1 DEF StateFile!Next
<1>4. CASE Write(d)
  <2>1. stateLock = d /\ snap[d] = remote
    BY <1>4 DEF Write, StateLockAgrees
  <2>2. ApplyDiff(diff[d], remote) \in States
    BY <1>4, <2>1, ApplyTypes DEF Write
  <2>3. StateFile!Put(d)
    BY <1>1, <1>4, <2>1, <2>2 DEF Write, StateFile!Put
  <2> QED
    BY <2>3 DEF StateFile!Next
<1>5. CASE UnlockState(d)
  <2>1. stateLock = d
    BY <1>5 DEF UnlockState, StateLockAgrees
  <2>2. CASE stateLock' = NoOne
    <3>1. StateFile!Drop(d)
      BY <1>5, <2>1, <2>2 DEF UnlockState, StateFile!Drop
    <3> QED
      BY <3>1 DEF StateFile!Next
  <2>3. CASE stateLock' = d
    BY <1>2, <1>5, <2>1, <2>3 DEF UnlockState
  <2> QED
    BY <1>5, <2>2, <2>3 DEF UnlockState
<1>6. CASE ForceUnlock(d)
  <2>1. CASE stateLock = d /\ stateLock' = NoOne
    <3>1. StateFile!Drop(d)
      BY <1>6, <2>1 DEF ForceUnlock, StateFile!Drop
    <3> QED
      BY <3>1 DEF StateFile!Next
  <2>2. CASE UNCHANGED stateLock
    BY <1>2, <1>6, <2>2 DEF ForceUnlock
  <2> QED
    BY <1>6, <2>1, <2>2 DEF ForceUnlock
<1>7. CASE ReadState(d) \/ Plan(d) \/ Reread(d) \/ \E r \in Resources : ApplyOne(d, r)
  <2>1. stateLock # d
    BY <1>7 DEF ReadState, Plan, Reread, ApplyOne, StateLockAgrees
  <2>2. UNCHANGED <<remote, stateLock>> /\ \A e \in Deployers : e # d => snap'[e] = snap[e]
    BY <1>7 DEF ReadState, Plan, Reread, ApplyOne
  <2> QED
    BY <1>2, <2>1, <2>2
<1>8. CASE Acquire(d) \/ ReadFails(d) \/ AcquireFails(d) \/ PrepareFails(d) \/ PlanFails(d)
           \/ Relock(d) \/ Approve(d) \/ Cancel(d) \/ ApplyDone(d) \/ ApplyFails(d)
  BY <1>2, <1>8 DEF Acquire, ReadFails, AcquireFails, PrepareFails, PlanFails, Relock,
     Approve, Cancel, ApplyDone, ApplyFails
<1>9. CASE ReleaseEarly(d) \/ LockStateFails(d) \/ WriteFails(d) \/ WritePanics(d)
           \/ ReleaseLocks(d) \/ Crash(d)
  BY <1>2, <1>9 DEF ReleaseEarly, LockStateFails, WriteFails, WritePanics, ReleaseLocks, Crash
<1> QED
  BY <1>3, <1>4, <1>5, <1>6, <1>7, <1>8, <1>9 DEF Step

\* To the state file, any number of multilock runs are clients that write it only
\* under its lock and over what they have read: no save of a run is ever lost.
THEOREM Refinement == Spec => ImplementsStateFile
<1>1. Init => StateFile!Init
  BY LockAssumption DEF Init, StateFile!Init
<1>2. IInv /\ [Next]_vars => [StateFile!Next]_(StateFile!vars)
  BY StateFileStep
<1> QED
  BY <1>1, <1>2, LockInvariant, PTL DEF Spec, ImplementsStateFile, StateFile!Spec

-----------------------------------------------------------------------------
(* The records of orderly runs *)

\* Runs that do not fail but before they have planned, of projects that define every
\* resource, without --verify and --skip-apps, on a state file whose last deployments
\* all succeeded.
Orderly ==
    /\ Faults \subseteq {"prepare", "plan"}
    /\ \A d \in Deployers : ~Verify[d] /\ Skips[d] = {} /\ Present(Config[d]) = Resources
    /\ \A s \in InitialStates : s.ent = s.reg

Altered(d, r) == snap[d].ent[r] # before[d].ent[r] \/ snap[d].reg[r] # before[d].reg[r]

\* The entries of the file are what is recorded as deployed, unless a save has mixed
\* them; nobody has read a file that does not exist; no run fails on its way.
FileKept ==
    /\ \A r \in Resources \ mixed : remote.ent[r] = remote.reg[r]
    /\ ~created => remote = EmptyState /\ \A d \in Deployers : pc[d] = "start"
    /\ \A d \in Deployers : pc[d] \notin {"failed", "crashed"} /\ kept[d] = {}

\* The run that finds no state file asks for every lock at once.
FirstKept ==
    \A d \in Deployers : first[d] /\ pc[d] # "start" =>
        /\ Resources \subseteq asked[d] /\ pc[d] \notin {"relock", "reread"}
        /\ pc[d] \in {"acquire", "locked"} => snap[d] = EmptyState

\* A copy of the file may be old, but has no entry that the file has lost.
CopyKept ==
    \A d \in Deployers, r \in Resources : pc[d] \in {"acquire", "locked"} =>
        /\ r \notin mixed => snap[d].ent[r] = snap[d].reg[r]
        /\ snap[d].ent[r] # Absent => remote.ent[r] # Absent

\* A run removes no entry.
EntriesKept ==
    /\ \A d \in Deployers, r \in Resources :
          pc[d] \in {"prompt", "applying", "save"} /\ before[d].ent[r] # Absent =>
              remote.ent[r] # Absent /\ snap[d].ent[r] # Absent
    /\ \A d \in Deployers, r \in Resources : pc[d] = "write" =>
          /\ diff[d].ent[r].op # "delete"
          /\ diff[d].ent[r].op = "nested" => remote.ent[r] # Absent

\* It alters the records it has locked, to what it has deployed or is about to.
PlanKept ==
    \A d \in Deployers, r \in Resources \ mixed : pc[d] \in {"prompt", "applying", "save"} =>
        /\ before[d].ent[r] = before[d].reg[r]
        /\ Altered(d, r) => lockOwner[r] = d
        /\ r \in todo[d] => pc[d] # "save" /\ snap[d].ent[r] # before[d].ent[r]
        /\ r \notin todo[d] => /\ snap[d].ent[r] = snap[d].reg[r]
                               /\ Altered(d, r) => snap[d].reg[r] = cloud[r]

\* A diff about to be applied says of entry and record what is deployed.
DiffKept ==
    \A d \in Deployers, r \in Resources \ mixed : pc[d] = "write" /\ Touches(diff[d], r) =>
        /\ lockOwner[r] = d /\ cloud[r] # Absent
        /\ diff[d].ent[r].op \in {"set", "nested"} /\ diff[d].ent[r].to = cloud[r]
        /\ diff[d].reg[r].op \in {"create", "merge"} /\ diff[d].reg[r].to = cloud[r]

\* The file records what is deployed, unless the owner of the lock is on its way to
\* record it.
CloudKept ==
    \A r \in Resources \ mixed : remote.reg[r] # cloud[r] => \E d \in Deployers :
        /\ lockOwner[r] = d
        /\ \/ pc[d] \in {"applying", "save"} /\ Altered(d, r) /\ r \notin todo[d]
           \/ pc[d] = "write" /\ Touches(diff[d], r)

RecordsKept ==
    FileKept /\ FirstKept /\ CopyKept /\ EntriesKept /\ PlanKept /\ DiffKept /\ CloudKept

\* An orderly plan removes no entry.
LEMMA PlanKeepsEntries ==
    ASSUME Orderly, NEW d \in Deployers, NEW s \in States, NEW r \in Resources,
           s.ent[r] # Absent
    PROVE  Desired(d, s)[r] # Absent
<1>1. Skips[d] = {} /\ r \in Present(Config[d])
  BY DEF Orderly
<1>2. r \in FromConfig(d) \/ r \in FromState(d, s)
  BY <1>1 DEF FromConfig, FromState, Filtered, Present
<1> QED
  BY <1>1, <1>2 DEF Desired, Present

\* What it alters is one of its changes, except for what the first run finds deployed
\* already.
LEMMA PlanFacts ==
    ASSUME Orderly, NEW d \in Deployers, NEW s \in States, NEW r \in Resources,
           s.ent[r] = s.reg[r],
           NEW c \in Recorded, NEW fst \in BOOLEAN, fst => s = EmptyState
    PROVE  LET actual == Actual(d, s, c, Verify[d] \/ fst)
               changes == Changes(d, s, actual)
               alters == Desired(d, s)[r] # s.ent[r] \/ actual[r] # s.reg[r]
           IN  /\ r \in changes => Desired(d, s)[r] # s.ent[r]
               /\ r \notin changes => Desired(d, s)[r] = actual[r]
               /\ alters /\ r \notin changes => fst /\ actual[r] = c[r]
<1> DEFINE actual == Actual(d, s, c, Verify[d] \/ fst)
           changes == Changes(d, s, actual)
           want == Desired(d, s)
<1>1. /\ s.ent \in Recorded /\ s.reg \in Recorded /\ s.ent[r] = s.reg[r]
      /\ (Verify[d] \/ fst) = fst /\ Skips[d] = {} /\ r \in Present(Config[d])
      /\ Config[d] \in Recorded
  BY LockAssumption, OptionsAssumption DEF Orderly, States
<1>2. want[r] = IF r \in FromConfig(d) THEN Config[d][r]
                ELSE IF r \in FromState(d, s) THEN s.ent[r] ELSE Absent
  BY DEF Desired
<1>3. actual[r] = IF fst /\ r \notin LeftAlone(d, s) /\ (s.reg[r] # Absent \/ r \in Planned(d, s))
                  THEN c[r] ELSE s.reg[r]
  BY <1>1 DEF Actual
<1>4. r \in changes <=> r \notin LeftAlone(d, s) /\ actual[r] # want[r]
  BY DEF Changes
<1> HIDE DEF actual, changes, want
<1>5. r \in FromConfig(d) => want[r] # Absent
  BY <1>1, <1>2 DEF Present
<1>6. ASSUME r \in LeftAlone(d, s) PROVE want[r] = s.ent[r] /\ actual[r] = s.reg[r]
  <2>1. r \notin FromConfig(d) /\ r \in Planned(d, s)
    BY <1>6 DEF LeftAlone, FromConfig
  <2> QED
    BY <1>2, <1>3, <1>6, <2>1 DEF Planned
<1>7. fst => s.ent[r] = Absent /\ s.reg[r] = Absent
  BY DEF EmptyState, Nothing
<1>8. r \in FromState(d, s) => s.ent[r] # Absent
  BY DEF FromState, Present
<1>9. r \in changes => want[r] # s.ent[r]
  <2>1. CASE fst
    <3>1. want[r] = Absent => r \notin Planned(d, s)
      BY <1>5, <1>7, <1>8, <2>1 DEF Planned
    <3> QED
      BY <1>3, <1>4, <1>7, <2>1, <3>1
  <2>2. CASE ~fst
    BY <1>1, <1>3, <1>4, <2>2
  <2> QED
    BY <2>1, <2>2
<1>10. r \notin changes => want[r] = actual[r]
  BY <1>1, <1>4, <1>6
<1>11. (want[r] # s.ent[r] \/ actual[r] # s.reg[r]) /\ r \notin changes => fst /\ actual[r] = c[r]
  BY <1>1, <1>3, <1>10
<1> QED
  BY <1>9, <1>10, <1>11 DEF actual, changes, want

\* Before the plan: a copy is taken of the file, and locks of the names it asks for.
LEMMA CopyStep ==
    ASSUME Orderly, IInv, RecordsKept, NEW d \in Deployers,
           ReadState(d) \/ Acquire(d) \/ AcquireFails(d) \/ Relock(d) \/ Reread(d)
    PROVE  RecordsKept'
<1> USE DEF IInv, TypeOK, Goto, shared, local, history, Altered
<1>0. NoOne \notin Deployers /\ \A r \in Resources : r \in LockIds
  BY LockAssumption DEF LockIds
<1>1. /\ UNCHANGED <<remote, cloud, before, todo, diff, mixed>>
      /\ \A e \in Deployers : kept'[e] = {}
      /\ \A e \in Deployers \ {d} : /\ pc'[e] = pc[e] /\ first'[e] = first[e]
                                    /\ snap'[e] = snap[e] /\ asked'[e] = asked[e]
      /\ pc[d] \in {"start", "acquire", "relock", "reread"}
      /\ pc'[d] \in {"acquire", "locked", "reread", "done"}
      /\ \A l \in LockIds, e \in Deployers \ {d} : lockOwner[l] = e => lockOwner'[l] = e
  <2>1. "acquire" \notin Faults /\ "release" \notin Faults /\ \A e \in Deployers : kept[e] = {}
    BY DEF Orderly, RecordsKept, FileKept
  <2> QED
    BY <1>0, <2>1 DEF ReadState, Acquire, AcquireFails, Relock, Reread, Released,
       ReleaseSucceeds, ReleaseBreaks
<1>2. FileKept'
  BY <1>1 DEF ReadState, Acquire, AcquireFails, Relock, Reread, ReleaseBreaks, RecordsKept, FileKept
<1>3. FirstKept'
  <2>1. CASE ReadState(d)
    <3>1. first'[d] = ~created /\ pc'[d] = "acquire" /\ snap'[d] = remote
      BY <2>1 DEF ReadState
    <3>2. ~created => remote = EmptyState /\ Resources \subseteq asked'[d]
      <4> SUFFICES ASSUME ~created PROVE remote = EmptyState /\ Resources \subseteq asked'[d]
        OBVIOUS
      <4>1. asked'[d] = AllLockIds(d, remote)
        BY <2>1 DEF ReadState
      <4> QED
        BY <4>1 DEF AllLockIds, Orderly, RecordsKept, FileKept
    <3> QED
      BY ZenonT(60), <1>1, <3>1, <3>2 DEF RecordsKept, FirstKept
  <2>2. CASE Acquire(d) \/ AcquireFails(d) \/ Relock(d) \/ Reread(d)
    BY <1>1, <2>2 DEF Acquire, AcquireFails, Relock, Reread, RecordsKept, FirstKept
  <2> QED
    BY <2>1, <2>2
<1>4. CopyKept'
  BY <1>1 DEF ReadState, Acquire, AcquireFails, Relock, Reread, RecordsKept, CopyKept, FileKept
<1>5. PlanKept' /\ EntriesKept'
  BY <1>0, <1>1 DEF RecordsKept, PlanKept, EntriesKept
<1>6. DiffKept'
  BY <1>0, <1>1 DEF RecordsKept, DiffKept
<1>7. CloudKept'
  <2> SUFFICES ASSUME NEW r \in Resources \ mixed, remote.reg[r] # cloud[r]
               PROVE  \E e \in Deployers :
                         /\ lockOwner'[r] = e
                         /\ \/ /\ pc'[e] \in {"applying", "save"} /\ Altered(e, r)'
                               /\ r \notin todo'[e]
                            \/ pc'[e] = "write" /\ Touches(diff'[e], r)
    BY <1>1 DEF CloudKept
  <2>1. PICK e \in Deployers :
            /\ lockOwner[r] = e
            /\ \/ pc[e] \in {"applying", "save"} /\ Altered(e, r) /\ r \notin todo[e]
               \/ pc[e] = "write" /\ Touches(diff[e], r)
    BY DEF RecordsKept, CloudKept
  <2>2. e # d
    BY <1>1, <2>1
  <2> QED
    BY <1>0, <1>1, <2>1, <2>2
<1> QED
  BY <1>2, <1>3, <1>4, <1>5, <1>6, <1>7 DEF RecordsKept

\* A plan that misses no lock alters records whose locks its run owns.
LEMMA PlanStep ==
    ASSUME Orderly, IInv, RecordsKept, NEW d \in Deployers, Plan(d)
    PROVE  RecordsKept'
<1> USE DEF IInv, TypeOK, Goto, shared, local, history, Altered
<1> DEFINE s == snap[d]
           fst == first[d]
           want == Desired(d, s)
           actual == Actual(d, s, cloud, Verify[d] \/ fst)
           planned == [ent |-> want, reg |-> actual]
           changes == Changes(d, s, actual)
           missing == Missing(d, planned, changes)
<1>0. /\ pc[d] = "locked" /\ s \in States /\ fst \in BOOLEAN /\ cloud \in Recorded
      /\ fst => s = EmptyState /\ Resources \subseteq acquired[d]
      /\ \A r \in Resources : r \in acquired[d] => lockOwner[r] = d
      /\ \A r \in Resources \ mixed : s.ent[r] = s.reg[r]
      /\ \A r \in Resources : s.ent[r] # Absent => remote.ent[r] # Absent
  <2>1. pc[d] = "locked"
    BY DEF Plan
  <2>2. s \in States /\ fst \in BOOLEAN /\ cloud \in Recorded
    OBVIOUS
  <2>3. fst => s = EmptyState /\ Resources \subseteq acquired[d]
    BY <2>1 DEF RecordsKept, FirstKept, ChangesCovered
  <2>4. \A r \in Resources : r \in acquired[d] => lockOwner[r] = d
    BY <2>1 DEF OwnersAgree, OwnsAll
  <2>5. /\ \A r \in Resources \ mixed : s.ent[r] = s.reg[r]
        /\ \A r \in Resources : s.ent[r] # Absent => remote.ent[r] # Absent
    BY <2>1 DEF RecordsKept, CopyKept
  <2> QED
    BY <2>1, <2>2, <2>3, <2>4, <2>5
<1>1. \A r \in Resources \ mixed :
          /\ r \in changes => want[r] # s.ent[r]
          /\ r \notin changes => want[r] = actual[r]
          /\ (want[r] # s.ent[r] \/ actual[r] # s.reg[r]) /\ r \notin changes
                => fst /\ actual[r] = cloud[r]
  BY <1>0, PlanFacts
<1>10. \A r \in Resources : s.ent[r] # Absent => want[r] # Absent
  BY <1>0, PlanKeepsEntries
<1>2. \A r \in Resources : LockOf(d, planned, r) = r
  BY DEF LockOf, Orderly
<1>3. missing = {} => \A r \in changes : lockOwner[r] = d
  BY <1>0, <1>2 DEF Missing, Changes
<1>4. missing # {} => ~fst
  BY <1>0, <1>2 DEF Missing, Changes
<1>5. /\ UNCHANGED <<shared, first, acquired, diff, history>>
      /\ before' = [before EXCEPT ![d] = s]
      /\ snap' = [snap EXCEPT ![d] = planned]
      /\ todo' = [todo EXCEPT ![d] = IF missing = {} THEN changes ELSE {}]
      /\ asked' = [asked EXCEPT ![d] = asked[d] \cup missing]
      /\ pc' = [pc EXCEPT ![d] = IF missing # {} THEN "relock"
                                 ELSE IF changes # {} THEN "prompt"
                                 ELSE IF planned # s THEN "save" ELSE "release"]
  BY DEF Plan, NextLocks
<1> HIDE DEF s, fst, want, actual, changes, missing
<1>6. FileKept' /\ CopyKept' /\ DiffKept'
  BY <1>0, <1>5 DEF RecordsKept, FileKept, CopyKept, DiffKept
<1>7. FirstKept'
  <2>1. fst = first[d]
    BY DEF fst
  <2>2. asked[d] \subseteq asked'[d] /\ \A e \in Deployers \ {d} : asked'[e] = asked[e]
    BY <1>5
  <2> QED
    BY <1>0, <1>4, <1>5, <2>1, <2>2 DEF RecordsKept, FirstKept
<1>8. PlanKept'
  <2> SUFFICES ASSUME NEW r \in Resources \ mixed, pc'[d] \in {"prompt", "applying", "save"}
               PROVE  /\ before'[d].ent[r] = before'[d].reg[r]
                      /\ Altered(d, r)' => lockOwner'[r] = d
                      /\ r \in todo'[d] => pc'[d] # "save" /\ snap'[d].ent[r] # before'[d].ent[r]
                      /\ r \notin todo'[d] => /\ snap'[d].ent[r] = snap'[d].reg[r]
                                              /\ Altered(d, r)' => snap'[d].reg[r] = cloud'[r]
    BY <1>5 DEF RecordsKept, PlanKept
  <2>1. /\ missing = {} /\ todo'[d] = changes /\ before'[d] = s
        /\ snap'[d].ent = want /\ snap'[d].reg = actual /\ (changes # {} => pc'[d] # "save")
        /\ UNCHANGED <<remote, lockOwner, cloud>>
    BY <1>5
  <2>2. Altered(d, r)' => lockOwner[r] = d
    BY <1>0, <1>1, <1>3, <2>1
  <2> QED
    BY <1>0, <1>1, <2>1, <2>2
<1>11. EntriesKept'
  <2>1. pc'[d] \in {"prompt", "applying", "save"} => before'[d] = s /\ snap'[d].ent = want
    BY <1>5
  <2> QED
    BY <1>0, <1>10, <1>5, <2>1 DEF RecordsKept, EntriesKept
<1>9. CloudKept'
  BY <1>0, <1>5 DEF RecordsKept, CloudKept
<1> QED
  BY <1>6, <1>7, <1>8, <1>11, <1>9 DEF RecordsKept

\* What does not touch the file, the cloud or the plan; a run gives its locks back
\* when it has no record left to write.
LEMMA PassStep ==
    ASSUME Orderly, IInv, RecordsKept, NEW d \in Deployers,
           \/ PrepareFails(d) \/ PlanFails(d) \/ Approve(d) \/ Cancel(d) \/ ApplyDone(d)
           \/ UnlockState(d) \/ ReleaseLocks(d)
    PROVE  RecordsKept'
<1> USE DEF IInv, TypeOK, Goto, shared, local, history, Altered
<1>0. NoOne \notin Deployers /\ \A r \in Resources : r \in LockIds
  BY LockAssumption DEF LockIds
<1>1. /\ UNCHANGED <<remote, created, cloud, first, snap, before, asked, diff, mixed>>
      /\ \A e \in Deployers : kept'[e] = {}
      /\ \A e \in Deployers \ {d} : /\ pc'[e] = pc[e] /\ todo'[e] = todo[e]
      /\ \A l \in LockIds, e \in Deployers \ {d} : lockOwner[l] = e => lockOwner'[l] = e
      /\ pc[d] \in {"locked", "prompt", "applying", "unlock", "release"}
      /\ \/ /\ pc[d] = "prompt" /\ pc'[d] = "applying"
            /\ UNCHANGED <<lockOwner, todo>>
         \/ /\ pc[d] = "applying" /\ pc'[d] = "save" /\ todo[d] = {}
            /\ UNCHANGED <<lockOwner, todo>>
         \/ pc[d] # "applying" /\ pc'[d] \in {"release", "done"}
  <2>1. "release" \notin Faults /\ \A e \in Deployers : kept[e] = {}
    BY DEF Orderly, RecordsKept, FileKept
  <2> QED
    BY <1>0, <2>1 DEF PrepareFails, PlanFails, Approve, Cancel, ApplyDone, UnlockState, ReleaseLocks,
       Released, ReleaseSucceeds, ReleaseBreaks
<1>2. FileKept' /\ FirstKept' /\ CopyKept'
  BY <1>1 DEF RecordsKept, FileKept, FirstKept, CopyKept
<1>3. PlanKept' /\ EntriesKept'
  BY <1>0, <1>1 DEF RecordsKept, PlanKept, EntriesKept
<1>4. DiffKept'
  BY <1>0, <1>1 DEF RecordsKept, DiffKept
<1>5. CloudKept'
  BY <1>0, <1>1 DEF RecordsKept, CloudKept
<1> QED
  BY <1>2, <1>3, <1>4, <1>5 DEF RecordsKept

\* A change is made to a resource whose lock the run owns, and leaves nobody else's
\* record behind what is deployed.
LEMMA ApplyStep ==
    ASSUME Orderly, IInv, RecordsKept, NEW d \in Deployers, NEW q \in Resources, ApplyOne(d, q)
    PROVE  RecordsKept'
<1> USE DEF IInv, TypeOK, Goto, shared, local, history
<1>1. /\ pc[d] = "applying" /\ q \in todo[d]
      /\ cloud' = [cloud EXCEPT ![q] = snap[d].ent[q]]
      /\ snap' = [snap EXCEPT ![d].reg[q] = snap[d].ent[q]]
      /\ todo' = [todo EXCEPT ![d] = @ \ {q}]
      /\ UNCHANGED <<remote, created, lockOwner, stateLock, pc, first, before, asked, acquired, diff,
                    history>>
  BY DEF ApplyOne
<1>2. /\ cloud'[q] = snap[d].ent[q] /\ \A r \in Resources \ {q} : cloud'[r] = cloud[r]
      /\ \A e \in Deployers \ {d} : snap'[e] = snap[e] /\ todo'[e] = todo[e]
      /\ snap'[d].ent = snap[d].ent /\ snap'[d].reg[q] = snap[d].ent[q]
      /\ \A r \in Resources \ {q} : snap'[d].reg[r] = snap[d].reg[r]
  BY <1>1 DEF States, Recorded
<1>3. q \notin mixed => snap[d].ent[q] # before[d].ent[q] /\ lockOwner[q] = d
  BY <1>1 DEF RecordsKept, PlanKept, Altered
<1>4. FileKept' /\ FirstKept' /\ CopyKept' /\ EntriesKept'
  BY <1>1, <1>2 DEF RecordsKept, FileKept, FirstKept, CopyKept, EntriesKept
<1>5. PlanKept'
  <2>1. \A e \in Deployers \ {d}, r \in Resources \ mixed :
            /\ Altered(e, r)' <=> Altered(e, r)
            /\ r = q => lockOwner[r] # e
    BY <1>1, <1>2, <1>3 DEF Altered
  <2>2. \A r \in Resources \ {q} : Altered(d, r)' <=> Altered(d, r)
    BY <1>1, <1>2 DEF Altered
  <2>3. ASSUME NEW e \in Deployers \ {d}, NEW r \in Resources \ mixed,
               pc[e] \in {"prompt", "applying", "save"}
        PROVE  /\ before'[e].ent[r] = before'[e].reg[r]
               /\ Altered(e, r)' => lockOwner'[r] = e
               /\ r \in todo'[e] => pc'[e] # "save" /\ snap'[e].ent[r] # before'[e].ent[r]
               /\ r \notin todo'[e] => /\ snap'[e].ent[r] = snap'[e].reg[r]
                                       /\ Altered(e, r)' => snap'[e].reg[r] = cloud'[r]
    BY <1>1, <1>2, <2>1, <2>3 DEF RecordsKept, PlanKept
  <2>4. ASSUME NEW r \in Resources \ mixed
        PROVE  /\ before'[d].ent[r] = before'[d].reg[r]
               /\ Altered(d, r)' => lockOwner'[r] = d
               /\ r \in todo'[d] => pc'[d] # "save" /\ snap'[d].ent[r] # before'[d].ent[r]
               /\ r \notin todo'[d] => /\ snap'[d].ent[r] = snap'[d].reg[r]
                                       /\ Altered(d, r)' => snap'[d].reg[r] = cloud'[r]
    BY <1>1, <1>2, <1>3, <2>2 DEF RecordsKept, PlanKept
  <2> QED
    BY <1>1, <2>3, <2>4 DEF PlanKept
<1>6. DiffKept'
  BY <1>1, <1>2, <1>3 DEF RecordsKept, DiffKept
<1>7. CloudKept'
  <2> SUFFICES ASSUME NEW r \in Resources \ mixed, remote.reg[r] # cloud'[r]
               PROVE  \E e \in Deployers :
                         /\ lockOwner[r] = e
                         /\ \/ pc[e] \in {"applying", "save"} /\ Altered(e, r)' /\ r \notin todo'[e]
                            \/ pc[e] = "write" /\ Touches(diff[e], r)
    BY <1>1 DEF CloudKept
  <2>1. CASE r = q
    <3>1. Altered(d, q)' /\ q \notin todo'[d]
      BY <1>1, <1>2, <1>3, <2>1 DEF Altered
    <3> QED
      BY <1>1, <1>3, <2>1, <3>1
  <2>2. CASE r # q
    <3>1. PICK e \in Deployers :
              /\ lockOwner[r] = e
              /\ \/ pc[e] \in {"applying", "save"} /\ Altered(e, r) /\ r \notin todo[e]
                 \/ pc[e] = "write" /\ Touches(diff[e], r)
      BY <1>2, <2>2 DEF RecordsKept, CloudKept
    <3>2. (Altered(e, r)' <=> Altered(e, r)) /\ (r \notin todo[e] => r \notin todo'[e])
      BY <1>1, <1>2, <2>2 DEF Altered
    <3> QED
      BY <3>1, <3>2
  <2> QED
    BY <2>1, <2>2
<1> QED
  BY <1>4, <1>5, <1>6, <1>7 DEF RecordsKept

\* The diff of an orderly run says of each record it alters what is deployed.
LEMMA LockStateStep ==
    ASSUME Orderly, IInv, RecordsKept, NEW d \in Deployers, LockState(d)
    PROVE  RecordsKept'
<1> USE DEF IInv, TypeOK, Goto, shared, local, history
<1>1. /\ pc[d] = "save" /\ pc' = [pc EXCEPT ![d] = "write"]
      /\ diff' = [diff EXCEPT ![d] = NewDiff(before[d], snap[d])]
      /\ snap' = [snap EXCEPT ![d] = remote]
      /\ UNCHANGED <<remote, created, cloud, lockOwner, first, before, asked, acquired, todo, history>>
  <2>1. "decode" \notin Faults
    BY DEF Orderly
  <2> QED
    BY <2>1 DEF LockState
<1>2. FileKept' /\ FirstKept' /\ CopyKept'
  BY <1>1 DEF RecordsKept, FileKept, FirstKept, CopyKept
<1>3. PlanKept'
  BY <1>1 DEF RecordsKept, PlanKept, Altered
<1>4. ASSUME NEW r \in Resources
      PROVE  /\ Touches(diff'[d], r) <=> Altered(d, r)
             /\ diff'[d].ent[r].op # "delete"
             /\ diff'[d].ent[r].op = "nested" => remote.ent[r] # Absent
             /\ r \notin mixed /\ Touches(diff'[d], r) =>
                  /\ lockOwner[r] = d /\ cloud[r] # Absent
                  /\ diff'[d].ent[r].op \in {"set", "nested"} /\ diff'[d].ent[r].to = cloud[r]
                  /\ diff'[d].reg[r].op \in {"create", "merge"} /\ diff'[d].reg[r].to = cloud[r]
  <2> DEFINE old == before[d]
             new == snap[d]
             ent == KeyDiff(old.ent[r], new.ent[r], "set", "nested")
             reg == KeyDiff(old.reg[r], new.reg[r], "create", "merge")
  <2>1. diff'[d].ent[r] = ent /\ diff'[d].reg[r] = reg
    BY <1>1 DEF NewDiff
  <2>2. /\ ent.op = "keep" <=> old.ent[r] = new.ent[r]
        /\ reg.op = "keep" <=> old.reg[r] = new.reg[r]
        /\ ent.op = "nested" => old.ent[r] # Absent
        /\ ent.op = "delete" => old.ent[r] # Absent /\ new.ent[r] = Absent
    BY DEF KeyDiff
  <2>3. old.ent[r] # Absent => remote.ent[r] # Absent /\ new.ent[r] # Absent
    BY <1>1 DEF RecordsKept, EntriesKept
  <2>4. ASSUME Altered(d, r), r \notin mixed
        PROVE  /\ lockOwner[r] = d /\ new.ent[r] = cloud[r] /\ new.reg[r] = cloud[r]
               /\ old.ent[r] = old.reg[r] /\ old.ent[r] # cloud[r] /\ cloud[r] # Absent
    BY <1>1, <2>3, <2>4 DEF RecordsKept, PlanKept, Altered
  <2>5. ASSUME Altered(d, r), r \notin mixed
        PROVE  /\ ent.op \in {"set", "nested"} /\ ent.to = cloud[r]
               /\ reg.op \in {"create", "merge"} /\ reg.to = cloud[r]
    BY <2>4, <2>5 DEF KeyDiff
  <2> HIDE DEF ent, reg
  <2>6. Touches(diff'[d], r) <=> Altered(d, r)
    BY <2>1, <2>2 DEF Touches, Altered
  <2> QED
    BY <2>1, <2>2, <2>3, <2>4, <2>5, <2>6
<1>5. DiffKept' /\ EntriesKept'
  BY <1>1, <1>4 DEF RecordsKept, DiffKept, EntriesKept
<1>6. CloudKept'
  <2> SUFFICES ASSUME NEW r \in Resources \ mixed, remote.reg[r] # cloud[r]
               PROVE  \E e \in Deployers :
                         /\ lockOwner[r] = e
                         /\ \/ pc'[e] \in {"applying", "save"} /\ Altered(e, r)' /\ r \notin todo[e]
                            \/ pc'[e] = "write" /\ Touches(diff'[e], r)
    BY <1>1 DEF CloudKept
  <2>1. PICK e \in Deployers :
            /\ lockOwner[r] = e
            /\ \/ pc[e] \in {"applying", "save"} /\ Altered(e, r) /\ r \notin todo[e]
               \/ pc[e] = "write" /\ Touches(diff[e], r)
    BY DEF RecordsKept, CloudKept
  <2>2. CASE e = d
    BY <1>1, <1>4, <2>1, <2>2
  <2>3. CASE e # d
    BY <1>1, <2>1, <2>3 DEF Altered
  <2> QED
    BY <2>2, <2>3
<1> QED
  BY <1>2, <1>3, <1>5, <1>6 DEF RecordsKept

\* A save records what is deployed and loses no entry; no other run is saving.
LEMMA WriteStep ==
    ASSUME Orderly, IInv, RecordsKept, NEW d \in Deployers, Write(d)
    PROVE  RecordsKept'
<1> USE DEF IInv, TypeOK, Goto, shared, local, history
<1>1. /\ pc[d] = "write" /\ pc' = [pc EXCEPT ![d] = "unlock"]
      /\ snap[d] = remote
      /\ snap' = [snap EXCEPT ![d] = remote']
      /\ remote' = ApplyDiff(diff[d], remote) /\ ~ApplyPanics(diff[d], remote)
      /\ mixed' = mixed \cup Mixtures(diff[d], remote)
      /\ UNCHANGED <<created, cloud, lockOwner, stateLock, first, before, asked, acquired, todo, diff, kept>>
  BY DEF Write, StateLockAgrees
<1>2. \A e \in Deployers \ {d} : pc[e] # "write" /\ pc'[e] = pc[e] /\ snap'[e] = snap[e]
  BY <1>1 DEF StateLockAgrees
<1>3. ASSUME NEW r \in Resources
      PROVE  /\ ~Touches(diff[d], r) =>
                   remote'.ent[r] = remote.ent[r] /\ remote'.reg[r] = remote.reg[r]
             /\ Touches(diff[d], r) /\ r \notin mixed' =>
                   remote'.ent[r] = cloud[r] /\ remote'.reg[r] = cloud[r] /\ cloud[r] # Absent
             /\ remote.ent[r] # Absent => remote'.ent[r] # Absent
  <2>1. remote'.ent[r] = ApplyKey(diff[d].ent[r], remote.ent[r])
        /\ remote'.reg[r] = ApplyKey(diff[d].reg[r], remote.reg[r])
    BY <1>1 DEF ApplyDiff
  <2>2. ASSUME Touches(diff[d], r), r \notin mixed'
        PROVE  remote'.ent[r] = cloud[r] /\ remote'.reg[r] = cloud[r] /\ cloud[r] # Absent
    <3>1. /\ diff[d].ent[r].op \in {"set", "nested"} /\ diff[d].ent[r].to = cloud[r]
          /\ diff[d].reg[r].op \in {"create", "merge"} /\ diff[d].reg[r].to = cloud[r]
          /\ cloud[r] # Absent
      BY <1>1, <2>2 DEF RecordsKept, DiffKept
    <3>2. ~Misses(diff[d].ent[r], remote.ent[r]) /\ ~Misses(diff[d].reg[r], remote.reg[r])
      BY <1>1, <2>2 DEF Mixtures
    <3> QED
      BY <2>1, <3>1, <3>2 DEF Misses
  <2>3. ASSUME ~Touches(diff[d], r)
        PROVE  remote'.ent[r] = remote.ent[r] /\ remote'.reg[r] = remote.reg[r]
    BY <2>1, <2>3 DEF Touches, ApplyKey
  <2>4. ASSUME remote.ent[r] # Absent PROVE remote'.ent[r] # Absent
    <3>1. diff[d].ent[r] \in KeyDiffs("set", "nested") /\ remote.ent[r] \in Values \cup {Absent}
      BY DEF Diffs, States, Recorded
    <3>2. diff[d].ent[r].op # "delete"
      BY <1>1 DEF RecordsKept, EntriesKept
    <3>3. diff[d].ent[r].op # "keep" => ApplyKey(diff[d].ent[r], remote.ent[r]) \in Values
      BY <2>4, <3>1, <3>2, ApplyKeyTypes
    <3>4. diff[d].ent[r].op = "keep" => ApplyKey(diff[d].ent[r], remote.ent[r]) = remote.ent[r]
      BY DEF ApplyKey
    <3> QED
      BY <2>1, <2>4, <3>3, <3>4, AbsentAssumption
  <2> QED
    BY <2>2, <2>3, <2>4
<1>4. mixed \subseteq mixed'
  BY <1>1
<1>5. FileKept'
  <2>1. created
    BY <1>1 DEF RecordsKept, FileKept
  <2> QED
    BY <1>1, <1>3, <1>4, <2>1 DEF RecordsKept, FileKept
<1>6. FirstKept' /\ CopyKept'
  BY <1>1, <1>2, <1>3, <1>4 DEF RecordsKept, FirstKept, CopyKept
<1>7. PlanKept'
  BY <1>1, <1>2, <1>4 DEF RecordsKept, PlanKept, Altered
<1>8. DiffKept' /\ EntriesKept'
  BY <1>1, <1>2, <1>3 DEF RecordsKept, DiffKept, EntriesKept
<1>9. CloudKept'
  <2> SUFFICES ASSUME NEW r \in Resources \ mixed', remote'.reg[r] # cloud[r]
               PROVE  \E e \in Deployers :
                         /\ lockOwner[r] = e
                         /\ pc'[e] \in {"applying", "save"} /\ Altered(e, r)' /\ r \notin todo[e]
    BY <1>1 DEF CloudKept
  <2>1. ~Touches(diff[d], r) /\ remote.reg[r] # cloud[r]
    BY <1>3
  <2>2. PICK e \in Deployers :
            /\ lockOwner[r] = e
            /\ \/ pc[e] \in {"applying", "save"} /\ Altered(e, r) /\ r \notin todo[e]
               \/ pc[e] = "write" /\ Touches(diff[e], r)
    BY <1>4, <2>1 DEF RecordsKept, CloudKept
  <2>3. e # d
    BY <1>1, <2>1, <2>2
  <2> QED
    BY <1>1, <1>2, <2>2, <2>3 DEF Altered
<1> QED
  BY <1>5, <1>6, <1>7, <1>8, <1>9 DEF RecordsKept

\* No orderly run fails between its plan and its save, and no diff panics.
LEMMA NothingFails ==
    ASSUME Orderly, IInv, RecordsKept, NEW d \in Deployers
    PROVE  /\ ~ReadFails(d) /\ ~ApplyFails(d) /\ ~ReleaseEarly(d) /\ ~LockStateFails(d)
           /\ ~WriteFails(d) /\ ~WritePanics(d) /\ ~Crash(d)
           /\ ~ForceUnlock(d)
<1>1. Faults \cap {"read", "acquire", "apply", "decode", "save", "release",
                  "timeout", "crash"} = {}
  BY DEF Orderly
<1>2. \A e \in Deployers : pc[e] # "failed" /\ pc[e] # "crashed" /\ kept[e] = {}
  BY DEF RecordsKept, FileKept
<1>3. ~ReadFails(d) /\ ~ApplyFails(d) /\ ~WriteFails(d) /\ ~Crash(d)
  BY <1>1 DEF ReadFails, ApplyFails, WriteFails, Crash
<1>4. ~ReleaseEarly(d) /\ ~ForceUnlock(d)
  <2>1. \A l \in LockIds : lockOwner[l] = d => pc[d] # "done"
    BY <1>2 DEF IInv, OwnersAgree, MayOwn
  <2>2. stateLock = d => pc[d] # "done"
    BY <1>2 DEF IInv, StateLockAgrees
  <2> QED
    BY <1>2, <2>1, <2>2 DEF ReleaseEarly, ForceUnlock, Goto
<1>5. ~LockStateFails(d)
  <2>1. stateLock # NoOne => stateLock \in Deployers /\ pc[stateLock] \in {"write", "unlock"}
    BY <1>2 DEF IInv, TypeOK, StateLockAgrees
  <2> QED
    BY <1>1, <1>2, <2>1 DEF LockStateFails
<1>6. ~WritePanics(d)
  <2>1. pc[d] = "write" => ~ApplyPanics(diff[d], snap[d])
    BY DEF IInv, StateLockAgrees, RecordsKept, EntriesKept, ApplyPanics
  <2> QED
    BY <2>1 DEF WritePanics, Goto
<1> QED
  BY <1>3, <1>4, <1>5, <1>6

LEMMA RecordsInit == Orderly /\ Init => RecordsKept
<1> SUFFICES ASSUME Orderly, Init PROVE RecordsKept
  OBVIOUS
<1> USE DEF Init
<1>1. remote \in States /\ remote.ent = remote.reg
  BY LockAssumption DEF Orderly
<1>2. FileKept /\ FirstKept /\ CopyKept
  BY <1>1 DEF FileKept, FirstKept, CopyKept
<1>3. EntriesKept /\ PlanKept /\ DiffKept /\ CloudKept
  BY <1>1 DEF EntriesKept, PlanKept, DiffKept, CloudKept
<1> QED
  BY <1>2, <1>3 DEF RecordsKept

LEMMA RecordsStep == Orderly /\ IInv /\ RecordsKept /\ [Next]_vars => RecordsKept'
<1> SUFFICES ASSUME Orderly, IInv, RecordsKept, [Next]_vars PROVE RecordsKept'
  OBVIOUS
<1>1. CASE UNCHANGED vars
  BY <1>1 DEF vars, shared, local, history, RecordsKept, FileKept, FirstKept, CopyKept, EntriesKept, PlanKept, DiffKept,
     CloudKept, Altered
<1>2. ASSUME NEW d \in Deployers, Step(d) PROVE RecordsKept'
  <2>1. CASE ReadState(d) \/ Acquire(d) \/ AcquireFails(d) \/ Relock(d) \/ Reread(d)
    BY <2>1, CopyStep
  <2>2. CASE Plan(d)
    BY <2>2, PlanStep
  <2>3. CASE \/ PrepareFails(d) \/ PlanFails(d) \/ Approve(d) \/ Cancel(d) \/ ApplyDone(d)
             \/ UnlockState(d) \/ ReleaseLocks(d)
    BY <2>3, PassStep
  <2>4. CASE \E r \in Resources : ApplyOne(d, r)
    BY <2>4, ApplyStep
  <2>5. CASE LockState(d)
    BY <2>5, LockStateStep
  <2>6. CASE Write(d)
    BY <2>6, WriteStep
  <2> QED
    BY <1>2, <2>1, <2>2, <2>3, <2>4, <2>5, <2>6, NothingFails DEF Step
<1> QED
  BY <1>1, <1>2, NothingFails DEF Next

\* Orderly runs keep the records invariant, in any number and interleaving.
LEMMA RecordsInvariant ==
    ASSUME Orderly
    PROVE  Spec => [](IInv /\ RecordsKept)
<1>1. Init => IInv /\ RecordsKept
  BY LockInit, RecordsInit
<1>2. IInv /\ RecordsKept /\ [Next]_vars => (IInv /\ RecordsKept)'
  BY LockStep, RecordsStep
<1> QED
  BY <1>1, <1>2, PTL DEF Spec

\* When no run holds the locks of a resource, the state file records what is deployed
\* of it, unless a save merged it into a change its run had not read: the named locks
\* and the diff lose no other deployment of an orderly run.
THEOREM RecordsMatch ==
    ASSUME Orderly
    PROVE  Spec => []RecordMatchesCloud
<1>1. IInv /\ RecordsKept => RecordMatchesCloud
  BY LockAssumption DEF RecordsKept, CloudKept, RecordMatchesCloud
<1> QED
  BY <1>1, RecordsInvariant, PTL

\* No orderly run saves the record of a resource that another run has locked, unless
\* an earlier save had mixed it.
THEOREM SavesOwnRecords ==
    ASSUME Orderly
    PROVE  Spec => NoForeignSave
<1> DEFINE Own(d) == Saves(d) => \A r \in Touched(diff[d]) \ mixed : lockOwner[r] \in {d, NoOne}
<1>1. IInv /\ RecordsKept => \A d \in Deployers : Own(d)
  BY DEF RecordsKept, DiffKept, Saves, Touched
<1> QED
  BY <1>1, RecordsInvariant, PTL DEF NoForeignSave, Own

\* The diff of an orderly run can be applied to whatever the other runs have made of
\* the file by then: no save ends its process with the state locked.
THEOREM DiffsApply ==
    ASSUME Orderly
    PROVE  Spec => []DiffApplies
<1>1. IInv /\ RecordsKept => DiffApplies
  BY DEF IInv, StateLockAgrees, RecordsKept, EntriesKept, DiffApplies, ApplyPanics
<1> QED
  BY <1>1, RecordsInvariant, PTL

-----------------------------------------------------------------------------
(* The apps a run was not told to deploy *)

\* An app with an entry that run d was told nothing about: it is not among the targets
\* that d was given, and not skipped by name; or d leaves every app as it is.
OutOfReach(d, a) ==
    /\ before[d].ent[a] # Absent
    /\ d \in SkipAllApps \/ (Targets[d] # {} /\ a \notin Targets[d] /\ a \notin Skips[d])

\* Run d is not about to change app a or what is recorded of it.
Spares(d, a) ==
    /\ pc[d] \in {"prompt", "applying"} => a \notin todo[d]
    /\ pc[d] \in {"prompt", "applying", "failed", "save"} => ~Altered(d, a)
    /\ pc[d] = "write" => ~Touches(diff[d], a)

Spared == \A d \in Deployers, a \in Apps : OutOfReach(d, a) => Spares(d, a)

\* The plan has such an app as the state has it.
LEMMA OutOfReachPlan ==
    ASSUME NEW d \in Deployers, NEW s \in States, NEW c \in Recorded, NEW v \in BOOLEAN,
           NEW a \in Apps, s.ent[a] # Absent,
           d \in SkipAllApps \/ (Targets[d] # {} /\ a \notin Targets[d] /\ a \notin Skips[d])
    PROVE  /\ Desired(d, s)[a] = s.ent[a]
           /\ Actual(d, s, c, v)[a] = s.reg[a]
           /\ a \notin Changes(d, s, Actual(d, s, c, v))
<1>1. a \in Resources
  BY DEF Resources
<1>2. a \notin FromConfig(d)
  BY DEF FromConfig
<1>3. a \in FromState(d, s)
  BY <1>1 DEF FromState, Filtered, Present
<1>4. a \in LeftAlone(d, s)
  BY <1>3 DEF LeftAlone, Planned
<1> QED
  BY <1>1, <1>2, <1>3, <1>4 DEF Desired, Actual, Changes

\* So it has no part in the diff of a plan that does not alter it.
LEMMA SparedDiff ==
    ASSUME TypeOK, NEW d \in Deployers, NEW a \in Apps, ~Altered(d, a)
    PROVE  ~Touches(NewDiff(before[d], snap[d]), a)
<1>1. a \in Resources
  BY DEF Resources
<1>2. /\ NewDiff(before[d], snap[d]).ent[a] = KeyDiff(before[d].ent[a], snap[d].ent[a], "set", "nested")
      /\ NewDiff(before[d], snap[d]).reg[a] = KeyDiff(before[d].reg[a], snap[d].reg[a], "create", "merge")
  BY <1>1 DEF NewDiff
<1> QED
  BY <1>2 DEF Touches, Altered, KeyDiff

\* Steps of one run leave the others' plans alone.
LEMMA OthersSpare ==
    ASSUME TypeOK, NEW d \in Deployers, Step(d) \/ Crash(d) \/ ForceUnlock(d),
           NEW e \in Deployers \ {d}
    PROVE  /\ pc'[e] = pc[e] /\ todo'[e] = todo[e]
           /\ snap'[e] = snap[e] /\ before'[e] = before[e] /\ diff'[e] = diff[e]
<1> USE DEF TypeOK, Goto, shared, local, history
<1>1. CASE \/ ReadState(d) \/ ReadFails(d) \/ Acquire(d) \/ AcquireFails(d)
           \/ PrepareFails(d) \/ PlanFails(d) \/ Relock(d) \/ Reread(d)
  BY <1>1 DEF ReadState, ReadFails, Acquire, AcquireFails, PrepareFails, PlanFails, Relock, Reread
<1>2. CASE Plan(d)
  BY <1>2 DEF Plan
<1>3. CASE Approve(d) \/ Cancel(d) \/ ApplyDone(d) \/ ApplyFails(d) \/ ReleaseEarly(d)
  BY <1>3 DEF Approve, Cancel, ApplyDone, ApplyFails, ReleaseEarly
<1>4. CASE \E r \in Resources : ApplyOne(d, r)
  BY <1>4 DEF ApplyOne
<1>5. CASE \/ LockState(d) \/ LockStateFails(d) \/ Write(d) \/ WriteFails(d) \/ WritePanics(d)
           \/ UnlockState(d) \/ ReleaseLocks(d) \/ Crash(d) \/ ForceUnlock(d)
  BY <1>5 DEF LockState, LockStateFails, Write, WriteFails, WritePanics, UnlockState, ReleaseLocks,
              Crash, ForceUnlock
<1> QED
  BY <1>1, <1>2, <1>3, <1>4, <1>5 DEF Step

\* A step of the run itself: what is out of its reach stays out of its plan, and is not
\* changed by it.
LEMMA SparedByStep ==
    ASSUME IInv, Spared, NEW d \in Deployers, Step(d) \/ Crash(d) \/ ForceUnlock(d), NEW a \in Apps
    PROVE  /\ OutOfReach(d, a)' => Spares(d, a)'
           /\ OutOfReach(d, a) =>
                 /\ cloud'[a] = cloud[a]
                 /\ remote'.ent[a] = remote.ent[a] /\ remote'.reg[a] = remote.reg[a]
<1> USE DEF IInv, TypeOK, Goto, shared, local, history
<1>0. a \in Resources /\ (OutOfReach(d, a) => Spares(d, a))
  BY DEF Resources, Spared
<1>1. CASE \/ ReadState(d) \/ ReadFails(d) \/ Acquire(d) \/ AcquireFails(d)
           \/ PrepareFails(d) \/ PlanFails(d) \/ Relock(d) \/ Reread(d)
  <2>1. pc'[d] \in {"acquire", "locked", "reread", "release", "done"} /\ UNCHANGED <<cloud, remote>>
    BY <1>1 DEF ReadState, ReadFails, Acquire, AcquireFails, PrepareFails, PlanFails, Relock, Reread
  <2> QED
    BY <2>1 DEF Spares
<1>2. CASE Plan(d)
  <2> DEFINE s == snap[d]
             verify == Verify[d] \/ first[d]
             actual == Actual(d, s, cloud, verify)
             changes == Changes(d, s, actual)
  <2>1. /\ UNCHANGED <<cloud, remote>> /\ before'[d] = s
        /\ snap'[d] = [ent |-> Desired(d, s), reg |-> actual]
        /\ todo'[d] \subseteq changes
        /\ pc'[d] \in {"relock", "prompt", "save", "release"}
    BY <1>2 DEF Plan
  <2>2. s \in States /\ cloud \in Recorded /\ verify \in BOOLEAN
    BY LockAssumption
  <2> HIDE DEF s, verify
  <2>3. ASSUME s.ent[a] # Absent,
               d \in SkipAllApps \/ (Targets[d] # {} /\ a \notin Targets[d] /\ a \notin Skips[d])
        PROVE  Desired(d, s)[a] = s.ent[a] /\ actual[a] = s.reg[a] /\ a \notin changes
    BY <2>2, <2>3, OutOfReachPlan
  <2> HIDE DEF actual, changes
  <2>4. OutOfReach(d, a)' =>
            Desired(d, s)[a] = s.ent[a] /\ actual[a] = s.reg[a] /\ a \notin changes
    BY <2>1, <2>3 DEF OutOfReach
  <2> QED
    BY <2>1, <2>4 DEF Spares, Altered
<1>3. CASE Approve(d) \/ Cancel(d) \/ ApplyDone(d) \/ ReleaseEarly(d)
  <2>1. /\ UNCHANGED <<cloud, remote, snap, before, diff>> /\ todo'[d] \subseteq todo[d]
        /\ \/ pc[d] = "prompt" /\ pc'[d] \in {"applying", "release"}
           \/ pc[d] \in {"applying", "failed"} /\ pc'[d] = "save"
    BY <1>3 DEF Approve, Cancel, ApplyDone, ReleaseEarly
  <2> QED
    BY <1>0, <2>1 DEF Spares, Altered, OutOfReach
<1>4. ASSUME NEW r \in Resources, ApplyOne(d, r)
      PROVE  /\ OutOfReach(d, a)' => Spares(d, a)'
             /\ OutOfReach(d, a) =>
                   /\ cloud'[a] = cloud[a]
                   /\ remote'.ent[a] = remote.ent[a] /\ remote'.reg[a] = remote.reg[a]
  <2>1. /\ pc[d] = "applying" /\ r \in todo[d] /\ cloud' = [cloud EXCEPT ![r] = snap[d].ent[r]]
        /\ snap' = [snap EXCEPT ![d].reg[r] = snap[d].ent[r]]
        /\ todo'[d] = todo[d] \ {r} /\ UNCHANGED <<remote, pc, before, diff>>
    BY <1>4 DEF ApplyOne
  <2>2. OutOfReach(d, a) => a # r /\ ~Altered(d, a) /\ a \notin todo[d]
    BY <1>0, <2>1 DEF Spares
  <2>3. a # r => cloud'[a] = cloud[a] /\ snap'[d].ent[a] = snap[d].ent[a] /\ snap'[d].reg[a] = snap[d].reg[a]
    BY <1>0, <2>1 DEF States, Recorded
  <2>4. OutOfReach(d, a)' <=> OutOfReach(d, a)
    BY <2>1 DEF OutOfReach
  <2> QED
    BY <2>1, <2>2, <2>3, <2>4 DEF Spares, Altered
<1>5. CASE ApplyFails(d)
  <2>1. PICK lost \in SUBSET todo[d] :
            cloud' = [r \in Resources |-> IF r \in lost THEN snap[d].ent[r] ELSE cloud[r]]
    BY <1>5 DEF ApplyFails
  <2>2. /\ pc[d] = "applying" /\ pc'[d] = "failed" /\ UNCHANGED <<remote, snap, before, diff>>
    BY <1>5 DEF ApplyFails
  <2> QED
    BY <1>0, <2>1, <2>2 DEF Spares, Altered, OutOfReach
<1>6. CASE LockState(d)
  <2>1. /\ UNCHANGED <<cloud, remote, before>> /\ pc[d] = "save" /\ pc'[d] \in {"write", "release"}
        /\ diff'[d] = NewDiff(before[d], snap[d])
    BY <1>6 DEF LockState
  <2>2. OutOfReach(d, a)' => ~Altered(d, a)
    BY <1>0, <2>1 DEF OutOfReach, Spares
  <2> QED
    BY <2>1, <2>2, SparedDiff DEF Spares
<1>7. CASE Write(d)
  <2>1. /\ pc[d] = "write" /\ pc'[d] = "unlock" /\ cloud' = cloud
        /\ remote' = ApplyDiff(diff[d], remote)
    BY <1>7 DEF Write, StateLockAgrees
  <2>2. OutOfReach(d, a) => ~Touches(diff[d], a)
    BY <1>0, <2>1 DEF Spares
  <2> QED
    BY <1>0, <2>1, <2>2 DEF Spares, Touches, ApplyDiff, ApplyKey
<1>8. CASE \/ LockStateFails(d) \/ WriteFails(d) \/ WritePanics(d)
           \/ UnlockState(d) \/ ReleaseLocks(d) \/ Crash(d) \/ ForceUnlock(d)
  <2>1. pc'[d] \in {"release", "unlock", "done", "crashed"} /\ UNCHANGED <<cloud, remote>>
    BY <1>8 DEF LockStateFails, WriteFails, WritePanics, UnlockState, ReleaseLocks, Crash, ForceUnlock
  <2> QED
    BY <2>1 DEF Spares
<1> QED
  BY <1>1, <1>2, <1>3, <1>4, <1>5, <1>6, <1>7, <1>8 DEF Step

\* The step is d's: it changes where d is, or what d has still to do.
Moves(d) == pc'[d] # pc[d] \/ todo'[d] # todo[d]

LEMMA SparedStep == IInv /\ Spared /\ [Next]_vars => Spared'
<1> SUFFICES ASSUME IInv, Spared, [Next]_vars, NEW d \in Deployers, NEW a \in Apps
             PROVE  OutOfReach(d, a)' => Spares(d, a)'
  BY DEF Spared
<1>1. CASE UNCHANGED vars
  BY <1>1 DEF vars, shared, local, history, Spared, OutOfReach, Spares, Altered
<1>2. CASE Next
  <2>1. PICK e \in Deployers : Step(e) \/ Crash(e) \/ ForceUnlock(e)
    BY <1>2 DEF Next
  <2>2. CASE e = d
    BY <2>1, <2>2, SparedByStep
  <2>3. CASE e # d
    BY <2>1, <2>3, OthersSpare DEF IInv, Spared, OutOfReach, Spares, Altered
  <2> QED
    BY <2>2, <2>3
<1> QED
  BY <1>1, <1>2

\* A run changes no app that it was told nothing about, neither what is deployed of it
\* nor what the state file has of it, whatever fails: not the apps beside its targets,
\* and with --skip-all-apps, or as `ok status', none that has an entry.
THEOREM OtherAppsStay ==
    Spec => [][\A d \in Deployers, a \in Apps : Moves(d) /\ OutOfReach(d, a) =>
                  /\ cloud'[a] = cloud[a]
                  /\ remote'.ent[a] = remote.ent[a] /\ remote'.reg[a] = remote.reg[a]]_vars
<1> DEFINE Stays(d, a) == /\ cloud'[a] = cloud[a]
                          /\ remote'.ent[a] = remote.ent[a] /\ remote'.reg[a] = remote.reg[a]
           Still == \A d \in Deployers, a \in Apps : Moves(d) /\ OutOfReach(d, a) => Stays(d, a)
<1>1. Init => Spared
  BY DEF Init, Spared, Spares
<1>2. ASSUME IInv, Spared, [Next]_vars PROVE [Still]_vars
  <2> SUFFICES ASSUME Next, NEW d \in Deployers, NEW a \in Apps, Moves(d), OutOfReach(d, a)
               PROVE  Stays(d, a)
    BY <1>2
  <2>1. PICK e \in Deployers : Step(e) \/ Crash(e) \/ ForceUnlock(e)
    BY DEF Next
  <2>2. e = d
    BY <1>2, <2>1, OthersSpare DEF IInv, Moves
  <2> QED
    BY <1>2, <2>1, <2>2, SparedByStep
<1> QED
  BY <1>1, <1>2, LockInvariant, SparedStep, PTL DEF Spec
-----------------------------------------------------------------------------
(* What a save can mix *)

\* What a run has written down to save is the change from the copy of the file that it
\* planned from.
DiffFromCopy ==
    \A d \in Deployers : pc[d] = "write" => \E new \in States : diff[d] = NewDiff(before[d], new)

LEMMA DiffFromCopyStep == IInv /\ DiffFromCopy /\ [Next]_vars => DiffFromCopy'
<1> SUFFICES ASSUME IInv, DiffFromCopy, [Next]_vars, NEW d \in Deployers, pc'[d] = "write"
             PROVE  \E new \in States : diff'[d] = NewDiff(before'[d], new)
  BY DEF DiffFromCopy
<1>1. CASE UNCHANGED vars
  BY <1>1 DEF vars, local, DiffFromCopy
<1>2. CASE Next
  <2>1. PICK e \in Deployers : Step(e) \/ Crash(e) \/ ForceUnlock(e)
    BY <1>2 DEF Next
  <2>2. CASE e # d
    BY <2>1, <2>2, OthersSpare DEF IInv, DiffFromCopy
  <2>3. CASE e = d /\ LockState(d)
    BY <2>3 DEF LockState, IInv, TypeOK
  <2>4. CASE e = d /\ ~LockState(d)
    <3>1. pc \in [Deployers -> PCs]
      BY DEF IInv, TypeOK
    <3>2. Step(d) \/ Crash(d) \/ ForceUnlock(d)
      BY <2>1, <2>4
    <3>3. ~Plan(d)
      BY <3>1 DEF Plan, Goto
    <3>4. ForceUnlock(d)
      BY <2>4, <3>1, <3>2, <3>3 DEF Step, Goto, ReadState, ReadFails, Acquire, AcquireFails,
         PrepareFails, PlanFails, Relock, Reread, Approve, Cancel, ApplyOne, ApplyDone, ApplyFails,
         ReleaseEarly, LockStateFails, Write, WriteFails, WritePanics, UnlockState, ReleaseLocks,
         Crash
    <3> QED
      BY <3>1, <3>4 DEF ForceUnlock, local, DiffFromCopy
  <2> QED
    BY <2>2, <2>3, <2>4
<1> QED
  BY <1>1, <1>2

\* A save leaves of a resource something other than its run has planned only if the
\* file's entry or record of it is no longer what the run planned from: another run has
\* saved it since this one read the file.
THEOREM MixturesMoved ==
    Spec => [][\A d \in Deployers : Saves(d) =>
                  \A r \in mixed' \ mixed : \/ remote.ent[r] # before[d].ent[r]
                                            \/ remote.reg[r] # before[d].reg[r]]_vars
<1> DEFINE Moved == \A d \in Deployers : Saves(d) =>
                        \A r \in mixed' \ mixed : \/ remote.ent[r] # before[d].ent[r]
                                                  \/ remote.reg[r] # before[d].reg[r]
<1>1. Init => DiffFromCopy
  BY DEF Init, DiffFromCopy
<1>2. ASSUME IInv, DiffFromCopy, [Next]_vars PROVE [Moved]_vars
  <2> SUFFICES ASSUME Next, NEW d \in Deployers, Saves(d), NEW r \in mixed' \ mixed,
                      remote.ent[r] = before[d].ent[r], remote.reg[r] = before[d].reg[r]
               PROVE  FALSE
    BY <1>2
  <2>1. /\ remote \in States /\ before[d] \in States /\ snap[d] = remote
        /\ mixed \subseteq Resources
    BY <1>2 DEF IInv, TypeOK, StateLockAgrees, Saves
  <2>2. CASE Write(d)
    <3>1. r \in Mixtures(diff[d], remote)
      BY <2>1, <2>2 DEF Write
    <3>2. r \in Resources
      BY <3>1 DEF Mixtures
    <3>3. PICK new \in States : diff[d] = NewDiff(before[d], new)
      BY <1>2 DEF DiffFromCopy, Saves
    <3> QED
      BY <2>1, <3>1, <3>2, <3>3, DiffRoundTrip
  <2>3. CASE WriteFails(d)
    BY <2>3 DEF WriteFails, history
  <2> QED
    BY <1>2, <2>2, <2>3, SaveIsWrite
<1> QED
  BY <1>1, <1>2, LockInvariant, DiffFromCopyStep, PTL DEF Spec

-----------------------------------------------------------------------------
(* How long a run can go on *)

\* The order of the phases of one round of the lock loop.
Rank == [relock |-> 12, reread |-> 11, acquire |-> 10, locked |-> 9, prompt |-> 8,
         applying |-> 7, failed |-> 6, save |-> 5, write |-> 4, unlock |-> 3, release |-> 2,
         done |-> 1, crashed |-> 0]

\* A run has started, or asks for more locks than before, or is further in its round,
\* or has fewer changes to make: nothing that can go on for ever.
Closer(d) ==
    LET left == Cardinality(LockIds \ asked[d])
        changes == Cardinality(todo[d])
    IN  \/ pc[d] = "start" /\ pc'[d] # "start"
        \/ left' < left
        \/ left' = left /\ Rank[pc'[d]] < Rank[pc[d]]
        \/ left' = left /\ pc'[d] = pc[d] /\ changes' < changes

\* A larger part of a finite set leaves less of it.
LEMMA LessIsLeft ==
    ASSUME NEW S, IsFiniteSet(S), NEW T \in SUBSET S, NEW U \in SUBSET S, T \subseteq U, T # U
    PROVE  Cardinality(S \ U) < Cardinality(S \ T)
<1>1. S \ U \subseteq S \ T /\ S \ U # S \ T
  OBVIOUS
<1>2. IsFiniteSet(S \ T)
  BY FS_Subset
<1>3. IsFiniteSet(S \ U)
  BY FS_Subset
<1>4. Cardinality(S \ U) \in Nat /\ Cardinality(S \ T) \in Nat
  BY <1>2, <1>3, FS_CardinalityType
<1>5. Cardinality(S \ U) <= Cardinality(S \ T) /\ Cardinality(S \ T) # Cardinality(S \ U)
  BY <1>1, <1>2, FS_Subset
<1> QED
  BY <1>4, <1>5

LEMMA SetsAreFinite ==
    /\ IsFiniteSet(LockIds)
    /\ \A T \in SUBSET Resources : IsFiniteSet(T)
<1>1. IsFiniteSet(Resources) /\ IsFiniteSet(Plugins)
  BY IdsAssumption
<1>2. IsFiniteSet(Resources \cup Plugins)
  BY <1>1, FS_Union
<1> QED
  BY <1>1, <1>2, FS_Subset DEF LockIds

\* A step of a run that adds no locks and goes on with its round.
LEMMA FurtherInRound ==
    ASSUME NEW d \in Deployers, asked'[d] = asked[d], Rank[pc'[d]] < Rank[pc[d]]
    PROVE  Closer(d)
BY DEF Closer

\* A step of planAndApply: it has no locks missing, or it asks for them.
LEMMA PlanCloser ==
    ASSUME IInv, NEW d \in Deployers, Plan(d)
    PROVE  Closer(d)
<1> DEFINE s == snap[d]
           actual == Actual(d, s, cloud, Verify[d] \/ first[d])
           planned == [ent |-> Desired(d, s), reg |-> actual]
           changes == Changes(d, s, actual)
           missing == Missing(d, planned, changes)
<1>0. missing \subseteq LockIds /\ missing \cap acquired[d] = {}
  <2>1. s \in States /\ cloud \in Recorded /\ (Verify[d] \/ first[d]) \in BOOLEAN
    BY DEF IInv, TypeOK
  <2>2. planned \in States /\ changes \in SUBSET Resources
    BY <2>1, PlanTypes DEF States
  <2> QED
    BY <2>2, MissingType DEF Missing
<1>1. /\ pc[d] = "locked"
      /\ pc' = [pc EXCEPT ![d] = IF missing # {} THEN "relock"
                                 ELSE IF changes # {} THEN "prompt"
                                 ELSE IF planned # s THEN "save" ELSE "release"]
      /\ asked' = [asked EXCEPT ![d] = NextLocks(d, missing)]
  BY DEF Plan, Goto, s, actual, planned, changes, missing
<1> HIDE DEF s, actual, planned, changes, missing
<1>2. /\ pc \in [Deployers -> PCs] /\ asked \in [Deployers -> SUBSET LockIds]
      /\ asked[d] = acquired[d]
  BY <1>1 DEF IInv, TypeOK, ChangesCovered
<1>3. CASE missing = {}
  <2>1. asked'[d] = asked[d] /\ pc'[d] \in {"prompt", "save", "release"}
    BY <1>1, <1>2, <1>3 DEF NextLocks
  <2> QED
    BY <1>1, <2>1, FurtherInRound DEF Rank
<1>4. CASE missing # {}
  <2>1. asked[d] \subseteq asked'[d] /\ asked'[d] \subseteq LockIds /\ asked[d] # asked'[d]
    BY <1>0, <1>1, <1>2, <1>4 DEF NextLocks
  <2>2. Cardinality(LockIds \ asked'[d]) < Cardinality(LockIds \ asked[d])
    BY <1>2, <2>1, SetsAreFinite, LessIsLeft
  <2>3. LockIds' = LockIds
    BY DEF LockIds
  <2> QED
    BY <2>2, <2>3 DEF Closer
<1> QED
  BY <1>3, <1>4

\* What each step of a run does to what it has left.
LEMMA StepCloser ==
    ASSUME IInv, NEW d \in Deployers, Step(d)
    PROVE  Closer(d)
<1>1. /\ pc \in [Deployers -> PCs] /\ asked \in [Deployers -> SUBSET LockIds]
      /\ todo \in [Deployers -> SUBSET Resources]
  BY DEF IInv, TypeOK
<1>2. CASE ReadState(d)
  <2>1. pc[d] = "start" /\ pc'[d] = "acquire"
    BY <1>1, <1>2 DEF ReadState, Goto
  <2> QED
    BY <2>1 DEF Closer
<1>3. CASE ReadFails(d)
  <2>1. pc'[d] = "done" /\ pc[d] \in {"start", "reread"} /\ asked'[d] = asked[d]
    BY <1>1, <1>3 DEF ReadFails, Goto, local
  <2>2. CASE pc[d] = "start"
    BY <2>1, <2>2 DEF Closer
  <2>3. CASE pc[d] = "reread"
    BY <2>1, <2>3, FurtherInRound DEF Rank
  <2> QED
    BY <2>1, <2>2, <2>3
<1>4. CASE Acquire(d) \/ AcquireFails(d) \/ PrepareFails(d) \/ PlanFails(d) \/ Relock(d) \/ Reread(d)
  BY <1>1, <1>4, FurtherInRound
     DEF Acquire, AcquireFails, PrepareFails, PlanFails, Relock, Reread, Goto, local, Rank
<1>5. CASE Plan(d)
  BY <1>5, PlanCloser
<1>6. CASE Approve(d) \/ Cancel(d) \/ ApplyDone(d) \/ ApplyFails(d) \/ ReleaseEarly(d)
  BY <1>1, <1>6, FurtherInRound
     DEF Approve, Cancel, ApplyDone, ApplyFails, ReleaseEarly, Goto, local, Rank
<1>7. ASSUME NEW r \in Resources, ApplyOne(d, r) PROVE Closer(d)
  <2>1. /\ r \in todo[d] /\ todo'[d] = todo[d] \ {r} /\ todo[d] \subseteq Resources
        /\ UNCHANGED <<pc, asked>>
    BY <1>1, <1>7 DEF ApplyOne
  <2>2. IsFiniteSet(todo[d])
    BY <2>1, SetsAreFinite
  <2>3. Cardinality(todo[d] \ {r}) < Cardinality(todo[d] \ {})
    BY <2>1, <2>2, LessIsLeft
  <2>4. Cardinality(todo'[d]) < Cardinality(todo[d])
    BY <2>1, <2>3
  <2> QED
    BY <2>1, <2>4 DEF Closer, LockIds
<1>8. CASE LockState(d) \/ LockStateFails(d) \/ UnlockState(d) \/ ReleaseLocks(d)
  BY <1>1, <1>8, FurtherInRound
     DEF LockState, LockStateFails, UnlockState, ReleaseLocks, Goto, local, Rank
<1>9. CASE Write(d) \/ WriteFails(d) \/ WritePanics(d)
  <2>1. asked'[d] = asked[d] /\ pc[d] = "write" /\ pc'[d] \in {"unlock", "crashed"}
    BY <1>1, <1>9 DEF Write, WriteFails, WritePanics, Goto, local
  <2> QED
    BY <2>1, FurtherInRound DEF Rank
<1> QED
  BY <1>2, <1>3, <1>4, <1>5, <1>6, <1>7, <1>8, <1>9 DEF Step

\* A step of another run leaves a run where it is.
LEMMA OthersStand ==
    ASSUME TypeOK, NEW d \in Deployers, NEW e \in Deployers, e # d,
           Step(e) \/ Crash(e) \/ ForceUnlock(e)
    PROVE  UNCHANGED <<pc[d], asked[d], todo[d]>>
<1> USE DEF TypeOK, Goto, local
<1>1. CASE Crash(e) \/ ForceUnlock(e)
  BY <1>1 DEF Crash, ForceUnlock
<1>2. CASE ReadState(e) \/ ReadFails(e) \/ Acquire(e) \/ AcquireFails(e) \/ PrepareFails(e) \/ PlanFails(e)
  BY <1>2 DEF ReadState, ReadFails, Acquire, AcquireFails, PrepareFails, PlanFails
<1>3. CASE Plan(e)
  <2>1. PICK p, t, a : pc' = [pc EXCEPT ![e] = p] /\ todo' = [todo EXCEPT ![e] = t]
                       /\ asked' = [asked EXCEPT ![e] = a]
    BY <1>3 DEF Plan
  <2> QED
    BY <2>1
<1>4. CASE Relock(e) \/ Reread(e) \/ Approve(e) \/ Cancel(e) \/ (\E r \in Resources : ApplyOne(e, r))
           \/ ApplyDone(e) \/ ApplyFails(e) \/ ReleaseEarly(e)
  BY <1>4 DEF Relock, Reread, Approve, Cancel, ApplyOne, ApplyDone, ApplyFails, ReleaseEarly
<1>5. CASE LockState(e) \/ LockStateFails(e) \/ Write(e) \/ WriteFails(e) \/ WritePanics(e)
           \/ UnlockState(e) \/ ReleaseLocks(e)
  BY <1>5 DEF LockState, LockStateFails, Write, WriteFails, WritePanics, UnlockState, ReleaseLocks
<1> QED
  BY <1>1, <1>2, <1>3, <1>4, <1>5 DEF Step

\* Every step of a run brings it closer to its end, and no other run sends it back:
\* however often locks turn out to be missing, and whatever fails, a run makes
\* finitely many steps.
THEOREM StepsAreFinite ==
    Spec => [][\A d \in Deployers :
                  /\ Step(d) => Closer(d)
                  /\ UNCHANGED <<pc[d], asked[d], todo[d]>> \/ Closer(d)]_vars
<1> DEFINE Counts == \A d \in Deployers :
                        /\ Step(d) => Closer(d)
                        /\ UNCHANGED <<pc[d], asked[d], todo[d]>> \/ Closer(d)
<1>1. ASSUME IInv, [Next]_vars PROVE [Counts]_vars
  <2> SUFFICES ASSUME Next, NEW d \in Deployers
               PROVE  /\ Step(d) => Closer(d)
                      /\ UNCHANGED <<pc[d], asked[d], todo[d]>> \/ Closer(d)
    BY <1>1
  <2>1. Step(d) => Closer(d)
    BY <1>1, StepCloser
  <2>2. PICK e \in Deployers : Step(e) \/ Crash(e) \/ ForceUnlock(e)
    BY DEF Next
  <2>3. CASE e # d
    BY <1>1, <2>1, <2>2, <2>3, OthersStand DEF IInv
  <2>4. CASE e = d /\ Crash(e)
    <3>1. pc'[d] = "crashed" /\ asked'[d] = asked[d] /\ pc[d] \in PCs \ {"done", "crashed"}
      BY <1>1, <2>4 DEF Crash, local, IInv, TypeOK
    <3>2. CASE pc[d] = "start"
      BY <3>1, <3>2 DEF Closer
    <3>3. CASE pc[d] # "start"
      BY <3>1, <3>3, FurtherInRound DEF Rank, PCs
    <3> QED
      BY <2>1, <3>2, <3>3
  <2>5. CASE e = d /\ ForceUnlock(e)
    BY <2>1, <2>5 DEF ForceUnlock, local
  <2> QED
    BY <2>1, <2>2, <2>3, <2>4, <2>5
<1> QED
  BY <1>1, LockInvariant, PTL DEF Spec
=============================================================================
