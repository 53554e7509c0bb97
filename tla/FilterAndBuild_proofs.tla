------------------------ MODULE FilterAndBuild_proofs ------------------------
(***************************************************************************)
(* What filterApps plans, for any apps, states, targets and skips, in      *)
(* whatever order the maps are walked and however often the plan is made;  *)
(* what prepareApps and buildApps have made for the runs of one machine,   *)
(* whatever the others do; and that the two choose the same apps: what is  *)
(* planned from the project has been built, and nothing else has.          *)
(***************************************************************************)
EXTENDS DeployFilter, AppBuild, WellFoundedInduction, TLAPS

-----------------------------------------------------------------------------
(* The matchers of DeployFilter *)

\* A set of naturals has a least element.
LEMMA LeastExists ==
    ASSUME NEW S, S \subseteq Nat, S # {}
    PROVE  \E x \in S : \A y \in S : x <= y
<1> DEFINE Less == {ss \in Nat \X Nat : ss[1] < ss[2]}
<1>1. IsWellFoundedOn(Less, Nat)
  BY NatLessThanWellFounded DEF OpToRel
<1> HIDE DEF Less
<1>2. PICK x \in S : \A y \in S : <<y, x>> \notin Less
  BY <1>1, WFMin
<1>3. ASSUME NEW y \in S PROVE x <= y
  <2>1. <<y, x>> \in Nat \X Nat /\ <<y, x>>[1] = y /\ <<y, x>>[2] = x
    OBVIOUS
  <2>2. ~ (y < x)
    BY <1>2, <2>1 DEF Less
  <2> QED
    BY <2>2
<1> QED
  BY <1>3

\* Two lists select alike when they differ in the counts only.
Alike(new, old) ==
    /\ new \in Seq(Matchers)
    /\ DOMAIN new = DOMAIN old
    /\ \A i \in DOMAIN old : new[i].typ = old[i].typ /\ new[i].name = old[i].name

\* Such lists are empty together and each app has the same matchers in both.
LEMMA AlikeSelect ==
    ASSUME NEW old \in Seq(Matchers), NEW new, Alike(new, old)
    PROVE  /\ new = <<>> <=> old = <<>>
           /\ \A i \in DOMAIN old, a \in AppIds : Hits(new[i], a) = Hits(old[i], a)
           /\ \A a \in AppIds : Hitting(new, a) = Hitting(old, a)
           /\ \A a \in AppIds : Matches(new, a) = Matches(old, a)
           /\ Selected(new) = Selected(old)
<1>1. new = <<>> <=> old = <<>>
  BY DEF Alike
<1>2. \A i \in DOMAIN old, a \in AppIds : Hits(new[i], a) = Hits(old[i], a)
  BY DEF Alike, Hits
<1>3. \A a \in AppIds : Hitting(new, a) = Hitting(old, a)
  BY <1>2 DEF Alike, Hitting
<1> QED
  BY <1>1, <1>2, <1>3 DEF Matches, Selected

\* findByID returns a matcher that fits when there is one.
LEMMA FindByIDFits ==
    ASSUME NEW ms \in Seq(Matchers), NEW a \in AppIds, Matches(ms, a)
    PROVE  FindByID(ms, a) \in Hitting(ms, a)
<1>1. Hitting(ms, a) \subseteq Nat /\ Hitting(ms, a) # {}
  BY DEF Hitting, Matches
<1> QED
  BY <1>1, LeastExists DEF FindByID

\* A matcher's count is changed on its own.
LEMMA SetMatched ==
    ASSUME NEW m \in Matchers, NEW b \in BOOLEAN
    PROVE  LET n == [m EXCEPT !.matched = b]
           IN  n \in Matchers /\ n.typ = m.typ /\ n.name = m.name /\ n.matched = b
<1>1. m = [typ |-> m.typ, name |-> m.name, matched |-> m.matched]
      /\ m.typ \in Types \cup {"any"} /\ m.name \in Names
  BY DEF Matchers
<1>2. [m EXCEPT !.matched = b] = [typ |-> m.typ, name |-> m.name, matched |-> b]
  BY <1>1
<1> QED
  BY <1>1, <1>2 DEF Matchers

\* Counting a match changes counts only, of a matcher that fits the app.
LEMMA CountedAlike ==
    ASSUME NEW ms \in Seq(Matchers), NEW a \in AppIds
    PROVE  /\ Alike(Counted(ms, a), ms)
           /\ \A i \in DOMAIN ms : Counted(ms, a)[i].matched => ms[i].matched \/ Hits(ms[i], a)
<1>1. CASE ~Matches(ms, a)
  BY <1>1 DEF Counted, Alike
<1>2. CASE Matches(ms, a)
  <2> DEFINE k == FindByID(ms, a)
             one == [ms[k] EXCEPT !.matched = TRUE]
  <2>1. k \in DOMAIN ms /\ Hits(ms[k], a)
    BY <1>2, FindByIDFits DEF Hitting
  <2>2. one \in Matchers /\ one.typ = ms[k].typ /\ one.name = ms[k].name
    <3>1. ms[k] \in Matchers
      BY <2>1
    <3> QED
      BY <3>1, SetMatched
  <2>3. Counted(ms, a) = [ms EXCEPT ![k] = one]
    BY <1>2 DEF Counted
  <2> HIDE DEF k, one
  <2>4. [ms EXCEPT ![k] = one] \in Seq(Matchers)
    BY <2>1, <2>2
  <2> QED
    BY <2>1, <2>2, <2>3, <2>4 DEF Alike
<1> QED
  BY <1>1, <1>2

\* ResetMatches keeps what is selected, and nothing counts as used after it.
LEMMA ResetAlike ==
    ASSUME NEW ms \in Seq(Matchers)
    PROVE  /\ Alike(ResetMatches(ms), ms)
           /\ \A i \in DOMAIN ms : ~ResetMatches(ms)[i].matched
<1> DEFINE one(i) == [ms[i] EXCEPT !.matched = FALSE]
<1>1. ASSUME NEW i \in DOMAIN ms
      PROVE  one(i) \in Matchers /\ one(i).typ = ms[i].typ /\ one(i).name = ms[i].name
             /\ ~one(i).matched
  <2>1. ms[i] \in Matchers
    OBVIOUS
  <2> QED
    BY <2>1, SetMatched
<1>2. ResetMatches(ms) = [i \in DOMAIN ms |-> one(i)]
  BY DEF ResetMatches
<1> HIDE DEF one
<1>3. [i \in 1..Len(ms) |-> one(i)] \in Seq(Matchers) /\ DOMAIN ms = 1..Len(ms)
  BY <1>1
<1> QED
  BY <1>1, <1>2, <1>3 DEF Alike

\* A list with an app added to it is a list of matchers.
LEMMA AddedType ==
    ASSUME NEW ms \in Seq(Matchers), NEW a \in AppIds
    PROVE  Added(ms, a) \in Seq(Matchers)
<1>1. [typ |-> a.typ, name |-> a.name, matched |-> FALSE] \in Matchers
  BY DEF Matchers, AppIds
<1> QED
  BY <1>1 DEF Added

\* Where there are apps at all, every matcher selects one.
LEMMA SelectsSome ==
    ASSUME NEW ms \in Seq(Matchers), AppIds # {}
    PROVE  Selected(ms) # {} <=> ms # <<>>
<1>1. ASSUME ms # <<>> PROVE Selected(ms) # {}
  <2>1. 1 \in DOMAIN ms /\ ms[1] \in Matchers
    BY <1>1
  <2>2. PICK b \in AppIds : TRUE
    OBVIOUS
  <2> DEFINE t == IF ms[1].typ = "any" THEN b.typ ELSE ms[1].typ
             a == [typ |-> t, name |-> ms[1].name]
  <2>3. a \in AppIds /\ Hits(ms[1], a)
    BY <2>1, <2>2 DEF AppIds, Matchers, Hits
  <2> HIDE DEF a
  <2> QED
    BY <2>1, <2>3 DEF Selected, Matches, Hitting
<1>2. ms = <<>> => Selected(ms) = {}
  BY DEF Selected, Matches, Hitting
<1> QED
  BY <1>1, <1>2

-----------------------------------------------------------------------------
(* DeployPlan's description of the plan *)

\* The plan and what is left alone in it, in the terms of the loops.
LoopPlan ==
    [a \in AppIds |->
        IF mode # "skipAll" /\ a \in project /\ Taken(a) THEN "config"
        ELSE IF /\ a \in state
                /\ \/ mode = "skipAll"
                   \/ (targets # <<>> \/ skips # <<>>) /\ ~Matches(skips, a)
             THEN "state" ELSE "none"]
LoopAlone ==
    {a \in AppIds : LoopPlan[a] # "none" /\ (mode = "skipAll" \/ (targets # <<>> /\ ~Matches(targets, a)))}

\* DeployPlan says the same of the run.
LEMMA Description ==
    TypeOK =>
        /\ Plans!Desired("run", InState) = LoopPlan
        /\ Plans!LeftAlone("run", InState) = LoopAlone
<1> SUFFICES ASSUME TypeOK
             PROVE  /\ Plans!Desired("run", InState) = LoopPlan
                    /\ Plans!LeftAlone("run", InState) = LoopAlone
  OBVIOUS
<1>1. \A a \in AppIds : /\ Selected(targets) # {} <=> targets # <<>>
                        /\ Selected(skips) # {} <=> skips # <<>>
  BY SelectsSome DEF TypeOK
<1>2. Plans!Resources = AppIds
  BY DEF Plans!Resources
<1>3. \A a \in AppIds : a \in Plans!FromConfig("run") <=>
         mode # "skipAll" /\ a \in project /\ Taken(a)
  BY <1>1, <1>2 DEF Plans!FromConfig, Plans!Present, One, Def, Selected, Taken
<1>4. \A a \in AppIds : a \in Plans!FromState("run", InState) <=>
         /\ a \in state
         /\ mode = "skipAll" \/ ((targets # <<>> \/ skips # <<>>) /\ ~Matches(skips, a))
  BY <1>1, <1>2 DEF Plans!FromState, Plans!Filtered, Plans!Present, One, Def, InState, Selected
<1>5. \A a \in AppIds : /\ a \in project => One(Def(project, "config"))["run"][a] = "config"
                        /\ a \in state => InState.ent[a] = "state"
  BY DEF One, Def, InState
<1>6. Plans!Desired("run", InState) = LoopPlan
  BY <1>2, <1>3, <1>4, <1>5 DEF Plans!Desired, LoopPlan
<1>7. Plans!LeftAlone("run", InState) = LoopAlone
  <2>1. \A a \in AppIds : LoopPlan[a] # "none" <=> a \in Plans!Planned("run", InState)
    BY <1>3, <1>4 DEF Plans!Planned, LoopPlan
  <2>2. Plans!LeftAlone("run", InState) \subseteq AppIds
    BY DEF Plans!LeftAlone
  <2>3. \A a \in AppIds : a \in Plans!LeftAlone("run", InState) <=>
           /\ a \in Plans!Planned("run", InState)
           /\ mode = "skipAll" \/ (targets # <<>> /\ ~Matches(targets, a))
    BY <1>1 DEF Plans!LeftAlone, One, Selected
  <2> QED
    BY <2>1, <2>2, <2>3 DEF LoopAlone
<1> QED
  BY <1>6, <1>7

\* So filterApps only has to end in the plan of the loops.
AsVisited == phase = "done" /\ mode # "destroy" => plan = LoopPlan /\ alone = LoopAlone

LEMMA VisitedIsDescribed == TypeOK /\ AsVisited => PlanAsDescribed
BY Description DEF AsVisited, PlanAsDescribed

-----------------------------------------------------------------------------
(* The invariant of DeployFilter *)

FilterInv == PlansSound /\ GivenAppsExist /\ DeletesTargets

LEMMA FilterTypesInit == Init => TypeOK
BY InputsAssumption DEF Init, TypeOK, NoPlan, PlannedApps

LEMMA FilterTypesStep == TypeOK /\ [Next]_vars => TypeOK'
<1> SUFFICES ASSUME TypeOK, [Next]_vars
             PROVE  TypeOK'
  OBVIOUS
<1> USE DEF TypeOK, input, matchers, PlannedApps
<1>1. \A ms \in {targets, skips} :
         /\ ResetMatches(ms) \in Seq(Matchers)
         /\ \A a \in AppIds : Counted(ms, a) \in Seq(Matchers)
  BY ResetAlike, CountedAlike DEF Alike
<1>2. \A a \in AppIds : Counted(Added(Counted(skips, a), a), a) \in Seq(Matchers)
  BY <1>1, AddedType, CountedAlike DEF Alike
<1>3. Rounds \in Nat
  BY InputsAssumption
<1>4. CASE StartSkipAll
  BY <1>1, <1>3, <1>4 DEF StartSkipAll
<1>5. CASE StartAll
  BY <1>3, <1>5 DEF StartAll
<1>6. CASE StartFiltered
  BY <1>1, <1>3, <1>6 DEF StartFiltered, NoPlan
<1>7. ASSUME NEW a \in AppIds, VisitState(a) PROVE TypeOK'
  BY <1>1, <1>7 DEF VisitState
<1>8. ASSUME NEW a \in AppIds, VisitConfig(a) PROVE TypeOK'
  BY <1>1, <1>8 DEF VisitConfig
<1>9. ASSUME NEW a \in AppIds, VisitDestroy(a) PROVE TypeOK'
  BY <1>1, <1>2, <1>9 DEF VisitDestroy
<1>10. CASE LoopEnds
  BY <1>10 DEF LoopEnds
<1>11. CASE UnknownGiven
  BY <1>11 DEF UnknownGiven
<1>12. CASE Return
  BY <1>12 DEF Return, Mark
<1>13. CASE Again
  BY <1>13 DEF Again
<1>14. CASE UNCHANGED vars
  BY <1>14 DEF vars
<1> QED
  BY <1>4, <1>5, <1>6, <1>7, <1>8, <1>9, <1>10, <1>11, <1>12, <1>13, <1>14 DEF Next

\* No step changes which apps the targets select, and only a delete adds skips.
LEMMA StepSelects ==
    ASSUME TypeOK, [Next]_vars
    PROVE  Alike(targets', targets) /\ (mode # "destroy" => Alike(skips', skips))
<1> USE DEF TypeOK, input, matchers
<1>1. \A ms \in {targets, skips} :
         /\ Alike(ms, ms)
         /\ Alike(ResetMatches(ms), ms)
         /\ \A a \in AppIds : Alike(Counted(ms, a), ms)
  BY ResetAlike, CountedAlike DEF Alike
<1>2. CASE StartSkipAll \/ StartFiltered
  BY <1>1, <1>2 DEF StartSkipAll, StartFiltered
<1>3. CASE StartAll \/ LoopEnds \/ UnknownGiven \/ Return \/ Again \/ UNCHANGED vars
  BY <1>1, <1>3 DEF StartAll, LoopEnds, UnknownGiven, Return, Again, vars
<1>4. ASSUME NEW a \in AppIds, VisitState(a) \/ VisitConfig(a) \/ VisitDestroy(a)
      PROVE  Alike(targets', targets) /\ (mode # "destroy" => Alike(skips', skips))
  BY <1>1, <1>4 DEF VisitState, VisitConfig, VisitDestroy
<1> QED
  BY <1>2, <1>3, <1>4 DEF Next

\* So what is taken from the project stays the same.
LEMMA StepTakes ==
    ASSUME TypeOK, [Next]_vars
    PROVE  /\ targets' = <<>> <=> targets = <<>>
           /\ DOMAIN targets' = DOMAIN targets
           /\ Selected(targets)' = Selected(targets)
           /\ \A a \in AppIds : Matches(targets', a) = Matches(targets, a)
           /\ \A i \in DOMAIN targets, a \in AppIds : Hits(targets'[i], a) = Hits(targets[i], a)
           /\ mode # "destroy" =>
                 /\ skips' = <<>> <=> skips = <<>>
                 /\ DOMAIN skips' = DOMAIN skips
                 /\ Selected(skips)' = Selected(skips)
                 /\ \A a \in AppIds : Matches(skips', a) = Matches(skips, a)
                 /\ \A i \in DOMAIN skips, a \in AppIds : Hits(skips'[i], a) = Hits(skips[i], a)
                 /\ \A a \in AppIds : Taken(a)' = Taken(a)
<1>1. /\ targets' = <<>> <=> targets = <<>>
      /\ DOMAIN targets' = DOMAIN targets
      /\ Selected(targets') = Selected(targets)
      /\ \A a \in AppIds : Matches(targets', a) = Matches(targets, a)
      /\ \A i \in DOMAIN targets, a \in AppIds : Hits(targets'[i], a) = Hits(targets[i], a)
  BY StepSelects, AlikeSelect DEF TypeOK, Alike
<1>2. ASSUME mode # "destroy"
      PROVE  /\ skips' = <<>> <=> skips = <<>>
             /\ DOMAIN skips' = DOMAIN skips
             /\ Selected(skips') = Selected(skips)
             /\ \A a \in AppIds : Matches(skips', a) = Matches(skips, a)
             /\ \A i \in DOMAIN skips, a \in AppIds : Hits(skips'[i], a) = Hits(skips[i], a)
  BY <1>2, StepSelects, AlikeSelect DEF TypeOK, Alike
<1>3. Selected(targets)' = Selected(targets') /\ Selected(skips)' = Selected(skips')
  BY DEF Selected
<1>4. ASSUME mode # "destroy" PROVE \A a \in AppIds : Taken(a)' = Taken(a)
  BY <1>1, <1>2, <1>4 DEF Taken
<1> QED
  BY <1>1, <1>2, <1>3, <1>4

\* Each visit brings the plan one app nearer to the one described.
LEMMA StepPlans == TypeOK /\ PlanSoFar /\ [Next]_vars => PlanSoFar'
<1> SUFFICES ASSUME TypeOK, PlanSoFar, [Next]_vars
             PROVE  PlanSoFar'
  OBVIOUS
<1> USE DEF TypeOK, PlanSoFar, input
<1>1. /\ targets' = <<>> <=> targets = <<>>
      /\ mode # "destroy" =>
            /\ skips' = <<>> <=> skips = <<>>
            /\ \A a \in AppIds : Matches(skips', a) = Matches(skips, a)
            /\ \A a \in AppIds : Taken(a)' = Taken(a)
  BY StepTakes
<1>2. CASE StartSkipAll \/ StartAll \/ Again
  BY <1>2 DEF StartSkipAll, StartAll, Again
<1>3. CASE StartFiltered
  BY <1>1, <1>3 DEF StartFiltered, NoPlan
<1>4. ASSUME NEW a \in AppIds, VisitState(a) PROVE PlanSoFar'
  BY <1>1, <1>4 DEF VisitState
<1>5. ASSUME NEW a \in AppIds, VisitConfig(a) PROVE PlanSoFar'
  BY <1>1, <1>5 DEF VisitConfig
<1>6. ASSUME NEW a \in AppIds, VisitDestroy(a) PROVE PlanSoFar'
  BY <1>6 DEF VisitDestroy
<1>7. CASE LoopEnds
  BY <1>1, <1>7 DEF LoopEnds
<1>8. CASE UnknownGiven \/ Return
  BY <1>1, <1>8 DEF UnknownGiven, Return
<1>9. CASE UNCHANGED vars
  BY <1>1, <1>9 DEF vars
<1> QED
  BY <1>2, <1>3, <1>4, <1>5, <1>6, <1>7, <1>8, <1>9 DEF Next

\* Only an app that is there makes a matcher count as used.
LEMMA StepUses == TypeOK /\ PlanSoFar /\ UsedByApps /\ [Next]_vars => UsedByApps'
<1> SUFFICES ASSUME TypeOK, PlanSoFar, UsedByApps, [Next]_vars
             PROVE  UsedByApps'
  OBVIOUS
<1> USE DEF TypeOK, UsedByApps, input, matchers
<1>1. /\ DOMAIN targets' = DOMAIN targets
      /\ \A i \in DOMAIN targets, a \in AppIds : Hits(targets'[i], a) = Hits(targets[i], a)
      /\ mode # "destroy" =>
            /\ DOMAIN skips' = DOMAIN skips
            /\ Selected(skips)' = Selected(skips)
            /\ \A i \in DOMAIN skips, a \in AppIds : Hits(skips'[i], a) = Hits(skips[i], a)
  BY StepTakes
<1>2. CASE StartSkipAll \/ StartAll \/ Again
  BY <1>2 DEF StartSkipAll, StartAll, Again
<1>3. CASE StartFiltered
  BY <1>3, <1>1, ResetAlike DEF StartFiltered
<1>4. ASSUME NEW a \in AppIds, VisitState(a) PROVE UsedByApps'
  <2>1. a \in state /\ \A i \in DOMAIN skips : skips'[i].matched => skips[i].matched \/ Hits(skips[i], a)
    BY <1>4, CountedAlike DEF VisitState, PlanSoFar
  <2> QED
    BY <1>1, <1>4, <2>1 DEF VisitState
<1>5. ASSUME NEW a \in AppIds, VisitConfig(a) PROVE UsedByApps'
  <2>1. /\ a \in project
        /\ \A i \in DOMAIN skips : skips'[i].matched => skips[i].matched \/ Hits(skips[i], a)
    BY <1>5, CountedAlike DEF VisitConfig, PlanSoFar
  <2>2. \A i \in DOMAIN targets :
           targets'[i].matched => targets[i].matched \/ (Hits(targets[i], a) /\ a \notin Selected(skips))
    BY <1>5, CountedAlike DEF VisitConfig, Selected
  <2> QED
    BY <1>1, <1>5, <2>1, <2>2 DEF VisitConfig
<1>6. ASSUME NEW a \in AppIds, VisitDestroy(a) PROVE UsedByApps'
  BY <1>6 DEF VisitDestroy
<1>7. CASE LoopEnds \/ UnknownGiven \/ Return
  BY <1>1, <1>7 DEF LoopEnds, UnknownGiven, Return
<1>8. CASE UNCHANGED vars
  BY <1>1, <1>8 DEF vars
<1> QED
  BY <1>2, <1>3, <1>4, <1>5, <1>6, <1>7, <1>8 DEF Next

\* A delete never plans an app that it was given.
LEMMA StepDeletes == TypeOK /\ PlanSoFar /\ NoTargetKept /\ [Next]_vars => NoTargetKept'
<1> SUFFICES ASSUME TypeOK, PlanSoFar, NoTargetKept, [Next]_vars
             PROVE  NoTargetKept'
  OBVIOUS
<1> USE DEF TypeOK, NoTargetKept, PlannedApps, input, matchers
<1>1. (targets' = <<>> <=> targets = <<>>) /\ Selected(targets)' = Selected(targets)
  BY StepTakes
<1>2. CASE StartSkipAll \/ StartAll
  BY <1>1, <1>2 DEF StartSkipAll, StartAll
<1>3. CASE StartFiltered
  BY <1>1, <1>3 DEF StartFiltered, NoPlan
<1>4. ASSUME NEW a \in AppIds, VisitState(a) PROVE NoTargetKept'
  BY <1>4 DEF VisitState
<1>5. ASSUME NEW a \in AppIds, VisitConfig(a) PROVE NoTargetKept'
  BY <1>5 DEF VisitConfig, PlanSoFar
<1>6. ASSUME NEW a \in AppIds, VisitDestroy(a) PROVE NoTargetKept'
  BY <1>1, <1>6 DEF VisitDestroy, Selected
<1>7. CASE LoopEnds \/ UnknownGiven \/ Return \/ Again \/ UNCHANGED vars
  BY <1>1, <1>7 DEF LoopEnds, UnknownGiven, Return, Again, vars
<1> QED
  BY <1>2, <1>3, <1>4, <1>5, <1>6, <1>7 DEF Next

\* A run that ends has visited everything.
LEMMA StepVisits == TypeOK /\ PlanSoFar /\ AsVisited /\ [Next]_vars => AsVisited'
<1> SUFFICES ASSUME TypeOK, PlanSoFar, AsVisited, [Next]_vars
             PROVE  AsVisited'
  OBVIOUS
<1> USE DEF TypeOK, AsVisited, PlannedApps, input, matchers
<1>1. /\ targets' = <<>> <=> targets = <<>>
      /\ \A a \in AppIds : Matches(targets', a) = Matches(targets, a)
      /\ mode # "destroy" =>
            /\ skips' = <<>> <=> skips = <<>>
            /\ \A a \in AppIds : Matches(skips', a) = Matches(skips, a)
            /\ \A a \in AppIds : Taken(a)' = Taken(a)
  BY StepTakes
<1>2. CASE StartSkipAll
  BY <1>2 DEF StartSkipAll, LoopPlan, LoopAlone
<1>3. CASE StartAll
  <2>1. \A a \in AppIds : ~Matches(targets, a) /\ ~Matches(skips, a)
    BY <1>3 DEF StartAll, Matches, Hitting
  <2> QED
    BY <1>1, <1>3, <2>1 DEF StartAll, LoopPlan, LoopAlone, Taken
<1>4. CASE Return
  <2> SUFFICES ASSUME mode = "normal" PROVE plan = LoopPlan /\ Mark = LoopAlone
    <3>1. mode = "normal" \/ mode = "destroy"
      BY <1>4, InputsAssumption DEF Return, PlanSoFar, AllModes
    <3>2. UNCHANGED <<input, matchers, plan>> /\ alone' = Mark
      BY <1>4 DEF Return
    <3> QED
      BY <3>1, <3>2 DEF LoopPlan, LoopAlone, Taken
  <2>1. \A a \in AppIds : plan[a] = LoopPlan[a]
    BY <1>4 DEF Return, PlanSoFar, LoopPlan
  <2>2. plan = LoopPlan
    BY <2>1 DEF LoopPlan
  <2>3. \A a \in AppIds : LoopPlan[a] # "none" => ~Matches(skips, a)
    BY DEF LoopPlan, Taken
  <2> QED
    BY <2>2, <2>3 DEF Mark, LoopAlone
<1>5. CASE StartFiltered \/ UnknownGiven \/ Again \/ LoopEnds
  BY <1>5 DEF StartFiltered, UnknownGiven, Again, LoopEnds
<1>6. ASSUME NEW a \in AppIds, VisitState(a) \/ VisitConfig(a) \/ VisitDestroy(a)
      PROVE  AsVisited'
  BY <1>6 DEF VisitState, VisitConfig, VisitDestroy
<1>7. CASE UNCHANGED vars
  BY <1>1, <1>7 DEF vars, LoopPlan, LoopAlone
<1> QED
  BY <1>2, <1>3, <1>4, <1>5, <1>6, <1>7 DEF Next

\* The check at the end finds each target and skip used, or ends the run.
LEMMA StepChecks == FilterInv /\ [Next]_vars => GivenAppsExist'
<1> SUFFICES ASSUME FilterInv, [Next]_vars
             PROVE  GivenAppsExist'
  OBVIOUS
<1> USE DEF FilterInv, PlansSound, GivenAppsExist, TypeOK, input, matchers
<1>1. /\ DOMAIN targets' = DOMAIN targets
      /\ \A i \in DOMAIN targets, a \in AppIds : Hits(targets'[i], a) = Hits(targets[i], a)
      /\ mode # "destroy" =>
            /\ DOMAIN skips' = DOMAIN skips
            /\ Selected(skips)' = Selected(skips)
            /\ \A i \in DOMAIN skips, a \in AppIds : Hits(skips'[i], a) = Hits(skips[i], a)
  BY StepTakes
<1>2. CASE StartSkipAll
  BY <1>2 DEF StartSkipAll
<1>3. CASE StartAll
  BY <1>3 DEF StartAll
<1>4. CASE Return
  BY <1>1, <1>4 DEF Return, UsedByApps, Unmatched
<1>5. CASE StartFiltered \/ UnknownGiven \/ Again \/ LoopEnds
  BY <1>5 DEF StartFiltered, UnknownGiven, Again, LoopEnds
<1>6. ASSUME NEW a \in AppIds, VisitState(a) \/ VisitConfig(a) \/ VisitDestroy(a)
      PROVE  GivenAppsExist'
  BY <1>6 DEF VisitState, VisitConfig, VisitDestroy
<1>7. CASE UNCHANGED vars
  BY <1>1, <1>7 DEF vars
<1> QED
  BY <1>2, <1>3, <1>4, <1>5, <1>6, <1>7 DEF Next

\* What a delete has planned it was not given, so it is left alone.
LEMMA StepMarks == FilterInv /\ [Next]_vars => DeletesTargets'
<1> SUFFICES ASSUME FilterInv, [Next]_vars
             PROVE  DeletesTargets'
  OBVIOUS
<1> USE DEF FilterInv, PlansSound, DeletesTargets, TypeOK, PlannedApps, input, matchers
<1>1. (targets' = <<>> <=> targets = <<>>) /\ Selected(targets)' = Selected(targets)
  BY StepTakes
<1>2. CASE StartSkipAll
  BY <1>2 DEF StartSkipAll
<1>3. CASE StartAll
  BY <1>3 DEF StartAll
<1>4. CASE Return
  BY <1>1, <1>4 DEF Return, NoTargetKept, Mark, Selected
<1>5. CASE StartFiltered \/ UnknownGiven \/ Again \/ LoopEnds
  BY <1>5 DEF StartFiltered, UnknownGiven, Again, LoopEnds
<1>6. ASSUME NEW a \in AppIds, VisitState(a) \/ VisitConfig(a) \/ VisitDestroy(a)
      PROVE  DeletesTargets'
  BY <1>6 DEF VisitState, VisitConfig, VisitDestroy
<1>7. CASE UNCHANGED vars
  BY <1>1, <1>7 DEF vars
<1> QED
  BY <1>2, <1>3, <1>4, <1>5, <1>6, <1>7 DEF Next

LEMMA FilterInvInit == Init => FilterInv
<1> SUFFICES ASSUME Init PROVE FilterInv
  OBVIOUS
<1>1. TypeOK
  BY FilterTypesInit
<1>2. PlanSoFar /\ UsedByApps /\ NoTargetKept
  BY DEF Init, PlanSoFar, UsedByApps, NoTargetKept, PlannedApps, NoPlan
<1>3. PlanAsDescribed /\ GivenAppsExist /\ DeletesTargets
  BY DEF Init, PlanAsDescribed, GivenAppsExist, DeletesTargets
<1> QED
  BY <1>1, <1>2, <1>3 DEF FilterInv, PlansSound

LEMMA FilterInvStep == FilterInv /\ AsVisited /\ [Next]_vars => FilterInv' /\ AsVisited'
<1>1. FilterInv /\ AsVisited /\ [Next]_vars =>
        /\ (TypeOK /\ PlanSoFar /\ UsedByApps /\ NoTargetKept)'
        /\ (AsVisited /\ GivenAppsExist /\ DeletesTargets)'
  BY FilterTypesStep, StepPlans, StepUses, StepDeletes, StepVisits, StepChecks, StepMarks
     DEF FilterInv, PlansSound
<1>2. TypeOK' /\ AsVisited' => PlanAsDescribed'
  BY VisitedIsDescribed, PTL
<1> QED
  BY <1>1, <1>2 DEF FilterInv, PlansSound

\* The states of filterApps are of their types, and each visit brings the plan one app
\* nearer to the one that DeployPlan describes: whatever the order of the Go maps and
\* whatever an earlier round has left in the matchers, a call that returns has planned
\* it, with the apps left alone that it names.
THEOREM PlansAreSound == Spec => []PlansSound
<1>1. Init => FilterInv /\ AsVisited
  BY FilterInvInit DEF Init, AsVisited
<1>2. FilterInv => PlansSound
  BY DEF FilterInv
<1> QED
  BY <1>1, <1>2, FilterInvStep, PTL DEF Spec

\* A run that gets past the check of its options has a definition for each target in
\* the project, and for each skip in the project or in the state it has read last.
THEOREM OptionsNameApps == Spec => []GivenAppsExist
<1>1. Init => FilterInv /\ AsVisited
  BY FilterInvInit DEF Init, AsVisited
<1>2. FilterInv => GivenAppsExist
  BY DEF FilterInv
<1> QED
  BY <1>1, <1>2, FilterInvStep, PTL DEF Spec

\* A delete that goes through plans none of the apps it was given, so that the plugins
\* remove them, and leaves alone all that it plans.
THEOREM DeletesAreDone == Spec => []DeletesTargets
<1>1. Init => FilterInv /\ AsVisited
  BY FilterInvInit DEF Init, AsVisited
<1>2. FilterInv => DeletesTargets
  BY DEF FilterInv
<1> QED
  BY <1>1, <1>2, FilterInvStep, PTL DEF Spec

-----------------------------------------------------------------------------
(* The errors of filterApps *)

\* A list in which every matcher selects one app.
Exact(ms) == \A i \in DOMAIN ms : ms[i].typ \in Types

\* A list in which no two matchers select the same app.
Separate(ms) ==
    \A i, j \in DOMAIN ms, a \in AppIds : Hits(ms[i], a) /\ Hits(ms[j], a) => i = j

\* Every matcher that selects one of these apps counts as used.
Finds(ms, apps) == \A i \in DOMAIN ms, a \in apps : Hits(ms[i], a) => ms[i].matched

\* The apps that the loop over the project has visited, and that the loops have.
ProjectVisited ==
    {a \in project : phase \in {"check", "error"} \/ (phase = "config" /\ a \notin left)}
Visited == {a \in state : phase = "state" => a \notin left} \cup ProjectVisited

\* The matchers that are not used yet select nothing that has been visited; and
\* filterApps fails only if some are not used at the end.
Found ==
    /\ mode = "normal" /\ phase \in {"state", "config", "check", "error"} =>
          /\ Separate(targets) => Finds(targets, ProjectVisited \ Selected(skips))
          /\ Separate(skips) => Finds(skips, Visited)
    /\ phase = "error" => Unmatched(targets) \cup Unmatched(skips) # {}

\* When the matchers are separate, an app uses the one that selects it.
LEMMA CountedFinds ==
    ASSUME NEW ms \in Seq(Matchers), NEW a \in AppIds, NEW apps \in SUBSET AppIds,
           Separate(ms), Finds(ms, apps)
    PROVE  Finds(Counted(ms, a), apps \cup {a})
<1>1. DOMAIN Counted(ms, a) = DOMAIN ms
      /\ \A i \in DOMAIN ms, b \in AppIds : Hits(Counted(ms, a)[i], b) = Hits(ms[i], b)
  BY CountedAlike, AlikeSelect DEF Alike
<1>2. \A i \in DOMAIN ms : ms[i].matched \/ Hits(ms[i], a) => Counted(ms, a)[i].matched
  <2>1. CASE ~Matches(ms, a)
    BY <2>1 DEF Counted, Matches, Hitting
  <2>2. CASE Matches(ms, a)
    <3> DEFINE k == FindByID(ms, a)
               one == [ms[k] EXCEPT !.matched = TRUE]
    <3>1. k \in DOMAIN ms /\ Hits(ms[k], a)
      BY <2>2, FindByIDFits DEF Hitting
    <3>2. one.matched
      <4>1. ms[k] \in Matchers
        BY <3>1
      <4> QED
        BY <4>1, SetMatched
    <3>3. Counted(ms, a) = [ms EXCEPT ![k] = one]
      BY <2>2 DEF Counted
    <3> HIDE DEF k, one
    <3>4. \A i \in DOMAIN ms : Hits(ms[i], a) => i = k
      BY <3>1 DEF Separate
    <3> QED
      BY <3>1, <3>2, <3>3, <3>4
  <2> QED
    BY <2>1, <2>2
<1> QED
  BY <1>1, <1>2 DEF Finds

\* Each visit uses the matchers that select its app.
LEMMA StepFinds == FilterInv /\ Found /\ [Next]_vars => Found'
<1> SUFFICES ASSUME FilterInv, Found, [Next]_vars PROVE Found'
  OBVIOUS
<1> USE DEF FilterInv, PlansSound, TypeOK, input, matchers
<1>1. /\ DOMAIN targets' = DOMAIN targets
      /\ \A i \in DOMAIN targets, a \in AppIds : Hits(targets'[i], a) = Hits(targets[i], a)
      /\ mode # "destroy" =>
            /\ DOMAIN skips' = DOMAIN skips
            /\ Selected(skips)' = Selected(skips)
            /\ \A i \in DOMAIN skips, a \in AppIds : Hits(skips'[i], a) = Hits(skips[i], a)
  BY StepTakes
<1>2. /\ Separate(targets)' => Separate(targets)
      /\ mode # "destroy" => (Separate(skips)' => Separate(skips))
  BY <1>1 DEF Separate
<1>3. ProjectVisited \subseteq AppIds /\ Visited \subseteq AppIds
  BY DEF ProjectVisited, Visited
<1>4. CASE StartSkipAll \/ StartAll \/ Again
  BY <1>4 DEF StartSkipAll, StartAll, Again, Found
<1>5. CASE StartFiltered
  <2>1. phase' = "state" /\ left' = state /\ UNCHANGED <<mode, project, state>>
    BY <1>5 DEF StartFiltered
  <2>2. ProjectVisited' = {} /\ Visited' = {}
    BY <2>1 DEF ProjectVisited, Visited
  <2> QED
    BY <2>1, <2>2 DEF Found, Finds
<1>6. ASSUME NEW a \in AppIds, VisitState(a) PROVE Found'
  <2>1. /\ phase = "state" /\ mode = "normal" /\ phase' = "state" /\ targets' = targets
        /\ skips' = Counted(skips, a) /\ left' = left \ {a}
        /\ UNCHANGED <<mode, project, state>>
    BY <1>6 DEF VisitState
  <2>2. ProjectVisited' = {} /\ Visited' \subseteq Visited \cup {a}
    BY <2>1 DEF ProjectVisited, Visited
  <2>3. Separate(skips)' => Finds(skips', Visited \cup {a})
    BY <1>2, <1>3, <2>1, CountedFinds DEF Found
  <2> QED
    BY <2>1, <2>2, <2>3 DEF Found, Finds
<1>7. ASSUME NEW a \in AppIds, VisitConfig(a) PROVE Found'
  <2>1. /\ phase = "config" /\ phase' = "config" /\ left' = left \ {a}
        /\ skips' = Counted(skips, a)
        /\ targets' = IF Matches(skips, a) THEN targets ELSE Counted(targets, a)
        /\ UNCHANGED <<mode, project, state>>
    BY <1>7 DEF VisitConfig
  <2>2. ProjectVisited' \subseteq ProjectVisited \cup {a} /\ Visited' \subseteq Visited \cup {a}
    BY <2>1 DEF ProjectVisited, Visited
  <2>3. mode = "normal" /\ Separate(skips)' => Finds(skips', Visited \cup {a})
    BY <1>2, <1>3, <2>1, CountedFinds DEF Found
  <2>4. ASSUME mode = "normal", Separate(targets)'
        PROVE  Finds(targets', (ProjectVisited \cup {a}) \ Selected(skips))
    <3>1. Finds(targets, ProjectVisited \ Selected(skips)) /\ Separate(targets)
      BY <1>2, <2>1, <2>4 DEF Found
    <3>2. CASE Matches(skips, a)
      BY <2>1, <3>1, <3>2 DEF Finds, Selected
    <3>3. CASE ~Matches(skips, a)
      <4>1. Finds(targets', (ProjectVisited \ Selected(skips)) \cup {a})
        BY <1>3, <2>1, <3>1, <3>3, CountedFinds
      <4> QED
        BY <4>1 DEF Finds
    <3> QED
      BY <3>2, <3>3
  <2> QED
    BY <1>1, <2>1, <2>2, <2>3, <2>4 DEF Found, Finds
<1>8. ASSUME NEW a \in AppIds, VisitDestroy(a) PROVE Found'
  BY <1>8 DEF VisitDestroy, Found
<1>9. CASE LoopEnds \/ UnknownGiven \/ Return
  <2>1. UNCHANGED <<mode, project, state, targets, skips>>
        /\ (phase' = "error" => Unmatched(targets) \cup Unmatched(skips) # {})
    BY <1>9 DEF LoopEnds, UnknownGiven, Return
  <2>2. /\ mode = "normal" /\ phase' \in {"state", "config", "check", "error"} =>
              /\ phase \in {"state", "config", "check"}
              /\ ProjectVisited' \subseteq ProjectVisited /\ Visited' \subseteq Visited
    BY <1>9, <2>1 DEF LoopEnds, UnknownGiven, Return, ProjectVisited, Visited
  <2>3. Selected(skips)' = Selected(skips)
    BY <2>1 DEF Selected
  <2> QED
    BY <1>2, <2>1, <2>2, <2>3 DEF Found, Finds, Unmatched
<1>10. CASE UNCHANGED vars
  BY <1>10 DEF vars, Found, Finds, Separate, ProjectVisited, Visited, Unmatched, Selected
<1> QED
  BY <1>4, <1>5, <1>6, <1>7, <1>8, <1>9, <1>10 DEF Next

\* The guards of DeployPlan, in the terms of the matchers.
Unknown == Plans!UnknownTarget("run") \/ Plans!UnknownSkip("run", InState)

LEMMA UnknownMeans ==
    ASSUME TypeOK, mode = "normal"
    PROVE  Unknown <=>
              \/ \E a \in Selected(targets) : a \notin project \/ a \in Selected(skips)
              \/ \E a \in Selected(skips) : a \notin project \cup state
<1>1. \A a \in AppIds : /\ Selected(targets) # {} <=> targets # <<>>
                        /\ Selected(skips) # {} <=> skips # <<>>
  BY SelectsSome DEF TypeOK
<1>2. Plans!Resources = AppIds
  BY DEF Plans!Resources
<1>3. \A a \in Selected(targets) : a \in Plans!FromConfig("run") <=>
         a \in project /\ a \notin Selected(skips)
  BY <1>1, <1>2 DEF Plans!FromConfig, Plans!Present, One, Def, Selected
<1>4. \A a \in AppIds : /\ InState.ent[a] = "none" <=> a \notin state
                        /\ One(Def(project, "config"))["run"][a] = "none" <=> a \notin project
  BY DEF InState, Def, One
<1>5. Plans!UnknownTarget("run") <=> \E a \in Selected(targets) : a \notin Plans!FromConfig("run")
  BY DEF Plans!UnknownTarget, One
<1>6. Plans!UnknownSkip("run", InState) <=> \E a \in Selected(skips) : a \notin project \cup state
  BY <1>4 DEF Plans!UnknownSkip, One, Selected
<1> QED
  BY <1>3, <1>5, <1>6 DEF Unknown

\* A matcher selects an app, if there are apps at all.
LEMMA MatcherSelects ==
    ASSUME NEW ms \in Seq(Matchers), NEW i \in DOMAIN ms, AppIds # {}
    PROVE  \E a \in Selected(ms) : Hits(ms[i], a)
<1>1. ms[i] \in Matchers
  OBVIOUS
<1>2. PICK b \in AppIds : TRUE
  OBVIOUS
<1> DEFINE t == IF ms[i].typ = "any" THEN b.typ ELSE ms[i].typ
           a == [typ |-> t, name |-> ms[i].name]
<1>3. a \in AppIds /\ Hits(ms[i], a)
  BY <1>1, <1>2 DEF AppIds, Matchers, Hits
<1> HIDE DEF a
<1> QED
  BY <1>3 DEF Selected, Matches, Hitting

\* filterApps fails where the plan of DeployPlan does, the guard that the two models of
\* a deployment have. A call that returns has a definition for everything that it was
\* given, if each target and skip names one app; and a call that fails was given
\* something without one, if no app is given twice.
THEOREM ErrorsAreDescribed ==
    Spec => [](mode = "normal" =>
                  /\ Exact(targets) /\ Exact(skips) /\ phase = "done" => ~Unknown
                  /\ Separate(targets) /\ Separate(skips) /\ AppIds # {} /\ phase = "error"
                     => Unknown)
<1> DEFINE Described ==
        mode = "normal" =>
            /\ Exact(targets) /\ Exact(skips) /\ phase = "done" => ~Unknown
            /\ Separate(targets) /\ Separate(skips) /\ AppIds # {} /\ phase = "error" => Unknown
<1>1. Init => FilterInv /\ AsVisited /\ Found
  BY FilterInvInit DEF Init, AsVisited, Found
<1>2. FilterInv /\ Found => Described
  <2> SUFFICES ASSUME FilterInv, Found, mode = "normal"
               PROVE  /\ Exact(targets) /\ Exact(skips) /\ phase = "done" => ~Unknown
                      /\ Separate(targets) /\ Separate(skips) /\ AppIds # {} /\ phase = "error"
                         => Unknown
    OBVIOUS
  <2>1. TypeOK /\ GivenAppsExist
    BY DEF FilterInv, PlansSound
  <2>2. ASSUME Exact(targets), Exact(skips), phase = "done" PROVE ~Unknown
    <3>1. ASSUME NEW ms \in Seq(Matchers), Exact(ms), NEW i \in DOMAIN ms,
                 NEW a \in AppIds, NEW b \in AppIds, Hits(ms[i], a), Hits(ms[i], b)
          PROVE  a = b
      <4>1. a.typ = b.typ /\ a.name = b.name
        BY <3>1, InputsAssumption DEF Exact, Hits
      <4>2. a = [typ |-> a.typ, name |-> a.name] /\ b = [typ |-> b.typ, name |-> b.name]
        BY DEF AppIds
      <4> QED
        BY <4>1, <4>2
    <3>2. \A a \in Selected(targets) : a \in project \ Selected(skips)
      BY <2>1, <2>2, <3>1 DEF TypeOK, GivenAppsExist, Selected, Matches, Hitting
    <3>3. \A a \in Selected(skips) : a \in project \cup state
      BY <2>1, <2>2, <3>1 DEF TypeOK, GivenAppsExist, Selected, Matches, Hitting
    <3> QED
      BY <2>1, <3>2, <3>3, UnknownMeans
  <2>3. ASSUME Separate(targets), Separate(skips), AppIds # {}, phase = "error" PROVE Unknown
    <3>1. /\ Finds(targets, project \ Selected(skips)) /\ Finds(skips, project \cup state)
          /\ Unmatched(targets) \cup Unmatched(skips) # {}
      <4>1. ProjectVisited = project /\ Visited = project \cup state
        BY <2>3 DEF ProjectVisited, Visited
      <4> QED
        BY <2>3, <4>1 DEF Found
    <3>2. ASSUME NEW i \in Unmatched(targets) PROVE Unknown
      <4>1. PICK a \in Selected(targets) : Hits(targets[i], a)
        BY <2>1, <2>3, <3>2, MatcherSelects DEF TypeOK, Unmatched
      <4>2. a \notin project \ Selected(skips)
        BY <3>1, <3>2, <4>1 DEF Finds, Unmatched
      <4> QED
        BY <2>1, <4>2, UnknownMeans
    <3>3. ASSUME NEW i \in Unmatched(skips) PROVE Unknown
      <4>1. PICK a \in Selected(skips) : Hits(skips[i], a)
        BY <2>1, <2>3, <3>3, MatcherSelects DEF TypeOK, Unmatched
      <4>2. a \notin project \cup state
        BY <3>1, <3>3, <4>1 DEF Finds, Unmatched
      <4> QED
        BY <2>1, <4>2, UnknownMeans
    <3> QED
      BY <3>1, <3>2, <3>3
  <2> QED
    BY <2>2, <2>3
<1> QED
  BY <1>1, <1>2, FilterInvStep, StepFinds, PTL DEF Spec

-----------------------------------------------------------------------------
(* The apps, places and steps of AppBuild *)

\* A service is prepared or built, never both; a run prepares services only.
LEMMA PartsApart ==
    ASSUME BuildTypeOK, NEW r \in Runs
    PROVE  /\ Prepared(r) \subseteq Services
           /\ Builders(r) \subseteq Apps
           /\ Prepared(r) \cap Builders(r) = {}
BY AppBuildAssumption DEF BuildTypeOK, OptionsType, Prepared, Builders

LEMMA PlaceType ==
    ASSUME BuildTypeOK, NEW r \in Runs, NEW a \in Apps
    PROVE  Place(r, a) \in Places /\ option[r].env \in Envs
BY DEF BuildTypeOK, OptionsType, Place, Places

\* The places of archives are those of their environments; images share one.
LEMMA PlaceOf ==
    ASSUME BuildTypeOK, NEW r \in Runs, NEW a \in Apps
    PROVE  /\ a \in Services => Place(r, a) \notin Envs
           /\ a \notin Services => Place(r, a) = option[r].env
BY AppBuildAssumption DEF Place

LEMMA BuildTypesInit == BuildInit => BuildTypeOK
<1> SUFFICES ASSUME BuildInit PROVE BuildTypeOK
  OBVIOUS
<1> USE DEF BuildInit, BuildTypeOK, Contents
<1>1. store \in [Places -> [Apps -> Contents]]
  <2>1. PICK images \in [Apps -> {"none", "old"}] :
           store = [p \in Places |-> IF p = "docker" THEN images ELSE [b \in Apps |-> "none"]]
    OBVIOUS
  <2>2. images \in [Apps -> Contents] /\ [b \in Apps |-> "none"] \in [Apps -> Contents]
    OBVIOUS
  <2> QED
    BY <2>1, <2>2
<1>2. work \in [Runs -> [Apps -> Over \cup {"new", "queued", "running", "stuck", "archive", "made"}]]
  OBVIOUS
<1>3. hash \in [Runs -> [Apps -> Contents]]
  OBVIOUS
<1> QED
  BY <1>1, <1>2, <1>3

\* Moves changes the counter only.
LEMMA MovesType ==
    ASSUME BuildTypeOK, NEW r \in Runs, NEW from, NEW to,
           to \in {"prepare", "pull", "lock", "ready", "cleanup"}, Moves(r, from, to)
    PROVE  BuildTypeOK'
BY DEF BuildTypeOK, Moves, Goto

LEMMA BecomesType ==
    ASSUME BuildTypeOK, NEW r \in Runs, NEW a \in Apps, NEW what,
           what \in Over \cup {"new", "queued", "running", "stuck", "archive", "made"}, Becomes(r, a, what)
    PROVE  work' \in [Runs -> [Apps -> Over \cup {"new", "queued", "running", "stuck", "archive", "made"}]]
BY DEF BuildTypeOK, Becomes

LEMMA WriteType ==
    ASSUME BuildTypeOK, NEW r \in Runs, NEW a \in Apps, NEW content \in Contents, Write(r, a, content)
    PROVE  BuildTypeOK'
<1>1. store' \in [Places -> [Apps -> Contents]]
  BY PlaceType DEF BuildTypeOK, Write
<1>2. raced' \subseteq Runs \X Apps
  BY DEF BuildTypeOK, Write, Losers
<1>3. work' \in [Runs -> [Apps -> Over \cup {"new", "queued", "running", "stuck", "archive", "made"}]]
  BY BecomesType DEF Write
<1> QED
  BY <1>1, <1>2, <1>3 DEF BuildTypeOK, Write

LEMMA ReadType ==
    ASSUME BuildTypeOK, NEW r \in Runs, NEW a \in Apps, Read(r, a)
    PROVE  BuildTypeOK'
<1>1. store[Place(r, a)][a] \in Contents
  BY PlaceType DEF BuildTypeOK
<1>2. hash' \in [Runs -> [Apps -> Contents]]
  BY <1>1 DEF BuildTypeOK, Read
<1>3. work' \in [Runs -> [Apps -> Over \cup {"new", "queued", "running", "stuck", "archive", "made"}]]
  BY BecomesType DEF Read, Over
<1> QED
  BY <1>2, <1>3 DEF BuildTypeOK, Read

LEMMA RemoveAllType ==
    ASSUME BuildTypeOK, NEW r \in Runs, Start(r) \/ End(r)
    PROVE  BuildTypeOK'
<1>1. option[r].env \in Envs
  BY DEF BuildTypeOK, OptionsType
<1>2. store' \in [Places -> [Apps -> Contents]]
  <2>1. [a \in Apps |-> "none"] \in [Apps -> Contents] /\ option[r].env \in Places
    BY <1>1 DEF Contents, Places
  <2>2. store' = [store EXCEPT ![option[r].env] = [a \in Apps |-> "none"]]
    BY DEF Start, End, RemoveAll
  <2> QED
    BY <2>1, <2>2 DEF BuildTypeOK
<1>3. raced' \subseteq Runs \X Apps
  BY DEF BuildTypeOK, Start, End, RemoveAll, Losers
<1> QED
  BY <1>1, <1>2, <1>3 DEF BuildTypeOK, Start, End, RemoveAll, Goto

LEMMA BuildTypesStep == BuildTypeOK /\ [BuildNext]_buildVars => BuildTypeOK'
<1> SUFFICES ASSUME BuildTypeOK, [BuildNext]_buildVars
             PROVE  BuildTypeOK'
  OBVIOUS
<1>1. ASSUME NEW r \in Runs, Start(r) \/ End(r) PROVE BuildTypeOK'
  BY <1>1, RemoveAllType
<1>2. ASSUME NEW r \in Runs, MakeDir(r) PROVE BuildTypeOK'
  BY <1>2 DEF BuildTypeOK, MakeDir, Goto, OptionsType
<1>3. ASSUME NEW r \in Runs, Interrupt(r) PROVE BuildTypeOK'
  BY <1>3 DEF BuildTypeOK, Interrupt
<1>4. ASSUME NEW r \in Runs, Docker(r) \/ DockerFails(r) \/ Pull(r) \/ PrepareFails(r) \/ LockFails(r) \/ Apply(r)
      PROVE  BuildTypeOK'
  BY <1>4, MovesType DEF Docker, DockerFails, Pull, PrepareFails, LockFails, Apply
<1>5. ASSUME NEW r \in Runs, PullEnds(r) \/ BuildEnds(r) PROVE BuildTypeOK'
  BY <1>5, MovesType DEF PullEnds, BuildEnds, Waited
<1>6. ASSUME NEW r \in Runs, Build(r) PROVE BuildTypeOK'
  BY <1>6 DEF BuildTypeOK, Build, Goto
<1>7. ASSUME NEW r \in Runs, NEW a \in Apps, Inspect(r, a) \/ ReadBack(r, a) PROVE BuildTypeOK'
  BY <1>7, ReadType DEF Inspect, ReadBack
<1>8. ASSUME NEW r \in Runs, NEW a \in Apps,
             \/ Queue(r, a) \/ Begin(r, a) \/ LineTooLong(r, a) \/ CommandEnds(r, a)
             \/ CommandFails(r, a) \/ ArchiveFails(r, a) \/ ReadBackFails(r, a)
      PROVE  BuildTypeOK'
  <2>1. UNCHANGED <<option, pc, dir, store, hash, raced, canceled>>
    BY <1>8 DEF Queue, Begin, LineTooLong, CommandEnds, CommandFails, ArchiveFails, ReadBackFails
  <2>2. \E what \in Over \cup {"new", "queued", "running", "stuck", "archive", "made"} : Becomes(r, a, what)
    BY <1>8 DEF Queue, Begin, LineTooLong, CommandEnds, CommandFails, ArchiveFails, ReadBackFails,
                Archiving, Over
  <2> QED
    BY <2>1, <2>2, BecomesType DEF BuildTypeOK
<1>9. ASSUME NEW r \in Runs, NEW a \in Apps, Image(r, a) \/ Archive(r, a) PROVE BuildTypeOK'
  BY <1>9, WriteType DEF Image, Archive, Contents
<1>10. CASE UNCHANGED buildVars
  BY <1>10 DEF BuildTypeOK, buildVars
<1> QED
  BY <1>1, <1>2, <1>3, <1>4, <1>5, <1>6, <1>7, <1>8, <1>9, <1>10 DEF BuildNext, Main, Command

\* No step changes what a run was asked for.
LEMMA OptionsStay ==
    ASSUME [BuildNext]_buildVars
    PROVE  /\ option' = option
           /\ \A r \in Runs : Prepared(r)' = Prepared(r) /\ Builders(r)' = Builders(r)
           /\ \A r \in Runs, a \in Apps : Place(r, a)' = Place(r, a)
<1>1. option' = option
  BY DEF BuildNext, buildVars, Main, Command, Start, End, RemoveAll, MakeDir, Interrupt, Moves, LockFails,
         Apply, Docker, DockerFails, Inspect, Read, Queue, PrepareFails, Pull, PullEnds, Waited, Build,
         BuildEnds, Begin, LineTooLong, Image, Write, CommandEnds, CommandFails, Archive, ArchiveFails,
         ReadBack, ReadBackFails
<1> QED
  BY <1>1 DEF Prepared, Builders, Place

-----------------------------------------------------------------------------
(* The invariant of AppBuild *)

BuildInv == BuildTypeOK /\ WorkBegun /\ StagesDone /\ HashesRead /\ ArchivesMade

\* A run works on apps it has to prepare while it waits for the pulls, and on apps it
\* has to build while it waits for the builds.
LEMMA WorkBegunStep == BuildTypeOK /\ WorkBegun /\ StagesDone /\ [BuildNext]_buildVars => WorkBegun'
<1> SUFFICES ASSUME BuildTypeOK, WorkBegun, StagesDone, [BuildNext]_buildVars
             PROVE  WorkBegun'
  OBVIOUS
<1> USE DEF BuildTypeOK, WorkBegun, Begun, Over
<1>0. option' = option /\ \A q \in Runs : Prepared(q)' = Prepared(q) /\ Builders(q)' = Builders(q)
  BY OptionsStay
<1>1. ASSUME NEW r \in Runs, Start(r) \/ End(r) \/ MakeDir(r) \/ Interrupt(r) PROVE WorkBegun'
  <2>1. /\ work' = work
        /\ \A q \in Runs : \/ pc'[q] = pc[q]
                           \/ pc[q] = "start" /\ pc'[q] = "mkdir"
                           \/ pc[q] = "mkdir" /\ pc'[q] = "docker"
                           \/ pc[q] = "cleanup" /\ pc'[q] = "ended"
    BY <1>1 DEF Start, End, RemoveAll, MakeDir, Interrupt, Goto
  <2>2. ASSUME NEW q \in Runs, NEW b \in Apps PROVE Begun(q, b)'
    <3>1. Begun(q, b) /\ work'[q][b] = work[q][b]
      BY <2>1
    <3>2. CASE pc'[q] = pc[q]
      BY <1>0, <3>1, <3>2
    <3>3. CASE pc[q] \in {"start", "mkdir"}
      BY <1>0, <2>1, <3>1, <3>3, PartsApart
    <3>4. CASE pc[q] = "cleanup" /\ pc'[q] = "ended"
      BY <1>0, <3>1, <3>4
    <3> QED
      BY <2>1, <3>2, <3>3, <3>4
  <2> QED
    BY <2>2
<1>2. ASSUME NEW r \in Runs, Docker(r) \/ DockerFails(r) \/ Pull(r) \/ LockFails(r) \/ Apply(r)
      PROVE  WorkBegun'
  <2>1. /\ work' = work
        /\ \A q \in Runs : \/ pc'[q] = pc[q]
                           \/ pc[q] \in {"docker", "prepare", "lock", "ready"}
                              /\ pc'[q] \in {"prepare", "pull", "cleanup"}
    BY <1>2 DEF Docker, DockerFails, Pull, LockFails, Apply, Moves, Goto
  <2>2. \A q \in Runs : pc[q] = "ready" => pc'[q] \in {"ready", "cleanup"}
    BY <1>2 DEF Docker, DockerFails, Pull, LockFails, Apply, Moves, Goto
  <2>3. ASSUME NEW q \in Runs, NEW b \in Apps PROVE Begun(q, b)'
    <3>1. Begun(q, b) /\ work'[q][b] = work[q][b]
      BY <2>1
    <3>2. CASE pc'[q] = pc[q]
      BY <1>0, <3>1, <3>2
    <3>3. CASE pc[q] = "ready" /\ pc'[q] = "cleanup"
      BY <1>0, <3>1, <3>3
    <3>4. CASE pc[q] \in {"docker", "prepare", "lock"} /\ pc'[q] \in {"prepare", "pull", "cleanup"}
      BY <1>0, <3>1, <3>4
    <3> QED
      BY <2>1, <2>2, <3>2, <3>3, <3>4
  <2> QED
    BY <2>3
<1>3. ASSUME NEW r \in Runs, PrepareFails(r) PROVE WorkBegun'
  BY <1>0, <1>3 DEF PrepareFails, Moves, Goto
<1>4. ASSUME NEW r \in Runs, PullEnds(r) PROVE WorkBegun'
  BY <1>0, <1>4 DEF PullEnds, Waited, Moves, Goto
<1>5. ASSUME NEW r \in Runs, BuildEnds(r) PROVE WorkBegun'
  BY <1>0, <1>5, PartsApart DEF BuildEnds, Waited, Moves, Goto, StagesDone
<1>6. ASSUME NEW r \in Runs, Build(r) PROVE WorkBegun'
  BY <1>0, <1>6, PartsApart DEF Build, Goto, StagesDone
<1>7. ASSUME NEW r \in Runs, NEW a \in Apps, Inspect(r, a) \/ ReadBack(r, a) PROVE WorkBegun'
  <2>1. /\ pc' = pc
        /\ \A q \in Runs, b \in Apps : q # r \/ b # a => work'[q][b] = work[q][b]
    BY <1>7 DEF Inspect, ReadBack, Read, Becomes
  <2>2. /\ work'[r][a] = "done"
        /\ work[r][a] = "made" \/ (a \in Prepared(r) /\ pc[r] = "prepare")
    BY <1>7 DEF Inspect, ReadBack, Read, Becomes
  <2> QED
    BY SMTT(30), <1>0, <2>1, <2>2
<1>8. ASSUME NEW r \in Runs, NEW a \in Apps, Queue(r, a) \/ Begin(r, a) \/ LineTooLong(r, a) \/ CommandEnds(r, a)
      PROVE  WorkBegun'
  <2>1. /\ pc' = pc
        /\ \A q \in Runs, b \in Apps : q # r \/ b # a => work'[q][b] = work[q][b]
    BY <1>8 DEF Queue, Begin, LineTooLong, CommandEnds, Becomes
  <2>2. \/ work'[r][a] = "queued" /\ a \in Prepared(r) /\ pc[r] = "prepare"
        \/ /\ work[r][a] \in {"queued", "running"} /\ pc[r] \in {"pull", "build"}
           /\ work'[r][a] \in {"running", "stuck", "done"} \/ (work'[r][a] = "archive" /\ a \in Archives)
    <3>1. CASE Queue(r, a)
      BY <3>1 DEF Queue, Becomes
    <3>2. CASE Begin(r, a)
      BY <3>2 DEF Begin, Becomes, Archiving
    <3> work[r][a] = "running" => pc[r] \in {"pull", "build"}
      OBVIOUS
    <3>3. CASE LineTooLong(r, a)
      BY <3>3 DEF LineTooLong, Becomes
    <3>4. CASE CommandEnds(r, a)
      BY <3>4 DEF CommandEnds, Becomes, Archiving
    <3> QED
      BY <1>8, <3>1, <3>2, <3>3, <3>4
  <2> QED
    BY <1>0, <2>1, <2>2
<1>9. ASSUME NEW r \in Runs, NEW a \in Apps, CommandFails(r, a) \/ ArchiveFails(r, a) \/ ReadBackFails(r, a)
      PROVE  WorkBegun'
  BY <1>0, <1>9, PartsApart DEF CommandFails, Stopped, ArchiveFails, ReadBackFails, Becomes
<1>10. ASSUME NEW r \in Runs, NEW a \in Apps, Image(r, a) \/ Archive(r, a) PROVE WorkBegun'
  <2>1. /\ pc' = pc
        /\ \A q \in Runs, b \in Apps : q # r \/ b # a => work'[q][b] = work[q][b]
    BY <1>10 DEF Image, Archive, Write, Becomes
  <2>2. /\ work[r][a] \in {"running", "archive"} /\ work'[r][a] = "made"
        /\ a \in Services \cup Archives
    BY <1>10 DEF Image, Archive, Write, Becomes
  <2> QED
    BY SMTT(30), <1>0, <2>1, <2>2
<1>11. CASE UNCHANGED buildVars
  BY <1>0, <1>11 DEF buildVars
<1> QED
  BY <1>1, <1>2, <1>3, <1>4, <1>5, <1>6, <1>7, <1>8, <1>9, <1>10, <1>11 DEF BuildNext, Main, Command

\* A stage is left early only for the cleanup, and nothing is taken up again.
LEMMA StagesDoneStep == BuildTypeOK /\ WorkBegun /\ StagesDone /\ [BuildNext]_buildVars => StagesDone'
<1> SUFFICES ASSUME BuildTypeOK, WorkBegun, StagesDone, [BuildNext]_buildVars
             PROVE  StagesDone'
  OBVIOUS
<1> USE DEF BuildTypeOK, StagesDone, Over
<1>0. /\ option' = option
      /\ \A q \in Runs : /\ Prepared(q)' = Prepared(q) /\ Builders(q)' = Builders(q)
                         /\ Prepared(q) \subseteq Apps /\ Builders(q) \subseteq Apps
                         /\ Prepared(q) \cap Builders(q) = {}
  BY OptionsStay, PartsApart, AppBuildAssumption
<1>1. ASSUME NEW r \in Runs, Start(r) \/ End(r) \/ MakeDir(r) \/ Interrupt(r) PROVE StagesDone'
  BY SMTT(30), <1>0, <1>1 DEF Start, End, RemoveAll, MakeDir, Interrupt, Goto
<1>2. ASSUME NEW r \in Runs, \/ Docker(r) \/ DockerFails(r) \/ Pull(r) \/ LockFails(r) \/ Apply(r)
                             \/ PrepareFails(r)
      PROVE  StagesDone'
  <2>1. /\ work' = work
        /\ \A q \in Runs : pc'[q] # pc[q] => pc'[q] \in {"prepare", "pull", "cleanup"}
    BY <1>2 DEF Docker, DockerFails, Pull, PrepareFails, LockFails, Apply, Moves, Goto
  <2> QED
    BY <1>0, <2>1
<1>3. ASSUME NEW r \in Runs, PullEnds(r) \/ BuildEnds(r) PROVE StagesDone'
  BY <1>0, <1>3 DEF PullEnds, BuildEnds, Waited, Moves, Goto
<1>4. ASSUME NEW r \in Runs, Build(r) PROVE StagesDone'
  BY <1>0, <1>4 DEF Build, Goto
<1>5. ASSUME NEW r \in Runs, NEW a \in Apps, Inspect(r, a) \/ ReadBack(r, a) PROVE StagesDone'
  <2>1. /\ pc' = pc /\ work'[r][a] = "done"
        /\ \A q \in Runs, b \in Apps : q # r \/ b # a => work'[q][b] = work[q][b]
    BY <1>5 DEF Inspect, ReadBack, Read, Becomes
  <2> QED
    BY <1>0, <2>1
<1>6. ASSUME NEW r \in Runs, NEW a \in Apps, 
             \/ Queue(r, a) \/ Begin(r, a) \/ LineTooLong(r, a) \/ CommandEnds(r, a)
             \/ CommandFails(r, a) \/ ArchiveFails(r, a) \/ ReadBackFails(r, a)
             \/ Image(r, a) \/ Archive(r, a)
      PROVE  StagesDone'
  <2>1. /\ pc' = pc /\ work[r][a] # "done"
        /\ \A q \in Runs, b \in Apps : q # r \/ b # a => work'[q][b] = work[q][b]
    BY <1>6 DEF Queue, Begin, LineTooLong, CommandEnds, CommandFails, Stopped, ArchiveFails, ReadBackFails,
                Image, Archive, Write, Becomes
  <2> QED
    BY <1>0, <2>1
<1>7. CASE UNCHANGED buildVars
  BY <1>0, <1>7 DEF buildVars
<1> QED
  BY <1>1, <1>2, <1>3, <1>4, <1>5, <1>6, <1>7 DEF BuildNext, Main, Command

\* What a run has made of an app is replaced or removed by another run only on record.
LEMMA LosersAre ==
    ASSUME BuildTypeOK, NEW r \in Runs, NEW q \in Runs, q # r, NEW b \in Apps, NEW gone
    PROVE  <<q, b>> \in Losers(r, gone) <=> Place(q, b) \in gone[b] /\ work[q][b] = "made"
BY DEF Losers

\* What a step writes, for an app of one run.
LEMMA WriteEffect ==
    ASSUME BuildTypeOK, NEW r \in Runs, NEW a \in Apps, NEW content, Write(r, a, content)
    PROVE  /\ pc' = pc /\ hash' = hash
           /\ work'[r][a] = "made" /\ store'[Place(r, a)][a] = content
           /\ \A q \in Runs, b \in Apps : q # r \/ b # a =>
                 /\ work'[q][b] = work[q][b]
                 /\ <<q, b>> \in raced => <<q, b>> \in raced'
           /\ \A q \in Runs, b \in Apps : b # a \/ Place(q, b) # Place(r, a) =>
                 store'[Place(q, b)][b] = store[Place(q, b)][b]
           /\ \A q \in Runs \ {r} : Place(q, a) = Place(r, a) /\ work[q][a] = "made" =>
                 <<q, a>> \in raced'
<1> USE DEF Write
<1>1. pc' = pc /\ hash' = hash
  OBVIOUS
<1>2. work'[r][a] = "made" /\ \A q \in Runs, b \in Apps : q # r \/ b # a => work'[q][b] = work[q][b]
  BY DEF BuildTypeOK, Becomes
<1>3. store'[Place(r, a)][a] = content
  BY PlaceType DEF BuildTypeOK
<1>4. ASSUME NEW q \in Runs, NEW b \in Apps, q # r \/ b # a, <<q, b>> \in raced
      PROVE  <<q, b>> \in raced'
  BY <1>4
<1>5. ASSUME NEW q \in Runs, NEW b \in Apps, b # a \/ Place(q, b) # Place(r, a)
      PROVE  store'[Place(q, b)][b] = store[Place(q, b)][b]
  BY <1>5, PlaceType DEF BuildTypeOK
<1>6. ASSUME NEW q \in Runs, q # r, Place(q, a) = Place(r, a), work[q][a] = "made"
      PROVE  <<q, a>> \in raced'
  BY <1>6, LosersAre
<1> QED
  BY <1>1, <1>2, <1>3, <1>4, <1>5, <1>6

LEMMA RemoveEffect ==
    ASSUME BuildTypeOK, NEW r \in Runs, Start(r) \/ End(r)
    PROVE  /\ work' = work /\ hash' = hash
           /\ pc'[r] \in {"mkdir", "ended"} /\ \A q \in Runs \ {r} : pc'[q] = pc[q]
           /\ raced \subseteq raced'
           /\ \A q \in Runs \ {r}, b \in Apps :
                 \/ store'[Place(q, b)][b] = store[Place(q, b)][b]
                 \/ Place(q, b) = option[r].env /\ (work[q][b] = "made" => <<q, b>> \in raced')
<1>1. /\ work' = work /\ hash' = hash /\ RemoveAll(r)
      /\ pc'[r] \in {"mkdir", "ended"} /\ \A q \in Runs \ {r} : pc'[q] = pc[q]
  BY DEF Start, End, RemoveAll, Goto, BuildTypeOK
<1>2. raced \subseteq raced'
  BY <1>1 DEF RemoveAll
<1>3. ASSUME NEW q \in Runs \ {r}, NEW b \in Apps, Place(q, b) # option[r].env
      PROVE  store'[Place(q, b)][b] = store[Place(q, b)][b]
  BY <1>1, <1>3, PlaceType DEF RemoveAll, BuildTypeOK
<1>4. ASSUME NEW q \in Runs \ {r}, NEW b \in Apps, Place(q, b) = option[r].env, work[q][b] = "made"
      PROVE  <<q, b>> \in raced'
  BY <1>1, <1>4, LosersAre DEF RemoveAll
<1> QED
  BY <1>1, <1>2, <1>3, <1>4

\* A step that only moves a run enters no stage but from the one before it.
LEMMA OthersMove ==
    ASSUME BuildTypeOK, NEW r \in Runs,
           \/ MakeDir(r) \/ Interrupt(r) \/ Docker(r) \/ DockerFails(r) \/ Pull(r) \/ PrepareFails(r)
           \/ PullEnds(r) \/ LockFails(r) \/ BuildEnds(r) \/ Apply(r)
    PROVE  /\ UNCHANGED <<store, work, hash, raced>>
           /\ \A q \in Runs : /\ pc'[q] \in {"build", "ready"} => pc[q] \in {"build", "ready"}
                              /\ pc[q] # "start" => pc'[q] # "start"
BY DEF BuildTypeOK, MakeDir, Interrupt, Docker, DockerFails, Pull, PrepareFails, PullEnds, LockFails,
       BuildEnds, Apply, Waited, Moves, Goto

\* What the step of an app's command does that neither writes nor reads.
LEMMA WorkEffect ==
    ASSUME BuildTypeOK, WorkBegun, StagesDone, NEW r \in Runs, NEW a \in Apps,
           \/ Queue(r, a) \/ Begin(r, a) \/ LineTooLong(r, a) \/ CommandEnds(r, a)
           \/ CommandFails(r, a) \/ ArchiveFails(r, a) \/ ReadBackFails(r, a)
    PROVE  /\ UNCHANGED <<pc, store, hash, raced>>
           /\ \A q \in Runs, b \in Apps : q # r \/ b # a => work'[q][b] = work[q][b]
           /\ work'[r][a] = "done" => a \notin Services \cup Archives
           /\ work'[r][a] = "made" => pc[r] = "pull"
<1> USE DEF BuildTypeOK, Becomes, Over
<1>1. CASE Queue(r, a) \/ LineTooLong(r, a) \/ ArchiveFails(r, a) \/ ReadBackFails(r, a)
  BY <1>1 DEF Queue, LineTooLong, ArchiveFails, ReadBackFails
<1>2. CASE Begin(r, a)
  BY <1>2 DEF Begin, Archiving
<1>3. CASE CommandEnds(r, a)
  BY <1>3 DEF CommandEnds, Archiving
<1>4. CASE CommandFails(r, a)
  BY <1>4 DEF CommandFails
<1> QED
  BY <1>1, <1>2, <1>3, <1>4

\* What the step of an app's command does that reads.
LEMMA ReadEffect ==
    ASSUME BuildTypeOK, NEW r \in Runs, NEW a \in Apps, Inspect(r, a) \/ ReadBack(r, a)
    PROVE  /\ UNCHANGED <<pc, store, raced>>
           /\ \A q \in Runs, b \in Apps : q # r \/ b # a =>
                 work'[q][b] = work[q][b] /\ hash'[q][b] = hash[q][b]
           /\ work'[r][a] = "done" /\ hash'[r][a] = store[Place(r, a)][a] /\ hash'[r][a] # "none"
           /\ pc[r] = "prepare" \/ work[r][a] = "made"
BY DEF BuildTypeOK, Inspect, ReadBack, Read, Becomes

\* What is read of a run's own work is its own, or the loss is on record.
LEMMA HashesReadStep ==
    BuildTypeOK /\ WorkBegun /\ StagesDone /\ HashesRead /\ [BuildNext]_buildVars => HashesRead'
<1> SUFFICES ASSUME BuildTypeOK, WorkBegun, StagesDone, HashesRead, [BuildNext]_buildVars,
                    NEW q \in Runs, NEW b \in Services \cup Archives
             PROVE  HashRead(q, b)'
  BY DEF HashesRead
<1> USE DEF HashRead
<1>0. /\ b \in Apps /\ HashRead(q, b)
      /\ Builders(q)' = Builders(q) /\ Place(q, b)' = Place(q, b)
  BY OptionsStay, AppBuildAssumption DEF HashesRead
<1>1. ASSUME NEW r \in Runs, Start(r) \/ End(r) PROVE HashRead(q, b)'
  <2>1. CASE q = r
    BY <1>0, <1>1, <2>1, RemoveEffect
  <2>2. CASE q # r
    BY <1>0, <1>1, <2>2, RemoveEffect
  <2> QED
    BY <2>1, <2>2
<1>2. ASSUME NEW r \in Runs,
             \/ MakeDir(r) \/ Interrupt(r) \/ Docker(r) \/ DockerFails(r) \/ Pull(r) \/ PrepareFails(r)
             \/ PullEnds(r) \/ LockFails(r) \/ BuildEnds(r) \/ Apply(r)
      PROVE  HashRead(q, b)'
  BY <1>0, <1>2, OthersMove
<1>3. ASSUME NEW r \in Runs, Build(r) PROVE HashRead(q, b)'
  BY <1>0, <1>3, PartsApart DEF Build, Goto, BuildTypeOK
<1>4. ASSUME NEW r \in Runs, NEW a \in Apps, Inspect(r, a) \/ ReadBack(r, a) PROVE HashRead(q, b)'
  <2>1. CASE q = r /\ b = a
    BY <1>0, <1>4, <2>1, ReadEffect
  <2>2. CASE q # r \/ b # a
    BY <1>0, <1>4, <2>2, ReadEffect
  <2> QED
    BY <2>1, <2>2
<1>5. ASSUME NEW r \in Runs, NEW a \in Apps, 
             \/ Queue(r, a) \/ Begin(r, a) \/ LineTooLong(r, a) \/ CommandEnds(r, a)
             \/ CommandFails(r, a) \/ ArchiveFails(r, a) \/ ReadBackFails(r, a)
      PROVE  HashRead(q, b)'
  <2>1. CASE q = r /\ b = a
    BY <1>0, <1>5, <2>1, WorkEffect
  <2>2. CASE q # r \/ b # a
    BY <1>0, <1>5, <2>2, WorkEffect
  <2> QED
    BY <2>1, <2>2
<1>6. ASSUME NEW r \in Runs, NEW a \in Apps, Image(r, a) \/ Archive(r, a) PROVE HashRead(q, b)'
  <2>1. PICK content : Write(r, a, content) /\ (pc[r] \in {"build", "ready"} => content = r)
    BY <1>6 DEF Image, Archive
  <2>2. CASE q = r /\ b = a
    BY <1>0, <2>1, <2>2, WriteEffect
  <2>3. CASE q # r \/ b # a
    <3>1. /\ pc' = pc /\ hash' = hash /\ work'[q][b] = work[q][b]
          /\ <<q, b>> \in raced => <<q, b>> \in raced'
      BY <1>0, <2>1, <2>3, WriteEffect
    <3>2. CASE b # a \/ Place(q, b) # Place(r, a)
      <4>1. store'[Place(q, b)][b] = store[Place(q, b)][b]
        BY <1>0, <2>1, <3>2, WriteEffect
      <4> QED
        BY <1>0, <3>1, <4>1
    <3>3. CASE b = a /\ Place(q, b) = Place(r, a)
      <4>1. work[q][b] = "made" => <<q, b>> \in raced'
        BY <2>1, <2>3, <3>3, WriteEffect
      <4> QED
        BY <1>0, <3>1, <4>1
    <3> QED
      BY <3>2, <3>3
  <2> QED
    BY <2>2, <2>3
<1>7. CASE UNCHANGED buildVars
  BY <1>0, <1>7 DEF buildVars
<1> QED
  BY <1>1, <1>2, <1>3, <1>4, <1>5, <1>6, <1>7 DEF BuildNext, Main, Command

\* Only a run of the same environment, once it has begun, touches an archive.
LEMMA ArchivesMadeStep ==
    BuildTypeOK /\ WorkBegun /\ StagesDone /\ ArchivesMade /\ [BuildNext]_buildVars => ArchivesMade'
<1> SUFFICES ASSUME BuildTypeOK, WorkBegun, StagesDone, ArchivesMade, [BuildNext]_buildVars,
                    NEW q \in Runs, NEW b \in Archives,
                    pc'[q] \in {"build", "ready"}, b \in Builders(q)', work'[q][b] \in {"made", "done"}
             PROVE  ArchiveThere(q, b)'
  BY DEF ArchivesMade
<1>0. /\ b \in Apps /\ b \notin Services /\ option' = option
      /\ b \in Builders(q) /\ Place(q, b)' = Place(q, b) /\ Place(q, b) = option[q].env
  BY OptionsStay, PlaceOf, AppBuildAssumption
<1>a. pc[q] \in {"build", "ready"} /\ work[q][b] \in {"made", "done"} => ArchiveThere(q, b)
  BY <1>0 DEF ArchivesMade
<1> USE DEF ArchiveThere
<1>1. ASSUME NEW r \in Runs, Start(r) \/ End(r) PROVE ArchiveThere(q, b)'
  <2>1. q # r /\ pc'[q] = pc[q] /\ work' = work /\ pc'[r] # "start"
        /\ \A p \in Runs : pc[p] # "start" => pc'[p] # "start"
    BY <1>1, RemoveEffect
  <2>2. CASE option[q].env = option[r].env
    BY <1>0, <2>1, <2>2
  <2>3. CASE option[q].env # option[r].env
    <3>1. store'[Place(q, b)][b] = store[Place(q, b)][b]
      BY <1>0, <1>1, <2>1, <2>3, RemoveEffect
    <3> QED
      BY <1>0, <1>a, <2>1, <3>1
  <2> QED
    BY <2>2, <2>3
<1>2. ASSUME NEW r \in Runs,
             \/ MakeDir(r) \/ Interrupt(r) \/ Docker(r) \/ DockerFails(r) \/ Pull(r) \/ PrepareFails(r)
             \/ PullEnds(r) \/ LockFails(r) \/ BuildEnds(r) \/ Apply(r)
      PROVE  ArchiveThere(q, b)'
  BY <1>0, <1>a, <1>2, OthersMove
<1>3. ASSUME NEW r \in Runs, Build(r) PROVE ArchiveThere(q, b)'
  <2>1. q # r /\ pc'[q] = pc[q] /\ work'[q][b] = work[q][b] /\ store' = store
        /\ \A p \in Runs : pc[p] # "start" => pc'[p] # "start"
    BY <1>0, <1>3 DEF Build, Goto, BuildTypeOK
  <2> QED
    BY <1>0, <1>a, <2>1
<1>4. ASSUME NEW r \in Runs, NEW a \in Apps, Inspect(r, a) \/ ReadBack(r, a) PROVE ArchiveThere(q, b)'
  BY <1>0, <1>a, <1>4, ReadEffect
<1>5. ASSUME NEW r \in Runs, NEW a \in Apps, 
             \/ Queue(r, a) \/ Begin(r, a) \/ LineTooLong(r, a) \/ CommandEnds(r, a)
             \/ CommandFails(r, a) \/ ArchiveFails(r, a) \/ ReadBackFails(r, a)
      PROVE  ArchiveThere(q, b)'
  BY <1>0, <1>a, <1>5, WorkEffect
<1>6. ASSUME NEW r \in Runs, NEW a \in Apps, Image(r, a) \/ Archive(r, a) PROVE ArchiveThere(q, b)'
  <2>1. PICK content : Write(r, a, content) /\ (pc[r] \in {"build", "ready"} => content = r)
    BY <1>6 DEF Image, Archive
  <2>2. CASE q = r /\ b = a
    BY <1>0, <2>1, <2>2, WriteEffect
  <2>3. CASE q # r /\ b = a /\ option[q].env = option[r].env
    <3>1. pc[r] # "start" /\ pc' = pc
      BY <1>6, <2>1 DEF WorkBegun, Begun, Image, Archive, Over, Write
    <3> QED
      BY <1>0, <2>3, <3>1
  <2>4. CASE b # a \/ (q # r /\ option[q].env # option[r].env)
    <3>1. b # a \/ Place(q, b) # Place(r, a)
      BY <1>0, <2>4, PlaceOf
    <3>2. store'[Place(q, b)][b] = store[Place(q, b)][b]
      BY <1>0, <2>1, <3>1, WriteEffect
    <3>3. pc' = pc /\ work'[q][b] = work[q][b]
      BY <1>0, <2>1, <2>4 DEF Write, Becomes, BuildTypeOK
    <3> QED
      BY <1>0, <1>a, <3>2, <3>3
  <2> QED
    BY <2>2, <2>3, <2>4
<1>7. CASE UNCHANGED buildVars
  BY <1>0, <1>a, <1>7 DEF buildVars
<1> QED
  BY <1>1, <1>2, <1>3, <1>4, <1>5, <1>6, <1>7 DEF BuildNext, Main, Command

LEMMA BuildInvInit == BuildInit => BuildInv
<1> SUFFICES ASSUME BuildInit PROVE BuildInv
  OBVIOUS
<1>1. \A r \in Runs : pc[r] = "start" /\ \A a \in Apps : work[r][a] = "new"
  BY DEF BuildInit
<1>2. WorkBegun /\ StagesDone /\ HashesRead /\ ArchivesMade
  BY <1>1, AppBuildAssumption DEF WorkBegun, Begun, StagesDone, HashesRead, HashRead, ArchivesMade, Over
<1> QED
  BY <1>2, BuildTypesInit DEF BuildInv

LEMMA BuildInvStep == BuildInv /\ [BuildNext]_buildVars => BuildInv'
BY BuildTypesStep, WorkBegunStep, StagesDoneStep, HashesReadStep, ArchivesMadeStep DEF BuildInv

\* What prepareApps and buildApps have made, or found, is there when the run goes on:
\* every service it does not build has an image, what it has built is its own unless
\* another run has replaced it unread, and its archives are where it has left them
\* unless a run of the same environment has begun.
THEOREM ArtifactsAreKept == BuildSpec => []Artifacts
<1>1. BuildInv => HashesKnown
  <2> SUFFICES ASSUME BuildInv, NEW r \in Runs, pc[r] = "ready"
               PROVE  /\ \A a \in Prepared(r) : hash[r][a] # "none"
                      /\ \A a \in Builders(r) \cap (Services \cup Archives) :
                            hash[r][a] = r \/ <<r, a>> \in raced
    BY DEF HashesKnown
  <2>1. Prepared(r) \subseteq Services
    BY PartsApart DEF BuildInv
  <2> QED
    BY <2>1 DEF BuildInv, StagesDone, HashesRead, HashRead
<1>2. BuildInv => ArchivesKept
  BY DEF BuildInv, ArchivesKept, ArchivesMade, StagesDone
<1>3. BuildInv => Artifacts
  BY <1>1, <1>2 DEF BuildInv, Artifacts
<1> QED
  BY <1>3, BuildInvInit, BuildInvStep, PTL DEF BuildSpec

-----------------------------------------------------------------------------
(* A deployment builds, and then it plans *)

\* Run r is a plain deployment of the project with these targets and skips: buildApps
\* passes over the apps that filterAppsNormal will pass over.
BuildsFor(r) ==
    /\ mode = "normal" /\ option[r].mode \in {"build", "skip"}
    /\ project = Apps
    /\ option[r].picked = {a \in Apps : Taken(a)}

\* The apps of run r that are planned as the project defines them have what they need.
PlannedHaveArtifacts(r) ==
    \A a \in Apps : plan[a] = "config" =>
        /\ a \in Services => hash[r][a] # "none"
        /\ a \in Archives /\ option[r].mode = "build" =>
              hash[r][a] # "none" /\ ArchiveThere(r, a)

\* What is taken from the project is what the plan has from it.
LEMMA PlannedAreTaken ==
    ASSUME FilterInv, AsVisited, NEW r \in Runs, BuildsFor(r), phase = "done", NEW a \in Apps
    PROVE  plan[a] = "config" <=> a \in option[r].picked
<1>1. a \in AppIds /\ a \in project
  BY DEF FilterInv, PlansSound, TypeOK, BuildsFor
<1>2. plan = LoopPlan
  BY DEF AsVisited, BuildsFor
<1>3. LoopPlan[a] = "config" <=> Taken(a)
  BY <1>1 DEF LoopPlan, BuildsFor
<1> QED
  BY <1>2, <1>3 DEF BuildsFor

\* The build and the filter agree: when a run that has built what its targets and
\* skips leave comes to its plan, each service that is planned from the project has
\* an image, and each function its archive, unless the run was told not to build any;
\* and no app was built that is not planned so.
THEOREM PlannedAppsAreBuilt ==
    Spec /\ BuildSpec =>
        [](\A r \in Runs : BuildsFor(r) /\ pc[r] = "ready" /\ phase = "done" =>
              PlannedHaveArtifacts(r) /\ \A a \in Builders(r) : plan[a] = "config")
<1> DEFINE Agreed ==
        \A r \in Runs : BuildsFor(r) /\ pc[r] = "ready" /\ phase = "done" =>
            PlannedHaveArtifacts(r) /\ \A a \in Builders(r) : plan[a] = "config"
<1>1. FilterInv /\ AsVisited /\ BuildInv => Agreed
  <2> SUFFICES ASSUME FilterInv, AsVisited, BuildInv,
                      NEW r \in Runs, BuildsFor(r), pc[r] = "ready", phase = "done"
               PROVE  PlannedHaveArtifacts(r) /\ \A a \in Builders(r) : plan[a] = "config"
    OBVIOUS
  <2>1. BuildTypeOK /\ StagesDone /\ HashesRead /\ ArchivesMade
    BY DEF BuildInv
  <2>2. ASSUME NEW a \in Builders(r) PROVE plan[a] = "config"
    <3>1. a \in Apps /\ a \in option[r].picked
      BY <2>1, PartsApart DEF Builders
    <3> QED
      BY <3>1, PlannedAreTaken
  <2>3. ASSUME NEW a \in Apps, plan[a] = "config", a \in Services \cup Archives,
               a \in Services \/ option[r].mode = "build"
        PROVE  a \in Prepared(r) \cup Builders(r)
    <3>1. a \in option[r].picked
      BY <2>3, PlannedAreTaken
    <3> QED
      BY <2>3, <3>1, AppBuildAssumption DEF Prepared, Builders, BuildsFor
  <2>4. ASSUME NEW a \in Apps, plan[a] = "config", a \in Services \cup Archives,
               a \in Services \/ option[r].mode = "build"
        PROVE  work[r][a] = "done" /\ hash[r][a] # "none"
    BY <2>1, <2>3, <2>4 DEF StagesDone, HashesRead, HashRead
  <2>5. ASSUME NEW a \in Archives, plan[a] = "config", option[r].mode = "build"
        PROVE  ArchiveThere(r, a)
    <3>1. a \in Apps /\ a \in Builders(r)
      BY <2>1, <2>3, <2>5, PartsApart, AppBuildAssumption
    <3> QED
      BY <2>1, <2>4, <2>5, <3>1 DEF ArchivesMade
  <2> QED
    BY <2>2, <2>4, <2>5 DEF PlannedHaveArtifacts
<1>2. Init => FilterInv /\ AsVisited
  BY FilterInvInit DEF Init, AsVisited
<1> QED
  BY <1>1, <1>2, FilterInvStep, BuildInvInit, BuildInvStep, PTL DEF Spec, BuildSpec
=============================================================================
