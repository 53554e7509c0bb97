---------------------------- MODULE DeployFilter ----------------------------
(***************************************************************************)
(* Which apps a deployment plans: filterApps, filterAppsNormal and         *)
(* filterAppsDestroy of pkg/actions/deploy_filter.go over the target and   *)
(* skip matchers of internal/util/target_match.go.  The functions walk Go  *)
(* maps, so each visit is a step and the order is open; multilockDeploy    *)
(* calls them again, with the same matchers, after it has read the state   *)
(* once more.                                                              *)
(***************************************************************************)
EXTENDS FiniteSets, Integers, Sequences

CONSTANTS
    Types, Names,    \* the types and names of apps
    Modes,           \* a subset of AllModes
    TargetLists,     \* --target-apps, each a sequence of matchers
    SkipLists,       \* --skip-apps
    Rounds           \* bound: how often filterApps is called

AppIds == [typ : Types, name : Names]
AllModes == {"normal", "destroy", "skipAll"}

\* util.TargetMatch; "any" stands for MatchTypeAny and MatchTypeAppAny, which
\* are the same for apps, and matched says whether the count is above zero.
Matchers == [typ : Types \cup {"any"}, name : Names, matched : BOOLEAN]

ASSUME InputsAssumption ==
    /\ "any" \notin Types
    /\ Modes \subseteq AllModes
    /\ TargetLists \cup SkipLists \subseteq Seq(Matchers)
    /\ Rounds \in Nat

VARIABLES
    mode,       \* plain run, --destroy or --skip-all-apps
    project,    \* the apps of cfg.Apps
    state,      \* the keys of state.Apps
    targets, skips,
    phase,
    left,       \* what the current loop has still to visit
    plan,       \* appsMap: where each planned app's definition comes from
    alone,      \* the apps with AppPlan.Skip
    round

matchers == <<targets, skips>>
input == <<mode, project, state>>
vars == <<input, matchers, phase, left, plan, alone, round>>

NoPlan == [a \in AppIds |-> "none"]
PlannedApps == {a \in AppIds : plan[a] # "none"}

TypeOK ==
    /\ mode \in Modes
    /\ project \subseteq AppIds /\ state \subseteq AppIds
    /\ targets \in Seq(Matchers) /\ skips \in Seq(Matchers)
    /\ phase \in {"idle", "state", "config", "check", "done", "error"}
    /\ left \subseteq AppIds
    /\ plan \in [AppIds -> {"none", "state", "config"}]
    /\ alone \subseteq PlannedApps
    /\ round \in 0..Rounds

-----------------------------------------------------------------------------
(* util.TargetMatcher *)

Hits(m, a) == m.name = a.name /\ m.typ \in {"any", a.typ}

\* findByID: the first matcher that fits.
Hitting(ms, a) == {i \in DOMAIN ms : Hits(ms[i], a)}
Matches(ms, a) == Hitting(ms, a) # {}
FindByID(ms, a) == CHOOSE i \in Hitting(ms, a) : \A j \in Hitting(ms, a) : i <= j

\* TargetMatcher.Matches counts the match.
Counted(ms, a) == IF Matches(ms, a) THEN [ms EXCEPT ![FindByID(ms, a)].matched = TRUE] ELSE ms

\* Mutant: the counts of app loading, or of the last round, are kept.
MutKeepMatches(ms) == ms

ResetMatches(ms) == [i \in DOMAIN ms |-> [ms[i] EXCEPT !.matched = FALSE]]

Unmatched(ms) == {i \in DOMAIN ms : ~ms[i].matched}

\* TargetMatcher.Add of an app id.
Added(ms, a) == Append(ms, [typ |-> a.typ, name |-> a.name, matched |-> FALSE])

-----------------------------------------------------------------------------

Init ==
    /\ mode \in Modes
    /\ project \in SUBSET AppIds /\ state \in SUBSET AppIds
    /\ targets \in TargetLists /\ skips \in SkipLists
    /\ mode = "destroy" => targets = <<>> \/ skips = <<>>
    /\ phase = "idle"
    /\ left = {} /\ plan = NoPlan /\ alone = {} /\ round = 0

\* filterApps with --skip-all-apps: the apps of the state, all left alone.
StartSkipAll ==
    /\ phase = "idle" /\ round < Rounds /\ mode = "skipAll"
    /\ targets' = ResetMatches(targets) /\ skips' = ResetMatches(skips)
    /\ plan' = [a \in AppIds |-> IF a \in state THEN "state" ELSE "none"]
    /\ alone' = state
    /\ phase' = "done" /\ round' = round + 1
    /\ UNCHANGED <<input, left>>

\* filterApps without targets and skips: the apps of the project.
StartAll ==
    /\ phase = "idle" /\ round < Rounds /\ mode # "skipAll"
    /\ targets = <<>> /\ skips = <<>>
    /\ plan' = [a \in AppIds |-> IF a \in project THEN "config" ELSE "none"]
    /\ alone' = {}
    /\ phase' = "done" /\ round' = round + 1
    /\ UNCHANGED <<input, matchers, left>>

StartFiltered ==
    /\ phase = "idle" /\ round < Rounds /\ mode # "skipAll"
    /\ targets # <<>> \/ skips # <<>>
    /\ targets' = ResetMatches(targets) /\ skips' = ResetMatches(skips)
    /\ phase' = "state" /\ left' = state
    /\ plan' = NoPlan /\ alone' = {} /\ round' = round + 1
    /\ UNCHANGED input

\* The loop of filterAppsNormal over state.Apps.
VisitState(a) ==
    /\ phase = "state" /\ mode = "normal" /\ a \in left
    /\ left' = left \ {a}
    /\ skips' = Counted(skips, a)
    /\ plan' = IF Matches(skips, a) THEN plan ELSE [plan EXCEPT ![a] = "state"]
    /\ UNCHANGED <<input, targets, phase, alone, round>>

\* Mutant: apps that are not targeted are taken from the project as well.
MutVisitUntargeted(a) ==
    /\ phase = "config" /\ a \in left
    /\ left' = left \ {a}
    /\ skips' = Counted(skips, a)
    /\ targets' = IF Matches(skips, a) THEN targets ELSE Counted(targets, a)
    /\ plan' = IF Matches(skips, a) THEN plan ELSE [plan EXCEPT ![a] = "config"]
    /\ UNCHANGED <<input, phase, alone, round>>

Taken(a) == ~Matches(skips, a) /\ (targets = <<>> \/ Matches(targets, a))

\* The loop of filterAppsNormal over cfg.Apps.
VisitConfig(a) ==
    /\ phase = "config" /\ a \in left
    /\ left' = left \ {a}
    /\ skips' = Counted(skips, a)
    /\ targets' = IF Matches(skips, a) THEN targets ELSE Counted(targets, a)
    /\ plan' = IF Taken(a) THEN [plan EXCEPT ![a] = "config"] ELSE plan
    /\ UNCHANGED <<input, phase, alone, round>>

\* Mutant: targeted apps are planned like the others.
MutDestroyKeeps(a) ==
    /\ phase = "state" /\ mode = "destroy" /\ a \in left
    /\ left' = left \ {a}
    /\ IF skips # <<>> /\ ~Matches(skips, a)
       THEN UNCHANGED <<matchers, plan>>
       ELSE /\ skips' = Counted(Added(Counted(skips, a), a), a)
            /\ targets' = Counted(targets, a)
            /\ plan' = [plan EXCEPT ![a] = "state"]
    /\ UNCHANGED <<input, phase, alone, round>>

\* The loop of filterAppsDestroy.  TargetMatcher.Remove deletes the empty range
\* match..match of its slice: it removes nothing.
VisitDestroy(a) ==
    /\ phase = "state" /\ mode = "destroy" /\ a \in left
    /\ left' = left \ {a}
    /\ IF skips # <<>> /\ ~Matches(skips, a)
       THEN UNCHANGED <<matchers, plan>>
       ELSE /\ skips' = Counted(Added(Counted(skips, a), a), a)
            /\ targets' = Counted(targets, a)
            /\ plan' = IF Matches(targets, a) THEN plan ELSE [plan EXCEPT ![a] = "state"]
    /\ UNCHANGED <<input, phase, alone, round>>

LoopEnds ==
    /\ phase \in {"state", "config"} /\ left = {}
    /\ IF phase = "state" /\ mode = "normal"
       THEN phase' = "config" /\ left' = project
       ELSE phase' = "check" /\ UNCHANGED left
    /\ UNCHANGED <<input, matchers, plan, alone, round>>

\* "unknown target specified", "unknown skip specified"
UnknownGiven ==
    /\ phase = "check"
    /\ Unmatched(targets) \cup Unmatched(skips) # {}
    /\ phase' = "error"
    /\ UNCHANGED <<input, matchers, left, plan, alone, round>>

\* addPlanTargetAndSkipApps
Mark == {a \in PlannedApps : Matches(skips, a) \/ (targets # <<>> /\ ~Matches(targets, a))}

Return ==
    /\ phase = "check"
    /\ Unmatched(targets) \cup Unmatched(skips) = {}
    /\ phase' = "done"
    /\ alone' = Mark
    /\ UNCHANGED <<input, matchers, left, plan, round>>

\* Locks were missing: the state is read again and may have changed.
Again ==
    /\ phase = "done" /\ round < Rounds
    /\ state' \in SUBSET AppIds
    /\ phase' = "idle"
    /\ UNCHANGED <<mode, project, matchers, left, plan, alone, round>>

Next ==
    \/ StartSkipAll \/ StartAll \/ StartFiltered
    \/ \E a \in AppIds : VisitState(a) \/ VisitConfig(a) \/ VisitDestroy(a)
    \/ LoopEnds \/ UnknownGiven \/ Return \/ Again

Spec == Init /\ [][Next]_vars

-----------------------------------------------------------------------------
(* Properties *)

\* The apps that the options given by the user select.
Selected(ms) == {a \in AppIds : Matches(ms, a)}

\* DeployPlan's description of a plan, for one run with these options.
One(x) == [d \in {"run"} |-> x]
Def(s, v) == [a \in AppIds |-> IF a \in s THEN v ELSE "none"]
Plans == INSTANCE DeployPlan WITH
    Deployers <- {"run"}, Apps <- AppIds, Deps <- {}, Plugins <- {"plugin"},
    Values <- {"state", "config"}, Absent <- "none",
    Config <- One(Def(project, "config")),
    Targets <- One(Selected(targets)), Skips <- One(Selected(skips)),
    SkipAllApps <- IF mode = "skipAll" THEN {"run"} ELSE {},
    Needs <- [a \in AppIds |-> {}], PluginOf <- [a \in AppIds |-> "plugin"]

InState == [ent |-> Def(state, "state"), reg |-> Def(state, "state")]

\* In whatever order the maps are walked and whatever earlier rounds have left in
\* the matchers, the plan is the one DeployPlan describes, with the same apps left
\* alone.
PlanAsDescribed ==
    phase = "done" /\ mode # "destroy" =>
        plan = Plans!Desired("run", InState) /\ alone = Plans!LeftAlone("run", InState)

\* What the loops have made of the apps that they have visited.
PlanSoFar ==
    /\ phase = "state" => left \subseteq state
    /\ phase = "config" => left \subseteq project /\ mode # "destroy"
    /\ phase = "check" => left = {}
    /\ phase # "done" => mode # "skipAll" \/ phase = "idle"
    /\ mode = "normal" /\ phase \in {"state", "config", "check"} =>
          /\ targets # <<>> \/ skips # <<>>
          /\ \A a \in AppIds :
                plan[a] = IF phase # "state" /\ a \in project \ left /\ Taken(a) THEN "config"
                          ELSE IF /\ a \in state /\ (phase = "state" => a \notin left)
                                  /\ ~Matches(skips, a) THEN "state" ELSE "none"

\* A matcher counts as used once an app that is there has used it, in this round.
UsedByApps ==
    mode = "normal" /\ phase \in {"state", "config", "check"} =>
        /\ \A i \in DOMAIN targets : targets[i].matched =>
              \E a \in project \ Selected(skips) : Hits(targets[i], a)
        /\ \A i \in DOMAIN skips : skips[i].matched =>
              \E a \in project \cup state : Hits(skips[i], a)

\* While a delete is planned, and after, no app that it was given is kept.
NoTargetKept ==
    mode = "destroy" /\ targets # <<>> => PlannedApps \cap Selected(targets) = {}

\* filterApps ends in the plan that DeployPlan describes, over states of its types:
\* each visit brings the plan one app nearer to it.
PlansSound == TypeOK /\ PlanSoFar /\ UsedByApps /\ NoTargetKept /\ PlanAsDescribed

\* A run goes on only if every target and skip it was given has a definition, in
\* the state it has read last too.
GivenAppsExist ==
    phase = "done" /\ mode = "normal" =>
        /\ \A i \in DOMAIN targets : \E a \in project \ Selected(skips) : Hits(targets[i], a)
        /\ \A i \in DOMAIN skips : \E a \in project \cup state : Hits(skips[i], a)

\* An app of the state that is to be skipped stays in the plan, left alone.
SkippedAppsStay ==
    phase = "done" /\ mode = "normal" => state \cap Selected(skips) \subseteq alone

\* A delete that goes through removes the apps it was given, and what it keeps
\* is left alone.
DeletesTargets ==
    phase = "done" /\ mode = "destroy" /\ targets # <<>> =>
        PlannedApps \cap Selected(targets) = {} /\ PlannedApps \subseteq alone

\* Deleting an app removes the app, and no other.
DeletesOnlyTargets ==
    phase = "done" /\ mode = "destroy" /\ targets # <<>> =>
        state \ PlannedApps = state \cap Selected(targets)
=============================================================================
