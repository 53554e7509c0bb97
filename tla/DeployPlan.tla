----------------------------- MODULE DeployPlan -----------------------------
(***************************************************************************)
(* What one deployment wants: the pure part of pkg/actions/deploy.go,      *)
(* deploy_filter.go and util.go, shared by the two deployment paths.       *)
(*                                                                         *)
(* A resource is an app or a dependency.  The state file keeps two things  *)
(* of each: its entry (StateData.Apps / StateData.Dependencies, the        *)
(* definition it was planned with) and what the registry of its plugin     *)
(* records as deployed (StateData.Plugins[..].Registry).  A definition, or *)
(* the deployed form of it, is one of Values; Absent stands for none.      *)
(***************************************************************************)
EXTENDS FiniteSets

CONSTANTS
    Deployers,     \* runs of `ok deploy' against the same environment
    Apps, Deps,    \* the ids of the resources
    Plugins,       \* the ids of the deploy plugins
    Values,        \* the versions a definition can have
    Absent,        \* no definition, no entry, not deployed
    Config,        \* Config[d][r]: r's definition in d's project, or Absent
    Targets,       \* Targets[d]: --target-apps
    Skips,         \* Skips[d]: --skip-apps
    SkipAllApps,   \* the deployers with --skip-all-apps; `ok status' is one
    Needs,         \* Needs[a]: the dependencies app a needs
    PluginOf       \* PluginOf[r]: the plugin that deploys r

Resources == Apps \cup Deps
LockIds == Resources \cup Plugins
Recorded == [Resources -> Values \cup {Absent}]

\* statefile.StateData
States == [ent : Recorded, reg : Recorded]
Nothing == [r \in Resources |-> Absent]
EmptyState == [ent |-> Nothing, reg |-> Nothing]

ASSUME IdsAssumption ==
    /\ IsFiniteSet(Resources) /\ IsFiniteSet(Plugins)
    /\ Apps \cap Deps = {} /\ Resources \cap Plugins = {}
ASSUME OptionsAssumption ==
    /\ Config \in [Deployers -> Recorded]
    /\ Targets \in [Deployers -> SUBSET Apps]
    /\ Skips \in [Deployers -> SUBSET Apps]
    /\ SkipAllApps \subseteq Deployers
    /\ Needs \in [Apps -> SUBSET Deps]
    /\ PluginOf \in [Resources -> Plugins]
ASSUME AbsentAssumption == Absent \notin Values

Present(rec) == {r \in Resources : rec[r] # Absent}

-----------------------------------------------------------------------------
(* Which resources a plan lists, and with which definition. *)

\* filterApps and filterDependencies tell the modes apart by this.
Filtered(d) == Targets[d] # {} \/ Skips[d] # {}

\* The resources planned from the project's definition.
FromConfig(d) ==
    {r \in Present(Config[d]) :
        /\ d \notin SkipAllApps
        /\ r \in Apps => r \notin Skips[d] /\ (Targets[d] = {} \/ r \in Targets[d])}

\* Mutant: --skip-all-apps plans nothing.
MutSkipForgets(d, s) ==
    LET apps == Present(s.ent) \cap Apps
        needed == UNION {Needs[a] : a \in apps}
    IN  IF Filtered(d) THEN (apps \ Skips[d]) \cup (Present(s.ent) \cap needed) ELSE {}

\* The resources planned as the state has them, unless the project defines
\* them: all of them with --skip-all-apps; in a filtered run, apps that are not
\* skipped and dependencies that an app of the state needs.
FromState(d, s) ==
    LET apps == Present(s.ent) \cap Apps
        needed == UNION {Needs[a] : a \in apps}
    IN  IF d \in SkipAllApps THEN Present(s.ent)
        ELSE IF Filtered(d) THEN (apps \ Skips[d]) \cup (Present(s.ent) \cap needed)
        ELSE {}

Planned(d, s) == FromConfig(d) \cup FromState(d, s)

\* The definition each resource is planned with; a resource that is not
\* planned is one its plugin removes.
Desired(d, s) ==
    [r \in Resources |->
        IF r \in FromConfig(d) THEN Config[d][r]
        ELSE IF r \in FromState(d, s) THEN s.ent[r] ELSE Absent]

\* AppPlan.Skip: the plugin leaves a planned app as it is.
LeftAlone(d, s) ==
    {a \in Planned(d, s) \cap Apps :
        d \in SkipAllApps \/ (Targets[d] # {} /\ a \notin Targets[d])}

\* "unknown target specified", "unknown skip specified"
UnknownTarget(d) ==
    d \notin SkipAllApps /\ \E t \in Targets[d] : t \notin FromConfig(d)
UnknownSkip(d, s) ==
    d \notin SkipAllApps /\ \E t \in Skips[d] : s.ent[t] = Absent /\ Config[d][t] = Absent

\* What the plugins take as deployed.  With verify they look at the resources
\* their registry or the plan names (external: the plugins).
Actual(d, s, cloud, verify) ==
    [r \in Resources |->
        IF verify /\ r \notin LeftAlone(d, s) /\ (s.reg[r] # Absent \/ r \in Planned(d, s))
        THEN cloud[r] ELSE s.reg[r]]

Changes(d, s, actual) ==
    {r \in Resources \ LeftAlone(d, s) : actual[r] # Desired(d, s)[r]}

\* newChangeFromPlanAction looks an action's namespace up in the project and
\* in the planned state; one it finds in neither counts as the plugin's own.
LockOf(d, planned, r) ==
    IF r \in Present(Config[d]) \cup Present(planned.ent) THEN r ELSE PluginOf[r]

-----------------------------------------------------------------------------
(* Which locks a multilock run asks for first. *)

PartialLockIds(d, s) ==
    {a \in Apps \cap (Present(Config[d]) \cup Present(s.ent)) :
        d \notin SkipAllApps /\ (Targets[d] = {} \/ a \in Targets[d]) /\ a \notin Skips[d]}

AllLockIds(d, s) == Plugins \cup Present(Config[d]) \cup Present(s.ent)

=============================================================================
