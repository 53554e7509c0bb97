---------------------------- MODULE PlanAndApply ----------------------------
(***************************************************************************)
(* One call of planAndApply of pkg/actions/deploy.go: the hooks, the       *)
(* deploy plugins in groups of equal priority, DNS and monitoring.  Each   *)
(* stage starts one goroutine per plugin; a goroutine reads the plugin's   *)
(* part of the state, calls the plugin, and merges the answer under a      *)
(* mutex.  What a plugin does with a call is external: it records in its   *)
(* part of the state which of its resources are deployed.                  *)
(***************************************************************************)
EXTENDS Integers, FiniteSets, FiniteSetsExt

CONSTANTS
    Plugins,                      \* the deploy plugins
    Hooks, DNS, Monitors,         \* the plugins each of the other stages calls
    Priority,                     \* Priority[p]: PriorityFor("deploy")
    Resources, OwnerOf, PrioOf,   \* who deploys a resource, and in which group
    Planned,                      \* the resources of the plan; others are removed
    Verify, SkipApply,            \* --verify; `ok status'
    Multilock,                    \* whether promptDiff checks locks
    Faults,                       \* a subset of FaultKinds
    None

FaultKinds == {"call", "apply", "lost", "race"}

AllPlugins == Plugins \cup Hooks \cup DNS \cup Monitors
Prios == UNION {Priority[p] : p \in Plugins}
Own(p) == {r \in Resources : OwnerOf[r] = p}

ASSUME PluginAssumption ==
    /\ None \notin AllPlugins /\ Cardinality(Monitors) <= 1
    /\ Priority \in [Plugins -> SUBSET Nat] /\ Prios # {} /\ IsFiniteSet(Prios)
    /\ OwnerOf \in [Resources -> Plugins]
    /\ \A r \in Resources : PrioOf[r] \in Priority[OwnerOf[r]]
    /\ Planned \subseteq Resources
    /\ Verify \in BOOLEAN /\ SkipApply \in BOOLEAN /\ Multilock \in BOOLEAN
    /\ Faults \subseteq FaultKinds

VARIABLES
    stage,
    group,    \* the priority of the current group
    calls,    \* where each plugin's goroutine of the stage is
    held,     \* what that goroutine read of the state, then the plugin's answer
    mu,       \* who holds the mutex of processResponse
    err,      \* err # nil
    outcome,  \* what promptDiff said
    cloud,    \* the resources that are deployed
    rec,      \* state.Plugins: what each plugin has recorded as deployed
    entries,  \* the keys of state.Apps and state.Dependencies
    lost      \* history: the resources of calls of Apply that ended without a last answer

vars == <<stage, group, calls, held, mu, err, outcome, cloud, rec, entries, lost>>

PlanStages == {"prePlan", "plan", "planDNS", "planMonitoring"}
ApplyStages == {"preApply", "apply", "applyDNS", "applyMonitoring", "postApply"}
CallStages == PlanStages \cup ApplyStages \cup {"postDeploy"}
Stages == CallStages \cup {"prompt", "merge", "end", "crashed"}

TypeOK ==
    /\ stage \in Stages
    /\ group \in Prios
    /\ calls \in [AllPlugins -> {"reading", "called", "answered", "merging", "ended"}]
    /\ held \in [AllPlugins -> SUBSET Resources]
    /\ mu \in AllPlugins \cup {None}
    /\ err \in BOOLEAN
    /\ outcome \in {"none", "missing", "empty", "canceled", "apply"}
    /\ cloud \subseteq Resources
    /\ rec \in [AllPlugins -> SUBSET Resources]
    /\ entries \subseteq Resources
    /\ lost \subseteq Resources

\* The plugins that a stage calls.  sortedPlanDeployMap groups the deploy
\* plugins; a plugin with several priorities is in several groups.
Called(s, g) ==
    CASE s \in {"plan", "apply"} -> {p \in Plugins : g \in Priority[p]}
      [] s \in {"planDNS", "applyDNS"} -> DNS
      [] s \in {"planMonitoring", "applyMonitoring"} -> Monitors
      [] s \in {"prePlan", "preApply", "postApply", "postDeploy"} -> Hooks
      [] OTHER -> {}

Enter(s, g) ==
    /\ stage' = s /\ group' = g
    /\ calls' = [p \in AllPlugins |-> IF p \in Called(s, g) THEN "reading" ELSE "ended"]

Init ==
    /\ stage = "prePlan" /\ group = Min(Prios)
    /\ calls = [p \in AllPlugins |-> IF p \in Hooks THEN "reading" ELSE "ended"]
    /\ held = [p \in AllPlugins |-> {}]
    /\ mu = None /\ err = FALSE /\ outcome = "none"
    /\ cloud \in SUBSET Resources
    /\ \E known \in IF Verify THEN SUBSET Resources ELSE {cloud} :
          rec = [p \in AllPlugins |-> known \cap Own(p)]
    /\ entries = {} /\ lost = {}

-----------------------------------------------------------------------------
(* One goroutine: Client.Plan, Apply, DeployHook, PlanDNS, ... *)

At(p, from, to) == calls[p] = from /\ calls' = [calls EXCEPT ![p] = to]

\* The map state.Plugins is read without the mutex.
ReadState(p) ==
    /\ At(p, "reading", "called")
    /\ held' = [held EXCEPT ![p] = rec[p]]
    /\ UNCHANGED <<stage, group, mu, err, outcome, cloud, rec, entries, lost>>

\* The resources the plugin has to create or remove in this call.
Work(p) == {r \in Own(p) : PrioOf[r] = group /\ (r \in Planned) # (r \in held[p])}

\* S after the plugin has dealt with the resources of done.
With(S, done) == (S \ done) \cup (done \cap Planned)

\* A plan, a hook, DNS or monitoring: with --verify a plan looks at the cloud.
Answer(p) ==
    /\ stage \in CallStages \ {"apply"}
    /\ At(p, "called", "answered")
    /\ held' = [held EXCEPT ![p] = IF Verify /\ stage = "plan" THEN cloud \cap Own(p) ELSE @]
    /\ UNCHANGED <<stage, group, mu, err, outcome, cloud, rec, entries, lost>>

\* The call fails, and there is nothing to merge.
Fails(p) ==
    /\ "call" \in Faults
    /\ stage # "apply"
    /\ At(p, "called", "ended")
    /\ err' = TRUE
    /\ UNCHANGED <<stage, group, held, mu, outcome, cloud, rec, entries, lost>>

\* The resources of plugin p in the current group.
Group(p) == {r \in Own(p) : PrioOf[r] = group}

\* Client.Apply has got ApplyDoneResponse.  The plugin fails with part of the work
\* done, or the stream breaks after the answer: an error, and a result to merge.
ApplyEnds(p) ==
    /\ stage = "apply"
    /\ At(p, "called", "answered")
    /\ \E done \in SUBSET Work(p), breaks \in BOOLEAN :
        /\ done # Work(p) => "apply" \in Faults
        /\ breaks => "lost" \in Faults
        /\ err' = (err \/ breaks \/ done # Work(p))
        /\ cloud' = With(cloud, done)
        /\ held' = [held EXCEPT ![p] = With(@, done)]
    /\ UNCHANGED <<stage, group, mu, outcome, rec, entries, lost>>

\* The stream breaks before ApplyDoneResponse, which is an error; or it just ends,
\* which is none: mapError takes io.EOF for success.  Either way nothing is merged.
ApplyBreaks(p) ==
    /\ stage = "apply" /\ "lost" \in Faults
    /\ At(p, "called", "ended")
    /\ \E done \in SUBSET Work(p) : cloud' = With(cloud, done)
    /\ err' \in {err, TRUE}
    /\ lost' = lost \cup Group(p)
    /\ UNCHANGED <<stage, group, held, mu, outcome, rec, entries>>

\* processResponse
Lock(p) ==
    /\ mu = None
    /\ At(p, "answered", "merging")
    /\ mu' = p
    /\ UNCHANGED <<stage, group, held, err, outcome, cloud, rec, entries, lost>>

\* Mutant: the mutex is not unlocked.
MutMergeLocked(p) ==
    /\ At(p, "merging", "ended")
    /\ rec' = [rec EXCEPT ![p] = held[p]]
    /\ entries' = IF stage \in {"plan", "apply"} THEN entries \cup (held[p] \cap Planned) ELSE entries
    /\ UNCHANGED <<stage, group, held, mu, err, outcome, cloud, lost>>

\* mergeState
Merge(p) ==
    /\ At(p, "merging", "ended")
    /\ rec' = [rec EXCEPT ![p] = held[p]]
    /\ entries' = IF stage \in {"plan", "apply"} THEN entries \cup (held[p] \cap Planned) ELSE entries
    /\ mu' = None
    /\ UNCHANGED <<stage, group, held, err, outcome, cloud, lost>>

\* state.Plugins is read while another goroutine writes it: the runtime may end
\* the process.
Races == \E p, q \in AllPlugins : calls[p] = "reading" /\ calls[q] = "merging"

RaceCrash ==
    /\ "race" \in Faults /\ Races
    /\ Enter("crashed", group)
    /\ UNCHANGED <<held, mu, err, outcome, cloud, rec, entries, lost>>

-----------------------------------------------------------------------------
(* planAndApply *)

\* Mutant: the next stage starts as soon as all calls have been made.
MutReturned == \A p \in AllPlugins : calls[p] # "reading"

\* g.Wait
Returned == \A p \in AllPlugins : calls[p] = "ended"

NextGroup == Min({g \in Prios : g > group})

LastGroup == \A g \in Prios : g <= group

\* A plan stage that failed ends planAndApply, without a result.
PlanFailed ==
    /\ stage \in PlanStages /\ Returned /\ err
    /\ stage' = "end"
    /\ UNCHANGED <<group, calls, held, mu, err, outcome, cloud, rec, entries, lost>>

PlanNext ==
    /\ stage \in PlanStages /\ Returned /\ ~err
    /\ CASE stage = "prePlan" -> Enter("plan", Min(Prios))
         [] stage = "plan" /\ ~LastGroup -> Enter("plan", NextGroup)
         [] stage = "plan" /\ LastGroup -> Enter("planDNS", group)
         [] stage = "planDNS" -> Enter("planMonitoring", group)
         [] stage = "planMonitoring" -> Enter("prompt", group)
    /\ UNCHANGED <<held, mu, err, outcome, cloud, rec, entries, lost>>

Changes == {r \in Resources : (r \in Planned) # (r \in rec[OwnerOf[r]])}

\* promptDiff finds locks missing: planAndApply returns before the merge.
MissingLocks ==
    /\ stage = "prompt" /\ Multilock /\ Changes # {}
    /\ outcome' = "missing" /\ stage' = "end"
    /\ UNCHANGED <<group, calls, held, mu, err, cloud, rec, entries, lost>>

\* There is nothing to do, the user says no, or the run is not to apply.
SkipsApply ==
    /\ stage = "prompt"
    /\ outcome' \in IF Changes = {} THEN {"empty"}
                    ELSE IF SkipApply THEN {"apply"} ELSE {"canceled"}
    /\ stage' = "merge"
    /\ UNCHANGED <<group, calls, held, mu, err, cloud, rec, entries, lost>>

\* The entries of the state are reset before anything is applied.
Approve ==
    /\ stage = "prompt" /\ Changes # {} /\ ~SkipApply
    /\ outcome' = "apply"
    /\ entries' = {}
    /\ Enter("preApply", Min(Prios))
    /\ UNCHANGED <<held, mu, err, cloud, rec, lost>>

\* applyDeploy goes on with the next group whether this one failed or not.
ApplyGroup ==
    /\ stage = "apply" /\ Returned /\ ~LastGroup
    /\ Enter("apply", NextGroup)
    /\ UNCHANGED <<held, mu, err, outcome, cloud, rec, entries, lost>>

\* A stage that comes after an error is left out.
ApplyNext ==
    /\ stage \in ApplyStages /\ Returned
    /\ stage = "apply" => LastGroup
    /\ IF err THEN Enter("merge", group)
       ELSE CASE stage = "preApply" -> Enter("apply", Min(Prios))
              [] stage = "apply" -> Enter("applyDNS", group)
              [] stage = "applyDNS" -> Enter("applyMonitoring", group)
              [] stage = "applyMonitoring" -> Enter("postApply", group)
              [] stage = "postApply" -> Enter("merge", group)
    /\ UNCHANGED <<held, mu, err, outcome, cloud, rec, entries, lost>>

\* Whatever was planned has an entry; the last hook runs if nothing has failed.
MergePlanned ==
    /\ stage = "merge"
    /\ entries' = entries \cup Planned
    /\ Enter(IF err THEN "end" ELSE "postDeploy", group)
    /\ UNCHANGED <<held, mu, err, outcome, cloud, rec, lost>>

PostDeployed ==
    /\ stage = "postDeploy" /\ Returned
    /\ Enter("end", group)
    /\ UNCHANGED <<held, mu, err, outcome, cloud, rec, entries, lost>>

Next ==
    \/ \E p \in AllPlugins :
        \/ ReadState(p) \/ Answer(p) \/ Fails(p) \/ ApplyEnds(p) \/ ApplyBreaks(p)
        \/ Lock(p) \/ Merge(p)
    \/ RaceCrash
    \/ PlanFailed \/ PlanNext \/ MissingLocks \/ SkipsApply \/ Approve
    \/ ApplyGroup \/ ApplyNext \/ MergePlanned \/ PostDeployed

Spec == Init /\ [][Next]_vars

\* Every goroutine is scheduled, every RPC returns, and the user answers.
FairSpec == Spec /\ WF_vars(Next)

-----------------------------------------------------------------------------
(* Properties *)

\* What is recorded of a resource is what is deployed of it.
Recorded(r) == r \in rec[OwnerOf[r]] <=> r \in cloud

\* When planAndApply returns a result, every resource is recorded as it is deployed,
\* errors or not, unless its plugin's call of Apply for its group ended without a
\* last answer.
AllRecorded ==
    stage = "end" /\ outcome # "none" => \A r \in Resources \ lost : Recorded(r)

\* DNS, monitoring and the hook after the apply see a deployment in which every change
\* of every group has been made, but for the groups that a plugin left without an answer
\* and without an error.
AppliedBeforeDNS ==
    stage \in {"applyDNS", "applyMonitoring", "postApply"} =>
        \A r \in Resources \ lost : r \in cloud <=> r \in Planned

\* A plugin changes resources of a group only after the plugins of all earlier
\* groups have returned, and recorded what they did.
GroupsInOrder ==
    stage = "apply" => \A r \in Resources \ lost : PrioOf[r] < group => Recorded(r)

\* A goroutine runs only in a stage that calls its plugin.
Running == \A p \in AllPlugins : calls[p] # "ended" => p \in Called(stage, group)

\* promptDiff has an outcome once it has run.
Prompted ==
    /\ stage \in PlanStages \cup {"prompt"} => outcome = "none"
    /\ stage \in ApplyStages \cup {"merge", "postDeploy"} => outcome # "none"

\* A goroutine works from what is recorded.  Unless the stage applies or verifies, the
\* plugin's answer changes nothing; if it does, the answer is what is deployed.
Answers ==
    \A p \in AllPlugins :
        /\ rec[p] \subseteq Own(p) /\ held[p] \subseteq Own(p)
        /\ calls[p] = "called" => held[p] = rec[p]
        /\ calls[p] \in {"answered", "merging"} =>
              IF stage = "apply" \/ (stage = "plan" /\ Verify)
              THEN \A r \in Own(p) \ lost : r \in held[p] <=> r \in cloud
              ELSE held[p] = rec[p]

\* The plugin's record is exact: with --verify, once a plan has looked at the cloud.
Looked(p) ==
    \/ ~Verify \/ outcome # "none" \/ stage \in {"planDNS", "planMonitoring", "prompt"}
    \/ /\ stage = "plan"
       /\ \E g \in Priority[p] : g < group \/ (g = group /\ calls[p] = "ended" /\ ~err)

\* A record is exact, unless an answer of the apply is still to be merged.
Exact ==
    stage # "crashed" => \A p \in Plugins :
        Looked(p) /\ ~(stage = "apply" /\ calls[p] \in {"answered", "merging"})
            => \A r \in Own(p) \ lost : Recorded(r)

\* While a group is applied, the records of the other groups are exact; and without
\* an error, what is done is what was planned.
GroupsDone ==
    stage = "apply" => \A r \in Resources \ lost :
        /\ PrioOf[r] # group => Recorded(r)
        /\ /\ ~err /\ PrioOf[r] <= group
           /\ PrioOf[r] = group => calls[OwnerOf[r]] \notin {"reading", "called"}
           => (r \in cloud <=> r \in Planned)

\* The inductive invariant.
IInv == TypeOK /\ Running /\ Prompted /\ Answers /\ Exact /\ GroupsDone

\* planAndApply keeps the order of its groups and stages, over its inductive invariant.
StagesInOrder == IInv /\ GroupsInOrder /\ AppliedBeforeDNS

\* No goroutine reads the map of plugin states while another writes it.
NoMapRace == ~Races

\* planAndApply returns.
Returns == <>(stage \in {"end", "crashed"})
=============================================================================
