------------------------------- MODULE MCDefs -------------------------------
(* Projects, options and state files for the small instances. *)
EXTENDS DeployPlan, TLC

CONSTANTS A, B, C, web, api, db, aws, v1, v2

\* An assignment of definitions to the two apps and the dependency.
Defs(w, a, x) == (web :> w) @@ (api :> a) @@ (db :> x)
Same(rec) == [ent |-> rec, reg |-> rec]
ForBoth(x, y) == (A :> x) @@ (B :> y)
ForAll(x, y, z) == (A :> x) @@ (B :> y) @@ (C :> z)

MCNeeds == (web :> {db}) @@ (api :> {})
MCPluginOf == Defs(aws, aws, aws)

NoTargets == ForBoth({}, {})
NoTargets3 == ForAll({}, {}, {})
AWebCApi == ForAll({web}, {}, {api})
ASkipsApi == ForBoth({api}, {})
NoVerify == ForBoth(FALSE, FALSE)
NoVerify3 == ForAll(FALSE, FALSE, FALSE)
AVerifies == ForBoth(TRUE, FALSE)
AVerifies3 == ForAll(TRUE, FALSE, FALSE)

\* All projects define everything; they disagree on versions.
AllUpdate == ForAll(Defs(v2, v1, v2), Defs(v1, v2, v1), Defs(v1, v2, v2))

\* No project defines api.
NoApi ==
    ForAll(Defs(v2, Absent, v2), Defs(v1, Absent, v1), Defs(v1, Absent, v2))

\* B's project no longer has the dependency, or an app.
BDropsWeb == ForBoth(Defs(v2, v1, v1), Defs(Absent, v1, v1))

FromV1 == {Same(Defs(v1, v1, v1))}
FromV1WithOrWithoutWeb == {Same(Defs(v1, v1, v1)), Same(Defs(Absent, v1, v1))}
FromEmptyOrV1 == {EmptyState, Same(Defs(v1, v1, v1)), Same(Defs(v1, Absent, v1))}

\* A deployment of db failed earlier: its entry is newer than what is deployed.
FromEmptyOrFailedDb ==
    {EmptyState, [ent |-> Defs(v1, Absent, v2), reg |-> Defs(v1, Absent, v1)]}
=============================================================================
