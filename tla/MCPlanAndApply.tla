-------------------------- MODULE MCPlanAndApply --------------------------
(* Small instances of PlanAndApply for TLC: plugin p works in two groups,   *)
(* next to q in the second.                                                  *)
EXTENDS PlanAndApply, TLC

CONSTANTS p, q, net, app, site

TwoGroups == (p :> {1, 3}) @@ (q :> {3})
Owners == (net :> p) @@ (app :> p) @@ (site :> q)
Groups == (net :> 1) @@ (app :> 3) @@ (site :> 3)
=============================================================================
