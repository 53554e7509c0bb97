--------------------------- MODULE MCDeployFilter ---------------------------
(* Small instances of DeployFilter for TLC: apps static.web, service.web,   *)
(* static.api and service.api, selected by type and name or by name alone.  *)
EXTENDS DeployFilter

Matcher(t, n) == [typ |-> t, name |-> n, matched |-> FALSE]
\* A matcher that app loading has used already.
Used(t, n) == [typ |-> t, name |-> n, matched |-> TRUE]

\* Lists in which no app is selected twice.
SomeTargets ==
    {<<>>, <<Used("any", "web")>>, <<Used("static", "web")>>,
     <<Matcher("static", "web"), Used("any", "api")>>}
SomeSkips ==
    {<<>>, <<Matcher("any", "api")>>, <<Used("service", "api"), Used("service", "web")>>}
=============================================================================
