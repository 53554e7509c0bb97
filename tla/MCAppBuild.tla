----------------------------- MODULE MCAppBuild -----------------------------
EXTENDS AppBuild

CONSTANTS r1, r2, dev, prod, api, img, fn, web

Option(mode, picked, env) == [mode |-> mode, picked |-> picked, env |-> env]

\* One run with every mode; another that builds one app.
MCOptions ==
    [r \in Runs |->
        IF r = r1 THEN {Option(m, Apps, dev) : m \in {"build", "skip", "destroy"}}
        ELSE {Option("build", {api}, prod), Option("build", {fn}, dev), Option("build", {fn}, prod)}]
=============================================================================
