----------------------------- MODULE MCLocalRun -----------------------------
(* Small instances of LocalRun for TLC. *)
EXTENDS LocalRun, TLC

CONSTANTS web, api, db, p, q

Ported(x, y, z) == (web :> x) @@ (api :> y) @@ (db :> z)
Calls(D, A) == [g \in Groups |-> IF g = "deps" THEN D ELSE A]
Run(f, L, D, A, h) == [fixed |-> f, local |-> L, calls |-> Calls(D, A), routing |-> h]

\* A local app next to a plugin, with a fixed port in the way of the other ports;
\* a plugin in each group; two plugins in one group; then ports that clash: a
\* dependency wants the port an app was given, two apps want the same.
AllProjects == {
    Run(Ported(0, 2, 0), {web}, {p}, {}, TRUE),
    Run(Ported(3, 4, 0), {}, {p}, {q}, FALSE),
    Run(Ported(0, 3, 4), {}, {p, q}, {}, TRUE),
    Run(Ported(0, 0, 2), {web}, {}, {}, TRUE),
    Run(Ported(4, 4, 0), {web}, {}, {}, FALSE) }
=============================================================================
