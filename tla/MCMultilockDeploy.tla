-------------------------- MODULE MCMultilockDeploy --------------------------
(* Small instances of MultilockDeploy for TLC. *)
EXTENDS MultilockDeploy, MCDefs

MCValues == [Fields -> Contents \cup {Absent}]

\* Three versions of a definition: the second and the third change one part each.
V11 == [app |-> 1, deployment |-> 1]
V21 == [app |-> 2, deployment |-> 1]
V12 == [app |-> 1, deployment |-> 2]

\* All projects define everything; they change different parts of db, and each
\* takes back the changes of the others.
PartsDiffer == ForAll(Defs(V21, V11, V21), Defs(V11, V12, V12), Defs(V12, V21, V21))
=============================================================================
