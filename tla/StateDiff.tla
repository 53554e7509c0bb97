------------------------------ MODULE StateDiff ------------------------------
(***************************************************************************)
(* statefile.NewDiff and Diff.Apply of internal/statefile: the change a    *)
(* run with named locks makes to the state file, key by key.               *)
(*                                                                         *)
(* What the file has of a resource consists of parts.  The diff of Apps    *)
(* and Dependencies (MapDiff with two levels) descends to the parts of an  *)
(* entry: app or dependency, dns, deployment.  RegistryDiff descends to    *)
(* the parts of a record: its properties.                                  *)
(***************************************************************************)
EXTENDS DeployPlan

CONSTANTS
    Fields,    \* the parts
    Contents   \* what a part can be, if it is there

ASSUME ValuesAssumption == Values = [Fields -> Contents \cup {Absent}]

\* newMapDiff and NewRegistryDiff: the change of one key.  A key that only the new
\* side has is set, or created in a registry; one that both have is changed in the
\* parts that differ, which MapDiff calls nested.
KeyDiff(old, new, fresh, both) ==
    IF old = new THEN [op |-> "keep"]
    ELSE IF new = Absent THEN [op |-> "delete"]
    ELSE IF old = Absent THEN [op |-> fresh, to |-> new]
    ELSE [op |-> both, to |-> new, parts |-> {f \in Fields : old[f] # new[f]}]

NewDiff(old, new) ==
    [ent |-> [r \in Resources |-> KeyDiff(old.ent[r], new.ent[r], "set", "nested")],
     reg |-> [r \in Resources |-> KeyDiff(old.reg[r], new.reg[r], "create", "merge")]]

KeyDiffs(fresh, both) ==
    [op : {"keep", "delete"}] \cup [op : {fresh}, to : Values]
        \cup [op : {both}, to : Values, parts : SUBSET Fields]
Diffs ==
    [ent : [Resources -> KeyDiffs("set", "nested")],
     reg : [Resources -> KeyDiffs("create", "merge")]]

NoDiff ==
    [ent |-> [r \in Resources |-> [op |-> "keep"]],
     reg |-> [r \in Resources |-> [op |-> "keep"]]]

Touches(diff, r) == diff.ent[r].op # "keep" \/ diff.reg[r].op # "keep"
Touched(diff) == {r \in Resources : Touches(diff, r)}

\* Only the parts that differed are set, or deleted.
Overlay(v, kd) == [f \in Fields |-> IF f \in kd.parts THEN kd.to[f] ELSE v[f]]

\* MapDiff.Apply and RegistryDiff.Apply on one key.  A record that is there already
\* is not created again: it keeps its properties.
ApplyKey(kd, v) ==
    IF kd.op = "keep" THEN v
    ELSE IF kd.op = "delete" THEN Absent
    ELSE IF kd.op = "set" \/ (kd.op \in {"create", "merge"} /\ v = Absent) THEN kd.to
    ELSE IF kd.op = "create" THEN v
    ELSE Overlay(v, kd)

ApplyDiff(diff, s) ==
    [ent |-> [r \in Resources |-> ApplyKey(diff.ent[r], s.ent[r])],
     reg |-> [r \in Resources |-> ApplyKey(diff.reg[r], s.reg[r])]]

\* MapDiff.Apply takes .Interface() of the zero reflect.Value when the key of
\* a nested diff is not in the map: the process panics.
ApplyPanics(diff, s) ==
    \E r \in Resources : diff.ent[r].op = "nested" /\ s.ent[r] = Absent

-----------------------------------------------------------------------------
(* What a diff makes of a state other than the one it was computed from *)

\* Applied to v, the change yields something else than it was computed to yield.
Misses(kd, v) ==
    kd.op # "keep" /\ ApplyKey(kd, v) # (IF kd.op = "delete" THEN Absent ELSE kd.to)

\* The resources that the diff leaves as a mixture of its run's plan and the state.
Mixtures(diff, s) ==
    {r \in Resources : Misses(diff.ent[r], s.ent[r]) \/ Misses(diff.reg[r], s.reg[r])}
=============================================================================
