------------------------------- MODULE Secrets -------------------------------
(***************************************************************************)
(* The commands of `ok secrets' that several users run on one environment: *)
(* SecretsManager of pkg/actions/secrets.go over the secrets plugin.  Set  *)
(* and delete are one request each; edit and import read all secrets, and  *)
(* later replace them all by what is in a file.  Nothing locks them, and   *)
(* the plugin is not told what the file was made from.                     *)
(***************************************************************************)
EXTENDS Integers

CONSTANTS
    Users,
    Keys,
    Values,     \* the values users give to secrets
    Declared,   \* the keys the plugins of the project declare
    Kinds,      \* Kinds[u]: a subset of {"set", "delete", "edit", "import"}
    Faults,     \* a subset of {"call", "yaml", "interrupt"}
    Empty,      \* the value ""
    None        \* no such key

ASSUME SecretsAssumption ==
    /\ Declared \subseteq Keys
    /\ Kinds \in [Users -> SUBSET {"set", "delete", "edit", "import"}]
    /\ Faults \subseteq {"call", "yaml", "interrupt"}
    /\ None \notin Values \cup {Empty} /\ Empty \notin Values

VARIABLES
    store,   \* what the plugin keeps
    pc, kind,
    given,   \* the key and the value of a set or a delete
    seen,    \* what the plugin answered
    vals,    \* the map made from it, which the editor starts from
    file     \* what is in the edited, or the imported, file

vars == <<store, pc, kind, given, seen, vals, file>>

Maps == [Keys -> Values \cup {Empty, None}]
NoKeys == [k \in Keys |-> None]

TypeOK ==
    /\ store \in Maps
    /\ pc \in [Users -> {"start", "read", "editor", "key", "diff", "save", "done", "failed"}]
    /\ kind \in [Users -> {"set", "delete", "edit", "import"}]
    /\ given \in [Users -> Keys \X Values]
    /\ seen \in [Users -> Maps] /\ vals \in [Users -> Maps] /\ file \in [Users -> Maps]

Init ==
    /\ store \in Maps
    /\ pc = [u \in Users |-> "start"]
    /\ kind \in [Users -> UNION {Kinds[u] : u \in Users}] /\ \A u \in Users : kind[u] \in Kinds[u]
    /\ given \in [Users -> Keys \X Values]
    /\ seen = [u \in Users |-> NoKeys] /\ vals = seen /\ file = seen

At(u, from, to) == pc[u] = from /\ pc' = [pc EXCEPT ![u] = to]

\* How a command sees the end of a request that was carried out: the answer may be lost.
Ends == IF "call" \in Faults THEN {"done", "failed"} ELSE {"done"}

-----------------------------------------------------------------------------
(* Set and Delete *)

Set(u) ==
    /\ kind[u] = "set" /\ \E end \in Ends : At(u, "start", end)
    /\ store' = [store EXCEPT ![given[u][1]] = given[u][2]]
    /\ UNCHANGED <<kind, given, seen, vals, file>>

Delete(u) ==
    /\ kind[u] = "delete" /\ \E end \in Ends : At(u, "start", end)
    /\ store' = [store EXCEPT ![given[u][1]] = None]
    /\ UNCHANGED <<kind, given, seen, vals, file>>

-----------------------------------------------------------------------------
(* Edit and Import *)

\* Mutant: declared keys start empty whether they have a value or not.
MutSecretsValues(m) == [k \in Keys |-> IF k \in Declared THEN Empty ELSE m[k]]

\* getSecretsValues, and generateSecretsYAMLString after it: declared keys
\* without a value are shown as empty.
SecretsValues(m) == [k \in Keys |-> IF k \in Declared /\ m[k] = None THEN Empty ELSE m[k]]

\* GetSecrets.  The temporary file of the editor shows all there is.
GetSecrets(u) ==
    /\ kind[u] \in {"edit", "import"}
    /\ At(u, "start", IF kind[u] = "edit" THEN "editor" ELSE "read")
    /\ seen' = [seen EXCEPT ![u] = store]
    /\ vals' = [vals EXCEPT ![u] = SecretsValues(store)]
    /\ file' = [file EXCEPT ![u] = IF kind[u] = "edit" THEN SecretsValues(store) ELSE NoKeys]
    /\ UNCHANGED <<store, kind, given>>

\* Import reads its file, which may hold anything.
ReadFile(u) ==
    /\ At(u, "read", "diff")
    /\ \E m \in Maps : file' = [file EXCEPT ![u] = m]
    /\ UNCHANGED <<store, kind, given, seen, vals>>

\* RunEditor returns when the user leaves the editor with a valid file.
EditorEnds(u) ==
    /\ At(u, "editor", "diff")
    /\ \E m \in Maps : file' = [file EXCEPT ![u] = m]
    /\ UNCHANGED <<store, kind, given, seen, vals>>

\* The file is not valid: the user presses a key and is back in the editor, or
\* interrupts.
EditorInvalid(u) ==
    /\ "yaml" \in Faults /\ At(u, "editor", "key")
    /\ UNCHANGED <<store, kind, given, seen, vals, file>>

PressKey(u) ==
    /\ At(u, "key", "editor")
    /\ UNCHANGED <<store, kind, given, seen, vals, file>>

InterruptKey(u) ==
    /\ "interrupt" \in Faults /\ At(u, "key", "failed")
    /\ UNCHANGED <<store, kind, given, seen, vals, file>>

\* statefile.NewMapDiff: without changes nothing is saved.
Diff(u) ==
    /\ At(u, "diff", IF file[u] = vals[u] THEN "done" ELSE "save")
    /\ UNCHANGED <<store, kind, given, seen, vals, file>>

ReplaceSecrets(u) ==
    /\ \E end \in Ends : At(u, "save", end)
    /\ store' = file[u]
    /\ UNCHANGED <<kind, given, seen, vals, file>>

\* A request, the editor or the reading of the file fails, and changes nothing.
Fails(u) ==
    /\ "call" \in Faults
    /\ \E from \in {"start", "read", "editor", "save"} : At(u, from, "failed")
    /\ UNCHANGED <<store, kind, given, seen, vals, file>>

Next ==
    \E u \in Users :
        \/ Set(u) \/ Delete(u) \/ GetSecrets(u) \/ ReadFile(u)
        \/ EditorEnds(u) \/ EditorInvalid(u) \/ PressKey(u) \/ InterruptKey(u)
        \/ Diff(u) \/ ReplaceSecrets(u) \/ Fails(u)

Spec == Init /\ [][Next]_vars

-----------------------------------------------------------------------------
(* Properties *)

\* Until it is saved, what the editor started from is what was read.
ShownAsRead ==
    \A u \in Users : pc[u] \in {"read", "editor", "key", "diff", "save"} => vals[u] = SecretsValues(seen[u])

\* Edit and Import keep the map they have read until they replace it.
IInv == TypeOK /\ ShownAsRead

Replaces(u) == pc[u] = "save" /\ pc'[u] # "save"

\* Edit and import change a secret that the user left as the file showed it only
\* if another user has changed it since it was read, or if a plugin declares it
\* and it had no value: then it gets the empty one.
ForeignChange(u, k) ==
    \/ store[k] # seen[u][k]
    \/ k \in Declared /\ store[k] = None /\ store'[k] = Empty

UntouchedKept ==
    [][\A u \in Users, k \in Keys :
          Replaces(u) /\ file[u][k] = vals[u][k] /\ store'[k] # store[k] => ForeignChange(u, k)]_vars
=============================================================================
