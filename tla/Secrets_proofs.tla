---------------------------- MODULE Secrets_proofs ----------------------------
(***************************************************************************)
(* Proofs about Secrets: that an edit or an import changes what its user   *)
(* left alone only after a change by somebody else, for any number of      *)
(* users, keys and values.                                                 *)
(***************************************************************************)
EXTENDS Secrets, TLAPS

LEMMA ValuesAreMaps ==
    ASSUME NEW m \in Maps
    PROVE  SecretsValues(m) \in Maps
BY DEF SecretsValues, Maps

LEMMA Start == Init => IInv
<1> SUFFICES ASSUME Init PROVE IInv
    OBVIOUS
<1>1. NoKeys \in Maps
    BY DEF NoKeys, Maps
<1>2. kind \in [Users -> {"set", "delete", "edit", "import"}]
    BY SecretsAssumption DEF Init
<1>3. TypeOK
    BY <1>1, <1>2 DEF Init, TypeOK
<1>4. ShownAsRead
    BY DEF Init, ShownAsRead
<1> QED BY <1>3, <1>4 DEF IInv

LEMMA Steps == IInv /\ [Next]_vars => IInv'
<1> SUFFICES ASSUME IInv, [Next]_vars PROVE IInv'
    OBVIOUS
<1> USE DEF IInv
<1>1. CASE UNCHANGED vars
    BY <1>1 DEF vars, TypeOK, ShownAsRead
<1>2. CASE Next
  <2> PICK u \in Users :
        \/ Set(u) \/ Delete(u) \/ GetSecrets(u) \/ ReadFile(u)
        \/ EditorEnds(u) \/ EditorInvalid(u) \/ PressKey(u) \/ InterruptKey(u)
        \/ Diff(u) \/ ReplaceSecrets(u) \/ Fails(u)
      BY <1>2 DEF Next
  <2>1. CASE Set(u)
    <3>1. given[u][1] \in Keys /\ given[u][2] \in Values
        BY DEF TypeOK
    <3>2. store' \in Maps
        BY <2>1, <3>1 DEF Set, TypeOK, Maps
    <3> QED BY <2>1, <3>2 DEF Set, At, Ends, TypeOK, ShownAsRead
  <2>2. CASE Delete(u)
    <3>1. store' \in Maps
        BY <2>2 DEF Delete, TypeOK, Maps
    <3> QED BY <2>2, <3>1 DEF Delete, At, Ends, TypeOK, ShownAsRead
  <2>3. CASE GetSecrets(u)
    <3>1. store \in Maps /\ SecretsValues(store) \in Maps /\ NoKeys \in Maps
        BY ValuesAreMaps DEF TypeOK, NoKeys, Maps
    <3>2. TypeOK'
        BY <2>3, <3>1 DEF GetSecrets, At, TypeOK
    <3>3. ShownAsRead'
        BY <2>3, <3>1 DEF GetSecrets, At, TypeOK, ShownAsRead
    <3> QED BY <3>2, <3>3
  <2>4. CASE ReadFile(u) \/ EditorEnds(u)
      BY <2>4 DEF ReadFile, EditorEnds, At, TypeOK, ShownAsRead
  <2>5. CASE EditorInvalid(u) \/ PressKey(u) \/ InterruptKey(u) \/ Diff(u)
      BY <2>5 DEF EditorInvalid, PressKey, InterruptKey, Diff, At, TypeOK, ShownAsRead
  <2>6. CASE ReplaceSecrets(u)
      BY <2>6 DEF ReplaceSecrets, At, Ends, TypeOK, ShownAsRead
  <2>7. CASE Fails(u)
      BY <2>7 DEF Fails, At, TypeOK, ShownAsRead
  <2> QED BY <2>1, <2>2, <2>3, <2>4, <2>5, <2>6, <2>7
<1> QED BY <1>1, <1>2

\* The editor starts from what was read, in every reachable state.
THEOREM ReadInvariant == Spec => []IInv
<1> QED BY Start, Steps, PTL DEF Spec

\* Edit and import change what their user left alone only after a foreign change:
\* statefile.NewMapDiff and ReplaceSecrets work on the map that was read.
THEOREM UntouchedStays == Spec => UntouchedKept
<1>1. IInv /\ [Next]_vars =>
        [\A u \in Users, k \in Keys :
            Replaces(u) /\ file[u][k] = vals[u][k] /\ store'[k] # store[k] => ForeignChange(u, k)]_vars
  <2> SUFFICES ASSUME IInv, Next, NEW u \in Users, NEW k \in Keys,
                      Replaces(u), file[u][k] = vals[u][k], store'[k] # store[k]
               PROVE  ForeignChange(u, k)
      BY DEF vars
  <2>1. store' = file[u]
    <3>1. \A v \in Users : pc'[v] # pc[v] => \/ Set(v) \/ Delete(v) \/ GetSecrets(v) \/ ReadFile(v)
                                             \/ EditorEnds(v) \/ EditorInvalid(v) \/ PressKey(v)
                                             \/ InterruptKey(v) \/ Diff(v) \/ ReplaceSecrets(v) \/ Fails(v)
        BY DEF Next, IInv, TypeOK, Set, Delete, GetSecrets, ReadFile, EditorEnds, EditorInvalid,
               PressKey, InterruptKey, Diff, ReplaceSecrets, Fails, At
    <3>2. ReplaceSecrets(u) \/ Fails(u)
        BY <3>1 DEF Replaces, Set, Delete, GetSecrets, ReadFile, EditorEnds, EditorInvalid,
               PressKey, InterruptKey, Diff, At
    <3> QED BY <3>2 DEF ReplaceSecrets, Fails
  <2>2. vals[u][k] = IF k \in Declared /\ seen[u][k] = None THEN Empty ELSE seen[u][k]
      BY DEF IInv, ShownAsRead, Replaces, SecretsValues
  <2> QED BY <2>1, <2>2 DEF ForeignChange
<1> QED BY <1>1, ReadInvariant, PTL DEF Spec, UntouchedKept
=============================================================================
