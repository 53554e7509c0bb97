------------------------- MODULE PluginLoader_proofs -------------------------
(***************************************************************************)
(* What the plugin loader chooses, loads and records, for any runs,        *)
(* projects, versions and releases, and any failures and crashes.          *)
(***************************************************************************)
EXTENDS PluginLoader, FiniteSetTheorems, WellFoundedInduction, TLAPS

-----------------------------------------------------------------------------
(* The highest version of a set *)

\* A set of naturals has a least element.
LEMMA LeastExists ==
    ASSUME NEW S, S \subseteq Nat, S # {}
    PROVE  \E x \in S : \A y \in S : x <= y
<1> DEFINE Less == {ss \in Nat \X Nat : ss[1] < ss[2]}
<1>1. IsWellFoundedOn(Less, Nat)
  BY NatLessThanWellFounded DEF OpToRel
<1> HIDE DEF Less
<1>2. PICK x \in S : \A y \in S : <<y, x>> \notin Less
  BY <1>1, WFMin
<1>3. ASSUME NEW y \in S PROVE x <= y
  <2>1. <<y, x>> \in Nat \X Nat /\ <<y, x>>[1] = y /\ <<y, x>>[2] = x
    OBVIOUS
  <2>2. ~ (y < x)
    BY <1>2, <2>1 DEF Less
  <2> QED
    BY <2>2
<1> QED
  BY <1>3

\* A finite set of naturals that is not empty has a greatest element: of the prefixes
\* of a list of them that one element bounds, the longest is the list.
LEMMA GreatestExists ==
    ASSUME NEW S, S \subseteq Nat, S # {}, IsFiniteSet(S)
    PROVE  Max(S) \in S /\ \A y \in S : y <= Max(S)
<1>1. PICK n \in Nat : ExistsSurjection(1..n, S)
  BY FS_NatSurjection
<1>2. PICK f \in [1..n -> S] : \A y \in S : \E i \in 1..n : f[i] = y
  BY <1>1 DEF ExistsSurjection, Surjection
<1> DEFINE Bounds(x, m) == \A i \in 1..n : i + m <= n => f[i] <= x
           Rest == {m \in 0..n : \E x \in S : Bounds(x, m)}
<1>3. n \in Rest /\ Rest \subseteq Nat
  <2>1. \A i \in 1..n : ~ (i + n <= n)
    OBVIOUS
  <2>2. \E x \in S : Bounds(x, n)
    BY <2>1
  <2>3. n \in 0..n /\ 0..n \subseteq Nat
    OBVIOUS
  <2> QED
    BY <2>2, <2>3
<1>4. PICK m \in Rest : \A j \in Rest : m <= j
  <2> HIDE DEF Rest
  <2> QED
    BY <1>3, LeastExists
<1>5. PICK x \in S : Bounds(x, m)
  OBVIOUS
<1>6. m = 0
  <2> SUFFICES ASSUME m # 0 PROVE FALSE
    OBVIOUS
  <2> DEFINE k == n - m + 1
  <2>1. m - 1 \in 0..n /\ k \in 1..n /\ m - 1 \notin Rest
    BY SMTT(30), <1>4
  <2>2. f[k] \in S /\ f[k] \in Nat /\ x \in Nat
    BY <2>1
  <2>3. PICK z \in S : x <= z /\ f[k] <= z /\ z \in Nat
    BY <2>2
  <2>4. ASSUME NEW i \in 1..n, i + (m - 1) <= n PROVE f[i] <= z
    <3>1. i = k \/ i + m <= n
      BY <2>4
    <3>2. i + m <= n => f[i] <= x /\ f[i] \in Nat
      BY <1>5
    <3> QED
      BY <2>2, <2>3, <3>1, <3>2
  <2> QED
    BY <2>1, <2>4
<1>7. \A y \in S : y <= x
  BY <1>2, <1>5, <1>6
<1> QED
  BY <1>7 DEF Max

-----------------------------------------------------------------------------
(* pluginInfo.matches *)

\* Of the versions that are there, it chooses the locked one, or one that fits.
LEMMA ChoiceFits ==
    ASSUME TypeOK, NEW r \in Runs, NEW S \in SUBSET Versions, Choose(r, S) # None
    PROVE  /\ Choose(r, S) \in S /\ Choose(r, S) \in Fitting(r)
           /\ LockOf(r) # None => Choose(r, S) = LockOf(r)
<1>1. CASE LockOf(r) # None
  BY <1>1 DEF Choose, LockOf, Fitting
<1>2. CASE LockOf(r) = None
  <2> DEFINE fit == S \cap Fitting(r)
  <2>1. fit # {} /\ Choose(r, S) = Max(fit)
    BY <1>2 DEF Choose
  <2>2. fit \subseteq Nat /\ IsFiniteSet(fit)
    BY LoaderAssumption, FS_Subset
  <2> HIDE DEF fit
  <2>3. Max(fit) \in fit
    BY <2>1, <2>2, GreatestExists
  <2> QED
    BY <1>2, <2>1, <2>3 DEF fit
<1> QED
  BY <1>1, <1>2

\* It chooses a version or none.
LEMMA ChoiceType ==
    ASSUME TypeOK, NEW r \in Runs, NEW S \in SUBSET Versions
    PROVE  Choose(r, S) \in Versions \cup {None}
BY ChoiceFits

\* The version that Update finds is published.
LEMMA NewestType ==
    ASSUME TypeOK, NEW r \in Runs
    PROVE  Newest(r) \in Versions \cup {None}
<1> DEFINE fit == {v \in tags : Release[v] # "missing" /\ (Kind(r) = "force" \/ v \in seen[r].allowed)}
<1>1. fit \subseteq Versions /\ fit \subseteq Nat /\ IsFiniteSet(fit)
  <2>1. fit \subseteq Versions
    BY DEF TypeOK
  <2> HIDE DEF fit
  <2> QED
    BY <2>1, LoaderAssumption, FS_Subset
<1>2. Newest(r) = IF fit = {} THEN None ELSE Max(fit)
  BY DEF Newest
<1> HIDE DEF fit
<1> QED
  BY <1>1, <1>2, GreatestExists

-----------------------------------------------------------------------------
(* Types *)

LEMMA TypeInit == Init => TypeOK
<1> SUFFICES ASSUME Init PROVE TypeOK
  OBVIOUS
<1>1. PICK git \in Checkouts : /\ lock = [p \in Projects |-> git[p].lock]
                               /\ allowed = [p \in Projects |-> git[p].allowed]
  BY DEF Init
<1>2. lock \in [Projects -> Versions \cup {None}] /\ allowed \in [Projects -> SUBSET Versions]
  BY <1>1, LoaderAssumption
<1>3. Cached \subseteq Versions /\ Tagged \subseteq Versions /\ MaxAttempts \in Nat
  BY LoaderAssumption
<1>4. /\ cache \in [Versions -> Contents \cup {None}]
      /\ inst \in [Projects -> [Versions -> Contents \cup {None, Link}]]
  BY DEF Init, Contents
<1>5. /\ pc \in [Runs -> Ended \cup Loading \cup {"start", "use", "yaml", "save"}]
      /\ dir \in [Runs -> {"cache", "project"}] /\ disturbed \in BOOLEAN
  BY DEF Init
<1>6. /\ seen \in [Runs -> [lock : Versions \cup {None}, allowed : SUBSET Versions,
                            exact : Versions \cup {None}]]
      /\ ver \in [Runs -> Versions \cup {None}] /\ got \in [Runs -> Contents \cup {None}]
      /\ attempt \in [Runs -> 0..MaxAttempts]
  BY <1>3 DEF Init
<1> QED
  BY <1>2, <1>3, <1>4, <1>5, <1>6 DEF Init, TypeOK

\* A further attempt is within the bound.
LEMMA NextAttempt ==
    ASSUME NEW n \in Nat, NEW k \in 0..n, k # n
    PROVE  k + 1 \in 0..n
OBVIOUS

\* Every variable of the loader keeps its type.
LEMMA TypeStep == TypeOK /\ [Next]_vars => TypeOK'
<1> SUFFICES ASSUME TypeOK, [Next]_vars PROVE TypeOK'
  OBVIOUS
<1>0. /\ MaxAttempts \in Nat \ {0} /\ None \notin Versions
      /\ \A q \in Runs : Kind(q) \in Kinds /\ ProjectOf(q) \in Projects
  BY LoaderAssumption DEF TypeOK, Kind, ProjectOf
<1> USE <1>0 DEF TypeOK, At, files, local
<1>1. ASSUME NEW r \in Runs, Failure(r)
      PROVE  /\ attempt' \in [Runs -> 0..MaxAttempts]
             /\ pc' \in [Runs -> Ended \cup Loading \cup {"start", "use", "yaml", "save"}]
  <2>1. attempt[r] \in 0..MaxAttempts
    OBVIOUS
  <2>2. attempt[r] # MaxAttempts => attempt[r] + 1 \in 0..MaxAttempts
    BY <2>1, NextAttempt
  <2>3. \/ pc' = [pc EXCEPT ![r] = "failed"] /\ attempt' = attempt
        \/ /\ pc' = [pc EXCEPT ![r] = "wait"] /\ attempt[r] # MaxAttempts
           /\ attempt' = [attempt EXCEPT ![r] = attempt[r] + 1]
    BY <1>1 DEF Failure
  <2> DEFINE PCs == Ended \cup Loading \cup {"start", "use", "yaml", "save"}
  <2>4. "failed" \in PCs /\ "wait" \in PCs /\ pc \in [Runs -> PCs]
    BY DEF Ended, Loading
  <2>5. attempt' \in [Runs -> 0..MaxAttempts]
    BY <2>2, <2>3
  <2>6. pc' \in [Runs -> PCs]
    <3> HIDE DEF PCs
    <3> QED
      BY ZenonT(60), <2>3, <2>4
  <2> QED
    BY <2>5, <2>6
<1>7. ASSUME NEW r \in Runs, LoadingFails(r)
      PROVE  /\ attempt' \in [Runs -> 0..MaxAttempts]
             /\ pc' \in [Runs -> Ended \cup Loading \cup {"start", "use", "yaml", "save"}]
  <2>1. CASE Failure(r)
    BY <1>1, <2>1
  <2>2. CASE pc' = [pc EXCEPT ![r] = "failed"] /\ attempt' = attempt
    BY <2>2 DEF Ended
  <2> QED
    BY <1>7, <2>1, <2>2 DEF LoadingFails
<1>22. ASSUME NEW r \in Runs, NEW c, SetEntry(r, c),
              c \in Contents \cup {None, Link} \/ ver[r] \notin Versions
       PROVE  inst' \in [Projects -> [Versions -> Contents \cup {None, Link}]]
  <2> DEFINE p == ProjectOf(r)
             v == ver[r]
  <2>0. inst[p] \in [Versions -> Contents \cup {None, Link}]
    OBVIOUS
  <2>1. [inst[p] EXCEPT ![v] = c] \in [Versions -> Contents \cup {None, Link}]
    <3>1. c \in Contents \cup {None, Link} \/ v \notin Versions
      BY <1>22
    <3> HIDE DEF p, v
    <3> QED
      BY <2>0, <3>1
  <2>2. inst' = [inst EXCEPT ![p] = [inst[p] EXCEPT ![v] = c]]
    BY <1>22 DEF SetEntry
  <2> HIDE DEF p, v
  <2> QED
    BY <2>1, <2>2
<1>23. Partial \in Contents
  BY DEF Contents
<1> USE DEF Ended, Loading
<1>2. ASSUME NEW r \in Runs, Begin(r) PROVE TypeOK'
  BY <1>2 DEF Begin
<1>3. ASSUME NEW r \in Runs, FindInstalled(r) PROVE TypeOK'
  BY <1>3, ChoiceType DEF FindInstalled
<1>4. ASSUME NEW r \in Runs, FindCached(r) PROVE TypeOK'
  BY <1>4, ChoiceType DEF FindCached
<1>5. ASSUME NEW r \in Runs, Wait(r) \/ Fetch(r) PROVE TypeOK'
  <2>1. CASE Wait(r)
    BY <2>1 DEF Wait
  <2>2. CASE Fetch(r)
    BY <2>2, ChoiceType DEF Fetch
  <2> QED
    BY <1>5, <2>1, <2>2
<1>6. ASSUME NEW r \in Runs, FetchFails(r) PROVE TypeOK'
  BY <1>1, <1>6 DEF FetchFails
<1>8. ASSUME NEW r \in Runs, Checkout(r) PROVE TypeOK'
  BY <1>1, <1>8 DEF Checkout
<1>9. ASSUME NEW r \in Runs, ClearOut(r) \/ Unpack(r) \/ RemoveOut(r) PROVE TypeOK'
  <2>1. CASE ClearOut(r) \/ RemoveOut(r)
    BY <2>1 DEF ClearOut, RemoveOut
  <2>2. CASE Unpack(r)
    <3>1. CASE out = None
      BY <2>2, <3>1 DEF Unpack
    <3>2. CASE out # None
      BY <1>1, <2>2, <3>2 DEF Unpack
    <3> QED
      BY <3>1, <3>2
  <2> QED
    BY <1>9, <2>1, <2>2
<1>10. ASSUME NEW r \in Runs, StartCopy(r) \/ Copy(r) PROVE TypeOK'
  <2>1. CASE StartCopy(r)
    BY <2>1 DEF StartCopy, Contents
  <2>2. CASE Copy(r)
    <3>1. Source(r) \in Contents
      BY <2>2 DEF Copy, Source, Contents
    <3>2. cache' \in [Versions -> Contents \cup {None}]
      BY <2>2, <3>1 DEF Copy
    <3> QED
      BY <2>2, <3>2 DEF Copy
  <2> QED
    BY <1>10, <2>1, <2>2
<1>11. ASSUME NEW r \in Runs, CopyFails(r) PROVE TypeOK'
  BY <1>1, <1>11 DEF CopyFails
<1>12. ASSUME NEW r \in Runs, RemoveEntry(r) \/ RemoveCopy(r) \/ MakeLink(r) PROVE TypeOK'
  <2>1. CASE RemoveEntry(r)
    <3>1. SetEntry(r, Partial) \/ SetEntry(r, None)
      BY <2>1 DEF RemoveEntry
    <3>2. inst' \in [Projects -> [Versions -> Contents \cup {None, Link}]]
      BY <1>22, <1>23, <3>1
    <3>3. pc' \in {[pc EXCEPT ![r] = "removing"], [pc EXCEPT ![r] = "link"]}
      BY <2>1 DEF RemoveEntry
    <3> QED
      BY <2>1, <3>2, <3>3 DEF RemoveEntry
  <2>2. CASE RemoveCopy(r)
    <3>1. SetEntry(r, None) \/ inst' = inst
      BY <2>2 DEF RemoveCopy
    <3>2. inst' \in [Projects -> [Versions -> Contents \cup {None, Link}]]
      BY <1>22, <3>1
    <3> QED
      BY <2>2, <3>2 DEF RemoveCopy
  <2>3. CASE MakeLink(r)
    <3>1. inst' \in [Projects -> [Versions -> Contents \cup {None, Link}]]
      BY <1>22, <2>3 DEF MakeLink
    <3> QED
      BY <2>3, <3>1 DEF MakeLink
  <2> QED
    BY <1>12, <2>1, <2>2, <2>3
<1>13. ASSUME NEW r \in Runs, StartInstall(r) \/ Install(r) PROVE TypeOK'
  <2>1. CASE StartInstall(r)
    <3>1. SetEntry(r, Partial) \/ SetEntry(r, Link)
      BY <2>1 DEF StartInstall
    <3>2. inst' \in [Projects -> [Versions -> Contents \cup {None, Link}]]
      BY <1>22, <1>23, <3>1
    <3>3. cache' \in {cache, [cache EXCEPT ![ver[r]] = Partial]}
      BY <2>1 DEF StartInstall
    <3>4. cache' \in [Versions -> Contents \cup {None}]
      BY <1>23, <3>3
    <3>5. disturbed' \in BOOLEAN
      BY <2>1 DEF StartInstall
    <3> QED
      BY <2>1, <3>2, <3>4, <3>5 DEF StartInstall
  <2>2. CASE Install(r)
    <3>1. inst' = inst \/ SetEntry(r, cache[ver[r]])
      BY <2>2 DEF Install
    <3>2. ver[r] \in Versions => cache[ver[r]] \in Contents \cup {None, Link}
      OBVIOUS
    <3>3. inst' \in [Projects -> [Versions -> Contents \cup {None, Link}]]
      BY <1>22, <3>1, <3>2
    <3> QED
      BY <2>2, <3>3 DEF Install
  <2> QED
    BY <1>13, <2>1, <2>2
<1>14. ASSUME NEW r \in Runs, Load(r) PROVE TypeOK'
  BY <1>14 DEF Load
<1>15. ASSUME NEW r \in Runs, LoadFails(r) \/ DiskFails(r) \/ InstallFails(r) PROVE TypeOK'
  BY <1>7, <1>15 DEF LoadFails, DiskFails, InstallFails
<1>16. ASSUME NEW r \in Runs, StartUpdate(r) PROVE TypeOK'
  <2>1. seen' \in [Runs -> [lock : Versions \cup {None}, allowed : SUBSET Versions,
                           exact : Versions \cup {None}]]
    <3>1. seen' = [seen EXCEPT ![r] = [seen[r] EXCEPT !.exact = Newest(r)]]
      BY <1>16 DEF StartUpdate
    <3>2. Newest(r) \in Versions \cup {None}
      BY NewestType
    <3>3. [seen[r] EXCEPT !.exact = Newest(r)]
            \in [lock : Versions \cup {None}, allowed : SUBSET Versions, exact : Versions \cup {None}]
      <4>1. seen[r] \in [lock : Versions \cup {None}, allowed : SUBSET Versions,
                         exact : Versions \cup {None}]
        OBVIOUS
      <4> QED
        BY <3>2, <4>1
    <3> QED
      BY <3>1, <3>3
  <2>2. attempt' \in [Runs -> 0..MaxAttempts] /\ disturbed' \in BOOLEAN
    BY <1>16 DEF StartUpdate
  <2> QED
    BY <1>16, <2>1, <2>2 DEF StartUpdate
<1>17. ASSUME NEW r \in Runs, Use(r) \/ UseFails(r) PROVE TypeOK'
  <2>1. /\ pc' \in {[pc EXCEPT ![r] = "save"], [pc EXCEPT ![r] = "yaml"], [pc EXCEPT ![r] = "failed"]}
        /\ UNCHANGED <<files, local, disturbed>>
    BY <1>17 DEF Use, UseFails
  <2> QED
    BY <2>1
<1>18. ASSUME NEW r \in Runs, WriteYAML(r) \/ SaveLock(r) PROVE TypeOK'
  <2>1. CASE WriteYAML(r)
    <3>1. seen[r].allowed \subseteq Versions
      OBVIOUS
    <3>2. {v \in Versions : v >= ver[r]} \in SUBSET Versions
      OBVIOUS
    <3>3. allowed' \in [Projects -> SUBSET Versions]
      BY <2>1, <3>1, <3>2 DEF WriteYAML
    <3> QED
      BY <2>1, <3>3 DEF WriteYAML
  <2>2. CASE SaveLock(r)
    BY <2>2 DEF SaveLock
  <2> QED
    BY <1>18, <2>1, <2>2
<1>19. ASSUME NEW r \in Runs, Crash(r) PROVE TypeOK'
  BY <1>19 DEF Crash
<1>20. ASSUME NEW v \in Versions, Publish(v) PROVE TypeOK'
  BY <1>20 DEF Publish
<1>21. CASE UNCHANGED vars
  BY <1>21 DEF vars
<1> QED
  BY <1>2, <1>3, <1>4, <1>5, <1>6, <1>8, <1>9, <1>10, <1>11, <1>12, <1>13, <1>14, <1>15,
     <1>16, <1>17, <1>18, <1>19, <1>20, <1>21 DEF Next, Step

-----------------------------------------------------------------------------
(* The choice of a version *)

\* Most steps leave the choice of every run alone.
LEMMA ChoiceKept ==
    ASSUME NEW r \in Runs,
           \/ Wait(r) \/ FetchFails(r) \/ Checkout(r) \/ ClearOut(r) \/ Unpack(r) \/ StartCopy(r)
           \/ Copy(r) \/ CopyFails(r) \/ RemoveOut(r) \/ DiskFails(r) \/ RemoveEntry(r)
           \/ RemoveCopy(r) \/ MakeLink(r) \/ StartInstall(r) \/ Install(r) \/ InstallFails(r)
           \/ Load(r) \/ LoadFails(r) \/ Use(r) \/ UseFails(r) \/ WriteYAML(r) \/ SaveLock(r) \/ Crash(r),
           TypeOK
    PROVE  UNCHANGED <<seen, ver>> /\ \A q \in Runs : Chosen(q)' => Chosen(q)
<1> USE DEF TypeOK, At, Failure, LoadingFails, local, Chosen, Loaded, Loading
<1>1. CASE Wait(r) \/ FetchFails(r) \/ Checkout(r) \/ ClearOut(r) \/ Unpack(r) \/ StartCopy(r)
  BY <1>1 DEF Wait, FetchFails, Checkout, ClearOut, Unpack, StartCopy
<1>2. CASE Copy(r) \/ CopyFails(r) \/ RemoveOut(r) \/ DiskFails(r)
  BY <1>2 DEF Copy, CopyFails, RemoveOut, DiskFails
<1>4. CASE RemoveEntry(r) \/ RemoveCopy(r) \/ MakeLink(r)
  BY <1>4 DEF RemoveEntry, RemoveCopy, MakeLink
<1>5. CASE StartInstall(r) \/ Install(r) \/ InstallFails(r) \/ Load(r)
  BY <1>5 DEF StartInstall, Install, InstallFails, Load
<1>3. CASE LoadFails(r) \/ Use(r) \/ UseFails(r) \/ WriteYAML(r) \/ SaveLock(r) \/ Crash(r)
  BY <1>3 DEF LoadFails, Use, UseFails, WriteYAML, SaveLock, Crash
<1> QED
  BY <1>1, <1>2, <1>3, <1>4, <1>5

\* A run takes what pluginInfo.matches has chosen, and an update what Update has found.
LEMMA ChoiceStep ==
    ASSUME TypeOK, LockDecides, UpdatesGoUp, [Next]_vars
    PROVE  LockDecides' /\ UpdatesGoUp'
<1> USE DEF TypeOK, At, files, local
<1>0. ASSUME UNCHANGED <<seen, ver>>, \A q \in Runs : Chosen(q)' => Chosen(q)
      PROVE  LockDecides' /\ UpdatesGoUp'
  BY <1>0 DEF LockDecides, UpdatesGoUp, Fitting, LockOf
<1>1. ASSUME NEW r \in Runs, Begin(r) PROVE LockDecides' /\ UpdatesGoUp'
  <2>1. /\ seen'[r].exact = None /\ ~Chosen(r)' /\ ver' = ver
        /\ \A q \in Runs \ {r} : seen'[q] = seen[q] /\ (Chosen(q)' <=> Chosen(q))
    BY <1>1 DEF Begin, Chosen, Loaded, Loading
  <2> QED
    BY <2>1 DEF LockDecides, UpdatesGoUp, Fitting, LockOf
<1>2. ASSUME NEW r \in Runs, FindInstalled(r) \/ FindCached(r) \/ Fetch(r)
      PROVE  LockDecides' /\ UpdatesGoUp'
  <2>1. PICK S \in SUBSET Versions :
            /\ ver' = [ver EXCEPT ![r] = Choose(r, S)] /\ seen' = seen
            /\ Chosen(r)' => Choose(r, S) # None
            /\ \A q \in Runs \ {r} : Chosen(q)' <=> Chosen(q)
    <3> USE DEF Chosen, Loaded, Loading
    <3>1. CASE FindInstalled(r)
      <4> DEFINE S == {u \in Versions : inst[ProjectOf(r)][u] # None}
      <4>1. /\ ver' = [ver EXCEPT ![r] = Choose(r, S)] /\ seen' = seen
            /\ pc' = [pc EXCEPT ![r] = IF Choose(r, S) = None THEN "cached" ELSE "read"]
        BY <3>1 DEF FindInstalled
      <4> HIDE DEF S
      <4>2. \A q \in Runs \ {r} : pc'[q] = pc[q]
        BY <4>1
      <4>3. S \in SUBSET Versions /\ (Chosen(r)' => Choose(r, S) # None)
        BY <4>1 DEF S
      <4> QED
        BY <4>1, <4>2, <4>3
    <3>2. CASE FindCached(r)
      <4> DEFINE S == {u \in Versions : cache[u] # None}
      <4>1. /\ ver' = [ver EXCEPT ![r] = Choose(r, S)] /\ seen' = seen
            /\ pc' = [pc EXCEPT ![r] = IF Choose(r, S) = None THEN "fetch" ELSE "remove"]
        BY <3>2 DEF FindCached
      <4> HIDE DEF S
      <4>2. \A q \in Runs \ {r} : pc'[q] = pc[q]
        BY <4>1
      <4>3. S \in SUBSET Versions /\ (Chosen(r)' => Choose(r, S) # None)
        BY <4>1 DEF S
      <4> QED
        BY <4>1, <4>2, <4>3
    <3>3. CASE Fetch(r)
      <4>1. /\ ver' = [ver EXCEPT ![r] = Choose(r, tags)] /\ seen' = seen
            /\ Choose(r, tags) # None /\ tags \in SUBSET Versions
            /\ \A q \in Runs \ {r} : pc'[q] = pc[q]
        BY <3>3 DEF Fetch
      <4> QED
        BY <4>1
    <3> QED
      BY <1>2, <3>1, <3>2, <3>3
  <2>2. \A q \in Runs : Fitting(q)' = Fitting(q) /\ LockOf(q)' = LockOf(q)
    BY <2>1 DEF Fitting, LockOf
  <2>3. Choose(r, S) # None => /\ Choose(r, S) \in Fitting(r)
                               /\ LockOf(r) # None => Choose(r, S) = LockOf(r)
    BY ChoiceFits
  <2>4. \A q \in Runs \ {r} : ver'[q] = ver[q]
    BY <2>1
  <2>5. ver'[r] = Choose(r, S)
    BY <2>1
  <2>6. LockDecides'
    BY <2>1, <2>2, <2>3, <2>4, <2>5 DEF LockDecides
  <2> QED
    BY <2>1, <2>6 DEF UpdatesGoUp
<1>3. ASSUME NEW r \in Runs, StartUpdate(r) PROVE LockDecides' /\ UpdatesGoUp'
  <2>1. /\ pc[r] = "use" /\ pc' = [pc EXCEPT ![r] = "fetch"] /\ ver' = ver
        /\ seen' = [seen EXCEPT ![r] = [seen[r] EXCEPT !.exact = Newest(r)]]
        /\ Newest(r) # None /\ Newest(r) > ver[r]
    BY <1>3 DEF StartUpdate, Updates
  <2>2. /\ ~Chosen(r)' /\ Chosen(r)
        /\ \A q \in Runs \ {r} : seen'[q] = seen[q] /\ (Chosen(q)' <=> Chosen(q))
    BY <2>1 DEF Chosen, Loaded, Loading
  <2>3. /\ seen'[r].exact = Newest(r) /\ seen'[r].lock = seen[r].lock
        /\ seen'[r].allowed = seen[r].allowed
    BY <2>1
  <2>4. LockDecides'
    BY <2>1, <2>2 DEF LockDecides, Fitting, LockOf
  <2>5. seen[r].lock \in seen[r].allowed => seen[r].lock < Newest(r)
    <3> SUFFICES ASSUME seen[r].lock \in seen[r].allowed PROVE seen[r].lock < Newest(r)
      OBVIOUS
    <3>1. seen[r].lock \in Nat /\ seen[r].lock # None /\ Newest(r) \in Nat
      BY <2>1, NewestType, LoaderAssumption
    <3>2. CASE seen[r].exact = None
      <4>1. ver[r] = seen[r].lock
        BY <2>2, <3>1, <3>2 DEF LockDecides, LockOf
      <4> QED
        BY <2>1, <3>1, <4>1
    <3>3. CASE seen[r].exact # None
      <4>1. ver[r] = seen[r].exact /\ seen[r].lock < seen[r].exact /\ seen[r].exact \in Nat
        BY <2>2, <3>3, LoaderAssumption DEF LockDecides, Fitting, UpdatesGoUp
      <4> QED
        BY <2>1, <3>1, <4>1
    <3> QED
      BY <3>2, <3>3
  <2> QED
    BY <2>2, <2>3, <2>4, <2>5 DEF UpdatesGoUp
<1>4. CASE UNCHANGED vars \/ \E v \in Versions : Publish(v)
  BY <1>0, <1>4 DEF vars, Publish, Chosen, Loaded
<1> QED
  BY <1>0, <1>1, <1>2, <1>3, <1>4, ChoiceKept DEF Next, Step

-----------------------------------------------------------------------------
(* Loaders that nothing disturbs *)

\* No version, a link and a directory that is incomplete are different things.
LEMMA NothingIsAVersion ==
    /\ None # Link /\ None # Partial /\ Link # Partial
    /\ None \notin Contents /\ Link \notin Contents /\ Partial \notin Versions
<1> DEFINE T == {None, Link, Partial}
<1>1. Cardinality(T) = 3 /\ T \cap Versions = {}
  BY LoaderAssumption
<1>2. \A x, y : IsFiniteSet({x, y}) /\ Cardinality({x, y}) <= 2
  <2> TAKE x, y
  <2>1. IsFiniteSet({x}) /\ Cardinality({x}) = 1
    BY FS_Singleton
  <2>2. {x, y} = {x} \cup {y}
    OBVIOUS
  <2> QED
    BY <2>1, <2>2, FS_AddElement
<1>3. ASSUME NEW x, NEW y, T = {x, y} PROVE FALSE
  <2>1. Cardinality({x, y}) <= 2
    BY <1>2
  <2>2. Cardinality({x, y}) = 3
    BY <1>1, <1>3
  <2> QED
    BY <2>1, <2>2
<1>4. None # Link /\ None # Partial /\ Link # Partial
  <2>1. None = Link => T = {None, Partial}
    OBVIOUS
  <2>2. None = Partial => T = {None, Link}
    OBVIOUS
  <2>3. Link = Partial => T = {None, Link}
    OBVIOUS
  <2> QED
    BY <1>3, <2>1, <2>2, <2>3
<1> QED
  BY <1>1, <1>4 DEF Contents

\* The version a run has chosen is one.
LEMMA ChosenVersion ==
    ASSUME TypeOK, LockDecides, NEW r \in Runs, Chosen(r)
    PROVE  ver[r] \in Versions
BY DEF TypeOK, LockDecides, Fitting

\* While r is the only run that loads, the others keep what they have loaded.
LEMMA OthersKept ==
    ASSUME TypeOK, OneLoads, NEW r \in Runs,
           \A q \in Runs \ {r} : /\ pc[q] \notin Loading /\ pc'[q] = pc[q]
                                 /\ ver'[q] = ver[q] /\ got'[q] = got[q]
    PROVE  /\ \A q \in Runs \ {r} : LoadsRight(q)'
           /\ \A p, q \in Runs : pc'[p] \in Loading /\ pc'[q] \in Loading => p = q
BY DEF OneLoads, LoadsRight, Loaded, Loading

\* A run that leaves the files alone and is not on its way to load leaves all as it is.
LEMMA FilesKept ==
    ASSUME TypeOK, OneLoads, UNCHANGED <<tree, out, cache, inst, job, ver, got>>, NEW r \in Runs,
           \A q \in Runs \ {r} : pc'[q] = pc[q],
           pc[r] \notin {"copy", "removing", "install"}, pc'[r] \notin Loading, Loaded(r)' => Loaded(r)
    PROVE  OneLoads'
<1>1. \A q \in Runs : /\ ProjectOf(q)' = ProjectOf(q) /\ Source(q)' = Source(q)
                       /\ Entry(q)' = Entry(q)
  BY DEF ProjectOf, Source, Entry
<1>2. \A q \in Runs \ {r} : LoadsRight(q)'
  BY <1>1 DEF OneLoads, LoadsRight, Loaded
<1>3. LoadsRight(r)'
  BY <1>1 DEF OneLoads, LoadsRight, Loaded, Loading
<1>4. \A p, q \in Runs : pc'[p] \in Loading /\ pc'[q] \in Loading => p = q
  BY DEF OneLoads
<1>5. \A v \in Versions : cache'[v] \in {None, v} \/
          (cache'[v] = Partial /\ \E q \in Runs : pc'[q] = "copy" /\ ver'[q] = v)
  BY DEF OneLoads
<1>6. \A p \in Projects, v \in Versions : inst'[p][v] \in {None, Link, v} \/
          (inst'[p][v] = Partial /\ \E q \in Runs : /\ pc'[q] \in {"removing", "install"}
                                                   /\ ProjectOf(q)' = p /\ ver'[q] = v)
  <2> SUFFICES ASSUME NEW p \in Projects, NEW v \in Versions, inst[p][v] \notin {None, Link, v}
               PROVE  /\ inst[p][v] = Partial
                      /\ \E q \in Runs : /\ pc'[q] \in {"removing", "install"}
                                         /\ ProjectOf(q)' = p /\ ver'[q] = v
    OBVIOUS
  <2>1. PICK q \in Runs : /\ inst[p][v] = Partial /\ pc[q] \in {"removing", "install"}
                          /\ ProjectOf(q) = p /\ ver[q] = v
    BY DEF OneLoads
  <2>2. q # r
    BY <2>1
  <2> QED
    BY <1>1, <2>1, <2>2
<1> QED
  BY <1>2, <1>3, <1>4, <1>5, <1>6 DEF OneLoads

\* A step of the one run that loads leaves nothing incomplete but what it copies to.
LEMMA LoadStep ==
    ASSUME TypeOK, LockDecides, OneLoads, NEW r \in Runs, pc[r] \in Loading,
           Step(r), ~disturbed'
    PROVE  OneLoads'
<1> USE DEF TypeOK, At, files, local
<1>1. \A q \in Runs \ {r} : pc[q] \notin Loading
  BY DEF OneLoads
<1>2. /\ \A q \in Runs \ {r} : pc'[q] = pc[q] /\ ver'[q] = ver[q] /\ got'[q] = got[q]
      /\ job' = job
  <2> USE DEF Failure, LoadingFails
  <2>1. CASE \/ FindInstalled(r) \/ FindCached(r) \/ Wait(r) \/ Fetch(r) \/ FetchFails(r)
             \/ Checkout(r) \/ ClearOut(r) \/ Unpack(r)
    BY <2>1 DEF FindInstalled, FindCached, Wait, Fetch, FetchFails, Checkout, ClearOut, Unpack
  <2>2. CASE \/ StartCopy(r) \/ Copy(r) \/ CopyFails(r) \/ RemoveOut(r) \/ DiskFails(r)
             \/ RemoveEntry(r) \/ RemoveCopy(r)
    BY <2>2 DEF StartCopy, Copy, CopyFails, RemoveOut, DiskFails, RemoveEntry, RemoveCopy
  <2>4. CASE \/ MakeLink(r) \/ StartInstall(r) \/ Install(r) \/ InstallFails(r) \/ Load(r)
             \/ LoadFails(r)
    BY <2>4 DEF MakeLink, StartInstall, Install, InstallFails, Load, LoadFails
  <2>3. CASE StartUpdate(r) \/ Use(r) \/ UseFails(r) \/ WriteYAML(r) \/ SaveLock(r)
    BY <2>3 DEF StartUpdate, Use, UseFails, WriteYAML, SaveLock
  <2> QED
    BY <2>1, <2>2, <2>3, <2>4 DEF Step
<1>3. /\ \A q \in Runs \ {r} : LoadsRight(q)'
      /\ \A p, q \in Runs : pc'[p] \in Loading /\ pc'[q] \in Loading => p = q
      /\ \A q \in Runs : ProjectOf(q)' = ProjectOf(q)
  BY <1>1, <1>2, OthersKept DEF ProjectOf
<1>4. Chosen(r) => ver[r] \in Versions
  BY ChosenVersion
<1>20. pc[r] # "copy" => \A v \in Versions : cache[v] \in {None, v}
  BY <1>1 DEF OneLoads, Loading
<1>21. \A p \in Projects, v \in Versions :
          \/ inst[p][v] \in {None, Link, v}
          \/ pc[r] \in {"removing", "install"} /\ ProjectOf(r) = p /\ ver[r] = v
  <2>1. \A q \in Runs : pc[q] \in {"removing", "install"} => q = r
    BY <1>1 DEF Loading
  <2> QED
    BY <2>1 DEF OneLoads
<1>5. ASSUME UNCHANGED <<cache, inst>>, pc[r] \notin {"copy", "removing", "install"}, LoadsRight(r)'
      PROVE  OneLoads'
  <2>1. \A v \in Versions : cache[v] \in {None, v}
    BY <1>5, <1>20
  <2>2. \A q \in Runs : LoadsRight(q)'
    BY <1>3, <1>5
  <2>3. /\ \A v \in Versions : cache'[v] \in {None, v}
        /\ \A p \in Projects, v \in Versions : inst'[p][v] \in {None, Link, v}
    BY <1>5, <1>21, <2>1
  <2> QED
    BY <1>3, <2>2, <2>3 DEF OneLoads
<1>6. CASE FindInstalled(r) \/ Wait(r) \/ Fetch(r)
  <2>1. CASE FindInstalled(r)
    <3>1. pc[r] = "installed" /\ pc'[r] \in {"cached", "read"} /\ UNCHANGED files
      BY <2>1 DEF FindInstalled
    <3> QED
      BY <1>5, <3>1 DEF LoadsRight, Loaded
  <2>2. CASE Wait(r)
    <3>1. pc[r] = "wait" /\ pc'[r] \in {"fetch", "failed"} /\ UNCHANGED files
      BY <2>2 DEF Wait
    <3> QED
      BY <1>5, <3>1 DEF LoadsRight, Loaded
  <2>3. CASE Fetch(r)
    <3>1. pc[r] = "fetch" /\ pc'[r] = "checkout" /\ UNCHANGED files
      BY <2>3 DEF Fetch
    <3> QED
      BY <1>5, <3>1 DEF LoadsRight, Loaded
  <2> QED
    BY <1>6, <2>1, <2>2, <2>3
<1>7. CASE FindCached(r)
  <2> DEFINE S == {u \in Versions : cache[u] # None}
             v == Choose(r, S)
  <2>1. /\ pc[r] = "cached" /\ UNCHANGED files /\ ver' = [ver EXCEPT ![r] = v]
        /\ pc'[r] = IF v = None THEN "fetch" ELSE "remove"
    BY <1>7 DEF FindCached
  <2>2. v # None => v \in S
    BY ChoiceFits
  <2>3. v # None => cache[v] = v
    <3>1. v # None => v \in Versions /\ cache[v] # None
      BY <2>2
    <3> HIDE DEF v
    <3> QED
      BY <1>1, <2>1, <3>1 DEF OneLoads, Loading
  <2> HIDE DEF v
  <2> QED
    BY <1>5, <2>1, <2>3 DEF LoadsRight, Loaded
<1>8. ASSUME Failure(r), UNCHANGED <<cache, inst>>, pc[r] \notin {"copy", "removing", "install"}
      PROVE  OneLoads'
  <2>1. pc'[r] \in {"failed", "wait"}
    BY <1>8 DEF Failure
  <2> QED
    BY <1>5, <1>8, <2>1 DEF LoadsRight, Loaded
<1>9. CASE FetchFails(r) \/ LoadFails(r) \/ DiskFails(r)
  <2>1. CASE (LoadFails(r) \/ DiskFails(r)) /\ attempt[r] = 0
    <3>1. /\ pc[r] \in {"mkdir", "rmout", "remove", "read"} /\ pc'[r] = "failed"
          /\ UNCHANGED files
      BY <2>1 DEF LoadFails, DiskFails, LoadingFails
    <3> QED
      BY <1>5, <3>1 DEF LoadsRight, Loaded
  <2> QED
    BY <1>8, <1>9, <2>1 DEF FetchFails, LoadFails, DiskFails, LoadingFails
<1>10. CASE Checkout(r)
  <2>1. /\ pc[r] = "checkout" /\ tree' = ver[r] /\ UNCHANGED <<cache, inst, ver>>
        /\ \/ Failure(r)
           \/ pc'[r] = IF Release[ver[r]] = "asset" THEN "clear" ELSE "mkdir"
    BY <1>10 DEF Checkout
  <2> QED
    BY <1>5, <1>8, <2>1 DEF LoadsRight, Loaded, Source
<1>11. CASE ClearOut(r) \/ Unpack(r)
  <2>1. CASE ClearOut(r)
    <3>1. pc[r] = "clear" /\ pc'[r] = "unpack" /\ UNCHANGED <<tree, cache, inst, ver>>
      BY <2>1 DEF ClearOut
    <3> QED
      BY <1>5, <3>1 DEF OneLoads, LoadsRight, Loaded
  <2>2. CASE Unpack(r)
    <3>1. /\ pc[r] = "unpack" /\ UNCHANGED <<tree, cache, inst, ver>>
          /\ Failure(r) \/ (pc'[r] = "mkdir" /\ out' = ver[r])
      BY <2>2 DEF Unpack
    <3> QED
      BY <1>5, <1>8, <3>1 DEF OneLoads, LoadsRight, Loaded, Source
  <2> QED
    BY <1>11, <2>1, <2>2
<1>12. CASE StartCopy(r)
  <2>1. /\ pc[r] = "mkdir" /\ pc'[r] = "copy" /\ UNCHANGED <<tree, out, inst, ver>>
        /\ cache' = [cache EXCEPT ![ver[r]] = Partial]
    BY <1>12 DEF StartCopy
  <2>2. LoadsRight(r)'
    BY <2>1 DEF OneLoads, LoadsRight, Loaded, Source
  <2>3. \A v \in Versions : cache'[v] \in {None, v} \/ (cache'[v] = Partial /\ ver'[r] = v)
    BY <1>20, <2>1
  <2>4. \A p \in Projects, v \in Versions : inst'[p][v] \in {None, Link, v}
    BY <1>21, <2>1
  <2> QED
    BY <1>3, <2>1, <2>2, <2>3, <2>4 DEF OneLoads
<1>13. CASE Copy(r)
  <2>1. /\ pc[r] = "copy" /\ pc'[r] \in {"rmout", "remove"} /\ UNCHANGED <<inst, ver>>
        /\ cache' = [cache EXCEPT ![ver[r]] = ver[r]]
    <3>1. pc[r] = "copy" /\ cache' = [cache EXCEPT ![ver[r]] = Source(r)]
      BY <1>13 DEF Copy
    <3>2. Source(r) = ver[r]
      BY <3>1 DEF OneLoads, LoadsRight
    <3>3. pc'[r] \in {"rmout", "remove"} /\ UNCHANGED <<inst, ver>>
      BY <1>13 DEF Copy
    <3> QED
      BY <3>1, <3>2, <3>3
  <2>2. ver[r] \in Versions
    BY <1>4, <2>1 DEF Chosen, Loading
  <2>3. LoadsRight(r)'
    BY <2>1, <2>2 DEF LoadsRight, Loaded
  <2>4. \A v \in Versions : cache'[v] \in {None, v}
    BY <1>1, <2>1, <2>2 DEF OneLoads, Loading
  <2>5. \A p \in Projects, v \in Versions : inst'[p][v] \in {None, Link, v}
    BY <1>21, <2>1
  <2> QED
    BY <1>3, <2>1, <2>3, <2>4, <2>5 DEF OneLoads
<1>14. CASE RemoveOut(r)
  <2>1. pc[r] = "rmout" /\ pc'[r] = "remove" /\ UNCHANGED <<cache, inst, ver>>
    BY <1>14 DEF RemoveOut
  <2> QED
    BY <1>5, <2>1 DEF OneLoads, LoadsRight, Loaded
<1>22. ASSUME NEW c, SetEntry(r, c), ver[r] \in Versions, ver' = ver
       PROVE  /\ Entry(r)' = c
              /\ \A p \in Projects, v \in Versions :
                    \/ inst'[p][v] \in {None, Link, v}
                    \/ inst'[p][v] = c /\ ProjectOf(r) = p /\ ver[r] = v
  <2> DEFINE P == ProjectOf(r)
             V == ver[r]
  <2>1. P \in Projects /\ V \in Versions
    BY <1>22 DEF ProjectOf
  <2>2. inst' = [inst EXCEPT ![P] = [inst[P] EXCEPT ![V] = c]]
    BY <1>22 DEF SetEntry
  <2>3. Entry(r)' = inst'[P][V]
    BY <1>3, <1>22 DEF Entry
  <2>4. \A p \in Projects, v \in Versions :
           inst[p][v] \in {None, Link, v} \/ (P = p /\ V = v)
    BY <1>21
  <2> HIDE DEF P, V
  <2>5. inst'[P][V] = c
    BY <2>1, <2>2
  <2>6. ASSUME NEW p \in Projects, NEW v \in Versions
        PROVE  inst'[p][v] = inst[p][v] \/ (inst'[p][v] = c /\ P = p /\ V = v)
    BY <2>1, <2>2, <2>5
  <2> QED
    BY <2>3, <2>4, <2>5, <2>6 DEF P, V
<1>23. ASSUME NEW c, SetEntry(r, c), UNCHANGED <<ver, cache>>, LoadsRight(r)', ver[r] \in Versions,
              pc[r] # "copy",
              \/ c \in {None, Link, ver[r]}
              \/ c = Partial /\ pc'[r] \in {"removing", "install"}
       PROVE  OneLoads'
  <2>1. \A p \in Projects, v \in Versions :
           \/ inst'[p][v] \in {None, Link, v}
           \/ inst'[p][v] = c /\ ProjectOf(r) = p /\ ver[r] = v
    BY <1>22, <1>23
  <2>2. \A p \in Projects, v \in Versions :
           \/ inst'[p][v] \in {None, Link, v}
           \/ /\ inst'[p][v] = Partial
              /\ pc'[r] \in {"removing", "install"} /\ ProjectOf(r)' = p /\ ver'[r] = v
    BY <1>3, <1>23, <2>1
  <2>3. \A v \in Versions : cache'[v] \in {None, v}
    BY <1>20, <1>23
  <2> QED
    BY <1>3, <1>23, <2>2, <2>3 DEF OneLoads
<1>15. CASE RemoveEntry(r)
  <2>1. /\ pc[r] = "remove" /\ UNCHANGED <<cache, ver>>
        /\ \/ pc'[r] = "removing" /\ SetEntry(r, Partial)
           \/ pc'[r] = "link" /\ SetEntry(r, None)
    BY <1>15 DEF RemoveEntry
  <2>2. ver[r] \in Versions
    BY <1>4, <2>1 DEF Chosen, Loading
  <2>3. \/ pc'[r] = "removing" /\ Entry(r)' = Partial
        \/ pc'[r] = "link" /\ Entry(r)' = None
    BY <1>22, <2>1, <2>2
  <2>4. LoadsRight(r)'
    BY <2>1, <2>3 DEF OneLoads, LoadsRight, Loaded
  <2> QED
    BY <1>23, <2>1, <2>2, <2>4
<1>24. CASE RemoveCopy(r)
  <2>1. /\ pc[r] = "removing" /\ pc'[r] = "link" /\ UNCHANGED <<cache, ver>>
        /\ SetEntry(r, None)
    BY <1>24 DEF RemoveCopy
  <2>2. ver[r] \in Versions
    BY <1>4, <2>1 DEF Chosen, Loading
  <2>3. Entry(r)' = None
    BY <1>22, <2>1, <2>2
  <2>4. LoadsRight(r)'
    BY <2>1, <2>3 DEF OneLoads, LoadsRight, Loaded
  <2> QED
    BY <1>23, <2>1, <2>2, <2>4
<1>25. CASE MakeLink(r)
  <2>1. /\ pc[r] = "link" /\ pc'[r] = "read" /\ UNCHANGED <<cache, ver>> /\ SetEntry(r, Link)
    BY <1>25 DEF MakeLink
  <2>2. ver[r] \in Versions
    BY <1>4, <2>1 DEF Chosen, Loading
  <2>3. LoadsRight(r)'
    BY <2>1 DEF LoadsRight, Loaded
  <2> QED
    BY <1>23, <2>1, <2>2, <2>3
<1>26. CASE StartInstall(r)
  <2>1. pc[r] = "link" /\ pc'[r] = "install" /\ UNCHANGED ver /\ Entry(r) = None
    BY <1>26 DEF StartInstall, OneLoads, LoadsRight
  <2>2. SetEntry(r, Partial) /\ UNCHANGED cache
    BY <1>26, <2>1 DEF StartInstall
  <2>3. ver[r] \in Versions
    BY <1>4, <2>1 DEF Chosen, Loading
  <2>4. Entry(r)' = Partial
    BY <1>22, <2>1, <2>2, <2>3
  <2>5. LoadsRight(r)'
    BY <2>1, <2>2, <2>4 DEF OneLoads, LoadsRight, Loaded
  <2> QED
    BY <1>23, <2>1, <2>2, <2>3, <2>5
<1>16. CASE Install(r)
  <2>1. /\ pc[r] = "install" /\ pc'[r] = "read" /\ UNCHANGED <<cache, ver>>
        /\ Entry(r) = Partial /\ cache[ver[r]] = ver[r]
    BY <1>16 DEF Install, OneLoads, LoadsRight
  <2>2. SetEntry(r, ver[r])
    BY <1>16, <2>1, NothingIsAVersion DEF Install
  <2>3. ver[r] \in Versions
    BY <1>4, <2>1 DEF Chosen, Loading
  <2>4. LoadsRight(r)'
    BY <2>1 DEF LoadsRight, Loaded
  <2> QED
    BY <1>23, <2>1, <2>2, <2>3, <2>4
<1>17. CASE Load(r)
  <2>1. /\ pc[r] = "read" /\ pc'[r] \in {"yaml", "use"} /\ UNCHANGED <<cache, inst, ver>>
        /\ got'[r] = Content(r) /\ Content(r) \in Contents
    BY <1>17 DEF Load
  <2>2. ver[r] \in Versions /\ ProjectOf(r) \in Projects
    BY <1>4, <2>1 DEF Chosen, Loading, ProjectOf
  <2>3. cache[ver[r]] \in {None, ver[r]}
    BY <1>1, <2>1, <2>2 DEF OneLoads, Loading
  <2>4. Entry(r) \in {None, Link, ver[r]}
    BY <1>21, <2>1, <2>2 DEF Entry
  <2>5. Content(r) = ver[r]
    BY <2>1, <2>3, <2>4, NothingIsAVersion DEF Content
  <2> QED
    BY <1>5, <2>1, <2>5 DEF LoadsRight, Loaded
<1>18. ~CopyFails(r) /\ ~InstallFails(r)
  BY DEF CopyFails, InstallFails
<1>19. pc[r] \notin {"use", "yaml", "save"}
  BY DEF Loading
<1> QED
  BY <1>6, <1>7, <1>9, <1>10, <1>11, <1>12, <1>13, <1>14, <1>15, <1>16, <1>17, <1>18, <1>19,
     <1>24, <1>25, <1>26 DEF Step, StartUpdate, Use, UseFails, WriteYAML, SaveLock

LEMMA LoaderInit == Init => IInv
<1> SUFFICES ASSUME Init PROVE IInv
  OBVIOUS
<1>1. LockDecides /\ UpdatesGoUp
  BY DEF Init, LockDecides, UpdatesGoUp, Chosen, Loaded, Loading
<1>2. OneLoads
  BY TypeInit DEF Init, OneLoads, LoadsRight, Loaded, Loading, TypeOK
<1> QED
  BY <1>1, <1>2, TypeInit DEF IInv

\* Two runs that load at once are noticed when the second one starts to.
LEMMA LoaderStep == IInv /\ [Next]_vars => IInv'
<1> SUFFICES ASSUME IInv, [Next]_vars, ~disturbed' PROVE OneLoads'
  BY TypeStep, ChoiceStep DEF IInv
<1> USE DEF IInv, TypeOK, At, files, local
<1>0. ASSUME NEW r \in Runs, Begin(r) \/ StartUpdate(r) \/ Crash(r)
      PROVE  ~disturbed /\ OneLoads
  BY <1>0 DEF Begin, StartUpdate, Crash
<1>1. ASSUME NEW r \in Runs, Begin(r) \/ StartUpdate(r) PROVE OneLoads'
  <2>1. /\ OneLoads /\ \A q \in Runs \ {r} : pc[q] \notin Loading /\ pc'[q] = pc[q]
        /\ UNCHANGED <<tree, out, cache, inst, job, ver, got>> /\ pc'[r] \in {"installed", "fetch"}
        /\ pc[r] \in {"start", "use"}
    BY <1>0, <1>1 DEF Begin, StartUpdate, Disturbs
  <2>2. /\ \A q \in Runs \ {r} : LoadsRight(q)'
        /\ \A p, q \in Runs : pc'[p] \in Loading /\ pc'[q] \in Loading => p = q
    BY <2>1, OthersKept
  <2>3. LoadsRight(r)'
    BY <2>1 DEF LoadsRight, Loaded
  <2>4. /\ \A v \in Versions : cache'[v] \in {None, v}
        /\ \A p \in Projects, v \in Versions : inst'[p][v] \in {None, Link, v}
    <3>1. \A q \in Runs : pc[q] \notin {"copy", "removing", "install"}
      BY <2>1 DEF Loading
    <3> QED
      BY <2>1, <3>1 DEF OneLoads
  <2> QED
    BY <2>1, <2>2, <2>3, <2>4 DEF OneLoads
<1>2. ASSUME NEW r \in Runs, Crash(r) PROVE OneLoads'
  <2>1. /\ pc[r] \notin {"copy", "removing", "install"} /\ pc' = [pc EXCEPT ![r] = "dead"]
        /\ UNCHANGED <<tree, out, cache, inst, job, ver, got>>
    BY <1>2 DEF Crash
  <2> QED
    BY <1>0, <1>2, <2>1, FilesKept DEF Loaded, Loading
<1>3. ASSUME NEW r \in Runs, Use(r) \/ UseFails(r) \/ WriteYAML(r) \/ SaveLock(r) PROVE OneLoads'
  <2>1. /\ UNCHANGED <<tree, out, cache, inst, job, ver, got, disturbed>>
        /\ \A q \in Runs \ {r} : pc'[q] = pc[q]
        /\ pc[r] \in {"use", "yaml", "save"} /\ pc'[r] \in {"yaml", "save", "failed", "done"}
    BY <1>3 DEF Use, UseFails, WriteYAML, SaveLock
  <2> QED
    BY <2>1, FilesKept DEF Loaded, Loading
<1>4. ASSUME NEW r \in Runs, Step(r), pc[r] \in Loading PROVE OneLoads'
  <2>1. disturbed => disturbed'
    BY <1>4 DEF Step, FindInstalled, FindCached, Wait, Fetch, FetchFails, Checkout, ClearOut,
       Unpack, StartCopy, Copy, CopyFails, RemoveOut, DiskFails, RemoveEntry, RemoveCopy, MakeLink,
       StartInstall, Install, InstallFails, Load, LoadFails,
       StartUpdate, Use, UseFails, WriteYAML, SaveLock
  <2> QED
    BY <1>4, <2>1, LoadStep
<1>5. ASSUME NEW r \in Runs, Step(r), pc[r] \notin Loading PROVE OneLoads'
  <2>1. StartUpdate(r) \/ Use(r) \/ UseFails(r) \/ WriteYAML(r) \/ SaveLock(r)
    BY <1>5 DEF Loading, Step, FindInstalled, FindCached, Wait, Fetch, FetchFails, Checkout,
       ClearOut, Unpack, StartCopy, Copy, CopyFails, RemoveOut, DiskFails, RemoveEntry, RemoveCopy, MakeLink,
       StartInstall, Install, InstallFails, Load, LoadFails
  <2> QED
    BY <1>1, <1>3, <2>1
<1>6. CASE UNCHANGED vars \/ \E v \in Versions : Publish(v)
  <2>1. UNCHANGED <<tree, out, cache, inst, job, ver, got, pc, disturbed>>
    BY <1>6 DEF vars, Publish
  <2> QED
    BY <2>1 DEF OneLoads, LoadsRight, Loaded, Source, ProjectOf, Entry
<1> QED
  BY <1>1, <1>2, <1>4, <1>5, <1>6 DEF Next

-----------------------------------------------------------------------------
(* Results *)

\* Every run uses the locked version if the constraint allows it, and stays within the
\* constraint otherwise, wherever it finds the plugin and whatever fails.
THEOREM Invariant == Spec => []IInv
BY LoaderInit, LoaderStep, PTL DEF Spec

\* A plugin is complete and of the version it is loaded as, after any failures and
\* crashes, unless two runs have loaded at once, or a copy or a removal was cut short.
THEOREM LoadedVersions == Spec => []LoadedIsVersion
<1>1. IInv => LoadedIsVersion
  BY DEF IInv, OneLoads, LoadsRight, LoadedIsVersion
<1> QED
  BY <1>1, Invariant, PTL

\* The lock file goes back to an older version only by a run that has not read the
\* newer one, or whose constraint excludes it.
THEOREM LockGoesUp == Spec => LockGoesBackOnlyIfStale
<1> DEFINE Back(p) == lock[p] # None /\ lock'[p] < lock[p] =>
              \E r \in Runs : /\ pc[r] = "save" /\ pc'[r] = "done" /\ ProjectOf(r) = p
                              /\ seen[r].lock # lock[p] \/ lock[p] \notin seen[r].allowed
<1>1. ASSUME IInv, [Next]_vars PROVE [\A p \in Projects : Back(p)]_vars
  <2> SUFFICES ASSUME Next, NEW p \in Projects, lock[p] # None, lock'[p] < lock[p]
               PROVE  \E r \in Runs : /\ pc[r] = "save" /\ pc'[r] = "done" /\ ProjectOf(r) = p
                                      /\ seen[r].lock # lock[p] \/ lock[p] \notin seen[r].allowed
    BY <1>1
  <2> USE DEF IInv, TypeOK
  <2>1. lock[p] \in Versions /\ lock[p] \in Nat /\ lock' # lock
    <3>1. lock[p] \in Versions
      BY <1>1
    <3>2. lock[p] \in Nat
      BY <3>1, LoaderAssumption
    <3>3. ~(lock[p] < lock[p])
      BY <3>2
    <3> QED
      BY <3>1, <3>2, <3>3
  <2>2. PICK r \in Runs : SaveLock(r)
    BY ZenonT(60), <2>1 DEF Next, Step, files, local, Begin, FindInstalled, FindCached, Wait, Fetch, FetchFails,
       Checkout, ClearOut, Unpack, StartCopy, Copy, CopyFails, RemoveOut, DiskFails, RemoveEntry, RemoveCopy, MakeLink,
       StartInstall, Install, InstallFails, Load, LoadFails,
       StartUpdate, Use, UseFails, WriteYAML, Crash, Publish
  <2>3. /\ pc[r] = "save" /\ pc'[r] = "done" /\ lock' = [lock EXCEPT ![ProjectOf(r)] = ver[r]]
    BY <1>1, <2>2 DEF SaveLock, At
  <2>4. ProjectOf(r) = p /\ ver[r] = lock'[p]
    BY <1>1, <2>1, <2>3
  <2>5. ver[r] \in Nat
    BY <1>1, <2>3, ChosenVersion, LoaderAssumption DEF Chosen, Loaded
  <2>6. ASSUME seen[r].lock = lock[p], lock[p] \in seen[r].allowed PROVE FALSE
    <3>1. ver[r] \in Fitting(r) /\ (LockOf(r) # None => ver[r] = LockOf(r))
      BY <1>1, <2>3 DEF LockDecides, Chosen, Loaded
    <3>2. CASE seen[r].exact = None
      <4>1. ver[r] = lock[p]
        BY <2>1, <2>6, <3>1, <3>2 DEF LockOf
      <4> QED
        BY <2>1, <2>4, <2>5, <4>1
    <3>3. CASE seen[r].exact # None
      <4>1. ver[r] = seen[r].exact /\ seen[r].lock < seen[r].exact
        BY <1>1, <2>6, <3>1, <3>3 DEF Fitting, UpdatesGoUp
      <4> QED
        BY <2>1, <2>4, <2>5, <2>6, <4>1
    <3> QED
      BY <3>2, <3>3
  <2> QED
    BY <2>3, <2>4, <2>6
<1> QED
  BY <1>1, Invariant, PTL DEF Spec, LockGoesBackOnlyIfStale, Back
-----------------------------------------------------------------------------
(* How long a run can go on *)

\* The order of the phases of one attempt.
Rank == [start |-> 21, installed |-> 20, cached |-> 19, wait |-> 18, fetch |-> 17, checkout |-> 16,
         clear |-> 15, unpack |-> 14, mkdir |-> 13, copy |-> 12, rmout |-> 11, remove |-> 10,
         removing |-> 9, link |-> 8, install |-> 7, read |-> 6, use |-> 5, yaml |-> 4, save |-> 3, done |-> 2, failed |-> 1, dead |-> 0]

\* A run has found its update, or begins another attempt (TypeOK: there are no more than
\* MaxAttempts), or is further in this one: nothing that can go on for ever.
Closer(r) ==
    \/ seen[r].exact = None /\ seen'[r].exact # None
    \/ seen'[r].exact = seen[r].exact /\ attempt[r] < attempt'[r]
    \/ /\ seen'[r].exact = seen[r].exact /\ attempt'[r] = attempt[r]
       /\ Rank[pc'[r]] < Rank[pc[r]]

\* Attempts are counted from the first download, and there is one update, which is
\* searched for neither among the installed versions nor in the cache.
Counted ==
    \A r \in Runs :
        /\ pc[r] \in {"start", "installed", "cached"} => attempt[r] = 0
        /\ seen[r].exact # None => pc[r] \notin {"start", "installed", "cached", "use"}

\* What the steps of a run do to its attempts.
Goes(r) ==
    /\ attempt'[r] = attempt[r] /\ seen'[r].exact = seen[r].exact
    /\ Rank[pc'[r]] < Rank[pc[r]] /\ pc'[r] # "start"
    /\ pc'[r] \in {"installed", "cached"} => pc[r] \in {"start", "installed"}
    /\ pc'[r] = "use" => seen[r].exact = None

Searches(r) ==
    /\ pc[r] = "cached" /\ pc'[r] \in {"fetch", "remove"} /\ attempt'[r] \in {0, 1}
    /\ seen'[r].exact = seen[r].exact

Retries(r) ==
    /\ pc'[r] = "wait" /\ attempt'[r] = attempt[r] + 1 /\ seen'[r].exact = seen[r].exact

Restarts(r) ==
    /\ pc[r] = "use" /\ pc'[r] = "fetch" /\ seen'[r].exact # None

\* A download that fails ends the run, or is tried again.
LEMMA FailureGoes ==
    ASSUME TypeOK, NEW r \in Runs, Failure(r), UNCHANGED seen,
           pc[r] \in Loading \ {"installed", "cached", "wait"}
    PROVE  Goes(r) \/ Retries(r)
<1> USE DEF TypeOK
<1>1. CASE pc' = [pc EXCEPT ![r] = "failed"] /\ UNCHANGED attempt
  BY <1>1 DEF Goes, Rank, Loading
<1>2. CASE pc' = [pc EXCEPT ![r] = "wait"] /\ attempt' = [attempt EXCEPT ![r] = attempt[r] + 1]
  BY <1>2 DEF Retries
<1> QED
  BY <1>1, <1>2 DEF Failure

LEMMA StepGoes ==
    ASSUME TypeOK, Counted, NEW r \in Runs, Begin(r) \/ Step(r) \/ Crash(r)
    PROVE  Goes(r) \/ Searches(r) \/ Retries(r) \/ Restarts(r)
<1> USE DEF TypeOK, At, files, local
<1>1. CASE Begin(r)
  <2>1. pc[r] = "start" /\ pc'[r] = "installed" /\ UNCHANGED attempt
    BY <1>1 DEF Begin
  <2>2. seen'[r].exact = None /\ seen[r].exact = None
    BY <1>1, <2>1 DEF Begin, Counted
  <2> QED
    BY <2>1, <2>2 DEF Goes, Rank
<1>2. CASE FindInstalled(r) \/ Wait(r) \/ Fetch(r)
  BY <1>2 DEF FindInstalled, Wait, Fetch, Goes, Rank
<1>3. CASE FindCached(r)
  BY <1>3 DEF FindCached, Searches
<1>4. CASE FetchFails(r) \/ CopyFails(r)
  BY <1>4, FailureGoes DEF FetchFails, CopyFails, Loading
<1>5. CASE Checkout(r)
  <2>1. CASE Failure(r)
    BY <1>5, <2>1, FailureGoes DEF Checkout, Loading
  <2>2. CASE ~Failure(r)
    BY <1>5, <2>2 DEF Checkout, Goes, Rank
  <2> QED
    BY <2>1, <2>2
<1>6. CASE Unpack(r)
  <2>1. CASE Failure(r)
    BY <1>6, <2>1, FailureGoes DEF Unpack, Loading
  <2>2. CASE ~Failure(r)
    BY <1>6, <2>2 DEF Unpack, Goes, Rank
  <2> QED
    BY <2>1, <2>2
<1>7. CASE ClearOut(r) \/ StartCopy(r) \/ Copy(r) \/ RemoveOut(r)
  BY <1>7 DEF ClearOut, StartCopy, Copy, RemoveOut, Goes, Rank
<1>8. CASE RemoveEntry(r) \/ RemoveCopy(r) \/ MakeLink(r)
  BY <1>8 DEF RemoveEntry, RemoveCopy, MakeLink, Goes, Rank
<1>13. CASE StartInstall(r) \/ Install(r) \/ Load(r)
  BY <1>13 DEF StartInstall, Install, Load, Goes, Rank
<1>9. CASE LoadFails(r) \/ DiskFails(r) \/ InstallFails(r)
  <2>1. CASE Failure(r)
    BY <1>9, <2>1, FailureGoes DEF LoadFails, DiskFails, InstallFails, Loading
  <2>2. CASE ~Failure(r)
    BY <1>9, <2>2 DEF LoadFails, DiskFails, InstallFails, LoadingFails, Goes, Rank
  <2> QED
    BY <2>1, <2>2
<1>10. CASE StartUpdate(r)
  <2>1. Newest(r) # None
    BY <1>10 DEF StartUpdate, Updates
  <2> QED
    BY <1>10, <2>1 DEF StartUpdate, Restarts
<1>11. CASE Use(r) \/ UseFails(r) \/ WriteYAML(r) \/ SaveLock(r)
  BY <1>11 DEF Use, UseFails, WriteYAML, SaveLock, Goes, Rank
<1>12. CASE Crash(r)
  BY <1>12 DEF Crash, Goes, Rank, Ended, Loading
<1> QED
  BY <1>1, <1>2, <1>3, <1>4, <1>5, <1>6, <1>7, <1>8, <1>9, <1>10, <1>11, <1>12, <1>13 DEF Step

\* A step of another run leaves a run where it is.
LEMMA OthersStand ==
    ASSUME TypeOK, NEW r \in Runs, NEW q \in Runs, q # r, Begin(q) \/ Step(q) \/ Crash(q)
    PROVE  UNCHANGED <<pc[r], attempt[r], seen[r]>>
<1> USE DEF TypeOK, At, Failure, LoadingFails, files, local
<1>1. CASE Begin(q) \/ FindInstalled(q) \/ FindCached(q) \/ Wait(q) \/ Fetch(q) \/ FetchFails(q)
  BY <1>1 DEF Begin, FindInstalled, FindCached, Wait, Fetch, FetchFails
<1>2. CASE Checkout(q) \/ ClearOut(q) \/ Unpack(q) \/ StartCopy(q) \/ Copy(q) \/ CopyFails(q)
  BY <1>2 DEF Checkout, ClearOut, Unpack, StartCopy, Copy, CopyFails
<1>3. CASE RemoveOut(q) \/ DiskFails(q) \/ RemoveEntry(q) \/ RemoveCopy(q) \/ MakeLink(q)
  BY <1>3 DEF RemoveOut, DiskFails, RemoveEntry, RemoveCopy, MakeLink
<1>5. CASE StartInstall(q) \/ Install(q) \/ InstallFails(q) \/ Load(q) \/ LoadFails(q)
  BY <1>5 DEF StartInstall, Install, InstallFails, Load, LoadFails
<1>4. CASE StartUpdate(q) \/ Use(q) \/ UseFails(q) \/ WriteYAML(q) \/ SaveLock(q) \/ Crash(q)
  BY <1>4 DEF StartUpdate, Use, UseFails, WriteYAML, SaveLock, Crash
<1> QED
  BY <1>1, <1>2, <1>3, <1>4, <1>5 DEF Step

\* In a step a run moves, or it is left where it is.
LEMMA RunMoves ==
    ASSUME TypeOK, Counted, [Next]_vars, NEW r \in Runs
    PROVE  \/ UNCHANGED <<pc[r], attempt[r], seen[r]>>
           \/ Goes(r) \/ Searches(r) \/ Retries(r) \/ Restarts(r)
<1>1. ASSUME NEW q \in Runs, Begin(q) \/ Step(q) \/ Crash(q)
      PROVE  \/ UNCHANGED <<pc[r], attempt[r], seen[r]>>
             \/ Goes(r) \/ Searches(r) \/ Retries(r) \/ Restarts(r)
  <2>1. CASE q = r
    BY <1>1, <2>1, StepGoes
  <2>2. CASE q # r
    BY <1>1, <2>2, OthersStand
  <2> QED
    BY <2>1, <2>2
<1>2. ASSUME (\E v \in Versions : Publish(v)) \/ UNCHANGED vars
      PROVE  UNCHANGED <<pc[r], attempt[r], seen[r]>>
  BY <1>2 DEF Publish, vars, local
<1> QED
  BY <1>1, <1>2 DEF Next

LEMMA CountedStep == TypeOK /\ Counted /\ [Next]_vars => Counted'
<1> SUFFICES ASSUME TypeOK, Counted, [Next]_vars, NEW r \in Runs
             PROVE  /\ pc'[r] \in {"start", "installed", "cached"} => attempt'[r] = 0
                    /\ seen'[r].exact # None => pc'[r] \notin {"start", "installed", "cached", "use"}
  BY DEF Counted
<1>1. CASE UNCHANGED <<pc[r], attempt[r], seen[r]>>
  BY <1>1 DEF Counted
<1>2. CASE Goes(r)
  BY <1>2 DEF Counted, Goes
<1>3. CASE Searches(r) \/ Retries(r) \/ Restarts(r)
  BY <1>3 DEF Counted, Searches, Retries, Restarts
<1> QED
  BY <1>1, <1>2, <1>3, RunMoves

\* Every step of a run brings it closer to its end, and no other run sends it back:
\* whatever fails, and whatever other runs do to the files, a run makes finitely many
\* steps, and its downloads are not tried again for ever.
THEOREM StepsAreFinite ==
    Spec => [][\A r \in Runs :
                  /\ Begin(r) \/ Step(r) => Closer(r)
                  /\ UNCHANGED <<pc[r], attempt[r], seen[r]>> \/ Closer(r)]_vars
<1> DEFINE Counts == \A r \in Runs :
                        /\ Begin(r) \/ Step(r) => Closer(r)
                        /\ UNCHANGED <<pc[r], attempt[r], seen[r]>> \/ Closer(r)
<1>1. ASSUME IInv, Counted, [Next]_vars PROVE [Counts]_vars
  <2> SUFFICES ASSUME Next, NEW r \in Runs
               PROVE  /\ Begin(r) \/ Step(r) => Closer(r)
                      /\ UNCHANGED <<pc[r], attempt[r], seen[r]>> \/ Closer(r)
    BY <1>1
  <2>1. ASSUME Goes(r) PROVE Closer(r)
    BY <2>1 DEF Goes, Closer
  <2>2. ASSUME Searches(r) PROVE Closer(r)
    <3>1. attempt[r] = 0
      BY <1>1, <2>2 DEF Counted, Searches
    <3> QED
      BY <2>2, <3>1 DEF Searches, Closer, Rank
  <2>3. ASSUME Retries(r) PROVE Closer(r)
    <3>1. attempt[r] \in Nat
      BY <1>1 DEF IInv, TypeOK
    <3> QED
      BY <2>3, <3>1 DEF Retries, Closer
  <2>4. ASSUME Restarts(r) PROVE Closer(r)
    BY <1>1, <2>4 DEF Restarts, Closer, Counted
  <2>5. Begin(r) \/ Step(r) => Closer(r)
    BY <1>1, <2>1, <2>2, <2>3, <2>4, StepGoes DEF IInv
  <2>6. UNCHANGED <<pc[r], attempt[r], seen[r]>> \/ Closer(r)
    BY <1>1, <2>1, <2>2, <2>3, <2>4, RunMoves DEF IInv
  <2> QED
    BY <2>5, <2>6
<1>2. Init => Counted
  BY DEF Init, Counted
<1>3. IInv /\ Counted /\ [Next]_vars => Counted'
  BY CountedStep DEF IInv
<1> QED
  BY <1>1, <1>2, <1>3, Invariant, PTL DEF Spec
=============================================================================
