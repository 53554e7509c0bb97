------------------------- MODULE PlanAndApply_proofs -------------------------
(***************************************************************************)
(* One call of planAndApply: what its plugins have recorded when it is     *)
(* over, and the order of its groups and stages, for any plugins,          *)
(* priorities and faults.                                                  *)
(***************************************************************************)
EXTENDS PlanAndApply, WellFoundedInduction, TLAPS

\* The first of a set of priorities.
LEMMA LeastExists ==
    ASSUME NEW S, S \subseteq Nat, S # {}
    PROVE  Min(S) \in S /\ \A x \in S : Min(S) <= x
<1> DEFINE Less == {ss \in Nat \X Nat : ss[1] < ss[2]}
<1>1. IsWellFoundedOn(Less, Nat)
  BY NatLessThanWellFounded DEF OpToRel
<1> HIDE DEF Less
<1>2. PICK x \in S : \A y \in S : <<y, x>> \notin Less
  BY <1>1, WFMin
<1>3. ASSUME NEW y \in S PROVE x <= y
  <2>1. <<y, x>> \in Nat \X Nat /\ <<y, x>>[1] = y /\ <<y, x>>[2] = x
    OBVIOUS
  <2>2. ~ (y < x)
    BY <1>2, <2>1 DEF Less
  <2> QED
    BY <2>2
<1> QED
  BY <1>3 DEF Min

\* The groups are visited in order: the first one is below all others, and there is
\* none between a group and the next.
LEMMA GroupOrder ==
    /\ Prios \subseteq Nat
    /\ Min(Prios) \in Prios /\ \A g \in Prios : Min(Prios) <= g
    /\ group \in Prios /\ ~LastGroup =>
          /\ NextGroup \in Prios /\ NextGroup > group
          /\ \A g \in Prios : g > group => g >= NextGroup
<1>1. Prios \subseteq Nat /\ Prios # {}
  BY PluginAssumption DEF Prios
<1>2. Min(Prios) \in Prios /\ \A g \in Prios : Min(Prios) <= g
  BY <1>1, LeastExists
<1>3. ASSUME group \in Prios, ~LastGroup
      PROVE  /\ NextGroup \in Prios /\ NextGroup > group
             /\ \A g \in Prios : g > group => g >= NextGroup
  <2> DEFINE later == {g \in Prios : g > group}
  <2>1. later # {} /\ later \subseteq Nat
    <3>1. PICK g \in Prios : ~ (g <= group)
      BY <1>3 DEF LastGroup
    <3>2. g > group
      BY <1>1, <1>3, <3>1
    <3> QED
      BY <1>1, <3>2
  <2>2. Min(later) \in later /\ \A g \in later : Min(later) <= g
    BY <2>1, LeastExists
  <2>3. Min(later) \in Nat
    BY <2>1, <2>2
  <2> QED
    BY <1>1, <2>2, <2>3 DEF NextGroup
<1> QED
  BY <1>1, <1>2, <1>3

\* Every resource has a deploy plugin, and the group it is in is one of that plugin.
LEMMA Owners ==
    /\ \A r \in Resources : /\ OwnerOf[r] \in Plugins /\ OwnerOf[r] \in AllPlugins
                            /\ PrioOf[r] \in Priority[OwnerOf[r]] /\ PrioOf[r] \in Prios
    /\ \A p \in AllPlugins : Own(p) # {} => p \in Plugins /\ Priority[p] # {}
    /\ \A p \in Plugins : Priority[p] \subseteq Prios
<1>1. \A r \in Resources : /\ OwnerOf[r] \in Plugins /\ OwnerOf[r] \in AllPlugins
                           /\ PrioOf[r] \in Priority[OwnerOf[r]] /\ PrioOf[r] \in Prios
  BY PluginAssumption DEF Prios, AllPlugins
<1> QED
  BY <1>1 DEF Own, Prios

\* Who is called in which stage.
LEMMA CalledIn ==
    ASSUME NEW s \in Stages, NEW g
    PROVE  /\ Called(s, g) \subseteq AllPlugins
           /\ s \in {"plan", "apply"} => Called(s, g) = {p \in Plugins : g \in Priority[p]}
           /\ s \notin CallStages => Called(s, g) = {}
  BY DEF Called, AllPlugins, Stages, CallStages, PlanStages, ApplyStages

-----------------------------------------------------------------------------
(* Types *)

\* No step takes a variable out of its type.
LEMMA TypeStep == IInv /\ [Next]_vars => TypeOK'
<1> SUFFICES ASSUME IInv, [Next]_vars PROVE TypeOK'
  OBVIOUS
<1> USE DEF IInv, TypeOK, At
<1>1. ASSUME NEW p \in AllPlugins, ReadState(p) \/ Answer(p) \/ Fails(p) \/ Lock(p) \/ Merge(p)
      PROVE  TypeOK'
  BY <1>1 DEF ReadState, Answer, Fails, Lock, Merge
<1>2. ASSUME NEW p \in AllPlugins, NEW done \in SUBSET Work(p)
      PROVE  With(cloud, done) \subseteq Resources /\ With(held[p], done) \subseteq Resources
  BY <1>2, PluginAssumption DEF With, Work, Own
<1>3. ASSUME NEW p \in AllPlugins, ApplyEnds(p) PROVE TypeOK'
  BY <1>2, <1>3 DEF ApplyEnds
<1>4. ASSUME NEW p \in AllPlugins, ApplyBreaks(p) PROVE TypeOK'
  BY <1>2, <1>4 DEF ApplyBreaks, Group, Own
<1>5. ASSUME NEW s \in Stages, NEW g \in Prios, Enter(s, g)
      PROVE  stage' \in Stages /\ group' \in Prios /\ calls' \in [AllPlugins -> {"reading", "ended"}]
  BY <1>5 DEF Enter
<1>6. CASE RaceCrash \/ PlanNext \/ ApplyGroup \/ ApplyNext \/ PostDeployed
  <2>1. \E s \in Stages, g \in Prios : Enter(s, g)
    BY <1>6, GroupOrder DEF RaceCrash, PlanNext, ApplyGroup, ApplyNext, PostDeployed, Stages,
       CallStages, PlanStages, ApplyStages
  <2>2. UNCHANGED <<held, mu, err, outcome, cloud, rec, entries, lost>>
    BY <1>6 DEF RaceCrash, PlanNext, ApplyGroup, ApplyNext, PostDeployed
  <2> QED
    BY <1>5, <2>1, <2>2
<1>7. CASE Approve \/ MergePlanned
  <2>1. \E s \in Stages, g \in Prios : Enter(s, g)
    BY <1>7, GroupOrder DEF Approve, MergePlanned, Stages, CallStages, ApplyStages
  <2>2. /\ UNCHANGED <<held, mu, err, cloud, rec, lost>> /\ entries' \subseteq Resources
        /\ outcome' \in {outcome, "apply"}
    BY <1>7, PluginAssumption DEF Approve, MergePlanned
  <2> QED
    BY <1>5, <2>1, <2>2
<1>8. CASE PlanFailed \/ MissingLocks \/ SkipsApply
  <2>1. /\ stage' \in Stages /\ outcome' \in {outcome, "missing", "empty", "apply", "canceled"}
        /\ UNCHANGED <<group, calls, held, mu, err, cloud, rec, entries, lost>>
    BY <1>8 DEF PlanFailed, MissingLocks, SkipsApply, Stages
  <2> QED
    BY <2>1
<1>9. CASE UNCHANGED vars
  BY <1>9 DEF vars
<1> QED
  BY <1>1, <1>3, <1>4, <1>6, <1>7, <1>8, <1>9 DEF Next

-----------------------------------------------------------------------------
(* The goroutines of a stage *)

\* The invariant, and what the stages after the apply may rely on.
Inv == IInv /\ AppliedBeforeDNS

\* A goroutine that reads, answers outside the apply, fails or waits changes no record and nothing
\* that is deployed.
LEMMA QuietStep ==
    ASSUME Inv, NEW p \in AllPlugins, ReadState(p) \/ Answer(p) \/ Fails(p) \/ Lock(p)
    PROVE  Running' /\ Prompted' /\ Answers' /\ Exact' /\ GroupsDone' /\ AppliedBeforeDNS'
<1> USE DEF Inv, IInv, TypeOK, At
<1>1. /\ UNCHANGED <<stage, group, outcome, cloud, rec, lost>>
      /\ \A q \in AllPlugins \ {p} : calls'[q] = calls[q] /\ held'[q] = held[q]
      /\ calls[p] # "ended"
  BY DEF ReadState, Answer, Fails, Lock
<1>2. Running' /\ Prompted' /\ AppliedBeforeDNS'
  BY <1>1 DEF Running, Prompted, AppliedBeforeDNS
<1>3. Answers'
  <2>1. CASE ReadState(p)
    BY <1>1, <2>1 DEF Answers, ReadState
  <2>2. CASE Answer(p)
    BY <1>1, <2>2 DEF Answers, Answer
  <2>3. CASE Fails(p) \/ Lock(p)
    BY <1>1, <2>3 DEF Answers, Fails, Lock
  <2> QED
    BY <2>1, <2>2, <2>3
<1>4. ASSUME NEW q \in Plugins, Looked(q)' PROVE Looked(q)
  <2>1. CASE Fails(p)
    BY <1>1, <1>4, <2>1 DEF Looked, Fails
  <2>2. CASE ReadState(p) \/ Answer(p) \/ Lock(p)
    <3>1. UNCHANGED err /\ (calls'[q] = "ended" => calls[q] = "ended")
      BY <2>2 DEF ReadState, Answer, Lock, AllPlugins
    <3> QED
      BY <1>1, <1>4, <3>1 DEF Looked
  <2> QED
    BY <2>1, <2>2
<1>5. stage = "apply" => UNCHANGED err /\ (ReadState(p) \/ Lock(p))
  BY DEF Fails, Answer, ReadState, Lock
<1>6. \A q \in AllPlugins : stage = "apply" =>
        /\ calls[q] \in {"answered", "merging"} <=> calls'[q] \in {"answered", "merging"}
        /\ calls[q] \in {"reading", "called"} <=> calls'[q] \in {"reading", "called"}
  BY <1>1, <1>5 DEF ReadState, Lock
<1>7. Exact'
  BY <1>1, <1>4, <1>6 DEF Exact, Recorded, AllPlugins
<1>8. err = TRUE => err' = TRUE
  BY DEF ReadState, Answer, Fails, Lock
<1>9. GroupsDone'
  <2>1. (~err)' => ~err
    BY <1>8
  <2> QED
    BY <1>1, <1>5, <1>6, <2>1, Owners DEF GroupsDone, Recorded
<1> QED
  BY <1>2, <1>3, <1>7, <1>9

\* A merge makes the plugin's record exact where its answer is.
LEMMA MergeStep ==
    ASSUME Inv, NEW p \in AllPlugins, Merge(p)
    PROVE  Running' /\ Prompted' /\ Answers' /\ Exact' /\ GroupsDone' /\ AppliedBeforeDNS'
<1> USE DEF Inv, IInv, TypeOK, At
<1>1. /\ UNCHANGED <<stage, group, held, err, outcome, cloud, lost>>
      /\ \A q \in AllPlugins \ {p} : calls'[q] = calls[q] /\ rec'[q] = rec[q]
      /\ calls[p] = "merging" /\ calls'[p] = "ended" /\ rec'[p] = held[p]
  BY DEF Merge
<1>2. Running' /\ Prompted' /\ AppliedBeforeDNS'
  BY <1>1 DEF Running, Prompted, AppliedBeforeDNS
<1>3. Answers'
  BY <1>1, Owners DEF Answers, Own
<1>4. ASSUME NEW r \in Own(p) \ lost, p \in Plugins, Looked(p)', stage # "crashed"
      PROVE  r \in rec'[p] <=> r \in cloud
  <2>1. CASE stage = "apply" \/ (stage = "plan" /\ Verify)
    BY <1>1, <1>4, <2>1 DEF Answers
  <2>2. CASE ~ (stage = "apply" \/ (stage = "plan" /\ Verify))
    BY <1>1, <1>4, <2>2 DEF Answers, Exact, Looked, Recorded, Own
  <2> QED
    BY <2>1, <2>2
<1>5. ASSUME NEW q \in Plugins \ {p}, Looked(q)' PROVE Looked(q)
  BY <1>1, <1>5 DEF Looked, AllPlugins
<1>6. Exact'
  <2>1. \A q \in Plugins : \A r \in Own(q) : OwnerOf[r] = q
    BY DEF Own
  <2> QED
    BY <1>1, <1>4, <1>5, <2>1 DEF Exact, Recorded, AllPlugins
<1>7. GroupsDone'
  <2> SUFFICES ASSUME stage = "apply", NEW r \in Resources \ lost
               PROVE  /\ PrioOf[r] # group => Recorded(r)'
                      /\ /\ ~err /\ PrioOf[r] <= group
                         /\ PrioOf[r] = group => calls'[OwnerOf[r]] \notin {"reading", "called"}
                         => (r \in cloud <=> r \in Planned)
    BY <1>1 DEF GroupsDone
  <2>1. CASE OwnerOf[r] = p
    BY <1>1, <2>1 DEF GroupsDone, Answers, Recorded, Own
  <2>2. CASE OwnerOf[r] # p
    BY <1>1, <2>2, Owners DEF GroupsDone, Recorded
  <2> QED
    BY <2>1, <2>2
<1> QED
  BY <1>2, <1>3, <1>6, <1>7

\* What a plugin may do in the apply: to its own resources of the group.
LEMMA WorkDone ==
    ASSUME Inv, NEW p \in AllPlugins, stage = "apply", calls[p] = "called",
           NEW done \in SUBSET Work(p)
    PROVE  /\ p \in Plugins /\ p \in Called(stage, group) /\ done \subseteq Own(p)
           /\ \A r \in done : PrioOf[r] = group /\ OwnerOf[r] = p
           /\ \A q \in AllPlugins \ {p} : With(cloud, done) \cap Own(q) = cloud \cap Own(q)
           /\ \A r \in Resources \ done : r \in With(cloud, done) <=> r \in cloud
           /\ With(held[p], done) \subseteq Own(p)
           /\ \A r \in Own(p) \ lost : /\ r \in held[p] <=> r \in cloud
                                       /\ r \in With(held[p], done) <=> r \in With(cloud, done)
<1> USE DEF Inv, IInv, TypeOK
<1>1. p \in Called(stage, group) /\ p \in Plugins
  BY CalledIn DEF Running
<1>2. done \subseteq Own(p) /\ \A r \in done : PrioOf[r] = group /\ OwnerOf[r] = p
  BY DEF Work, Own
<1>3. ASSUME NEW r \in Own(p) \ lost PROVE r \in held[p] <=> r \in cloud
  <2>1. Looked(p)
    BY DEF Looked, Prompted, ApplyStages
  <2>2. Recorded(r) /\ OwnerOf[r] = p
    BY <1>1, <1>3, <2>1 DEF Exact, Own
  <2> QED
    BY <1>3, <2>2 DEF Answers, Recorded
<1>4. held[p] \subseteq Own(p)
  BY DEF Answers
<1> QED
  BY <1>1, <1>2, <1>3, <1>4 DEF With, Own

\* A plugin that ends its apply has answered with what it has deployed.
LEMMA ApplyEndsStep ==
    ASSUME Inv, NEW p \in AllPlugins, ApplyEnds(p)
    PROVE  Running' /\ Prompted' /\ Answers' /\ Exact' /\ GroupsDone' /\ AppliedBeforeDNS'
<1> USE DEF Inv, IInv, TypeOK, At
<1>1. PICK done \in SUBSET Work(p), breaks \in BOOLEAN :
          /\ err' = (err \/ breaks \/ done # Work(p))
          /\ cloud' = With(cloud, done)
          /\ held' = [held EXCEPT ![p] = With(@, done)]
  BY DEF ApplyEnds
<1>2. /\ stage = "apply" /\ calls[p] = "called" /\ calls' = [calls EXCEPT ![p] = "answered"]
      /\ UNCHANGED <<stage, group, mu, outcome, rec, entries, lost>>
  BY DEF ApplyEnds
<1>3. /\ p \in Plugins /\ p \in Called(stage, group) /\ done \subseteq Own(p)
      /\ \A r \in done : PrioOf[r] = group /\ OwnerOf[r] = p
      /\ \A q \in AllPlugins \ {p} : cloud' \cap Own(q) = cloud \cap Own(q)
      /\ \A r \in Resources \ done : r \in cloud' <=> r \in cloud
      /\ held'[p] \subseteq Own(p)
      /\ \A r \in Own(p) \ lost :
            (r \in held[p] <=> r \in cloud) /\ (r \in held'[p] <=> r \in cloud')
  <2>1. held'[p] = With(held[p], done)
    BY <1>1
  <2>2. /\ With(held[p], done) \subseteq Own(p)
        /\ \A r \in Own(p) \ lost : /\ r \in held[p] <=> r \in cloud
                                    /\ r \in With(held[p], done) <=> r \in With(cloud, done)
    BY <1>2, WorkDone
  <2>3. /\ p \in Plugins /\ p \in Called(stage, group) /\ done \subseteq Own(p)
        /\ \A r \in done : PrioOf[r] = group /\ OwnerOf[r] = p
        /\ \A q \in AllPlugins \ {p} : cloud' \cap Own(q) = cloud \cap Own(q)
        /\ \A r \in Resources \ done : r \in cloud' <=> r \in cloud
    BY <1>1, <1>2, WorkDone
  <2>4. /\ held'[p] \subseteq Own(p)
        /\ \A r \in Own(p) \ lost :
              (r \in held[p] <=> r \in cloud) /\ (r \in held'[p] <=> r \in cloud')
    BY <1>1, <2>1, <2>2
  <2> QED
    BY <2>3, <2>4
<1>4. Running' /\ Prompted' /\ AppliedBeforeDNS'
  BY <1>2 DEF Running, Prompted, AppliedBeforeDNS
<1>5. Answers'
  <2>1. \A q \in AllPlugins \ {p} : held'[q] = held[q] /\ calls'[q] = calls[q]
    BY <1>1, <1>2
  <2> QED
    BY <1>2, <1>3, <2>1 DEF Answers, Own
<1>6. Exact'
  <2>1. \A q \in Plugins \ {p} : calls'[q] = calls[q] /\ Looked(q)
    BY <1>2 DEF Looked, Prompted, ApplyStages, AllPlugins
  <2> QED
    BY <1>2, <1>3, <2>1 DEF Exact, Recorded, Own, AllPlugins
<1>7. (~err)' => ~err /\ done = Work(p)
  BY <1>1
<1>8. ASSUME NEW r \in Resources \ lost, PrioOf[r] # group
      PROVE  r \in cloud' <=> r \in rec[OwnerOf[r]]
  BY <1>2, <1>3, <1>8 DEF GroupsDone, Recorded
<1>9. ASSUME NEW r \in Resources \ lost, (~err)', PrioOf[r] <= group,
             PrioOf[r] = group => calls'[OwnerOf[r]] \notin {"reading", "called"}
      PROVE  r \in cloud' <=> r \in Planned
  <2>1. CASE PrioOf[r] = group /\ OwnerOf[r] = p
    <3>1. r \in Own(p)
      BY <2>1 DEF Own
    <3>2. r \in done <=> ~ (r \in Planned <=> r \in held[p])
      BY <1>7, <1>9, <2>1, <3>1 DEF Work
    <3>3. r \in held[p] <=> r \in cloud
      BY <1>3, <3>1
    <3>4. r \in done => (r \in cloud' <=> r \in Planned)
      BY <1>1 DEF With
    <3> QED
      BY <1>3, <3>2, <3>3, <3>4
  <2>2. CASE PrioOf[r] # group \/ OwnerOf[r] # p
    <3>1. r \notin done
      BY <1>3, <2>2
    <3>2. PrioOf[r] = group => calls[OwnerOf[r]] \notin {"reading", "called"}
      BY <1>2, <1>9, <2>2, Owners
    <3>3. r \in cloud <=> r \in Planned
      BY <1>2, <1>7, <1>9, <3>2 DEF GroupsDone
    <3> QED
      BY <1>3, <3>1, <3>3
  <2> QED
    BY <2>1, <2>2
<1>10. GroupsDone'
  BY <1>2, <1>7, <1>8, <1>9 DEF GroupsDone, Recorded
<1> QED
  BY <1>4, <1>5, <1>6, <1>10

\* When a stream ends without an answer, the resources of its call are lost; what is
\* recorded of the others stays as it is.
LEMMA ApplyBreaksStep ==
    ASSUME Inv, NEW p \in AllPlugins, ApplyBreaks(p)
    PROVE  Running' /\ Prompted' /\ Answers' /\ Exact' /\ GroupsDone' /\ AppliedBeforeDNS'
<1> USE DEF Inv, IInv, TypeOK, At
<1>1. PICK done \in SUBSET Work(p) : cloud' = With(cloud, done)
  BY DEF ApplyBreaks
<1>2. /\ stage = "apply" /\ calls[p] = "called" /\ calls' = [calls EXCEPT ![p] = "ended"]
      /\ UNCHANGED <<stage, group, held, mu, outcome, rec, entries>>
      /\ err' \in {err, TRUE} /\ lost' = lost \cup Group(p)
  BY DEF ApplyBreaks
<1>3. /\ p \in Plugins /\ done \subseteq Own(p)
      /\ \A r \in done : PrioOf[r] = group /\ OwnerOf[r] = p
      /\ \A q \in AllPlugins \ {p} : cloud' \cap Own(q) = cloud \cap Own(q)
      /\ \A r \in Resources \ done : r \in cloud' <=> r \in cloud
  BY <1>1, <1>2, WorkDone
<1>4. Running' /\ Prompted' /\ AppliedBeforeDNS'
  BY <1>2 DEF Running, Prompted, AppliedBeforeDNS
<1>5. /\ lost \subseteq lost' /\ done \subseteq lost'
      /\ \A r \in Own(p) : PrioOf[r] = group => r \in lost'
  BY <1>2, <1>3 DEF Group
<1>6. Answers'
  <2>1. \A q \in AllPlugins \ {p} : calls'[q] = calls[q]
    BY <1>2
  <2>2. \A q \in AllPlugins : \A r \in Own(q) \ lost' : r \in cloud' <=> r \in cloud
    BY <1>3, <1>5 DEF Own
  <2> QED
    BY <1>2, <1>5, <2>1, <2>2 DEF Answers
<1>7. Exact'
  <2>1. \A q \in Plugins : Looked(q) /\ (q # p => calls'[q] = calls[q])
    BY <1>2 DEF Looked, Prompted, ApplyStages, AllPlugins
  <2>2. \A r \in Resources \ lost' : r \in cloud' <=> r \in cloud
    BY <1>3, <1>5
  <2> QED
    BY <1>2, <1>5, <2>1, <2>2 DEF Exact, Recorded, Own, AllPlugins
<1>8. GroupsDone'
  <2> SUFFICES ASSUME NEW r \in Resources \ lost'
               PROVE  /\ PrioOf[r] # group => Recorded(r)'
                      /\ /\ (~err)' /\ PrioOf[r] <= group
                         /\ PrioOf[r] = group => calls'[OwnerOf[r]] \notin {"reading", "called"}
                         => (r \in cloud' <=> r \in Planned)
    BY <1>2 DEF GroupsDone
  <2>1. /\ r \notin lost /\ (r \in cloud' <=> r \in cloud) /\ ((~err)' => ~err)
        /\ PrioOf[r] = group => OwnerOf[r] # p
    BY <1>2, <1>3, <1>5 DEF Own
  <2> QED
    BY <1>2, <2>1, Owners DEF GroupsDone, Recorded
<1> QED
  BY <1>4, <1>6, <1>7, <1>8

-----------------------------------------------------------------------------
(* From stage to stage *)

\* A stage starts with goroutines that have read nothing yet, for the plugins it calls.
LEMMA EnterStage ==
    ASSUME Inv, NEW s \in Stages, NEW g \in Prios, Enter(s, g), UNCHANGED <<rec, held>>
    PROVE  /\ Running' /\ Answers' /\ stage' = s /\ group' = g
           /\ \A q \in AllPlugins : calls'[q] = IF q \in Called(s, g) THEN "reading" ELSE "ended"
<1> USE DEF Inv, IInv, TypeOK
<1>1. /\ stage' = s /\ group' = g
      /\ \A q \in AllPlugins : calls'[q] = IF q \in Called(s, g) THEN "reading" ELSE "ended"
  BY DEF Enter
<1>2. Running'
  BY <1>1 DEF Running
<1>3. Answers'
  BY <1>1 DEF Answers
<1> QED
  BY <1>1, <1>2, <1>3

\* No goroutine runs while planAndApply prompts, merges or has ended.
LEMMA Idle == Inv /\ (Returned \/ stage \notin CallStages) => \A q \in AllPlugins : calls[q] = "ended"
  BY CalledIn DEF Inv, IInv, TypeOK, Running, Returned

\* A record is exact at the end of a stage if its plugin has looked at the cloud.
LEMMA ExactWhenIdle ==
    ASSUME Inv, stage # "crashed", Returned \/ stage \notin CallStages,
           NEW q \in Plugins, Looked(q)
    PROVE  \A r \in Own(q) \ lost : Recorded(r)
  BY Idle DEF Inv, IInv, Exact, AllPlugins

\* A plan stage looks at the cloud, for the plugins of its groups, before the prompt.
LEMMA PlanNextStep ==
    ASSUME Inv, PlanNext
    PROVE  Running' /\ Prompted' /\ Answers' /\ Exact' /\ GroupsDone' /\ AppliedBeforeDNS'
<1> USE DEF Inv, IInv, TypeOK
<1>1. /\ stage \in PlanStages /\ Returned /\ err = FALSE /\ stage # "crashed"
      /\ UNCHANGED <<held, mu, err, outcome, cloud, rec, entries, lost>>
      /\ outcome = "none" /\ \A q \in AllPlugins : calls[q] = "ended"
  BY Idle DEF PlanNext, Prompted, PlanStages
<1>2. PICK s \in {"plan", "planDNS", "planMonitoring", "prompt"}, g \in Prios :
          /\ Enter(s, g)
          /\ \/ stage = "prePlan" /\ s = "plan" /\ g = Min(Prios)
             \/ stage = "plan" /\ s = "plan" /\ ~LastGroup /\ g = NextGroup
             \/ stage = "plan" /\ s = "planDNS" /\ LastGroup
             \/ stage = "planDNS" /\ s = "planMonitoring"
             \/ stage = "planMonitoring" /\ s = "prompt"
  BY <1>1, GroupOrder DEF PlanNext, PlanStages
<1>3. s \in Stages
  BY DEF Stages, CallStages, PlanStages
<1>4. /\ Running' /\ Answers' /\ stage' = s /\ group' = g
      /\ \A q \in AllPlugins : calls'[q] = IF q \in Called(s, g) THEN "reading" ELSE "ended"
  BY <1>1, <1>2, <1>3, EnterStage
<1>5. Prompted' /\ AppliedBeforeDNS'
  BY <1>1, <1>4 DEF Prompted, AppliedBeforeDNS, ApplyStages
<1>6. ASSUME NEW q \in Plugins, Looked(q)' PROVE \A r \in Own(q) \ lost : Recorded(r)
  <2>0. q \in AllPlugins /\ Priority[q] \subseteq Prios /\ Priority[q] \subseteq Nat
    BY GroupOrder, Owners DEF AllPlugins
  <2>1. CASE stage = "prePlan" /\ s = "plan" /\ g = Min(Prios)
    <3>1. ASSUME NEW h \in Priority[q], h < g \/ (h = g /\ calls'[q] = "ended") PROVE FALSE
      <4>1. h >= g /\ h \in Nat /\ g \in Nat
        BY <2>0, <2>1, GroupOrder
      <4>2. h = g /\ calls'[q] = "ended"
        BY <3>1, <4>1
      <4>3. q \in Called(s, g)
        BY <1>3, <2>1, <4>2, CalledIn
      <4> QED
        BY <1>4, <2>0, <4>2, <4>3
    <3>2. Looked(q)
      BY <1>1, <1>4, <1>6, <2>1, <3>1 DEF Looked
    <3> QED
      BY <1>1, <3>2, ExactWhenIdle
  <2>2. CASE stage = "plan" /\ s = "plan" /\ ~LastGroup /\ g = NextGroup
    <3>1. ASSUME NEW h \in Priority[q], h < g \/ (h = g /\ calls'[q] = "ended") PROVE h <= group
      <4>1. /\ group \in Nat /\ g \in Nat /\ h \in Nat
            /\ h > group => h >= g
        BY <2>0, <2>2, GroupOrder
      <4>2. CASE h = g /\ calls'[q] = "ended"
        <5>1. q \in Called(s, g)
          BY <1>3, <2>2, <4>2, CalledIn
        <5> QED
          BY <1>4, <2>0, <4>2, <5>1
      <4>3. CASE h < g
        BY <4>1, <4>3
      <4> QED
        BY <3>1, <4>2, <4>3
    <3>2. Verify => \E h \in Priority[q] : h <= group
      BY <1>1, <1>4, <1>6, <2>2, <3>1 DEF Looked
    <3>3. Looked(q)
      <4>1. \A h \in Priority[q] : h <= group => h < group \/ h = group
        BY <2>0, GroupOrder
      <4> QED
        BY <1>1, <2>0, <2>2, <3>2, <4>1 DEF Looked
    <3> QED
      BY <1>1, <3>3, ExactWhenIdle
  <2>3. CASE stage = "plan" /\ s = "planDNS" /\ LastGroup
    <3>1. CASE Priority[q] = {}
      <4>1. Own(q) = {}
        BY <2>0, <3>1, Owners
      <4> QED
        BY <4>1
    <3>2. CASE Priority[q] # {}
      <4>1. \A h \in Priority[q] : h < group \/ h = group
        BY <2>0, <2>3, GroupOrder DEF LastGroup
      <4>2. Looked(q)
        BY <1>1, <2>0, <2>3, <3>2, <4>1 DEF Looked
      <4> QED
        BY <1>1, <4>2, ExactWhenIdle
    <3> QED
      BY <3>1, <3>2
  <2>4. CASE (stage = "planDNS" /\ s = "planMonitoring") \/ (stage = "planMonitoring" /\ s = "prompt")
    <3>1. Looked(q)
      BY <2>4 DEF Looked
    <3> QED
      BY <1>1, <3>1, ExactWhenIdle
  <2> QED
    BY <1>2, <2>1, <2>2, <2>3, <2>4
<1>7. Exact'
  BY <1>1, <1>6 DEF Exact, Recorded
<1>8. GroupsDone'
  BY <1>1, <1>2, <1>4 DEF GroupsDone
<1> QED
  BY <1>4, <1>5, <1>7, <1>8

\* The prompt, the merge, and what ends a run.
LEMMA PromptStep ==
    ASSUME Inv, \/ RaceCrash \/ PlanFailed \/ MissingLocks \/ SkipsApply \/ Approve
                \/ MergePlanned \/ PostDeployed
    PROVE  Running' /\ Prompted' /\ Answers' /\ Exact' /\ GroupsDone' /\ AppliedBeforeDNS'
<1> USE DEF Inv, IInv, TypeOK
<1>1. UNCHANGED <<held, mu, err, cloud, rec, lost>>
  BY DEF RaceCrash, PlanFailed, MissingLocks, SkipsApply, Approve, MergePlanned, PostDeployed
<1>2. CASE PlanFailed \/ MissingLocks \/ SkipsApply
  <2>1. /\ UNCHANGED <<group, calls>> /\ \A q \in AllPlugins : calls[q] = "ended"
        /\ stage \in PlanStages \cup {"prompt"} /\ stage' \in {"merge", "end"}
        /\ stage' = "merge" => outcome' # "none"
        /\ stage = "prompt" \/ (stage \in PlanStages /\ UNCHANGED outcome)
    BY <1>2, Idle DEF PlanFailed, MissingLocks, SkipsApply, CallStages, PlanStages, ApplyStages
  <2>2. Running' /\ Prompted' /\ Answers' /\ GroupsDone' /\ AppliedBeforeDNS'
    BY <1>1, <2>1 DEF Running, Prompted, Answers, GroupsDone, AppliedBeforeDNS, PlanStages, ApplyStages
  <2>3. ASSUME NEW q \in Plugins, Looked(q)' PROVE Looked(q)
    BY <2>1, <2>3 DEF Looked, Prompted
  <2>4. Exact'
    BY <1>1, <2>1, <2>3 DEF Exact, Recorded, PlanStages, AllPlugins
  <2> QED
    BY <2>2, <2>4
<1>3. CASE RaceCrash
  <2>1. Enter("crashed", group) /\ "crashed" \in Stages
    BY <1>3 DEF RaceCrash, Stages
  <2>2. Running' /\ Answers' /\ stage' = "crashed"
    BY <1>1, <2>1, EnterStage
  <2> QED
    BY <1>1, <2>2 DEF Prompted, Exact, GroupsDone, AppliedBeforeDNS, PlanStages, ApplyStages
<1>4. CASE Approve \/ MergePlanned \/ PostDeployed
  <2>1. PICK s \in {"preApply", "end", "postDeploy"}, g \in Prios : Enter(s, g)
    BY <1>4, GroupOrder DEF Approve, MergePlanned, PostDeployed
  <2>2. s \in Stages
    BY DEF Stages, CallStages, ApplyStages
  <2>3. Running' /\ Answers' /\ stage' = s
    BY <1>1, <2>1, <2>2, EnterStage
  <2>4. stage \in {"prompt", "merge", "postDeploy"} /\ (Returned \/ stage \notin CallStages)
    BY <1>4 DEF Approve, MergePlanned, PostDeployed, CallStages, PlanStages, ApplyStages
  <2>5. outcome' # "none"
    BY <1>4 DEF Approve, MergePlanned, PostDeployed, Prompted
  <2>6. \A q \in Plugins : Looked(q)
    BY <2>4 DEF Looked, Prompted
  <2>7. Exact'
    BY <1>1, <2>4, <2>6, ExactWhenIdle DEF Exact, Recorded
  <2> QED
    BY <1>1, <2>3, <2>5, <2>7 DEF Prompted, GroupsDone, AppliedBeforeDNS, PlanStages, ApplyStages
<1> QED
  BY <1>2, <1>3, <1>4

\* A group is applied when the groups before it are done; DNS, monitoring and the
\* last hooks when all are.
LEMMA ApplyNextStep ==
    ASSUME Inv, ApplyGroup \/ ApplyNext
    PROVE  Running' /\ Prompted' /\ Answers' /\ Exact' /\ GroupsDone' /\ AppliedBeforeDNS'
<1> USE DEF Inv, IInv, TypeOK
<1>1. /\ stage \in ApplyStages /\ Returned /\ stage # "crashed" /\ outcome # "none"
      /\ UNCHANGED <<held, mu, err, outcome, cloud, rec, entries, lost>>
      /\ \A q \in AllPlugins : calls[q] = "ended"
  BY Idle DEF ApplyGroup, ApplyNext, Prompted, ApplyStages
<1>2. PICK s \in ApplyStages \cup {"merge"}, g \in Prios :
          /\ Enter(s, g)
          /\ \/ stage = "apply" /\ s = "apply" /\ ~LastGroup /\ g = NextGroup
             \/ stage = "preApply" /\ s = "apply" /\ g = Min(Prios)
             \/ stage = "apply" /\ s = "applyDNS" /\ LastGroup /\ err = FALSE
             \/ stage = "applyDNS" /\ s = "applyMonitoring"
             \/ stage = "applyMonitoring" /\ s = "postApply"
             \/ s = "merge"
  BY <1>1, GroupOrder DEF ApplyGroup, ApplyNext, ApplyStages
<1>3. s \in Stages
  BY DEF Stages, CallStages, ApplyStages
<1>4. /\ Running' /\ Answers' /\ stage' = s /\ group' = g
      /\ \A q \in AllPlugins : calls'[q] = IF q \in Called(s, g) THEN "reading" ELSE "ended"
  BY <1>1, <1>2, <1>3, EnterStage
<1>5. Prompted'
  BY <1>1, <1>4 DEF Prompted, ApplyStages, PlanStages
<1>6. \A q \in Plugins : \A r \in Own(q) \ lost : Recorded(r)
  BY <1>1, ExactWhenIdle DEF Looked
<1>7. Exact'
  BY <1>1, <1>6 DEF Exact, Recorded
<1>8. ASSUME NEW r \in Resources \ lost, s = "apply", err = FALSE, PrioOf[r] <= g,
             PrioOf[r] = g => calls'[OwnerOf[r]] \notin {"reading", "called"}
      PROVE  r \in cloud <=> r \in Planned
  <2>1. /\ OwnerOf[r] \in AllPlugins /\ OwnerOf[r] \in Plugins /\ PrioOf[r] \in Priority[OwnerOf[r]]
        /\ PrioOf[r] \in Prios /\ PrioOf[r] \in Nat /\ g \in Nat /\ group \in Nat
    BY GroupOrder, Owners
  <2>2. PrioOf[r] # g
    <3> SUFFICES ASSUME PrioOf[r] = g PROVE FALSE
      OBVIOUS
    <3>1. OwnerOf[r] \in Called(s, g)
      BY <1>3, <1>8, <2>1, CalledIn
    <3> QED
      BY <1>4, <1>8, <2>1, <3>1
  <2>3. ~LastGroup /\ g = NextGroup /\ stage = "apply"
    BY <1>2, <1>8, <2>1, <2>2, GroupOrder
  <2>4. PrioOf[r] <= group
    BY <1>8, <2>1, <2>2, <2>3, GroupOrder
  <2> QED
    BY <1>1, <1>8, <2>1, <2>3, <2>4 DEF GroupsDone
<1>9. GroupsDone'
  <2>1. \A r \in Resources \ lost : Recorded(r)
    BY <1>6, Owners DEF Own
  <2> QED
    BY <1>1, <1>4, <1>8, <2>1 DEF GroupsDone, Recorded
<1>10. AppliedBeforeDNS'
  <2>1. CASE s = "applyDNS"
    <3>1. stage = "apply" /\ LastGroup /\ err = FALSE
      BY <1>2, <2>1 DEF ApplyStages
    <3>2. \A r \in Resources : PrioOf[r] <= group /\ OwnerOf[r] \in AllPlugins
      BY <3>1, Owners DEF LastGroup
    <3>3. \A r \in Resources \ lost : r \in cloud <=> r \in Planned
      BY <1>1, <3>1, <3>2 DEF GroupsDone
    <3> QED
      BY <1>1, <3>3 DEF AppliedBeforeDNS
  <2>2. CASE s # "applyDNS"
    BY <1>1, <1>2, <1>4, <2>2 DEF AppliedBeforeDNS
  <2> QED
    BY <2>1, <2>2
<1> QED
  BY <1>4, <1>5, <1>7, <1>9, <1>10

-----------------------------------------------------------------------------
(* The theorems *)

\* A run starts in the invariant: what is recorded is what is deployed, or the run verifies.
LEMMA InitInv == Init => Inv
<1> SUFFICES ASSUME Init PROVE Inv
  OBVIOUS
<1>1. PICK known \in IF Verify THEN SUBSET Resources ELSE {cloud} :
          rec = [p \in AllPlugins |-> known \cap Own(p)]
  BY DEF Init
<1>2. known \subseteq Resources /\ (~Verify => known = cloud)
  BY <1>1 DEF Init
<1>3. /\ stage = "prePlan" /\ group = Min(Prios) /\ group \in Prios
      /\ calls = [p \in AllPlugins |-> IF p \in Hooks THEN "reading" ELSE "ended"]
      /\ held = [p \in AllPlugins |-> {}]
      /\ mu = None /\ err = FALSE /\ outcome = "none"
      /\ cloud \subseteq Resources /\ entries = {} /\ lost = {}
  BY GroupOrder DEF Init
<1>4. TypeOK
  BY <1>1, <1>2, <1>3 DEF TypeOK, Stages, CallStages, PlanStages
<1>5. Running
  BY <1>3 DEF Running, Called
<1>6. Exact
  BY <1>1, <1>2, <1>3 DEF Exact, Recorded, Own, Looked, AllPlugins
<1> QED
  BY <1>1, <1>3, <1>4, <1>5, <1>6 DEF Inv, IInv, Prompted, Answers, GroupsDone, AppliedBeforeDNS,
     ApplyStages

\* Every step keeps the invariant.
LEMMA InvStep == Inv /\ [Next]_vars => Inv'
<1> SUFFICES ASSUME Inv, [Next]_vars PROVE Inv'
  OBVIOUS
<1>1. TypeOK'
  BY TypeStep DEF Inv
<1>2. Next => Running' /\ Prompted' /\ Answers' /\ Exact' /\ GroupsDone' /\ AppliedBeforeDNS'
  BY QuietStep, MergeStep, ApplyEndsStep, ApplyBreaksStep, PlanNextStep, PromptStep,
     ApplyNextStep DEF Next
<1>3. UNCHANGED vars =>
          Running' /\ Prompted' /\ Answers' /\ Exact' /\ GroupsDone' /\ AppliedBeforeDNS'
  <2> SUFFICES ASSUME UNCHANGED vars
               PROVE  Running' /\ Prompted' /\ Answers' /\ Exact' /\ GroupsDone' /\ AppliedBeforeDNS'
    OBVIOUS
  <2> USE DEF Inv, IInv, vars
  <2>1. Running' /\ Prompted' /\ AppliedBeforeDNS'
    BY DEF Running, Prompted, AppliedBeforeDNS
  <2>2. Answers' /\ GroupsDone'
    BY DEF Answers, GroupsDone, Recorded
  <2>3. Exact'
    BY DEF Exact, Recorded, Looked
  <2> QED
    BY <2>1, <2>2, <2>3
<1> QED
  BY <1>1, <1>2, <1>3 DEF Inv, IInv

\* The stages come in order: a group is applied after the groups before it have
\* recorded what they did, DNS and what follows after every change is made; but for
\* the groups that a plugin left without a last answer.
THEOREM GroupsAndStages == Spec => []StagesInOrder
<1>1. Inv => StagesInOrder
  <2> SUFFICES ASSUME Inv, stage = "apply", NEW r \in Resources \ lost, PrioOf[r] < group
               PROVE  Recorded(r)
    BY DEF Inv, StagesInOrder, GroupsInOrder
  <2>1. PrioOf[r] # group
    BY GroupOrder, Owners DEF Inv, IInv, TypeOK
  <2> QED
    BY <2>1 DEF Inv, IInv, GroupsDone
<1> QED
  BY <1>1, InitInv, InvStep, PTL DEF Spec

\* Whatever fails, and in whatever order the answers come, every resource is recorded
\* as it is deployed when planAndApply returns a result, unless the call of Apply for
\* it ended without a last answer.
THEOREM RecordsAreExact == Spec => []AllRecorded
<1>1. Inv => AllRecorded
  <2> SUFFICES ASSUME Inv, stage = "end", outcome # "none", NEW r \in Resources \ lost
               PROVE  Recorded(r)
    BY DEF AllRecorded
  <2>1. OwnerOf[r] \in Plugins /\ r \in Own(OwnerOf[r]) \ lost
    BY Owners DEF Own
  <2> QED
    BY <2>1 DEF Inv, IInv, Exact, Looked
<1> QED
  BY <1>1, InitInv, InvStep, PTL DEF Spec
=============================================================================
