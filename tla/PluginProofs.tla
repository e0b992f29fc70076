----------------------------- MODULE PluginProofs -----------------------------
(***************************************************************************)
(* Server plugins, for any finite set of them: who may be disposed of when,*)
(* and that nobody fails for nothing; and their channels, for any number:  *)
(* frames arrive, admissions cover what they admit, and shutdown is over   *)
(* when it says so.                                                        *)
(***************************************************************************)
EXTENDS PluginRuntime, PluginChannels, FiniteSetTheorems, SequenceTheorems, TLAPS

-----------------------------------------------------------------------------
(* Lifetimes: the order of starting *)

Works(p) == lifecycle[p] \in {"active", "disposing"}

\* activePlugins lists once each plugin that works, every one behind those that it requires.
OrderIsTruthful ==
  /\ \A p \in Plugin : Works(p) <=> \E i \in DOMAIN order : order[i] = p
  /\ \A i, j \in DOMAIN order : i # j => order[i] # order[j]
  /\ \A i \in DOMAIN order : \A q \in needs[order[i]] \ {Late} :
       \E j \in DOMAIN order : j < i /\ order[j] = q

\* Plugins start while the daemon is brought up, and are disposed of when it stops, one at a
\* time and the last one first.
PhasesAreKept ==
  /\ boot = "staging" => \A p \in Plugin : lifecycle[p] \in {"listed", "staged", "rejected"}
  /\ boot \in {"early", "waiting", "late", "up"} => \A p \in Plugin : lifecycle[p] # "listed"
  /\ BringingUp => todo \subseteq Staged
  /\ boot # "stopping" => \A p \in Plugin : lifecycle[p] \notin {"disposing", "gone"}
  /\ \A p \in Plugin : lifecycle[p] = "disposing" => order # <<>> /\ order[Len(order)] = p

LifetimesInv == PluginsTypeOK /\ PhasesAreKept /\ OrderIsTruthful

\* In a truthful order the providers of what works are active.
LEMMA OrderProtects == LifetimesInv => ProvidersOutliveDependents
<1> SUFFICES ASSUME LifetimesInv,
                    NEW p \in Plugin, Works(p), NEW q \in needs[p] \ {Late}
             PROVE  lifecycle[q] = "active"
  BY DEF ProvidersOutliveDependents, Works
<1> USE DEF LifetimesInv
<1>1. q \in Plugin
  BY DEF PluginsTypeOK
<1>2. PICK i \in DOMAIN order : order[i] = p
  BY DEF OrderIsTruthful
<1>3. PICK j \in DOMAIN order : j < i /\ order[j] = q
  BY <1>2 DEF OrderIsTruthful
<1>4. Works(q)
  BY <1>1, <1>3 DEF OrderIsTruthful
<1>5. lifecycle[q] # "disposing"
  <2>1. order \in Seq(Plugin) /\ i \in 1..Len(order) /\ j \in 1..Len(order)
    BY <1>2, <1>3 DEF PluginsTypeOK
  <2>2. j # Len(order)
    BY <2>1, <1>3
  <2>3. order[j] # order[Len(order)]
    BY <2>1, <2>2 DEF OrderIsTruthful
  <2> QED
    BY <1>1, <1>3, <2>3 DEF PhasesAreKept
<1> QED
  BY <1>4, <1>5 DEF Works

LEMMA LifetimesInit == PluginsInit => LifetimesInv
<1> SUFFICES ASSUME PluginsInit PROVE LifetimesInv
  OBVIOUS
<1>1. PluginsTypeOK
  <2>1. order \in Seq(Plugin) /\ progressed = FALSE
    BY DEF PluginsInit
  <2>2. /\ lifecycle \in [Plugin -> {"listed"}] /\ needs \in [Plugin -> {{}}] /\ boot = "staging"
        /\ providers = {} /\ todo = {} /\ faulty = {}
    BY DEF PluginsInit
  <2> QED BY <2>1, <2>2 DEF PluginsTypeOK
<1>2. PhasesAreKept
  BY DEF PluginsInit, PhasesAreKept, BringingUp
<1>3. OrderIsTruthful
  BY DEF PluginsInit, OrderIsTruthful, Works
<1> QED
  BY <1>1, <1>2, <1>3 DEF LifetimesInv

\* A step that leaves order alone, stages or fails plugins that do not work, and changes what
\* is required only by them.
LEMMA OrderStays ==
  ASSUME LifetimesInv, UNCHANGED order,
         \A p \in Plugin : Works(p) => lifecycle'[p] = lifecycle[p] /\ needs'[p] = needs[p],
         \A p \in Plugin : ~Works(p) => lifecycle'[p] \notin {"active", "disposing"}
  PROVE  OrderIsTruthful'
<1>1. \A p \in Plugin : Works(p)' <=> Works(p)
  BY DEF Works
<1>2. \A i \in DOMAIN order : order[i] \in Plugin /\ Works(order[i])
  BY DEF LifetimesInv, PluginsTypeOK, OrderIsTruthful
<1> QED
  BY <1>1, <1>2 DEF LifetimesInv, OrderIsTruthful

\* A step that fails some of those that are staged.
LEMMA FailingKeepsLifetimes ==
  ASSUME LifetimesInv, BringingUp, NEW F \in SUBSET Staged, FailBeforeStart(F),
         faulty' \in SUBSET Plugin
  PROVE  LifetimesInv'
<1> USE DEF LifetimesInv, FailBeforeStart, Staged, BringingUp
<1>1. PluginsTypeOK'
  BY DEF PluginsTypeOK
<1>2. PhasesAreKept'
  BY DEF PhasesAreKept, PluginsTypeOK
<1>3. OrderIsTruthful'
  BY OrderStays DEF Works, PluginsTypeOK
<1> QED
  BY <1>1, <1>2, <1>3

LEMMA StartingKeepsLifetimes ==
  ASSUME LifetimesInv, NEW p \in Plugin, StartStagedPlugin(p)
  PROVE  LifetimesInv'
<1> USE DEF LifetimesInv
<1>1. /\ BringingUp /\ p \in Staged
      /\ lifecycle' = [lifecycle EXCEPT ![p] = "active"] /\ order' = Append(order, p)
      /\ todo' = todo \ {p} /\ progressed' = TRUE
      /\ UNCHANGED <<boot, needs, providers, faulty>>
  BY DEF StartStagedPlugin, LookAt, PhasesAreKept
<1>2. order \in Seq(Plugin) /\ order' \in Seq(Plugin)
  BY <1>1 DEF PluginsTypeOK
<1>3. PluginsTypeOK'
  BY <1>1, <1>2 DEF PluginsTypeOK
<1>4. PhasesAreKept'
  BY <1>1 DEF PhasesAreKept, PluginsTypeOK, BringingUp, Staged
<1>5. \A q \in needs[p] \ {Late} : q \in Plugin /\ lifecycle[q] = "active"
  BY DEF StartStagedPlugin, Waiting, PluginsTypeOK
<1>6. ~Works(p)
  BY <1>1 DEF Staged, Works
<1>7. /\ Len(order') = Len(order) + 1 /\ order'[Len(order) + 1] = p
      /\ \A i \in 1..Len(order) : order'[i] = order[i]
      /\ Len(order) \in Nat /\ DOMAIN order = 1..Len(order) /\ DOMAIN order' = 1..Len(order')
  BY <1>1, <1>2
<1>8. OrderIsTruthful'
  <2>1. \A q \in Plugin : Works(q)' <=> Works(q) \/ q = p
    BY <1>1 DEF Works, PluginsTypeOK
  <2>2. \A q \in Plugin : Works(q)' <=> \E i \in DOMAIN order' : order'[i] = q
    BY <1>7, <2>1 DEF OrderIsTruthful
  <2>3. \A i, j \in DOMAIN order' : i # j => order'[i] # order'[j]
    BY <1>6, <1>7 DEF OrderIsTruthful
  <2>4. ASSUME NEW i \in DOMAIN order', NEW q \in needs'[order'[i]] \ {Late}
        PROVE  \E j \in DOMAIN order' : j < i /\ order'[j] = q
    <3>1. CASE i \in 1..Len(order)
      <4>1. PICK j \in DOMAIN order : j < i /\ order[j] = q
        BY <1>1, <1>7, <2>4, <3>1 DEF OrderIsTruthful
      <4> QED BY <1>7, <4>1
    <3>2. CASE i = Len(order) + 1
      <4>1. q \in Plugin /\ Works(q)
        BY <1>1, <1>5, <1>7, <2>4, <3>2 DEF Works
      <4>2. PICK j \in DOMAIN order : order[j] = q
        BY <4>1 DEF OrderIsTruthful
      <4> QED BY <1>7, <3>2, <4>2
    <3> QED BY <1>7, <3>1, <3>2
  <2> QED BY <2>2, <2>3, <2>4 DEF OrderIsTruthful
<1> QED
  BY <1>3, <1>4, <1>8

LEMMA DisposingKeepsLifetimes ==
  ASSUME LifetimesInv, NEW p \in Plugin, DisposeReturns(p)
  PROVE  LifetimesInv'
<1> USE DEF LifetimesInv
<1>1. /\ lifecycle[p] = "disposing" /\ order # <<>> /\ p = order[Len(order)]
      /\ lifecycle' = [lifecycle EXCEPT ![p] = "gone"]
      /\ order' = SubSeq(order, 1, Len(order) - 1)
      /\ boot = "stopping" /\ UNCHANGED <<boot, needs, providers, todo, progressed, faulty>>
  BY DEF DisposeReturns, PhasesAreKept
<1>2. order \in Seq(Plugin) /\ Len(order) \in Nat \ {0} /\ DOMAIN order = 1..Len(order)
  BY <1>1 DEF PluginsTypeOK
<1>3. /\ order' \in Seq(Plugin) /\ Len(order') = Len(order) - 1
      /\ DOMAIN order' = 1..(Len(order) - 1)
      /\ \A i \in 1..(Len(order) - 1) : order'[i] = order[i]
  <2>1. \A i \in 1..(Len(order) - 1) : order[i] \in Plugin
    BY <1>2
  <2> QED
    BY <1>1, <1>2, <2>1, SubSeqProperties, 1 \in Int, Len(order) - 1 \in Int
<1>4. PluginsTypeOK'
  BY <1>1, <1>3 DEF PluginsTypeOK
<1>5. \A q \in Plugin : lifecycle'[q] # "disposing"
  BY <1>1 DEF PhasesAreKept, PluginsTypeOK
<1>6. PhasesAreKept'
  BY <1>1, <1>5 DEF PhasesAreKept, PluginsTypeOK, BringingUp
<1>7. OrderIsTruthful'
  <2>1. \A q \in Plugin : Works(q)' <=> Works(q) /\ q # p
    BY <1>1 DEF Works, PluginsTypeOK
  <2>2. \A q \in Plugin : Works(q)' <=> \E i \in DOMAIN order' : order'[i] = q
    <3> SUFFICES ASSUME NEW q \in Plugin
                 PROVE  Works(q)' <=> \E i \in DOMAIN order' : order'[i] = q
      OBVIOUS
    <3>1. Works(q) <=> \E i \in 1..Len(order) : order[i] = q
      BY <1>2 DEF OrderIsTruthful
    <3>2. \A i \in 1..(Len(order) - 1) : order[i] # p
      BY <1>1, <1>2 DEF OrderIsTruthful
    <3>3. CASE q = p
      BY <1>3, <2>1, <3>2, <3>3
    <3>4. CASE q # p
      <4>1. Works(q)' <=> \E i \in 1..(Len(order) - 1) : order[i] = q
        BY <1>1, <1>2, <2>1, <3>1, <3>4
      <4> QED BY <1>3, <4>1
    <3> QED BY <3>3, <3>4
  <2>3. \A i, j \in DOMAIN order' : i # j => order'[i] # order'[j]
    BY <1>2, <1>3 DEF OrderIsTruthful
  <2>4. ASSUME NEW i \in DOMAIN order', NEW q \in needs'[order'[i]] \ {Late}
        PROVE  \E j \in DOMAIN order' : j < i /\ order'[j] = q
    <3>1. PICK j \in DOMAIN order : j < i /\ order[j] = q
      BY <1>1, <1>2, <1>3, <2>4 DEF OrderIsTruthful
    <3> QED BY <1>2, <1>3, <3>1
  <2> QED BY <2>2, <2>3, <2>4 DEF OrderIsTruthful
<1> QED
  BY <1>4, <1>6, <1>7

\* Every step keeps the order and the phases.
LEMMA LifetimesNext == LifetimesInv /\ [PluginsNext]_pluginVars => LifetimesInv'
<1> SUFFICES ASSUME LifetimesInv, [PluginsNext]_pluginVars PROVE LifetimesInv'
  OBVIOUS
<1> USE DEF LifetimesInv
<1>1. ASSUME NEW p \in Plugin, StageEntry(p) PROVE LifetimesInv'
  <2>1. PluginsTypeOK'
    BY <1>1 DEF StageEntry, PluginsTypeOK
  <2>2. PhasesAreKept'
    BY <1>1 DEF StageEntry, PhasesAreKept, PluginsTypeOK, BringingUp
  <2>3. OrderIsTruthful'
    BY <1>1, OrderStays DEF StageEntry, Works, PluginsTypeOK
  <2> QED BY <2>1, <2>2, <2>3
<1>2. ASSUME NEW p \in Plugin, RejectEntry(p) PROVE LifetimesInv'
  <2>1. PluginsTypeOK'
    BY <1>2 DEF RejectEntry, PluginsTypeOK
  <2>2. PhasesAreKept'
    BY <1>2 DEF RejectEntry, PhasesAreKept, PluginsTypeOK, BringingUp
  <2>3. OrderIsTruthful'
    BY <1>2, OrderStays DEF RejectEntry, Works, PluginsTypeOK
  <2> QED BY <2>1, <2>2, <2>3
<1>3. ASSUME NEW p \in Plugin, FailDependent(p) PROVE LifetimesInv'
  BY <1>3, FailingKeepsLifetimes
     DEF FailDependent, LookAt, PhasesAreKept, PluginsTypeOK
<1>4. ASSUME NEW p \in Plugin, StartThrows(p) PROVE LifetimesInv'
  BY <1>4, FailingKeepsLifetimes
     DEF StartThrows, LookAt, PhasesAreKept, PluginsTypeOK
<1>5. CASE GiveUp
  <2>1. PICK F \in Hopeless : \E G \in SUBSET F : FailBeforeStart(G)
    BY <1>5 DEF GiveUp
  <2>2. F \subseteq Staged
    BY DEF Hopeless, Cycles, LateProviders
  <2> QED BY <1>5, <2>1, <2>2, FailingKeepsLifetimes DEF GiveUp, PluginsTypeOK
<1>6. ASSUME NEW p \in Plugin, StartStagedPlugin(p) PROVE LifetimesInv'
  BY <1>6, StartingKeepsLifetimes
<1>7. ASSUME NEW p \in Plugin, DisposeReturns(p) PROVE LifetimesInv'
  BY <1>7, DisposingKeepsLifetimes
<1>8. ASSUME NEW p \in Plugin, PassOver(p) PROVE LifetimesInv'
  <2>1. PluginsTypeOK' /\ PhasesAreKept'
    BY <1>8 DEF PassOver, PluginsTypeOK, PhasesAreKept, Staged, BringingUp
  <2> QED BY <1>8, <2>1, OrderStays DEF PassOver, Works
<1>9. ASSUME NEW p \in Plugin, DisposeStaged(p) PROVE LifetimesInv'
  <2>1. PluginsTypeOK' /\ PhasesAreKept'
    BY <1>9 DEF DisposeStaged, PluginsTypeOK, PhasesAreKept, BringingUp
  <2> QED BY <1>9, <2>1, OrderStays DEF DisposeStaged, Works, PluginsTypeOK
<1>10. ASSUME NEW p \in Plugin, DisposeActive(p) PROVE LifetimesInv'
  <2>1. PluginsTypeOK' /\ PhasesAreKept'
    BY <1>10 DEF DisposeActive, PluginsTypeOK, PhasesAreKept, BringingUp
  <2>2. Works(p) /\ \A q \in Plugin : Works(q)' <=> Works(q)
    BY <1>10 DEF DisposeActive, Works, PluginsTypeOK, OrderIsTruthful
  <2> QED BY <1>10, <2>1, <2>2 DEF DisposeActive, OrderIsTruthful
<1>11. CASE BeginStarting \/ AnotherRound \/ ResumeStaged
  <2>1. PluginsTypeOK' /\ PhasesAreKept'
    BY <1>11 DEF BeginStarting, AnotherRound, ResumeStaged, PluginsTypeOK, PhasesAreKept, Staged,
                 BringingUp
  <2> QED BY <1>11, <2>1, OrderStays DEF BeginStarting, AnotherRound, ResumeStaged, Works
<1>12. CASE EarlyEnds \/ LateEnds \/ StopPlugins
  <2>1. PluginsTypeOK' /\ PhasesAreKept'
    BY <1>12 DEF EarlyEnds, LateEnds, StopPlugins, PluginsTypeOK, PhasesAreKept, BringingUp
  <2> QED BY <1>12, <2>1, OrderStays DEF EarlyEnds, LateEnds, StopPlugins, Works
<1>13. CASE UNCHANGED pluginVars
  BY <1>13 DEF pluginVars, PluginsTypeOK, PhasesAreKept, OrderIsTruthful, Works, Staged, BringingUp
<1> QED
  BY <1>1, <1>2, <1>3, <1>4, <1>5, <1>6, <1>7, <1>8, <1>9, <1>10, <1>11, <1>12, <1>13
     DEF PluginsNext

LEMMA LifetimesAlways == PluginsSpec => []LifetimesInv
<1> QED BY LifetimesInit, LifetimesNext, PTL DEF PluginsSpec

\* A plugin that works or is being disposed of can use those it requires.
THEOREM ProvidersAreThere == PluginsSpec => []ProvidersOutliveDependents
<1> QED BY LifetimesAlways, OrderProtects, PTL

-----------------------------------------------------------------------------
(* Failures *)

\* What was looked at in a round that has come to nothing still waits.
PassedOver ==
  BringingUp /\ ~progressed => \A p \in Staged \ todo : Waiting(p) /\ ~Unavailable(p)

FailuresInv == LifetimesInv /\ PassedOver /\ NobodyFailsForNothing

\* A reason for which p may fail without a fault of its own.
Excused(p) ==
  \/ \E q \in needs[p] \ {Late} : lifecycle[q] \in {"rejected", "failed"}
  \/ p \in Upstream(p)
  \/ p \in providers /\ \E q \in Upstream(p) \cup {p} : Late \in needs[q]

\* If each of S requires another of S, some of them are a cycle.
LEMMA CyclesExist ==
  ASSUME NEW S \in SUBSET Plugin, S # {}, \A p \in S : needs[p] \cap S # {}
  PROVE  \E C \in SUBSET S : IsCycle(C)
<1> DEFINE next == [p \in S |-> CHOOSE q \in S : q \in needs[p]]
           Closed == {C \in SUBSET S : C # {} /\ \A p \in C : next[p] \in C}
           O == StrictSubsetOrdering(S)
<1>1. \A p \in S : next[p] \in S /\ next[p] \in needs[p]
  OBVIOUS
<1> HIDE DEF next
<1>2. S \in Closed
  BY <1>1
<1>3. Closed \subseteq FiniteSubsetsOf(S)
  BY PluginAssumption, FS_Subset DEF FiniteSubsetsOf
<1>4. IsWellFoundedOn(O, FiniteSubsetsOf(S))
  BY FS_StrictSubsetOrderingWellFounded
<1>5. PICK C \in Closed : \A D \in Closed : ~ (<<D, C>> \in O)
  <2> HIDE DEF Closed, O
  <2> QED BY <1>2, <1>3, <1>4, WFMin
<1>6. \A D \in SUBSET C : D \in Closed => D = C
  <2> SUFFICES ASSUME NEW D \in SUBSET C, D \in Closed, D # C PROVE FALSE
    OBVIOUS
  <2>1. <<D, C>> \in O
    BY DEF StrictSubsetOrdering
  <2> QED BY <1>5, <2>1
<1>7. IsCycle(C)
  <2> DEFINE g == [p \in C |-> next[p]]
  <2>1. g \in [C -> C] /\ C # {} /\ C \subseteq S
    BY <1>5
  <2>2. \A p \in C : g[p] \in needs[p]
    BY <1>1, <2>1
  <2>3. \A D \in SUBSET C : D # {} /\ (\A p \in D : g[p] \in D) => D = C
    BY <1>6, <2>1
  <2> HIDE DEF g
  <2> QED BY <2>1, <2>2, <2>3 DEF IsCycle
<1> QED
  BY <1>5, <1>7

\* What p and those upstream of it require is upstream of p.
LEMMA UpstreamIsClosed ==
  ASSUME PluginsTypeOK, NEW p \in Plugin, NEW q \in Upstream(p) \cup {p},
         NEW r \in needs[q] \ {Late}
  PROVE  r \in Upstream(p)
<1>1. q \in Plugin /\ r \in Plugin
  BY DEF Upstream, PluginsTypeOK
<1>2. ASSUME NEW S \in SUBSET Plugin, \A t \in S \cup {p} : needs[t] \ {Late} \subseteq S
      PROVE  r \in S
  <2>1. q \in S \cup {p}
    BY <1>2 DEF Upstream
  <2> QED BY <1>2, <2>1
<1> QED
  BY <1>1, <1>2 DEF Upstream

\* The members of a cycle require themselves in the end.
LEMMA CyclesExcuse ==
  ASSUME PluginsTypeOK, NEW C \in Cycles, NEW p \in C
  PROVE  Excused(p)
<1>1. C \subseteq Plugin /\ Late \notin C
  BY LateAssumption DEF Cycles, Staged
<1>2. PICK next \in [C -> C] :
        /\ \A q \in C : next[q] \in needs[q]
        /\ \A S \in SUBSET C : S # {} /\ (\A q \in S : next[q] \in S) => S = C
  BY DEF Cycles, IsCycle
<1> DEFINE U == C \cap Upstream(p)
<1>3. \A q \in U \cup {p} : next[q] \in U
  BY <1>1, <1>2, UpstreamIsClosed
<1>4. U \in SUBSET C /\ U # {}
  BY <1>3
<1>5. U = C
  BY <1>2, <1>3, <1>4
<1> QED
  BY <1>5 DEF Excused

\* A workspace provider that findLateHostDependency names is behind what comes late.
LEMMA LatenessExcuses ==
  ASSUME PluginsTypeOK, NEW p \in LateProviders
  PROVE  Excused(p)
<1> DEFINE S == {q \in Staged : q \in Upstream(p) \cup {p}}
<1>1. p \in Plugin /\ p \in providers /\ ReachesLate(p) /\ p \in Staged
  BY DEF LateProviders, Staged
<1>2. ASSUME NEW q \in S, NEW r \in needs[q] \cap Staged PROVE r \in S
  <2>1. r # Late
    BY LateAssumption DEF Staged
  <2>2. r \in Upstream(p)
    BY <1>1, <2>1, UpstreamIsClosed
  <2> QED BY <2>2
<1>3. S \in SUBSET Staged /\ p \in S
  BY <1>1
<1>4. \E q \in S : Late \in needs[q]
  BY <1>1, <1>2, <1>3 DEF ReachesLate
<1> QED
  BY <1>1, <1>4 DEF Excused

\* After a round that has come to nothing, somebody waits for himself or all are behind what
\* comes late: the last resort of failing the first of the rest is never taken.
LEMMA NoLastResort ==
  ASSUME LifetimesInv, PassedOver, BringingUp, todo = {}, ~progressed, Cycles = {}
  PROVE  IF boot = "early" THEN \A p \in Staged : ReachesLate(p) ELSE Staged = {}
<1>1. \A p \in Staged : Waiting(p) /\ ~Unavailable(p)
  BY DEF PassedOver
<1>2. ASSUME NEW S \in SUBSET Staged, S # {},
             \A p \in S : needs[p] \cap Staged \subseteq S /\ (boot = "early" => Late \notin needs[p])
      PROVE  FALSE
  <2>1. ASSUME NEW p \in S PROVE needs[p] \cap S # {}
    <3>1. PICK q \in needs[p] : IF q = Late THEN boot = "early" ELSE lifecycle[q] # "active"
      BY <1>1 DEF Waiting
    <3>2. q # Late /\ lifecycle[q] # "active"
      BY <1>2, <3>1
    <3>3. q \in Plugin /\ lifecycle[q] = "staged"
      BY <1>1, <3>1, <3>2 DEF Unavailable, Declared
    <3> QED BY <1>2, <3>1, <3>3 DEF Staged
  <2>2. S \in SUBSET Plugin
    BY DEF Staged
  <2>3. PICK C \in SUBSET S : IsCycle(C)
    BY <1>2, <2>1, <2>2, CyclesExist
  <2> QED BY <2>3 DEF Cycles
<1>3. CASE boot = "early"
  <2>1. ASSUME NEW p \in Staged, ~ReachesLate(p) PROVE FALSE
    <3>1. PICK S \in SUBSET Staged :
            /\ p \in S /\ \A q \in S : needs[q] \cap Staged \subseteq S
            /\ ~ \E q \in S : Late \in needs[q]
      BY <2>1 DEF ReachesLate
    <3> QED BY <1>2, <3>1
  <2> QED BY <1>3, <2>1
<1>4. CASE boot # "early"
  BY <1>2, <1>4
<1> QED
  BY <1>3, <1>4


\* Those that had failed stay excused by any step that leaves what was required and who failed.
LEMMA ExcusesLast ==
  ASSUME NEW p \in Plugin, Excused(p), UNCHANGED <<needs, providers>>, PluginsTypeOK,
         \A q \in Plugin : lifecycle[q] \in {"rejected", "failed"} => lifecycle'[q] = lifecycle[q]
  PROVE  Excused(p)'
<1>1. Upstream(p)' = Upstream(p)
  BY DEF Upstream
<1> QED
  BY <1>1 DEF Excused, PluginsTypeOK

LEMMA NobodyFailsMeans ==
  NobodyFailsForNothing <=>
    \A p \in Plugin : lifecycle[p] = "failed" /\ p \notin faulty => Excused(p)
<1> QED BY DEF NobodyFailsForNothing, Excused

\* A step that fails those of F who have an excuse.
LEMMA FailingIsExcused ==
  ASSUME FailuresInv, BringingUp, NEW F \in SUBSET Staged, FailBeforeStart(F),
         faulty \subseteq faulty', faulty' \in SUBSET Plugin,
         \A p \in F \ faulty' : Excused(p)
  PROVE  FailuresInv'
<1>1. LifetimesInv' /\ PassedOver'
  BY FailingKeepsLifetimes DEF FailuresInv, FailBeforeStart, PassedOver
<1>2. NobodyFailsForNothing'
  <2>1. ASSUME NEW p \in Plugin, lifecycle'[p] = "failed", p \notin faulty'
        PROVE  Excused(p)'
    <3>1. Excused(p)
      BY <2>1, NobodyFailsMeans DEF FailBeforeStart, FailuresInv
    <3> QED
      BY <3>1, ExcusesLast DEF FailBeforeStart, FailuresInv, LifetimesInv, PluginsTypeOK, Staged
  <2> QED BY <2>1 DEF NobodyFailsForNothing, Excused
<1> QED
  BY <1>1, <1>2 DEF FailuresInv

LEMMA FailuresInit == PluginsInit => FailuresInv
<1> QED
  BY LifetimesInit DEF PluginsInit, FailuresInv, PassedOver, BringingUp, NobodyFailsForNothing

\* A step that fails nobody while what is required stays.
LEMMA OthersAreExcused ==
  ASSUME FailuresInv, UNCHANGED <<needs, providers, faulty>>,
         \A p \in Plugin : lifecycle[p] \in {"rejected", "failed"} => lifecycle'[p] = lifecycle[p],
         \A p \in Plugin : lifecycle'[p] = "failed" => lifecycle[p] = "failed"
  PROVE  NobodyFailsForNothing'
<1>1. ASSUME NEW p \in Plugin, lifecycle'[p] = "failed", p \notin faulty'
      PROVE  Excused(p)'
  BY <1>1, ExcusesLast, NobodyFailsMeans DEF FailuresInv, LifetimesInv
<1> QED BY <1>1 DEF NobodyFailsForNothing, Excused

\* Every failure has its reason when it happens, and keeps it.
LEMMA FailuresNext == FailuresInv /\ [PluginsNext]_pluginVars => FailuresInv'
<1> SUFFICES ASSUME FailuresInv, [PluginsNext]_pluginVars PROVE FailuresInv'
  OBVIOUS
<1> USE DEF FailuresInv
<1>0. LifetimesInv' /\ PluginsTypeOK /\ PhasesAreKept
  BY LifetimesNext DEF LifetimesInv
<1>1. ASSUME NEW p \in Plugin, StageEntry(p) \/ RejectEntry(p) PROVE FailuresInv'
  <2>1. boot = "staging" /\ \A q \in Plugin : lifecycle'[q] # "failed" /\ boot' \in {"staging", "broken"}
    BY <1>0, <1>1 DEF StageEntry, RejectEntry, PhasesAreKept, PluginsTypeOK
  <2> QED
    BY <1>0, <2>1 DEF NobodyFailsForNothing, PassedOver, BringingUp
<1>2. ASSUME NEW p \in Plugin, FailDependent(p) PROVE FailuresInv'
  <2>1. p \in Staged /\ BringingUp /\ FailBeforeStart({p}) /\ faulty' = faulty /\ Unavailable(p)
    BY <1>0, <1>2 DEF FailDependent, LookAt, PhasesAreKept
  <2>2. PICK q \in needs[p] \ {Late} : q \notin Declared \/ lifecycle[q] \notin {"staged", "active"}
    BY <2>1 DEF Unavailable
  <2>3. lifecycle[q] \in {"rejected", "failed"}
    BY <1>0, <2>1, <2>2 DEF Declared, PluginsTypeOK, PhasesAreKept, BringingUp
  <2>4. Excused(p)
    BY <2>2, <2>3 DEF Excused
  <2> QED
    BY <1>0, <2>1, <2>4, FailingIsExcused DEF PluginsTypeOK
<1>3. ASSUME NEW p \in Plugin, StartThrows(p) PROVE FailuresInv'
  <2>1. p \in Staged /\ BringingUp /\ FailBeforeStart({p}) /\ faulty' = faulty \cup {p}
    BY <1>0, <1>3 DEF StartThrows, LookAt, PhasesAreKept
  <2> QED
    BY <1>0, <2>1, FailingIsExcused DEF PluginsTypeOK
<1>4. CASE GiveUp
  <2>1. PICK F \in Hopeless : \E G \in SUBSET F : FailBeforeStart(G)
    BY <1>4 DEF GiveUp
  <2>2. F \subseteq Staged /\ \A p \in F : Excused(p)
    <3>1. CASE Cycles # {}
      BY <1>0, <2>1, <3>1, CyclesExcuse DEF Hopeless, Cycles
    <3>2. CASE Cycles = {} /\ boot = "early" /\ LateProviders # {}
      BY <1>0, <2>1, <3>2, LatenessExcuses DEF Hopeless, LateProviders
    <3>3. CASE Cycles = {} /\ ~(boot = "early" /\ LateProviders # {})
      <4>1. IF boot = "early" THEN \A p \in Staged : ReachesLate(p) ELSE Staged = {}
        BY <1>4, <3>3, NoLastResort DEF GiveUp
      <4> QED BY <2>1, <3>3, <4>1 DEF Hopeless
    <3> QED BY <3>1, <3>2, <3>3
  <2> QED
    BY <1>0, <1>4, <2>1, <2>2, FailingIsExcused DEF GiveUp, PluginsTypeOK
<1>5. ASSUME NEW p \in Plugin, PassOver(p) PROVE FailuresInv'
  <2>1. PassedOver'
    BY <1>5 DEF PassOver, PassedOver, BringingUp, Staged, Waiting, Unavailable, Declared
  <2> QED
    BY <1>0, <1>5, <2>1, OthersAreExcused DEF PassOver
<1>6. ASSUME NEW p \in Plugin, StartStagedPlugin(p) PROVE FailuresInv'
  <2>1. lifecycle[p] = "staged" /\ progressed'
    BY <1>0, <1>6 DEF StartStagedPlugin, LookAt, PhasesAreKept, Staged
  <2> QED
    BY <1>0, <1>6, <2>1, OthersAreExcused DEF StartStagedPlugin, PassedOver, PluginsTypeOK
<1>7. CASE BeginStarting \/ AnotherRound \/ ResumeStaged
  <2>1. PassedOver'
    BY <1>7 DEF BeginStarting, AnotherRound, ResumeStaged, PassedOver, Staged
  <2> QED
    BY <1>0, <1>7, <2>1, OthersAreExcused DEF BeginStarting, AnotherRound, ResumeStaged
<1>8. CASE EarlyEnds \/ LateEnds \/ StopPlugins
  <2>1. PassedOver'
    BY <1>8 DEF EarlyEnds, LateEnds, StopPlugins, PassedOver, BringingUp
  <2> QED
    BY <1>0, <1>8, <2>1, OthersAreExcused DEF EarlyEnds, LateEnds, StopPlugins
<1>9. ASSUME NEW p \in Plugin, DisposeStaged(p) \/ DisposeActive(p) \/ DisposeReturns(p)
      PROVE  FailuresInv'
  <2>1. lifecycle[p] \notin {"rejected", "failed"}
    BY <1>0, <1>9 DEF DisposeStaged, DisposeActive, DisposeReturns, LifetimesInv, OrderIsTruthful,
                      Works, PluginsTypeOK
  <2>2. /\ UNCHANGED <<boot, needs, providers, faulty>> /\ boot = "stopping"
        /\ \A q \in Plugin : q # p => lifecycle'[q] = lifecycle[q]
        /\ lifecycle'[p] \in {"disposing", "gone"}
    BY <1>0, <1>9 DEF DisposeStaged, DisposeActive, DisposeReturns, PhasesAreKept, PluginsTypeOK
  <2> QED
    BY <1>0, <2>1, <2>2, OthersAreExcused DEF PassedOver, BringingUp
<1>10. CASE UNCHANGED pluginVars
  <2>1. PassedOver'
    BY <1>10 DEF pluginVars, PassedOver, BringingUp, Staged, Waiting, Unavailable, Declared
  <2> QED
    BY <1>0, <1>10, <2>1, OthersAreExcused DEF pluginVars
<1> QED
  BY <1>1, <1>2, <1>3, <1>4, <1>5, <1>6, <1>7, <1>8, <1>9, <1>10 DEF PluginsNext

\* A plugin without a fault of its own fails only for a reason.
THEOREM FailuresHaveReasons == PluginsSpec => []NobodyFailsForNothing
<1>1. FailuresInv => NobodyFailsForNothing
  BY DEF FailuresInv
<1> QED BY <1>1, FailuresInit, FailuresNext, PTL DEF PluginsSpec

-----------------------------------------------------------------------------
(* Channels: what holds of each *)

\* The socket, the route and its end: an admission is released when all three are over.
RouteOK(c) ==
  /\ socket[c] = "none" <=> route[c] = "none"
  /\ route[c] = "closed" <=> leaving[c] # "none"
  /\ leaving[c] \in {"socket", "over"} => managed[c] \in {"none", "gone"}
  /\ leaving[c] = "over" => socket[c] = "closed"
  /\ admission[c] = "released" => leaving[c] = "over"
  /\ openTask[c] # "none" => route[c] \in {"opening", "closed"} /\ managed[c] = "none"

\* The session of the plugin: closing one that could not be closed is reported.
SessionOK(c) ==
  /\ managed[c] = "none" => c \notin inside
  /\ managed[c] \in {"none", "live"} => ending[c] = "none"
  /\ peer[c] = "open" => managed[c] \in {"live", "receiving"}
  /\ managed[c] \in {"closing", "gone"} /\ c \notin reported => c \notin inside
  /\ managed[c] = "gone" /\ c \notin reported => peer[c] = "closed"

\* A channel that is not open has no frames.
QuietBefore(c) ==
  route[c] \in {"none", "awaiting-open", "opening"} =>
    /\ managed[c] = "none" /\ draining[c] = "none"
    /\ accepted[c] = 0 /\ received[c] = <<>> /\ incoming[c] = <<>>

\* Frames that wait follow those received; the first of them may be in the plugin.
FramesOK(c) ==
  /\ \A i \in DOMAIN received[c] : received[c][i] = i
  /\ Receives(c) /\ draining[c] \in {"none", "looking", "returned"} =>
       /\ accepted[c] = Len(received[c]) + Len(incoming[c])
       /\ \A i \in DOMAIN incoming[c] : incoming[c][i] = Len(received[c]) + i
  /\ Receives(c) /\ draining[c] = "receiving" /\ managed[c] = "live" =>
       /\ incoming[c] # <<>> /\ accepted[c] + 1 = Len(received[c]) + Len(incoming[c])
       /\ \A i \in DOMAIN incoming[c] : incoming[c][i] + 1 = Len(received[c]) + i
  /\ c \in inside /\ Receives(c) => draining[c] \in {"receiving", "threw"}
  /\ ending[c] = "clean" =>
       route[c] = "closed" /\ Len(received[c]) = accepted[c] /\ c \notin inside

ChannelOK(c) == RouteOK(c) /\ SessionOK(c) /\ QuietBefore(c) /\ FramesOK(c)

\* What closeAll has waited for does not come back.
ShutdownOK ==
  /\ shutdown \in {"callbacks", "admissions", "over"} =>
       \A c \in Channel : openTask[c] \notin {"scope", "plugin"}
  /\ shutdown \in {"admissions", "over"} =>
       \A c \in Channel : /\ managed[c] \in {"none", "gone"}
                          /\ c \notin reported => peer[c] \in {"none", "refused", "closed"}
  /\ shutdown = "over" => Held \subseteq reported

ChannelsInv == ChannelsTypeOK /\ ShutdownOK /\ \A c \in Channel : ChannelOK(c)

\* A step of one channel.
OnlyTouches(c) ==
  \A d \in Channel \ {c} :
    /\ socket'[d] = socket[d] /\ route'[d] = route[d] /\ leaving'[d] = leaving[d]
    /\ admission'[d] = admission[d] /\ openTask'[d] = openTask[d] /\ managed'[d] = managed[d]
    /\ peer'[d] = peer[d] /\ ending'[d] = ending[d] /\ draining'[d] = draining[d]
    /\ incoming'[d] = incoming[d] /\ accepted'[d] = accepted[d] /\ received'[d] = received[d]
    /\ (d \in inside' <=> d \in inside) /\ (d \in reported => d \in reported')

LEMMA OneChannel ==
  ASSUME ChannelsInv, NEW c \in Channel, OnlyTouches(c), ChannelsTypeOK', ShutdownOK',
         RouteOK(c)', SessionOK(c)', QuietBefore(c)', FramesOK(c)'
  PROVE  ChannelsInv'
<1>1. ASSUME NEW d \in Channel \ {c} PROVE ChannelOK(d)'
  <2>1. RouteOK(d)' /\ SessionOK(d)'
    BY DEF ChannelsInv, OnlyTouches, ChannelOK, RouteOK, SessionOK
  <2>2. /\ route'[d] = route[d] /\ managed'[d] = managed[d] /\ draining'[d] = draining[d]
        /\ incoming'[d] = incoming[d] /\ accepted'[d] = accepted[d] /\ received'[d] = received[d]
        /\ ending'[d] = ending[d] /\ (d \in inside' <=> d \in inside)
    BY DEF OnlyTouches
  <2>3. QuietBefore(d) /\ FramesOK(d)
    BY DEF ChannelsInv, ChannelOK
  <2>4. QuietBefore(d)'
    BY <2>2, <2>3 DEF QuietBefore
  <2>5. FramesOK(d)'
    BY <2>2, <2>3 DEF FramesOK, Receives
  <2> QED BY <2>1, <2>4, <2>5 DEF ChannelOK
<1> QED
  BY <1>1 DEF ChannelsInv, ChannelOK

\* The ends of routes keep the kinds of what they change.
LEMMA LeavingIsTyped ==
  ASSUME ChannelsTypeOK, NEW R \in SUBSET Channel, NEW how \in {"clean", "completed", "failed"},
         LeaveAll(R, how)
  PROVE  /\ route' \in [Channel -> {"none", "awaiting-open", "opening", "ready", "draining-close",
                                    "closed"}]
         /\ leaving' \in [Channel -> {"none", "session", "socket", "over"}]
         /\ managed' \in [Channel -> {"none", "live", "receiving", "closing", "gone"}]
         /\ ending' \in [Channel -> {"none", "clean", "completed", "failed"}]
         /\ incoming' \in [Channel -> Seq(1..MaxFrames)]
<1>1. <<>> \in Seq(1..MaxFrames)
  OBVIOUS
<1> QED
  BY <1>1 DEF ChannelsTypeOK, LeaveAll, CloseSessions

LEMMA ShiftIsTyped ==
  ASSUME ChannelsTypeOK, NEW c \in Channel, Shift(c)
  PROVE  incoming' \in [Channel -> Seq(1..MaxFrames)]
<1>1. incoming[c] # <<>> => Tail(incoming[c]) \in Seq(1..MaxFrames)
  BY DEF ChannelsTypeOK
<1> QED
  BY <1>1 DEF ChannelsTypeOK, Shift

(* Opening *)

LEMMA ConnectOK == ASSUME ChannelsInv, NEW c \in Channel, Connect(c) PROVE ChannelsInv'
<1>1. ChannelsTypeOK'
  <2>1. CASE shutdown = "no" /\ Cardinality(Held) < MaxAdmissions
    BY <2>1 DEF Connect, ChannelsInv, ChannelsTypeOK, peerVars, frameVars
  <2>2. CASE ~(shutdown = "no" /\ Cardinality(Held) < MaxAdmissions)
    BY <2>2 DEF Connect, ChannelsInv, ChannelsTypeOK, peerVars, frameVars
  <2> QED BY <2>1, <2>2
<1> USE DEF ChannelsInv, Connect, socketVars, peerVars, frameVars
<1>2. OnlyTouches(c)
  BY DEF ChannelsTypeOK, OnlyTouches
<1>3. RouteOK(c)' /\ SessionOK(c)' /\ QuietBefore(c)'
  BY DEF ChannelsTypeOK, ChannelOK, RouteOK, SessionOK, QuietBefore
<1>4. FramesOK(c)'
  BY DEF ChannelsTypeOK, ChannelOK, RouteOK, SessionOK, QuietBefore, FramesOK, Receives
<1>5. ShutdownOK'
  BY DEF ChannelsTypeOK, ShutdownOK, Held, ChannelOK, RouteOK, SessionOK, QuietBefore
<1> QED
  BY <1>1, <1>2, <1>3, <1>4, <1>5, OneChannel

LEMMA ReceivesOpenOK == ASSUME ChannelsInv, NEW c \in Channel, ReceivesOpen(c) PROVE ChannelsInv'
<1>1. ChannelsTypeOK'
  BY  DEF ChannelsTypeOK, ChannelsInv, ReceivesOpen, socketVars, peerVars, frameVars
<1> USE DEF ChannelsInv, ReceivesOpen, socketVars, peerVars, frameVars
<1>2. OnlyTouches(c)
  BY DEF ChannelsTypeOK, OnlyTouches
<1>3. RouteOK(c)' /\ SessionOK(c)' /\ QuietBefore(c)'
  BY DEF ChannelsTypeOK, ChannelOK, RouteOK, SessionOK, QuietBefore
<1>4. FramesOK(c)'
  BY DEF ChannelsTypeOK, ChannelOK, RouteOK, SessionOK, QuietBefore, FramesOK, Receives
<1>5. ShutdownOK'
  BY DEF ChannelsTypeOK, ShutdownOK, Held, ChannelOK, RouteOK, SessionOK, QuietBefore
<1> QED
  BY <1>1, <1>2, <1>3, <1>4, <1>5, OneChannel

LEMMA BeginsOpeningOK == ASSUME ChannelsInv, NEW c \in Channel, BeginsOpening(c) PROVE ChannelsInv'
<1>1. ChannelsTypeOK'
  BY  DEF ChannelsTypeOK, ChannelsInv, BeginsOpening, RouteLives, socketVars, peerVars, frameVars
<1> USE DEF ChannelsInv, BeginsOpening, RouteLives, socketVars, peerVars, frameVars
<1>2. OnlyTouches(c)
  BY DEF ChannelsTypeOK, OnlyTouches
<1>3. RouteOK(c)' /\ SessionOK(c)' /\ QuietBefore(c)'
  BY DEF ChannelsTypeOK, ChannelOK, RouteOK, SessionOK, QuietBefore
<1>4. FramesOK(c)'
  BY DEF ChannelsTypeOK, ChannelOK, RouteOK, SessionOK, QuietBefore, FramesOK, Receives
<1>5. ShutdownOK'
  BY DEF ChannelsTypeOK, ShutdownOK, Held, ChannelOK, RouteOK, SessionOK, QuietBefore
<1> QED
  BY <1>1, <1>2, <1>3, <1>4, <1>5, OneChannel

LEMMA CallsPluginOK == ASSUME ChannelsInv, NEW c \in Channel, CallsPlugin(c) PROVE ChannelsInv'
<1>1. ChannelsTypeOK'
  BY  DEF ChannelsTypeOK, ChannelsInv, CallsPlugin, RouteLives, socketVars, peerVars, frameVars
<1> USE DEF ChannelsInv, CallsPlugin, RouteLives, socketVars, peerVars, frameVars
<1>2. OnlyTouches(c)
  BY DEF ChannelsTypeOK, OnlyTouches
<1>3. RouteOK(c)' /\ SessionOK(c)' /\ QuietBefore(c)'
  BY DEF ChannelsTypeOK, ChannelOK, RouteOK, SessionOK, QuietBefore
<1>4. FramesOK(c)'
  BY DEF ChannelsTypeOK, ChannelOK, RouteOK, SessionOK, QuietBefore, FramesOK, Receives
<1>5. ShutdownOK'
  BY DEF ChannelsTypeOK, ShutdownOK, Held, ChannelOK, RouteOK, SessionOK, QuietBefore
<1> QED
  BY <1>1, <1>2, <1>3, <1>4, <1>5, OneChannel

LEMMA OpensOK == ASSUME ChannelsInv, NEW c \in Channel, Opens(c) PROVE ChannelsInv'
<1>1. ChannelsTypeOK'
  BY  DEF ChannelsTypeOK, ChannelsInv, Opens, RouteLives, socketVars, peerVars, frameVars
<1> USE DEF ChannelsInv, Opens, RouteLives, socketVars, peerVars, frameVars
<1>2. OnlyTouches(c)
  BY DEF ChannelsTypeOK, OnlyTouches
<1>3. RouteOK(c)' /\ SessionOK(c)' /\ QuietBefore(c)'
  BY DEF ChannelsTypeOK, ChannelOK, RouteOK, SessionOK, QuietBefore
<1>4. FramesOK(c)'
  BY DEF ChannelsTypeOK, ChannelOK, RouteOK, SessionOK, QuietBefore, FramesOK, Receives
<1>5. ShutdownOK'
  BY DEF ChannelsTypeOK, ShutdownOK, Held, ChannelOK, RouteOK, SessionOK, QuietBefore
<1> QED
  BY <1>1, <1>2, <1>3, <1>4, <1>5, OneChannel

LEMMA OpenFailsOK == ASSUME ChannelsInv, NEW c \in Channel, OpenFails(c) PROVE ChannelsInv'
<1>1. ChannelsTypeOK'
  <2>1. CASE RouteLives(c)
    BY <2>1, LeavingIsTyped DEF ChannelsTypeOK, ChannelsInv, OpenFails, Leave
  <2>2. CASE ~RouteLives(c)
    BY <2>2 DEF ChannelsTypeOK, ChannelsInv, OpenFails
  <2> QED BY <2>1, <2>2
<1> USE DEF ChannelsInv, OpenFails, RouteLives, Leave, LeaveAll, CloseSessions, socketVars,
            peerVars, frameVars
<1>2. OnlyTouches(c)
  BY DEF ChannelsTypeOK, OnlyTouches
<1>3. RouteOK(c)' /\ SessionOK(c)' /\ QuietBefore(c)'
  BY DEF ChannelsTypeOK, ChannelOK, RouteOK, SessionOK, QuietBefore
<1>4. FramesOK(c)'
  BY DEF ChannelsTypeOK, ChannelOK, RouteOK, SessionOK, QuietBefore, FramesOK, Receives
<1>5. ShutdownOK'
  BY DEF ChannelsTypeOK, ShutdownOK, Held, ChannelOK, RouteOK, SessionOK, QuietBefore
<1> QED
  BY <1>1, <1>2, <1>3, <1>4, <1>5, OneChannel

LEMMA OpensLateOK == ASSUME ChannelsInv, NEW c \in Channel, OpensLate(c) PROVE ChannelsInv'
<1>1. ChannelsTypeOK'
  BY  DEF ChannelsTypeOK, ChannelsInv, OpensLate, socketVars, peerVars, frameVars
<1> USE DEF ChannelsInv, OpensLate, socketVars, peerVars, frameVars
<1>2. OnlyTouches(c)
  BY DEF ChannelsTypeOK, OnlyTouches
<1>3. RouteOK(c)' /\ SessionOK(c)' /\ QuietBefore(c)'
  BY DEF ChannelsTypeOK, ChannelOK, RouteOK, SessionOK, QuietBefore
<1>4. FramesOK(c)'
  BY DEF ChannelsTypeOK, ChannelOK, RouteOK, SessionOK, QuietBefore, FramesOK, Receives
<1>5. ShutdownOK'
  <2>1. peer'[c] \in {"closing", "refused"} /\ \A d \in Channel \ {c} : peer'[d] = peer[d]
    BY DEF ChannelsTypeOK
  <2> QED BY <2>1 DEF ChannelsTypeOK, ShutdownOK, Held
<1> QED
  BY <1>1, <1>2, <1>3, <1>4, <1>5, OneChannel

(* Frames *)

LEMMA FrameOK == ASSUME ChannelsInv, NEW c \in Channel, Frame(c) PROVE ChannelsInv'
<1>1. ChannelsTypeOK'
  <2>1. Append(incoming[c], accepted[c] + 1) \in Seq(1..MaxFrames)
    BY FramesAssumption DEF Frame, ChannelsInv, ChannelsTypeOK
  <2>2. accepted' \in [Channel -> 0..MaxFrames]
    BY FramesAssumption DEF Frame, ChannelsInv, ChannelsTypeOK
  <2> QED BY <2>1, <2>2 DEF Frame, ChannelsInv, ChannelsTypeOK, socketVars, peerVars
<1> USE DEF ChannelsInv, Frame, socketVars, peerVars, frameVars
<1>2. OnlyTouches(c)
  BY DEF ChannelsTypeOK, OnlyTouches
<1>3. RouteOK(c)' /\ SessionOK(c)' /\ QuietBefore(c)'
  BY DEF ChannelsTypeOK, ChannelOK, RouteOK, SessionOK, QuietBefore
<1>4. FramesOK(c)'
  BY DEF ChannelsTypeOK, ChannelOK, RouteOK, SessionOK, QuietBefore, FramesOK, Receives
<1>5. ShutdownOK'
  BY DEF ChannelsTypeOK, ShutdownOK, Held, ChannelOK, RouteOK, SessionOK, QuietBefore
<1> QED
  BY <1>1, <1>2, <1>3, <1>4, <1>5, OneChannel

LEMMA LooksOK == ASSUME ChannelsInv, NEW c \in Channel, Looks(c) PROVE ChannelsInv'
<1>1. ChannelsTypeOK'
  <2>1. CASE ~Receives(c) \/ incoming[c] = <<>>
    BY <2>1 DEF Looks, ChannelsInv, ChannelsTypeOK, socketVars
  <2>2. CASE ~(~Receives(c) \/ incoming[c] = <<>>)
    <3>1. Append(received[c], Head(incoming[c])) \in Seq(1..MaxFrames)
      <4>1. incoming[c] \in Seq(1..MaxFrames) /\ received[c] \in Seq(1..MaxFrames)
        BY DEF ChannelsInv, ChannelsTypeOK
      <4>2. Head(incoming[c]) \in 1..MaxFrames
        BY <2>2, <4>1, HeadTailProperties
      <4> QED BY <4>1, <4>2
    <3>2. received' \in [Channel -> Seq(1..MaxFrames)] /\ inside' \subseteq Channel
      <4>1. \/ UNCHANGED <<inside, received>>
            \/ /\ inside' = inside \cup {c}
               /\ received' = [received EXCEPT ![c] = Append(received[c], Head(incoming[c]))]
        BY <2>2 DEF Looks
      <4>2. received \in [Channel -> Seq(1..MaxFrames)] /\ inside \subseteq Channel
        BY DEF ChannelsInv, ChannelsTypeOK
      <4> QED BY <3>1, <4>1, <4>2
    <3> QED BY <2>2, <3>2 DEF Looks, ChannelsInv, ChannelsTypeOK, socketVars
  <2> QED BY <2>1, <2>2
<1> USE DEF ChannelsInv, Looks, Receives, socketVars, peerVars, frameVars
<1>2. OnlyTouches(c)
  BY DEF ChannelsTypeOK, OnlyTouches
<1>3. RouteOK(c)' /\ SessionOK(c)' /\ QuietBefore(c)'
  BY DEF ChannelsTypeOK, ChannelOK, RouteOK, SessionOK, QuietBefore
<1>4. FramesOK(c)'
  <2>1. /\ incoming[c] \in Seq(1..MaxFrames) /\ received[c] \in Seq(1..MaxFrames)
        /\ accepted[c] \in 0..MaxFrames /\ draining[c] = "looking" /\ FramesOK(c)
        /\ managed[c] = "live" => ending[c] # "clean"
    BY DEF ChannelsTypeOK, ChannelOK, SessionOK
  <2>2. CASE ~Receives(c) \/ incoming[c] = <<>>
    <3>1. draining'[c] = "returned" /\ UNCHANGED <<received, inside>>
      BY <2>2 DEF ChannelsTypeOK
    <3> QED BY <2>1, <3>1 DEF FramesOK
  <2>3. CASE Receives(c) /\ incoming[c] # <<>> /\ managed[c] # "live"
    <3>1. draining'[c] = "receiving" /\ UNCHANGED <<received, inside>>
      BY <2>3 DEF ChannelsTypeOK
    <3> QED BY <2>1, <2>3, <3>1 DEF FramesOK
  <2>4. CASE Receives(c) /\ incoming[c] # <<>> /\ managed[c] = "live"
    <3>1. /\ draining'[c] = "receiving" /\ received'[c] = Append(received[c], Head(incoming[c]))
          /\ UNCHANGED <<incoming, accepted, route, managed, ending>>
      BY <2>4 DEF ChannelsTypeOK
    <3> HIDE DEF ChannelsInv, Looks
    <3>2. /\ Len(received'[c]) = Len(received[c]) + 1
          /\ DOMAIN received'[c] = 1..(Len(received[c]) + 1)
          /\ DOMAIN received[c] = 1..Len(received[c]) /\ Len(received[c]) \in Nat
          /\ received'[c][Len(received[c]) + 1] = Head(incoming[c])
          /\ \A i \in 1..Len(received[c]) : received'[c][i] = received[c][i]
          /\ Head(incoming[c]) = incoming[c][1] /\ 1 \in DOMAIN incoming[c]
          /\ Len(incoming[c]) \in Nat /\ DOMAIN incoming[c] = 1..Len(incoming[c])
      BY <2>1, <2>4, <3>1
    <3>3. \A i \in DOMAIN incoming[c] : incoming[c][i] \in Nat
      BY <2>1, <3>2, ElementOfSeq, FramesAssumption
    <3>4. Head(incoming[c]) = Len(received[c]) + 1
      BY <2>1, <2>4, <3>2 DEF FramesOK
    <3>5. \A i \in DOMAIN received'[c] : received'[c][i] = i
      <4>1. \A i \in 1..Len(received[c]) : received[c][i] = i
        BY <2>1, <3>2 DEF FramesOK
      <4>2. ASSUME NEW i \in DOMAIN received'[c] PROVE received'[c][i] = i
        <5>1. i \in 1..Len(received[c]) \/ i = Len(received[c]) + 1
          BY <3>2
        <5> QED BY <3>2, <3>4, <4>1, <5>1
      <4> QED BY <4>2
    <3>6. /\ accepted'[c] + 1 = Len(received'[c]) + Len(incoming'[c])
          /\ \A i \in DOMAIN incoming'[c] : incoming'[c][i] + 1 = Len(received'[c]) + i
      <4>1. /\ accepted[c] = Len(received[c]) + Len(incoming[c])
            /\ \A i \in DOMAIN incoming[c] : incoming[c][i] = Len(received[c]) + i
        BY <2>1, <2>4 DEF FramesOK
      <4>2. Len(received'[c]) = Len(received[c]) + 1 /\ Len(received[c]) \in Nat
            /\ Len(incoming[c]) \in Nat /\ incoming' = incoming /\ accepted' = accepted
            /\ accepted[c] \in Nat
        BY <2>1, <3>1, <3>2, FramesAssumption
      <4>3. ASSUME NEW i \in DOMAIN incoming[c]
            PROVE  incoming[c][i] + 1 = Len(received[c]) + 1 + i
        BY <3>2, <4>1, <4>2
      <4>4. accepted'[c] + 1 = Len(received'[c]) + Len(incoming'[c])
        <5>1. \A a, x, y \in Nat : a = x + y => a + 1 = (x + 1) + y
          OBVIOUS
        <5>2. accepted[c] + 1 = (Len(received[c]) + 1) + Len(incoming[c])
          BY <4>1, <4>2, <5>1, Zenon
        <5> QED BY <4>2, <5>2
      <4>5. \A i \in DOMAIN incoming'[c] : incoming'[c][i] + 1 = Len(received'[c]) + i
        BY <4>2, <4>3, Zenon
      <4> QED BY <4>4, <4>5
    <3> QED BY <2>1, <2>4, <3>1, <3>5, <3>6 DEF FramesOK
  <2> QED BY <2>2, <2>3, <2>4
<1>5. ShutdownOK'
  BY DEF ChannelsTypeOK, ShutdownOK, Held, ChannelOK, RouteOK, SessionOK, QuietBefore
<1> QED
  BY <1>1, <1>2, <1>3, <1>4, <1>5, OneChannel

LEMMA ReceiveReturnsOK == ASSUME ChannelsInv, NEW c \in Channel, ReceiveReturns(c) PROVE ChannelsInv'
<1>1. ChannelsTypeOK'
  <2>1. incoming' \in [Channel -> Seq(1..MaxFrames)]
    BY ShiftIsTyped DEF ReceiveReturns, ChannelsInv
  <2> QED BY <2>1 DEF ReceiveReturns, ChannelsInv, ChannelsTypeOK, socketVars
<1> USE DEF ChannelsInv, ReceiveReturns, Shift, socketVars, peerVars, frameVars
<1>2. OnlyTouches(c)
  BY DEF ChannelsTypeOK, OnlyTouches
<1>3. RouteOK(c)' /\ SessionOK(c)' /\ QuietBefore(c)'
  BY DEF ChannelsTypeOK, ChannelOK, RouteOK, SessionOK, QuietBefore
<1>4. FramesOK(c)'
  <2>1. /\ incoming[c] \in Seq(1..MaxFrames) /\ received[c] \in Seq(1..MaxFrames)
        /\ FramesOK(c) /\ ending[c] # "clean"
        /\ draining'[c] = "looking" /\ c \notin inside'
        /\ incoming'[c] = IF incoming[c] = <<>> THEN <<>> ELSE Tail(incoming[c])
    BY DEF ChannelsTypeOK, ChannelOK, SessionOK
  <2>2. /\ UNCHANGED <<received, accepted, route, managed, ending>> /\ managed[c] = "live"
        /\ draining[c] = "receiving" /\ accepted[c] \in 0..MaxFrames
    BY DEF ChannelsTypeOK
  <2> HIDE DEF ChannelsInv, ReceiveReturns
  <2>3. CASE Receives(c)
    <3>1. incoming[c] # <<>>
      BY <2>1, <2>2, <2>3 DEF FramesOK
    <3>2. /\ Len(incoming'[c]) = Len(incoming[c]) - 1 /\ Len(incoming[c]) \in Nat
          /\ \A i \in DOMAIN incoming'[c] : i \in Nat /\ i + 1 \in DOMAIN incoming[c]
                                            /\ incoming'[c][i] = incoming[c][i + 1]
          /\ Len(received[c]) \in Nat /\ DOMAIN incoming[c] = 1..Len(incoming[c])
      <4>1. incoming'[c] = Tail(incoming[c]) /\ Len(incoming[c]) \in Nat \ {0}
        BY <2>1, <3>1
      <4>2. /\ incoming'[c] \in Seq(1..MaxFrames) /\ Len(incoming'[c]) = Len(incoming[c]) - 1
            /\ \A i \in 1..Len(incoming'[c]) : incoming'[c][i] = incoming[c][i + 1]
        BY <2>1, <3>1, <4>1, HeadTailProperties
      <4> QED BY <2>1, <4>1, <4>2
    <3>3. /\ accepted[c] \in Nat /\ \A i \in DOMAIN incoming[c] : incoming[c][i] \in Nat
      <4>1. \A i \in DOMAIN incoming[c] : incoming[c][i] \in 1..MaxFrames
        BY <2>1, <3>2, ElementOfSeq
      <4> QED BY <2>2, <4>1, FramesAssumption
    <3>4. /\ accepted'[c] = Len(received'[c]) + Len(incoming'[c])
          /\ \A i \in DOMAIN incoming'[c] : incoming'[c][i] = Len(received'[c]) + i
      <4>1. /\ accepted[c] + 1 = Len(received[c]) + Len(incoming[c])
            /\ \A i \in DOMAIN incoming[c] : incoming[c][i] + 1 = Len(received[c]) + i
        BY <2>1, <2>2, <2>3 DEF FramesOK
      <4>2. \A i \in DOMAIN incoming'[c] : i \in Nat /\ incoming[c][i + 1] = Len(received[c]) + i
        <5> SUFFICES ASSUME NEW i \in DOMAIN incoming'[c]
                     PROVE  i \in Nat /\ incoming[c][i + 1] = Len(received[c]) + i
          OBVIOUS
        <5>1. /\ i \in Nat /\ i + 1 \in DOMAIN incoming[c] /\ incoming[c][i + 1] \in Nat
              /\ Len(received[c]) \in Nat
          BY <3>2, <3>3
        <5>2. incoming[c][i + 1] + 1 = Len(received[c]) + (i + 1)
          BY <4>1, <5>1
        <5>3. \A j, x, y \in Nat : x + 1 = y + (j + 1) => x = y + j
          OBVIOUS
        <5> QED BY <5>1, <5>2, <5>3, Zenon
      <4>3. accepted'[c] = Len(received'[c]) + Len(incoming'[c])
        <5>1. accepted[c] = Len(received[c]) + (Len(incoming[c]) - 1)
          <6>1. \A a, x, y \in Nat : a + 1 = x + y => a = x + (y - 1)
            OBVIOUS
          <6> QED BY <3>2, <3>3, <4>1, <6>1, Zenon
        <5> QED BY <2>2, <3>2, <5>1, Zenon
      <4>4. \A i \in DOMAIN incoming'[c] : incoming'[c][i] = Len(received'[c]) + i
        BY <2>2, <3>2, <4>2, Zenon
      <4> QED BY <4>3, <4>4
    <3> QED BY <2>1, <2>2, <2>3, <3>4 DEF FramesOK, Receives
  <2>4. CASE ~Receives(c)
    BY <2>1, <2>2, <2>4 DEF FramesOK, Receives
  <2> QED BY <2>3, <2>4
<1>5. ShutdownOK'
  BY DEF ChannelsTypeOK, ShutdownOK, Held, ChannelOK, RouteOK, SessionOK, QuietBefore
<1> QED
  BY <1>1, <1>2, <1>3, <1>4, <1>5, OneChannel

LEMMA ReceiveThrowsOK == ASSUME ChannelsInv, NEW c \in Channel, ReceiveThrows(c) PROVE ChannelsInv'
<1>1. ChannelsTypeOK'
  <2>1. CASE route[c] = "ready"
    BY <2>1, LeavingIsTyped DEF ChannelsTypeOK, ChannelsInv, ReceiveThrows, Leave
  <2>2. CASE route[c] # "ready"
    BY <2>2, ShiftIsTyped DEF ChannelsTypeOK, ChannelsInv, ReceiveThrows
  <2> QED BY <2>1, <2>2
<1> USE DEF ChannelsInv, ReceiveThrows, Shift, RouteLives, Leave, LeaveAll, CloseSessions,
            socketVars, peerVars, frameVars
<1>2. OnlyTouches(c)
  BY DEF ChannelsTypeOK, OnlyTouches
<1>3. RouteOK(c)' /\ SessionOK(c)' /\ QuietBefore(c)'
  BY DEF ChannelsTypeOK, ChannelOK, RouteOK, SessionOK, QuietBefore
<1>4. FramesOK(c)'
  BY DEF ChannelsTypeOK, ChannelOK, RouteOK, SessionOK, QuietBefore, FramesOK, Receives
<1>5. ShutdownOK'
  <2>1. /\ \A d \in Channel : managed'[d] \in {managed[d], "receiving"}
        /\ \A d \in Channel : managed[d] # "live" => managed'[d] = managed[d]
    BY DEF ChannelsTypeOK
  <2> QED BY <2>1 DEF ChannelsTypeOK, ShutdownOK, Held
<1> QED
  BY <1>1, <1>2, <1>3, <1>4, <1>5, OneChannel

LEMMA PeerReceivesOK == ASSUME ChannelsInv, NEW c \in Channel, PeerReceives(c) PROVE ChannelsInv'
<1>1. ChannelsTypeOK'
  BY  DEF ChannelsTypeOK, ChannelsInv, PeerReceives, socketVars, peerVars, frameVars
<1> USE DEF ChannelsInv, PeerReceives, socketVars, peerVars, frameVars
<1>2. OnlyTouches(c)
  BY DEF ChannelsTypeOK, OnlyTouches
<1>3. RouteOK(c)' /\ SessionOK(c)' /\ QuietBefore(c)'
  BY DEF ChannelsTypeOK, ChannelOK, RouteOK, SessionOK, QuietBefore
<1>4. FramesOK(c)'
  BY DEF ChannelsTypeOK, ChannelOK, RouteOK, SessionOK, QuietBefore, FramesOK, Receives
<1>5. ShutdownOK'
  BY DEF ChannelsTypeOK, ShutdownOK, Held, ChannelOK, RouteOK, SessionOK, QuietBefore
<1> QED
  BY <1>1, <1>2, <1>3, <1>4, <1>5, OneChannel

LEMMA FinishesOK == ASSUME ChannelsInv, NEW c \in Channel, Finishes(c) PROVE ChannelsInv'
<1>1. ChannelsTypeOK'
  BY  DEF ChannelsTypeOK, ChannelsInv, Finishes, Receives, socketVars, peerVars, frameVars
<1> USE DEF ChannelsInv, Finishes, Receives, socketVars, peerVars, frameVars
<1>2. OnlyTouches(c)
  BY DEF ChannelsTypeOK, OnlyTouches
<1>3. RouteOK(c)' /\ SessionOK(c)' /\ QuietBefore(c)'
  BY DEF ChannelsTypeOK, ChannelOK, RouteOK, SessionOK, QuietBefore
<1>4. FramesOK(c)'
  <2>1. draining'[c] \in {"looking", "none"} /\ FramesOK(c)
    BY DEF ChannelsTypeOK, ChannelOK
  <2> QED BY <2>1 DEF FramesOK
<1>5. ShutdownOK'
  BY DEF ChannelsTypeOK, ShutdownOK, Held, ChannelOK, RouteOK, SessionOK, QuietBefore
<1> QED
  BY <1>1, <1>2, <1>3, <1>4, <1>5, OneChannel

(* The socket and the session end *)

LEMMA BrowserClosesOK == ASSUME ChannelsInv, NEW c \in Channel, BrowserCloses(c) PROVE ChannelsInv'
<1>1. ChannelsTypeOK'
  <2>1. PICK clean \in BOOLEAN : SocketCloses(c, clean)
    BY DEF BrowserCloses
  <2>2. CASE (clean /\ route[c] = "ready") \/ ~RouteLives(c)
    BY <2>1, <2>2 DEF BrowserCloses, SocketCloses, ChannelsTypeOK, ChannelsInv, besidesLeave,
                      RouteLives
  <2>3. CASE ~(clean /\ route[c] = "ready") /\ RouteLives(c)
    BY <2>1, <2>3, LeavingIsTyped
       DEF BrowserCloses, SocketCloses, Leave, ChannelsTypeOK, ChannelsInv, besidesLeave
  <2> QED BY <2>2, <2>3
<1> USE DEF ChannelsInv, BrowserCloses, SocketCloses, besidesLeave, RouteLives, Leave, LeaveAll,
            CloseSessions, socketVars, peerVars, frameVars
<1>2. OnlyTouches(c)
  BY DEF ChannelsTypeOK, OnlyTouches
<1>3. RouteOK(c)' /\ SessionOK(c)' /\ QuietBefore(c)'
  BY DEF ChannelsTypeOK, ChannelOK, RouteOK, SessionOK, QuietBefore
<1>4. FramesOK(c)'
  <2>1. /\ FramesOK(c) /\ received' = received /\ accepted' = accepted /\ inside' = inside
        /\ draining' = draining
    BY DEF ChannelOK
  <2>2. \/ /\ route[c] = "ready" /\ route'[c] = "draining-close"
           /\ UNCHANGED <<incoming, managed, ending>>
        \/ UNCHANGED <<route, incoming, managed, ending>>
        \/ route'[c] = "closed" /\ ending'[c] \in {ending[c], "failed"}
    BY DEF ChannelsTypeOK
  <2>3. ending'[c] = "clean" /\ route'[c] = "closed" => ending[c] = "clean"
    BY <2>2
  <2> QED BY <2>1, <2>2, <2>3 DEF FramesOK, Receives
<1>5. ShutdownOK'
  BY DEF ChannelsTypeOK, ShutdownOK, Held, ChannelOK, RouteOK, SessionOK, QuietBefore
<1> QED
  BY <1>1, <1>2, <1>3, <1>4, <1>5, OneChannel

LEMMA DrainEndsOK == ASSUME ChannelsInv, NEW c \in Channel, DrainEnds(c) PROVE ChannelsInv'
<1>1. ChannelsTypeOK'
  BY LeavingIsTyped DEF ChannelsTypeOK, ChannelsInv, DrainEnds, besidesLeave, RouteLives, Leave,
                        socketVars, peerVars, frameVars
<1> USE DEF ChannelsInv, DrainEnds, besidesLeave, RouteLives, Leave, LeaveAll, CloseSessions,
            socketVars, peerVars, frameVars
<1>2. OnlyTouches(c)
  BY DEF ChannelsTypeOK, OnlyTouches
<1>3. RouteOK(c)' /\ SessionOK(c)' /\ QuietBefore(c)'
  BY DEF ChannelsTypeOK, ChannelOK, RouteOK, SessionOK, QuietBefore
<1>4. FramesOK(c)'
  BY DEF ChannelsTypeOK, ChannelOK, RouteOK, SessionOK, QuietBefore, FramesOK, Receives
<1>5. ShutdownOK'
  BY DEF ChannelsTypeOK, ShutdownOK, Held, ChannelOK, RouteOK, SessionOK, QuietBefore
<1> QED
  BY <1>1, <1>2, <1>3, <1>4, <1>5, OneChannel

LEMMA DrainFailsOK == ASSUME ChannelsInv, NEW c \in Channel, DrainFails(c) PROVE ChannelsInv'
<1>1. ChannelsTypeOK'
  BY LeavingIsTyped DEF ChannelsTypeOK, ChannelsInv, DrainFails, besidesLeave, RouteLives, Leave,
                        socketVars, peerVars, frameVars
<1> USE DEF ChannelsInv, DrainFails, besidesLeave, RouteLives, Leave, LeaveAll, CloseSessions,
            socketVars, peerVars, frameVars
<1>2. OnlyTouches(c)
  BY DEF ChannelsTypeOK, OnlyTouches
<1>3. RouteOK(c)' /\ SessionOK(c)' /\ QuietBefore(c)'
  BY DEF ChannelsTypeOK, ChannelOK, RouteOK, SessionOK, QuietBefore
<1>4. FramesOK(c)'
  BY DEF ChannelsTypeOK, ChannelOK, RouteOK, SessionOK, QuietBefore, FramesOK, Receives
<1>5. ShutdownOK'
  BY DEF ChannelsTypeOK, ShutdownOK, Held, ChannelOK, RouteOK, SessionOK, QuietBefore
<1> QED
  BY <1>1, <1>2, <1>3, <1>4, <1>5, OneChannel

LEMMA SessionEndsOK == ASSUME ChannelsInv, NEW c \in Channel, SessionEnds(c) PROVE ChannelsInv'
<1>1. ChannelsTypeOK'
  BY  DEF ChannelsTypeOK, ChannelsInv, SessionEnds, CloseSession, CloseSessions, socketVars,
          peerVars, frameVars
<1> USE DEF ChannelsInv, SessionEnds, CloseSession, CloseSessions, socketVars, peerVars, frameVars
<1>2. OnlyTouches(c)
  BY DEF ChannelsTypeOK, OnlyTouches
<1>3. RouteOK(c)' /\ SessionOK(c)' /\ QuietBefore(c)'
  BY DEF ChannelsTypeOK, ChannelOK, RouteOK, SessionOK, QuietBefore
<1>4. FramesOK(c)'
  BY DEF ChannelsTypeOK, ChannelOK, RouteOK, SessionOK, QuietBefore, FramesOK, Receives
<1>5. ShutdownOK'
  BY DEF ChannelsTypeOK, ShutdownOK, Held, ChannelOK, RouteOK, SessionOK, QuietBefore
<1> QED
  BY <1>1, <1>2, <1>3, <1>4, <1>5, OneChannel

LEMMA HangsUpOK == ASSUME ChannelsInv, NEW c \in Channel, HangsUp(c) PROVE ChannelsInv'
<1>1. ChannelsTypeOK'
  <2>1. PICK clean \in BOOLEAN : SocketCloses(c, clean)
    BY DEF HangsUp
  <2>2. CASE (clean /\ route[c] = "ready") \/ ~RouteLives(c)
    BY <2>1, <2>2 DEF HangsUp, SocketCloses, ChannelsTypeOK, ChannelsInv, besidesLeave, RouteLives
  <2>3. CASE ~(clean /\ route[c] = "ready") /\ RouteLives(c)
    BY <2>1, <2>3, LeavingIsTyped
       DEF HangsUp, SocketCloses, Leave, ChannelsTypeOK, ChannelsInv, besidesLeave
  <2> QED BY <2>2, <2>3
<1> USE DEF ChannelsInv, HangsUp, SocketCloses, besidesLeave, RouteLives, Leave, LeaveAll,
            CloseSessions, socketVars, peerVars, frameVars
<1>2. OnlyTouches(c)
  BY DEF ChannelsTypeOK, OnlyTouches
<1>3. RouteOK(c)' /\ SessionOK(c)' /\ QuietBefore(c)'
  BY DEF ChannelsTypeOK, ChannelOK, RouteOK, SessionOK, QuietBefore
<1>4. FramesOK(c)'
  <2>1. /\ FramesOK(c) /\ received' = received /\ accepted' = accepted /\ inside' = inside
        /\ draining' = draining
    BY DEF ChannelOK
  <2>2. \/ /\ route[c] = "ready" /\ route'[c] = "draining-close"
           /\ UNCHANGED <<incoming, managed, ending>>
        \/ UNCHANGED <<route, incoming, managed, ending>>
        \/ route'[c] = "closed" /\ ending'[c] \in {ending[c], "failed"}
    BY DEF ChannelsTypeOK
  <2>3. ending'[c] = "clean" /\ route'[c] = "closed" => ending[c] = "clean"
    BY <2>2
  <2> QED BY <2>1, <2>2, <2>3 DEF FramesOK, Receives
<1>5. ShutdownOK'
  BY DEF ChannelsTypeOK, ShutdownOK, Held, ChannelOK, RouteOK, SessionOK, QuietBefore
<1> QED
  BY <1>1, <1>2, <1>3, <1>4, <1>5, OneChannel

(* Closing *)

LEMMA ClosePeerOK == ASSUME ChannelsInv, NEW c \in Channel, ClosePeer(c) PROVE ChannelsInv'
<1>1. ChannelsTypeOK'
  BY  DEF ChannelsTypeOK, ChannelsInv, ClosePeer, socketVars, peerVars, frameVars
<1> USE DEF ChannelsInv, ClosePeer, socketVars, peerVars, frameVars
<1>2. OnlyTouches(c)
  BY DEF ChannelsTypeOK, OnlyTouches
<1>3. RouteOK(c)' /\ SessionOK(c)' /\ QuietBefore(c)'
  BY DEF ChannelsTypeOK, ChannelOK, RouteOK, SessionOK, QuietBefore
<1>4. FramesOK(c)'
  BY DEF ChannelsTypeOK, ChannelOK, RouteOK, SessionOK, QuietBefore, FramesOK, Receives
<1>5. ShutdownOK'
  BY DEF ChannelsTypeOK, ShutdownOK, Held, ChannelOK, RouteOK, SessionOK, QuietBefore
<1> QED
  BY <1>1, <1>2, <1>3, <1>4, <1>5, OneChannel

LEMMA PeerClosesOK == ASSUME ChannelsInv, NEW c \in Channel, PeerCloses(c) PROVE ChannelsInv'
<1>1. ChannelsTypeOK'
  BY  DEF ChannelsTypeOK, ChannelsInv, PeerCloses, socketVars, peerVars, frameVars
<1> USE DEF ChannelsInv, PeerCloses, socketVars, peerVars, frameVars
<1>2. OnlyTouches(c)
  BY DEF ChannelsTypeOK, OnlyTouches
<1>3. RouteOK(c)' /\ SessionOK(c)' /\ QuietBefore(c)'
  BY DEF ChannelsTypeOK, ChannelOK, RouteOK, SessionOK, QuietBefore
<1>4. FramesOK(c)'
  BY DEF ChannelsTypeOK, ChannelOK, RouteOK, SessionOK, QuietBefore, FramesOK, Receives
<1>5. ShutdownOK'
  BY DEF ChannelsTypeOK, ShutdownOK, Held, ChannelOK, RouteOK, SessionOK, QuietBefore
<1> QED
  BY <1>1, <1>2, <1>3, <1>4, <1>5, OneChannel

LEMMA ReleasedOK == ASSUME ChannelsInv, NEW c \in Channel, Released(c) PROVE ChannelsInv'
<1>1. ChannelsTypeOK'
  BY  DEF ChannelsTypeOK, ChannelsInv, Released, socketVars, peerVars, frameVars
<1> USE DEF ChannelsInv, Released, socketVars, peerVars, frameVars
<1>2. OnlyTouches(c)
  BY DEF ChannelsTypeOK, OnlyTouches
<1>3. RouteOK(c)' /\ SessionOK(c)' /\ QuietBefore(c)'
  BY DEF ChannelsTypeOK, ChannelOK, RouteOK, SessionOK, QuietBefore
<1>4. FramesOK(c)'
  BY DEF ChannelsTypeOK, ChannelOK, RouteOK, SessionOK, QuietBefore, FramesOK, Receives
<1>5. ShutdownOK'
  BY DEF ChannelsTypeOK, ShutdownOK, Held, ChannelOK, RouteOK, SessionOK, QuietBefore
<1> QED
  BY <1>1, <1>2, <1>3, <1>4, <1>5, OneChannel

LEMMA FailsOK == ASSUME ChannelsInv, NEW c \in Channel, Fails(c) PROVE ChannelsInv'
<1>1. ChannelsTypeOK'
  BY LeavingIsTyped DEF ChannelsTypeOK, ChannelsInv, Fails, besidesLeave, RouteLives, Leave,
                        socketVars, peerVars, frameVars
<1> USE DEF ChannelsInv, Fails, besidesLeave, RouteLives, Leave, LeaveAll, CloseSessions,
            socketVars, peerVars, frameVars
<1>2. OnlyTouches(c)
  BY DEF ChannelsTypeOK, OnlyTouches
<1>3. RouteOK(c)' /\ SessionOK(c)' /\ QuietBefore(c)'
  BY DEF ChannelsTypeOK, ChannelOK, RouteOK, SessionOK, QuietBefore
<1>4. FramesOK(c)'
  BY DEF ChannelsTypeOK, ChannelOK, RouteOK, SessionOK, QuietBefore, FramesOK, Receives
<1>5. ShutdownOK'
  BY DEF ChannelsTypeOK, ShutdownOK, Held, ChannelOK, RouteOK, SessionOK, QuietBefore
<1> QED
  BY <1>1, <1>2, <1>3, <1>4, <1>5, OneChannel

LEMMA LeaveSessionOK == ASSUME ChannelsInv, NEW c \in Channel, LeaveSession(c) PROVE ChannelsInv'
<1>1. ChannelsTypeOK'
  BY  DEF ChannelsTypeOK, ChannelsInv, LeaveSession, socketVars, peerVars, frameVars
<1> USE DEF ChannelsInv, LeaveSession, socketVars, peerVars, frameVars
<1>2. OnlyTouches(c)
  BY DEF ChannelsTypeOK, OnlyTouches
<1>3. RouteOK(c)' /\ SessionOK(c)' /\ QuietBefore(c)'
  BY DEF ChannelsTypeOK, ChannelOK, RouteOK, SessionOK, QuietBefore
<1>4. FramesOK(c)'
  BY DEF ChannelsTypeOK, ChannelOK, RouteOK, SessionOK, QuietBefore, FramesOK, Receives
<1>5. ShutdownOK'
  BY DEF ChannelsTypeOK, ShutdownOK, Held, ChannelOK, RouteOK, SessionOK, QuietBefore
<1> QED
  BY <1>1, <1>2, <1>3, <1>4, <1>5, OneChannel

LEMMA LeaveSocketOK == ASSUME ChannelsInv, NEW c \in Channel, LeaveSocket(c) PROVE ChannelsInv'
<1>1. ChannelsTypeOK'
  BY  DEF ChannelsTypeOK, ChannelsInv, LeaveSocket, socketVars, peerVars, frameVars
<1> USE DEF ChannelsInv, LeaveSocket, socketVars, peerVars, frameVars
<1>2. OnlyTouches(c)
  BY DEF ChannelsTypeOK, OnlyTouches
<1>3. RouteOK(c)' /\ SessionOK(c)' /\ QuietBefore(c)'
  BY DEF ChannelsTypeOK, ChannelOK, RouteOK, SessionOK, QuietBefore
<1>4. FramesOK(c)'
  BY DEF ChannelsTypeOK, ChannelOK, RouteOK, SessionOK, QuietBefore, FramesOK, Receives
<1>5. ShutdownOK'
  BY DEF ChannelsTypeOK, ShutdownOK, Held, ChannelOK, RouteOK, SessionOK, QuietBefore
<1> QED
  BY <1>1, <1>2, <1>3, <1>4, <1>5, OneChannel

\* closeAll ends many routes at once.
LEMMA CloseAllOK == ASSUME ChannelsInv, CloseAll PROVE ChannelsInv'
<1> DEFINE R == {c \in Held : RouteLives(c)}
<1>1. R \in SUBSET Channel /\ LeaveAll(R, "failed") /\ shutdown = "no" /\ shutdown' = "openings"
  BY DEF CloseAll, Held
<1>2. ChannelsTypeOK'
  BY <1>1, LeavingIsTyped DEF CloseAll, ChannelsInv, ChannelsTypeOK
<1>3. ASSUME NEW c \in Channel PROVE ChannelOK(c)'
  <2>1. /\ socket' = socket /\ admission' = admission /\ openTask' = openTask /\ peer' = peer
        /\ inside' = inside /\ reported' = reported /\ draining' = draining
        /\ accepted' = accepted /\ received' = received
    BY DEF CloseAll
  <2>2. CASE c \in R
    <3>1. /\ route[c] \notin {"none", "closed"} /\ route'[c] = "closed" /\ leaving'[c] = "session"
          /\ managed'[c] = IF managed[c] = "live" THEN "receiving" ELSE managed[c]
          /\ ending'[c] = IF managed[c] = "live" THEN "failed" ELSE ending[c]
      BY <1>1, <2>2 DEF LeaveAll, CloseSessions, RouteLives
    <3>2. RouteOK(c)' /\ SessionOK(c)' /\ QuietBefore(c)'
      BY <2>1, <3>1 DEF ChannelsInv, ChannelOK, RouteOK, SessionOK, QuietBefore
    <3>3. FramesOK(c)'
      BY <2>1, <3>1 DEF ChannelsInv, ChannelOK, FramesOK, Receives
    <3> QED BY <3>2, <3>3 DEF ChannelOK
  <2>3. CASE c \notin R
    <3>1. /\ route'[c] = route[c] /\ leaving'[c] = leaving[c] /\ managed'[c] = managed[c]
          /\ ending'[c] = ending[c] /\ incoming'[c] = incoming[c]
      BY <1>1, <2>3 DEF LeaveAll, CloseSessions
    <3>2. RouteOK(c)' /\ SessionOK(c)' /\ QuietBefore(c)'
      BY <2>1, <3>1 DEF ChannelsInv, ChannelOK, RouteOK, SessionOK, QuietBefore
    <3>3. FramesOK(c)'
      <4>1. FramesOK(c)
        BY DEF ChannelsInv, ChannelOK
      <4> QED BY <2>1, <3>1, <4>1 DEF FramesOK, Receives
    <3> QED BY <3>2, <3>3 DEF ChannelOK
  <2> QED BY <2>2, <2>3
<1>4. ShutdownOK'
  BY <1>1 DEF ShutdownOK
<1> QED
  BY <1>2, <1>3, <1>4 DEF ChannelsInv

\* The waits of closeAll leave the channels as they are.
LEMMA ClosingAllOK ==
  ASSUME ChannelsInv, OpeningsSettle \/ CallbacksSettle \/ AdmissionsReturn \/ UNCHANGED channelVars
  PROVE  ChannelsInv'
<1>1. /\ UNCHANGED <<socketVars, managed, peer, inside, ending, frameVars>>
      /\ reported \subseteq reported'
  BY DEF OpeningsSettle, CallbacksSettle, AdmissionsReturn, channelVars, peerVars
<1>2. ChannelsTypeOK'
  <2>1. reported' \subseteq Channel
    BY DEF ChannelsInv, ChannelsTypeOK, OpeningsSettle, CallbacksSettle, AdmissionsReturn, channelVars,
           peerVars, Unpublished, Held
  <2>2. shutdown' \in {"no", "openings", "callbacks", "admissions", "over"}
    BY DEF ChannelsInv, ChannelsTypeOK, OpeningsSettle, CallbacksSettle, AdmissionsReturn, channelVars
  <2> QED BY <1>1, <2>1, <2>2 DEF ChannelsInv, ChannelsTypeOK, socketVars, frameVars
<1>3. ASSUME NEW c \in Channel PROVE ChannelOK(c)'
  <2>1. RouteOK(c)' /\ SessionOK(c)' /\ QuietBefore(c)'
    BY <1>1 DEF socketVars, frameVars, ChannelsInv, ChannelOK, RouteOK, SessionOK, QuietBefore
  <2>2. FramesOK(c)'
    <3>1. FramesOK(c)
      BY DEF ChannelsInv, ChannelOK
    <3> QED BY <1>1, <3>1 DEF socketVars, frameVars, FramesOK, Receives
  <2> QED BY <2>1, <2>2 DEF ChannelOK
<1>4. ShutdownOK'
  <2>1. CASE CallbacksSettle
    <3>1. ASSUME NEW c \in Channel, c \notin reported'
          PROVE  peer[c] \in {"none", "refused", "closed"}
      BY <2>1, <3>1 DEF CallbacksSettle, Unpublished, ChannelsInv, ChannelsTypeOK, ChannelOK, SessionOK
    <3> QED BY <2>1, <3>1 DEF CallbacksSettle, ChannelsInv, ShutdownOK, socketVars
  <2>2. CASE ~CallbacksSettle
    BY <2>2 DEF ChannelsInv, ShutdownOK, OpeningsSettle, AdmissionsReturn, channelVars, socketVars,
                peerVars, Held
  <2> QED BY <2>1, <2>2
<1> QED
  BY <1>2, <1>3, <1>4 DEF ChannelsInv

LEMMA ChannelsStart == ChannelsInit => ChannelsInv
<1> SUFFICES ASSUME ChannelsInit PROVE ChannelsInv
  OBVIOUS
<1> USE DEF ChannelsInit
<1>1. ChannelsTypeOK
  <2>1. <<>> \in Seq(1..MaxFrames) /\ 0 \in 0..MaxFrames
    BY FramesAssumption
  <2> QED BY <2>1 DEF ChannelsTypeOK
<1>2. ShutdownOK
  BY DEF ShutdownOK
<1>3. ASSUME NEW c \in Channel PROVE ChannelOK(c)
  BY DEF ChannelOK, RouteOK, SessionOK, QuietBefore, FramesOK, Receives
<1> QED
  BY <1>1, <1>2, <1>3 DEF ChannelsInv

LEMMA ChannelsStep == ChannelsInv /\ [ChannelsNext]_channelVars => ChannelsInv'
<1> SUFFICES ASSUME ChannelsInv, [ChannelsNext]_channelVars PROVE ChannelsInv'
  OBVIOUS
<1>1. ASSUME NEW c \in Channel,
             Connect(c) \/ ReceivesOpen(c) \/ BeginsOpening(c) \/ CallsPlugin(c) \/ Opens(c)
               \/ OpenFails(c) \/ OpensLate(c)
      PROVE  ChannelsInv'
  BY <1>1, ConnectOK, ReceivesOpenOK, BeginsOpeningOK, CallsPluginOK, OpensOK, OpenFailsOK, OpensLateOK
<1>2. ASSUME NEW c \in Channel,
             Frame(c) \/ Looks(c) \/ ReceiveReturns(c) \/ ReceiveThrows(c) \/ PeerReceives(c)
               \/ Finishes(c)
      PROVE  ChannelsInv'
  BY <1>2, FrameOK, LooksOK, ReceiveReturnsOK, ReceiveThrowsOK, PeerReceivesOK, FinishesOK
<1>3. ASSUME NEW c \in Channel,
             BrowserCloses(c) \/ DrainEnds(c) \/ DrainFails(c) \/ SessionEnds(c) \/ HangsUp(c)
      PROVE  ChannelsInv'
  BY <1>3, BrowserClosesOK, DrainEndsOK, DrainFailsOK, SessionEndsOK, HangsUpOK
<1>4. ASSUME NEW c \in Channel,
             ClosePeer(c) \/ PeerCloses(c) \/ Released(c) \/ Fails(c) \/ LeaveSession(c)
               \/ LeaveSocket(c)
      PROVE  ChannelsInv'
  BY <1>4, ClosePeerOK, PeerClosesOK, ReleasedOK, FailsOK, LeaveSessionOK, LeaveSocketOK
<1>5. CASE \/ CloseAll \/ OpeningsSettle \/ CallbacksSettle \/ AdmissionsReturn
           \/ UNCHANGED channelVars
  BY <1>5, CloseAllOK, ClosingAllOK
<1> QED
  BY <1>1, <1>2, <1>3, <1>4, <1>5 DEF ChannelsNext

LEMMA ChannelsAlways == ChannelsSpec => []ChannelsInv
<1> QED BY ChannelsStart, ChannelsStep, PTL DEF ChannelsSpec

\* Frames arrive in order and each once; a page that closes well has had all received.
THEOREM EveryFrameArrives == ChannelsSpec => []FramesArrive
<1>1. ChannelsInv => FramesArrive
  BY DEF ChannelsInv, ChannelOK, FramesOK, FramesArrive
<1> QED BY <1>1, ChannelsAlways, PTL

\* An admission is given to another channel only when socket and session are gone.
THEOREM AdmissionsAreCovered == ChannelsSpec => []AdmissionCoversChannel
<1>1. ChannelsInv => AdmissionCoversChannel
  BY DEF ChannelsInv, ChannelOK, RouteOK, AdmissionCoversChannel
<1> QED BY <1>1, ChannelsAlways, PTL

\* What runs in a plugin behind the end of closeAll has been reported.
THEOREM ShutdownLeavesNothing == ChannelsSpec => []ShutdownIsComplete
<1>1. ChannelsInv => ShutdownIsComplete
  <2> SUFFICES ASSUME ChannelsInv, shutdown = "over", NEW c \in Channel \ reported
               PROVE  /\ peer[c] \in {"none", "refused", "closed"} /\ c \notin inside
                      /\ admission[c] # "held"
    BY DEF ShutdownIsComplete
  <2>1. peer[c] \in {"none", "refused", "closed"} /\ c \notin Held /\ managed[c] \in {"none", "gone"}
    BY DEF ChannelsInv, ShutdownOK
  <2> QED BY <2>1 DEF ChannelsInv, ChannelOK, SessionOK, Held
<1> QED BY <1>1, ChannelsAlways, PTL

=============================================================================
