---------------------------- MODULE PluginRuntime ----------------------------
(***************************************************************************)
(* The lifetimes of server plugins                                         *)
(* (src/src/server/plugins/serverPluginRuntime.ts).  Plugins are staged,   *)
(* which tells what capabilities they require, then started in rounds as   *)
(* their requirements become active.  Some capabilities of the host come   *)
(* late, when the topology of workspaces is complete; plugins that need    *)
(* one stay staged until then.  A shutdown disposes of them in reverse.    *)
(*                                                                         *)
(* Each plugin provides one capability.  Those that the host has from the  *)
(* beginning keep nobody waiting and are left out.  Callbacks of plugins   *)
(* end in time or are given up by a deadline.                              *)
(***************************************************************************)
EXTENDS Naturals, Sequences, FiniteSets

CONSTANTS
  Plugin,
  Terminal,  \* REQUIRED_TERMINAL_PLUGIN_ID
  Late       \* a capability of the host that is registered late

ASSUME LateAssumption == Late \notin Plugin
ASSUME PluginAssumption == IsFiniteSet(Plugin)

VARIABLES
  boot,       \* how far the construction of the runtime is
  lifecycle,  \* plugin -> how far it is
  needs,      \* plugin -> the plugins whose capability it requires, and perhaps Late
  providers,  \* the plugins that contribute a workspace provider
  order,      \* activePlugins
  todo,       \* the candidates of this round that have not been looked at
  progressed, \* whether this round has started or failed one
  faulty      \* history: the plugins whose own code or entry was at fault

pluginVars == <<boot, lifecycle, needs, providers, order, todo, progressed, faulty>>

Staged == {p \in Plugin : lifecycle[p] = "staged"}
Declared == {p \in Plugin : lifecycle[p] \notin {"listed", "rejected"}}

\* Construction ends when the terminal is not among those that work.
Throws(failed) == Terminal \in failed

-----------------------------------------------------------------------------
(* stageEntry *)

\* The entry is imported, activated and validated.
StageEntry(p) ==
  /\ boot = "staging" /\ lifecycle[p] = "listed"
  /\ lifecycle' = [lifecycle EXCEPT ![p] = "staged"]
  /\ \E R \in SUBSET (Plugin \cup {Late}) : needs' = [needs EXCEPT ![p] = R]
  /\ providers' \in {providers, providers \cup {p}}
  /\ UNCHANGED <<boot, order, todo, progressed, faulty>>

RejectEntry(p) ==
  /\ boot = "staging" /\ lifecycle[p] = "listed"
  /\ lifecycle' = [lifecycle EXCEPT ![p] = "rejected"] /\ faulty' = faulty \cup {p}
  /\ boot' = IF Throws({p}) THEN "broken" ELSE boot
  /\ UNCHANGED <<needs, providers, order, todo, progressed>>

BeginStarting ==
  /\ boot = "staging" /\ \A p \in Plugin : lifecycle[p] # "listed"
  /\ boot' = "early" /\ todo' = Staged /\ progressed' = FALSE
  /\ UNCHANGED <<lifecycle, needs, providers, order, faulty>>

-----------------------------------------------------------------------------
(* startStagedPlugins *)

BringingUp == boot \in {"early", "late"}

\* dependencyFailure
Unavailable(p) ==
  \E q \in needs[p] \ {Late} : q \notin Declared \/ lifecycle[q] \notin {"staged", "active"}

\* waitingForDependencies
Waiting(p) ==
  \E q \in needs[p] : IF q = Late THEN boot = "early" ELSE lifecycle[q] # "active"

\* failBeforeStart, for each of them.
FailBeforeStart(F) ==
  /\ lifecycle' = [p \in Plugin |-> IF p \in F THEN "failed" ELSE lifecycle[p]]
  /\ boot' = IF Throws(F) THEN "broken" ELSE boot
  /\ todo' = todo \ F /\ progressed' = TRUE
  /\ UNCHANGED <<needs, providers, order>>

LookAt(p) == BringingUp /\ p \in todo

FailDependent(p) ==
  /\ LookAt(p) /\ Unavailable(p) /\ FailBeforeStart({p}) /\ UNCHANGED faulty

PassOver(p) ==
  /\ LookAt(p) /\ ~Unavailable(p) /\ Waiting(p)
  /\ todo' = todo \ {p}
  /\ UNCHANGED <<boot, lifecycle, needs, providers, order, progressed, faulty>>

\* startStagedPlugin: the start callback returns, and publish.
StartStagedPlugin(p) ==
  /\ LookAt(p) /\ ~Unavailable(p) /\ ~Waiting(p)
  /\ lifecycle' = [lifecycle EXCEPT ![p] = "active"] /\ order' = Append(order, p)
  /\ todo' = todo \ {p} /\ progressed' = TRUE
  /\ UNCHANGED <<boot, needs, providers, faulty>>

StartThrows(p) ==
  /\ LookAt(p) /\ ~Unavailable(p) /\ ~Waiting(p)
  /\ faulty' = faulty \cup {p} /\ FailBeforeStart({p})

AnotherRound ==
  /\ BringingUp /\ todo = {} /\ progressed /\ Staged # {}
  /\ todo' = Staged /\ progressed' = FALSE
  /\ UNCHANGED <<boot, lifecycle, needs, providers, order, faulty>>

\* findCapabilityCycle returns one of these: each requires the next, and fewer do not close.
IsCycle(C) ==
  \E next \in [C -> C] :
    /\ C # {} /\ \A p \in C : next[p] \in needs[p]
    /\ \A S \in SUBSET C : S # {} /\ (\A p \in S : next[p] \in S) => S = C

\* Mutant of ReachesLate: only what it requires itself.
RequiresLate(p) == Late \in needs[p]

\* findLateHostDependency: whatever holds p and what its members require of each other
\* has a member that requires Late.
ReachesLate(p) ==
  \A S \in SUBSET Staged :
    p \in S /\ (\A q \in S : needs[q] \cap Staged \subseteq S) => \E q \in S : Late \in needs[q]

Cycles == {C \in SUBSET Staged : IsCycle(C)}
LateProviders == {p \in Staged \cap providers : ReachesLate(p)}

\* What a round without progress fails: a cycle, the workspace providers that wait for a
\* late capability, or the first of the rest.
Hopeless ==
  IF Cycles # {} THEN Cycles
  ELSE IF boot = "early" /\ LateProviders # {} THEN {LateProviders}
  ELSE IF boot = "early" /\ \A p \in Staged : ReachesLate(p) THEN {}
  ELSE {{p} : p \in Staged}

\* Those behind the terminal are not reached.
GiveUp ==
  /\ BringingUp /\ todo = {} /\ ~progressed
  /\ \E F \in Hopeless : \E G \in SUBSET F :
       /\ IF Throws(F) THEN Throws(G) ELSE G = F
       /\ FailBeforeStart(G)
  /\ UNCHANGED faulty

\* The terminal must be active now.
EarlyEnds ==
  /\ boot = "early" /\ todo = {} /\ (Staged # {} => ~progressed /\ Hopeless = {})
  /\ boot' = IF Terminal \in Plugin /\ lifecycle[Terminal] # "active" THEN "broken" ELSE "waiting"
  /\ UNCHANGED <<lifecycle, needs, providers, order, todo, progressed, faulty>>

\* resumeWithHostCapabilityFactories
ResumeStaged ==
  /\ boot = "waiting"
  /\ boot' = "late" /\ todo' = Staged /\ progressed' = FALSE
  /\ UNCHANGED <<lifecycle, needs, providers, order, faulty>>

LateEnds ==
  /\ boot = "late" /\ Staged = {} /\ todo = {}
  /\ boot' = "up"
  /\ UNCHANGED <<lifecycle, needs, providers, order, todo, progressed, faulty>>

-----------------------------------------------------------------------------
(* stop; signals that come while the daemon starts wait for its end *)

StopPlugins ==
  /\ boot \in {"waiting", "up", "broken"}
  /\ boot' = "stopping"
  /\ UNCHANGED <<lifecycle, needs, providers, order, todo, progressed, faulty>>

\* disposeForShutdown of one that never started.
DisposeStaged(p) ==
  /\ boot = "stopping" /\ lifecycle[p] = "staged"
  /\ lifecycle' = [lifecycle EXCEPT ![p] = "gone"]
  /\ UNCHANGED <<boot, needs, providers, order, todo, progressed, faulty>>

\* Mutant of DisposeActive: in the order in which they were started.
DisposeOldest(p) ==
  /\ boot = "stopping" /\ Staged = {} /\ order # <<>> /\ p = order[1]
  /\ lifecycle' = [lifecycle EXCEPT ![p] = "disposing"]
  /\ \A q \in Plugin : lifecycle[q] # "disposing"
  /\ UNCHANGED <<boot, needs, providers, order, todo, progressed, faulty>>

\* disposeForShutdown of the one that was started last, and when it has returned.
DisposeActive(p) ==
  /\ boot = "stopping" /\ Staged = {} /\ order # <<>> /\ p = order[Len(order)]
  /\ lifecycle' = [lifecycle EXCEPT ![p] = "disposing"]
  /\ \A q \in Plugin : lifecycle[q] # "disposing"
  /\ UNCHANGED <<boot, needs, providers, order, todo, progressed, faulty>>

DisposeReturns(p) ==
  /\ lifecycle[p] = "disposing"
  /\ lifecycle' = [lifecycle EXCEPT ![p] = "gone"] /\ order' = SubSeq(order, 1, Len(order) - 1)
  /\ UNCHANGED <<boot, needs, providers, todo, progressed, faulty>>

-----------------------------------------------------------------------------

PluginsInit ==
  /\ boot = "staging" /\ lifecycle = [p \in Plugin |-> "listed"]
  /\ needs = [p \in Plugin |-> {}] /\ providers = {} /\ order = <<>>
  /\ todo = {} /\ progressed = FALSE /\ faulty = {}

PluginsNext ==
  \/ \E p \in Plugin :
       \/ StageEntry(p) \/ RejectEntry(p)
       \/ FailDependent(p) \/ PassOver(p) \/ StartStagedPlugin(p) \/ StartThrows(p)
       \/ DisposeStaged(p) \/ DisposeActive(p) \/ DisposeReturns(p)
  \/ BeginStarting \/ AnotherRound \/ GiveUp \/ EarlyEnds \/ ResumeStaged \/ LateEnds \/ StopPlugins

PluginsSpec == PluginsInit /\ [][PluginsNext]_pluginVars

-----------------------------------------------------------------------------
(* What plugins may rely on *)

\* Every variable holds a value of its kind.
PluginsTypeOK ==
  /\ boot \in {"staging", "early", "waiting", "late", "up", "broken", "stopping"}
  /\ lifecycle \in [Plugin -> {"listed", "rejected", "staged", "active", "failed", "disposing", "gone"}]
  /\ needs \in [Plugin -> SUBSET (Plugin \cup {Late})]
  /\ providers \subseteq Plugin /\ todo \subseteq Plugin /\ faulty \subseteq Plugin
  /\ order \in Seq(Plugin) /\ progressed \in BOOLEAN

\* A plugin that works, or is being disposed of after it has worked, can use the plugins
\* that it requires: none of them is disposed of before it, whichever way it started.
ProvidersOutliveDependents ==
  \A p \in Plugin : lifecycle[p] \in {"active", "disposing"} =>
    \A q \in needs[p] \ {Late} : lifecycle[q] = "active"

\* All that p requires, directly or not.
Upstream(p) ==
  {q \in Plugin : \A S \in SUBSET Plugin :
     (\A r \in S \cup {p} : needs[r] \ {Late} \subseteq S) => q \in S}

\* A plugin that starts without a fault of its own fails only if a plugin it requires has
\* not come up, if it requires itself in the end, or if the topology would wait for a
\* capability that waits for the topology.
NobodyFailsForNothing ==
  \A p \in Plugin : lifecycle[p] = "failed" /\ p \notin faulty =>
    \/ \E q \in needs[p] \ {Late} : lifecycle[q] \in {"rejected", "failed"}
    \/ p \in Upstream(p)
    \/ p \in providers /\ \E q \in Upstream(p) \cup {p} : Late \in needs[q]

=============================================================================
