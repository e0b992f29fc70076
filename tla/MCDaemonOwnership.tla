-------------------------- MODULE MCDaemonOwnership --------------------------
(* A few daemons of one data directory; a few requests to one session of the  *)
(* daemon that owns it; its server plugins, how they start and stop; and the  *)
(* channels of one of them that pages hold, with frames in one of them.       *)
(* focus is the component that moves.                                         *)
EXTENDS DaemonOwnership, SessionRuntimes, PluginRuntime, PluginChannels, TLC

CONSTANTS d1, d2, d3, p1, p2, q1, q2, q3, v1, v2, v3, x1, x2, x3, h1, h2

VARIABLE focus

MCInit ==
  /\ focus \in {"ownership", "runtimes", "plugins", "channels"}
  /\ Init /\ RuntimesInit /\ PluginsInit /\ ChannelsInit

MCNext ==
  \/ /\ focus = "ownership" /\ Next
     /\ UNCHANGED <<runtimeVars, pluginVars, channelVars, focus>>
  \/ /\ focus = "runtimes" /\ RuntimesNext
     /\ UNCHANGED <<vars, pluginVars, channelVars, focus>>
  \/ /\ focus = "plugins" /\ PluginsNext
     /\ UNCHANGED <<vars, runtimeVars, channelVars, focus>>
  \/ /\ focus = "channels" /\ ChannelsNext /\ \E c \in Channel : accepted'[c] = 0
     /\ UNCHANGED <<vars, runtimeVars, pluginVars, focus>>

MCSpec == MCInit /\ [][MCNext]_<<vars, runtimeVars, pluginVars, channelVars, focus>>

MCSymmetry == Permutations(Daemon)

=============================================================================
