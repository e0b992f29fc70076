---------------------------- MODULE PluginChannels ----------------------------
(***************************************************************************)
(* Channels between a page of a plugin and its backend in the daemon:      *)
(* the route that owns the socket                                          *)
(* (src/src/server/sessiond/pluginBackendChannelRoutes.ts), and the        *)
(* registry that opens, closes and counts what plugins hold                *)
(* (src/src/server/plugins/pluginBackendRegistry.ts).  Callbacks of        *)
(* plugins may throw, go on behind a deadline, or open a channel nobody    *)
(* waits for any more.                                                     *)
(*                                                                         *)
(* A frame is its number.  The continuation of a promise that has settled  *)
(* runs before the next event: what separates the answer of openChannel    *)
(* from the session of the route is one step.                              *)
(***************************************************************************)
EXTENDS Naturals, Sequences, FiniteSets

CONSTANTS
  Channel,
  MaxAdmissions,  \* channelMaxTotal
  MaxFrames       \* bound: frames of a channel

ASSUME FramesAssumption == MaxFrames \in Nat

VARIABLES
  socket,     \* channel -> "none", "open", or "closed"
  route,      \* channel -> state of its socket controller
  leaving,    \* channel -> what its fail or onClosed awaits
  admission,  \* channel -> "none", "held" or "released"
  openTask,   \* channel -> the await of the route's open, "none" outside of it
  managed,    \* channel -> the session that the registry has, by what its close awaits
  peer,       \* channel -> what the plugin has
  inside,     \* the channels whose receive callback runs in the plugin
  incoming,   \* channel -> the frames that wait, the one being received first
  draining,   \* channel -> how far its incomingDrainTask is, "none" if there is none
  shutdown,   \* what closeAll awaits, "no" before it
  accepted,   \* history: channel -> how many frames the route has taken
  received,   \* history: channel -> the frames the plugin was called with
  ending,     \* history: channel -> with what the session was closed first
  reported    \* history: the channels whose cleanup has failed

socketVars == <<socket, route, leaving, admission, openTask>>
peerVars == <<managed, peer, inside, ending, reported>>
frameVars == <<incoming, draining, accepted, received>>
channelVars == <<socketVars, peerVars, frameVars, shutdown>>

\* What the end of a route leaves alone, apart from its socket.
besidesLeave == <<admission, openTask, peer, inside, reported, draining, accepted, received, shutdown>>

Held == {c \in Channel : admission[c] = "held"}

-----------------------------------------------------------------------------
(* PluginBackendRegistry and ManagedPluginBackendChannel: close *)

\* close of the sessions S, or nothing for those that close already.
CloseSessions(S, how) ==
  LET L == {c \in S : managed[c] = "live"} IN
  /\ managed' = [c \in Channel |-> IF c \in L THEN "receiving" ELSE managed[c]]
  /\ ending' = [c \in Channel |-> IF c \in L THEN how ELSE ending[c]]

CloseSession(c, how) == CloseSessions({c}, how)

\* performClose: receive callbacks have settled, or their deadline passes.
ClosePeer(c) ==
  /\ managed[c] = "receiving"
  /\ reported' = IF c \in inside THEN reported \cup {c} ELSE reported
  /\ managed' = [managed EXCEPT ![c] = "closing"] /\ peer' = [peer EXCEPT ![c] = "closing"]
  /\ UNCHANGED <<socketVars, inside, ending, frameVars, shutdown>>

\* The close callback of the plugin returns or throws.
PeerCloses(c) ==
  /\ peer[c] = "closing" /\ peer' = [peer EXCEPT ![c] = "closed"]
  /\ UNCHANGED <<socketVars, managed, inside, ending, reported, frameVars, shutdown>>

\* onReleased
Released(c) ==
  /\ managed[c] = "closing" /\ managed' = [managed EXCEPT ![c] = "gone"]
  /\ IF peer[c] = "closed" THEN reported' \in {reported, reported \cup {c}}
     ELSE reported' = reported \cup {c}
  /\ UNCHANGED <<socketVars, peer, inside, ending, frameVars, shutdown>>

-----------------------------------------------------------------------------
(* The ends of a route: fail and onClosed *)

\* The part of both that runs at once, for the routes R.
LeaveAll(R, how) ==
  /\ route' = [c \in Channel |-> IF c \in R THEN "closed" ELSE route[c]]
  /\ leaving' = [c \in Channel |-> IF c \in R THEN "session" ELSE leaving[c]]
  /\ incoming' = [c \in Channel |-> IF c \in R THEN <<>> ELSE incoming[c]]
  /\ CloseSessions(R, how)

Leave(c, how) == LeaveAll({c}, how)

RouteLives(c) == route[c] \notin {"none", "closed"}

\* fail, for a frame that is not allowed, a full queue, or the deadline of the handshake.
Fails(c) ==
  /\ RouteLives(c) /\ socket[c] = "open" /\ Leave(c, "failed")
  /\ UNCHANGED <<socket, besidesLeave>>

\* Mutant of LeaveSession: the close of the session is not awaited.
LeaveAtOnce(c) ==
  /\ leaving[c] = "session"
  /\ leaving' = [leaving EXCEPT ![c] = "socket"]
  /\ UNCHANGED <<socket, route, admission, openTask, peerVars, frameVars, shutdown>>

\* The session has been closed and the writer closes the socket, if that is not closed.
LeaveSession(c) ==
  /\ leaving[c] = "session" /\ managed[c] \in {"none", "gone"}
  /\ leaving' = [leaving EXCEPT ![c] = "socket"]
  /\ UNCHANGED <<socket, route, admission, openTask, peerVars, frameVars, shutdown>>

LeaveSocket(c) ==
  /\ leaving[c] = "socket" /\ socket' = [socket EXCEPT ![c] = "closed"]
  /\ leaving' = [leaving EXCEPT ![c] = "over"]
  /\ admission' = [admission EXCEPT ![c] = IF @ = "held" THEN "released" ELSE @]
  /\ UNCHANGED <<route, openTask, peerVars, frameVars, shutdown>>

-----------------------------------------------------------------------------
(* Opening *)

Connect(c) ==
  /\ socket[c] = "none" /\ socket' = [socket EXCEPT ![c] = "open"]
  /\ IF shutdown = "no" /\ Cardinality(Held) < MaxAdmissions
     THEN /\ admission' = [admission EXCEPT ![c] = "held"]
          /\ route' = [route EXCEPT ![c] = "awaiting-open"] /\ UNCHANGED leaving
     ELSE /\ route' = [route EXCEPT ![c] = "closed"]
          /\ leaving' = [leaving EXCEPT ![c] = "session"] /\ UNCHANGED admission
  /\ UNCHANGED <<openTask, peerVars, frameVars, shutdown>>

\* The open envelope; the project is looked up.
ReceivesOpen(c) ==
  /\ route[c] = "awaiting-open" /\ socket[c] = "open"
  /\ route' = [route EXCEPT ![c] = "opening"] /\ openTask' = [openTask EXCEPT ![c] = "project"]
  /\ UNCHANGED <<socket, leaving, admission, peerVars, frameVars, shutdown>>

\* openChannel begins, unless the registry shuts down.
BeginsOpening(c) ==
  /\ openTask[c] = "project" /\ shutdown = "no" /\ RouteLives(c)
  /\ openTask' = [openTask EXCEPT ![c] = "scope"]
  /\ UNCHANGED <<socket, route, leaving, admission, peerVars, frameVars, shutdown>>

\* The scope is resolved and the plugin is called; an aborted resolution throws.
CallsPlugin(c) ==
  /\ openTask[c] = "scope" /\ RouteLives(c)
  /\ openTask' = [openTask EXCEPT ![c] = "plugin"] /\ peer' = [peer EXCEPT ![c] = "called"]
  /\ UNCHANGED <<socket, route, leaving, admission, managed, inside, ending, reported, frameVars, shutdown>>

\* The plugin answers in time: the channel is registered and the route is ready.
Opens(c) ==
  /\ openTask[c] = "plugin" /\ peer[c] = "called" /\ RouteLives(c)
  /\ openTask' = [openTask EXCEPT ![c] = "none"] /\ route' = [route EXCEPT ![c] = "ready"]
  /\ managed' = [managed EXCEPT ![c] = "live"] /\ peer' = [peer EXCEPT ![c] = "open"]
  /\ UNCHANGED <<socket, leaving, admission, inside, ending, reported, frameVars, shutdown>>

\* A lookup or the plugin fails, a deadline passes or the lifetime is aborted.
OpenFails(c) ==
  /\ openTask[c] # "none" /\ openTask' = [openTask EXCEPT ![c] = "none"]
  /\ peer' \in {peer, [peer EXCEPT ![c] = IF @ = "called" THEN "refused" ELSE @]}
  /\ IF RouteLives(c) THEN Leave(c, "failed")
     ELSE UNCHANGED <<route, leaving, incoming, managed, ending>>
  /\ UNCHANGED <<socket, admission, inside, reported, draining, accepted, received, shutdown>>

\* openingChannel settles when nobody waits for it: closeUnpublishedChannel.
OpensLate(c) ==
  /\ openTask[c] = "none" /\ peer[c] = "called"
  /\ peer' \in {[peer EXCEPT ![c] = "closing"], [peer EXCEPT ![c] = "refused"]}
  /\ UNCHANGED <<socketVars, managed, inside, ending, reported, frameVars, shutdown>>

-----------------------------------------------------------------------------
(* Frames *)

Receives(c) == route[c] \in {"ready", "draining-close"}

Frame(c) ==
  /\ route[c] = "ready" /\ socket[c] = "open" /\ accepted[c] < MaxFrames
  /\ accepted' = [accepted EXCEPT ![c] = @ + 1]
  /\ incoming' = [incoming EXCEPT ![c] = Append(@, accepted[c] + 1)]
  /\ draining' = [draining EXCEPT ![c] = IF @ = "none" THEN "looking" ELSE @]
  /\ UNCHANGED <<socketVars, peerVars, received, shutdown>>

\* drainIncoming takes its first frame to session.receive, which calls the plugin unless
\* the session is closed.
Looks(c) ==
  /\ draining[c] = "looking"
  /\ IF ~Receives(c) \/ incoming[c] = <<>>
     THEN draining' = [draining EXCEPT ![c] = "returned"] /\ UNCHANGED <<inside, received>>
     ELSE /\ draining' = [draining EXCEPT ![c] = "receiving"]
          /\ IF managed[c] # "live" THEN UNCHANGED <<inside, received>>
             ELSE /\ inside' = inside \cup {c}
                  /\ received' = [received EXCEPT ![c] = Append(@, Head(incoming[c]))]
  /\ UNCHANGED <<socketVars, managed, peer, ending, reported, incoming, accepted, shutdown>>

Shift(c) == incoming' = [incoming EXCEPT ![c] = IF @ = <<>> THEN <<>> ELSE Tail(@)]

ReceiveReturns(c) ==
  /\ draining[c] = "receiving" /\ managed[c] = "live" /\ c \in inside
  /\ inside' = inside \ {c} /\ Shift(c)
  /\ draining' = [draining EXCEPT ![c] = "looking"]
  /\ UNCHANGED <<socketVars, managed, peer, ending, reported, accepted, received, shutdown>>

\* The callback throws, its deadline passes or the session closes.
ReceiveThrows(c) ==
  /\ draining[c] = "receiving"
  /\ inside' \in {inside, inside \ {c}}
  /\ draining' = [draining EXCEPT ![c] = IF route[c] = "draining-close" THEN "threw" ELSE "returned"]
  /\ IF route[c] = "ready" THEN Leave(c, "failed")
     ELSE Shift(c) /\ UNCHANGED <<route, leaving, managed, ending>>
  /\ UNCHANGED <<socket, admission, openTask, peer, reported, accepted, received, shutdown>>

\* A callback settles that its task has given up.
PeerReceives(c) ==
  /\ c \in inside /\ draining[c] # "receiving"
  /\ inside' = inside \ {c}
  /\ UNCHANGED <<socketVars, managed, peer, ending, reported, frameVars, shutdown>>

\* The task has returned; frames that came after its last look start another.
Finishes(c) ==
  /\ draining[c] = "returned"
  /\ draining' = [draining EXCEPT ![c] =
       IF incoming[c] # <<>> /\ Receives(c) THEN "looking" ELSE "none"]
  /\ UNCHANGED <<socketVars, peerVars, incoming, accepted, received, shutdown>>

-----------------------------------------------------------------------------
(* The socket and the session end *)

\* onClosed: with 1000 what was accepted is received first.
SocketCloses(c, clean) ==
  /\ socket[c] = "open" /\ socket' = [socket EXCEPT ![c] = "closed"]
  /\ IF clean /\ route[c] = "ready"
     THEN /\ route' = [route EXCEPT ![c] = "draining-close"]
          /\ UNCHANGED <<leaving, incoming, managed, ending>>
     ELSE IF RouteLives(c) THEN Leave(c, "failed")
     ELSE UNCHANGED <<route, leaving, incoming, managed, ending>>

BrowserCloses(c) ==
  /\ \E clean \in BOOLEAN : SocketCloses(c, clean)
  /\ UNCHANGED besidesLeave

\* Mutant of DrainEnds: what waits is not received any more.
DrainEndsAtOnce(c) ==
  /\ route[c] = "draining-close" /\ Leave(c, "clean")
  /\ UNCHANGED <<socket, besidesLeave>>

\* awaitIncomingDrain
DrainEnds(c) ==
  /\ route[c] = "draining-close" /\ incoming[c] = <<>> /\ draining[c] = "none"
  /\ Leave(c, "clean")
  /\ UNCHANGED <<socket, besidesLeave>>

\* A receive has thrown, or the deadline of the drain passes.
DrainFails(c) ==
  /\ route[c] = "draining-close" /\ Leave(c, "failed")
  /\ UNCHANGED <<socket, besidesLeave>>

\* The plugin completes the channel, or it fails in sending or by its lifetime.
SessionEnds(c) ==
  /\ managed[c] = "live" /\ \E how \in {"completed", "failed"} : CloseSession(c, how)
  /\ UNCHANGED <<socketVars, peer, inside, reported, frameVars, shutdown>>

\* When such a session is closed it closes its socket.
HangsUp(c) ==
  /\ managed[c] = "gone" /\ RouteLives(c)
  /\ \E clean \in BOOLEAN : SocketCloses(c, clean) /\ (clean => ending[c] = "completed")
  /\ UNCHANGED besidesLeave

-----------------------------------------------------------------------------
(* closeAll *)

\* Admissions and openings are aborted, which ends their routes.
CloseAll ==
  /\ shutdown = "no" /\ shutdown' = "openings"
  /\ LeaveAll({c \in Held : RouteLives(c)}, "failed")
  /\ UNCHANGED <<socket, admission, openTask, peer, inside, reported, draining, accepted, received>>

OpeningsSettle ==
  /\ shutdown = "openings" /\ \A c \in Channel : openTask[c] \notin {"scope", "plugin"}
  /\ shutdown' = "callbacks"
  /\ UNCHANGED <<socketVars, peerVars, frameVars>>

\* Mutant of Unpublished: only late closes are tracked, not the openings that lead to them.
LateCloses == {c \in Channel : managed[c] = "none" /\ peer[c] = "closing"}

\* openingChannelCleanup
Unpublished == {c \in Channel : managed[c] = "none" /\ peer[c] \in {"called", "closing"}}

\* All have settled, or their deadline has passed and closeAll will throw.
CallbacksSettle ==
  /\ shutdown = "callbacks" /\ \A c \in Channel : managed[c] \in {"none", "gone"}
  /\ shutdown' = "admissions" /\ reported' = reported \cup Unpublished
  /\ UNCHANGED <<socketVars, managed, peer, inside, ending, frameVars>>

AdmissionsReturn ==
  /\ shutdown = "admissions" /\ shutdown' = "over" /\ reported' = reported \cup Held
  /\ UNCHANGED <<socketVars, managed, peer, inside, ending, frameVars>>

-----------------------------------------------------------------------------

ChannelsInit ==
  /\ socket = [c \in Channel |-> "none"] /\ route = [c \in Channel |-> "none"]
  /\ leaving = [c \in Channel |-> "none"] /\ admission = [c \in Channel |-> "none"]
  /\ openTask = [c \in Channel |-> "none"] /\ managed = [c \in Channel |-> "none"]
  /\ peer = [c \in Channel |-> "none"] /\ inside = {} /\ shutdown = "no"
  /\ incoming = [c \in Channel |-> <<>>] /\ draining = [c \in Channel |-> "none"]
  /\ accepted = [c \in Channel |-> 0] /\ received = [c \in Channel |-> <<>>]
  /\ ending = [c \in Channel |-> "none"] /\ reported = {}

ChannelsNext ==
  \/ \E c \in Channel :
       \/ Connect(c) \/ ReceivesOpen(c) \/ BeginsOpening(c) \/ CallsPlugin(c)
       \/ Opens(c) \/ OpenFails(c) \/ OpensLate(c)
       \/ Frame(c) \/ Looks(c) \/ ReceiveReturns(c) \/ ReceiveThrows(c) \/ PeerReceives(c)
       \/ Finishes(c) \/ BrowserCloses(c) \/ DrainEnds(c) \/ DrainFails(c)
       \/ SessionEnds(c) \/ HangsUp(c) \/ ClosePeer(c) \/ PeerCloses(c) \/ Released(c)
       \/ Fails(c) \/ LeaveSession(c) \/ LeaveSocket(c)
  \/ CloseAll \/ OpeningsSettle \/ CallbacksSettle \/ AdmissionsReturn

ChannelsSpec == ChannelsInit /\ [][ChannelsNext]_channelVars

-----------------------------------------------------------------------------
(* What pages, plugins and the shutdown rely on *)

\* Every variable holds a value of its kind.
ChannelsTypeOK ==
  /\ socket \in [Channel -> {"none", "open", "closed"}]
  /\ route \in [Channel -> {"none", "awaiting-open", "opening", "ready", "draining-close", "closed"}]
  /\ leaving \in [Channel -> {"none", "session", "socket", "over"}]
  /\ admission \in [Channel -> {"none", "held", "released"}]
  /\ openTask \in [Channel -> {"none", "project", "scope", "plugin"}]
  /\ managed \in [Channel -> {"none", "live", "receiving", "closing", "gone"}]
  /\ peer \in [Channel -> {"none", "called", "refused", "open", "closing", "closed"}]
  /\ draining \in [Channel -> {"none", "looking", "receiving", "returned", "threw"}]
  /\ ending \in [Channel -> {"none", "clean", "completed", "failed"}]
  /\ shutdown \in {"no", "openings", "callbacks", "admissions", "over"}
  /\ inside \subseteq Channel /\ reported \subseteq Channel
  /\ incoming \in [Channel -> Seq(1..MaxFrames)] /\ received \in [Channel -> Seq(1..MaxFrames)]
  /\ accepted \in [Channel -> 0..MaxFrames]

\* The plugin receives frames in order and each once, and a page that closes its channel
\* well has had all of them received: otherwise the plugin is told of another end.
FramesArrive ==
  \A c \in Channel :
    /\ \A i \in DOMAIN received[c] : received[c][i] = i
    /\ ending[c] = "clean" => Len(received[c]) = accepted[c] /\ c \notin inside

\* What an admission was given for is gone when another channel may have it: its socket,
\* and the session of the plugin with the callbacks it waited for.
AdmissionCoversChannel ==
  \A c \in Channel : admission[c] = "released" =>
    socket[c] = "closed" /\ managed[c] \in {"none", "gone"}

\* When closeAll is over nothing of a channel runs in a plugin, which is disposed of next,
\* also if it opened when nobody waited any more, unless a failure was reported.
ShutdownIsComplete ==
  shutdown = "over" =>
    \A c \in Channel \ reported :
      peer[c] \in {"none", "refused", "closed"} /\ c \notin inside /\ admission[c] # "held"

=============================================================================
