--------------------------- MODULE UnreadProjection ---------------------------
(***************************************************************************)
(* The browser's projection of one daemon's unread catalog                 *)
(* (src/src/client/src/sessionUnread.ts) over the realtime socket and the   *)
(* HTTP requests that feed it.  The daemon is UnreadFeed.                   *)
(*                                                                         *)
(* The contents of a projection are the set of revisions it was built from:*)
(* a snapshot holds every revision up to its own, an event adds one.  The  *)
(* code compares projectionVersion only for equality with the value a      *)
(* request started with; a request here carries "moved" instead.           *)
(***************************************************************************)
EXTENDS UnreadFeed, Sequences, SequencesExt

CONSTANTS
  Get,          \* the reader of the refresh loop; the others are writes
  MaxBuffered,  \* MAX_BUFFERED_NETWORK_EVENTS
  Length        \* bound: the epochs, a sequence of how many revisions each can have

ASSUME GetAssumption == Get \in Reader
ASSUME NoneAssumption == None \notin Nat \cup [epoch : Nat, revision : Nat, holds : SUBSET Nat]
ASSUME BufferAssumption == MaxBuffered \in Nat /\ Length \in Seq(Nat)

VARIABLES
  client,   \* the state of SessionUnreadController for the machine
  net,      \* reader -> the request under way and its NetworkObserver, or None
  link,     \* the socket: "down", "live" or "dying"
  opened,   \* the browser has seen the socket open
  joined,   \* the daemon has subscribed it, behind the gateway
  channel,  \* events under way on it
  best      \* history: the newest projection it has shown

socket == <<link, opened, joined, channel>>
vars == <<feed, client, net, socket, best>>

-----------------------------------------------------------------------------
(* applyUnreadEvent and applyContiguousEvent *)

Empty(e) == [epoch |-> e, revision |-> 0, holds |-> {}]

Transition(projection, status) ==
  [projection |-> projection, status |-> status, refresh |-> status = "stale"]

Contiguous(projection, status, event) ==
  Transition([epoch |-> event.epoch, revision |-> event.revision,
              holds |-> projection.holds \cup {event.revision}],
             IF status = "stale" THEN "stale" ELSE "fresh")

\* Mutant of ApplyEvent: a gap between the revisions is not noticed.
ApplyEventOverGaps(projection, status, event) ==
  CASE projection = None ->
         Contiguous(Empty(event.epoch), "fresh", event)
    [] projection # None /\ projection.epoch # event.epoch ->
         Contiguous(Empty(event.epoch), "stale", event)
    [] projection # None /\ projection.epoch = event.epoch ->
         IF event.revision <= projection.revision
         THEN Transition(projection, status)
         ELSE Contiguous(projection, status, event)

\* Mutant of ApplyEvent: a projection that has a gap still counts as fresh.
ApplyEventForgivingGaps(projection, status, event) ==
  CASE projection = None \/ (projection # None /\ projection.epoch # event.epoch) ->
         IF event.revision = 1
         THEN Contiguous(Empty(event.epoch), IF projection = None THEN "fresh" ELSE "stale", event)
         ELSE Transition(Empty(event.epoch), "stale")
    [] projection # None /\ projection.epoch = event.epoch ->
         IF event.revision = projection.revision + 1
         THEN Contiguous(projection, status, event)
         ELSE Transition(projection, status)

ApplyEvent(projection, status, event) ==
  CASE projection = None \/ (projection # None /\ projection.epoch # event.epoch) ->
         IF event.revision = 1
         THEN Contiguous(Empty(event.epoch), IF projection = None THEN "fresh" ELSE "stale", event)
         ELSE Transition(Empty(event.epoch), "stale")
    [] projection # None /\ projection.epoch = event.epoch ->
         CASE event.revision <= projection.revision -> Transition(projection, status)
           [] event.revision = projection.revision + 1 -> Contiguous(projection, status, event)
           [] OTHER -> Transition(projection, "stale")

-----------------------------------------------------------------------------
(* The controller's state and what replaces it *)

Fresh0 == [projection |-> None, status |-> "stale", loop |-> "idle", queued |-> FALSE,
           anchored |-> FALSE, failed |-> FALSE]

Install(c, projection, status) ==
  [c EXCEPT !.projection = projection, !.status = status]

\* Requests under way when the projection changes from c to d.
Moved(n, c, d) ==
  [r \in Reader |->
     IF n[r] = None \/ c.projection = d.projection THEN n[r] ELSE [n[r] EXCEPT !.moved = TRUE]]

Request(status) ==
  [arrived |-> FALSE, status |-> status, moved |-> FALSE, events |-> <<>>,
   overflowed |-> FALSE, joined |-> FALSE]

\* A round of the refresh loop.
StartRound(c) ==
  [c EXCEPT !.loop = "running", !.queued = FALSE,
            !.status = IF c.projection = None THEN "loading" ELSE "stale"]

\* refresh(): a loop that runs is asked for another round.
RefreshedClient(c) == IF c.loop = "idle" THEN StartRound(c) ELSE [c EXCEPT !.queued = TRUE]

RefreshedNet(c, n) ==
  IF c.loop = "idle" THEN [n EXCEPT ![Get] = Request(c.status)] ELSE n

\* Goes on to c and n, then calls refresh() if wanted.
Continue(c, n, wanted) ==
  IF wanted
  THEN client' = RefreshedClient(c) /\ net' = RefreshedNet(c, n)
  ELSE client' = c /\ net' = n

-----------------------------------------------------------------------------
(* Events *)

\* recordObservedEvent, for one observer.
Recorded(o, event) ==
  CASE o.overflowed -> o
    [] ~o.overflowed /\ Len(o.events) >= MaxBuffered ->
         [o EXCEPT !.events = <<>>, !.overflowed = TRUE]
    [] ~o.overflowed /\ Len(o.events) < MaxBuffered ->
         [o EXCEPT !.events = Append(o.events, event)]

EventArrives ==
  /\ opened
  /\ channel # <<>>
  /\ LET event == Head(channel)
         t == ApplyEvent(client.projection, client.status, event)
         c == [Install(client, t.projection, t.status)
                 EXCEPT !.anchored = client.anchored \/ (t.status = "fresh" /\ joined
                                                         /\ client.projection = None)]
         n == [r \in Reader |-> IF net[r] = None THEN None ELSE Recorded(net[r], event)]
     IN  Continue(c, Moved(n, client, c), t.refresh)
  /\ channel' = Tail(channel)
  /\ UNCHANGED <<feed, link, opened, joined>>

-----------------------------------------------------------------------------
(* applyNetworkSnapshot *)

Reapplied(t, event) ==
  LET next == ApplyEvent(t.projection, t.status, event)
  IN  [next EXCEPT !.refresh = t.refresh \/ next.refresh]

\* The snapshot, and on it the events in the order they came.
Replay(snapshot, events) ==
  LET after[k \in 0..Len(events)] ==
        IF k = 0
        THEN Transition([epoch |-> snapshot.epoch, revision |-> snapshot.revision,
                         holds |-> 1..snapshot.revision], "fresh")
        ELSE Reapplied(after[k - 1], events[k])
  IN  after[Len(events)]

\* Mutant of Ambiguous: what an earlier event did to the projection is forgotten.
AmbiguousByEvents(c, o, snapshot) ==
  o.overflowed \/ \E k \in DOMAIN o.events : o.events[k].epoch # snapshot.epoch

\* The answer and what the socket said meanwhile are of different epochs, or
\* more was said than was kept.
Ambiguous(c, o, snapshot) ==
  \/ o.moved /\ c.projection # None /\ c.projection.epoch # snapshot.epoch
  \/ o.overflowed
  \/ \E k \in DOMAIN o.events : o.events[k].epoch # snapshot.epoch

Superseded(c, candidate) ==
  /\ c.projection # None
  /\ c.projection.epoch = candidate.epoch
  /\ c.projection.revision > candidate.revision

\* What the controller becomes, and whether it must refresh.
Applied(c, o, snapshot) ==
  LET t == Replay(snapshot, o.events)
  IN  CASE Ambiguous(c, o, snapshot) ->
             [client |-> [c EXCEPT !.status = "stale"], refresh |-> TRUE]
        [] ~Ambiguous(c, o, snapshot) /\ Superseded(c, t.projection) ->
             LET d == IF ~o.moved /\ o.status = "fresh" THEN [c EXCEPT !.status = "fresh"] ELSE c
             IN  [client |-> d, refresh |-> t.refresh \/ d.status = "stale"]
        [] ~Ambiguous(c, o, snapshot) /\ ~Superseded(c, t.projection) ->
             [client |-> [Install(c, t.projection, t.status) EXCEPT !.anchored = o.joined],
              refresh |-> t.refresh]

\* A request that fails at the daemon, on the way there or on the way back.  One
\* that is given up earlier gets an answer nobody sees, so it may as well have
\* been answered before.
Over(r) == net[r] # None /\ asked[r] = None
Returned(r) == Over(r) /\ net[r].arrived /\ reply[r] # Failed

\* The loop goes round again at once when that was asked for meanwhile.
NextRound(c, n) ==
  IF c.queued
  THEN /\ client' = StartRound(c)
       /\ net' = [n EXCEPT ![Get] = Request(c.status)]
  ELSE /\ client' = [c EXCEPT !.loop = "ending"]
       /\ net' = n

SnapshotArrives ==
  /\ Returned(Get)
  /\ LET a == Applied(client, net[Get], reply[Get])
         c == [a.client EXCEPT !.queued = client.queued \/ a.refresh, !.failed = FALSE]
     IN  NextRound(c, Moved([net EXCEPT ![Get] = None], client, c))
  /\ UNCHANGED <<feed, socket>>

RefreshFails ==
  /\ Over(Get)
  /\ NextRound([client EXCEPT !.status = "stale", !.failed = TRUE], [net EXCEPT ![Get] = None])
  /\ UNCHANGED <<feed, socket>>

\* Mutant of LoopSettled: a refresh asked for after the last round is forgotten.
LoopSettledForgetful ==
  /\ client.loop = "ending"
  /\ client' = [client EXCEPT !.loop = "idle", !.queued = FALSE]
  /\ UNCHANGED <<feed, net, socket>>

\* The finally callback of the refresh promise.
LoopSettled ==
  /\ client.loop = "ending"
  /\ Continue([client EXCEPT !.loop = "idle", !.queued = FALSE], net, client.queued)
  /\ UNCHANGED <<feed, socket>>

-----------------------------------------------------------------------------
(* Writes: markUnread and acknowledge *)

Write(r) ==
  /\ r # Get
  /\ net[r] = None
  /\ net' = [net EXCEPT ![r] = Request(client.status)]
  /\ UNCHANGED <<feed, client, socket>>

WriteReturns(r) ==
  /\ r # Get
  /\ Returned(r)
  /\ LET a == Applied(client, net[r], reply[r])
     IN  Continue(a.client, Moved([net EXCEPT ![r] = None], client, a.client), a.refresh)
  /\ UNCHANGED <<feed, socket>>

WriteFails(r) ==
  /\ r # Get
  /\ Over(r)
  /\ net' = [net EXCEPT ![r] = None]
  /\ UNCHANGED <<feed, client, socket>>

-----------------------------------------------------------------------------
(* PiWebApp: refreshes and machines *)

\* renegotiateUnreadMachine: on demand, when the browser resumes.
Renegotiate ==
  /\ client.loop # "idle" => ~client.queued
  /\ Continue(client, net, TRUE)
  /\ UNCHANGED <<feed, socket>>

\* retainMachines without this machine: its requests are given up.
Forget ==
  /\ client # Fresh0
  /\ \A r \in Reader : asked[r] = None
  /\ client' = Fresh0
  /\ net' = [r \in Reader |-> None]
  /\ UNCHANGED <<feed, socket>>

-----------------------------------------------------------------------------
(* The realtime socket: browser, gateway, daemon *)

Connect ==
  /\ link = "down"
  /\ link' = "live"
  /\ UNCHANGED <<feed, client, net, opened, joined, channel>>

\* The browser's socket is open once the gateway has accepted it; the gateway
\* then connects upstream, and addGlobal subscribes it there.
Joins ==
  /\ link = "live"
  /\ ~joined
  /\ joined' = TRUE
  /\ UNCHANGED <<feed, client, net, link, opened, channel>>

\* "Live broadcasts are not replayed after a connection gap": refresh.
Opens ==
  /\ link # "down"
  /\ ~opened
  /\ opened' = TRUE
  /\ UNCHANGED <<feed, link, joined, channel>>
  /\ Continue(client, net, TRUE)

Unanchored ==
  /\ client' = [client EXCEPT !.anchored = FALSE]
  /\ net' = [r \in Reader |-> IF net[r] = None THEN None ELSE [net[r] EXCEPT !.joined = FALSE]]

\* The daemon drops a socket that cannot keep up, or a hop fails.
Breaks ==
  /\ link = "live"
  /\ link' = "dying"
  /\ joined' = FALSE
  /\ Unanchored
  /\ UNCHANGED <<feed, opened, channel>>

\* The browser sees it close, or closes it; what was under way is gone.
Closes ==
  /\ link # "down"
  /\ link' = "down"
  /\ opened' = FALSE /\ joined' = FALSE
  /\ channel' = <<>>
  /\ Unanchored
  /\ UNCHANGED feed

-----------------------------------------------------------------------------
(* The daemon *)

DaemonCommits ==
  /\ \E d \in (durable + 1)..Length[epoch] : durable' = d /\ Commit
  /\ UNCHANGED <<client, net, socket>>

\* The revisions of S, from the first to the last.
InOrder(S) ==
  {q \in [1..Cardinality(S) -> S] :
     Range(q) = S /\ \A i, j \in 1..Cardinality(S) : i < j => q[i] < q[j]}

DaemonSends ==
  \E S \in SUBSET ((Newest(sent) + 1)..durable) : \E q \in InOrder(S) :
    /\ sent' = sent \cup S
    /\ Send
    /\ channel' = IF joined
                  THEN channel \o [k \in DOMAIN q |-> [epoch |-> epoch, revision |-> q[k]]]
                  ELSE channel
    /\ UNCHANGED <<client, net, link, opened, joined>>

RequestArrives(r) ==
  /\ net[r] # None /\ ~net[r].arrived
  /\ Ask(r)
  /\ net' = [net EXCEPT ![r].arrived = TRUE, ![r].joined = joined]
  /\ UNCHANGED <<client, socket>>

DaemonReplies(r) ==
  /\ Answer(r) \/ Refuse(r)
  /\ UNCHANGED <<client, net, socket>>

DaemonEnds ==
  /\ End
  /\ link' = IF joined THEN "dying" ELSE link
  /\ joined' = FALSE
  /\ Unanchored
  /\ UNCHANGED <<opened, channel>>

DaemonStartsAfresh ==
  /\ epoch < Len(Length)
  /\ ~joined
  /\ \A r \in Reader : asked[r] = None
  /\ NewEpoch
  /\ UNCHANGED <<client, net, socket>>

ProjectionInit ==
  /\ Init
  /\ client = Fresh0
  /\ net = [r \in Reader |-> None]
  /\ link = "down"
  /\ opened = FALSE /\ joined = FALSE
  /\ channel = <<>>
  /\ best = None

Browser ==
  \/ EventArrives \/ SnapshotArrives \/ RefreshFails \/ LoopSettled
  \/ \E r \in Reader : Write(r) \/ WriteReturns(r) \/ WriteFails(r)
  \/ Renegotiate \/ Forget

Socket == Connect \/ Joins \/ Opens \/ Breaks \/ Closes

Daemon ==
  \/ DaemonCommits \/ DaemonSends \/ DaemonEnds \/ DaemonStartsAfresh
  \/ \E r \in Reader : RequestArrives(r) \/ DaemonReplies(r)

\* Epochs are numbered here in the order they begin; catalog ids do not tell the browser.
Older(p, q) == p.epoch < q.epoch \/ (p.epoch = q.epoch /\ p.revision < q.revision)

\* What best becomes when the client becomes c; a machine that is forgotten begins anew.
Remembered(c) ==
  CASE c.projection = None -> None
    [] /\ c.projection # None
       /\ best = None \/ (best # None /\ Older(best, c.projection)) ->
         [epoch |-> c.projection.epoch, revision |-> c.projection.revision]
    [] OTHER -> best

ProjectionNext == (Browser \/ Socket \/ Daemon) /\ best' = Remembered(client')

ProjectionSpec == ProjectionInit /\ [][ProjectionNext]_vars

-----------------------------------------------------------------------------
(* What the browser may rely on *)

Status == {"loading", "fresh", "stale"}

\* Every variable holds a value of its kind.
ProjectionTypeOK ==
  /\ client.projection # None =>
       /\ client.projection.epoch \in 1..epoch
       /\ client.projection.revision \in 0..Length[client.projection.epoch]
       /\ client.projection.holds \subseteq 1..client.projection.revision
  /\ client.status \in Status
  /\ client.loop \in {"idle", "running", "ending"}
  /\ client.loop = "running" <=> net[Get] # None
  /\ \A r \in Reader : net[r] # None =>
       net[r].status \in Status /\ Len(net[r].events) <= MaxBuffered
  /\ link \in {"down", "live", "dying"}
  /\ joined => link = "live"
  /\ link = "down" => ~opened /\ channel = <<>>

\* The summaries a projection shows are those of its epoch and revision, through
\* every race of events with answers, gaps and changes of epoch.
ContentsMatchRevision ==
  client.projection # None => client.projection.holds = 1..client.projection.revision

Behind == best # None /\ client.projection # None /\ Older(client.projection, best)

\* The answer to come is not older than what was shown, or there will be none.
Repairing ==
  /\ client.loop = "running"
  /\ Returned(Get) => ~Older(reply[Get], best)

\* A late event of a former epoch puts the projection back behind what it has
\* shown, and late answers may then count as fresh there.  It is not left behind:
\* another round of the refresh loop is asked for, or the one under way gets an
\* answer that is not older, unless the last round has failed.
GoingBackIsRepaired ==
  Behind => \/ client.queued \/ Repairing
            \/ client.failed /\ client.loop # "running"

\* A projection that is not fresh is being refreshed, unless that failed.
NeverStaleForNothing ==
  client.loop = "idle" /\ client.status # "fresh" => client.failed \/ client = Fresh0

CaughtUp ==
  /\ client.projection # None
  /\ client.projection.epoch = epoch
  /\ client.projection.revision >= Newest(sent)

\* With nothing under way on the socket, a fresh projection has everything that
\* was broadcast, provided its snapshot was requested on this connection, after
\* the daemon had subscribed it.
AnchoredIsCurrent ==
  client.status = "fresh" /\ client.anchored /\ joined /\ channel = <<>> => CaughtUp

\* "HTTP snapshots establish join state, while contiguous socket revisions keep
\* it current": the same without the proviso, once nothing at all is under way.
FreshIsCurrent ==
  /\ client.status = "fresh" /\ client.loop = "idle"
  /\ \A r \in Reader : net[r] = None
  /\ opened /\ joined /\ channel = <<>>
  => CaughtUp

=============================================================================
