------------------------- MODULE SessionNotifications -------------------------
(***************************************************************************)
(* The notifications of sessions: the store in the daemon's memory         *)
(* (src/src/server/sessions/sessionNotificationStore.ts), its events, and  *)
(* the inbox of the session a browser has selected                         *)
(* (src/src/client/src/sessionNotifications.ts and                         *)
(* controllers/sessionNotificationController.ts).                          *)
(*                                                                         *)
(* A bucket holds what one generation of a runtime's extensions has said.  *)
(* While a runtime is replaced there are two, of one session or of two;    *)
(* the inbox of a session shows the newest Limit notes of its buckets and  *)
(* counts those a full bucket has discarded.  Each visible change has a    *)
(* revision; a restart begins a new instance, with numbers from the start. *)
(*                                                                         *)
(* One runtime and its successors; the browser has Viewed selected and one *)
(* dismissal under way at a time.  A note is its order.                    *)
(***************************************************************************)
EXTENDS Naturals, Sequences, FiniteSets, Functions

CONSTANTS
  NoteSession,
  Viewed,       \* the session that the browser has selected
  Limit,        \* SESSION_NOTIFICATION_LIMIT
  MaxNote,      \* bound: notes of one instance
  MaxTurns,     \* bound: replacements, ends, requests and faults in all
  MaxWire       \* bound: events on their way, and those a refresh keeps

ASSUME ViewedAssumption == Viewed \in NoteSession
ASSUME LimitAssumption == Limit \in Nat \ {0}

VARIABLES
  instance,   \* daemonInstanceId
  lastNote,   \* nextOrder
  buckets,    \* the active bucket, then the candidate's
  revision,   \* session -> inboxRevision
  watermark,  \* session -> overflowWatermark
  streaming,  \* whether the daemon sends the events of Viewed to the browser
  wire,       \* the events it has sent
  reachable,  \* whether the browser takes the machine for reachable
  inbox,      \* selectedNotificationInbox
  fetch,      \* the refresh under way
  dismissal,  \* the request of the user under way
  shown,      \* history: the newest the user has seen of this instance
  turns       \* bound: replacements, ends, requests and faults so far

storeVars == <<instance, lastNote, buckets, revision, watermark>>
noteVars == <<storeVars, streaming, wire, reachable, inbox, fetch, dismissal, shown, turns>>

NewestNote(S) == IF S = {} THEN 0 ELSE CHOOSE n \in S : \A m \in S : m <= n
Latest(S) == {n \in S : Cardinality({m \in S : m > n}) < Limit}
Least(a, b) == IF a < b THEN a ELSE b
Greater(a, b) == IF a > b THEN a ELSE b

Turn == turns < MaxTurns /\ turns' = turns + 1

-----------------------------------------------------------------------------
(* What a session's buckets show *)

Bucket(x, notes, discarded) == [session |-> x, notes |-> notes, discarded |-> discarded]

Of(bs, x) == {i \in DOMAIN bs : bs[i].session = x}
Entries(bs, x) == UNION {bs[i].notes : i \in Of(bs, x)}
Retained(bs, x) == Latest(Entries(bs, x))
Discards(bs, x, i) == IF i \in Of(bs, x) THEN bs[i].discarded ELSE 0
Discarded(bs, x) == Discards(bs, x, 1) + Discards(bs, x, 2)

Content(bs, marks, x) ==
  [notes |-> Retained(bs, x),
   discarded |-> Discarded(bs, x),
   through |-> [note |-> NewestNote(Retained(bs, x)), mark |-> marks[x]]]

Seen(bs, x) == <<Retained(bs, x), Discarded(bs, x)>>

Added(n, gone) == [kind |-> "added", notes |-> {n}, gone |-> gone]
Dismissed(gone) == [kind |-> "dismissed", notes |-> {}, gone |-> gone]
Cleared == [kind |-> "cleared", notes |-> {}, gone |-> {}]
Resync == [kind |-> "resync", notes |-> {}, gone |-> {}]

\* The store becomes bs and marks; each session of deltas has a mutation, which is published.
Becomes(bs, marks, deltas) ==
  /\ buckets' = bs /\ watermark' = marks
  /\ revision' = [x \in NoteSession |-> IF x \in DOMAIN deltas THEN revision[x] + 1 ELSE revision[x]]
  /\ wire' = IF streaming /\ Viewed \in DOMAIN deltas
             THEN Append(wire, [instance |-> instance, revision |-> revision'[Viewed],
                                delta |-> deltas[Viewed], content |-> Content(bs, marks, Viewed)])
             ELSE wire
  /\ Len(wire') <= MaxWire

\* clearProjection: sessions that showed something have a mutation.
ClearedOf(S) ==
  [x \in {y \in S : Seen(buckets, y) # <<{}, 0>>} |-> Cleared]

StoreOnly == UNCHANGED <<instance, streaming, reachable, inbox, fetch, dismissal, shown>>

-----------------------------------------------------------------------------
(* The runtimes of the session *)

Replacing == Len(buckets) = 2
Prior == buckets[1]
Candidate == buckets[2]

\* registerSession, of a session whose runtime is not replaced by this one.
Register(x) ==
  /\ \/ buckets = <<>>
     \/ Replacing /\ x \in {Prior.session, Candidate.session}
  /\ Becomes(<<Bucket(x, {}, 0)>>, watermark, ClearedOf(NoteSession))
  /\ UNCHANGED lastNote /\ StoreOnly
  /\ UNCHANGED turns

\* addNotification; once a replacement has begun, the code that is replaced is not heard.
AddNote ==
  LET i == Len(buckets)
      b == buckets[i]
      n == lastNote + 1
      full == Cardinality(b.notes) = Limit
      notes == IF full THEN Latest(b.notes \cup {n}) ELSE b.notes \cup {n}
      lost == IF full THEN 1 ELSE 0
      next == [buckets EXCEPT ![i].notes = notes, ![i].discarded = @ + lost]
      evicted == Retained(buckets, b.session) \ Retained(next, b.session)
  IN  /\ buckets # <<>> /\ n <= MaxNote
      /\ lastNote' = n
      /\ Becomes(next, [watermark EXCEPT ![b.session] = @ + lost], [x \in {b.session} |-> Added(n, evicted)])
      /\ StoreOnly
      /\ UNCHANGED turns

\* beginReplacement, for the same session or, as a rebind does, for another one.
BeginReplacement(x) ==
  /\ Len(buckets) = 1
  /\ Becomes(Append(buckets, Bucket(x, {}, 0)), watermark, <<>>)
  /\ UNCHANGED lastNote /\ StoreOnly
  /\ Turn

\* commitReplacement.
CommitReplacement ==
  LET next == <<Candidate>>
      x == Prior.session
      same == x = Candidate.session
  IN  /\ Replacing
      /\ Becomes(next, watermark,
                 IF ~same THEN ClearedOf({x})
                 ELSE [y \in {z \in {x} : Seen(buckets, z) # Seen(next, z)} |-> Resync])
      /\ UNCHANGED lastNote /\ StoreOnly
      /\ UNCHANGED turns

\* abortReplacement: what both generations said is kept by the one that survives, which is the
\* candidate if the session changes too; then the discards of the session left behind count as
\* the latest of the other.
AbortReplacement ==
  LET x == Candidate.session
      moved == IF Prior.session = x THEN 0 ELSE Prior.discarded
      notes == Prior.notes \cup Candidate.notes
      overflow == Cardinality(notes) - Cardinality(Latest(notes))
      next == <<Bucket(x, Latest(notes), Prior.discarded + Candidate.discarded + overflow)>>
      changed == {y \in {x} : Seen(buckets, y) # Seen(next, y)}
      cleared == ClearedOf({Prior.session} \ {x})
  IN  /\ Replacing
      /\ Becomes(next, [watermark EXCEPT ![x] = @ + moved + overflow],
                 [y \in changed \cup DOMAIN cleared |-> IF y \in changed THEN Resync ELSE Cleared])
      /\ UNCHANGED lastNote /\ StoreOnly
      /\ UNCHANGED turns

\* clearSession: the runtime is closed, its session archived, or its start has failed.
CloseNotes ==
  /\ buckets # <<>>
  /\ Becomes(<<>>, watermark, ClearedOf(NoteSession))
  /\ UNCHANGED lastNote /\ StoreOnly
  /\ Turn

-----------------------------------------------------------------------------
(* The inbox *)

Nothing == [notes |-> {}, discarded |-> 0, through |-> [note |-> 0, mark |-> 0]]
Inbox(status, i, rev, content) ==
  [status |-> status, instance |-> i, revision |-> rev, content |-> content]
Loading == Inbox("loading", 0, 0, Nothing)

Snapshot == [instance |-> instance, revision |-> revision[Viewed], content |-> Content(buckets, watermark, Viewed)]
Registered == Of(buckets, Viewed) # {}

\* What a stale inbox holds is neither shown nor used.
Stale(box) == [box EXCEPT !.status = "stale", !.content = Nothing]

InstallSnapshot(box, s) ==
  IF box.instance # s.instance \/ s.revision >= box.revision
  THEN Inbox("fresh", s.instance, s.revision, s.content)
  ELSE box

\* Mutant of Applies: a gap in the revisions is not noticed.
AppliesAnyway(box, e) == box.status = "fresh" /\ e.delta.kind # "resync"

Applies(box, e) ==
  /\ box.status = "fresh" /\ e.revision = box.revision + 1
  /\ e.delta.kind # "resync"

\* applySelectedNotificationEvent; ok is FALSE if a refresh is needed.
ApplyInboxEvent(box, e) ==
  LET notes == IF e.delta.kind = "cleared" THEN {}
               ELSE Latest((box.content.notes \cup e.delta.notes) \ e.delta.gone)
      agrees == /\ e.delta.notes \cap box.content.notes = {}
                /\ Cardinality(notes) = Cardinality(e.content.notes)
                /\ NewestNote(notes) = e.content.through.note
                /\ e.content.through.mark >= e.content.discarded
  IN  IF box.instance # e.instance THEN [box |-> Stale(Loading), ok |-> FALSE]
      ELSE IF e.revision <= box.revision THEN [box |-> box, ok |-> TRUE]
      ELSE IF ~(Applies(box, e) /\ agrees) THEN [box |-> Stale(box), ok |-> FALSE]
      ELSE [ok |-> TRUE,
            box |-> Inbox("fresh", e.instance, e.revision, [e.content EXCEPT !.notes = notes])]

\* inbox becomes box; what a fresh inbox holds is seen.
Shows(box) ==
  /\ inbox' = box
  /\ shown' = IF box.status = "fresh" /\ box.instance = instance
              THEN [note |-> Greater(shown.note, box.content.through.note),
                    mark |-> Greater(shown.mark, box.content.through.mark)]
              ELSE shown

NoFetch == [phase |-> "none", trailing |-> FALSE, events |-> <<>>, answer |-> <<>>]
Asked == [NoFetch EXCEPT !.phase = "asked"]

\* refreshSelectedSession.
Refreshed(f) ==
  IF ~reachable THEN f ELSE IF f.phase = "none" THEN Asked ELSE [f EXCEPT !.trailing = TRUE]

BrowserOnly == UNCHANGED <<storeVars, streaming, reachable>>

\* The socket opens, the page comes back, the machine is looked at again.
RefreshInbox ==
  /\ fetch' = Refreshed(fetch) /\ fetch' # fetch
  /\ BrowserOnly /\ UNCHANGED <<wire, inbox, dismissal, shown>>
  /\ Turn

\* applyInboxEvent.
ReceiveEvent ==
  /\ wire # <<>> /\ wire' = Tail(wire)
  /\ IF fetch.phase # "none"
     THEN Len(fetch.events) < MaxWire /\ fetch' = [fetch EXCEPT !.events = Append(@, Head(wire))] /\ UNCHANGED <<inbox, shown>>
     ELSE LET result == ApplyInboxEvent(inbox, Head(wire))
          IN  /\ Shows(result.box)
              /\ fetch' = IF result.ok THEN fetch ELSE Refreshed(fetch)
  /\ BrowserOnly /\ UNCHANGED dismissal
  /\ UNCHANGED turns

AnswerFetch ==
  /\ fetch.phase = "asked" /\ Registered
  /\ fetch' = [fetch EXCEPT !.phase = "answered", !.answer = Snapshot]
  /\ BrowserOnly /\ UNCHANGED <<wire, inbox, dismissal, shown>>
  /\ UNCHANGED turns

\* An event replayed on the projection and whether a refresh is needed so far.
ReplayEvent(result, e) ==
  LET next == ApplyInboxEvent(result.box, e) IN [box |-> next.box, ok |-> result.ok /\ next.ok]

\* The events by revision, those of one revision in the order they came.
ByRevision(events) ==
  {[k \in DOMAIN events |-> events[p[k]]] :
     p \in {q \in [DOMAIN events -> DOMAIN events] :
              \A j, k \in DOMAIN events : j < k =>
                \/ events[q[j]].revision < events[q[k]].revision
                \/ events[q[j]].revision = events[q[k]].revision /\ q[j] < q[k]}}

\* The answer, and on it the events one after the other.
Caught(answer, events) ==
  LET after[k \in 0..Len(events)] ==
        IF k = 0 THEN [box |-> InstallSnapshot(inbox, answer), ok |-> TRUE]
        ELSE ReplayEvent(after[k - 1], events[k])
  IN  after[Len(events)]

\* runSelectedRefresh goes on: the answer, then the events that came meanwhile.
FetchReturns ==
  \E events \in ByRevision(fetch.events) :
  LET result == Caught(fetch.answer, events)
  IN  /\ fetch.phase = "answered"
      /\ IF reachable
         THEN /\ Shows(result.box)
              /\ fetch' = IF result.ok /\ ~fetch.trailing THEN NoFetch ELSE Asked
         ELSE Shows(Stale(inbox)) /\ fetch' = NoFetch
      /\ BrowserOnly /\ UNCHANGED <<wire, dismissal>>
      /\ UNCHANGED turns

\* The request fails, perhaps after it was answered; a trailing one is forgotten with it.
FetchFails ==
  /\ fetch.phase # "none"
  /\ Shows(Stale(inbox)) /\ fetch' = NoFetch
  /\ BrowserOnly /\ UNCHANGED <<wire, dismissal>>
  /\ Turn

\* prepareSelectedSession, after another session was looked at.
SelectAgain ==
  /\ Shows(Loading) /\ fetch' = NoFetch
  /\ dismissal' = [dismissal EXCEPT !.current = FALSE]
  /\ BrowserOnly /\ UNCHANGED wire
  /\ Turn

\* syncEnvironment.
Reachability ==
  /\ reachable' = ~reachable
  /\ Shows(IF reachable THEN Stale(inbox) ELSE inbox)
  /\ fetch' = IF ~reachable THEN (IF fetch.phase = "none" THEN Asked ELSE [fetch EXCEPT !.trailing = TRUE])
              ELSE fetch
  /\ UNCHANGED <<storeVars, streaming, wire, dismissal>>
  /\ Turn

-----------------------------------------------------------------------------
(* Dismissing *)

NoDismissal ==
  [phase |-> "none", all |-> FALSE, instance |-> 0, through |-> Nothing.through, current |-> FALSE, answer |-> <<>>]

\* dismissAll and dismissNotification; one request at a time.
UserDismisses(all) ==
  /\ dismissal.phase = "none" /\ inbox.status = "fresh"
  /\ \E through \in IF all THEN {inbox.content.through}
                    ELSE {[note |-> n, mark |-> 0] : n \in inbox.content.notes} :
       dismissal' = [phase |-> "asked", all |-> all, instance |-> inbox.instance, through |-> through,
                     current |-> TRUE, answer |-> <<>>]
  /\ all => inbox.content.notes # {} \/ inbox.content.discarded > 0
  /\ BrowserOnly /\ UNCHANGED <<wire, inbox, fetch, shown>>
  /\ Turn

\* The discards of bs, without the count earliest of x.
WithoutDiscards(bs, x, count) ==
  [i \in DOMAIN bs |->
    LET before == IF i = 1 THEN 0 ELSE Discards(bs, x, 1)
        rest == IF before >= count THEN 0 ELSE Least(bs[i].discarded, count - before)
    IN  IF bs[i].session = x THEN [bs[i] EXCEPT !.discarded = @ - rest] ELSE bs[i]]

\* dismissAll in the store.
DismissedThrough(through) ==
  LET kept == [i \in DOMAIN buckets |->
                 IF buckets[i].session # Viewed THEN buckets[i]
                 ELSE [buckets[i] EXCEPT !.notes = {n \in @ : n > through.note}]]
      gone == {n \in Retained(buckets, Viewed) : n <= through.note}
      total == Discarded(buckets, Viewed)
      unseen == IF watermark[Viewed] > through.mark THEN watermark[Viewed] - through.mark ELSE 0
      taken == IF unseen >= total THEN 0 ELSE total - unseen
  IN  Becomes(WithoutDiscards(kept, Viewed, taken), watermark,
              [x \in {y \in {Viewed} : gone # {} \/ taken > 0} |-> Dismissed(gone)])

\* dismissNotification in the store.
DismissedOne(n) ==
  LET kept == [i \in DOMAIN buckets |->
                 IF buckets[i].session # Viewed THEN buckets[i] ELSE [buckets[i] EXCEPT !.notes = @ \ {n}]]
      next == IF n \in Entries(buckets, Viewed) /\ Entries(kept, Viewed) = {}
              THEN WithoutDiscards(kept, Viewed, Discarded(kept, Viewed))
              ELSE kept
      revealed == Retained(next, Viewed) \ Retained(buckets, Viewed)
  IN  Becomes(next, watermark,
              [x \in {y \in {Viewed} : Seen(next, y) # Seen(buckets, y)} |->
                 IF revealed # {} THEN Resync ELSE Dismissed({n})])

Answered ==
  dismissal' = [dismissal EXCEPT !.phase = "answered",
                  !.answer = [instance |-> instance, revision |-> revision'[Viewed],
                              content |-> Content(buckets', watermark', Viewed)]]

\* Mutant of DismissHandled: the request is not asked which daemon its numbers are of.
DismissAnyInstance ==
  /\ dismissal.phase = "asked" /\ Registered
  /\ IF dismissal.all THEN DismissedThrough(dismissal.through) ELSE DismissedOne(dismissal.through.note)
  /\ Answered
  /\ UNCHANGED <<instance, lastNote, streaming, reachable, inbox, fetch, shown>>
  /\ UNCHANGED turns

\* Numbers of another instance say nothing of this one.
DismissHandled ==
  /\ dismissal.phase = "asked" /\ Registered
  /\ IF dismissal.instance # instance THEN UNCHANGED <<buckets, watermark, revision, wire>>
     ELSE IF dismissal.all THEN DismissedThrough(dismissal.through)
     ELSE DismissedOne(dismissal.through.note)
  /\ Answered
  /\ UNCHANGED <<instance, lastNote, streaming, reachable, inbox, fetch, shown>>
  /\ UNCHANGED turns

\* applyMutationSnapshot.
DismissReturns ==
  /\ dismissal.phase = "answered" /\ dismissal' = NoDismissal
  /\ Shows(IF ~dismissal.current THEN inbox
           ELSE IF ~reachable THEN Stale(inbox)
           ELSE InstallSnapshot(inbox, dismissal.answer))
  /\ BrowserOnly /\ UNCHANGED <<wire, fetch>>
  /\ UNCHANGED turns

\* The request fails, perhaps after it was handled.
DismissFails ==
  /\ dismissal.phase # "none" /\ dismissal' = NoDismissal
  /\ fetch' = IF dismissal.current THEN Refreshed(fetch) ELSE fetch
  /\ BrowserOnly /\ UNCHANGED <<wire, inbox, shown>>
  /\ Turn

-----------------------------------------------------------------------------
(* The socket and the daemon *)

\* The daemon subscribes the browser's socket, when the gateway has connected it.
JoinEvents ==
  /\ ~streaming /\ streaming' = TRUE
  /\ UNCHANGED <<storeVars, wire, reachable, inbox, fetch, dismissal, shown>>
  /\ UNCHANGED turns

\* The socket closes, because the hub dropped it or the connection broke.
LoseEvents ==
  /\ streaming /\ streaming' = FALSE /\ wire' = <<>>
  /\ UNCHANGED <<storeVars, reachable, inbox, fetch, dismissal, shown>>
  /\ Turn

\* All of it was in memory.
NewInstance ==
  /\ instance' = instance + 1
  /\ lastNote' = 0 /\ buckets' = <<>>
  /\ revision' = [x \in NoteSession |-> 0] /\ watermark' = revision'
  /\ streaming' = FALSE /\ wire' = <<>>
  /\ shown' = Nothing.through
  /\ UNCHANGED <<reachable, inbox, fetch, dismissal>>
  /\ Turn

NotesInit ==
  /\ instance = 1 /\ lastNote = 0 /\ buckets = <<>>
  /\ revision = [x \in NoteSession |-> 0] /\ watermark = revision
  /\ streaming = FALSE /\ wire = <<>> /\ reachable = TRUE
  /\ inbox = Loading /\ fetch = NoFetch /\ dismissal = NoDismissal
  /\ shown = Nothing.through /\ turns = 0

NotesNext ==
  \/ \E x \in NoteSession : Register(x) \/ BeginReplacement(x)
  \/ AddNote \/ CommitReplacement \/ AbortReplacement \/ CloseNotes
  \/ RefreshInbox \/ ReceiveEvent \/ AnswerFetch \/ FetchReturns \/ FetchFails
  \/ SelectAgain \/ Reachability
  \/ \E all \in BOOLEAN : UserDismisses(all)
  \/ DismissHandled \/ DismissReturns \/ DismissFails
  \/ JoinEvents \/ LoseEvents \/ NewInstance

NotesSpec == NotesInit /\ [][NotesNext]_noteVars

-----------------------------------------------------------------------------
(* What notifications promise *)

\* Every variable holds a value of its kind.
NotesTypeOK ==
  /\ instance \in Nat \ {0} /\ lastNote \in 0..MaxNote
  /\ Len(buckets) <= 2
  /\ \A b \in Range(buckets) : b.session \in NoteSession /\ b.notes \subseteq 1..lastNote /\ b.discarded \in Nat
  /\ revision \in [NoteSession -> Nat] /\ watermark \in [NoteSession -> Nat]
  /\ {streaming, reachable} \subseteq BOOLEAN
  /\ inbox.status \in {"loading", "fresh", "stale"}
  /\ fetch.phase \in {"none", "asked", "answered"} /\ dismissal.phase \in {"none", "asked", "answered"}
  /\ shown.note \in 0..lastNote /\ turns \in 0..MaxTurns

\* An inbox that passes for fresh and names the daemon's revision holds what the daemon holds:
\* no event was missed, applied twice or out of turn, and no replacement of a runtime changed
\* an inbox that keeps its number.
InboxesAgree ==
  (inbox.status = "fresh" /\ inbox.instance = instance /\ inbox.revision = revision[Viewed])
    => inbox.content = Content(buckets, watermark, Viewed)

\* A dismissal takes from the inbox no note newer than those the user has been shown, and
\* dismissing all of them takes no discard counted since, whatever was added, replaced, closed
\* or restarted while it was under way.  (Dismissing the last note alone drops the count.)
DismissalsClearOnlySeen ==
  [][(dismissal.phase = "asked" /\ dismissal'.phase = "answered") =>
       LET unseen == IF watermark[Viewed] > shown.mark THEN watermark[Viewed] - shown.mark ELSE 0
           taken == Retained(buckets, Viewed) \ Retained(buckets', Viewed)
       IN  /\ \A n \in taken : n <= shown.note
           /\ dismissal.all => Discarded(buckets', Viewed) >= Least(Discarded(buckets, Viewed), unseen)]_noteVars

=============================================================================
