-------------------------- MODULE UnreadPublication --------------------------
(***************************************************************************)
(* How the session service publishes mutations of the unread catalog       *)
(* (src/src/server/sessions/piSessionService.ts): the queue of pending      *)
(* mutations, the single drain that flushes the store before broadcasting, *)
(* its retry timer, the requests that wait for it, and disposal.           *)
(*                                                                         *)
(* A mutation is its catalog revision.  The store is what SessionUnreadStore*)
(* promises: stored grows towards head, flush() returns only when what was *)
(* scheduled before the call is stored, and it may throw.                  *)
(***************************************************************************)
EXTENDS Integers, Sequences, FiniteSets

CONSTANTS
  Reader,     \* HTTP requests and the machine status projection
  None,
  Failed,
  MaxQueue,   \* MAX_PENDING_UNREAD_MUTATIONS
  MaxBatch,   \* bound: revisions one mutation of the catalog takes
  MaxHead,    \* bound: revisions per epoch
  MaxStarts   \* bound: starts of the daemon

ASSUME QueueAssumption == MaxQueue \in Nat \ {0} /\ MaxBatch \in Nat \ {0}
ASSUME HeadAssumption == MaxHead \in Nat /\ MaxStarts \in Nat \ {0}
ASSUME NoReplyAssumption == None \notin Nat /\ Failed # None

VARIABLES
  up, starts,
  epoch,
  head,            \* the catalog's revision in memory
  stored,          \* the revision in the file
  base,            \* the revision this daemon started with
  queue,           \* pendingUnreadMutations
  flushRequested,  \* unreadPublicationFlushRequested
  publication,     \* unreadPublication: "none", "draining", "resolved" or "rejected"
  batch,           \* the mutations the drain is about to broadcast
  need,            \* the revision scheduled when the drain called flush()
  timer,           \* unreadPublicationRetryTimer # undefined
  stopped,         \* unreadPublicationStopped
  dropped,         \* revisions trimPendingUnreadMutations removed
  sent,            \* revisions of this epoch that were broadcast
  pc,              \* where each request is
  asked,           \* the newest broadcast when the request was made
  reply            \* what its last request returned

process == <<up, starts, epoch>>
store == <<head, stored, base>>
drain == <<queue, flushRequested, publication, batch, need, dropped>>
requests == <<pc, asked, reply>>
vars == <<process, store, drain, timer, stopped, sent, requests>>

Elements(s) == {s[k] : k \in DOMAIN s}

-----------------------------------------------------------------------------
(* The queue and the drain *)

Excess(q) == IF Len(q) > MaxQueue THEN Len(q) - MaxQueue ELSE 0

\* trimPendingUnreadMutations: the oldest pending mutations go.
Trim(q) == SubSeq(q, Excess(q) + 1, Len(q))

Requeue(q) ==
  /\ queue' = Trim(q)
  /\ dropped' = dropped \cup (Elements(q) \ Elements(Trim(q)))

\* The drain runs up to its first await, the call of flush().
BeginDrain(q, scheduled) ==
  /\ publication' = "draining"
  /\ batch' = Trim(q)
  /\ need' = scheduled
  /\ queue' = <<>>
  /\ flushRequested' = FALSE
  /\ dropped' = dropped \cup (Elements(q) \ Elements(Trim(q)))

Fresh(n) == [k \in 1..n |-> head + k]

\* A publish call that finds no publication but an armed timer is rejected.
Refused == publication = "none" /\ timer

\* onUnreadChanged comes before the enqueueing and makes an idle machine status
\* projection publish too: that call starts the drain, without the new
\* mutations, and the outer one only leaves them for its next round.
Publish(n) ==
  /\ head + n <= MaxHead
  /\ head' = head + n
  /\ UNCHANGED <<stored, base, timer, sent>>
  /\ \/ /\ publication # "none" \/ timer
        /\ Requeue(queue \o Fresh(n))
        /\ flushRequested' = TRUE
        /\ UNCHANGED <<publication, batch, need>>
     \/ /\ publication = "none" /\ ~timer
        /\ BeginDrain(queue \o Fresh(n), head + n)
     \/ /\ publication = "none" /\ ~timer
        /\ n > 0
        /\ publication' = "draining"
        /\ batch' = queue
        /\ need' = head + n
        /\ Requeue(Fresh(n))
        /\ flushRequested' = TRUE

\* A completion, a reconciliation, a forgotten session: nobody waits.
Mutate ==
  /\ up
  /\ \E n \in 1..MaxBatch : Publish(n)
  /\ UNCHANGED <<process, stopped, requests>>

\* The store's persistence worker.
Persist ==
  /\ up
  /\ stored' \in (stored + 1)..head
  /\ UNCHANGED <<process, head, base, drain, timer, stopped, sent, requests>>

\* flush() returns to the drain.
Flushed == publication = "draining" /\ need <= stored

DrainPublishes ==
  /\ Flushed
  /\ sent' = sent \cup Elements(batch)
  /\ timer' = FALSE
  /\ IF flushRequested \/ queue # <<>>
     THEN BeginDrain(queue, head)
     ELSE /\ publication' = "resolved"
          /\ batch' = <<>>
          /\ need' = 0
          /\ UNCHANGED <<queue, flushRequested, dropped>>
  /\ UNCHANGED <<process, store, stopped, requests>>

\* Mutant of DrainFails: the failed batch is forgotten.
DrainFailsForgets ==
  /\ publication = "draining"
  /\ flushRequested' = TRUE
  /\ publication' = "rejected"
  /\ batch' = <<>>
  /\ need' = 0
  /\ UNCHANGED <<process, store, queue, dropped, timer, stopped, sent, requests>>

DrainFails ==
  /\ publication = "draining"
  /\ Requeue(batch \o queue)
  /\ flushRequested' = TRUE
  /\ publication' = "rejected"
  /\ batch' = <<>>
  /\ need' = 0
  /\ UNCHANGED <<process, store, timer, stopped, sent, requests>>

Await(from, to) == pc' = [r \in Reader |-> IF pc[r] = from THEN to ELSE pc[r]]

\* Mutant of Settled: a rejected publication arms no timer.
SettledWithoutRetry ==
  /\ publication \in {"resolved", "rejected"}
  /\ publication' = "none"
  /\ Await("publishing", IF publication = "resolved" THEN "snapshot" ELSE "refused")
  /\ UNCHANGED <<process, store, queue, flushRequested, batch, need, dropped, timer,
                 stopped, sent, asked, reply>>

\* The callback of the settled publication runs before any request that awaits
\* it goes on; until then a publish call still joins the settled publication.
Settled ==
  /\ publication \in {"resolved", "rejected"}
  /\ publication' = "none"
  /\ timer' = (timer \/ (publication = "rejected" /\ ~stopped))
  /\ Await("publishing", IF publication = "resolved" THEN "snapshot" ELSE "refused")
  /\ UNCHANGED <<process, store, queue, flushRequested, batch, need, dropped,
                 stopped, sent, asked, reply>>

\* The loop of a drain that starts with nothing to do ends at once.
TimerFires ==
  /\ up
  /\ timer
  /\ timer' = FALSE
  /\ IF publication = "none" /\ (flushRequested \/ queue # <<>>)
     THEN BeginDrain(queue, head)
     ELSE UNCHANGED drain
  /\ UNCHANGED <<process, store, stopped, sent, requests>>

-----------------------------------------------------------------------------
(* Requests: unreadCatalog, unreadCatalogForScope, markUnread, acknowledge *)

Newest(S) == IF S = {} THEN 0 ELSE CHOOSE k \in S : \A j \in S : j <= k

\* A read publishes nothing new, a write up to MaxBatch revisions.
Ask(r) ==
  /\ up
  /\ pc[r] = "idle"
  /\ \E n \in 0..MaxBatch : Publish(n)
  /\ pc' = [pc EXCEPT ![r] = IF Refused THEN "refused" ELSE "publishing"]
  /\ asked' = [asked EXCEPT ![r] = Newest(sent)]
  /\ reply' = [reply EXCEPT ![r] = None]
  /\ UNCHANGED <<process, stopped>>

Finish(r, result) ==
  /\ pc' = [pc EXCEPT ![r] = "idle"]
  /\ asked' = [asked EXCEPT ![r] = None]
  /\ reply' = [reply EXCEPT ![r] = result]
  /\ UNCHANGED <<process, store, drain, timer, stopped, sent>>

\* Mutant of Answer: the snapshot is taken without waiting for the store.
AnswerNow(r) ==
  /\ pc[r] = "snapshot"
  /\ Finish(r, [epoch |-> epoch, revision |-> head])

\* durableCatalogSnapshot returns.
Answer(r) ==
  /\ pc[r] = "snapshot"
  /\ stored = head
  /\ Finish(r, [epoch |-> epoch, revision |-> head])

\* The publication was refused or rejected, or durableCatalogSnapshot throws.
Refuse(r) ==
  /\ pc[r] \in {"refused", "snapshot"}
  /\ Finish(r, Failed)

-----------------------------------------------------------------------------
(* Disposal, crash and restart *)

Dispose ==
  /\ up
  /\ ~stopped
  /\ stopped' = TRUE
  /\ timer' = FALSE
  /\ UNCHANGED <<process, store, drain, sent, requests>>

\* The publication dispose() ends with.
FinalPublish ==
  /\ up
  /\ stopped
  /\ Publish(0)
  /\ UNCHANGED <<process, stopped, requests>>

Crash ==
  /\ up
  /\ up' = FALSE
  /\ head' = stored /\ base' = stored
  /\ queue' = <<>> /\ batch' = <<>>
  /\ flushRequested' = FALSE /\ publication' = "none"
  /\ need' = 0 /\ timer' = FALSE /\ stopped' = FALSE /\ dropped' = {}
  /\ pc' = [r \in Reader |-> "idle"]
  /\ asked' = [r \in Reader |-> None]
  /\ reply' = [r \in Reader |-> IF pc[r] = "idle" THEN reply[r] ELSE Failed]
  /\ UNCHANGED <<starts, epoch, stored, sent>>

Start ==
  /\ ~up
  /\ starts < MaxStarts
  /\ up' = TRUE
  /\ starts' = starts + 1

Restart ==
  /\ Start
  /\ UNCHANGED <<epoch, store, drain, timer, stopped, sent, requests>>

\* The file was lost while nobody ran.
RestartAfresh ==
  /\ Start
  /\ epoch' = epoch + 1
  /\ head' = 0 /\ stored' = 0 /\ base' = 0
  /\ sent' = {}
  /\ UNCHANGED <<drain, timer, stopped, requests>>

Init ==
  /\ up = TRUE
  /\ starts = 1
  /\ epoch = 1
  /\ head = 0 /\ stored = 0 /\ base = 0
  /\ queue = <<>> /\ batch = <<>>
  /\ flushRequested = FALSE /\ publication = "none"
  /\ need = 0 /\ timer = FALSE /\ stopped = FALSE
  /\ dropped = {} /\ sent = {}
  /\ pc = [r \in Reader |-> "idle"]
  /\ asked = [r \in Reader |-> None]
  /\ reply = [r \in Reader |-> None]

Drain == DrainPublishes \/ DrainFails

Next ==
  \/ Mutate
  \/ Persist
  \/ Drain
  \/ Settled
  \/ TimerFires
  \/ \E r \in Reader : Ask(r) \/ Answer(r) \/ Refuse(r)
  \/ Dispose
  \/ FinalPublish
  \/ Crash
  \/ Restart
  \/ RestartAfresh

Spec == Init /\ [][Next]_vars

-----------------------------------------------------------------------------
(* What the service promises *)

\* Every variable holds a value of its kind.
TypeOK ==
  /\ up \in BOOLEAN /\ starts \in 1..MaxStarts /\ epoch \in 1..MaxStarts
  /\ head \in 0..MaxHead /\ stored \in 0..head /\ base \in 0..head
  /\ queue \in Seq(1..head) /\ batch \in Seq(1..head)
  /\ flushRequested \in BOOLEAN /\ timer \in BOOLEAN /\ stopped \in BOOLEAN
  /\ publication \in {"none", "draining", "resolved", "rejected"}
  /\ need \in 0..head
  /\ dropped \subseteq 1..head /\ sent \subseteq 1..head
  /\ pc \in [Reader -> {"idle", "publishing", "snapshot", "refused"}]
  /\ asked \in [Reader -> 0..head \cup {None}]

\* Every mutation since the daemon started is broadcast, waiting, or was removed
\* for want of room, and is only one of these, whatever fails and is retried.
EveryMutationIsAccountedFor ==
  up =>
    /\ (base + 1)..head =
         {k \in sent : k > base} \cup Elements(batch) \cup Elements(queue) \cup dropped
    /\ Elements(batch) \cap Elements(queue) = {}
    /\ (Elements(batch) \cup Elements(queue)) \cap (sent \cup dropped) = {}

\* Mutations leave in the order the catalog took them.
MutationsStayInOrder ==
  LET waiting == batch \o queue
  IN  /\ \A i, j \in DOMAIN waiting : i < j => waiting[i] < waiting[j]
      /\ \A i \in DOMAIN waiting : \A k \in sent : k < waiting[i]

\* What a publication has captured, or will find when it fails or starts again.
Owed(k) ==
  \/ k \in Elements(batch)
  \/ k \in Elements(queue) /\ (publication \in {"draining", "rejected"} \/ timer)

Fairness ==
  /\ SF_vars(Persist) /\ SF_vars(DrainPublishes)
  /\ WF_vars(Settled) /\ WF_vars(TimerFires)
  /\ \A r \in Reader : WF_vars(Answer(r) \/ Refuse(r))

FairSpec == Spec /\ Fairness

\* "retries failed durable publication without waiting for another client
\* request": what a drain has captured, or finds queued when it fails, is
\* broadcast or trimmed with no further call, unless the daemon stops.
RetriedWithoutRequests ==
  \A k \in 1..MaxHead : Owed(k) ~> ~Owed(k) /\ (k \in sent \cup dropped \/ ~up \/ stopped)

\* The service keeps the promises of UnreadFeed.
Feed == INSTANCE UnreadFeed WITH durable <- stored

KeepsFeed == Feed!Spec

=============================================================================
