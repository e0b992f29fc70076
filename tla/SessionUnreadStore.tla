-------------------------- MODULE SessionUnreadStore --------------------------
(***************************************************************************)
(* The daemon-owned unread-completion catalog                              *)
(* (src/src/server/sessions/sessionUnreadStore.ts): the in-memory catalog, *)
(* its coalescing persistence worker, the callers of flush() and           *)
(* durableCatalogSnapshot(), the file, and crashes and restarts of the     *)
(* process that owns them.                                                 *)
(*                                                                         *)
(* A summary is its completion order and the instant it was completed at;  *)
(* the message range it also carries is not modelled.  Order 0 stands for  *)
(* "no summary": the code's orders start at 1.  MaxSafe stands for         *)
(* Number.MAX_SAFE_INTEGER, so the exhaustion errors of the code are the   *)
(* guards of the actions below.                                            *)
(***************************************************************************)
EXTENDS Integers, FiniteSets

CONSTANTS
  Session,      \* session ids
  Cwd,          \* working directories
  Flusher,      \* concurrent calls of flush() / durableCatalogSnapshot()
  Limit,        \* SESSION_UNREAD_LIMIT
  MaxSafe,      \* Number.MAX_SAFE_INTEGER
  MaxStarts,    \* bound: starts of the daemon
  MaxExposed,   \* bound: distinct snapshots handed out
  None,         \* no value (an absent snapshot)
  Missing,      \* the file does not exist
  Corrupt       \* the file is not JSON, or fails parsePersistedState

ASSUME LimitAssumption == Limit \in Nat /\ Limit > 0
ASSUME BoundAssumption == MaxSafe \in Nat /\ MaxStarts \in Nat /\ MaxExposed \in Nat
ASSUME IdentityAssumption == IsFiniteSet(Session) /\ IsFiniteSet(Cwd)

Identity == Session \X Cwd
SessionOf(i) == i[1]
CwdOf(i) == i[2]

VARIABLES
  up,                   \* "down", "loading" or "loaded"
  starts,               \* starts so far (bound)
  disk,                 \* the file: a persisted state, Missing or Corrupt
  catalogId,            \* the epoch; fresh ids are numbered in creation order
  lastCatalogId,        \* the last id createCatalogId returned
  catalogRevision,
  nextCompletionOrder,
  unread,               \* identity -> completion order, 0 when it is read
  completedAt,          \* identity -> instant of that completion
  now,                  \* logical clock: completions so far
  active,               \* identities whose activity latch is set
  excluded,             \* identities excluded from tracking
  generation,           \* persistenceGeneration
  durableGeneration,    \* durablePersistenceGeneration
  pending,              \* pendingPersistence
  failure,              \* persistenceFailure # undefined
  worker,               \* "none", "writing", "renamed" or "exiting"
  saving,               \* the snapshot the worker is saving
  flushPc,              \* where each caller of flush() is
  flushNeed,            \* the generation current when it called
  exposed               \* every snapshot durableCatalogSnapshot() returned

catalog == <<catalogId, lastCatalogId, catalogRevision, nextCompletionOrder,
             unread, completedAt, now>>
latches == <<active, excluded>>
persistence == <<generation, durableGeneration, pending, failure, worker, saving>>
callers == <<flushPc, flushNeed, exposed>>
process == <<up, starts>>
vars == <<process, disk, catalog, latches, persistence, callers>>

-----------------------------------------------------------------------------
(* Persisted states and what loading one requires *)

UnreadIn(u) == {i \in Identity : u[i] # 0}

State == [catalogId : Nat, catalogRevision : Nat, nextCompletionOrder : Nat,
          sessions : [Identity -> Nat], completedAt : [Identity -> Nat]]

Snapshot == [generation : Nat, state : State]

ASSUME SentinelAssumption ==
  /\ Missing \notin State /\ Corrupt \notin State
  /\ None \notin Snapshot

PersistedState ==
  [catalogId |-> catalogId, catalogRevision |-> catalogRevision,
   nextCompletionOrder |-> nextCompletionOrder,
   sessions |-> unread, completedAt |-> completedAt]

\* parsePersistedState: anything else makes the daemon discard the file.
Parsable(s) ==
  /\ Cardinality(UnreadIn(s.sessions)) <= Limit
  /\ \A i, j \in UnreadIn(s.sessions) : s.sessions[i] = s.sessions[j] => i = j
  /\ \A i \in Identity : s.sessions[i] <= s.nextCompletionOrder
  /\ s.nextCompletionOrder <= s.catalogRevision
  /\ s.catalogRevision <= MaxSafe

NoneUnread == [i \in Identity |-> 0]

-----------------------------------------------------------------------------
(* Scheduling a save *)

\* ensurePersistenceWorker: an async function runs up to its first await, so a
\* worker that starts has already taken its snapshot.
StartWorker(snapshot) ==
  /\ worker' = "writing"
  /\ saving' = snapshot
  /\ pending' = None

SchedulePersist ==
  LET snapshot == [generation |-> generation + 1, state |-> PersistedState']
  IN  /\ generation' = generation + 1
      /\ IF failure \/ worker # "none"
         THEN pending' = snapshot /\ UNCHANGED <<worker, saving>>
         ELSE StartWorker(snapshot)
      /\ UNCHANGED <<durableGeneration, failure>>

-----------------------------------------------------------------------------
(* Mutations of the catalog; each is one synchronous call *)

\* A summary is removed: one revision per identity, then one save.
Clear(S) ==
  /\ unread' = [i \in Identity |-> IF i \in S THEN 0 ELSE unread[i]]
  /\ completedAt' = [i \in Identity |-> IF i \in S THEN 0 ELSE completedAt[i]]
  /\ catalogRevision' = catalogRevision + Cardinality(S)
  /\ UNCHANGED <<catalogId, lastCatalogId, nextCompletionOrder, now>>
  /\ SchedulePersist

\* The part of S that is unread is cleared; nothing is saved when it is empty.
ClearUnread(S) ==
  LET removed == S \cap UnreadIn(unread)
  IN  /\ catalogRevision + Cardinality(removed) <= MaxSafe
      /\ IF removed = {} THEN UNCHANGED <<catalog, persistence>> ELSE Clear(removed)

\* The least recent completion, the one trimToLimit evicts.
Oldest(u) == CHOOSE i \in UnreadIn(u) : \A j \in UnreadIn(u) : u[i] <= u[j]

\* Mutant of Completed: a session that completes again keeps its first order.
CompletedKeepsOrder(i) ==
  [unread EXCEPT ![i] = IF unread[i] = 0 THEN nextCompletionOrder + 1 ELSE unread[i]]

Completed(i) == [unread EXCEPT ![i] = nextCompletionOrder + 1]

\* trimToLimit has something to evict once i is marked.
Evicts(i) == Cardinality(UnreadIn(Completed(i))) > Limit
Evicted(i) == IF Evicts(i) THEN {Oldest(Completed(i))} ELSE {}

RecordCompletion(i) ==
  /\ nextCompletionOrder + 1 <= MaxSafe
  /\ catalogRevision + 1 + Cardinality(Evicted(i)) <= MaxSafe
  /\ nextCompletionOrder' = nextCompletionOrder + 1
  /\ now' = now + 1
  /\ unread' = [j \in Identity |-> IF j \in Evicted(i) THEN 0 ELSE Completed(i)[j]]
  /\ completedAt' = [j \in Identity |-> IF j \in Evicted(i) THEN 0
                                        ELSE IF j = i THEN now + 1 ELSE completedAt[j]]
  /\ catalogRevision' = catalogRevision + 1 + Cardinality(Evicted(i))
  /\ UNCHANGED <<catalogId, lastCatalogId>>
  /\ SchedulePersist

Ready == up = "loaded"

ObserveActive(i) ==
  /\ Ready
  /\ active' = IF i \in excluded THEN active \ {i} ELSE active \cup {i}
  /\ UNCHANGED <<process, disk, catalog, excluded, persistence, callers>>

ObserveIdle(i) ==
  /\ Ready
  /\ i \in active
  /\ active' = active \ {i}
  /\ IF i \in excluded THEN UNCHANGED <<catalog, persistence>> ELSE RecordCompletion(i)
  /\ UNCHANGED <<process, disk, excluded, callers>>

MarkUnread(i) ==
  /\ Ready
  /\ i \notin excluded
  /\ RecordCompletion(i)
  /\ UNCHANGED <<process, disk, latches, callers>>

ForgetActivity(i) ==
  /\ Ready
  /\ active' = active \ {i}
  /\ UNCHANGED <<process, disk, catalog, excluded, persistence, callers>>

ExcludeSession(i) ==
  /\ Ready
  /\ excluded' = excluded \cup {i}
  /\ active' = active \ {i}
  /\ ClearUnread({i})
  /\ UNCHANGED <<process, disk, callers>>

ForgetSession(i) ==
  /\ Ready
  /\ active' = active \ {i}
  /\ excluded' = excluded \ {i}
  /\ ClearUnread({i})
  /\ UNCHANGED <<process, disk, callers>>

\* Ignored when the epoch is another one or the completion is newer.
Acknowledge(i, epoch, through) ==
  /\ Ready
  /\ epoch = catalogId
  /\ unread[i] # 0 /\ unread[i] <= through
  /\ ClearUnread({i})
  /\ UNCHANGED <<process, disk, latches, callers>>

ReconcileWorkspaces(cwds) ==
  LET gone == {i \in Identity : CwdOf(i) \notin cwds}
  IN  /\ Ready
      /\ active' = active \ gone
      /\ ClearUnread(gone)
      /\ UNCHANGED <<process, disk, excluded, callers>>

ReconcileCwd(cwd, sessionIds) ==
  LET gone == {i \in Identity : CwdOf(i) = cwd /\ SessionOf(i) \notin sessionIds}
  IN  /\ Ready
      /\ active' = active \ gone
      /\ excluded' = excluded \ gone
      /\ ClearUnread(gone)
      /\ UNCHANGED <<process, disk, callers>>

-----------------------------------------------------------------------------
(* The persistence worker *)

unsaved == <<generation, failure, pending, durableGeneration>>

\* writeFile to a temporary name, then rename: the file changes at once.
SaveRename ==
  /\ worker = "writing"
  /\ disk' = saving.state
  /\ worker' = "renamed"
  /\ UNCHANGED <<process, catalog, latches, unsaved, saving, callers>>

SaveReturns ==
  /\ worker = "renamed"
  /\ durableGeneration' = saving.generation
  /\ failure' = FALSE
  /\ IF pending = None
     THEN worker' = "exiting" /\ saving' = None /\ UNCHANGED pending
     ELSE StartWorker(pending)
  /\ UNCHANGED <<process, disk, catalog, latches, generation, callers>>

\* A newer pending snapshot subsumes the failed one.
SaveFails ==
  /\ worker = "writing"
  /\ pending' = IF pending = None THEN saving ELSE pending
  /\ failure' = TRUE
  /\ worker' = "exiting"
  /\ saving' = None
  /\ UNCHANGED <<process, disk, catalog, latches, generation, durableGeneration, callers>>

\* The worker's finally callback: until it runs, no new worker is started.
WorkerCleared ==
  /\ worker = "exiting"
  /\ worker' = "none"
  /\ UNCHANGED <<process, disk, catalog, latches, unsaved, saving, callers>>

-----------------------------------------------------------------------------
(* flush() and durableCatalogSnapshot() *)

Goto(f, pc) == flushPc' = [flushPc EXCEPT ![f] = pc]

FlushCall(f) ==
  /\ Ready
  /\ flushPc[f] = "idle"
  /\ Goto(f, "wait")
  /\ flushNeed' = [flushNeed EXCEPT ![f] = generation]
  /\ UNCHANGED <<process, disk, catalog, latches, persistence, exposed>>

\* Mutant of FlushWaited: the wait ends only when nothing is pending.
FlushWaitsForPending(f) ==
  /\ worker = "none"
  /\ \/ flushPc[f] = "wait" /\ pending = None /\ Goto(f, "check")
     \/ flushPc[f] = "retry" /\ Goto(f, "settle")
  /\ UNCHANGED <<process, disk, catalog, latches, persistence, flushNeed, exposed>>

\* waitForPersistenceWorker returns.
FlushWaited(f) ==
  /\ worker = "none"
  /\ \/ flushPc[f] = "wait" /\ Goto(f, "check")
     \/ flushPc[f] = "retry" /\ Goto(f, "settle")
  /\ UNCHANGED <<process, disk, catalog, latches, persistence, flushNeed, exposed>>

\* Mutant of FlushCheck: a flush that finds unsaved state does not start a worker.
FlushCheckOnlyWaits(f) ==
  /\ flushPc[f] = "check"
  /\ Goto(f, IF ~failure /\ generation = durableGeneration THEN "ok" ELSE "retry")
  /\ UNCHANGED <<process, disk, catalog, latches, persistence, flushNeed, exposed>>

FlushCheck(f) ==
  /\ flushPc[f] = "check"
  /\ IF ~failure /\ generation = durableGeneration
     THEN Goto(f, "ok") /\ UNCHANGED persistence
     ELSE /\ Goto(f, "retry")
          /\ IF worker = "none" /\ pending # None
             THEN StartWorker(pending) /\ UNCHANGED <<generation, durableGeneration, failure>>
             ELSE UNCHANGED persistence
  /\ UNCHANGED <<process, disk, catalog, latches, flushNeed, exposed>>

\* Mutant of FlushSettle: the failure of the retry is not thrown.
FlushSettleSwallows(f) ==
  /\ flushPc[f] = "settle"
  /\ Goto(f, "ok")
  /\ UNCHANGED <<process, disk, catalog, latches, persistence, flushNeed, exposed>>

FlushSettle(f) ==
  /\ flushPc[f] = "settle"
  /\ Goto(f, IF failure THEN "failed" ELSE "ok")
  /\ UNCHANGED <<process, disk, catalog, latches, persistence, flushNeed, exposed>>

\* flush() returns to a caller that wanted no snapshot, or throws.
FlushReturns(f) ==
  /\ flushPc[f] \in {"ok", "failed"}
  /\ Goto(f, "idle")
  /\ flushNeed' = [flushNeed EXCEPT ![f] = 0]
  /\ UNCHANGED <<process, disk, catalog, latches, persistence, exposed>>

\* Mutant of SnapshotReturns: the snapshot is returned without looking again.
SnapshotReturnsTooEarly(f) ==
  /\ flushPc[f] = "ok"
  /\ Goto(f, "idle")
  /\ flushNeed' = [flushNeed EXCEPT ![f] = 0]
  /\ exposed' = exposed \cup {PersistedState}
  /\ Cardinality(exposed') <= MaxExposed
  /\ UNCHANGED <<process, disk, catalog, latches, persistence>>

SnapshotReturns(f) ==
  /\ flushPc[f] = "ok"
  /\ generation = durableGeneration
  /\ Goto(f, "idle")
  /\ flushNeed' = [flushNeed EXCEPT ![f] = 0]
  /\ exposed' = exposed \cup {PersistedState}
  /\ Cardinality(exposed') <= MaxExposed
  /\ UNCHANGED <<process, disk, catalog, latches, persistence>>

\* durableCatalogSnapshot flushes again when a mutation slipped in.
SnapshotFlushesAgain(f) ==
  /\ flushPc[f] = "ok"
  /\ generation # durableGeneration
  /\ Goto(f, "wait")
  /\ flushNeed' = [flushNeed EXCEPT ![f] = generation]
  /\ UNCHANGED <<process, disk, catalog, latches, persistence, exposed>>

-----------------------------------------------------------------------------
(* Startup, crash, and loss of the file *)

\* A process that ends takes everything but the file with it.
ForgetMemory ==
  /\ up' = "down"
  /\ active' = {} /\ excluded' = {}
  /\ catalogId' = 0 /\ catalogRevision' = 0 /\ nextCompletionOrder' = 0
  /\ unread' = NoneUnread /\ completedAt' = NoneUnread
  /\ generation' = 0 /\ durableGeneration' = 0 /\ pending' = None
  /\ failure' = FALSE /\ worker' = "none" /\ saving' = None
  /\ flushPc' = [f \in Flusher |-> "idle"]
  /\ flushNeed' = [f \in Flusher |-> 0]
  /\ UNCHANGED <<starts, disk, lastCatalogId, now, exposed>>

Start ==
  /\ up = "down"
  /\ starts < MaxStarts
  /\ starts' = starts + 1

Readable == disk \notin {Missing, Corrupt} /\ Parsable(disk)

LoadInstalls ==
  /\ Start
  /\ Readable
  /\ up' = "loaded"
  /\ catalogId' = disk.catalogId
  /\ catalogRevision' = disk.catalogRevision
  /\ nextCompletionOrder' = disk.nextCompletionOrder
  /\ unread' = disk.sessions
  /\ completedAt' = disk.completedAt
  /\ UNCHANGED <<disk, lastCatalogId, now, latches, persistence, callers>>

\* A missing or unusable file starts a fresh epoch, which must itself be saved.
LoadResets ==
  /\ Start
  /\ ~Readable
  /\ up' = "loading"
  /\ catalogId' = lastCatalogId + 1
  /\ lastCatalogId' = lastCatalogId + 1
  /\ catalogRevision' = 0
  /\ nextCompletionOrder' = 0
  /\ unread' = NoneUnread
  /\ completedAt' = NoneUnread
  /\ SchedulePersist
  /\ UNCHANGED <<disk, now, latches, callers>>

LoadSaved ==
  /\ up = "loading"
  /\ worker = "none"
  /\ ~failure
  /\ up' = "loaded"
  /\ UNCHANGED <<starts, disk, catalog, latches, persistence, callers>>

\* load() throws and startup ends with it.
LoadFails ==
  /\ up = "loading"
  /\ worker = "none"
  /\ failure
  /\ ForgetMemory

Crash ==
  /\ up # "down"
  /\ ForgetMemory

\* Outside the daemon: the file is removed or damaged while nobody runs.
StorageLost ==
  /\ up = "down"
  /\ disk \notin {Missing, Corrupt}
  /\ disk' \in {Missing, Corrupt}
  /\ UNCHANGED <<process, catalog, latches, persistence, callers>>

-----------------------------------------------------------------------------

Init ==
  /\ up = "down"
  /\ starts = 0
  /\ disk \in {Missing, Corrupt}
  /\ catalogId = 0 /\ lastCatalogId = 0
  /\ catalogRevision = 0 /\ nextCompletionOrder = 0
  /\ unread = NoneUnread /\ completedAt = NoneUnread
  /\ now = 0
  /\ active = {} /\ excluded = {}
  /\ generation = 0 /\ durableGeneration = 0
  /\ pending = None /\ failure = FALSE
  /\ worker = "none" /\ saving = None
  /\ flushPc = [f \in Flusher |-> "idle"]
  /\ flushNeed = [f \in Flusher |-> 0]
  /\ exposed = {}

\* A client acknowledges what some snapshot showed it.
AcknowledgeShown(i) == \E e \in exposed : Acknowledge(i, e.catalogId, e.sessions[i])

Mutate ==
  \/ \E i \in Identity :
       \/ ObserveActive(i) \/ ObserveIdle(i) \/ MarkUnread(i)
       \/ ForgetActivity(i) \/ ExcludeSession(i) \/ ForgetSession(i)
       \/ AcknowledgeShown(i)
  \/ \E cwds \in SUBSET Cwd : ReconcileWorkspaces(cwds)
  \/ \E cwd \in Cwd, sessionIds \in SUBSET Session : ReconcileCwd(cwd, sessionIds)

Save == SaveRename \/ SaveReturns \/ SaveFails \/ WorkerCleared

FlushStep(f) == FlushWaited(f) \/ FlushCheck(f) \/ FlushSettle(f)

FlushOutcome(f) == FlushReturns(f) \/ SnapshotReturns(f) \/ SnapshotFlushesAgain(f)

Load == LoadInstalls \/ LoadResets \/ LoadSaved \/ LoadFails

Next ==
  \/ Mutate
  \/ Save
  \/ \E f \in Flusher : FlushCall(f) \/ FlushStep(f) \/ FlushOutcome(f)
  \/ Load
  \/ Crash
  \/ StorageLost

Spec == Init /\ [][Next]_vars

-----------------------------------------------------------------------------
(* What the store promises *)

\* Every variable holds a value of its kind, in every phase of the process.
TypeOK ==
  /\ up \in {"down", "loading", "loaded"}
  /\ starts \in 0..MaxStarts
  /\ disk \in State \cup {Missing, Corrupt}
  /\ catalogId \in Nat /\ lastCatalogId \in Nat
  /\ catalogRevision \in Nat /\ nextCompletionOrder \in Nat /\ now \in Nat
  /\ unread \in [Identity -> Nat]
  /\ completedAt \in [Identity -> Nat]
  /\ active \subseteq Identity /\ excluded \subseteq Identity
  /\ generation \in Nat /\ durableGeneration \in Nat
  /\ pending \in Snapshot \cup {None}
  /\ failure \in BOOLEAN
  /\ worker \in {"none", "writing", "renamed", "exiting"}
  /\ saving \in Snapshot \cup {None}
  /\ worker \in {"writing", "renamed"} <=> saving # None
  /\ flushPc \in [Flusher -> {"idle", "wait", "check", "retry", "settle", "ok", "failed"}]
  /\ flushNeed \in [Flusher -> Nat]

\* The daemon never writes, or is about to write, a file that its own
\* parsePersistedState would reject on the next start: a rejected file costs
\* every unread mark and starts another epoch.
SelfReadable ==
  /\ up # "down" => Parsable(PersistedState)
  /\ pending # None => Parsable(pending.state)
  /\ saving # None => Parsable(saving.state)
  /\ disk \notin {Missing, Corrupt} => Parsable(disk)

\* At rest the worker owes nothing: with no worker and nothing pending, the
\* newest state is durable; otherwise the newest state is pending or in flight,
\* and a failure always leaves a snapshot to retry.
NothingLost ==
  /\ pending = None =>
       \/ saving # None /\ saving.generation = generation
       \/ saving = None /\ durableGeneration = generation /\ ~failure
  /\ pending # None => pending.generation = generation
                       /\ pending.state = PersistedState
  /\ saving # None => saving.generation <= generation
                      /\ (saving.generation = generation => saving.state = PersistedState)

\* flush() that returns means what was queued when it was called is durable,
\* whatever failures, retries and other callers came between.
FlushIsDurable ==
  \A f \in Flusher : flushPc[f] = "ok" => flushNeed[f] <= durableGeneration

\* The generation counters speak of the file: when they agree the file is the
\* catalog in memory.
DurableIsOnDisk ==
  up = "loaded" /\ generation = durableGeneration => disk = PersistedState

\* An epoch and a revision that any client has been given never denote two
\* different catalogs, across failed saves, crashes and restarts.
OneCatalogPerRevision ==
  \A e \in exposed :
    /\ \A d \in exposed : <<d.catalogId, d.catalogRevision>> = <<e.catalogId, e.catalogRevision>>
                          => d = e
    /\ up # "down" /\ catalogId = e.catalogId => catalogRevision >= e.catalogRevision
    /\ up # "down" /\ catalogId = e.catalogId /\ catalogRevision = e.catalogRevision
         => PersistedState = e

\* "neither an old completion nor a client from reset state can clear newer
\* work": an acknowledgement of a shown completion that the store would accept
\* never clears a completion later than the one shown.
AcknowledgementsClearOnlyShownWork ==
  \A e \in exposed : \A i \in Identity :
    /\ up = "loaded" /\ e.catalogId = catalogId
    /\ unread[i] # 0 /\ unread[i] <= e.sessions[i]
    => completedAt[i] <= e.completedAt[i]

\* A restart of the daemon keeps the epoch unless the file was lost outside it:
\* no crash, failed save or retry makes the daemon discard its own catalog.
EpochsOnlyEndByStorageLoss ==
  [][ catalogId' = lastCatalogId + 1 => disk \in {Missing, Corrupt} ]_vars

-----------------------------------------------------------------------------
(* Liveness.  The storage may fail any number of times but not for ever, the  *)
(* event loop runs every continuation that is due, and somebody keeps calling *)
(* flush(): the service flushes after each mutation and retries on a timer.   *)

StorageFairness ==
  /\ WF_vars(Save) /\ SF_vars(SaveRename)
  /\ WF_vars(LoadSaved) /\ WF_vars(LoadFails)

FlushFairness(f) == WF_vars(FlushCall(f)) /\ WF_vars(FlushStep(f)) /\ WF_vars(FlushOutcome(f))

Fairness == StorageFairness /\ \A f \in Flusher : FlushFairness(f)

FairSpec == Spec /\ Fairness

\* Every scheduled state becomes durable, including one scheduled between the
\* worker's last look at the pending snapshot and its finally callback (when
\* no worker is started for it) and one left behind by a failed save.
EventuallyDurable ==
  \A g \in 1..MaxSafe :
    up = "loaded" /\ generation >= g ~> durableGeneration >= g \/ up = "down"

\* No call of flush() or durableCatalogSnapshot() waits for ever, however the
\* saves of the worker it waits for end.
FlushTerminates ==
  \A f \in Flusher : flushPc[f] = "wait" ~> flushPc[f] = "idle"

=============================================================================
