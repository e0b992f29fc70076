# PI WEB: a TLA+ verification project

PI WEB is a browser interface for the Pi coding agent. Three processes matter:

- the **browser** (`src/src/client`, composition root `components/PiWebApp.ts`);
- the **web gateway** (`src/src/server/app.ts`), which serves the UI, proxies requests to the
  local daemon or to other machines, and bridges sockets;
- the **session daemon** (`src/src/server/sessiond.ts`), which owns the agent sessions and every
  piece of state that outlives a browser tab.

All three are single-threaded JavaScript. Inside a process, what lies between two `await`s is
one step and the interleavings are those of callbacks and continuations; between processes they
are those of HTTP requests, of WebSocket events and of processes that crash and restart. The
specifications are cut accordingly: an action is a maximal piece of code without an `await`
(a SQLite transaction included), and everything that may happen at an `await` is an
interleaving of actions.

This document says what the parts of the system are (1), which module models which and how it
corresponds to the code (2), what the model-checking runs show and within which bounds (3),
which fairness they assume (4), where the code and what is written about it disagree (5), what
is proved and how (6), what is not modelled (7), and what comes next (8).

## 1. Inventory

Paths are relative to `src/src` unless they begin with `src/`.

| Component | State | Operations | Interacts with |
|---|---|---|---|
| **Unread completion catalog** `server/sessions/sessionUnreadStore.ts` | catalog (id, revision, completion orders), activity latches, exclusions, persistence generations, `session-unread.json` | observe activity, mark, acknowledge, exclude, forget, reconcile, evict, flush, durable snapshot, load, reset | session service, file system |
| **Unread publication** `server/sessions/piSessionService.ts` | queue of mutations, the drain under way, retry timer, stopped flag | publish, drain, retry, catalog / acknowledge / mark requests, dispose | catalog, event hub, machine status |
| **Unread projection** `client/src/sessionUnread.ts`, `sessionSocket.ts` | projection, freshness, refresh loop, pending writes and their observers | refresh, apply event, acknowledge, mark, connection lost and found, renegotiate, forget a machine | daemon over HTTP and the global socket |
| **Daemon ownership** `server/sessiond/` | marker `sessiond-owner.json`, its lock directory | claim with grace period, take over, release, startup, shutdown | file system, other daemons, `/proc` |
| **Scheduled tasks** `src/pi-packages/scheduled-tasks` and its host capability | SQLite tables `tasks` and `executions`, launches under way, admissions | tick, claim, launch with fallbacks, CRUD, report, recover, quiesce, dispose | session service, clock, agents |
| Session service: prompts, queues, runtimes | runtimes, agent queues, pending prompts | open, rebind, prompt, steer, edit and remove queued messages, close | Pi SDK, all stores below |
| Session archive, cleanup, listing | archive records, moved session files, caches | archive, restore, delete, scan, clean up | file system, catalog |
| Extension dialogs and questions | pending dialogs and waiters | ask, answer, cancel, time out, close | extensions, browser |
| Subsessions | completion inbox, parents and children | spawn, finish, deliver, acknowledge | session service |
| Session notifications | catalog in memory with revision | add, read, forget | event hub, browser |
| Realtime event hub | subscribers by scope | subscribe, publish, drop slow sockets | everything that publishes |
| Workspace activity and machine status | tree of projects, workspaces, sessions; computation under way | refresh, coalesce, publish | stores, event hub |
| Workspace providers and removal | providers, shared removals | provide, remove, abort, time out | plugins, git |
| **Server plugins and backends** `server/plugins/`, `server/sessiond/pluginBackendChannelRoutes.ts` | lifetimes, capabilities, admissions, channels and their queues | stage, start, publish, give up, dispose; admit, open, receive, close | capabilities, pages |
| Terminals and management commands | processes, output buffers | start, attach, write, close | sockets |
| Audit stores | SQLite rows | append, prune | session service |
| Authentication flows | login flows and their prompts | begin, answer, expire, cancel | providers |
| Machines and gateway proxies | machine list, bridged sockets | proxy, bridge, authorize | other machines |
| Notices, pins, preferences | small revisioned stores | set, read | browser |
| Browser controllers and views | selections, drafts, joins, coalesced refreshes | select, refresh, render | all of the above |
| Configuration, packaging, diagnostics | files | parse, install, report | none |

**How they interact.** The unread mark of a session is the longest path of the system and the
first one specified: the agent's events reach the session service, which changes the catalog,
which schedules a save; the service publishes the mutation only behind a flush; the hub
broadcasts it to the sockets that are subscribed then; the gateway bridges the socket and
proxies the requests; the browser joins snapshots, answers of writes and events into one
projection. The daemon's ownership of its data directory is what makes the first half of that
path meaningful. The scheduled tasks use the same pattern once more with other means: a durable
reservation before an effect that cannot be undone.

**What is hard.** Callbacks that run after the last look at a queue and before the promise is
cleared; snapshots and events that overtake one another; saves that fail and are retried while
newer ones wait; revisions that a crash takes back; restarts with a torn or foreign marker;
process ids that come again; launches whose outcome nobody can know; limits (of the catalog,
the publication queue, the browser's buffer, the host's runs). `PROJECT.json` lists each hazard
at its line.

**What makes each component correct.** Catalog: what a client was shown keeps its meaning, a
`flush()` that returns is durable, and the daemon can read its own file. Publication: nothing
is broadcast or answered before it is durable, in order, and nothing vanishes silently.
Projection: what is shown is a state the catalog had, becomes current, and is refreshed whenever
it has fallen behind what was shown before.
Ownership: one writer, and a start is never blocked by the dead. Runtimes: one of them hosts a
session, a failed open leaves nothing, the tree is not navigated while it is replaced or closed on
purpose, and a stop ends. Scheduled tasks: an occurrence starts at most one conversation, and the ledger says
nothing that is not so. Archive: a session can always be found, no request marks
what is archived as unread, and the next call completes an interrupted move. Dialogs: the record that browsers see and the
promise an extension waits for end together, at the latest with their runtime. Subsessions: a
completion reaches the branch of the parent once, and is not lost by a rewind. Machine status: a
change during a computation causes another. Removal: a workspace is removed only as somebody who
still waits has confirmed it, and every request is answered. Notifications: an inbox shows a
state the store had, and a dismissal takes away only what was on the screen. Logins: the dialog
tells of the login it shows, and no login runs that nobody answers for. Plugins: each has what
it requires for as long as it works, and none is given up that could start. Channels: a frame
that was accepted is received or the end says that it was not, an admission lasts as long as
what it admitted, and nothing of a channel runs in a plugin that is disposed of.

## 2. Modules and code

| Module | Models | Kind |
|---|---|---|
| `SessionUnreadStore` | `sessionUnreadStore.ts` | component |
| `UnreadFeed` | what the daemon promises readers of the catalog | abstract |
| `UnreadPublication` | queue, drain and requests of `piSessionService.ts` | component, implements `UnreadFeed` |
| `UnreadProjection` | `sessionUnread.ts` over socket and gateway | component, composed with `UnreadFeed` as its daemon |
| `StateAuthority` | what the daemons of one directory promise each other | abstract |
| `DaemonOwnership` | `sessiondStateOwnership.ts`, startup and shutdown | component, implements `StateAuthority` |
| `SessionRuntimes` | lookups, opens, replacements and stops in `piSessionService.ts`, `sessionCommandService.ts` | component |
| `SessionArchiveStore` | `sessionArchiveStore.ts`, file by file | component |
| `SessionArchive` | the requests, the listing and the unread marks around it | component, EXTENDS `SessionArchiveStore` |
| `SubsessionDelivery` | `subsessionCompletionInbox.ts`, `subsessionCompletionDelivery.ts` and their wiring | component |
| `ExtensionDialogs` | `extensionDialogWaiters.ts`, `pendingExtensionDialogStore.ts` and their wiring | component |
| `WorkspaceRemoval` | `workspaceRemovalService.ts` | component |
| `MachineStatus` | `machineStatusService.ts`, `workspaceAttribution.ts` | component |
| `SessionNotifications` | `sessionNotificationStore.ts`, the hub, the browser's inbox | component |
| `LoginFlows` | `oauthLoginFlowService.ts`, `authController.ts` | component |
| `ScheduledTasks` | the scheduled tasks package and its host | component |
| `PluginRuntime` | `serverPluginRuntime.ts` | component |
| `PluginChannels` | `pluginBackendChannelRoutes.ts`, the channels of `pluginBackendRegistry.ts` | component |
| `HostProofs` | ownership, removal, status, dialogs and subsessions | theorems |
| `BrowserProofs` | logins, the unread projection and notifications | theorems |
| `PluginProofs` | `PluginRuntime` and `PluginChannels` | theorems |
| other `*Proofs` | the module they are named after | theorems |
| `MC*` | constants and foci of the runs | model checking |

The layers fit together through the abstract modules. `SessionUnreadStore` shows that an epoch
and a revision name one catalog and that `flush()` means durable; `UnreadPublication` therefore
counts revisions, relies on that flush, and shows that the service is an `UnreadFeed`;
`UnreadProjection` puts the browser in front of any `UnreadFeed`.

Components that do not interact are checked in one run where that is cheap: `MCHost`,
`MCBrowser` and `MCDaemonOwnership` choose a *focus* in the initial state, and only the component
in focus moves, so that state spaces add up and do not multiply. Their next-state relations are
those of the components, unchanged.

**SessionUnreadStore.** One action per public mutation, `StartWorker`/`SchedulePersist` for the
coalescing worker (`persistenceWorker`, `pendingPersistence`, the two generation counters,
`persistenceFailure`), and a program counter for every caller of `flush()` and
`durableCatalogSnapshot()`. A worker is "writing" up to the rename, "renamed" until `save()`
returns, and "exiting" between its last look at the pending snapshot and the `finally` callback
that clears the promise: a mutation scheduled then starts no worker and has to be picked up by
a later flush. Loading parses with the code's own rules (`Parsable`), resets to a new epoch when
it cannot, and `Crash` may happen in any state. `MaxSafe` is `Number.MAX_SAFE_INTEGER`, small.

**UnreadPublication.** `Mutate` is what every caller does with a mutation: the catalog changes,
`onUnreadChanged` first lets an idle status projection publish, then the mutation is queued and
trimmed. `DrainPublishes`, `DrainFails` and `Settled` are the three continuations of
`drainUnreadPublication`; `TimerFires` is the retry; a request is `Ask`, then `Answer` or
`Refuse`. `Dispose` and `FinalPublish` are the shutdown. The catalog is a pair of revisions, in
memory and in the file.

**UnreadProjection.** `client` is the controller's record for one machine, `net` the requests
under way with their `NetworkObserver`, and the socket has four variables because its two ends
disagree: the browser sees it open (`opened`) when the gateway accepts it, the daemon subscribes
it later (`joined`). A projection carries the set of revisions it was built from, so a skipped
event shows. `projectionVersion` is compared only for equality with an earlier value and becomes
the flag `moved` of a request. `best` is a history: the newest projection that was shown. The
order behind it (`Older`) is the daemon's; the browser does not know it, since catalog ids are
only compared for equality.

**DaemonOwnership.** A member of `Daemon` is one run of the program; markers hold the run that
wrote them, since pid and start time identify it. Every file operation of the claim and of the
release is a step under the lock, every step can be the last (`Crash`), and an operator may
remove a lock or marker that belongs to nobody running. `Precise` says whether start times can
be read: if not, `FoundAlive` may hold of a dead run. The state that is protected is a version
number, with saves that end after `Shutdown` began.

**ScheduledTasks.** `ledger` is the database; `pending`, `turns` and `mode` are memory and vanish
in a crash. A tick claims every due task in one synchronous loop and starts the launches;
`TickFails` is a tick whose claims fail half way. A launch goes from `validating` over
`starting` (admitted by the host) and `sent` to `Settles`; a setting that is unavailable is noted
in the ledger and the launch repeated without it. `sent` and `since` are history variables.

**SessionRuntimes.** `life` is how far a runtime is, from its creation over the start of its
extensions to its disposal; `hosted`, `opening` and `startup` are the three maps of the service
(`active`, `pendingSessionOpens`, `startupSessions`); `at[c]` is the await in which a request is,
and the counters (`sessionEntryMutationCounts`, `treeNavigations`,
`treeExclusiveSessionOperationCounts`) are read off the awaits. A request has, after an await,
only what its code looks up or checks again. Archives of a tree and restores are `MoveSession`:
they reserve a session that has no runtime without any check, as the code does, while a batch
(`Batch`) skips what is reserved; the sessions of both wait in `queued` until those before them
are closed. `displaced` becomes true at the two places where
the code lets a second runtime come up (section 5); the model goes no further from there.

**SessionArchiveStore, SessionArchive.** A transcript is the set of messages in a file. The store
runs one operation at a time: it copies each file, writes the index, removes the originals (and
the other way round to restore), each a step that can fail or be the last before a crash.
Around it, requests take a listing and the index, await, check again what they check, and then
queue an operation; the listing completes moves that it finds half done; a runtime that is open
keeps appending to the file it knows; unread marks and the eligibility revision are those of
`markUnread` and of reconciliation, and work that ends marks its session whether it is archived
or not (`EndRun`). `settled` and `worked` are histories: the archived sessions whose request has
ended well, and those of them that work has marked since.

**SubsessionDelivery.** A completion can reach its parent by the result of a tool it calls, by a
notice at the boundary of a turn, or by a notice that wakes it. What was received is computed
from the branch of the transcript; what is being delivered is claimed in memory. A rewind cuts
the branch and gives back what it cut; a reload or restart forgets the claims.

**ExtensionDialogs.** `open` is the store, `waits` the promises; each trigger (answer,
cancellation, timer or signal, end of run, end of runtime) removes the record and settles the
promise. Two runtimes of a session can overlap while one is being closed; `latecomers` are the
dialogs opened during that.

**WorkspaceRemoval.** A flight is the shared operation with its abort signal, its deadline and
its waiters; the operation goes on behind an abort until it looks at its signal, so the same
workspace may have several flights but the map holds one. `shape` is what the client's
confirmation is compared with.

**MachineStatus.** The pass over the sources is cut at its awaits, the attribution has a cached
promise that an invalidation drops, and `untold` are changes whose notification is under way.

**SessionNotifications.** Two buckets, the active one and that of a candidate that replaces it;
`BeginReplacement`, `CommitReplacement` and `AbortReplacement` move sessions between them. The browser fetches, keeps events
that come meanwhile, replays them on the answer or fetches again. `shown` is a history of what
was on the screen, so that a dismissal can be held to it.

**LoginFlows.** A flow's record, its provider's login (which may outlast it), the prompts it
waits for, and the dialog that polls, answers and cancels with requests that are answered late,
out of order or never. `left` is a history of flows that the browser could not or would not
cancel.

**PluginRuntime.** `boot` is how far the construction of the runtime is, `lifecycle` how far each
plugin. `todo` and `progressed` are the loop of `startStagedPlugins`: a round looks at every
candidate, and one without progress fails a cycle, workspace providers behind a late capability,
or the first of the rest (`Hopeless`), or waits for the topology. `needs` is chosen when a plugin
is staged, so that every graph of requirements is looked at. `ReachesLate` says what
`findLateHostDependency` computes by recursion.

**PluginChannels.** Three parties have a channel and none waits for the others: the route of the
socket (`route`, `leaving`), the registry's session (`managed`), and the plugin (`peer`,
`inside`), whose callbacks may throw, go on behind a deadline, or answer an open that nobody
waits for. `draining` is the promise of `drainIncoming` with its `then` callbacks. `CloseAll` and
what follows it are the awaits of `performCloseAll`. `reported` collects the failures that the
code logs or throws; nothing is promised of a channel whose plugin has let a deadline pass.

## 3. Runs

Every run names its bounds in the `.cfg`; every property has a mutant, an alternative definition
in the module (its comment begins with "Mutant of") that changes the mapped definition the way a
plausible bug would; with it in place TLC finds the property violated in that run. So no bound
below is too small for the property to fail.

| Run | States | Bounds | Shows |
|---|---|---|---|
| `unread` | 184 k | catalog of 1, numbers up to 2, 2 starts, 1 snapshot handed out; 2 sessions and 1 caller of `flush()`, or 1 session and 2 callers | the catalog keeps its meaning, durability, and that it comes |
| `publication` | 163 k | 2 requests, a queue of 2, batches of up to 2, 3 revisions, 2 starts | accounting, the refinement of `UnreadFeed`, and retries that need no request |
| `projection` | 5.4 M | catalog: two epochs of 3 revisions and a buffer of 2, or one revision each and a write; notifications: limit 2, 3 notes, 2 events on their way, a budget of 3 replacements, ends, requests and faults, 2 sessions; logins: one flow with 2 prompts or two without, 3 requests | what a browser shows |
| `projection_join` | violation | the refresh loop, 2 revisions | finding 1 |
| `ownership` | 2.9 M | 3 daemons, 2 process ids, 2 versions, start times readable; 3 requests and 3 runtimes of one session; 3 plugins, one of them required, a late capability; 2 channels, 1 admission at a time, 2 frames in one of them | the refinement of `StateAuthority`, one runtime, exclusive control, plugins and what they require, channels and their ends |
| `scheduled` | 1.9 M | 2 tasks, 2 launches, 1 setting, room for 1 run, all faults but the clock | each due time once, a truthful ledger |
| `scheduled_edits` | 1.2 M | 1 task edited between a one-off and a recurrence of every other instant, 2 launches, 2 instants, crashes and a clock set back | no lost or caught-up dispatch; launches settle |
| `scheduled_reschedule` | violation | 1 task, 2 one-offs | finding 2 |
| `archive` | 1.0 M | 1 session, 2 clients, 1 message, a failing disk and crashes | sessions can be found, only work marks the archived as unread, moves finish, no request is stuck (deadlock is checked) |
| `archive_lost` | violation | 1 session, 1 client | finding 3 |
| `host` | 104 k | removal: 2 requests, 2 flights, 2 confirmations; status: 2 places; dialogs: 2 of them, 2 runtimes; subsessions: 2 completions, a branch of 3; ownership: 2 daemons, 2 process ids, start times not readable; runtimes: 2 requests, 3 runtimes | the properties of the small components, and that starts and stops end |
| `notices_dropped` | violation | the subsessions of `host` | finding 4 |

Why the bounds are enough. Two sessions and a catalog of one make every second completion evict;
numbers up to two let an epoch be used up, restarted and exhausted. Two mutations queued and
one in flight exceed the queue, so both the enqueueing and the failed drain trim. Three
revisions let an answer be older than, equal to and newer than the events around it, events be
skipped, and a buffer of two overflow; with a second request under way one revision in each of
two epochs is enough to be late within an epoch and across two (skipped events while a write is
under way are outside these bounds). Three daemons are needed for two claimants of a third one's
marker; two process ids for one that comes again. Three requests and three runtimes let one
request open, a second join or replace, and a third close. Two launches and room for one make the
host refuse. Two clients and one session contain each pair of requests that can meet at it, and
the store serialises sessions anyway. Two flights are one given up and one current; two
confirmations one that fits and one that does not. Two dialogs tell the closing runtime's from
its successor's; two completions one that is claimed from one that is not; a branch of three
holds a receipt, its result and a notice. Three plugins make a cycle beside a third, a chain, and a
late capability behind another plugin; two channels compete for one admission, and two frames are
one being received and one that waits. Two notes fill a bucket and a third overflows it. Where
a theorem exists (section 6) the safety properties do not depend on the bounds at all.

Deadlock is checked in the archive runs. In the others it is not: the bounds stop the model, and
a system without requests is at rest.

## 4. Fairness

- *The event loop runs what is due*: weak fairness of the continuations (`Save`, `FlushStep`,
  `Settled`, `SaveReturns`, `Claim`, `Release`, `Continue`, `Progress`, `Settle`, `Resumes`, ...).
  JavaScript guarantees it for callbacks whose promise has settled.
- *Storage fails, but not for ever*: strong fairness of `SaveRename` in the store and of
  `Persist` and `DrainPublishes` in the publication; of a client's `List` in the archive, where
  moreover the disk fails and the daemon dies finitely often. A disk that never accepts a write
  again makes nothing durable, and the code does not claim otherwise.
- *Timers fire*: `TimerFires`, the removal's `Deadline`, and in the ownership protocol `GraceEnds`
  and `LockGivenUp` (their deadlines are real time). A removal's provider owes no answer.
- *The agent SDK's steps end*: `GoesOn` in `SessionRuntimes`, for creation, startup and disposal
  unless an extension waits for its user. Users owe no answer, so `StopsEnd` holds because a stop
  cancels what extensions ask.
- *Somebody calls flush()*: weak fairness of `FlushCall` in `unread`. The store has no timer of
  its own; its caller flushes after each mutation and retries (`RetriedWithoutRequests` shows
  that part without assuming requests). *Somebody lists*: `InterruptedMovesFinish` says what the
  next listing completes.
- *The host answers every launch*: weak fairness of `LaunchSteps`. `run()` awaits the session's
  admission; nothing bounds it in time, so `LaunchesSettle` holds only under this assumption.

In `MCHost` the fairness of three components is conjoined without regard to the focus. That is
sound: in the initial states nothing fair is enabled, and a component out of focus stays there.

No fairness is assumed of users, clients, crashes, restarts, providers, or of the clock.

## 5. Where the code disagrees with what is written

1. **The snapshot on open may precede the subscription** (`projection_join`, `FreshIsCurrent`).
   `bridgeAuthorizedSocket` (`server/sessiond/sessionProxyRoutes.ts:355`) is reached with the
   browser's socket open already, and the browser fetches its snapshot on `open`
   (`PiWebApp.ts:2078-2084`), while the daemon's `addGlobal` comes after the gateway's
   authorization and its own connection. A mutation broadcast in between is in neither; the
   projection stays "fresh" until the next event or reconnection. The header comment of
   `client/src/sessionUnread.ts:76-79` promises join state from HTTP and currency from
   contiguous events. `AnchoredIsCurrent` is the same property for snapshots requested behind
   the subscription, and it holds.
2. **A one-off moved away and back is never dispatched** (`scheduled_reschedule`,
   `DueCanBeClaimed`). `claim()` (`store.ts:142`) refuses an occurrence that exists and leaves
   `nextDue`; the task is then due at every tick and never launched. `docs/scheduled-tasks.md:73`
   says that changing the schedule of a consumed one-off schedules it again. Recorded as a
   divergence between documentation and code: refusing is what keeps an occurrence from
   running twice.
3. **An archive that died in the middle of a copy is believed by the next** (`archive_lost`,
   `MessagesAreKept`). `copySessionFileToArchive` (`sessionArchiveStore.ts:203`) returns at once
   when the archive path exists. A torn copy is then kept, the index written and the original
   removed; the rest of the transcript is gone.
4. **A waiting parent is not woken after a reload** (`notices_dropped`, `WaitingParentIsWoken`).
   `deliverPendingSubsessionCompletions` (`piSessionService.ts:5924`) returns while a
   tree-exclusive operation holds the idle parent, and the end of such an operation
   (`4849-4855`) schedules no delivery, unlike the ends of entry mutations and navigations.

Met while modelling, kept in the modules as the code does it, and no finding of a run:

- *Scheduled tasks.* A launch refused at the host's limit is recorded as "uncertain"
  (`scheduler.ts:89`), though `docs/scheduled-tasks.md:95-96` keeps the word for launches that
  could not be ruled out.
- *Archive.* A listing that races a restore can archive the session again (compare
  `docs/plugins.md:653`). A prompt that races an archive is checked by `assertWritable` only
  (`piSessionService.ts:4227`); when its work ends behind the archive, `observeUnreadActivityState`
  (5712-5721) marks the archived session as unread, and `observeActivityState`
  (`sessionUnreadStore.ts:124-144`) does not ask whether it is archived. The next listing of the
  workspace forgets the mark. `ForgottenStaysForgotten` says that nothing else does this.
- *Projection.* Catalog ids have no order (`sessionUnread.ts:303-313, 428-432`), so a late event of
  a former epoch on a dying socket puts the projection back to that epoch and marks it stale, and
  a late answer of a write of that epoch may then count as fresh. `GoingBackIsRepaired` says that
  this does not last: a refresh is asked for, or one is under way whose answer is not older. If
  that refresh fails, the old projection stays, and may count as fresh, until the next event,
  connection or refresh.
- *Dialogs.* Dialogs opened during the awaited abort of a closing runtime outlive it, against the
  comment at `extensionDialogWaiters.ts:46-51`; `TeardownSettlesDialogs` excepts them by name.
- *Runtimes.* `getOrOpenParentForSubsession` and `getOrOpenTrackedSubsession` (2866-2881,
  2756-2771) create a runtime without a look at `pendingSessionOpens`; an archive that awaited a
  listing deletes the active entry of a successor (4177). Either way two runtimes of a session
  can exist (`displaced`). A stop waits for ever for a dialog asked after it began. Identity
  reservations do not stop lookups from opening an unloaded session, despite the comment at
  3984-3985. `archiveTree` and `restore` (3649-3698) name no runtime for an unloaded session, so
  `runTreeExclusiveOperation` (4829-4841) checks nothing and their reservation may join another;
  both then close whatever runtime has come up meanwhile. Only navigations refuse prompts
  (`assertTreeNavigationInactive`): a prompt may begin while a fork, reload or archive has
  reserved the session, and the close that follows aborts it. `ControlIsExclusive` is stated with
  these exceptions.
  A fork can go on with a runtime that was closed while its name was looked up.
- *Notifications.* Dismissing the last note by itself drops the count of discarded ones, as its
  tests intend. A dismissal of all can remove a note that was hidden by the limit, revealed by a
  dismissal whose answer was lost, and never shown. `runSelectedRefresh` drops a trailing refresh
  when the fetch in flight fails; the inbox then stays stale until the next event.
- *Channels.* A plugin that opens a channel after its deadline is asked to close it behind the
  admission, which is released with the socket (the comment at `pluginBackendRegistry.ts:557` says
  so): for that time a plugin can hold more channels than the limit. `closeAll` does not wait for
  a receive or close callback that overran the deadline of a channel closed earlier; it was only
  logged.
- *Logins.* A poll answered before the user's answer but arriving after it passes the check of
  request ids and shows the answered prompt until the next poll (`authController.ts:372`). After
  a poll has failed polling does not resume. A flow that expired in the browser stays "expired"
  though its login commits later. Opening another login over a shown flow leaves that one running
  until it expires.

## 6. Proofs

TLAPS proves, for every value of the constants that satisfies the named assumptions:

| Module | Theorems |
|---|---|
| `SessionUnreadStoreProofs` | `TypeCorrect`, `AlwaysSelfReadable`, `NothingIsLost`, `FlushMeansDurable`, `DurableMeansOnDisk`, `ShownRevisionsAreFinal`, `AcknowledgementsAreSafe`, `EpochsAreKept` |
| `UnreadPublicationProofs` | `PublicationTypeCorrect`, `MutationsAreAccountedFor`, `MutationsLeaveInOrder`, `ServiceKeepsFeed` |
| `HostProofs`, ownership | `OwnershipTypeCorrect`, `TheOwnerIsRecorded`, `AtMostOneOwner`, `TheDeadDoNotBlock`, `KeepsTheAuthority` |
| `HostProofs`, removal and status | `RemovalTypeCorrect`, `OnlyWhatIsAskedIsRemoved`, `StatusTypeCorrect`, `TheStatusCatchesUp` |
| `HostProofs`, dialogs and subsessions | `DialogsTypeCorrect`, `DialogsEnd`, `SubsessionsTypeCorrect`, `EachIsDeliveredOnce` |
| `SessionRuntimesProofs` | `RuntimesTypeCorrect`, `OneRuntimeHosts`, `RequestsLeaveNothingBehind`, `ControlStaysExclusive` |
| `ScheduledTasksProofs` | `TypeCorrect`, `NeverTwice`, `TheLedgerTellsTheTruth`, `FallbacksAreNoted`, `LaunchesKeepTheirRows`, `OneOffsSurvive`, `MissedTimesAreSkipped` |
| `SessionArchiveProofs` | `ArchiveTypeCorrect`, `SessionsStayInSight`, `TheForgottenStayForgotten` |
| `BrowserProofs`, logins | `LoginsAreTold`, `RunsAreOwned` |
| `BrowserProofs`, projection | `ContentsAreOfTheirRevision`, `StaleProjectionsAreRefreshed`, `AnchorsAreCurrent`, `GoingBackIsAlwaysRepaired` |
| `BrowserProofs`, notifications | `InboxesAgreeAlways`, `DismissalsStayWithinTheSeen` |
| `PluginProofs` | `ProvidersAreThere`, `FailuresHaveReasons`, `EveryFrameArrives`, `AdmissionsAreCovered`, `ShutdownLeavesNothing` |

Together they state every invariant and every action property that a passing run checks, so what
the runs of section 3 show on small instances holds for all of them; liveness is the exception.

Some of these properties (`SelfReadable`, `OneOwner`, `NothingLost`, `DurableIsOnDisk`,
`EpochsOnlyEndByStorageLoss`, `OwnerIsRecorded`, `NeverBlockedByTheDead`, `FallbacksAreRecorded`, `LaunchesHaveRows`,
`MutationsStayInOrder`) are stated by theorems only and appear in no run any more. `KeepsAuthority`
still contains `OneOwner` in the `ownership` run: a second owner would be no step of `StateAuthority`.

**The catalog.** Assumed: `Limit` is a positive natural, the bounds are naturals, sessions and
directories are finite sets. The argument is a tower of three inductive invariants, each relative to those below it.
`IInv` (`PersistenceOK`, `CatalogOK`, `RestOK`, `DiskOK`) says that the catalog in memory, every
snapshot that waits or is being saved, and the file satisfy the parser's rules; the hard step is
a mutation at the limit, which evicts the oldest completion before it records the new one, with
lemmas on the cardinality of the set of unread identities (`ClearKeeps`, `RecordKeeps`).
`Durability` joins `NothingLost` with the order of the generation counters
(`GenerationsOrdered`), what they say of the file (`FileFollows`) and how far each caller of
`flush()` has come (`FlushProgress`): once a caller has seen no worker, any worker that starts
saves what it needs. `Exposure` says that the catalog, the waiting and the saving snapshot and
the file all continue every snapshot that was handed out: the same epoch at the same or a later
revision with orders that only grew, or another epoch. A restart resumes from the file, so what
was shown keeps its meaning.

**Ownership.** Assumed: `Precise` is Boolean, `Absent` and `Torn` are not daemons and differ,
some process id exists, the bound is natural. The inductive invariant `OwnershipInv` has seven parts:
`TypeOK`; `LockIsHeld` (whoever is inside the claim or the release after `Lock` holds the lock
directory); `PidsDiffer` (running daemons have different process ids); `OwnerIsRecorded`;
`SeenIsMarker` (what was read under the lock is still in the file); `ReplacesNobody` (who removes
or creates a marker has seen that nobody runs behind it); and `SavesAreNewer` (memory is never
older than the disk while serving). `OneOwner` follows from `OwnerIsRecorded` alone, since there
is one marker. The refinement maps `owner` to whoever serves; each step is a `Take`, `Write`,
`Leave` or a stutter.

**Scheduled tasks.** Assumed: tasks and definitions exist, definitions have the fields of the
schema, reported outcomes are of the two kinds. The inductive invariant `IInv` consists of `TypeOK`; `RowsOK` (what the row of an execution,
its launch and its submitted prompts may look like together: no prompt before the host's
admission, none twice, no launch without a row that awaits its outcome);
`OccurrencesAreUnique`; `LaunchesHaveTasks`; `OneOffsAreDueOnTime` (a one-off is due at its
instant or not at all) and `OneOffsAreNotLost`. `RowsOK` speaks of one execution at a time, so
the lemma `OneRow` reduces an action to the row it changes; `Tables` states the parts that relate
tasks and executions for any pair of tables, because a start claims from tables that recovery has
computed and that are no state; claims of several tasks at once go through the bijection that
pairs them with unused executions (`ClaimsKeepTables`). `MissedRecurrencesAreSkipped` needs one
part more, `RecurrencesAreAhead` (a recurring task that is current is due after the last instant
at which it was computed); the division by the period is dealt with once, in the lemmas
`NextMultiple` and `OccurrencesComeLater`.

**Publication.** Assumed: the bounds are naturals, the queue holds at least one. `PubInv` is
`TypeOK`, `WaitingInOrder` (what waits is in the order of its revisions, behind what was
published), `EveryMutationIsAccountedFor`, `SentIsDurable` (what is being sent is on the disk),
`OneRequestEach` and `NothingWhileDown`. Order of a queue that is trimmed at one end and refilled
at the other is where the work lies: lemmas on `SubSeq` and `\o` state it once. The refinement of
`UnreadFeed` maps what was published to the feed's history; every action is one of the feed's or
a stutter.

**Runtimes.** Assumed: `NoRuntime` is no runtime. `RuntimesInv` is `RuntimesTypeOK`,
`ControlIsExclusive`, and as long as nothing is `displaced`, `Hosting`: what is being opened is
known (`OpensAreKnown`), each request that was given a runtime has one that lives or is being
closed by somebody (`CallersAreServed`), and a runtime that waits for its extensions is waited
for (`SomebodyWaits`). `OneRuntime` and `NothingIsLeftBehind` follow. `ControlIsExclusive` is
inductive because every reservation of a session that is hosted, a move's included, looks at
navigations and other reservations in the step in which it is made, and a runtime that is no
longer hosted does not come back.

**Archive.** Assumed: sessions are finitely many, the bound is natural, `None` is no transcript.
`ArchiveInv` adds to the two properties what the operation at the head of the store's queue has
done so far (`OpOK`: archiving has copied before the index names a session and before originals
go, restoring has put a transcript back before the archived one goes, deleting leaves in sight
what somebody has written meanwhile), what may wait behind it (`QueueOK`), and `ListingsKnow`: a
listing that may still mark a session as unread has an index that names every session that nobody
may mark.

**Subsessions.** `SubsessionInv` is the types, `NeverDeliveredTwice`, `WorkIsLive` (only an open
parent works, and an exclusive operation holds an idle one) and `InboxFollowsRun`, the hard part:
for every phase of the parent's run, how what the inbox has received, claims and holds relates to
the branch. Only a turn may have received more than its branch: a receipt whose tool failed.

**Logins.** Assumed: `NoFlowYet` is no flow. `LoginInv` says for each flow that what it tells
agrees with its login and its prompts (`FlowOK`), for the dialog that it waits for a start only
while it shows no flow (`DialogOK`), and for each request under way that an answer that tells of
an end tells of one that has come (`CallOK`): ends do not pass away, so an answer that is late is
still true.

**Projection.** Assumed: `None` is no projection and no number, the buffer's limit and the lengths
of histories are natural. `ProjectionInv` says that a subscribed socket carries events of this
epoch up to the last broadcast (`SocketOK`); of the client that its contents are those of its
revision and that it is stale only while somebody does something about it or has failed to
(`ClientHolds`); that one which is fresh and anchored lacks nothing but what the socket still
carries (`AnchorHolds`); and of every answer under way that it is no older than a projection that
has not moved since its request began, and that together with the events kept meanwhile and those
on the socket it makes up all that was broadcast (`AnswerHolds`). The last is what makes a late
answer safe. What a replay of kept events computes is a recursive function of their number; that
it exists, and what it preserves, is proved by counting (`Counting`, a least counterexample instead
of an induction rule; `StepsDefine`, `ReplayIs`). `RepairInv` is inductive beside it: the newest
projection shown is one the catalog has reached (`BestOK`), and a client that shows an older one is
about to refresh, refreshes with an answer that is not older if it has come, or has failed to
(`Mends`). A step that goes back marks the projection stale and so asks for a round, and what
the daemon answers from then on is its catalog, which has reached all that was shown.

**Notifications.** Assumed: the limit is positive, the session in view is a session. `Known` is an
existential history: some function `h` from revisions to contents ends in what the store has now,
and every event on the wire, every answer of a request and an inbox that counts as fresh agree
with `h` at the revision they carry (`EventHolds`, `SnapshotHolds`, `BoxHolds`). A step of the
host extends `h` by what it does to the one or two buckets (`StoreOK`); a step of the browser
keeps it and has to compute the next content from the last and the event: at the limit
this is a set of lemmas on the latest notes of a set (`LatestAfter`, `LatestWithout`,
`LatestWith`), for a dismissal the lemma `WithoutDiscardsIs`.
`InboxesAgree` is `h` at the present revision. `SeenBy` says that what the browser names in a
dismissal is not above what was shown, so that a dismissal clears nothing newer than what was seen.

**Plugins.** Assumed: plugins are finitely many, `Late` is none of them. `LifetimesInv` says that
`order` lists once each plugin that works, everyone behind those it requires (`OrderIsTruthful`),
and what each phase of the daemon leaves possible (`PhasesAreKept`); disposal from the end of the
list then never takes a provider from under a dependent. `FailuresInv` adds that what a round
that came to nothing has passed over still waits (`PassedOver`): a plugin is then given up only
when it requires one that failed, one that is late, or is on a cycle or behind one, which exists
because in a finite set of which each requires another a smallest closed part is a cycle
(`CyclesExist`).

**Channels.** Assumed: the bound on frames is natural. `ChannelsInv` says of each channel alone
how its socket, route, admission and managed channel go together (`RouteOK`, `SessionOK`), and
that what was accepted is what was received, what is in hand and what is queued, in order
(`FramesOK`); and of all channels that what `closeAll` has waited for does not come back
(`ShutdownOK`). As only the last speaks of more than one channel, an action is reduced to the
channel that it touches (`OnlyTouches`).

**The small components.** Dialogs: `DialogsInv` adds `AskersArePresent` (a dialog that was not
opened too late belongs to a runtime that nobody closes yet) to the pairing of records and
promises. Removal: `RemovalInv` has `UnabortedIsWanted` (the flight of an operation whose signal
is not aborted is the current one, undecided and waited for) and `WaitsAreForTheCurrent`; that a
removal is only what somebody asks for follows as an action property. Status: `StatusInv` has
`KeptIsCurrent` and `ReadIsCurrent` (what is cached, or has been read by the running pass, is so
now unless a change is untold or another pass is wanted), from which the tree at rest is the
sources' tree.

**Only model-checked.** Liveness under fairness and ENABLED are beyond the prover:
`EventuallyDurable`, `FlushTerminates`, `RetriedWithoutRequests`, `StartsAndStopsEnd`, `StopsEnd`,
`RequestsAreAnswered`, `InterruptedMovesFinish` and `LaunchesSettle` are checked on the instances
of section 3 and not proved. The disagreements of section 5 are counterexamples and need no
proof.

## 7. What is abstracted, and what is not modelled

- *Data.* Titles, message ranges, prompts, report texts and the syntax of files are left out. A
  completion is its order and instant. A cron expression is a period with an offset; the zone
  shifts it. Task revisions: a request with a stale one is refused and changes nothing, so
  requests here carry the current one.
- *Unread publication.* The service keeps one store per scope; one stands for all.
- *Unread projection.* Which session a write names, and that equal acknowledgements share one
  request, do not matter to the projection and are left out. One machine stands for each.
- *Ownership.* Of the startup and shutdown sequences only what is ordered with the claim, the
  last save and the release.
- *Runtimes.* One session of one scope. Disposal of the whole service, model changes, prompts
  held during a compaction, and what happens after `displaced` are left out. That an edit of a
  queued message can meet another queue of the same length is accepted by its test
  (`queuedMessageMutation`), and not modelled.
- *Archive.* Trees and cleanups are requests for several sessions; the caches of the scanner are
  left out.
- *Subsessions.* One parent; reopening and rewinding are steps without an await inside. The
  links between parents and children and forgetting a child are left out.
- *Dialogs.* The structured questions (`askUserDomain.ts`) hold no promise and are left out.
- *Notifications.* One runtime and its successors, one dismissal at a time. The catalog of
  summaries, the optimistic overlay and announcements are left out; the contents of an inbox that
  is stale are not shown, so they are dropped.
- *Logins.* The flows of MCP servers, directly saved keys, logout and the lookup of providers are
  left out; answers to cancellations are not looked at by the browser.
- *Plugins.* A plugin provides one capability; the values of capabilities, health checks, notices
  and disabled entries are left out. A plugin that overruns its deadline counts as one that failed
  or was disposed of, as in the code.
- *Channels.* What lies between the answer of `openChannel` and the ready route is one step, since
  no event comes between two continuations of one promise. Frames to the page, requests and
  resources of backends, and the gateway's proxy of channels
  (`pluginBackendChannelProxyCoordinator.ts`) are left out; one limit stands for the three of
  admissions.
- *Not modelled at all* are the components of section 1 without a module: the event hub's media
  references, terminals, audit, proxies, notices, pins and preferences, most of the browser's
  controllers and views, configuration and packaging. The first three and the controllers keep
  state that is worth a module (section 8); the rest is presentation, parsing, or a store with one
  writer.

## 8. Plan

1. The gateway's proxy of plugin channels, in front of `PluginChannels` as `UnreadProjection` is in
   front of `UnreadFeed`; requests and resources of backends.
2. Terminals: attach, replay, close; the model catalog's refresher (an hourly tick that cancels a
   forced retry).
3. The session controller's joins in the browser.
4. Proofs: the invariant of each new module; the composition of `UnreadPublication` with
   `UnreadProjection`, so that what the browser shows is tied to what the daemon has saved; and
   the safety half of the liveness properties (who is responsible for the next step of what is
   owed).
