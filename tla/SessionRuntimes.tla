--------------------------- MODULE SessionRuntimes ---------------------------
(***************************************************************************)
(* The runtimes of a session (src/src/server/sessions/piSessionService.ts  *)
(* and sessionCommandService.ts).  A request opens the session if no       *)
(* runtime hosts it, joins an open that is under way, and then works on    *)
(* the runtime it was given: it adds entries, navigates the tree, or       *)
(* replaces, reloads or closes the runtime in a tree-exclusive operation.  *)
(* Each await is a step of its own, after which a request has only what    *)
(* its code looks up or checks again.                                      *)
(*                                                                         *)
(* One session in one scope.  The model stops at the two places where the  *)
(* code lets a second runtime of the session come up (displaced).          *)
(***************************************************************************)
CONSTANTS
  Caller,     \* requests there are at a time
  PiRuntime,
  NoRuntime

ASSUME NoRuntimeAssumption == NoRuntime \notin PiRuntime

VARIABLES
  life,       \* runtime -> how far it is
  hosted,     \* the runtime that active holds
  opening,    \* the runtime whose creation pendingSessionOpens holds
  startup,    \* the runtime that startupSessions holds
  parked,     \* the runtimes whose extensions ask the user something while they start,
  unexpected, \* and those that asked when a close was waiting already
  doing,      \* caller -> its operation, "nothing" if it has none
  at,         \* caller -> the await it is in
  on,         \* caller -> the runtime it waits for or was given
  displaced   \* a second runtime has come up, or the host has lost one

hostedVars == <<hosted, opening, startup, parked, unexpected>>
callerVars == <<doing, at, on>>
runtimeVars == <<life, hostedVars, callerVars, displaced>>

Alive == {r \in PiRuntime : life[r] \in {"creating", "starting", "ready"}}
Fresh(r) == life[r] = "none" /\ \A c \in Caller : on[c] # r

\* sessionEntryMutationCounts, treeNavigations and treeExclusiveSessionOperationCounts.
Mutating(r) == {c \in Caller : on[c] = r /\ at[c] \in {"mutating", "controlling", "steering", "restarting"}}
Navigating(r) == {c \in Caller : on[c] = r /\ at[c] \in {"navigating", "steering"}}
Exclusive ==
  {c \in Caller : \/ at[c] \in {"reserved", "queued", "closed", "reopening", "forking", "persisting",
                                "restarting"}
                  \/ at[c] \in {"draining", "drained", "closing"} /\ doing[c] # "stop"}

\* hasActiveWork; a command does not count its own receipt.
ActiveWork(r, receipts) == Navigating(r) # {} \/ Mutating(r) \ receipts # {} \/ Exclusive # {}

-----------------------------------------------------------------------------
(* How a request goes on *)

Goes(c, where, r) ==
  /\ at' = [at EXCEPT ![c] = where]
  /\ on' = [on EXCEPT ![c] = r]
  /\ UNCHANGED doing

Ends(c) ==
  /\ doing' = [doing EXCEPT ![c] = "nothing"]
  /\ at' = [at EXCEPT ![c] = "none"]
  /\ on' = [on EXCEPT ![c] = NoRuntime]

\* Everyone who waits for r goes where next sends what it waits in.
WaitersGo(r, next) ==
  /\ at' = [c \in Caller |-> IF on[c] = r /\ at[c] \in DOMAIN next THEN next[at[c]] ELSE at[c]]
  /\ doing' = [c \in Caller |-> IF at'[c] = "none" THEN "nothing" ELSE doing[c]]
  /\ on' = [c \in Caller |-> IF at'[c] = "none" THEN NoRuntime ELSE on[c]]

\* create, called by c, which waits for it in where.
Creates(c, where) ==
  \E r \in PiRuntime :
    /\ Fresh(r)
    /\ life' = [life EXCEPT ![r] = "creating"]
    /\ opening' = r
    /\ Goes(c, where, r)
    /\ UNCHANGED <<hosted, startup, parked, unexpected>>

\* Mutant of OpenPending: an open that is under way is not found.
OpenAgain(c, where, found) ==
  IF hosted # NoRuntime
  THEN Goes(c, found, hosted) /\ UNCHANGED <<life, hostedVars>>
  ELSE Creates(c, where)

OpenPending(c, where, found) ==
  IF opening # NoRuntime
  THEN Goes(c, where, opening) /\ UNCHANGED <<life, hostedVars>>
  ELSE IF hosted # NoRuntime
       THEN Goes(c, found, hosted) /\ UNCHANGED <<life, hostedVars>>
       ELSE Creates(c, where)

\* The synchronous head of closeActiveSession: the session is no longer hosted, whichever
\* runtime hosts it.
Closes(r) ==
  /\ hosted' = NoRuntime /\ parked' = {} /\ unexpected' = {}
  /\ life' = IF life[r] = "ready" THEN [life EXCEPT ![r] = "closing"] ELSE life
  /\ displaced' = (hosted \notin {r, NoRuntime})
  /\ UNCHANGED <<opening, startup>>

-----------------------------------------------------------------------------
(* Looking a session up *)

Ask(c, what) ==
  /\ doing[c] = "nothing"
  /\ what \in {"navigate", "fork"} => Exclusive = {}
  /\ doing' = [doing EXCEPT ![c] = what]
  /\ at' = [at EXCEPT ![c] = "lookup"]
  /\ UNCHANGED <<life, hostedVars, on, displaced>>

\* getActive.
Lookup(c) ==
  /\ at[c] = "lookup"
  /\ IF opening # NoRuntime THEN Goes(c, "waiting", opening)
     ELSE IF hosted # NoRuntime THEN Goes(c, "got", hosted)
     ELSE Goes(c, "resolving", NoRuntime)
  /\ UNCHANGED <<life, hostedVars, displaced>>

Resolved(c) ==
  /\ at[c] = "resolving"
  /\ OpenPending(c, "waiting", "got")
  /\ UNCHANGED displaced

NotFound(c) ==
  /\ at[c] = "resolving" /\ Ends(c)
  /\ UNCHANGED <<life, hostedVars, displaced>>

\* getOrOpenParentForSubsession and getOrOpenTrackedSubsession: active is looked up before
\* the header is read, and create is called whatever happened meanwhile.
WakeDirectly(c) ==
  /\ doing[c] = "nothing" /\ hosted = NoRuntime
  /\ doing' = [doing EXCEPT ![c] = "wake"]
  /\ at' = [at EXCEPT ![c] = "header"]
  /\ UNCHANGED <<life, hostedVars, on, displaced>>

CreateDirectly(c) ==
  /\ at[c] = "header"
  /\ displaced' = ({hosted, opening} # {NoRuntime})
  /\ Creates(c, "waiting")

GotParent(c) ==
  /\ doing[c] = "wake" /\ at[c] = "got" /\ Ends(c)
  /\ UNCHANGED <<life, hostedVars, displaced>>

-----------------------------------------------------------------------------
(* createSessionRuntime *)

Unless(r, kept) == IF kept = r THEN NoRuntime ELSE kept

\* bindRuntime, then bindSessionExtensions.
BindRuntime(r) ==
  /\ life[r] = "creating"
  /\ life' = [life EXCEPT ![r] = "starting"]
  /\ hosted' = r /\ startup' = r
  /\ UNCHANGED <<opening, parked, unexpected, callerVars, displaced>>

CreationFails(r) ==
  /\ life[r] = "creating"
  /\ life' = [life EXCEPT ![r] = "none"]
  /\ opening' = Unless(r, opening)
  /\ WaitersGo(r, [waiting |-> "none", draining |-> "drained", reopening |-> "none"])
  /\ UNCHANGED <<hosted, startup, parked, unexpected, displaced>>

ExtensionAsks(r) ==
  /\ life[r] = "starting" /\ r \notin parked
  /\ parked' = parked \cup {r}
  /\ unexpected' = IF \E c \in Caller : at[c] = "draining" THEN unexpected \cup {r} ELSE unexpected
  /\ UNCHANGED <<life, hosted, opening, startup, callerVars, displaced>>

UserAnswers(r) ==
  /\ r \in parked
  /\ parked' = parked \ {r} /\ unexpected' = unexpected \ {r}
  /\ UNCHANGED <<life, hosted, opening, startup, callerVars, displaced>>

Started(r) ==
  /\ life[r] = "starting" /\ r \notin parked
  /\ life' = [life EXCEPT ![r] = "ready"]
  /\ hosted' = r
  /\ startup' = Unless(r, startup) /\ opening' = Unless(r, opening)
  /\ WaitersGo(r, [waiting |-> "got", draining |-> "drained", reopening |-> "none"])
  /\ UNCHANGED <<parked, unexpected, displaced>>

StartFails(r) ==
  /\ life[r] \in {"creating", "starting"} /\ r \notin parked
  /\ life' = [life EXCEPT ![r] = "failing"]
  /\ hosted' = Unless(r, hosted) /\ startup' = Unless(r, startup)
  /\ parked' = {} /\ unexpected' = {}
  /\ UNCHANGED <<opening, callerVars, displaced>>

\* Mutant of FailedIsDisposed: a failed open stays where lookups find it.
FailedStays(r) ==
  /\ life[r] = "failing"
  /\ life' = [life EXCEPT ![r] = "none"]
  /\ WaitersGo(r, [waiting |-> "none", draining |-> "drained", reopening |-> "none"])
  /\ UNCHANGED <<hostedVars, displaced>>

FailedIsDisposed(r) ==
  /\ life[r] = "failing"
  /\ life' = [life EXCEPT ![r] = "none"]
  /\ opening' = Unless(r, opening)
  /\ WaitersGo(r, [waiting |-> "none", draining |-> "drained", reopening |-> "none"])
  /\ UNCHANGED <<hosted, startup, parked, unexpected, displaced>>

\* The rest of closeActiveSession; if the abort failed, its callers are told, and only a
\* batch goes on with the session.
Disposed(r) ==
  /\ life[r] = "closing"
  /\ life' = [life EXCEPT ![r] = "none"]
  /\ \E aborted \in BOOLEAN :
       LET next(c) == CASE doing[c] = "batch" -> "persisting"
                        [] doing[c] \in {"archive", "move"} /\ aborted -> "persisting"
                        [] doing[c] = "reload" /\ aborted -> "closed"
                        [] OTHER -> "none"
       IN  at' = [c \in Caller |-> IF on[c] = r /\ at[c] = "closing" THEN next(c) ELSE at[c]]
  /\ doing' = [c \in Caller |-> IF at'[c] = "none" THEN "nothing" ELSE doing[c]]
  /\ on' = [c \in Caller |-> IF at'[c] = "none" THEN NoRuntime ELSE on[c]]
  /\ UNCHANGED <<hostedVars, displaced>>

-----------------------------------------------------------------------------
(* Working on a runtime *)

\* prompt, shell and other entry mutations.
BeginMutation(c) ==
  /\ doing[c] = "prompt" /\ at[c] = "got"
  /\ IF Navigating(on[c]) # {} THEN Ends(c) ELSE Goes(c, "mutating", on[c])
  /\ UNCHANGED <<life, hostedVars, displaced>>

EndMutation(c) ==
  /\ at[c] = "mutating" /\ Ends(c)
  /\ UNCHANGED <<life, hostedVars, displaced>>

\* A command of an extension controls its own session while its prompt is under way.
IsCurrent(r) == hosted = r /\ startup # r

Control(c) ==
  /\ at[c] = "mutating" /\ IsCurrent(on[c])
  /\ Goes(c, "controlling", on[c])
  /\ UNCHANGED <<life, hostedVars, displaced>>

\* ctx.navigateTree and ctx.reload.
ControlGoesOn(c) ==
  /\ at[c] = "controlling"
  /\ IF IsCurrent(on[c]) /\ opening = NoRuntime /\ ~ActiveWork(on[c], {c})
     THEN \E where \in {"steering", "restarting"} : Goes(c, where, on[c])
     ELSE Goes(c, "mutating", on[c])
  /\ UNCHANGED <<life, hostedVars, displaced>>

ControlEnds(c) ==
  /\ at[c] \in {"steering", "restarting"}
  /\ Goes(c, "mutating", on[c])
  /\ UNCHANGED <<life, hostedVars, displaced>>

\* Mutant of BeginNavigation: the tree is only protected against entry mutations.
NavigateBeside(c) ==
  /\ doing[c] = "navigate" /\ at[c] = "got"
  /\ IF Mutating(on[c]) # {} THEN Ends(c) ELSE Goes(c, "navigating", on[c])
  /\ UNCHANGED <<life, hostedVars, displaced>>

\* navigateSessionTree.
BeginNavigation(c) ==
  /\ doing[c] = "navigate" /\ at[c] = "got"
  /\ IF ActiveWork(on[c], {}) THEN Ends(c) ELSE Goes(c, "navigating", on[c])
  /\ UNCHANGED <<life, hostedVars, displaced>>

EndNavigation(c) ==
  /\ at[c] = "navigating" /\ Ends(c)
  /\ UNCHANGED <<life, hostedVars, displaced>>

\* forkSessionTree and forkEntry: the name of the fork is awaited between two checks.
NameFork(c) ==
  /\ doing[c] = "fork" /\ at[c] = "got"
  /\ IF ActiveWork(on[c], {}) \/ hosted # on[c] THEN Ends(c) ELSE Goes(c, "naming", on[c])
  /\ UNCHANGED <<life, hostedVars, displaced>>

BeginFork(c) ==
  /\ at[c] = "naming"
  /\ IF ActiveWork(on[c], {}) THEN Ends(c) ELSE Goes(c, "forking", on[c])
  /\ UNCHANGED <<life, hostedVars, displaced>>

\* The runtime goes on with the fork and no longer hosts this session.
ForkReplaces(c) ==
  LET r == on[c]
  IN  /\ at[c] = "forking" /\ life[r] = "ready"
      /\ life' = [life EXCEPT ![r] = "none"]
      /\ hosted' = Unless(r, hosted)
      /\ Ends(c)
      /\ UNCHANGED <<opening, startup, parked, unexpected, displaced>>

ForkIsCancelled(c) ==
  /\ at[c] = "forking" /\ Ends(c)
  /\ UNCHANGED <<life, hostedVars, displaced>>

-----------------------------------------------------------------------------
(* Reloading, archiving and closing *)

BeginReload(c) ==
  /\ doing[c] = "reload" /\ at[c] = "got"
  /\ IF ActiveWork(on[c], {})
     THEN Ends(c) /\ UNCHANGED <<life, hostedVars, displaced>>
     ELSE /\ Closes(on[c])
          /\ Goes(c, IF life'[on[c]] = "closing" THEN "closing" ELSE "closed", on[c])

ReopenRuntime(c) ==
  /\ at[c] = "closed"
  /\ IF opening = NoRuntime /\ hosted # NoRuntime
     THEN Ends(c) /\ UNCHANGED <<life, hostedVars>>
     ELSE OpenPending(c, "reopening", "reopening")
  /\ UNCHANGED displaced

\* archive: the reservation is taken, then the session is looked up in the list.
BeginArchive(c) ==
  /\ doing[c] = "archive" /\ at[c] = "got"
  /\ IF ActiveWork(on[c], {}) THEN Ends(c) ELSE Goes(c, "reserved", on[c])
  /\ UNCHANGED <<life, hostedVars, displaced>>

CloseForArchive(c) ==
  /\ at[c] = "reserved"
  /\ Closes(on[c])
  /\ Goes(c, IF life'[on[c]] = "closing" THEN "closing" ELSE "persisting", on[c])

\* The archive store has answered, or the input could not be had.
OperationEnds(c) ==
  /\ at[c] \in {"reserved", "persisting"} /\ Ends(c)
  /\ UNCHANGED <<life, hostedVars, displaced>>

\* closeActive: dialogs of a runtime that starts are settled, its creation is awaited.
Drains(c, what) ==
  /\ doing' = [doing EXCEPT ![c] = what]
  /\ at' = [at EXCEPT ![c] = "draining"]
  /\ on' = [on EXCEPT ![c] = opening]
  /\ IF startup = NoRuntime THEN UNCHANGED <<parked, unexpected>> ELSE parked' = {} /\ unexpected' = {}
  /\ UNCHANGED <<life, hosted, opening, startup, displaced>>

ClosesHosted(c, what) ==
  /\ doing' = [doing EXCEPT ![c] = what]
  /\ at' = [at EXCEPT ![c] = "closing"]
  /\ on' = [on EXCEPT ![c] = hosted]
  /\ Closes(hosted)

\* Mutant of StopSession: the open is awaited with its dialogs unanswered.
StopAndWait(c) ==
  /\ doing[c] = "nothing" /\ {hosted, startup} # {NoRuntime}
  /\ IF opening = NoRuntime
     THEN ClosesHosted(c, "stop")
     ELSE /\ doing' = [doing EXCEPT ![c] = "stop"]
          /\ at' = [at EXCEPT ![c] = "draining"]
          /\ on' = [on EXCEPT ![c] = opening]
          /\ UNCHANGED <<life, hostedVars, displaced>>

\* stop; nothing is done for a runtime that is being created and is not yet bound.
StopSession(c) ==
  /\ doing[c] = "nothing" /\ {hosted, startup} # {NoRuntime}
  /\ IF opening = NoRuntime THEN ClosesHosted(c, "stop") ELSE Drains(c, "stop")

Queues(c, what) ==
  /\ doing' = [doing EXCEPT ![c] = what]
  /\ at' = [at EXCEPT ![c] = "queued"]
  /\ UNCHANGED <<life, hostedVars, on, displaced>>

\* executeSessionLifecycleBatch; a busy session is skipped.
Batch(c) ==
  /\ doing[c] = "nothing" /\ Exclusive = {}
  /\ hosted # NoRuntime => ~ActiveWork(hosted, {})
  /\ Queues(c, "batch")

\* archiveTree and restore reserve a session that no runtime hosts without any check.  The
\* root of a tree was opened before, by a lookup like any other.
MoveSession(c) ==
  /\ doing[c] = "nothing"
  /\ hosted # NoRuntime => ~ActiveWork(hosted, {})
  /\ Queues(c, "move")

\* The sessions of a batch or a tree are closed one after the other.
CloseQueued(c) ==
  /\ at[c] = "queued"
  /\ IF opening # NoRuntime THEN Drains(c, doing[c])
     ELSE IF hosted # NoRuntime THEN ClosesHosted(c, doing[c])
     ELSE Goes(c, "persisting", NoRuntime) /\ UNCHANGED <<life, hostedVars, displaced>>

CloseDrained(c) ==
  /\ at[c] = "drained"
  /\ IF hosted # NoRuntime THEN ClosesHosted(c, doing[c])
     ELSE /\ IF doing[c] = "stop" THEN Ends(c) ELSE Goes(c, "persisting", on[c])
          /\ UNCHANGED <<life, hostedVars, displaced>>

-----------------------------------------------------------------------------
RuntimesInit ==
  /\ life = [r \in PiRuntime |-> "none"]
  /\ hosted = NoRuntime /\ opening = NoRuntime /\ startup = NoRuntime
  /\ parked = {} /\ unexpected = {}
  /\ doing = [c \in Caller |-> "nothing"]
  /\ at = [c \in Caller |-> "none"]
  /\ on = [c \in Caller |-> NoRuntime]
  /\ displaced = FALSE

\* A promise that was settled resumes those who wait for it, in some order, before anything
\* else happens.
Resumed == \E c \in Caller : at[c] \in {"got", "drained", "closed"}

Resumes(c) ==
  \/ BeginMutation(c) \/ BeginNavigation(c) \/ NameFork(c) \/ BeginReload(c) \/ BeginArchive(c)
  \/ GotParent(c) \/ CloseDrained(c) \/ ReopenRuntime(c)

\* What the SDK does for a runtime.
GoesOn(r) ==
  \/ BindRuntime(r) \/ CreationFails(r)
  \/ Started(r) \/ StartFails(r)
  \/ FailedIsDisposed(r) \/ Disposed(r)

RuntimesNext ==
  /\ ~displaced
  /\ \/ \E c \in Caller : Resumes(c)
     \/ /\ ~Resumed
        /\ \/ \E c \in Caller, what \in {"prompt", "navigate", "fork", "reload", "archive"} : Ask(c, what)
           \/ \E c \in Caller : Lookup(c) \/ Resolved(c) \/ NotFound(c) \/ WakeDirectly(c)
           \/ \E c \in Caller : CreateDirectly(c) \/ EndMutation(c) \/ EndNavigation(c)
           \/ \E r \in PiRuntime : GoesOn(r) \/ ExtensionAsks(r) \/ UserAnswers(r)
           \/ \E c \in Caller : Control(c) \/ ControlGoesOn(c) \/ ControlEnds(c)
           \/ \E c \in Caller : BeginFork(c) \/ ForkReplaces(c) \/ ForkIsCancelled(c)
           \/ \E c \in Caller : CloseForArchive(c) \/ OperationEnds(c) \/ StopSession(c)
           \/ \E c \in Caller : Batch(c) \/ MoveSession(c) \/ CloseQueued(c)

RuntimesSpec == RuntimesInit /\ [][RuntimesNext]_runtimeVars

\* Creations, startups that wait for nobody and disposals end, although resumptions go
\* before them; users owe no answer, and what a request does with its runtime may take
\* for ever.
RuntimesFairness ==
  /\ \A r \in PiRuntime : WF_runtimeVars(~displaced /\ GoesOn(r))
  /\ \A c \in Caller : WF_runtimeVars(~displaced /\ Resumes(c))

-----------------------------------------------------------------------------
(* What hosting promises *)

\* Every variable holds a value of its kind.
RuntimesTypeOK ==
  /\ life \in [PiRuntime -> {"none", "creating", "starting", "ready", "failing", "closing"}]
  /\ {hosted, opening, startup} \subseteq PiRuntime \cup {NoRuntime}
  /\ unexpected \subseteq parked /\ parked \subseteq PiRuntime
  /\ doing \in [Caller -> {"nothing", "prompt", "navigate", "fork", "reload", "archive", "wake",
                           "stop", "batch", "move"}]
  /\ at \in [Caller -> {"none", "lookup", "resolving", "waiting", "got", "header", "mutating",
                        "controlling", "steering", "restarting", "navigating", "naming", "forking",
                        "reserved", "queued", "closing", "closed", "reopening", "persisting", "draining",
                        "drained"}]
  /\ on \in [Caller -> PiRuntime \cup {NoRuntime}]
  /\ displaced \in BOOLEAN

\* Concurrent lookups, reloads, stops and archives share one runtime: a second one of the
\* session comes up only where a subsession is woken or an archive closes what it had
\* looked up.  A runtime that is being disposed may live beside its successor.
OneRuntime == ~displaced => \A r, q \in Alive : r = q

\* When no request is under way nothing is left of those that were: each runtime was
\* disposed of, except the one that hosts the session, and no open or startup is pending.
NothingIsLeftBehind ==
  (~displaced /\ \A c \in Caller : doing[c] = "nothing") =>
    /\ {opening, startup} = {NoRuntime}
    /\ \A r \in PiRuntime : IF r = hosted THEN life[r] = "ready" ELSE life[r] = "none"

Moves == {c \in Caller : doing[c] = "move"}

\* Operations that check the session before they reserve it (fork, reload, archive, batch)
\* are never two at a time; archives of trees and restores check it only if it is loaded, so
\* one of an unloaded session may join them.  While the tree of the runtime that hosts the
\* session is navigated, no entry is added, except by the command that navigates, and nobody
\* at all has reserved the session, except a fork of a runtime that was closed while its name
\* was looked up.  Stops reserve nothing, and prompts may begin beside a reservation.
ControlIsExclusive ==
  /\ \A c, d \in Exclusive \ Moves : c = d
  /\ \A r \in PiRuntime : Navigating(r) # {} =>
       /\ \A c \in Navigating(r) : Navigating(r) \cup Mutating(r) \subseteq {c}
       /\ hosted = r => \A c \in Exclusive : doing[c] = "fork" /\ on[c] # r

\* A stop ends, even if it finds the session starting and its extensions waiting for a
\* browser; only what they ask after the stop began can hold it up.
StopsEnd ==
  \A c \in Caller : doing[c] = "stop" ~> (doing[c] # "stop" \/ unexpected # {} \/ displaced)

=============================================================================
