--------------------------- MODULE WorkspaceRemoval ---------------------------
(***************************************************************************)
(* Removing a workspace                                                    *)
(* (src/src/server/workspaces/workspaceRemovalService.ts).  Requests with  *)
(* the same confirmation share one flight; it is aborted when nobody waits *)
(* for it any more, at its deadline, or when the daemon shuts down.  An    *)
(* abort settles the flight at once, but the operation behind it goes on   *)
(* until it looks at its signal.                                           *)
(*                                                                         *)
(* One workspace of one project; other keys have flights of their own.     *)
(***************************************************************************)
CONSTANTS
  Requester,
  Flight,        \* flights there are at a time, those given up included
  Confirmation,  \* preconditions that clients may have confirmed
  NoFlight

ASSUME NoFlightAssumption == NoFlight \notin Flight

VARIABLES
  step,      \* flight -> the await its operation is in, "ended" outside of it
  confirms,  \* flight -> its precondition
  aborted,   \* flight -> whether its signal is aborted
  outcome,   \* flight -> "open" until the race of operation and deadline is decided
  flights,   \* the flight the map holds, NoFlight if none
  waitsFor,  \* requester -> the flight it waits for
  shape,     \* the precondition that the workspace has now
  shutdown

flightVars == <<step, confirms, aborted, outcome>>
removalVars == <<flightVars, flights, waitsFor, shape, shutdown>>

Waiters(f) == {r \in Requester : waitsFor[r] = f}

Free(f) == step[f] = "ended" /\ f # flights /\ Waiters(f) = {}

Decided(f, result) == IF outcome[f] = "open" THEN [outcome EXCEPT ![f] = result] ELSE outcome

-----------------------------------------------------------------------------
(* remove *)

\* Another confirmation than that of the flight is refused with 409.
JoinFlight(r, p) ==
  /\ waitsFor[r] = NoFlight /\ flights # NoFlight /\ ~shutdown
  /\ confirms[flights] = p
  /\ waitsFor' = [waitsFor EXCEPT ![r] = flights]
  /\ UNCHANGED <<flightVars, flights, shape, shutdown>>

StartFlight(r, p, f) ==
  /\ waitsFor[r] = NoFlight /\ flights = NoFlight /\ ~shutdown
  /\ Free(f)
  /\ step' = [step EXCEPT ![f] = "resolving"]
  /\ confirms' = [confirms EXCEPT ![f] = p]
  /\ aborted' = [aborted EXCEPT ![f] = FALSE]
  /\ outcome' = [outcome EXCEPT ![f] = "open"]
  /\ flights' = f
  /\ waitsFor' = [waitsFor EXCEPT ![r] = f]
  /\ UNCHANGED <<shape, shutdown>>

\* The client goes; the last one takes the flight with it.
Leave(r) ==
  LET f == waitsFor[r]
      last == Waiters(f) = {r} /\ flights = f
  IN  /\ f # NoFlight
      /\ waitsFor' = [waitsFor EXCEPT ![r] = NoFlight]
      /\ aborted' = IF last THEN [aborted EXCEPT ![f] = TRUE] ELSE aborted
      /\ outcome' = IF last THEN Decided(f, "failed") ELSE outcome
      /\ UNCHANGED <<step, confirms, flights, shape, shutdown>>

-----------------------------------------------------------------------------
(* executeRemoval and runBoundedRemoval *)

\* The operation throws, as a provider may and as throwIfAborted does.
Throw(f) ==
  /\ step[f] # "ended"
  /\ step' = [step EXCEPT ![f] = "ended"]
  /\ outcome' = Decided(f, "failed")
  /\ UNCHANGED <<confirms, aborted, flights, waitsFor, shape, shutdown>>

\* resolveRemoval has answered and validateCurrentRemoval accepts the answer.
Resolve(f) ==
  /\ step[f] = "resolving" /\ ~aborted[f]
  /\ confirms[f] = shape
  /\ step' = [step EXCEPT ![f] = "preparing"]
  /\ UNCHANGED <<confirms, aborted, outcome, flights, waitsFor, shape, shutdown>>

Prepare(f) ==
  /\ step[f] = "preparing" /\ ~aborted[f]
  /\ step' = [step EXCEPT ![f] = "probing"]
  /\ UNCHANGED <<confirms, aborted, outcome, flights, waitsFor, shape, shutdown>>

\* Mutant of RemoveWorkspace: the signal is not looked at after the hook was probed.
RemoveUnasked(f) ==
  /\ step[f] = "probing"
  /\ step' = [step EXCEPT ![f] = "ended"]
  /\ outcome' = [outcome EXCEPT ![f] = "run"]
  /\ UNCHANGED <<confirms, aborted, flights, waitsFor, shape, shutdown>>

\* closeForCwd and runCommand, with no await between them.
RemoveWorkspace(f) ==
  /\ step[f] = "probing" /\ ~aborted[f]
  /\ step' = [step EXCEPT ![f] = "ended"]
  /\ outcome' = [outcome EXCEPT ![f] = "run"]
  /\ UNCHANGED <<confirms, aborted, flights, waitsFor, shape, shutdown>>

\* Mutant of Deadline: the operation is told, the requests are not.
DeadlineForOperation(f) ==
  /\ outcome[f] = "open" /\ ~aborted[f]
  /\ aborted' = [aborted EXCEPT ![f] = TRUE]
  /\ UNCHANGED <<step, confirms, outcome, flights, waitsFor, shape, shutdown>>

Deadline(f) ==
  /\ outcome[f] = "open" /\ ~aborted[f]
  /\ aborted' = [aborted EXCEPT ![f] = TRUE]
  /\ outcome' = [outcome EXCEPT ![f] = "failed"]
  /\ UNCHANGED <<step, confirms, flights, waitsFor, shape, shutdown>>

\* finishFlight, then the requests are answered.
Settle(f) ==
  /\ flights = f /\ outcome[f] # "open"
  /\ flights' = NoFlight
  /\ aborted' = [aborted EXCEPT ![f] = TRUE]
  /\ waitsFor' = [r \in Requester |-> IF waitsFor[r] = f THEN NoFlight ELSE waitsFor[r]]
  /\ UNCHANGED <<step, confirms, outcome, shape, shutdown>>

-----------------------------------------------------------------------------

\* closeAll.
CloseAll ==
  /\ ~shutdown /\ shutdown' = TRUE
  /\ aborted' = IF flights = NoFlight THEN aborted ELSE [aborted EXCEPT ![flights] = TRUE]
  /\ outcome' = IF flights = NoFlight THEN outcome ELSE Decided(flights, "failed")
  /\ UNCHANGED <<step, confirms, flights, waitsFor, shape>>

\* The workspace changes: a confirmation given before is stale.
Reshape(p) ==
  /\ shape' = p
  /\ UNCHANGED <<flightVars, flights, waitsFor, shutdown>>

RemovalInit ==
  /\ step = [f \in Flight |-> "ended"]
  /\ confirms \in [Flight -> {CHOOSE p \in Confirmation : TRUE}]
  /\ aborted = [f \in Flight |-> TRUE]
  /\ outcome = [f \in Flight |-> "failed"]
  /\ flights = NoFlight
  /\ waitsFor = [r \in Requester |-> NoFlight]
  /\ shape \in Confirmation
  /\ shutdown = FALSE

RemovalNext ==
  \/ \E r \in Requester, p \in Confirmation :
       JoinFlight(r, p) \/ \E f \in Flight : StartFlight(r, p, f)
  \/ \E r \in Requester : Leave(r)
  \/ \E f \in Flight : Throw(f) \/ Resolve(f) \/ Prepare(f) \/ RemoveWorkspace(f)
  \/ \E f \in Flight : Deadline(f) \/ Settle(f)
  \/ CloseAll
  \/ \E p \in Confirmation : Reshape(p)

RemovalSpec == RemovalInit /\ [][RemovalNext]_removalVars

\* The timer fires and promises settle; providers owe nothing.
RemovalFairness ==
  \A f \in Flight : WF_removalVars(Deadline(f)) /\ WF_removalVars(Settle(f))

-----------------------------------------------------------------------------
(* What removing promises *)

\* Every variable holds a value of its kind.
RemovalTypeOK ==
  /\ step \in [Flight -> {"ended", "resolving", "preparing", "probing"}]
  /\ confirms \in [Flight -> Confirmation]
  /\ aborted \in [Flight -> BOOLEAN]
  /\ outcome \in [Flight -> {"open", "run", "failed"}]
  /\ flights \in Flight \cup {NoFlight}
  /\ waitsFor \in [Requester -> Flight \cup {NoFlight}]
  /\ shape \in Confirmation /\ shutdown \in BOOLEAN

\* Terminals are closed and the command is run only while a request still waits for it: not
\* by an operation whose deadline has passed, whose clients have gone, or that a shutdown
\* has cancelled, although it may still be under way.
RemovesOnlyWhatIsAsked ==
  [][\A f \in Flight : (outcome[f] # "run" /\ outcome'[f] = "run") =>
       /\ outcome[f] = "open" /\ ~shutdown
       /\ \E r \in Requester : waitsFor[r] = f]_removalVars

\* Every request is answered, even if the provider or the hook never does.
RequestsAreAnswered ==
  \A r \in Requester : waitsFor[r] # NoFlight ~> waitsFor[r] = NoFlight

=============================================================================
