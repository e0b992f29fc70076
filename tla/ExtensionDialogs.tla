--------------------------- MODULE ExtensionDialogs ---------------------------
(***************************************************************************)
(* Questions that extensions ask the user                                  *)
(* (src/src/server/sessions/extensionDialogWaiters.ts,                     *)
(* pendingExtensionDialogStore.ts and their wiring in piSessionService.ts) *)
(* The store holds what browsers see, under the id of the session; the     *)
(* waiters hold the promise that extension code of one runtime is parked   *)
(* on.  A dialog is closed by an answer, a timer, a signal, the end of its *)
(* run or the end of its runtime, whichever comes first.                   *)
(*                                                                         *)
(* One session; its runtimes follow one another, and one that is being     *)
(* closed may still run beside its successor.                              *)
(***************************************************************************)
CONSTANTS Dialog, Runtime

ASSUME RuntimeAssumption == Runtime # {}

VARIABLES
  phase,      \* runtime -> "none", "starting", "live", "closing" or "gone"
  streaming,  \* the runtimes with a run in flight
  open,       \* the store: the dialogs that are open
  runScoped,  \* those that were opened while their runtime was streaming
  waits,      \* dialog -> what became of the promise
  asker,      \* dialog -> the runtime whose code waits
  latecomers        \* history: the dialogs opened while their runtime was being closed

dialogVars == <<phase, streaming, open, runScoped, waits, asker, latecomers>>

Present == {r \in Runtime : phase[r] \in {"starting", "live"}}

\* closeExtensionDialogFromTrigger for each of them: the record goes, the wait gets
\* the cancel value.
CloseAllOf(D) ==
  /\ open' = open \ D
  /\ waits' = [d \in Dialog |-> IF d \in D THEN "cancelled" ELSE waits[d]]
  /\ UNCHANGED <<runScoped, asker, latecomers>>

\* endSessionExtensionDialogs: all dialogs stored under the id.
EndSessionDialogs == CloseAllOf(open)

-----------------------------------------------------------------------------

\* openExtensionDialog and park.
OpenDialog(r, d) ==
  /\ phase[r] \in {"starting", "live", "closing"}
  /\ waits[d] = "unused"
  /\ open' = open \cup {d}
  /\ runScoped' = IF r \in streaming THEN runScoped \cup {d} ELSE runScoped
  /\ waits' = [waits EXCEPT ![d] = "parked"]
  /\ asker' = [asker EXCEPT ![d] = r]
  /\ latecomers' = IF phase[r] = "closing" THEN latecomers \cup {d} ELSE latecomers
  /\ UNCHANGED <<phase, streaming>>

\* answerDialog; an answer to a dialog that is not open is stale.
AnswerDialog(d) ==
  /\ d \in open
  /\ open' = open \ {d}
  /\ waits' = [waits EXCEPT ![d] = IF @ = "parked" THEN "answered" ELSE @]
  /\ UNCHANGED <<phase, streaming, runScoped, asker, latecomers>>

\* cancelDialog, the timer or the signal of the extension.
CancelDialog(d) ==
  /\ d \in open
  /\ CloseAllOf({d})
  /\ UNCHANGED <<phase, streaming>>

RunStarts(r) ==
  /\ phase[r] = "live" /\ r \notin streaming
  /\ streaming' = streaming \cup {r}
  /\ UNCHANGED <<phase, open, runScoped, waits, asker, latecomers>>

\* abortRunScopedExtensionDialogs, when the user stops the run.
AbortRun(r) ==
  /\ phase[r] = "live"
  /\ CloseAllOf(open \cap runScoped)
  /\ UNCHANGED <<phase, streaming>>

\* agent_end does the same, unless the runtime was unsubscribed.
RunEnds(r) ==
  /\ r \in streaming
  /\ streaming' = streaming \ {r}
  /\ IF phase[r] = "live"
     THEN CloseAllOf(open \cap runScoped)
     ELSE UNCHANGED <<open, waits, runScoped, asker, latecomers>>
  /\ UNCHANGED phase

-----------------------------------------------------------------------------
(* Runtimes *)

StartRuntime(r) ==
  /\ phase[r] = "none" /\ Present = {}
  /\ phase' = [phase EXCEPT ![r] = "starting"]
  /\ UNCHANGED <<streaming, open, runScoped, waits, asker, latecomers>>

\* session_start handlers have returned.
RuntimeStarted(r) ==
  /\ phase[r] = "starting"
  /\ phase' = [phase EXCEPT ![r] = "live"]
  /\ UNCHANGED <<streaming, open, runScoped, waits, asker, latecomers>>

\* closeActive settles the dialogs of a runtime that is starting, then waits for it.
CloseStarting(r) ==
  /\ phase[r] = "starting"
  /\ EndSessionDialogs
  /\ UNCHANGED <<phase, streaming>>

\* Mutant of CloseRuntime: the dialogs of the runtime are left to their timers.
CloseSilently(r) ==
  /\ phase[r] \in {"starting", "live"}
  /\ phase' = [phase EXCEPT ![r] = "closing"]
  /\ UNCHANGED <<streaming, open, runScoped, waits, asker, latecomers>>

\* closeActiveSession and dispose, or a start that failed; the abort is awaited.
CloseRuntime(r) ==
  /\ phase[r] \in {"starting", "live"}
  /\ EndSessionDialogs
  /\ phase' = [phase EXCEPT ![r] = "closing"]
  /\ UNCHANGED streaming

DisposeRuntime(r) ==
  /\ phase[r] = "closing"
  /\ phase' = [phase EXCEPT ![r] = "gone"]
  /\ streaming' = streaming \ {r}
  /\ UNCHANGED <<open, runScoped, waits, asker, latecomers>>

\* A reload, or another session bound in its place: the dialogs of the old code are
\* settled before the new code starts.
ReplaceRuntime(r, q) ==
  /\ phase[r] = "live" /\ r \notin streaming /\ phase[q] = "none"
  /\ EndSessionDialogs
  /\ phase' = [phase EXCEPT ![r] = "gone", ![q] = "starting"]
  /\ UNCHANGED streaming

DialogsInit ==
  /\ phase = [r \in Runtime |-> "none"]
  /\ streaming = {} /\ open = {} /\ runScoped = {} /\ latecomers = {}
  /\ waits = [d \in Dialog |-> "unused"]
  /\ asker \in [Dialog -> {CHOOSE r \in Runtime : TRUE}]

DialogsNext ==
  \/ \E d \in Dialog : AnswerDialog(d) \/ CancelDialog(d) \/ \E r \in Runtime : OpenDialog(r, d)
  \/ \E r \in Runtime : RunStarts(r) \/ AbortRun(r) \/ RunEnds(r)
  \/ \E r \in Runtime : StartRuntime(r) \/ RuntimeStarted(r) \/ CloseStarting(r)
  \/ \E r \in Runtime : CloseRuntime(r) \/ DisposeRuntime(r)
  \/ \E r, q \in Runtime : ReplaceRuntime(r, q)

DialogsSpec == DialogsInit /\ [][DialogsNext]_dialogVars

-----------------------------------------------------------------------------
(* What dialogs promise *)

\* Every variable holds a value of its kind.
DialogsTypeOK ==
  /\ phase \in [Runtime -> {"none", "starting", "live", "closing", "gone"}]
  /\ streaming \subseteq Runtime
  /\ open \subseteq Dialog /\ runScoped \subseteq Dialog /\ latecomers \subseteq Dialog
  /\ waits \in [Dialog -> {"unused", "parked", "answered", "cancelled"}]
  /\ asker \in [Dialog -> Runtime]

\* Every open record has exactly one parked wait: no browser is shown a question nobody
\* waits for, and no extension waits for a question nobody is shown.
DialogsPairUp == \A d \in Dialog : d \in open <=> waits[d] = "parked"

\* When a runtime is gone, none of its code is parked on a dialog that was open when it began
\* to be closed.  Dialogs it opens during the awaited abort are not settled by anybody else.
TeardownSettlesDialogs ==
  \A d \in Dialog \ latecomers : waits[d] = "parked" => phase[asker[d]] # "gone"

\* Whoever ends a dialog - an answer, a cancellation, an abort, a shutdown - ends its record
\* and its wait together, and a runtime takes along those it opened before its close began.
DialogsEndWell == DialogsPairUp /\ TeardownSettlesDialogs

=============================================================================
