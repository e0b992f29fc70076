-------------------------- MODULE SubsessionDelivery --------------------------
(***************************************************************************)
(* How a parent session learns that its subsessions have finished          *)
(* (src/src/server/sessions/subsessionCompletionInbox.ts,                  *)
(* subsessionCompletionDelivery.ts and their wiring in piSessionService.ts)*)
(* A completion is persisted in the child's file.  The parent receives it  *)
(* through a tool it calls, a notice added at the boundary of a turn, or a *)
(* notice that wakes it when it is idle.  What it has received follows     *)
(* from the branch of its transcript, which may be rewound; what is being  *)
(* delivered is only claimed in memory.                                    *)
(*                                                                         *)
(* One parent.  An entry of its branch is a notice, the receipt that a     *)
(* tool writes, or the successful result of that tool.                     *)
(***************************************************************************)
EXTENDS Naturals, Sequences

CONSTANTS
  Completion,
  MaxBranch  \* bound: entries of the parent's branch

VARIABLES
  finished,  \* the completions that the child's file holds
  branch,    \* the parent's branch
  known,     \* the inbox: completions it has recorded,
  received,  \* those that were received,
  claimed,   \* and those that are being delivered
  run,       \* what the parent is doing
  held,      \* the completions of the tool call, draft or message under way
  timer,     \* a delivery is scheduled
  waking,    \* completions whose wakeParentForSubsession has not got the parent yet
  stopped,   \* the parent must not be woken
  live,      \* the parent has a runtime
  exclusive  \* a reload or another tree-exclusive operation holds the parent

inbox == <<known, received, claimed>>
subsessionVars == <<finished, branch, inbox, run, held, timer, waking, stopped, live, exclusive>>

Entry(kind, ids) == [kind |-> kind, ids |-> ids]

\* A receipt counts once the result of its tool follows.
Counts(b, i) ==
  \/ b[i].kind = "notice"
  \/ b[i].kind = "receipt" /\ \E j \in (i + 1)..Len(b) : b[j] = Entry("result", b[i].ids)

ReceivedOn(b) == UNION {b[i].ids : i \in {j \in DOMAIN b : Counts(b, j)}}

Pending == known \ (received \cup claimed)

Room(n) == Len(branch) + n <= MaxBranch

busy == run # "idle" \/ exclusive

\* restoreSubsessionReceipts.
Restore(b) == received' = ReceivedOn(b) /\ claimed' = {}

\* scheduleSubsessionDelivery, after the inbox has changed.
Schedule == timer' = (timer \/ Pending' # {})

-----------------------------------------------------------------------------
(* A subsession finishes *)

Finish(c) ==
  /\ c \notin finished
  /\ finished' = finished \cup {c}
  /\ known' = known \cup {c}
  /\ waking' = waking \cup {c}
  /\ UNCHANGED <<branch, received, claimed, run, held, timer, stopped, live, exclusive>>

\* bindRuntime.
\* A timer of the runtime that was replaced finds it gone.
Bind ==
  /\ live' = TRUE /\ stopped' = FALSE
  /\ Restore(branch) /\ UNCHANGED known
  /\ timer' = (Pending' # {})

Wake(c) ==
  /\ c \in waking
  /\ waking' = waking \ {c}
  /\ IF live THEN UNCHANGED <<inbox, live, stopped>> /\ Schedule ELSE Bind
  /\ UNCHANGED <<finished, branch, run, held, exclusive>>

Open ==
  /\ ~live /\ Bind
  /\ UNCHANGED <<finished, branch, run, held, waking, exclusive>>

-----------------------------------------------------------------------------
(* deliverPendingSubsessionCompletions *)

\* The timer finds the parent at work, stopped or gone, or there is nothing left.
FireInVain ==
  /\ timer /\ timer' = FALSE
  /\ busy \/ stopped \/ ~live \/ Pending = {}
  /\ UNCHANGED <<finished, branch, inbox, run, held, waking, stopped, live, exclusive>>

Fire ==
  /\ timer /\ timer' = FALSE
  /\ ~busy /\ ~stopped /\ live /\ Pending # {}
  /\ run' = "sending" /\ held' = Pending
  /\ claimed' = claimed \cup Pending
  /\ UNCHANGED <<finished, branch, known, received, waking, stopped, live, exclusive>>

\* agent_start: the message starts a turn.
SendStarts ==
  /\ run = "sending"
  /\ run' = "adding"
  /\ received' = ReceivedOn(branch)
  /\ stopped' = FALSE
  /\ UNCHANGED <<finished, branch, known, claimed, held, timer, waking, live, exclusive>>

\* entry_appended: the notice is on the branch.
SendAppends ==
  /\ run = "adding" /\ Room(1)
  /\ branch' = Append(branch, Entry("notice", held))
  /\ received' = received \cup held
  /\ claimed' = claimed \ held
  /\ run' = "turn" /\ held' = {}
  /\ UNCHANGED <<finished, known, timer, waking, stopped, live, exclusive>>

\* The parent is not woken again before its next run.
SendFails ==
  /\ run \in {"sending", "adding"}
  /\ claimed' = claimed \ held
  /\ run' = "idle" /\ held' = {}
  /\ stopped' = TRUE
  /\ UNCHANGED <<finished, branch, known, received, timer, waking, live, exclusive>>

-----------------------------------------------------------------------------
(* A run of the parent *)

Prompt ==
  /\ live /\ ~busy
  /\ run' = "turn"
  /\ received' = ReceivedOn(branch)
  /\ stopped' = FALSE
  /\ UNCHANGED <<finished, branch, known, claimed, held, timer, waking, live, exclusive>>

\* yield_to_subsessions takes what is pending, check and read the one they return:
\* the receipt is an intent until the result of the tool follows.
Receive ==
  /\ run = "turn" /\ Room(2)
  /\ known' = finished
  /\ \E S \in {known' \ (received \cup claimed)} \cup {{c} : c \in finished \ received} :
       /\ S # {}
       /\ branch' = Append(branch, Entry("receipt", S))
       /\ received' = received \cup S
       /\ claimed' = claimed \ S
       /\ held' = S
  /\ run' = "calling"
  /\ UNCHANGED <<finished, timer, waking, stopped, live, exclusive>>

ToolReturns ==
  /\ run = "calling"
  /\ branch' = Append(branch, Entry("result", held))
  /\ run' = "turn" /\ held' = {}
  /\ UNCHANGED <<finished, inbox, timer, waking, stopped, live, exclusive>>

ToolFails ==
  /\ run = "calling"
  /\ run' = "turn" /\ held' = {}
  /\ UNCHANGED <<finished, branch, inbox, timer, waking, stopped, live, exclusive>>

\* Mutant of PrepareNotice: receipts are taken as the inbox remembers them, and claims as well.
PrepareAll ==
  /\ run = "turn"
  /\ known' = finished
  /\ received' = ReceivedOn(branch)
  /\ held' = known' \ ReceivedOn(SubSeq(branch, 1, Len(branch) - 1))
  /\ claimed' = claimed \cup held'
  /\ run' = "boundary"
  /\ UNCHANGED <<finished, branch, timer, waking, stopped, live, exclusive>>

\* prepareSubsessionDelivery at turn_end or agent_before_settle of a completed turn.
PrepareNotice ==
  /\ run = "turn"
  /\ known' = finished
  /\ received' = ReceivedOn(branch)
  /\ held' = known' \ (received' \cup claimed)
  /\ claimed' = claimed \cup held'
  /\ run' = "boundary"
  /\ UNCHANGED <<finished, branch, timer, waking, stopped, live, exclusive>>

\* The draft is committed and the turn_end event follows; the run goes on.
CommitDraft ==
  /\ run = "boundary" /\ held # {} /\ Room(1)
  /\ branch' = Append(branch, Entry("notice", held))
  /\ Restore(branch')
  /\ run' = "turn" /\ held' = {}
  /\ UNCHANGED <<finished, known, timer, waking, stopped, live, exclusive>>

\* turn_end without a draft, or with one that was given up.
NextTurn ==
  /\ run = "boundary"
  /\ Restore(branch)
  /\ run' = "turn" /\ held' = {}
  /\ UNCHANGED <<finished, branch, known, timer, waking, stopped, live, exclusive>>

\* agent_settled; the prompt that started the run has not returned yet.
SettleRun ==
  /\ run = "boundary"
  /\ Restore(branch) /\ UNCHANGED known
  /\ Schedule
  /\ run' = "unwinding" /\ held' = {}
  /\ UNCHANGED <<finished, branch, waking, stopped, live, exclusive>>

\* endSessionEntryMutation, or the end of the delivery.
Unwind ==
  /\ run = "unwinding" /\ run' = "idle"
  /\ UNCHANGED <<finished, branch, inbox, held, waking, stopped, live, exclusive>>
  /\ Schedule

\* The user stops the run, or it ends with an error.
Stop ==
  /\ live
  /\ stopped' = TRUE
  /\ IF run \in {"turn", "calling", "boundary"}
     THEN run' = "boundary" /\ held' = {}
     ELSE UNCHANGED <<run, held>>
  /\ UNCHANGED <<finished, branch, inbox, timer, waking, live, exclusive>>

-----------------------------------------------------------------------------
(* The parent is rewound, reloaded, or dies *)

\* navigateSessionTree and flushDeferredTreeNavigationWork.
Rewind ==
  /\ live /\ ~busy
  /\ \E n \in 0..(Len(branch) - 1) : branch' = SubSeq(branch, 1, n)
  /\ Restore(branch') /\ UNCHANGED known
  /\ Schedule
  /\ UNCHANGED <<finished, run, held, waking, stopped, live, exclusive>>

BeginExclusive ==
  /\ live /\ ~busy
  /\ exclusive' = TRUE
  /\ UNCHANGED <<finished, branch, inbox, run, held, timer, waking, stopped, live>>

\* reload closes the runtime and opens another; an extension reload keeps it.
Reopen ==
  /\ exclusive /\ Bind
  /\ UNCHANGED <<finished, branch, run, held, waking, exclusive>>

\* Nothing is scheduled when the operation ends.
EndExclusive ==
  /\ exclusive /\ exclusive' = FALSE
  /\ UNCHANGED <<finished, branch, inbox, run, held, timer, waking, stopped, live>>

DaemonDies ==
  /\ known' = {} /\ received' = {} /\ claimed' = {}
  /\ run' = "idle" /\ held' = {}
  /\ timer' = FALSE /\ waking' = {}
  /\ stopped' = FALSE /\ live' = FALSE /\ exclusive' = FALSE
  /\ UNCHANGED <<finished, branch>>

SubsessionInit ==
  /\ finished = {} /\ branch = <<>>
  /\ known = {} /\ received = {} /\ claimed = {}
  /\ run = "idle" /\ held = {}
  /\ timer = FALSE /\ waking = {}
  /\ stopped = FALSE /\ live = TRUE /\ exclusive = FALSE

SubsessionNext ==
  \/ \E c \in Completion : Finish(c) \/ Wake(c)
  \/ Open \/ FireInVain \/ Fire \/ SendStarts \/ SendAppends \/ SendFails
  \/ Prompt \/ Receive \/ ToolReturns \/ ToolFails
  \/ PrepareNotice \/ CommitDraft \/ NextTurn \/ SettleRun \/ Unwind \/ Stop
  \/ Rewind \/ BeginExclusive \/ Reopen \/ EndExclusive \/ DaemonDies

SubsessionSpec == SubsessionInit /\ [][SubsessionNext]_subsessionVars

-----------------------------------------------------------------------------
(* What delivery promises *)

\* Every variable holds a value of its kind.
SubsessionTypeOK ==
  /\ finished \subseteq Completion /\ known \subseteq finished /\ waking \subseteq finished
  /\ received \subseteq Completion /\ claimed \subseteq Completion /\ held \subseteq Completion
  /\ branch \in Seq([kind : {"notice", "receipt", "result"}, ids : SUBSET Completion])
  /\ run \in {"idle", "sending", "adding", "turn", "calling", "boundary", "unwinding"}
  /\ {timer, stopped, live, exclusive} \subseteq BOOLEAN

\* A parent is not told twice on one branch: what a notice announces or a receipt names had
\* not been received by the entries before it, whichever of the three ways was tried first
\* and whatever failed, was rewound or was interrupted by a restart in between.
NeverDeliveredTwice ==
  \A j \in DOMAIN branch : branch[j].kind # "result" =>
    branch[j].ids \cap ReceivedOn(SubSeq(branch, 1, j - 1)) = {}

\* When the parent is idle, each completion its inbox knows is received by an entry of its
\* branch or is pending: none is lost with a draft, a message or a tool result that failed.
NothingIsLost ==
  (live /\ run = "idle") => claimed = {} /\ received = ReceivedOn(branch)

\* Each completion reaches its parent once: no way of delivery repeats what another has
\* done, and what none has done stays pending.
DeliveredOnce == NeverDeliveredTwice /\ NothingIsLost

\* yield_to_subsessions ends the run with "a new lifecycle notice will wake you"
\* (spawnSubsessionTool.test.ts:330): an idle parent that was not stopped has no pending
\* completion without a delivery that is under way.
WaitingParentIsWoken ==
  (live /\ ~busy /\ ~stopped) => timer \/ Pending \subseteq waking

=============================================================================
