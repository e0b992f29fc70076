------------------------------ MODULE LoginFlows ------------------------------
(***************************************************************************)
(* Logging in at a provider: the flows of the daemon                       *)
(* (src/src/server/sessions/oauthLoginFlowService.ts) and the dialog of a  *)
(* browser (src/src/client/src/controllers/authController.ts).             *)
(*                                                                         *)
(* A flow runs the provider's login, which asks for values by prompts, one *)
(* at a time or racing each other, and may outlast the flow: users cancel, *)
(* timers expire flows and evict those that have ended.  The browser polls *)
(* the flow it shows; its requests can be answered late, out of order or   *)
(* not at all.                                                             *)
(*                                                                         *)
(* Flows of MCP servers, which are cancelled in another way, are left out. *)
(***************************************************************************)
EXTENDS Naturals, FiniteSets, FiniteSetsExt

CONSTANTS
  LoginFlow,
  NoFlowYet,
  MaxPrompt,  \* bound: prompts of all logins
  MaxCalls    \* bound: requests of the browser under way

ASSUME NoFlowYetAssumption == NoFlowYet \notin LoginFlow

VARIABLES
  flows,         \* the daemon's records, kept here also when they have left its map
  loginDialog,   \* the step "oauth" of authDialog, or another dialog or none
  polling,       \* pollTimer
  calls,         \* the browser's requests under way
  left           \* history: flows whose browser could or would not cancel them

loginVars == <<flows, loginDialog, polling, calls, left>>

-----------------------------------------------------------------------------
(* OAuthLoginFlowService *)

NewFlow ==
  [kept |-> FALSE, status |-> "none", login |-> "none", asked |-> 0,
   pending |-> 0, shown |-> 0, parked |-> {}, replaced |-> {}]

Running(r) == r.kept /\ r.status = "running"
Ended(r) == r.status \in {"complete", "error", "cancelled"}

\* clearPending and withoutInteraction; the waiting code is told by the caller.
Idle(r) == [r EXCEPT !.pending = 0, !.shown = 0]

\* The pending request is rejected, and the flow ends.
EndsAs(r, status) ==
  [Idle(r) EXCEPT !.status = status, !.parked = @ \ {r.pending}]

BrowserSame == UNCHANGED <<loginDialog, polling, calls, left>>

\* start, in answer to a request of the browser; the login begins.
Started == [NewFlow EXCEPT !.kept = TRUE, !.status = "running", !.login = "runs"]

MayAsk(f) ==
  /\ flows[f].login = "runs" /\ Running(flows[f])
  /\ MapThenSumSet(LAMBDA g : flows[g].asked, LoginFlow) < MaxPrompt

\* waitForPrompt and waitForSelect: an earlier request is overwritten, not settled.
Prompt(f) ==
  LET r == flows[f]
      n == r.asked + 1
  IN  /\ MayAsk(f)
      /\ flows' = [flows EXCEPT ![f] =
                     [r EXCEPT !.asked = n, !.pending = n, !.shown = n, !.parked = @ \cup {n},
                               !.replaced = @ \cup ({r.pending} \ {0})]]
      /\ BrowserSame

\* The same for a prompt whose own signal is aborted already: it is rejected at once.
PromptInVain(f) ==
  LET r == flows[f]
  IN  /\ MayAsk(f)
      /\ flows' = [flows EXCEPT ![f] =
                     [Idle(r) EXCEPT !.asked = @ + 1, !.replaced = @ \cup ({r.pending} \ {0})]]
      /\ BrowserSame

\* onAbort: the prompt's own signal fires, for one that is not replaced.
PromptAborts(f) ==
  LET r == flows[f]
  IN  /\ r.pending # 0
      /\ flows' = [flows EXCEPT ![f] =
                     [r EXCEPT !.pending = 0, !.shown = IF Running(r) THEN 0 ELSE @, !.parked = @ \ {r.pending}]]
      /\ BrowserSame

\* login resolves: reconcileCommittedLogin up to its await.
LoginCommits(f) ==
  LET r == flows[f]
  IN  /\ r.login = "runs"
      /\ flows' = [flows EXCEPT ![f] =
                     [r EXCEPT !.login = "committed", !.pending = IF r.kept THEN 0 ELSE @]]
      /\ BrowserSame

\* Mutant of CompletionReturns: a flow that was cancelled or has expired stays so.
CompletesOnlyRunning(f) ==
  LET r == flows[f]
  IN  /\ r.login = "committed"
      /\ flows' = [flows EXCEPT ![f] =
                     IF Running(r) THEN [r EXCEPT !.login = "done", !.status = "complete", !.shown = 0]
                     ELSE [r EXCEPT !.login = "done"]]
      /\ BrowserSame

\* reconcileCommittedLogin goes on when onComplete has returned or thrown.
CompletionReturns(f) ==
  LET r == flows[f]
  IN  /\ r.login = "committed"
      /\ flows' = [flows EXCEPT ![f] =
                     IF r.kept THEN [r EXCEPT !.login = "done", !.status = "complete", !.shown = 0]
                     ELSE [r EXCEPT !.login = "done"]]
      /\ BrowserSame

\* login rejects.
LoginFails(f) ==
  LET r == flows[f]
  IN  /\ r.login = "runs"
      /\ flows' = [flows EXCEPT ![f] =
                     IF Running(r) THEN [Idle(r) EXCEPT !.login = "failed", !.status = "error"]
                     ELSE [r EXCEPT !.login = "failed", !.pending = IF r.kept THEN 0 ELSE @]]
      /\ BrowserSame

\* expireRunningFlow.
Expire(f) ==
  /\ Running(flows[f])
  /\ flows' = [flows EXCEPT ![f] = EndsAs(@, "error")]
  /\ BrowserSame

\* The timer of scheduleTerminalEviction.
EvictFlow(f) ==
  /\ flows[f].kept /\ Ended(flows[f])
  /\ flows' = [flows EXCEPT ![f].kept = FALSE]
  /\ BrowserSame

\* dispose: the pending requests are rejected, and every flow forgotten.
DisposeFlows ==
  /\ \E f \in LoginFlow : flows[f].kept
  /\ flows' = [f \in LoginFlow |->
                 IF flows[f].kept
                 THEN [flows[f] EXCEPT !.kept = FALSE, !.pending = 0, !.parked = @ \ {flows[f].pending}]
                 ELSE flows[f]]
  /\ BrowserSame

-----------------------------------------------------------------------------
(* AuthController *)

OtherDialog == [flow |-> NoFlowYet, status |-> "none", request |-> 0, responding |-> FALSE]

\* A request: current says that neither generation it was sent in has passed.
Call(kind, f, request) ==
  [kind |-> kind, flow |-> f, request |-> request, current |-> TRUE, answered |-> FALSE, seen |-> OtherDialog]

Past(c, kinds) == IF c.kind \in kinds THEN [c EXCEPT !.current = FALSE] ELSE c
Outdated(cs) == {Past(c, {"start", "poll", "respond"}) : c \in cs}
PollsOutdated(cs) == {Past(c, {"poll"}) : c \in cs}

\* updateOAuthFlow, with the requests cs still under way.
Shown(state, cs) ==
  LET responding == /\ loginDialog.request # 0 /\ loginDialog.request = state.request
                    /\ loginDialog.responding
  IN  CASE state.status = "complete" ->
             loginDialog' = OtherDialog /\ polling' = FALSE /\ calls' = Outdated(cs)
        [] state.status \in {"error", "cancelled"} ->
             loginDialog' = state /\ polling' = FALSE /\ calls' = Outdated(cs)
        [] state.status = "running" ->
             loginDialog' = [state EXCEPT !.responding = responding] /\ calls' = cs /\ UNCHANGED polling

\* openLogin and startOAuth: a flow that is shown is left alone.
UserLogsIn ==
  /\ ~\E c \in calls : c.kind = "start"
  /\ Cardinality(calls) < MaxCalls
  /\ loginDialog' = OtherDialog /\ polling' = FALSE
  /\ calls' = Outdated(calls) \cup {Call("start", NoFlowYet, 0)}
  /\ left' = left \cup ({loginDialog.flow} \ {NoFlowYet})
  /\ UNCHANGED flows

\* cancelOAuth: the dialog is closed and the flow cancelled at best effort.
UserCloses ==
  /\ loginDialog.flow # NoFlowYet \/ \E c \in calls : c.kind = "start" /\ c.current
  /\ loginDialog' = OtherDialog /\ polling' = FALSE
  /\ calls' = Outdated(calls) \cup (IF loginDialog.flow = NoFlowYet THEN {} ELSE {Call("cancel", loginDialog.flow, 0)})
  /\ UNCHANGED <<flows, left>>

\* respondOAuth, once for each request.
UserAnswers ==
  /\ loginDialog.flow # NoFlowYet /\ loginDialog.request # 0 /\ Cardinality(calls) < MaxCalls
  /\ ~\E c \in calls : c.kind = "respond" /\ c.current /\ c.request = loginDialog.request
  /\ loginDialog' = [loginDialog EXCEPT !.responding = TRUE]
  /\ calls' = calls \cup {Call("respond", loginDialog.flow, loginDialog.request)}
  /\ UNCHANGED <<flows, polling, left>>

\* The timer of startPolling.
PollTick ==
  /\ polling /\ Cardinality(calls) < MaxCalls
  /\ calls' = calls \cup {Call("poll", loginDialog.flow, loginDialog.request)}
  /\ UNCHANGED <<flows, loginDialog, polling, left>>

\* The daemon handles a request; f is the flow that a start makes.  Nobody looks at the answer
\* to a cancellation.
Handles(c, f) ==
  /\ c \in calls /\ ~c.answered /\ f \in LoginFlow
  /\ CASE c.kind = "start" -> flows[f] = NewFlow /\ flows' = [flows EXCEPT ![f] = Started]
       [] c.kind = "poll" -> f = c.flow /\ flows[f].kept /\ UNCHANGED flows
       [] c.kind = "respond" ->
            /\ f = c.flow /\ flows[f].kept
            /\ \/ flows[f].status # "running" /\ UNCHANGED flows
               \/ /\ flows[f].status = "running" /\ flows[f].pending = c.request
                  /\ flows' = [flows EXCEPT ![f] = [Idle(flows[f]) EXCEPT !.parked = @ \ {c.request}]]
       [] c.kind = "cancel" ->
            /\ f = c.flow /\ flows[f].kept
            /\ flows' = [flows EXCEPT ![f] = IF @.status = "running" THEN EndsAs(@, "cancelled") ELSE @]
  /\ calls' = (calls \ {c}) \cup
       {[d EXCEPT !.answered = TRUE, !.flow = f,
                  !.seen = [flow |-> f, status |-> flows'[f].status, request |-> flows'[f].shown,
                            responding |-> FALSE]] : d \in {e \in {c} : e.kind # "cancel"}}
  /\ UNCHANGED <<loginDialog, polling, left>>

\* currentOAuthDialog, and the request that was shown when the call was sent.
StillShown(c) == c.current /\ loginDialog.flow = c.flow /\ loginDialog.request = c.request

\* Mutant of StartReturns: a flow that nobody waits for any more is not cancelled.
StartReturnsIdly(c) ==
  LET others == calls \ {c}
  IN  /\ c \in calls /\ c.kind = "start" /\ c.answered
      /\ IF c.current
         THEN loginDialog' = c.seen /\ polling' = TRUE /\ calls' = others
         ELSE UNCHANGED <<loginDialog, polling>> /\ calls' = others
      /\ UNCHANGED <<flows, left>>

\* startFlow goes on.
StartReturns(c) ==
  LET others == calls \ {c}
  IN  /\ c \in calls /\ c.kind = "start" /\ c.answered
      /\ IF c.current
         THEN loginDialog' = c.seen /\ polling' = TRUE /\ calls' = others
         ELSE UNCHANGED <<loginDialog, polling>> /\ calls' = others \cup {Call("cancel", c.flow, 0)}
      /\ UNCHANGED <<flows, left>>

\* poll and respondOAuth go on.
AnswerReturns(c) ==
  /\ c \in calls /\ c.kind \in {"poll", "respond"} /\ c.answered
  /\ IF StillShown(c) THEN Shown(c.seen, calls \ {c})
     ELSE calls' = calls \ {c} /\ UNCHANGED <<loginDialog, polling>>
  /\ UNCHANGED <<flows, left>>

\* A request fails, because it was lost or refused or its answer was.
CallFails(c) ==
  /\ c \in calls
  /\ left' = IF c.kind \in {"start", "cancel"} THEN left \cup ({c.flow} \ {NoFlowYet}) ELSE left
  /\ CASE c.kind = "poll" /\ StillShown(c) ->
            polling' = FALSE /\ calls' = PollsOutdated(calls \ {c}) /\ UNCHANGED loginDialog
       [] c.kind = "respond" /\ StillShown(c) ->
            loginDialog' = [loginDialog EXCEPT !.responding = FALSE] /\ calls' = calls \ {c} /\ UNCHANGED polling
       [] OTHER -> calls' = calls \ {c} /\ UNCHANGED <<loginDialog, polling>>
  /\ UNCHANGED flows

-----------------------------------------------------------------------------

LoginInit ==
  /\ flows = [f \in LoginFlow |-> NewFlow]
  /\ loginDialog = OtherDialog /\ polling = FALSE /\ calls = {} /\ left = {}

Provider(f) ==
  \/ Prompt(f) \/ PromptInVain(f) \/ PromptAborts(f)
  \/ LoginCommits(f) \/ CompletionReturns(f) \/ LoginFails(f)

LoginNext ==
  \/ \E f \in LoginFlow : Provider(f) \/ Expire(f) \/ EvictFlow(f)
  \/ DisposeFlows
  \/ UserLogsIn \/ UserCloses \/ UserAnswers \/ PollTick
  \/ \E c \in calls : \/ \E f \in LoginFlow : Handles(c, f)
                      \/ StartReturns(c) \/ AnswerReturns(c) \/ CallFails(c)

LoginSpec == LoginInit /\ [][LoginNext]_loginVars

-----------------------------------------------------------------------------
(* What logging in promises *)

\* Every variable holds a value of its kind.
LoginTypeOK ==
  /\ \A f \in LoginFlow :
       /\ flows[f].status \in {"none", "running", "complete", "error", "cancelled"}
       /\ flows[f].login \in {"none", "runs", "committed", "done", "failed"}
       /\ flows[f].parked \subseteq 1..MaxPrompt /\ flows[f].replaced \subseteq 1..MaxPrompt
       /\ {flows[f].pending, flows[f].shown, flows[f].asked} \subseteq 0..MaxPrompt
  /\ loginDialog.flow \in LoginFlow \cup {NoFlowYet} /\ polling \in BOOLEAN
  /\ left \subseteq LoginFlow

\* What a flow shows agrees with its login, whatever users, timers and signals do between the
\* steps of both: a login waits only for the request that a running flow shows, or for one that
\* a later prompt has replaced; a login that was committed is complete once its listeners were
\* told, also if the flow was cancelled or had expired meanwhile; one that failed does not run.
FlowsTellOfTheirLogin ==
  \A f \in LoginFlow :
    LET r == flows[f]
    IN  /\ r.login = "runs" =>
             \A n \in r.parked \ r.replaced : Running(r) /\ r.pending = n /\ r.shown = n
        /\ r.login = "done" /\ r.kept => r.status = "complete"
        /\ r.login = "failed" => ~Running(r)

\* A flow that runs has a browser that shows it or is about to show or to cancel it, unless the
\* browser's requests failed or the user began another login over it.
RunningFlowsAreOwned ==
  \A f \in LoginFlow \ left :
    Running(flows[f]) =>
      loginDialog.flow = f \/ \E c \in calls : c.flow = f /\ c.kind \in {"start", "cancel"}

=============================================================================
