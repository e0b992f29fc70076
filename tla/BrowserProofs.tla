---------------------------- MODULE BrowserProofs ----------------------------
(***************************************************************************)
(* What one browser shows of a daemon, for any number of flows, prompts    *)
(* and requests: the logins it has begun, its projection of the unread     *)
(* catalog, for any readers, buffers and histories, and the notifications  *)
(* of the session it has selected, for any limit, notes and replacements.  *)
(***************************************************************************)
EXTENDS LoginFlows, UnreadProjection, SessionNotifications, FiniteSetTheorems, SequenceTheorems, TLAPS

-----------------------------------------------------------------------------
(* Login flows: what holds of each *)

FlowKind ==
  [kept : BOOLEAN, status : {"none", "running", "complete", "error", "cancelled"},
   login : {"none", "runs", "committed", "done", "failed"}, asked : Nat,
   pending : Nat, shown : Nat, parked : SUBSET Nat, replaced : SUBSET Nat]

\* What a flow tells agrees with its login, and nothing of it is there before it starts.
FlowOK(r) ==
  /\ r.login = "none" => r = NewFlow
  /\ r.login # "none" => r.status # "none"
  /\ 0 \notin r.parked
  /\ r.login = "runs" =>
       \A n \in r.parked \ r.replaced : Running(r) /\ r.pending = n /\ r.shown = n
  /\ r.login = "done" /\ r.kept => r.status = "complete"
  /\ r.login = "failed" => ~Running(r)

FlowsInv == \A f \in LoginFlow : flows[f] \in FlowKind /\ FlowOK(flows[f])

\* flows is a function on the flows; a step of one of them is enough to look at.
LoginKinds == flows = [f \in LoginFlow |-> flows[f]]

-----------------------------------------------------------------------------
(* Login flows: what holds of the browser *)

DialogKind ==
  [flow : LoginFlow \cup {NoFlowYet}, status : {"none", "running", "complete", "error", "cancelled"},
   request : Nat, responding : BOOLEAN]

CallKind ==
  [kind : {"start", "poll", "respond", "cancel"}, flow : LoginFlow \cup {NoFlowYet},
   request : Nat, current : BOOLEAN, answered : BOOLEAN, seen : DialogKind]

\* A request is for a flow unless it is a start without an answer, and answers that tell of an
\* end do not pass away.
CallOK(c) ==
  /\ c.flow = NoFlowYet <=> c.kind = "start" /\ ~c.answered
  /\ c.answered =>
       /\ c.seen.flow = c.flow /\ c.seen.status # "none"
       /\ c.seen.status # "running" => Ended(flows[c.flow])

\* A start is waited for only while no flow is shown.
DialogOK ==
  /\ loginDialog \in DialogKind
  /\ polling => loginDialog.flow # NoFlowYet
  /\ \A c, d \in calls : c.kind = "start" /\ d.kind = "start" => c = d
  /\ \A c \in calls : c.kind = "start" /\ c.current => loginDialog.flow = NoFlowYet

LoginInv ==
  /\ LoginKinds /\ FlowsInv /\ DialogOK
  /\ \A c \in calls : c \in CallKind /\ CallOK(c)
  /\ RunningFlowsAreOwned

\* A step of the flow f that leaves the browser alone: what has ended stays so, and nothing
\* begins to run.
LEMMA FlowSteps ==
  ASSUME LoginInv, BrowserSame, NEW f \in LoginFlow, NEW r \in FlowKind, FlowOK(r),
         flows' = [flows EXCEPT ![f] = r],
         Running(r) => Running(flows[f]), Ended(flows[f]) => Ended(r)
  PROVE  LoginInv'
<1>1. \A g \in LoginFlow : flows'[g] = IF g = f THEN r ELSE flows[g]
  BY DEF LoginInv, LoginKinds
<1>2. LoginKinds' /\ FlowsInv'
  BY <1>1 DEF LoginInv, LoginKinds, FlowsInv
<1>3. DialogOK'
  BY DEF LoginInv, DialogOK, BrowserSame
<1>4. \A c \in calls' : c \in CallKind /\ CallOK(c)'
  BY <1>1 DEF LoginInv, CallOK, CallKind, BrowserSame
<1>5. RunningFlowsAreOwned'
  BY <1>1 DEF LoginInv, RunningFlowsAreOwned, BrowserSame
<1> QED BY <1>2, <1>3, <1>4, <1>5 DEF LoginInv

LEMMA FlowIs ==
  ASSUME LoginInv, NEW f \in LoginFlow
  PROVE  flows[f] \in FlowKind /\ FlowOK(flows[f])
<1> QED BY DEF LoginInv, FlowsInv

\* A request that has ended does so for a flow in its kind.
LEMMA EndsAsIs ==
  ASSUME NEW r \in FlowKind, FlowOK(r), NEW status \in {"complete", "error", "cancelled"},
         Running(r)
  PROVE  /\ EndsAs(r, status) \in FlowKind /\ FlowOK(EndsAs(r, status))
         /\ ~Running(EndsAs(r, status)) /\ Ended(EndsAs(r, status))
<1> DEFINE i == Idle(r)
           e == EndsAs(r, status)
<1>1. i \in FlowKind /\ i.status = r.status /\ i.login = r.login /\ i.kept = r.kept /\ i.pending = 0
      /\ i.parked = r.parked /\ i.replaced = r.replaced
  BY DEF FlowKind, Idle
<1> HIDE DEF i
<1>2. e = [i EXCEPT !.status = status, !.parked = i.parked \ {r.pending}]
  BY DEF EndsAs, i
<1>3. e \in FlowKind
  BY <1>1, <1>2 DEF FlowKind
<1>4. /\ e.status = status /\ e.login = r.login /\ e.kept = r.kept
      /\ e.parked = r.parked \ {r.pending} /\ e.replaced = r.replaced
  BY <1>1, <1>2 DEF FlowKind
<1> HIDE DEF e
<1>5. FlowOK(e) /\ ~Running(e) /\ Ended(e)
  BY <1>4 DEF FlowOK, Running, Ended, NewFlow
<1> QED BY <1>3, <1>5 DEF e

\* What the provider's login does to its flow.
LEMMA ProviderOK == ASSUME LoginInv, NEW f \in LoginFlow, Provider(f) PROVE LoginInv'
<1> DEFINE r == flows[f]
           n == r.asked + 1
<1>0. r \in FlowKind /\ FlowOK(r)
  BY FlowIs
<1>1. CASE Prompt(f)
  <2> DEFINE s == [r EXCEPT !.asked = n, !.pending = n, !.shown = n, !.parked = r.parked \cup {n},
                            !.replaced = r.replaced \cup ({r.pending} \ {0})]
  <2>1. r.login = "runs" /\ Running(r) /\ flows' = [flows EXCEPT ![f] = s] /\ BrowserSame
    BY <1>1 DEF Prompt, MayAsk
  <2>2. n \in Nat \ {0} /\ r.parked \cup {n} \subseteq Nat
        /\ r.replaced \cup ({r.pending} \ {0}) \subseteq Nat
    BY <1>0 DEF FlowKind
  <2> HIDE DEF r, n
  <2>3. /\ s.login = r.login /\ s.kept = r.kept /\ s.status = r.status /\ s.pending = n
        /\ s.shown = n /\ s.parked = r.parked \cup {n}
        /\ s.replaced = r.replaced \cup ({r.pending} \ {0})
    BY <1>0 DEF FlowKind
  <2>4. s \in FlowKind
    BY <1>0, <2>2 DEF FlowKind
  <2> HIDE DEF s
  <2>5. FlowOK(s) /\ Running(s) /\ ~Ended(r)
    BY <1>0, <2>1, <2>2, <2>3 DEF FlowOK, Running, Ended
  <2> QED BY <2>1, <2>4, <2>5, FlowSteps DEF r
<1>2. CASE PromptInVain(f)
  <2> DEFINE s == [Idle(r) EXCEPT !.asked = r.asked + 1,
                                  !.replaced = r.replaced \cup ({r.pending} \ {0})]
  <2>1. r.login = "runs" /\ Running(r) /\ flows' = [flows EXCEPT ![f] = s] /\ BrowserSame
    BY <1>2 DEF PromptInVain, MayAsk, Idle
  <2>2. r.asked + 1 \in Nat /\ r.replaced \cup ({r.pending} \ {0}) \subseteq Nat
    BY <1>0 DEF FlowKind
  <2> HIDE DEF r, n
  <2>3. /\ s.login = r.login /\ s.kept = r.kept /\ s.status = r.status
        /\ s.parked = r.parked /\ s.replaced = r.replaced \cup ({r.pending} \ {0})
    BY <1>0 DEF FlowKind, Idle
  <2>4. s \in FlowKind
    BY <1>0, <2>2 DEF FlowKind, Idle
  <2> HIDE DEF s
  <2>5. FlowOK(s) /\ Running(s) /\ ~Ended(r)
    BY <1>0, <2>1, <2>3 DEF FlowOK, Running, Ended
  <2> QED BY <2>1, <2>4, <2>5, FlowSteps DEF r
<1>3. CASE PromptAborts(f)
  <2> DEFINE s == [r EXCEPT !.pending = 0, !.shown = IF Running(r) THEN 0 ELSE r.shown,
                            !.parked = r.parked \ {r.pending}]
  <2>1. r.pending # 0 /\ flows' = [flows EXCEPT ![f] = s] /\ BrowserSame
    BY <1>3 DEF PromptAborts
  <2> HIDE DEF r, n
  <2>2. /\ s.login = r.login /\ s.kept = r.kept /\ s.status = r.status
        /\ s.parked = r.parked \ {r.pending} /\ s.replaced = r.replaced
    BY <1>0 DEF FlowKind
  <2>3. s \in FlowKind
    BY <1>0 DEF FlowKind, Running
  <2>4. r.login # "none"
    BY <1>0, <2>1 DEF FlowOK, NewFlow
  <2> HIDE DEF s
  <2>5. FlowOK(s) /\ (Running(s) => Running(r)) /\ (Ended(r) => Ended(s))
    BY <1>0, <2>2, <2>4 DEF FlowOK, Running, Ended
  <2> QED BY <2>1, <2>3, <2>5, FlowSteps DEF r
<1>4. CASE LoginCommits(f)
  <2> DEFINE s == [r EXCEPT !.login = "committed", !.pending = IF r.kept THEN 0 ELSE r.pending]
  <2>1. r.login = "runs" /\ flows' = [flows EXCEPT ![f] = s] /\ BrowserSame
    BY <1>4 DEF LoginCommits
  <2>2. s \in FlowKind /\ FlowOK(s) /\ (Running(s) => Running(r)) /\ (Ended(r) => Ended(s))
    BY <1>0, <2>1 DEF FlowKind, FlowOK, Running, Ended, NewFlow
  <2> HIDE DEF s, r, n
  <2> QED BY <2>1, <2>2, FlowSteps DEF r
<1>5. CASE CompletionReturns(f)
  <2> DEFINE s == IF r.kept THEN [r EXCEPT !.login = "done", !.status = "complete", !.shown = 0]
                  ELSE [r EXCEPT !.login = "done"]
  <2>1. r.login = "committed" /\ flows' = [flows EXCEPT ![f] = s] /\ BrowserSame
    BY <1>5 DEF CompletionReturns
  <2>2. s \in FlowKind /\ FlowOK(s) /\ (Running(s) => Running(r)) /\ (Ended(r) => Ended(s))
    BY <1>0, <2>1 DEF FlowKind, FlowOK, Running, Ended, NewFlow
  <2> HIDE DEF s, r, n
  <2> QED BY <2>1, <2>2, FlowSteps DEF r
<1>6. CASE LoginFails(f)
  <2> DEFINE s == IF Running(r) THEN [Idle(r) EXCEPT !.login = "failed", !.status = "error"]
                  ELSE [r EXCEPT !.login = "failed", !.pending = IF r.kept THEN 0 ELSE r.pending]
  <2>1. r.login = "runs" /\ flows' = [flows EXCEPT ![f] = s] /\ BrowserSame
    BY <1>6 DEF LoginFails
  <2>2. s \in FlowKind /\ FlowOK(s) /\ (Running(s) => Running(r)) /\ (Ended(r) => Ended(s))
    BY <1>0, <2>1 DEF FlowKind, FlowOK, Running, Ended, NewFlow, Idle
  <2> HIDE DEF s, r, n
  <2> QED BY <2>1, <2>2, FlowSteps DEF r
<1> HIDE DEF r, n
<1> QED BY <1>1, <1>2, <1>3, <1>4, <1>5, <1>6 DEF Provider

\* Timers and the end of the daemon's service.
LEMMA TimersOK ==
  ASSUME LoginInv, (\E f \in LoginFlow : Expire(f) \/ EvictFlow(f)) \/ DisposeFlows
  PROVE  LoginInv'
<1>1. ASSUME NEW f \in LoginFlow, Expire(f) PROVE LoginInv'
  <2>1. flows' = [flows EXCEPT ![f] = EndsAs(flows[f], "error")] /\ BrowserSame /\ Running(flows[f])
    BY <1>1 DEF Expire
  <2>2. ~Ended(flows[f])
    BY <2>1 DEF Running, Ended
  <2> QED BY <2>1, <2>2, FlowIs, EndsAsIs, FlowSteps
<1>2. ASSUME NEW f \in LoginFlow, EvictFlow(f) PROVE LoginInv'
  <2> DEFINE r == flows[f]
             s == [r EXCEPT !.kept = FALSE]
  <2>1. flows' = [flows EXCEPT ![f] = s] /\ BrowserSame /\ Ended(r)
    BY <1>2 DEF EvictFlow
  <2>2. r \in FlowKind /\ FlowOK(r)
    BY FlowIs
  <2> HIDE DEF r
  <2>3. /\ s \in FlowKind /\ s.login = r.login /\ ~s.kept /\ s.status = r.status
        /\ s.parked = r.parked /\ s.replaced = r.replaced
    BY <2>2 DEF FlowKind
  <2>4. r.login # "none" /\ ~Running(r)
    BY <2>1, <2>2 DEF FlowOK, NewFlow, Ended, Running
  <2> HIDE DEF s
  <2>5. FlowOK(s) /\ ~Running(s) /\ Ended(s)
    BY <2>1, <2>2, <2>3, <2>4 DEF FlowOK, Running, Ended
  <2> QED BY <2>1, <2>3, <2>5, FlowSteps DEF r
<1>3. CASE DisposeFlows
  <2>1. ASSUME NEW f \in LoginFlow
        PROVE  /\ flows'[f] \in FlowKind /\ FlowOK(flows'[f])
               /\ ~Running(flows'[f]) /\ (Ended(flows[f]) => Ended(flows'[f]))
    <3> DEFINE r == flows[f]
               s == [r EXCEPT !.kept = FALSE, !.pending = 0, !.parked = r.parked \ {r.pending}]
    <3>1. flows'[f] = IF r.kept THEN s ELSE r
      BY <1>3 DEF DisposeFlows
    <3>2. r \in FlowKind /\ FlowOK(r)
      BY FlowIs
    <3> HIDE DEF r
    <3>3. s \in FlowKind
      BY <3>2 DEF FlowKind
    <3>4. /\ s.login = r.login /\ ~s.kept /\ s.status = r.status
          /\ s.parked = r.parked \ {r.pending} /\ s.replaced = r.replaced
      BY <3>2 DEF FlowKind
    <3>5. r.kept => r.login # "none"
      BY <3>2 DEF FlowOK, NewFlow
    <3> HIDE DEF s
    <3>6. r.kept => FlowOK(s)
      BY <3>2, <3>4, <3>5 DEF FlowOK, Running
    <3> QED BY <3>1, <3>2, <3>3, <3>4, <3>6 DEF Running, Ended, r
  <2>2. LoginKinds' /\ FlowsInv'
    BY <1>3, <2>1 DEF DisposeFlows, LoginKinds, FlowsInv
  <2>3. DialogOK'
    BY <1>3 DEF DisposeFlows, LoginInv, DialogOK, BrowserSame
  <2>4. \A c \in calls' : c \in CallKind /\ CallOK(c)'
    BY <1>3, <2>1 DEF DisposeFlows, LoginInv, CallOK, CallKind, BrowserSame
  <2>5. RunningFlowsAreOwned'
    BY <1>3, <2>1 DEF DisposeFlows, RunningFlowsAreOwned, BrowserSame
  <2> QED BY <2>2, <2>3, <2>4, <2>5 DEF LoginInv
<1> QED BY <1>1, <1>2, <1>3

\* A request that passes only stops to be current.
LEMMA PastIs ==
  ASSUME NEW c \in CallKind, NEW K
  PROVE  /\ Past(c, K) \in CallKind
         /\ Past(c, K).kind = c.kind /\ Past(c, K).flow = c.flow /\ Past(c, K).request = c.request
         /\ Past(c, K).answered = c.answered /\ Past(c, K).seen = c.seen
         /\ Past(c, K).current => c.current
<1> QED BY DEF Past, CallKind

LEMMA OutdatedStarts ==
  ASSUME NEW c \in CallKind, c.kind = "start"
  PROVE  ~Past(c, {"start", "poll", "respond"}).current
<1> QED BY DEF Past, CallKind

LEMMA CallIs ==
  ASSUME NEW kind \in {"start", "poll", "respond", "cancel"}, NEW f \in LoginFlow \cup {NoFlowYet},
         NEW request \in Nat
  PROVE  /\ Call(kind, f, request) \in CallKind
         /\ Call(kind, f, request).kind = kind /\ Call(kind, f, request).flow = f
         /\ ~Call(kind, f, request).answered /\ OtherDialog \in DialogKind
<1>1. OtherDialog \in DialogKind
  BY DEF OtherDialog, DialogKind
<1> QED BY <1>1 DEF Call, CallKind

\* A step of the browser that leaves the flows alone: every request it has then was there
\* before, or is a new one.
LEMMA BrowserSteps ==
  ASSUME LoginInv, UNCHANGED flows, DialogOK', RunningFlowsAreOwned',
         \A c \in calls' :
           \/ \E d \in calls : /\ c \in CallKind /\ c.kind = d.kind /\ c.flow = d.flow
                               /\ c.answered = d.answered /\ c.seen = d.seen
           \/ /\ c \in CallKind /\ ~c.answered
              /\ c.flow = NoFlowYet <=> c.kind = "start"
  PROVE  LoginInv'
<1>1. LoginKinds' /\ FlowsInv'
  BY DEF LoginInv, LoginKinds, FlowsInv
<1>2. \A c \in calls' : c \in CallKind /\ CallOK(c)'
  BY DEF LoginInv, CallOK
<1> QED BY <1>1, <1>2 DEF LoginInv

\* The steps of a user, and of the timer that polls.
LEMMA UserOK ==
  ASSUME LoginInv, UserLogsIn \/ UserCloses \/ UserAnswers \/ PollTick
  PROVE  LoginInv'
<1>0. (\A c \in calls : c \in CallKind) /\ OtherDialog \in DialogKind /\ OtherDialog.flow = NoFlowYet
  BY CallIs DEF LoginInv, OtherDialog, DialogKind
<1> DEFINE P(c) == Past(c, {"start", "poll", "respond"})
<1>1. CASE UserLogsIn
  <2> DEFINE s == Call("start", NoFlowYet, 0)
  <2>1. /\ ~\E c \in calls : c.kind = "start"
        /\ loginDialog' = OtherDialog /\ polling' = FALSE
        /\ calls' = {P(c) : c \in calls} \cup {s}
        /\ left' = left \cup ({loginDialog.flow} \ {NoFlowYet}) /\ UNCHANGED flows
    BY <1>1 DEF UserLogsIn, Outdated
  <2>2. s \in CallKind /\ s.kind = "start" /\ s.flow = NoFlowYet /\ ~s.answered
    BY CallIs
  <2>3. \A c \in calls : /\ P(c) \in CallKind /\ P(c).kind = c.kind /\ P(c).flow = c.flow
                         /\ P(c).answered = c.answered /\ P(c).seen = c.seen
    BY <1>0, PastIs
  <2> HIDE DEF s, P
  <2>4. DialogOK'
    BY <1>0, <2>1, <2>2, <2>3 DEF DialogOK
  <2>5. RunningFlowsAreOwned'
    <3> SUFFICES ASSUME NEW f \in LoginFlow \ left', Running(flows[f])
                 PROVE  \E c \in calls' : c.flow = f /\ c.kind \in {"start", "cancel"}
      BY <2>1 DEF RunningFlowsAreOwned
    <3>1. loginDialog.flow # f
      BY <2>1, NoFlowYetAssumption
    <3>2. PICK c \in calls : c.flow = f /\ c.kind \in {"start", "cancel"}
      BY <2>1, <3>1 DEF LoginInv, RunningFlowsAreOwned
    <3> QED BY <2>1, <2>3, <3>2
  <2> QED BY <2>1, <2>2, <2>3, <2>4, <2>5, BrowserSteps
<1>2. CASE UserCloses
  <2> DEFINE s == Call("cancel", loginDialog.flow, 0)
  <2>1. /\ loginDialog' = OtherDialog /\ polling' = FALSE
        /\ calls' = {P(c) : c \in calls} \cup (IF loginDialog.flow = NoFlowYet THEN {} ELSE {s})
        /\ UNCHANGED <<flows, left>>
    BY <1>2 DEF UserCloses, Outdated
  <2>2. s \in CallKind /\ s.kind = "cancel" /\ s.flow = loginDialog.flow /\ ~s.answered
    BY CallIs DEF LoginInv, DialogOK, DialogKind
  <2>3. \A c \in calls : /\ P(c) \in CallKind /\ P(c).kind = c.kind /\ P(c).flow = c.flow
                         /\ P(c).answered = c.answered /\ P(c).seen = c.seen
    BY <1>0, PastIs
  <2>4. \A c, d \in calls : c.kind = "start" /\ d.kind = "start" => P(c) = P(d)
    BY DEF LoginInv, DialogOK
  <2> HIDE DEF s, P
  <2>5. DialogOK'
    BY <1>0, <2>1, <2>2, <2>3, <2>4 DEF DialogOK
  <2>6. RunningFlowsAreOwned'
    <3> SUFFICES ASSUME NEW f \in LoginFlow \ left, Running(flows[f])
                 PROVE  \E c \in calls' : c.flow = f /\ c.kind \in {"start", "cancel"}
      BY <2>1 DEF RunningFlowsAreOwned
    <3>1. CASE loginDialog.flow = f
      BY <2>1, <2>2, <3>1, NoFlowYetAssumption
    <3>2. CASE loginDialog.flow # f
      <4>1. PICK c \in calls : c.flow = f /\ c.kind \in {"start", "cancel"}
        BY <3>2 DEF LoginInv, RunningFlowsAreOwned
      <4> QED BY <2>1, <2>3, <4>1
    <3> QED BY <3>1, <3>2
  <2> QED BY <2>1, <2>2, <2>3, <2>5, <2>6, BrowserSteps
<1>3. CASE UserAnswers \/ PollTick
  <2>1. PICK kind \in {"poll", "respond"} :
          calls' = calls \cup {Call(kind, loginDialog.flow, loginDialog.request)}
    BY <1>3 DEF UserAnswers, PollTick
  <2>2. /\ UNCHANGED <<flows, polling, left>> /\ loginDialog.flow # NoFlowYet
        /\ loginDialog' \in {loginDialog, [loginDialog EXCEPT !.responding = TRUE]}
    BY <1>3 DEF UserAnswers, PollTick, LoginInv, DialogOK
  <2> DEFINE t == Call(kind, loginDialog.flow, loginDialog.request)
  <2>3. t \in CallKind /\ t.kind = kind /\ t.flow = loginDialog.flow /\ ~t.answered
    BY CallIs DEF LoginInv, DialogOK, DialogKind
  <2>4. loginDialog' \in DialogKind /\ loginDialog'.flow = loginDialog.flow
    BY <2>2 DEF LoginInv, DialogOK, DialogKind
  <2> HIDE DEF t
  <2>5. DialogOK'
    BY <2>1, <2>2, <2>3, <2>4 DEF LoginInv, DialogOK, t
  <2>6. RunningFlowsAreOwned'
    BY <2>1, <2>2, <2>4 DEF LoginInv, RunningFlowsAreOwned
  <2>7. calls' = calls \cup {t}
    BY <2>1 DEF t
  <2> QED BY <1>0, <2>2, <2>3, <2>5, <2>6, <2>7, BrowserSteps
<1> QED BY <1>1, <1>2, <1>3

\* The daemon answers a request: what it makes of the flow is r.
LEMMA AnswersOK ==
  ASSUME LoginInv, NEW c \in calls, ~c.answered, NEW f \in LoginFlow, NEW r \in FlowKind, FlowOK(r),
         flows' = [flows EXCEPT ![f] = r], UNCHANGED <<loginDialog, polling, left>>,
         calls' = (calls \ {c}) \cup
           {[d EXCEPT !.answered = TRUE, !.flow = f,
                      !.seen = [flow |-> f, status |-> flows'[f].status, request |-> flows'[f].shown,
                                responding |-> FALSE]] : d \in {e \in {c} : e.kind # "cancel"}},
         Ended(flows[f]) => Ended(r), r.status # "none", c.kind = "start" \/ c.flow = f,
         IF c.kind = "cancel" THEN ~Running(r)
         ELSE Running(r) => c.kind = "start" \/ Running(flows[f])
  PROVE  LoginInv'
<1> DEFINE seen == [flow |-> f, status |-> r.status, request |-> r.shown, responding |-> FALSE]
           h == [c EXCEPT !.answered = TRUE, !.flow = f, !.seen = seen]
<1>1. \A g \in LoginFlow : flows'[g] = IF g = f THEN r ELSE flows[g]
  BY DEF LoginInv, LoginKinds
<1>2. calls' = (calls \ {c}) \cup (IF c.kind = "cancel" THEN {} ELSE {h})
  BY <1>1
<1>3. c \in CallKind /\ CallOK(c) /\ f # NoFlowYet
  BY NoFlowYetAssumption DEF LoginInv
<1>4. seen \in DialogKind /\ seen.flow = f /\ seen.status = r.status
  BY DEF FlowKind, DialogKind
<1> HIDE DEF seen
<1>5. /\ h \in CallKind /\ h.kind = c.kind /\ h.flow = f /\ h.answered /\ h.seen = seen
      /\ h.current = c.current
  BY <1>3, <1>4 DEF CallKind
<1> HIDE DEF h
<1>6. LoginKinds' /\ FlowsInv'
  BY <1>1 DEF LoginInv, LoginKinds, FlowsInv
<1>7. DialogOK'
  BY <1>2, <1>5 DEF LoginInv, DialogOK
<1>8. \A d \in calls' : d \in CallKind /\ CallOK(d)'
  <2>1. CallOK(h)'
    <3>1. r.status # "running" => Ended(r)
      BY DEF FlowKind, Ended
    <3> QED BY <1>1, <1>3, <1>4, <1>5, <3>1 DEF CallOK
  <2>2. ASSUME NEW d \in calls PROVE d \in CallKind /\ CallOK(d)'
    <3>1. d \in CallKind /\ CallOK(d)
      BY DEF LoginInv
    <3>2. d.answered => d.flow \in LoginFlow
      BY <3>1 DEF CallKind, CallOK
    <3> QED BY <1>1, <3>1, <3>2 DEF CallOK
  <2> QED BY <1>2, <1>5, <2>1, <2>2
<1>9. RunningFlowsAreOwned'
  <2> SUFFICES ASSUME NEW g \in LoginFlow \ left, Running(flows'[g]), loginDialog.flow # g
               PROVE  \E d \in calls' : d.flow = g /\ d.kind \in {"start", "cancel"}
    BY DEF RunningFlowsAreOwned
  <2>1. CASE g = f /\ c.kind = "start"
    BY <1>2, <1>5, <2>1
  <2>2. CASE ~(g = f /\ c.kind = "start")
    <3>1. Running(flows[g])
      BY <1>1, <2>2
    <3>2. PICK d \in calls : d.flow = g /\ d.kind \in {"start", "cancel"}
      BY <3>1 DEF LoginInv, RunningFlowsAreOwned
    <3>3. d # c
      BY <1>1, <1>3, <2>2, <3>2, NoFlowYetAssumption DEF CallOK
    <3> QED BY <1>2, <3>2, <3>3
  <2> QED BY <2>1, <2>2
<1> QED BY <1>6, <1>7, <1>8, <1>9 DEF LoginInv

LEMMA HandlesOK ==
  ASSUME LoginInv, NEW c \in calls, NEW f \in LoginFlow, Handles(c, f)
  PROVE  LoginInv'
<1> DEFINE r == flows[f]
<1>0. r \in FlowKind /\ FlowOK(r) /\ c \in CallKind /\ ~c.answered
  BY FlowIs DEF Handles, LoginInv
<1>1. /\ UNCHANGED <<loginDialog, polling, left>>
      /\ calls' = (calls \ {c}) \cup
           {[d EXCEPT !.answered = TRUE, !.flow = f,
                      !.seen = [flow |-> f, status |-> flows'[f].status, request |-> flows'[f].shown,
                                responding |-> FALSE]] : d \in {e \in {c} : e.kind # "cancel"}}
  BY DEF Handles
<1>2. flows = [flows EXCEPT ![f] = r]
  BY DEF LoginInv, LoginKinds
<1>3. r.kept => r.status # "none"
  BY <1>0 DEF FlowOK, NewFlow
<1>4. CASE c.kind = "start"
  <2>1. r = NewFlow /\ flows' = [flows EXCEPT ![f] = Started]
    BY <1>4 DEF Handles
  <2>2. Started \in FlowKind /\ FlowOK(Started) /\ Started.status = "running" /\ ~Ended(NewFlow)
    BY DEF Started, NewFlow, FlowKind, FlowOK, Ended
  <2> QED BY <1>0, <1>1, <1>4, <2>1, <2>2, AnswersOK
<1>5. CASE c.kind = "poll"
  <2>1. f = c.flow /\ r.kept /\ flows' = flows
    BY <1>5 DEF Handles
  <2>2. flows' = [flows EXCEPT ![f] = r]
    BY <1>2, <2>1
  <2> HIDE DEF r
  <2> QED BY <1>0, <1>1, <1>3, <1>5, <2>1, <2>2, AnswersOK DEF r
<1>6. CASE c.kind = "respond"
  <2> DEFINE s == [Idle(r) EXCEPT !.parked = Idle(r).parked \ {c.request}]
  <2>1. /\ f = c.flow /\ r.kept
        /\ \/ flows' = flows
           \/ r.status = "running" /\ r.pending = c.request /\ flows' = [flows EXCEPT ![f] = s]
    BY <1>6 DEF Handles
  <2>2. CASE flows' = flows
    <3>1. flows' = [flows EXCEPT ![f] = r]
      BY <1>2, <2>2
    <3> HIDE DEF r
    <3> QED BY <1>0, <1>1, <1>3, <1>6, <2>1, <3>1, AnswersOK DEF r
  <2>3. CASE r.status = "running" /\ r.pending = c.request /\ flows' = [flows EXCEPT ![f] = s]
    <3> HIDE DEF r
    <3>1. /\ s.login = r.login /\ s.kept = r.kept /\ s.status = r.status
          /\ s.parked = r.parked \ {r.pending} /\ s.replaced = r.replaced
      BY <1>0, <2>3 DEF FlowKind, Idle
    <3>2. s \in FlowKind
      BY <1>0 DEF FlowKind, Idle
    <3>3. r.login # "none"
      BY <1>0, <2>1 DEF FlowOK, NewFlow
    <3> HIDE DEF s
    <3>4. FlowOK(s) /\ (Running(s) => Running(r)) /\ (Ended(r) => Ended(s)) /\ s.status # "none"
      BY <1>0, <2>3, <3>1, <3>3 DEF FlowOK, Running, Ended
    <3> QED BY <1>0, <1>1, <1>6, <2>1, <2>3, <3>2, <3>4, AnswersOK DEF r
  <2> QED BY <2>1, <2>2, <2>3
<1>7. CASE c.kind = "cancel"
  <2>1. /\ f = c.flow /\ r.kept
        /\ flows' = [flows EXCEPT ![f] = IF r.status = "running" THEN EndsAs(r, "cancelled") ELSE r]
    BY <1>7 DEF Handles
  <2> HIDE DEF r
  <2>2. CASE r.status = "running"
    <3>1. EndsAs(r, "cancelled").status # "none"
      BY <1>0, <2>1, <2>2, EndsAsIs DEF Ended, Running
    <3> QED BY <1>0, <1>1, <1>7, <2>1, <2>2, <3>1, EndsAsIs, AnswersOK DEF r, Running
  <2>3. CASE r.status # "running"
    BY <1>0, <1>1, <1>3, <1>7, <2>1, <2>3, AnswersOK DEF r, Running
  <2> QED BY <2>2, <2>3
<1> QED BY <1>0, <1>4, <1>5, <1>6, <1>7 DEF CallKind

\* What a request brings is taken over or not: others are the requests still under way.
LEMMA StartReturnsOK ==
  ASSUME LoginInv, NEW c \in calls, StartReturns(c)
  PROVE  LoginInv'
<1> DEFINE s == Call("cancel", c.flow, 0)
<1>0. c \in CallKind /\ CallOK(c) /\ c.kind = "start" /\ c.answered /\ UNCHANGED <<flows, left>>
  BY DEF LoginInv, StartReturns
<1>1. c.flow \in LoginFlow /\ c.flow # NoFlowYet /\ c.seen \in DialogKind /\ c.seen.flow = c.flow
  BY <1>0 DEF CallOK, CallKind
<1>2. s \in CallKind /\ s.kind = "cancel" /\ s.flow = c.flow /\ ~s.answered
  BY <1>1, CallIs
<1>3. \/ /\ c.current /\ loginDialog' = c.seen /\ polling' = TRUE /\ calls' = calls \ {c}
      \/ UNCHANGED <<loginDialog, polling>> /\ calls' = (calls \ {c}) \cup {s}
  BY DEF StartReturns
<1> HIDE DEF s
<1>4. DialogOK'
  BY <1>0, <1>1, <1>2, <1>3 DEF LoginInv, DialogOK
<1>5. RunningFlowsAreOwned'
  <2> SUFFICES ASSUME NEW f \in LoginFlow \ left, Running(flows[f]), loginDialog'.flow # f
               PROVE  \E d \in calls' : d.flow = f /\ d.kind \in {"start", "cancel"}
    BY <1>0 DEF RunningFlowsAreOwned
  <2>1. loginDialog.flow # f
    BY <1>0, <1>3, NoFlowYetAssumption DEF LoginInv, DialogOK
  <2>2. PICK d \in calls : d.flow = f /\ d.kind \in {"start", "cancel"}
    BY <2>1 DEF LoginInv, RunningFlowsAreOwned
  <2> QED BY <1>1, <1>2, <1>3, <2>2
<1>6. \A d \in calls' : d \in calls \/ d = s
  BY <1>3
<1> QED BY <1>0, <1>1, <1>2, <1>4, <1>5, <1>6, BrowserSteps DEF LoginInv

LEMMA AnswerReturnsOK ==
  ASSUME LoginInv, NEW c \in calls, AnswerReturns(c)
  PROVE  LoginInv'
<1> DEFINE P(d) == Past(d, {"start", "poll", "respond"})
<1>0. /\ c \in CallKind /\ CallOK(c) /\ c.kind \in {"poll", "respond"} /\ c.answered
      /\ UNCHANGED <<flows, left>>
  BY DEF LoginInv, AnswerReturns
<1>1. \A d \in calls : d \in CallKind
  BY DEF LoginInv
<1>2. \A d \in calls : /\ P(d) \in CallKind /\ P(d).kind = d.kind /\ P(d).flow = d.flow
                       /\ P(d).answered = d.answered /\ P(d).seen = d.seen /\ (P(d).current => d.current)
  BY <1>1, PastIs
<1>3. CASE StillShown(c)
  <2>1. /\ c.flow = loginDialog.flow /\ c.flow \in LoginFlow /\ c.flow # NoFlowYet
        /\ c.seen \in DialogKind /\ c.seen.flow = c.flow
        /\ c.seen.status # "none" /\ (c.seen.status # "running" => Ended(flows[c.flow]))
    BY <1>0, <1>3 DEF StillShown, CallOK, CallKind
  <2>2. c.seen.status \in {"running", "complete", "error", "cancelled"}
    BY <2>1 DEF DialogKind
  <2>3. Shown(c.seen, calls \ {c})
    BY <1>3 DEF AnswerReturns
  <2>4. \/ /\ c.seen.status # "running" /\ loginDialog' \in {OtherDialog, c.seen}
           /\ polling' = FALSE /\ calls' = {P(d) : d \in calls \ {c}}
        \/ /\ loginDialog' \in DialogKind /\ loginDialog'.flow = c.flow
           /\ calls' = calls \ {c} /\ UNCHANGED polling
    <3>1. CASE c.seen.status = "complete"
      BY <2>3, <3>1 DEF Shown, Outdated
    <3>2. CASE c.seen.status \in {"error", "cancelled"}
      BY <2>3, <3>2 DEF Shown, Outdated
    <3>3. CASE c.seen.status = "running"
      <4>1. PICK b \in BOOLEAN : loginDialog' = [c.seen EXCEPT !.responding = b]
        BY <2>3, <3>3 DEF Shown
      <4>2. calls' = calls \ {c} /\ UNCHANGED polling
        BY <2>3, <3>3 DEF Shown
      <4> QED BY <2>1, <4>1, <4>2 DEF DialogKind
    <3> QED BY <2>2, <3>1, <3>2, <3>3
  <2>5. /\ loginDialog' \in DialogKind
        /\ loginDialog'.flow \in {NoFlowYet, c.flow}
        /\ loginDialog'.flow = NoFlowYet => c.seen.status # "running" /\ polling' = FALSE
    <3>1. OtherDialog \in DialogKind /\ OtherDialog.flow = NoFlowYet
      BY DEF OtherDialog, DialogKind
    <3> HIDE DEF P
    <3>. QED BY <2>1, <2>4, <3>1
  <2>6. \A d \in calls' : \E e \in calls \ {c} :
          /\ d \in CallKind /\ d.kind = e.kind /\ d.flow = e.flow /\ d.answered = e.answered
          /\ d.seen = e.seen /\ (d.current => e.current) /\ d \in {e, P(e)}
    BY <1>1, <1>2, <2>4
  <2>7. \A e \in calls \ {c} : \E d \in calls' : d.flow = e.flow /\ d.kind = e.kind
    BY <1>2, <2>4
  <2>8. \A d, e \in calls' : d.kind = "start" /\ e.kind = "start" => d = e
    <3>1. ASSUME NEW d \in calls \ {c}, NEW e \in calls \ {c}, d.kind = "start", e.kind = "start"
          PROVE  d = e
      BY <3>1 DEF LoginInv, DialogOK
    <3> HIDE DEF P
    <3> QED BY <1>2, <2>4, <3>1
  <2>9. DialogOK'
    <3>1. polling' => loginDialog'.flow # NoFlowYet
      BY <2>5
    <3>2. \A d \in calls' : ~(d.kind = "start" /\ d.current)
      <4>1. \A d \in calls : ~(d.kind = "start" /\ d.current)
        BY <2>1 DEF LoginInv, DialogOK
      <4> QED BY <2>6, <4>1
    <3> QED BY <2>5, <2>8, <3>1, <3>2 DEF DialogOK
  <2>10. RunningFlowsAreOwned'
    <3> SUFFICES ASSUME NEW f \in LoginFlow \ left, Running(flows[f]), loginDialog'.flow # f
                 PROVE  \E d \in calls' : d.flow = f /\ d.kind \in {"start", "cancel"}
      BY <1>0 DEF RunningFlowsAreOwned
    <3>1. loginDialog.flow # f
      BY <2>1, <2>5 DEF Running, Ended
    <3>2. PICK d \in calls : d.flow = f /\ d.kind \in {"start", "cancel"}
      BY <3>1 DEF LoginInv, RunningFlowsAreOwned
    <3>3. d # c
      BY <1>0, <3>2
    <3> QED BY <2>7, <3>2, <3>3
  <2> HIDE DEF P
  <2> QED BY <1>0, <2>6, <2>9, <2>10, BrowserSteps
<1>4. CASE ~StillShown(c)
  <2>1. calls' = calls \ {c} /\ UNCHANGED <<loginDialog, polling>>
    BY <1>4 DEF AnswerReturns
  <2>2. DialogOK'
    BY <2>1 DEF LoginInv, DialogOK
  <2>3. RunningFlowsAreOwned'
    BY <1>0, <2>1 DEF LoginInv, RunningFlowsAreOwned
  <2> QED BY <1>0, <1>1, <2>1, <2>2, <2>3, BrowserSteps
<1> QED BY <1>3, <1>4

LEMMA CallFailsOK ==
  ASSUME LoginInv, NEW c \in calls, CallFails(c)
  PROVE  LoginInv'
<1> DEFINE P(d) == Past(d, {"poll"})
<1>0. /\ c \in CallKind /\ CallOK(c) /\ UNCHANGED flows
      /\ left' = IF c.kind \in {"start", "cancel"} THEN left \cup ({c.flow} \ {NoFlowYet}) ELSE left
  BY DEF LoginInv, CallFails
<1>1. \A d \in calls : d \in CallKind
  BY DEF LoginInv
<1>2. \A d \in calls : /\ P(d) \in CallKind /\ P(d).kind = d.kind /\ P(d).flow = d.flow
                       /\ P(d).answered = d.answered /\ P(d).seen = d.seen /\ (P(d).current => d.current)
  BY <1>1, PastIs
<1>3. /\ \/ calls' = calls \ {c}
         \/ calls' = {P(d) : d \in calls \ {c}}
      /\ polling' \in {polling, FALSE}
      /\ loginDialog' \in {loginDialog, [loginDialog EXCEPT !.responding = FALSE]}
  BY DEF CallFails, PollsOutdated
<1>4. loginDialog' \in DialogKind /\ loginDialog'.flow = loginDialog.flow
  BY <1>3 DEF LoginInv, DialogOK, DialogKind
<1>5. ASSUME NEW d \in calls \ {c}, NEW e \in calls \ {c}, d.kind = "start", e.kind = "start"
      PROVE  d = e
  BY <1>5 DEF LoginInv, DialogOK
<1> HIDE DEF P
<1>6. \A d \in calls' : \E e \in calls \ {c} :
        /\ d \in CallKind /\ d.kind = e.kind /\ d.flow = e.flow /\ d.answered = e.answered
        /\ d.seen = e.seen /\ (d.current => e.current)
  BY <1>1, <1>2, <1>3
<1>7. \A e \in calls \ {c} : \E d \in calls' : d.flow = e.flow /\ d.kind = e.kind
  BY <1>2, <1>3
<1>8. \A d, e \in calls' : d.kind = "start" /\ e.kind = "start" => d = e
  BY <1>2, <1>3, <1>5
<1>9. DialogOK'
  <2>1. \A d \in calls' : d.kind = "start" /\ d.current => loginDialog'.flow = NoFlowYet
    BY <1>4, <1>6 DEF LoginInv, DialogOK
  <2>2. polling' => loginDialog'.flow # NoFlowYet
    BY <1>3, <1>4 DEF LoginInv, DialogOK
  <2> QED BY <1>4, <1>8, <2>1, <2>2 DEF DialogOK
<1>10. RunningFlowsAreOwned'
  <2> SUFFICES ASSUME NEW f \in LoginFlow \ left', Running(flows[f]), loginDialog.flow # f
               PROVE  \E d \in calls' : d.flow = f /\ d.kind \in {"start", "cancel"}
    BY <1>0, <1>4 DEF RunningFlowsAreOwned
  <2>1. f \notin left
    BY <1>0
  <2>2. PICK d \in calls : d.flow = f /\ d.kind \in {"start", "cancel"}
    BY <2>1 DEF LoginInv, RunningFlowsAreOwned
  <2>3. d # c
    BY <1>0, <2>2, NoFlowYetAssumption
  <2> QED BY <1>7, <2>2, <2>3
<1> QED BY <1>0, <1>6, <1>9, <1>10, BrowserSteps

LEMMA LoginInvInductive == LoginSpec => []LoginInv
<1>1. LoginInit => LoginInv
  <2> SUFFICES ASSUME LoginInit PROVE LoginInv
    OBVIOUS
  <2>1. NewFlow \in FlowKind /\ FlowOK(NewFlow) /\ ~Running(NewFlow)
    BY DEF NewFlow, FlowKind, FlowOK, Running
  <2>2. OtherDialog \in DialogKind
    BY CallIs DEF OtherDialog, DialogKind
  <2>3. \A f \in LoginFlow : flows[f] = NewFlow
    BY DEF LoginInit
  <2>4. LoginKinds /\ FlowsInv
    BY <2>1 DEF LoginInit, LoginKinds, FlowsInv
  <2>5. DialogOK
    BY <2>2 DEF LoginInit, DialogOK
  <2> QED BY <2>1, <2>3, <2>4, <2>5 DEF LoginInit, LoginInv, RunningFlowsAreOwned
<1>2. LoginInv /\ [LoginNext]_loginVars => LoginInv'
  <2> SUFFICES ASSUME LoginInv, [LoginNext]_loginVars PROVE LoginInv'
    OBVIOUS
  <2>1. CASE UNCHANGED loginVars
    BY <2>1 DEF loginVars, LoginInv, LoginKinds, FlowsInv, DialogOK, CallOK, RunningFlowsAreOwned
  <2>2. CASE LoginNext
    BY <2>2, ProviderOK, TimersOK, UserOK, HandlesOK, StartReturnsOK, AnswerReturnsOK, CallFailsOK
    DEF LoginNext
  <2> QED BY <2>1, <2>2
<1> QED BY <1>1, <1>2, PTL DEF LoginSpec

\* A login waits only for the request that its running flow shows, is complete once its
\* listeners were told, and does not run when it has failed: in every run of the login service
\* and the dialog, with any number of flows, prompts and requests.
THEOREM LoginsAreTold == LoginSpec => []FlowsTellOfTheirLogin
<1>1. LoginInv => FlowsTellOfTheirLogin
  BY DEF LoginInv, FlowsInv, FlowOK, FlowsTellOfTheirLogin
<1> QED BY <1>1, LoginInvInductive, PTL

\* A flow that runs is shown or about to be shown or cancelled, unless its browser has left it.
THEOREM RunsAreOwned == LoginSpec => []RunningFlowsAreOwned
<1>1. LoginInv => RunningFlowsAreOwned
  BY DEF LoginInv
<1> QED BY <1>1, LoginInvInductive, PTL

-----------------------------------------------------------------------------
(* The unread projection: kinds *)

EventKind == [epoch : Nat, revision : Nat \ {0}]
AnswerKind == [epoch : Nat, revision : Nat]
ProjectionKind == [epoch : Nat, revision : Nat, holds : SUBSET Nat]

ClientKind ==
  [projection : {None} \cup ProjectionKind, status : Status, loop : {"idle", "running", "ending"},
   queued : BOOLEAN, anchored : BOOLEAN, failed : BOOLEAN]

NetKind ==
  [arrived : BOOLEAN, status : Status, moved : BOOLEAN, events : Seq(EventKind),
   overflowed : BOOLEAN, joined : BOOLEAN]

\* The catalog has got that far.
Reached(x) == x.epoch <= epoch /\ (x.epoch = epoch => x.revision <= durable)

\* Nothing that was broadcast is newer.
Covers(k) == Newest(sent) <= k

-----------------------------------------------------------------------------
(* The unread projection: what holds *)

FeedOK ==
  /\ epoch \in Nat /\ durable \in Nat /\ sent \subseteq 1..durable
  /\ sent # {} => \E k \in sent : \A j \in sent : j <= k
  /\ asked \in [Reader -> {None} \cup Nat] /\ reply = [r \in Reader |-> reply[r]]

\* A socket that the daemon has subscribed carries this epoch, up to what was broadcast last.
SocketOK ==
  /\ channel \in Seq(EventKind) /\ link \in {"down", "live", "dying"} /\ joined \in BOOLEAN
  /\ \A k \in DOMAIN channel : Reached(channel[k])
  /\ joined => link = "live"
  /\ ~joined /\ link # "dying" => channel = <<>>
  /\ joined => \A k \in DOMAIN channel : channel[k].epoch = epoch
  /\ joined /\ channel # <<>> => channel[Len(channel)].revision = Newest(sent)

ProjectionOK(p) == p # None => Reached(p) /\ p.holds = 1..p.revision

\* What c says of itself; a refresh may be wanted that is not begun yet.
ClientHolds(c, wanted) ==
  /\ c \in ClientKind /\ ProjectionOK(c.projection)
  /\ c.status = "loading" => c.projection = None /\ c.loop = "running"
  /\ c.loop # "running" /\ ~c.queued /\ c.status # "fresh" => wanted \/ c.failed \/ c = Fresh0
  /\ c.anchored => joined

\* A fresh projection that is anchored has what the socket no longer carries.
AnchorHolds(c) ==
  c.status = "fresh" /\ c.anchored =>
    /\ c.projection # None /\ c.projection.epoch = epoch
    /\ channel = <<>> => Covers(c.projection.revision)

\* An answer is as new as a projection that has not moved since its request o began, and with
\* the events kept and those the socket carries it makes up all that was broadcast.
AnswerHolds(o, answer, p) ==
  /\ answer \in AnswerKind /\ Reached(answer)
  /\ ~o.moved /\ p # None =>
       /\ p.epoch <= answer.epoch
       /\ p.epoch = answer.epoch => p.revision <= answer.revision
  /\ o.joined =>
       /\ answer.epoch = epoch
       /\ ~o.overflowed /\ channel = <<>> =>
            \/ Covers(answer.revision)
            \/ \E k \in DOMAIN o.events : o.events[k].revision = Newest(sent)

\* Every request that is under way, in n, beside the projection p.
NetHolds(n, p) ==
  /\ n \in [Reader -> {None} \cup NetKind]
  /\ \A r \in Reader : n[r] # None =>
       /\ \A k \in DOMAIN n[r].events : Reached(n[r].events[k])
       /\ n[r].joined => joined
       /\ n[r].arrived /\ asked[r] = None /\ reply[r] # Failed => AnswerHolds(n[r], reply[r], p)

ProjectionInv ==
  /\ FeedOK /\ SocketOK
  /\ ClientHolds(client, FALSE) /\ AnchorHolds(client) /\ NetHolds(net, client.projection)

\* What d shows is not older than what c shows.
Forward(c, d) ==
  c.projection # None /\ d.projection # None => ~Older(d.projection, c.projection)

-----------------------------------------------------------------------------
(* Numbers, and functions defined from one number to the next *)

\* A set of numbers that is not empty has a least one.
LEMMA LeastOf ==
  ASSUME NEW n \in Nat, NEW B \in SUBSET (0..n), B # {}
  PROVE  \E k \in B : \A j \in B : k <= j
<1> DEFINE Starts == {0..k : k \in B}
           O == StrictSubsetOrdering(0..n)
<1>1. Starts # {} /\ \A s \in Starts : s \in SUBSET (0..n) /\ \E k \in B : s = 0..k
  <2>1. PICK k \in B : TRUE
    OBVIOUS
  <2>2. 0..k \in Starts
    OBVIOUS
  <2>3. \A i \in B : i \in Nat /\ i <= n
    OBVIOUS
  <2>4. ASSUME NEW i \in B PROVE 0..i \subseteq 0..n
    BY <2>3
  <2>5. \A i \in B : 0..i \in SUBSET (0..n)
    BY <2>4
  <2> QED BY <2>2, <2>5
<1>2. Starts \subseteq FiniteSubsetsOf(0..n)
  <2>1. IsFiniteSet(0..n)
    BY FS_Interval
  <2> QED BY <1>1, <2>1, FS_Subset DEF FiniteSubsetsOf
<1>3. IsWellFoundedOn(O, FiniteSubsetsOf(0..n))
  BY FS_StrictSubsetOrderingWellFounded
<1>4. PICK s \in Starts : \A t \in Starts : ~ (<<t, s>> \in O)
  <2> HIDE DEF Starts, O
  <2> QED BY <1>1, <1>2, <1>3, WFMin
<1>5. PICK k \in B : s = 0..k
  BY <1>1
<1>6. ASSUME NEW j \in B, j < k PROVE FALSE
  <2>1. 0..j \in Starts /\ 0..j \subseteq s /\ k \in s /\ k \notin 0..j
    BY <1>5, <1>6
  <2>2. <<0..j, s>> \in O
    BY <1>1, <2>1 DEF StrictSubsetOrdering
  <2> QED BY <1>4, <2>1, <2>2
<1>7. \A j \in B : k <= j
  BY <1>6
<1> QED BY <1>7

\* A property that 0 has and each number passes on to the next, given as the set of its numbers.
LEMMA Counting ==
  ASSUME NEW n \in Nat, NEW G, 0 \in G, \A k \in 0..(n - 1) : k \in G => k + 1 \in G
  PROVE  \A k \in 0..n : k \in G
<1> SUFFICES ASSUME {k \in 0..n : k \notin G} # {} PROVE FALSE
  OBVIOUS
<1>1. PICK k \in {i \in 0..n : i \notin G} : \A j \in {i \in 0..n : i \notin G} : k <= j
  BY LeastOf
<1>2. k # 0 /\ k - 1 \in 0..(n - 1)
  BY <1>1
<1>3. k - 1 \in G
  BY <1>1, <1>2
<1> QED BY <1>1, <1>2, <1>3

\* f is defined from one number to the next, from a on.
Stepwise(step, n, T) == step \in [1..n -> [T -> T]]
DefinedBy(f, a, step, n, T) ==
  f \in [0..n -> T] /\ f[0] = a /\ \A k \in 1..n : f[k] = step[k][f[k - 1]]

\* A function may be defined that way.
LEMMA StepsDefine ==
  ASSUME NEW T, NEW a \in T, NEW n \in Nat, NEW step, Stepwise(step, n, T)
  PROVE  \E f : DefinedBy(f, a, step, n, T)
<1> DEFINE Defines(f, m) == f = [k \in 0..m |-> IF k = 0 THEN a ELSE step[k][f[k - 1]]]
           G == {m \in Nat : \E f \in [0..m -> T] : Defines(f, m)}
<1>0. step \in [1..n -> [T -> T]]
  BY DEF Stepwise
<1>1. 0 \in G
  <2>1. [k \in 0..0 |-> a] \in [0..0 -> T] /\ Defines([k \in 0..0 |-> a], 0)
    OBVIOUS
  <2> QED BY <2>1
<1>2. ASSUME NEW m \in 0..(n - 1), m \in G PROVE m + 1 \in G
  <2>1. PICK f \in [0..m -> T] : Defines(f, m)
    BY <1>2
  <2> DEFINE g == [k \in 0..(m + 1) |-> IF k <= m THEN f[k] ELSE step[k][f[m]]]
  <2>2. m \in 0..m /\ m + 1 \in 1..n /\ f[m] \in T /\ step[m + 1] \in [T -> T]
    BY <1>0
  <2>3. g \in [0..(m + 1) -> T]
    <3>1. \A k \in 0..(m + 1) : k <= m \/ k = m + 1
      OBVIOUS
    <3>2. \A k \in 0..(m + 1) : k <= m => k \in 0..m
      OBVIOUS
    <3> QED BY <2>2, <3>1, <3>2
  <2>4. \A k \in 0..(m + 1) : g[k] = IF k = 0 THEN a ELSE step[k][g[k - 1]]
    <3> TAKE k \in 0..(m + 1)
    <3>1. CASE k = 0
      BY <2>1, <3>1
    <3>2. CASE k # 0 /\ k <= m
      <4>1. k \in 0..m /\ k - 1 \in 0..m /\ k - 1 \in 0..(m + 1) /\ k - 1 <= m
        BY <3>2
      <4>2. f[k] = step[k][f[k - 1]]
        BY <2>1, <3>2, <4>1
      <4> QED BY <3>2, <4>1, <4>2
    <3>3. CASE k = m + 1
      <4>1. k # 0 /\ ~(k <= m) /\ k - 1 = m /\ m \in 0..(m + 1) /\ m <= m
        BY <3>3
      <4> QED BY <4>1
    <3> QED BY <3>1, <3>2, <3>3
  <2>5. Defines(g, m + 1)
    BY <2>4
  <2> HIDE DEF g, Defines
  <2> QED BY <2>3, <2>5
<1>3. \A k \in 0..n : k \in G
  <2> HIDE DEF G
  <2> QED BY <1>1, <1>2, Counting
<1>4. PICK f \in [0..n -> T] : Defines(f, n)
  BY <1>3
<1>5. 0 \in 0..n /\ \A k \in 1..n : k \in 0..n /\ k # 0
  OBVIOUS
<1> QED BY <1>4, <1>5 DEF DefinedBy

-----------------------------------------------------------------------------
(* Events, and snapshots with events on them *)

TransitionKind == [projection : {None} \cup ProjectionKind, status : Status, refresh : BOOLEAN]

LEMMA NoneIsNoProjection == None \notin ProjectionKind /\ None \notin Nat
BY NoneAssumption DEF ProjectionKind

LEMMA ContiguousIs ==
  ASSUME NEW p \in ProjectionKind, NEW s \in Status, NEW e \in EventKind,
         p.holds = 1..p.revision, e.revision = p.revision + 1,
         NEW t, t = Contiguous(p, s, e)
  PROVE  /\ t \in TransitionKind /\ t.projection \in ProjectionKind
         /\ t.projection.holds = 1..t.projection.revision
         /\ t.projection.epoch = e.epoch /\ t.projection.revision = e.revision
         /\ t.status = (IF s = "stale" THEN "stale" ELSE "fresh")
         /\ (t.refresh <=> t.status = "stale")
<1>1. p.revision \in Nat /\ e.revision \in Nat /\ e.epoch \in Nat
  BY DEF ProjectionKind, EventKind
<1>2. PICK q : q = [epoch |-> e.epoch, revision |-> e.revision, holds |-> p.holds \cup {e.revision}]
  OBVIOUS
<1>3. PICK u \in Status : u = IF s = "stale" THEN "stale" ELSE "fresh"
  BY DEF Status
<1>4. q.holds = 1..q.revision /\ q \in ProjectionKind /\ q.epoch = e.epoch /\ q.revision = e.revision
  BY <1>1, <1>2 DEF ProjectionKind
<1>5. PICK b \in BOOLEAN : b = (u = "stale")
  OBVIOUS
<1>6. t = [projection |-> q, status |-> u, refresh |-> b]
  BY <1>2, <1>3, <1>5 DEF Contiguous, Transition
<1>7. t \in TransitionKind /\ t.projection = q /\ t.status = u /\ t.refresh = b
  BY <1>4, <1>6 DEF TransitionKind
<1> QED BY <1>3, <1>4, <1>5, <1>7

\* What an event e makes of a projection p of status s.
AfterEvent(t, p, s, e) ==
  /\ t \in TransitionKind /\ t.projection \in ProjectionKind
  /\ t.projection.holds = 1..t.projection.revision
  /\ t.projection = p \/ (t.projection.epoch = e.epoch /\ t.projection.revision <= e.revision)
  /\ (t.refresh <=> t.status = "stale")
  /\ t.status = "loading" => s = "loading" /\ p # None
  /\ p # None /\ p.epoch = e.epoch => t.projection.epoch = e.epoch /\ p.revision <= t.projection.revision
  /\ t.status = "fresh" =>
       /\ t.projection.epoch = e.epoch /\ e.revision <= t.projection.revision
       /\ p # None => s # "stale" /\ p.epoch = e.epoch

LEMMA ApplyEventIs ==
  ASSUME NEW p \in {None} \cup ProjectionKind, NEW s \in Status, NEW e \in EventKind,
         p # None => p.holds = 1..p.revision
  PROVE  AfterEvent(ApplyEvent(p, s, e), p, s, e)
<1>0. e.epoch \in Nat /\ e.revision \in Nat \ {0} /\ {"fresh", "stale"} \subseteq Status
  BY DEF EventKind, Status
<1>1. PICK t : t = ApplyEvent(p, s, e)
  OBVIOUS
<1>2. CASE p = None \/ p.epoch # e.epoch
  <2>0. PICK o : o = Empty(e.epoch)
    OBVIOUS
  <2>1. o \in ProjectionKind /\ o.holds = 1..o.revision /\ o.revision = 0 /\ o.epoch = e.epoch
    BY <1>0, <2>0 DEF Empty, ProjectionKind
  <2>2. CASE e.revision = 1
    <3>0. PICK u \in {"fresh", "stale"} : u = IF p = None THEN "fresh" ELSE "stale"
      OBVIOUS
    <3>1. t = Contiguous(o, u, e)
      BY <1>1, <1>2, <2>0, <2>2, <3>0 DEF ApplyEvent
    <3>2. u \in Status /\ e.revision = o.revision + 1
      BY <1>0, <2>1, <2>2, <3>0
    <3>3. /\ t \in TransitionKind /\ t.projection \in ProjectionKind
          /\ t.projection.holds = 1..t.projection.revision
          /\ t.projection.epoch = e.epoch /\ t.projection.revision = e.revision
          /\ t.status = u /\ (t.refresh <=> t.status = "stale")
      <4>1. u = IF u = "stale" THEN "stale" ELSE "fresh"
        BY <3>0
      <4>2. o \in ProjectionKind /\ o.holds = 1..o.revision /\ u \in Status /\ e.revision = o.revision + 1
        BY <2>1, <3>2
      <4>3. /\ t \in TransitionKind /\ t.projection \in ProjectionKind
            /\ t.projection.holds = 1..t.projection.revision
            /\ t.projection.epoch = e.epoch /\ t.projection.revision = e.revision
            /\ t.status = (IF u = "stale" THEN "stale" ELSE "fresh") /\ (t.refresh <=> t.status = "stale")
        BY <3>1, <4>2, ContiguousIs
      <4> QED BY <4>1, <4>3
    <3>4. AfterEvent(t, p, s, e)
      BY <1>0, <1>2, <3>0, <3>3 DEF AfterEvent
    <3> QED BY <1>1, <3>4
  <2>3. CASE e.revision # 1
    <3>1. t = [projection |-> o, status |-> "stale", refresh |-> TRUE]
      BY <1>1, <1>2, <2>0, <2>3 DEF ApplyEvent, Transition
    <3>2. t \in TransitionKind /\ t.projection = o /\ t.status = "stale" /\ t.refresh
      BY <1>0, <2>1, <3>1 DEF TransitionKind
    <3>3. t.projection.epoch = e.epoch /\ t.projection.revision <= e.revision /\ t.status # "fresh"
      BY <1>0, <2>1, <3>2
    <3>4. t.projection \in ProjectionKind /\ t.projection.holds = 1..t.projection.revision
      BY <2>1, <3>2
    <3>5. (t.refresh <=> t.status = "stale") /\ t.status # "loading"
      BY <3>2
    <3>6. AfterEvent(t, p, s, e)
      BY <1>2, <3>2, <3>3, <3>4, <3>5 DEF AfterEvent
    <3> QED BY <1>1, <3>6
  <2> QED BY <2>2, <2>3
<1>3. CASE p # None /\ p.epoch = e.epoch
  <2>0. p \in ProjectionKind /\ p.revision \in Nat
    BY <1>3 DEF ProjectionKind
  <2>1. CASE e.revision <= p.revision
    <3>1. t = [projection |-> p, status |-> s, refresh |-> s = "stale"]
      BY <1>0, <1>1, <1>3, <2>0, <2>1 DEF ApplyEvent, Transition
    <3>2. t \in TransitionKind /\ t.projection = p /\ t.status = s /\ (t.refresh <=> s = "stale")
      BY <2>0, <3>1 DEF TransitionKind
    <3>3. AfterEvent(t, p, s, e)
      BY <1>0, <1>3, <2>0, <2>1, <3>2 DEF AfterEvent
    <3> QED BY <1>1, <3>3
  <2>2. CASE e.revision = p.revision + 1
    <3>1. t = Contiguous(p, s, e)
      BY <1>0, <1>1, <1>3, <2>0, <2>2 DEF ApplyEvent
    <3>2. /\ t \in TransitionKind /\ t.projection \in ProjectionKind
          /\ t.projection.holds = 1..t.projection.revision
          /\ t.projection.epoch = e.epoch /\ t.projection.revision = e.revision
          /\ t.status = (IF s = "stale" THEN "stale" ELSE "fresh") /\ (t.refresh <=> t.status = "stale")
      BY <1>3, <2>0, <2>2, <3>1, ContiguousIs
    <3>3. AfterEvent(t, p, s, e)
      BY <1>0, <1>3, <2>0, <2>2, <3>2 DEF AfterEvent
    <3> QED BY <1>1, <3>3
  <2>3. CASE ~(e.revision <= p.revision) /\ e.revision # p.revision + 1
    <3>1. t = [projection |-> p, status |-> "stale", refresh |-> TRUE]
      BY <1>1, <1>3, <2>3 DEF ApplyEvent, Transition
    <3>2. t \in TransitionKind /\ t.projection = p /\ t.status = "stale" /\ t.refresh
      BY <1>0, <2>0, <3>1 DEF TransitionKind
    <3>3. AfterEvent(t, p, s, e)
      BY <1>0, <1>3, <2>0, <3>2 DEF AfterEvent
    <3> QED BY <1>1, <3>3
  <2> QED BY <2>1, <2>2, <2>3
<1> QED BY <1>2, <1>3

\* What replaying may come to, on a snapshot and events of its epoch.
Replayed(snapshot, events) ==
  {t \in TransitionKind :
     /\ t.projection \in ProjectionKind /\ t.projection.holds = 1..t.projection.revision
     /\ t.projection.epoch = snapshot.epoch /\ snapshot.revision <= t.projection.revision
     /\ \/ t.projection.revision = snapshot.revision
        \/ \E k \in DOMAIN events : t.projection.revision <= events[k].revision
     /\ t.status # "loading" /\ (t.status = "stale" => t.refresh)}

LEMMA ReappliedIs ==
  ASSUME NEW snapshot \in AnswerKind, NEW events \in Seq(EventKind), NEW k \in DOMAIN events,
         events[k].epoch = snapshot.epoch, NEW t \in Replayed(snapshot, events)
  PROVE  LET next == Reapplied(t, events[k])
         IN  /\ next \in Replayed(snapshot, events)
             /\ next.status = "fresh" =>
                  /\ events[k].revision <= next.projection.revision
                  /\ t.status = "fresh" /\ t.projection.revision <= next.projection.revision
<1> DEFINE e == events[k]
           a == ApplyEvent(t.projection, t.status, e)
           next == Reapplied(t, e)
<1>1. e \in EventKind /\ t.projection \in ProjectionKind /\ t.projection # None /\ t.status \in Status
      /\ t.refresh \in BOOLEAN /\ t.projection.holds = 1..t.projection.revision
      /\ t.projection.epoch = e.epoch
  BY NoneIsNoProjection DEF Replayed, TransitionKind
<1>2. /\ a \in TransitionKind /\ a.projection \in ProjectionKind
      /\ a.projection.holds = 1..a.projection.revision
      /\ a.projection = t.projection \/ (a.projection.epoch = e.epoch /\ a.projection.revision <= e.revision)
      /\ (a.refresh <=> a.status = "stale")
      /\ a.status = "loading" => t.status = "loading"
      /\ a.projection.epoch = e.epoch /\ t.projection.revision <= a.projection.revision
      /\ a.status = "fresh" => e.revision <= a.projection.revision /\ t.status # "stale"
  <2> HIDE DEF e
  <2>1. AfterEvent(a, t.projection, t.status, e)
    BY <1>1, ApplyEventIs
  <2> HIDE DEF a
  <2> QED BY <1>1, <2>1 DEF AfterEvent
<1>3. next = [a EXCEPT !.refresh = t.refresh \/ a.refresh]
  BY DEF Reapplied
<1> HIDE DEF a, next
<1>4. /\ next \in TransitionKind /\ next.projection = a.projection /\ next.status = a.status
      /\ next.refresh = (t.refresh \/ a.refresh)
  BY <1>1, <1>2, <1>3 DEF TransitionKind
<1>5. t.projection.revision \in Nat /\ a.projection.revision \in Nat /\ snapshot.revision \in Nat
      /\ snapshot.revision <= t.projection.revision /\ t.status # "loading"
      /\ \/ t.projection.revision = snapshot.revision
         \/ \E i \in DOMAIN events : t.projection.revision <= events[i].revision
  BY <1>1, <1>2 DEF AnswerKind, ProjectionKind, Replayed
<1>6. snapshot.revision <= a.projection.revision
  BY <1>2, <1>5
<1>7. \/ a.projection.revision = snapshot.revision
      \/ \E i \in DOMAIN events : a.projection.revision <= events[i].revision
  BY <1>2, <1>5
<1>8. next \in Replayed(snapshot, events)
  BY <1>1, <1>2, <1>4, <1>5, <1>6, <1>7 DEF Replayed
<1>9. next.status = "fresh" => t.status = "fresh"
  BY <1>1, <1>2, <1>4, <1>5 DEF Status
<1> QED BY <1>2, <1>4, <1>8, <1>9 DEF next

Replays(f, start, n, events) ==
  f = [k \in 0..n |-> IF k = 0 THEN start ELSE Reapplied(f[k - 1], events[k])]

KeptIn(T, n, events) == \A t \in T, k \in 1..n : Reapplied(t, events[k]) \in T

\* What starts in T, and is kept there by each event, is defined.
LEMMA ReplayingIsDefined ==
  ASSUME NEW T, NEW start \in T, NEW n \in Nat, NEW events, KeptIn(T, n, events)
  PROVE  \E f : Replays(f, start, n, events)
<1> DEFINE step == [k \in 1..n |-> [t \in T |-> Reapplied(t, events[k])]]
<1>1. Stepwise(step, n, T)
  BY DEF Stepwise, KeptIn
<1>2. PICK f : f \in [0..n -> T] /\ f[0] = start /\ \A k \in 1..n : f[k] = step[k][f[k - 1]]
  <2> HIDE DEF step
  <2>1. \E f : DefinedBy(f, start, step, n, T)
    BY <1>1, StepsDefine
  <2> QED BY <2>1 DEF DefinedBy
<1>3. \A k \in 0..n : k # 0 => k \in 1..n /\ k - 1 \in 0..n
  OBVIOUS
<1>4. ASSUME NEW k \in 0..n, k # 0 PROVE f[k] = Reapplied(f[k - 1], events[k])
  <2>1. f[k] = step[k][f[k - 1]] /\ f[k - 1] \in T /\ k \in 1..n
    BY <1>2, <1>3, <1>4
  <2> QED BY <2>1
<1>5. Replays(f, start, n, events)
  BY <1>2, <1>4 DEF Replays
<1> QED BY <1>5

\* What replaying comes to.
LEMMA ReplayIs ==
  ASSUME NEW snapshot \in AnswerKind, NEW events \in Seq(EventKind),
         \A k \in DOMAIN events : events[k].epoch = snapshot.epoch
  PROVE  /\ Replay(snapshot, events) \in Replayed(snapshot, events)
         /\ Replay(snapshot, events).status = "fresh" =>
              \A k \in DOMAIN events : events[k].revision <= Replay(snapshot, events).projection.revision
<1> DEFINE n == Len(events)
           T == Replayed(snapshot, events)
           start == Transition([epoch |-> snapshot.epoch, revision |-> snapshot.revision,
                                holds |-> 1..snapshot.revision], "fresh")
           after == CHOOSE f : f = [k \in 0..n |-> IF k = 0 THEN start ELSE Reapplied(f[k - 1], events[k])]
<1>0. n \in Nat /\ DOMAIN events = 1..n /\ \A k \in 1..n : events[k] \in EventKind
  OBVIOUS
<1>1. start \in T
  BY DEF Transition, Replayed, TransitionKind, ProjectionKind, AnswerKind, Status
<1> HIDE DEF start
<1>2. KeptIn(T, n, events)
  BY <1>0, ReappliedIs DEF KeptIn
<1> HIDE DEF T, n
<1>7. Replay(snapshot, events) = after[n]
  BY DEF Replay, start, n
<1>8. /\ after[0] = start
      /\ \A k \in 0..(n - 1) : after[k + 1] = Reapplied(after[k], events[k + 1])
  <2>1. \E f : Replays(f, start, n, events)
    BY <1>0, <1>1, <1>2, ReplayingIsDefined
  <2>2. after = [k \in 0..n |-> IF k = 0 THEN start ELSE Reapplied(after[k - 1], events[k])]
    BY <2>1 DEF Replays
  <2> HIDE DEF after
  <2>3. \A k \in 0..(n - 1) : k + 1 \in 0..n /\ k + 1 # 0 /\ (k + 1) - 1 = k
    BY <1>0
  <2>4. 0 \in 0..n
    BY <1>0
  <2> QED BY <2>2, <2>3, <2>4
<1> HIDE DEF after
<1> DEFINE Good(k) == /\ after[k] \in T
                      /\ after[k].status = "fresh" =>
                           \A j \in 1..k : events[j].revision <= after[k].projection.revision
           G == {k \in 0..n : Good(k)}
<1>9. 0 \in G
  BY <1>0, <1>1, <1>8
<1>10. ASSUME NEW k \in 0..(n - 1), k \in G PROVE k + 1 \in G
  <2>1. k + 1 \in 1..n /\ k + 1 \in 0..n /\ \A j \in 1..(k + 1) : (j = k + 1 \/ j \in 1..k) /\ j \in 1..n
    BY <1>0
  <2>2. after[k] \in T /\ after[k + 1] = Reapplied(after[k], events[k + 1])
    BY <1>8, <1>10
  <2>3. /\ after[k + 1] \in T
        /\ after[k + 1].status = "fresh" =>
             /\ events[k + 1].revision <= after[k + 1].projection.revision
             /\ after[k].status = "fresh" /\ after[k].projection.revision <= after[k + 1].projection.revision
    BY <1>0, <2>1, <2>2, ReappliedIs DEF T
  <2>4. after[k].projection.revision \in Nat /\ after[k + 1].projection.revision \in Nat
    BY <2>2, <2>3 DEF T, Replayed, ProjectionKind
  <2>5. \A j \in 1..n : events[j].revision \in Nat
    BY <1>0 DEF EventKind
  <2>6. ASSUME after[k + 1].status = "fresh", NEW j \in 1..(k + 1)
        PROVE  events[j].revision <= after[k + 1].projection.revision
    <3>1. CASE j = k + 1
      BY <2>3, <2>6, <3>1
    <3>2. CASE j \in 1..k
      <4>1. events[j].revision <= after[k].projection.revision
        BY <1>10, <2>3, <2>6, <3>2
      <4> QED BY <2>1, <2>3, <2>4, <2>5, <2>6, <4>1
    <3> QED BY <2>1, <3>1, <3>2
  <2> QED BY <2>1, <2>3, <2>6
<1>11. n \in G
  <2> HIDE DEF G
  <2>1. \A k \in 0..n : k \in G
    BY <1>0, <1>9, <1>10, Counting
  <2> QED BY <1>0, <2>1
<1> QED BY <1>0, <1>7, <1>11 DEF T

-----------------------------------------------------------------------------
(* The unread projection: the parts of its steps *)

LEMMA NewestIs ==
  ASSUME FeedOK
  PROVE  Newest(sent) \in Nat /\ Newest(sent) <= durable /\ \A k \in sent : k <= Newest(sent)
<1>1. CASE sent = {}
  BY <1>1 DEF Newest, FeedOK
<1>2. CASE sent # {}
  <2>1. \E k \in sent : \A j \in sent : j <= k
    BY <1>2 DEF FeedOK
  <2>2. Newest(sent) \in sent /\ \A j \in sent : j <= Newest(sent)
    BY <1>2, <2>1 DEF Newest
  <2> HIDE DEF Newest
  <2>3. sent \subseteq 1..durable /\ durable \in Nat
    BY DEF FeedOK
  <2>4. Newest(sent) \in 1..durable
    BY <2>2, <2>3
  <2> QED BY <2>2, <2>3, <2>4
<1> QED BY <1>1, <1>2

\* What is said of a client and of requests depends on the catalog and the socket alone.
LEMMA SameWorld ==
  ASSUME UNCHANGED <<feed, joined, channel>>, NEW c, NEW w, NEW n, NEW p
  PROVE  /\ ClientHolds(c, w) => ClientHolds(c, w)'
         /\ AnchorHolds(c) => AnchorHolds(c)'
         /\ NetHolds(n, p) => NetHolds(n, p)'
         /\ FeedOK => FeedOK'
BY DEF feed, ClientHolds, ProjectionOK, AnchorHolds, NetHolds, AnswerHolds, Reached, Covers, FeedOK

LEMMA SameSocket ==
  ASSUME UNCHANGED <<feed, link, joined, channel>>
  PROVE  SocketOK => SocketOK'
BY DEF feed, SocketOK, Reached

\* A request is over.
LEMMA WithoutOK ==
  ASSUME NEW n, NEW p, NEW r \in Reader, NetHolds(n, p)'
  PROVE  NetHolds([n EXCEPT ![r] = None], p)'
BY DEF NetHolds, AnswerHolds

\* Requests are told that the projection has moved.
LEMMA MovedOK ==
  ASSUME NEW n, NEW c, NEW d, NetHolds(n, c.projection)'
  PROVE  NetHolds(Moved(n, c, d), d.projection)'
<1>1. PICK m : m = Moved(n, c, d)
  OBVIOUS
<1>2. n \in [Reader -> {None} \cup NetKind]
  BY DEF NetHolds
<1>3. /\ m = [r \in Reader |-> m[r]]
      /\ \A r \in Reader :
           \/ m[r] = n[r] /\ (n[r] = None \/ c.projection = d.projection)
           \/ m[r] = [n[r] EXCEPT !.moved = TRUE] /\ n[r] # None
  BY <1>1 DEF Moved
<1>4. ASSUME NEW r \in Reader, n[r] # None, m[r] = [n[r] EXCEPT !.moved = TRUE]
      PROVE  /\ m[r] \in NetKind /\ m[r].moved /\ m[r].events = n[r].events
             /\ m[r].joined = n[r].joined /\ m[r].arrived = n[r].arrived
             /\ m[r].overflowed = n[r].overflowed
  BY <1>2, <1>4 DEF NetKind
<1>5. \A r \in Reader : m[r] \in {None} \cup NetKind
  BY <1>2, <1>3, <1>4
<1>6. m \in [Reader -> {None} \cup NetKind]
  BY <1>3, <1>5
<1>7. ASSUME NEW r \in Reader, m[r] # None
      PROVE  /\ \A k \in DOMAIN m[r].events : Reached(m[r].events[k])'
             /\ m[r].joined => joined'
             /\ m[r].arrived /\ asked'[r] = None /\ reply'[r] # Failed => AnswerHolds(m[r], reply[r], d.projection)'
  <2>1. n[r] # None
    BY <1>3, <1>7
  <2>2. CASE m[r] = n[r] /\ c.projection = d.projection
    BY <2>1, <2>2 DEF NetHolds
  <2>3. CASE m[r] = [n[r] EXCEPT !.moved = TRUE]
    BY <1>4, <2>1, <2>3 DEF NetHolds, AnswerHolds
  <2> QED BY <1>3, <2>1, <2>2, <2>3
<1>8. NetHolds(m, d.projection)'
  BY <1>6, <1>7 DEF NetHolds
<1> QED BY <1>1, <1>8

LEMMA RequestIs ==
  ASSUME NEW s \in Status
  PROVE  /\ Request(s) \in NetKind /\ ~Request(s).arrived /\ ~Request(s).joined
         /\ DOMAIN Request(s).events = {}
BY DEF Request, NetKind

\* A request begins.
LEMMA BegunOK ==
  ASSUME NEW n, NEW p, NEW r \in Reader, NEW s \in Status, NetHolds(n, p)'
  PROVE  NetHolds([n EXCEPT ![r] = Request(s)], p)'
<1>1. PICK o : o = Request(s)
  OBVIOUS
<1>2. o \in NetKind /\ ~o.arrived /\ ~o.joined /\ DOMAIN o.events = {}
  BY <1>1, RequestIs
<1>3. PICK m : m = [n EXCEPT ![r] = o]
  OBVIOUS
<1>4. /\ n \in [Reader -> {None} \cup NetKind] /\ m \in [Reader -> {None} \cup NetKind]
      /\ m[r] = o /\ \A x \in Reader : x # r => m[x] = n[x]
  BY <1>2, <1>3 DEF NetHolds
<1>5. NetHolds(m, p)'
  BY <1>2, <1>4 DEF NetHolds
<1> QED BY <1>1, <1>3, <1>5

\* What the client holds after a step that leaves it at c and n.
Settled(c, n) ==
  /\ client'.projection = c.projection
  /\ client'.status = "fresh" => c.status = "fresh"
  /\ ClientHolds(client, FALSE)' /\ AnchorHolds(client)' /\ NetHolds(net, client.projection)'

LEMMA StartRoundIs ==
  ASSUME NEW c \in ClientKind
  PROVE  /\ StartRound(c) \in ClientKind /\ StartRound(c).projection = c.projection
         /\ StartRound(c).loop = "running" /\ StartRound(c).status # "fresh"
         /\ StartRound(c).status = "loading" => c.projection = None
         /\ StartRound(c).anchored = c.anchored
BY DEF StartRound, ClientKind, Status

LEMMA ContinueOK ==
  ASSUME NEW c, NEW n, NEW w \in BOOLEAN, Continue(c, n, w),
         ClientHolds(c, w)', AnchorHolds(c)', NetHolds(n, c.projection)'
  PROVE  Settled(c, n)
<1>0. c \in ClientKind /\ c.status \in Status
  BY DEF ClientHolds, ClientKind
<1>1. CASE ~w
  BY <1>1 DEF Continue, Settled, ClientHolds, AnchorHolds
<1>2. CASE w /\ c.loop = "idle"
  <2>1. client' = StartRound(c) /\ net' = [n EXCEPT ![Get] = Request(c.status)]
    BY <1>2 DEF Continue, RefreshedClient, RefreshedNet
  <2>2. NetHolds(net, c.projection)'
    BY <1>0, <2>1, BegunOK, GetAssumption
  <2>3. PICK d : d = StartRound(c)
    OBVIOUS
  <2>4. /\ d \in ClientKind /\ d.projection = c.projection /\ d.loop = "running" /\ d.status # "fresh"
        /\ d.status = "loading" => c.projection = None
        /\ d.anchored = c.anchored
    BY <1>0, <2>3, StartRoundIs
  <2>5. ClientHolds(d, FALSE)' /\ AnchorHolds(d)'
    BY <2>4 DEF ClientHolds, AnchorHolds
  <2> QED BY <2>1, <2>2, <2>3, <2>4, <2>5 DEF Settled
<1>3. CASE w /\ c.loop # "idle"
  <2>1. client' = [c EXCEPT !.queued = TRUE] /\ net' = n
    BY <1>3 DEF Continue, RefreshedClient, RefreshedNet
  <2>2. PICK d : d = [c EXCEPT !.queued = TRUE]
    OBVIOUS
  <2>3. /\ d \in ClientKind /\ d.projection = c.projection /\ d.loop = c.loop /\ d.status = c.status
        /\ d.anchored = c.anchored /\ d.queued
    BY <1>0, <2>2 DEF ClientKind
  <2>4. ClientHolds(d, FALSE)' /\ AnchorHolds(d)'
    BY <2>3 DEF ClientHolds, AnchorHolds
  <2> QED BY <2>1, <2>2, <2>3, <2>4 DEF Settled
<1> QED BY <1>1, <1>2, <1>3

LEMMA NextRoundOK ==
  ASSUME NEW c, NEW n, NextRound(c, n), ClientHolds(c, TRUE)', AnchorHolds(c)',
         NetHolds(n, c.projection)', c.status # "loading",
         ~c.queued /\ c.status # "fresh" => c.failed
  PROVE  Settled(c, n)
<1>0. c \in ClientKind /\ c.status \in Status
  BY DEF ClientHolds, ClientKind
<1>1. CASE c.queued
  <2>1. client' = StartRound(c) /\ net' = [n EXCEPT ![Get] = Request(c.status)]
    BY <1>1 DEF NextRound
  <2>2. NetHolds(net, c.projection)'
    BY <1>0, <2>1, BegunOK, GetAssumption
  <2>3. PICK d : d = StartRound(c)
    OBVIOUS
  <2>4. /\ d \in ClientKind /\ d.projection = c.projection /\ d.loop = "running" /\ d.status # "fresh"
        /\ d.status = "loading" => c.projection = None
        /\ d.anchored = c.anchored
    BY <1>0, <2>3, StartRoundIs
  <2>5. ClientHolds(d, FALSE)' /\ AnchorHolds(d)'
    BY <2>4 DEF ClientHolds, AnchorHolds
  <2> QED BY <2>1, <2>2, <2>3, <2>4, <2>5 DEF Settled
<1>2. CASE ~c.queued
  <2>1. client' = [c EXCEPT !.loop = "ending"] /\ net' = n
    BY <1>2 DEF NextRound
  <2>2. PICK d : d = [c EXCEPT !.loop = "ending"]
    OBVIOUS
  <2>3. /\ d \in ClientKind /\ d.projection = c.projection /\ d.status = c.status
        /\ d.anchored = c.anchored /\ d.queued = c.queued /\ d.failed = c.failed
    BY <1>0, <2>2 DEF ClientKind
  <2>4. ClientHolds(d, FALSE)' /\ AnchorHolds(d)'
    BY <1>2, <2>3 DEF ClientHolds, AnchorHolds
  <2> QED BY <2>1, <2>2, <2>3, <2>4 DEF Settled
<1> QED BY <1>1, <1>2

\* An answer makes the client newer, stale, or nothing else.
LEMMA AppliedOK ==
  ASSUME ProjectionInv, NEW r \in Reader, Returned(r), NEW a, a = Applied(client, net[r], reply[r])
  PROVE  /\ a.refresh \in BOOLEAN
         /\ ClientHolds(a.client, a.refresh) /\ AnchorHolds(a.client) /\ Forward(client, a.client)
         /\ a.client.status # "loading" /\ (a.client.status = "stale" => a.refresh)
         /\ a.client.loop = client.loop /\ a.client.queued = client.queued
         /\ a.client.failed = client.failed
         /\ ~a.refresh => ~Older(a.client.projection, reply[r])
<1>1. PICK o : o = net[r]
  OBVIOUS
<1>2. PICK s : s = reply[r]
  OBVIOUS
<1>3. PICK c : c = client
  OBVIOUS
<1>4. o # None /\ o.arrived /\ asked[r] = None /\ s # Failed
  BY <1>1, <1>2 DEF Returned, Over
<1>5. /\ o \in NetKind /\ AnswerHolds(o, s, c.projection)
      /\ \A k \in DOMAIN o.events : Reached(o.events[k])
      /\ o.joined => joined
  BY <1>1, <1>2, <1>3, <1>4 DEF ProjectionInv, NetHolds
<1>6. /\ s \in AnswerKind /\ Reached(s)
      /\ ~o.moved /\ c.projection # None =>
           /\ c.projection.epoch <= s.epoch
           /\ c.projection.epoch = s.epoch => c.projection.revision <= s.revision
      /\ o.joined =>
           /\ s.epoch = epoch
           /\ ~o.overflowed /\ channel = <<>> =>
                Covers(s.revision) \/ \E k \in DOMAIN o.events : o.events[k].revision = Newest(sent)
  BY <1>5 DEF AnswerHolds
<1>7. /\ ClientHolds(c, FALSE) /\ AnchorHolds(c) /\ c \in ClientKind
      /\ c.status = "loading" => c.projection = None
      /\ c.anchored => joined
  BY <1>3 DEF ProjectionInv, ClientHolds
<1>8. s.epoch \in Nat /\ s.revision \in Nat /\ o.events \in Seq(EventKind) /\ o.moved \in BOOLEAN
      /\ o.joined \in BOOLEAN /\ epoch \in Nat /\ durable \in Nat /\ c.status \in Status
      /\ c.projection \in {None} \cup ProjectionKind
  BY <1>5, <1>6, <1>7 DEF AnswerKind, NetKind, ProjectionInv, FeedOK, ClientKind
<1>9. CASE Ambiguous(c, o, s)
  <2>1. PICK d : d = [c EXCEPT !.status = "stale"]
    OBVIOUS
  <2>5. PICK b \in BOOLEAN : b = TRUE
    OBVIOUS
  <2>2. a = [client |-> d, refresh |-> b]
    BY <1>1, <1>2, <1>3, <1>9, <2>1, <2>5 DEF Applied
  <2>3. /\ d \in ClientKind /\ d.projection = c.projection /\ d.status = "stale" /\ d.loop = c.loop
        /\ d.queued = c.queued /\ d.failed = c.failed /\ d.anchored = c.anchored
    BY <1>7, <2>1 DEF ClientKind, Status
  <2>4. ClientHolds(d, b) /\ AnchorHolds(d) /\ Forward(c, d)
    BY <1>7, <1>8, <2>3, <2>5 DEF ClientHolds, AnchorHolds, Forward, Older, ProjectionKind
  <2> QED BY <1>3, <2>2, <2>3, <2>4, <2>5
<1>10. CASE ~Ambiguous(c, o, s)
  <2>1. PICK t : t = Replay(s, o.events)
    OBVIOUS
  <2>2. /\ \A k \in DOMAIN o.events : o.events[k].epoch = s.epoch
        /\ ~o.overflowed
        /\ o.moved /\ c.projection # None => c.projection.epoch = s.epoch
    BY <1>10 DEF Ambiguous
  <2>3. t \in Replayed(s, o.events)
        /\ (t.status = "fresh" => \A k \in DOMAIN o.events : o.events[k].revision <= t.projection.revision)
    BY <1>6, <1>8, <2>1, <2>2, ReplayIs
  <2>4. PICK p : p = t.projection
    OBVIOUS
  <2>5. /\ p \in ProjectionKind /\ p.holds = 1..p.revision /\ p.epoch = s.epoch /\ s.revision <= p.revision
        /\ p.revision = s.revision \/ \E k \in DOMAIN o.events : p.revision <= o.events[k].revision
        /\ t.status \in {"fresh", "stale"} /\ t.refresh \in BOOLEAN /\ (t.status = "stale" => t.refresh)
        /\ p.epoch \in Nat /\ p.revision \in Nat
    BY <2>3, <2>4 DEF Replayed, TransitionKind, Status, ProjectionKind
  <2>6. Reached(p)
    <3>1. \A k \in DOMAIN o.events : o.events[k].revision \in Nat
      <4>1. PICK es \in Seq(EventKind) : es = o.events
        BY <1>8
      <4>2. \A k \in DOMAIN es : es[k] \in EventKind
        OBVIOUS
      <4> QED BY <4>1, <4>2 DEF EventKind
    <3> QED BY <1>5, <1>6, <1>8, <2>2, <2>5, <3>1 DEF Reached
  <2>7. CASE Superseded(c, p)
    <3>1. c.projection # None /\ c.projection.epoch = p.epoch /\ c.projection.revision > p.revision
      BY <2>7 DEF Superseded
    <3>2. c.projection.revision \in Nat
      BY <1>8, <3>1 DEF ProjectionKind
    <3>3. o.moved
      BY <1>6, <1>8, <2>5, <3>1, <3>2
    <3>4. PICK b \in BOOLEAN : b = (t.refresh \/ c.status = "stale")
      BY <2>5
    <3>5. a = [client |-> c, refresh |-> b]
      BY <1>1, <1>2, <1>3, <1>10, <2>1, <2>4, <2>7, <3>3, <3>4 DEF Applied
    <3>6. c.status # "loading" /\ (c.status = "stale" => b)
      BY <1>7, <3>1, <3>4
    <3>7. ClientHolds(c, b)
      BY <1>7 DEF ClientHolds
    <3>8. Forward(c, c)
      BY <1>8, <3>1, <3>2 DEF Forward, Older, ProjectionKind
    <3>9. ~Older(c.projection, s)
      BY <1>8, <2>5, <3>1, <3>2 DEF Older
    <3> QED BY <1>2, <1>3, <1>7, <3>4, <3>5, <3>6, <3>7, <3>8, <3>9
  <2>8. CASE ~Superseded(c, p)
    <3>1. PICK d : d = [Install(c, p, t.status) EXCEPT !.anchored = o.joined]
      OBVIOUS
    <3>2. a = [client |-> d, refresh |-> t.refresh]
      BY <1>1, <1>2, <1>3, <1>10, <2>1, <2>4, <2>8, <3>1 DEF Applied
    <3>3. /\ d \in ClientKind /\ d.projection = p /\ d.status = t.status /\ d.loop = c.loop
          /\ d.queued = c.queued /\ d.failed = c.failed /\ d.anchored = o.joined
      BY <1>7, <1>8, <2>5, <3>1 DEF Install, ClientKind, Status
    <3>4. ProjectionOK(d.projection)
      BY <2>5, <2>6, <3>3 DEF ProjectionOK
    <3>5. ClientHolds(d, t.refresh)
      BY <1>5, <2>5, <3>3, <3>4 DEF ClientHolds
    <3>6. AnchorHolds(d)
      <4>1. SUFFICES ASSUME t.status = "fresh", o.joined
                     PROVE  p.epoch = epoch /\ (channel = <<>> => Covers(p.revision))
        BY <2>5, <3>3, NoneIsNoProjection DEF AnchorHolds
      <4>2. p.epoch = epoch
        BY <1>6, <2>5, <4>1
      <4>3. Newest(sent) \in Nat
        BY NewestIs DEF ProjectionInv
      <4>4. ASSUME channel = <<>> PROVE Covers(p.revision)
        <5>1. CASE Covers(s.revision)
          BY <1>8, <2>5, <4>3, <5>1 DEF Covers
        <5>2. CASE \E k \in DOMAIN o.events : o.events[k].revision = Newest(sent)
          BY <2>3, <2>4, <4>1, <5>2 DEF Covers
        <5> QED BY <1>6, <2>2, <4>1, <4>4, <5>1, <5>2
      <4> QED BY <4>2, <4>4
    <3>7. Forward(c, d)
      <4>1. SUFFICES ASSUME c.projection # None
                     PROVE  \/ p.epoch > c.projection.epoch
                            \/ p.epoch = c.projection.epoch /\ p.revision >= c.projection.revision
        BY <1>8, <2>5, <3>3 DEF Forward, Older, ProjectionKind
      <4>2. c.projection.epoch \in Nat /\ c.projection.revision \in Nat
        BY <1>8, <4>1 DEF ProjectionKind
      <4>3. c.projection.epoch = p.epoch => c.projection.revision <= p.revision
        BY <2>5, <2>8, <4>1, <4>2 DEF Superseded
      <4>4. c.projection.epoch <= p.epoch
        BY <1>6, <1>8, <2>2, <2>5, <4>1, <4>2
      <4> QED BY <2>5, <4>2, <4>3, <4>4
    <3>8. ~Older(d.projection, s)
      BY <1>8, <2>5, <3>3 DEF Older
    <3> QED BY <1>2, <1>3, <2>5, <3>2, <3>3, <3>5, <3>6, <3>7, <3>8
  <2> QED BY <2>7, <2>8
<1> QED BY <1>9, <1>10

-----------------------------------------------------------------------------
(* The unread projection: its steps *)

\* A step of the client that leaves the catalog and the socket alone.
LEMMA ClientStepOK ==
  ASSUME ProjectionInv, UNCHANGED <<feed, link, joined, channel>>, NEW c, NEW n, Settled(c, n)
  PROVE  ProjectionInv'
<1>1. FeedOK' /\ SocketOK'
  BY SameWorld, SameSocket DEF ProjectionInv
<1>2. ClientHolds(client, FALSE)' /\ AnchorHolds(client)' /\ NetHolds(net, client.projection)'
  BY DEF Settled
<1> QED BY <1>1, <1>2 DEF ProjectionInv

LEMMA SnapshotArrivesOK == ASSUME ProjectionInv, SnapshotArrives PROVE ProjectionInv'
<1>1. PICK a : a = Applied(client, net[Get], reply[Get])
  OBVIOUS
<1>2. PICK c : c = [a.client EXCEPT !.queued = client.queued \/ a.refresh, !.failed = FALSE]
  OBVIOUS
<1>3. PICK n : n = [net EXCEPT ![Get] = None]
  OBVIOUS
<1>4. /\ Returned(Get) /\ NextRound(c, Moved(n, client, c)) /\ UNCHANGED feed /\ UNCHANGED socket
  BY <1>1, <1>2, <1>3 DEF SnapshotArrives
<1>5. UNCHANGED <<feed, link, joined, channel>>
  BY <1>4 DEF socket
<1>6. /\ a.refresh \in BOOLEAN
      /\ ClientHolds(a.client, a.refresh) /\ AnchorHolds(a.client) /\ Forward(client, a.client)
      /\ a.client.status # "loading" /\ (a.client.status = "stale" => a.refresh)
  BY <1>1, <1>4, AppliedOK, GetAssumption
<1>7. PICK q \in BOOLEAN : q = (client.queued \/ a.refresh)
  OBVIOUS
<1>8. a.client \in ClientKind /\ client \in ClientKind
  BY <1>6 DEF ClientHolds, ProjectionInv
<1>9. /\ c \in ClientKind /\ c.projection = a.client.projection /\ c.status = a.client.status
      /\ c.loop = a.client.loop /\ c.queued = q /\ c.anchored = a.client.anchored /\ c.failed = FALSE
  BY <1>2, <1>7, <1>8 DEF ClientKind
<1>10. c.status \in {"fresh", "stale"}
  BY <1>6, <1>8, <1>9 DEF ClientKind, Status
<1>11. ~c.queued => c.status = "fresh"
  BY <1>6, <1>7, <1>9, <1>10
<1>12. ClientHolds(c, TRUE) /\ AnchorHolds(c)
  BY <1>6, <1>9, <1>10 DEF ClientHolds, AnchorHolds
<1>13. ClientHolds(c, TRUE)' /\ AnchorHolds(c)'
  BY <1>5, <1>12, SameWorld
<1>14. PICK p : p = client.projection
  OBVIOUS
<1>15. PICK m : m = net
  OBVIOUS
<1>16. NetHolds(m, p)'
  BY <1>5, <1>14, <1>15, SameWorld DEF ProjectionInv
<1>17. PICK d : d = client
  OBVIOUS
<1>18. NetHolds(Moved(n, d, c), c.projection)'
  <2>1. NetHolds(n, p)'
    BY <1>3, <1>15, <1>16, WithoutOK, GetAssumption
  <2> QED BY <1>14, <1>17, <2>1, MovedOK
<1>20. NextRound(c, Moved(n, d, c))
  BY <1>4, <1>17
<1>21. Settled(c, Moved(n, d, c))
  BY <1>10, <1>11, <1>13, <1>18, <1>20, NextRoundOK
<1> QED BY <1>5, <1>21, ClientStepOK

LEMMA RefreshFailsOK == ASSUME ProjectionInv, RefreshFails PROVE ProjectionInv'
<1>1. PICK c : c = [client EXCEPT !.status = "stale", !.failed = TRUE]
  OBVIOUS
<1>2. PICK n : n = [net EXCEPT ![Get] = None]
  OBVIOUS
<1>3. NextRound(c, n) /\ UNCHANGED <<feed, link, joined, channel>>
  BY <1>1, <1>2 DEF RefreshFails, socket
<1>4. ClientHolds(client, FALSE) /\ client \in ClientKind
  BY DEF ProjectionInv, ClientHolds
<1>5. /\ c \in ClientKind /\ c.projection = client.projection /\ c.status = "stale" /\ c.failed = TRUE
      /\ c.anchored = client.anchored
  BY <1>1, <1>4 DEF ClientKind, Status
<1>6. ClientHolds(c, TRUE) /\ AnchorHolds(c)
  BY <1>4, <1>5 DEF ClientHolds, AnchorHolds
<1>7. PICK m : m = net
  OBVIOUS
<1>8. NetHolds(m, c.projection)'
  BY <1>3, <1>5, <1>7, SameWorld DEF ProjectionInv
<1>9. NetHolds(n, c.projection)'
  BY <1>2, <1>7, <1>8, WithoutOK, GetAssumption
<1>10. Settled(c, n)
  <2>1. ClientHolds(c, TRUE)' /\ AnchorHolds(c)'
    BY <1>3, <1>6, SameWorld
  <2>2. c.status # "loading" /\ c.failed
    BY <1>5
  <2> QED BY <1>3, <1>9, <2>1, <2>2, NextRoundOK
<1> QED BY <1>3, <1>10, ClientStepOK

\* Going on from c without a change of the projection.
LEMMA ContinueSameOK ==
  ASSUME ProjectionInv, UNCHANGED <<feed, link, joined, channel>>, NEW c, NEW w \in BOOLEAN,
         Continue(c, net, w), ClientHolds(c, w), AnchorHolds(c), c.projection = client.projection
  PROVE  ProjectionInv'
<1>1. PICK n : n = net
  OBVIOUS
<1>2. NetHolds(n, c.projection)'
  BY <1>1, SameWorld DEF ProjectionInv
<1>3. ClientHolds(c, w)' /\ AnchorHolds(c)'
  BY SameWorld
<1>4. Settled(c, n)
  BY <1>1, <1>2, <1>3, ContinueOK
<1> QED BY <1>4, ClientStepOK

LEMMA LoopSettledOK == ASSUME ProjectionInv, LoopSettled PROVE ProjectionInv'
<1>1. PICK c : c = [client EXCEPT !.loop = "idle", !.queued = FALSE]
  OBVIOUS
<1>2. PICK w : w = client.queued
  OBVIOUS
<1>3. Continue(c, net, w) /\ client.loop = "ending" /\ UNCHANGED <<feed, link, joined, channel>>
  BY <1>1, <1>2 DEF LoopSettled, socket
<1>4. ClientHolds(client, FALSE) /\ client \in ClientKind /\ AnchorHolds(client)
  BY DEF ProjectionInv, ClientHolds
<1>5. /\ c \in ClientKind /\ c.projection = client.projection /\ c.status = client.status
      /\ c.failed = client.failed /\ c.anchored = client.anchored /\ c.loop = "idle" /\ w \in BOOLEAN
  BY <1>1, <1>2, <1>4 DEF ClientKind
<1>6. client # Fresh0
  BY <1>3 DEF Fresh0
<1>7. ClientHolds(c, w) /\ AnchorHolds(c)
  BY <1>2, <1>3, <1>4, <1>5, <1>6 DEF ClientHolds, AnchorHolds
<1> QED BY <1>3, <1>5, <1>7, ContinueSameOK

\* A refresh is asked for.
LEMMA RefreshOK ==
  ASSUME ProjectionInv, UNCHANGED <<feed, link, joined, channel>>, Continue(client, net, TRUE)
  PROVE  ProjectionInv'
<1>1. PICK c : c = client
  OBVIOUS
<1>2. PICK w \in BOOLEAN : w = TRUE
  OBVIOUS
<1>3. ClientHolds(c, w) /\ AnchorHolds(c)
  BY <1>1, <1>2 DEF ProjectionInv, ClientHolds
<1>4. Continue(c, net, w)
  BY <1>1, <1>2
<1> QED BY <1>1, <1>3, <1>4, ContinueSameOK

LEMMA WritesOK ==
  ASSUME ProjectionInv, NEW r \in Reader, Write(r) \/ WriteReturns(r) \/ WriteFails(r)
  PROVE  ProjectionInv'
<1>0. UNCHANGED <<feed, link, joined, channel>>
  BY DEF Write, WriteReturns, WriteFails, socket
<1>1. PICK m : m = net
  OBVIOUS
<1>2. PICK d : d = client
  OBVIOUS
<1>3. NetHolds(m, d.projection)' /\ ClientHolds(d, FALSE)' /\ AnchorHolds(d)'
  BY <1>0, <1>1, <1>2, SameWorld DEF ProjectionInv
<1>4. d \in ClientKind /\ d.status \in Status
  BY <1>2 DEF ProjectionInv, ClientHolds, ClientKind
<1>5. ASSUME client' = client, NetHolds(net, d.projection)' PROVE ProjectionInv'
  <2>1. Settled(d, net)
    BY <1>2, <1>3, <1>5 DEF Settled
  <2> QED BY <1>0, <2>1, ClientStepOK
<1>6. CASE Write(r)
  <2>1. net' = [m EXCEPT ![r] = Request(d.status)] /\ client' = client
    BY <1>1, <1>2, <1>6 DEF Write
  <2> QED BY <1>3, <1>4, <1>5, <2>1, BegunOK
<1>7. CASE WriteFails(r)
  <2>1. net' = [m EXCEPT ![r] = None] /\ client' = client
    BY <1>1, <1>7 DEF WriteFails
  <2> QED BY <1>3, <1>5, <2>1, WithoutOK
<1>8. CASE WriteReturns(r)
  <2>1. PICK a : a = Applied(client, net[r], reply[r])
    OBVIOUS
  <2>2. PICK c : c = a.client
    OBVIOUS
  <2>3. PICK n : n = [net EXCEPT ![r] = None]
    OBVIOUS
  <2>4. PICK w : w = a.refresh
    OBVIOUS
  <2>5. Returned(r) /\ Continue(c, Moved(n, d, c), w)
    BY <1>2, <1>8, <2>1, <2>2, <2>3, <2>4 DEF WriteReturns
  <2>6. w \in BOOLEAN /\ ClientHolds(c, w) /\ AnchorHolds(c)
    BY <2>1, <2>2, <2>4, <2>5, AppliedOK
  <2>7. NetHolds(Moved(n, d, c), c.projection)'
    BY <1>1, <1>3, <2>3, WithoutOK, MovedOK
  <2>8. Settled(c, Moved(n, d, c))
    BY <1>0, <2>5, <2>6, <2>7, SameWorld, ContinueOK
  <2> QED BY <1>0, <2>8, ClientStepOK
<1> QED BY <1>6, <1>7, <1>8

LEMMA RecordedIs ==
  ASSUME NEW o \in NetKind, NEW e \in EventKind, NEW x, x = Recorded(o, e)
  PROVE  /\ x \in NetKind /\ x.arrived = o.arrived /\ x.moved = o.moved /\ x.joined = o.joined
         /\ x.status = o.status
         /\ ~x.overflowed => ~o.overflowed /\ x.events = Append(o.events, e)
         /\ x.events \in {o.events, <<>>, Append(o.events, e)}
<1>1. o.events \in Seq(EventKind) /\ o.overflowed \in BOOLEAN /\ Len(o.events) \in Nat
  BY DEF NetKind
<1>2. CASE o.overflowed
  BY <1>1, <1>2 DEF Recorded
<1>3. CASE ~o.overflowed /\ Len(o.events) >= MaxBuffered
  <2>1. x = [o EXCEPT !.events = <<>>, !.overflowed = TRUE]
    BY <1>1, <1>3, BufferAssumption DEF Recorded
  <2>2. <<>> \in Seq(EventKind)
    OBVIOUS
  <2> QED BY <2>1, <2>2 DEF NetKind
<1>4. CASE ~o.overflowed /\ Len(o.events) < MaxBuffered
  <2>1. PICK es : es = Append(o.events, e)
    OBVIOUS
  <2>2. x = [o EXCEPT !.events = es]
    BY <1>1, <1>4, <2>1, BufferAssumption DEF Recorded
  <2>3. es \in Seq(EventKind)
    BY <1>1, <2>1
  <2> QED BY <1>4, <2>1, <2>2, <2>3 DEF NetKind
<1> QED BY <1>1, <1>2, <1>3, <1>4, BufferAssumption

\* The head of the channel arrives: what the socket still carries, and what it said.
LEMMA ChannelMoves ==
  ASSUME ProjectionInv, channel # <<>>, channel' = Tail(channel),
         UNCHANGED <<feed, link, joined>>, NEW e, e = Head(channel)
  PROVE  /\ SocketOK' /\ e \in EventKind /\ Reached(e)
         /\ joined => e.epoch = epoch
         /\ joined /\ channel' = <<>> => e.revision = Newest(sent)
<1>1. /\ channel \in Seq(EventKind) /\ joined \in BOOLEAN /\ Len(channel) \in Nat \ {0}
      /\ \A k \in DOMAIN channel : Reached(channel[k])
      /\ joined => \A k \in DOMAIN channel : channel[k].epoch = epoch
      /\ joined => channel[Len(channel)].revision = Newest(sent)
  BY DEF ProjectionInv, SocketOK
<1>2. e = channel[1] /\ 1 \in DOMAIN channel
  BY <1>1
<1>3. e \in EventKind /\ Reached(e) /\ (joined => e.epoch = epoch)
  BY <1>1, <1>2
<1>4. /\ channel' \in Seq(EventKind) /\ Len(channel') = Len(channel) - 1
      /\ \A k \in DOMAIN channel' : k + 1 \in DOMAIN channel /\ channel'[k] = channel[k + 1]
  BY <1>1
<1>5. joined /\ channel' = <<>> => e.revision = Newest(sent)
  <2>1. channel' = <<>> => Len(channel) = 1
    BY <1>1, <1>4
  <2> QED BY <1>1, <1>2, <2>1
<1>6. joined /\ channel' # <<>> => channel'[Len(channel')].revision = Newest(sent)
  <2>1. channel' # <<>> => Len(channel') \in DOMAIN channel' /\ Len(channel') + 1 = Len(channel)
    BY <1>1, <1>4
  <2> QED BY <1>1, <1>4, <2>1
<1>7. /\ \A k \in DOMAIN channel' : Reached(channel'[k])
      /\ joined => \A k \in DOMAIN channel' : channel'[k].epoch = epoch
  BY <1>1, <1>4
<1>8. /\ link \in {"down", "live", "dying"} /\ joined \in BOOLEAN /\ (joined => link = "live")
      /\ ~joined => link = "dying"
  BY DEF ProjectionInv, SocketOK
<1>9. SocketOK'
  BY <1>4, <1>6, <1>7, <1>8 DEF SocketOK, Reached, feed, Newest
<1> QED BY <1>3, <1>5, <1>9

LEMMA EventArrivesOK == ASSUME ProjectionInv, EventArrives PROVE ProjectionInv'
<1>1. PICK e : e = Head(channel)
  OBVIOUS
<1>2. PICK o : o = client
  OBVIOUS
<1>3. PICK t : t = ApplyEvent(o.projection, o.status, e)
  OBVIOUS
<1>4. PICK c : c = [Install(o, t.projection, t.status)
                      EXCEPT !.anchored = o.anchored \/ (t.status = "fresh" /\ joined /\ o.projection = None)]
  OBVIOUS
<1>5. PICK m : m = net
  OBVIOUS
<1>6. PICK n : n = [r \in Reader |-> IF m[r] = None THEN None ELSE Recorded(m[r], e)]
  OBVIOUS
<1>7. PICK w : w = t.refresh
  OBVIOUS
<1>8. /\ channel # <<>> /\ channel' = Tail(channel) /\ UNCHANGED <<feed, link, joined>>
      /\ Continue(c, Moved(n, o, c), w)
  BY <1>1, <1>2, <1>3, <1>4, <1>5, <1>6, <1>7 DEF EventArrives
<1>9. /\ SocketOK' /\ e \in EventKind /\ Reached(e)
      /\ joined => e.epoch = epoch
      /\ joined /\ channel' = <<>> => e.revision = Newest(sent)
  BY <1>1, <1>8, ChannelMoves
<1>10. /\ FeedOK /\ ClientHolds(o, FALSE) /\ AnchorHolds(o) /\ NetHolds(m, o.projection)
       /\ joined \in BOOLEAN /\ epoch \in Nat /\ durable \in Nat
  BY <1>2, <1>5 DEF ProjectionInv, SocketOK, FeedOK
<1>11. /\ o \in ClientKind /\ o.projection \in {None} \cup ProjectionKind /\ o.status \in Status
       /\ ProjectionOK(o.projection) /\ o.anchored \in BOOLEAN
  BY <1>10 DEF ClientHolds, ClientKind
<1>12. AfterEvent(t, o.projection, o.status, e)
  BY <1>3, <1>9, <1>11, ApplyEventIs DEF ProjectionOK
<1>13. /\ t \in TransitionKind /\ t.projection \in ProjectionKind
       /\ t.projection.holds = 1..t.projection.revision
       /\ t.projection = o.projection \/ (t.projection.epoch = e.epoch /\ t.projection.revision <= e.revision)
       /\ (t.refresh <=> t.status = "stale")
       /\ t.status = "loading" => o.status = "loading" /\ o.projection # None
       /\ o.projection # None /\ o.projection.epoch = e.epoch =>
            t.projection.epoch = e.epoch /\ o.projection.revision <= t.projection.revision
       /\ t.status = "fresh" =>
            /\ t.projection.epoch = e.epoch /\ e.revision <= t.projection.revision
            /\ o.projection # None => o.status # "stale" /\ o.projection.epoch = e.epoch
  BY <1>12 DEF AfterEvent
<1>14. PICK p : p = t.projection
  OBVIOUS
<1>15. p \in ProjectionKind /\ p # None /\ p.epoch \in Nat /\ p.revision \in Nat
       /\ e.epoch \in Nat /\ e.revision \in Nat
  BY <1>9, <1>13, <1>14, NoneIsNoProjection DEF ProjectionKind, EventKind
<1>16. Reached(p)
  <2>1. CASE p = o.projection
    BY <1>11, <1>15, <2>1 DEF ProjectionOK
  <2>2. CASE p.epoch = e.epoch /\ p.revision <= e.revision
    BY <1>9, <1>10, <1>15, <2>2 DEF Reached
  <2> QED BY <1>13, <1>14, <2>1, <2>2
<1>17. PICK b \in BOOLEAN : b = (o.anchored \/ (t.status = "fresh" /\ joined /\ o.projection = None))
  <2>1. (o.anchored \/ (t.status = "fresh" /\ joined /\ o.projection = None)) \in BOOLEAN
    OBVIOUS
  <2> QED BY <2>1
<1>18. /\ c \in ClientKind /\ c.projection = p /\ c.status = t.status /\ c.anchored = b
       /\ c.loop = o.loop /\ c.queued = o.queued /\ c.failed = o.failed
  <2>1. t.status \in Status
    BY <1>13 DEF TransitionKind
  <2> QED BY <1>4, <1>11, <1>13, <1>14, <1>17, <2>1 DEF Install, ClientKind
<1>19. c.status # "loading" /\ (c.status = "stale" => w) /\ w \in BOOLEAN /\ c.status \in Status
  <2>1. o.status = "loading" => o.projection = None
    BY <1>10 DEF ClientHolds
  <2> QED BY <1>7, <1>13, <1>18, <2>1 DEF TransitionKind
<1>20. b => joined
  BY <1>10, <1>17 DEF ClientHolds
<1>21. ClientHolds(c, w)'
  <2>1. ProjectionOK(c.projection)
    BY <1>13, <1>14, <1>16, <1>18 DEF ProjectionOK
  <2>2. ClientHolds(c, w)
    BY <1>18, <1>19, <1>20, <2>1 DEF ClientHolds, Status
  <2> QED BY <1>8, <2>2 DEF ClientHolds, ProjectionOK, Reached, feed
<1>22. AnchorHolds(c)'
  <2>1. SUFFICES ASSUME t.status = "fresh", b
                 PROVE  p.epoch = epoch /\ (channel' = <<>> => Newest(sent) <= p.revision)
    BY <1>8, <1>15, <1>18 DEF AnchorHolds, Covers, Newest, feed
  <2>2. joined /\ p.epoch = e.epoch /\ e.revision <= p.revision
    BY <1>13, <1>14, <1>20, <2>1
  <2> QED BY <1>9, <2>2
<1>23. NetHolds(n, o.projection)'
  <2>1. n = [r \in Reader |-> n[r]] /\ m \in [Reader -> {None} \cup NetKind]
    BY <1>6, <1>10 DEF NetHolds
  <2>2. ASSUME NEW r \in Reader, n[r] # None
        PROVE  /\ n[r] \in NetKind
               /\ \A k \in DOMAIN n[r].events : Reached(n[r].events[k])'
               /\ n[r].joined => joined'
               /\ n[r].arrived /\ asked'[r] = None /\ reply'[r] # Failed
                    => AnswerHolds(n[r], reply[r], o.projection)'
    <3>1. m[r] # None /\ n[r] = Recorded(m[r], e)
      BY <1>6, <2>2
    <3>2. PICK y : y = m[r]
      OBVIOUS
    <3>3. PICK x : x = n[r]
      OBVIOUS
    <3>4. /\ y \in NetKind /\ (y.joined => joined) /\ \A k \in DOMAIN y.events : Reached(y.events[k])
          /\ y.arrived /\ asked[r] = None /\ reply[r] # Failed => AnswerHolds(y, reply[r], o.projection)
      BY <1>10, <2>1, <3>1, <3>2 DEF NetHolds
    <3>5. /\ x \in NetKind /\ x.arrived = y.arrived /\ x.moved = y.moved /\ x.joined = y.joined
          /\ ~x.overflowed => ~y.overflowed /\ x.events = Append(y.events, e)
          /\ x.events \in {y.events, <<>>, Append(y.events, e)}
      BY <1>9, <3>1, <3>2, <3>3, <3>4, RecordedIs
    <3>6. y.events \in Seq(EventKind) /\ Len(y.events) \in Nat
      BY <3>4 DEF NetKind
    <3>7. PICK es : es = Append(y.events, e)
      OBVIOUS
    <3>8. /\ DOMAIN es = 1..(Len(y.events) + 1) /\ DOMAIN y.events = 1..Len(y.events)
          /\ es[Len(y.events) + 1] = e /\ \A k \in DOMAIN y.events : es[k] = y.events[k]
      BY <1>9, <3>6, <3>7
    <3>9. \A k \in DOMAIN es : k \in DOMAIN y.events \/ k = Len(y.events) + 1
      BY <3>6, <3>8
    <3>10. \A k \in DOMAIN x.events : Reached(x.events[k])
      BY <1>9, <3>4, <3>5, <3>7, <3>8, <3>9
    <3>11. ASSUME x.arrived, asked[r] = None, reply[r] # Failed
           PROVE  AnswerHolds(x, reply[r], o.projection)'
      <4>1. AnswerHolds(y, reply[r], o.projection)
        BY <3>4, <3>5, <3>11
      <4>2. PICK s : s = reply[r]
        OBVIOUS
      <4>3. ASSUME x.joined, ~x.overflowed, channel' = <<>>
            PROVE  \E k \in DOMAIN x.events : x.events[k].revision = Newest(sent)
        <5>1. x.events = es /\ joined
          BY <3>4, <3>5, <3>7, <4>3
        <5>2. Len(y.events) + 1 \in DOMAIN es
          BY <3>6, <3>8
        <5> QED BY <1>9, <3>8, <4>3, <5>1, <5>2
      <4>4. /\ s \in AnswerKind /\ Reached(s)
            /\ ~x.moved /\ o.projection # None =>
                 /\ o.projection.epoch <= s.epoch
                 /\ o.projection.epoch = s.epoch => o.projection.revision <= s.revision
            /\ x.joined => s.epoch = epoch
        BY <3>5, <4>1, <4>2 DEF AnswerHolds
      <4>5. AnswerHolds(x, s, o.projection)'
        BY <1>8, <4>3, <4>4 DEF AnswerHolds, Reached, Covers, Newest, feed
      <4> QED BY <1>8, <4>2, <4>5 DEF feed
    <3> QED BY <1>8, <3>3, <3>4, <3>5, <3>10, <3>11 DEF feed, Reached
  <2>3. \A r \in Reader : n[r] \in {None} \cup NetKind
    BY <2>2
  <2> QED BY <2>1, <2>2, <2>3 DEF NetHolds
<1>24. NetHolds(Moved(n, o, c), c.projection)'
  BY <1>23, MovedOK
<1>25. Settled(c, Moved(n, o, c))
  BY <1>8, <1>19, <1>21, <1>22, <1>24, ContinueOK
<1>26. FeedOK'
  BY <1>8, <1>10 DEF FeedOK, feed
<1> QED BY <1>9, <1>25, <1>26 DEF ProjectionInv, Settled

LEMMA ForgetOK == ASSUME ProjectionInv, Forget PROVE ProjectionInv'
<1>1. /\ client' = Fresh0 /\ net' = [r \in Reader |-> None]
      /\ UNCHANGED <<feed, link, joined, channel>>
  BY DEF Forget, socket
<1>2. PICK c : c = Fresh0
  OBVIOUS
<1>3. PICK n : n = [r \in Reader |-> None]
  OBVIOUS
<1>4. ClientHolds(c, FALSE) /\ AnchorHolds(c) /\ NetHolds(n, c.projection)
  BY <1>2, <1>3 DEF Fresh0, ClientHolds, ClientKind, ProjectionOK, AnchorHolds, NetHolds, Status
<1>5. ClientHolds(c, FALSE)' /\ AnchorHolds(c)' /\ NetHolds(n, c.projection)'
  BY <1>1, <1>4, SameWorld
<1>6. Settled(c, n)
  BY <1>1, <1>2, <1>3, <1>5 DEF Settled
<1> QED BY <1>1, <1>6, ClientStepOK

\* The connection is lost: nothing is anchored on it, and no answer will be.
LEMMA UnanchoredOK ==
  ASSUME ProjectionInv, Unanchored, UNCHANGED feed
  PROVE  /\ ClientHolds(client, FALSE)' /\ AnchorHolds(client)' /\ NetHolds(net, client.projection)'
<1>1. PICK o : o = client
  OBVIOUS
<1>2. PICK c : c = [o EXCEPT !.anchored = FALSE]
  OBVIOUS
<1>3. PICK m : m = net
  OBVIOUS
<1>4. PICK n : n = [r \in Reader |-> IF m[r] = None THEN None ELSE [m[r] EXCEPT !.joined = FALSE]]
  OBVIOUS
<1>5. client' = c /\ net' = n
  BY <1>1, <1>2, <1>3, <1>4 DEF Unanchored
<1>6. ClientHolds(o, FALSE) /\ NetHolds(m, o.projection)
  BY <1>1, <1>3 DEF ProjectionInv
<1>7. /\ c \in ClientKind /\ c.projection = o.projection /\ c.status = o.status /\ c.anchored = FALSE
      /\ c.loop = o.loop /\ c.queued = o.queued /\ c.failed = o.failed
  BY <1>2, <1>6 DEF ClientHolds, ClientKind
<1>8. o = Fresh0 => c = Fresh0
  <2>1. o = Fresh0 => o.anchored = FALSE
    BY DEF Fresh0
  <2>2. o.anchored = FALSE => c = o
    BY <1>2, <1>6 DEF ClientHolds, ClientKind
  <2> QED BY <2>1, <2>2
<1>9. ClientHolds(c, FALSE)' /\ AnchorHolds(c)'
  BY <1>6, <1>7, <1>8 DEF ClientHolds, AnchorHolds, ProjectionOK, Reached, feed
<1>10. NetHolds(n, o.projection)'
  <2>1. n = [r \in Reader |-> n[r]] /\ m \in [Reader -> {None} \cup NetKind]
    BY <1>4, <1>6 DEF NetHolds
  <2>2. ASSUME NEW r \in Reader, n[r] # None
        PROVE  /\ n[r] \in NetKind
               /\ \A k \in DOMAIN n[r].events : Reached(n[r].events[k])'
               /\ n[r].joined => joined'
               /\ n[r].arrived /\ asked'[r] = None /\ reply'[r] # Failed
                    => AnswerHolds(n[r], reply[r], o.projection)'
    <3>1. m[r] # None /\ n[r] = [m[r] EXCEPT !.joined = FALSE] /\ m[r] \in NetKind
      BY <1>4, <2>1, <2>2
    <3>2. /\ n[r] \in NetKind /\ n[r].arrived = m[r].arrived /\ n[r].events = m[r].events
          /\ n[r].moved = m[r].moved /\ n[r].joined = FALSE
      BY <3>1 DEF NetKind
    <3>3. /\ \A k \in DOMAIN m[r].events : Reached(m[r].events[k])
          /\ m[r].arrived /\ asked[r] = None /\ reply[r] # Failed => AnswerHolds(m[r], reply[r], o.projection)
      BY <1>6, <3>1 DEF NetHolds
    <3> QED BY <3>2, <3>3 DEF feed, Reached, AnswerHolds
  <2>3. \A r \in Reader : n[r] \in {None} \cup NetKind
    BY <2>2
  <2> QED BY <2>1, <2>2, <2>3 DEF NetHolds
<1> QED BY <1>5, <1>7, <1>9, <1>10

LEMMA SocketStepOK == ASSUME ProjectionInv, Socket PROVE ProjectionInv'
<1>1. CASE Connect
  <2>1. /\ link = "down" /\ link' = "live" /\ UNCHANGED <<feed, joined, channel>>
        /\ client' = client /\ net' = net
    BY <1>1 DEF Connect
  <2>2. SocketOK'
    BY <2>1 DEF ProjectionInv, SocketOK, Reached, Newest, feed
  <2>3. ClientHolds(client, FALSE)' /\ AnchorHolds(client)' /\ NetHolds(net, client.projection)' /\ FeedOK'
    BY <2>1 DEF feed, ProjectionInv, ClientHolds, ProjectionOK, AnchorHolds, NetHolds, AnswerHolds, Reached,
                Covers, Newest, FeedOK
  <2> QED BY <2>2, <2>3 DEF ProjectionInv
<1>2. CASE Joins
  <2>1. /\ link = "live" /\ ~joined /\ joined' = TRUE /\ UNCHANGED <<feed, link, channel>>
        /\ client' = client /\ net' = net
    BY <1>2 DEF Joins
  <2>2. SocketOK'
    BY <2>1 DEF ProjectionInv, SocketOK, Reached, Newest, feed
  <2>3. ClientHolds(client, FALSE)' /\ AnchorHolds(client)' /\ NetHolds(net, client.projection)' /\ FeedOK'
    BY <2>1 DEF feed, ProjectionInv, ClientHolds, ProjectionOK, AnchorHolds, NetHolds, AnswerHolds, Reached,
                Covers, Newest, FeedOK
  <2> QED BY <2>2, <2>3 DEF ProjectionInv
<1>3. CASE Opens
  BY <1>3, RefreshOK DEF Opens
<1>4. CASE Breaks
  <2>1. UNCHANGED <<feed, channel>> /\ link' = "dying" /\ joined' = FALSE /\ Unanchored
    BY <1>4 DEF Breaks
  <2>2. SocketOK' /\ FeedOK'
    BY <2>1 DEF ProjectionInv, SocketOK, FeedOK, Reached, feed
  <2> QED BY <2>1, <2>2, UnanchoredOK DEF ProjectionInv
<1>5. CASE Closes
  <2>1. UNCHANGED feed /\ link' = "down" /\ joined' = FALSE /\ channel' = <<>> /\ Unanchored
    BY <1>5 DEF Closes
  <2>2. channel' \in Seq(EventKind) /\ DOMAIN channel' = {}
    BY <2>1
  <2>3. SocketOK' /\ FeedOK'
    BY <2>1, <2>2 DEF ProjectionInv, SocketOK, FeedOK, feed
  <2> QED BY <2>1, <2>3, UnanchoredOK DEF ProjectionInv
<1> QED BY <1>1, <1>2, <1>3, <1>4, <1>5 DEF Socket

\* The client is left alone.
LEMMA UntouchedOK ==
  ASSUME ProjectionInv, client' = client, FeedOK', SocketOK', ProjectionOK(client.projection)',
         joined' = joined, AnchorHolds(client)', NetHolds(net, client.projection)'
  PROVE  ProjectionInv'
<1>1. ClientHolds(client, FALSE)'
  BY DEF ProjectionInv, ClientHolds
<1> QED BY <1>1 DEF ProjectionInv

LEMMA DaemonCommitsOK == ASSUME ProjectionInv, DaemonCommits PROVE ProjectionInv'
<1>1. /\ durable' \in Nat /\ durable' > durable
      /\ UNCHANGED <<epoch, sent, asked, reply, client, net, link, joined, channel>>
  BY DEF DaemonCommits, Commit, socket
<1>2. FeedOK /\ durable \in Nat /\ epoch \in Nat
  BY DEF ProjectionInv, FeedOK
<1>3. FeedOK'
  <2>1. 1..durable \subseteq 1..durable'
    BY <1>1, <1>2
  <2> QED BY <1>1, <1>2, <2>1 DEF FeedOK
<1>4. ASSUME NEW x, Reached(x), x.revision \in Nat PROVE Reached(x)'
  BY <1>1, <1>2, <1>4 DEF Reached
<1>5. SocketOK'
  <2>0. PICK ch \in Seq(EventKind) : ch = channel
    BY DEF ProjectionInv, SocketOK
  <2>1. \A k \in DOMAIN ch : ch[k] \in EventKind
    OBVIOUS
  <2>2. \A k \in DOMAIN ch : Reached(ch[k])
    BY <2>0 DEF ProjectionInv, SocketOK
  <2>3. \A k \in DOMAIN ch : Reached(ch[k])'
    BY <1>4, <2>1, <2>2 DEF EventKind
  <2> QED BY <1>1, <2>0, <2>3 DEF ProjectionInv, SocketOK, Newest, Reached
<1>6. ProjectionOK(client.projection)'
  <2>1. client.projection \in {None} \cup ProjectionKind /\ ProjectionOK(client.projection)
    BY DEF ProjectionInv, ClientHolds, ClientKind
  <2> QED BY <1>1, <1>2, <2>1 DEF ProjectionOK, ProjectionKind, Reached
<1>7. AnchorHolds(client)'
  BY <1>1 DEF ProjectionInv, AnchorHolds, Covers, Newest
<1>8. NetHolds(net, client.projection)'
  <2>1. net \in [Reader -> {None} \cup NetKind] /\ net' = net /\ client' = client
    BY <1>1 DEF ProjectionInv, NetHolds
  <2>2. ASSUME NEW r \in Reader, net[r] # None
        PROVE  /\ \A k \in DOMAIN net[r].events : Reached(net[r].events[k])'
               /\ net[r].joined => joined
               /\ net[r].arrived /\ asked[r] = None /\ reply[r] # Failed
                    => AnswerHolds(net[r], reply[r], client.projection)'
    <3>1. PICK y \in NetKind : y = net[r]
      BY <2>1, <2>2
    <3>2. PICK es \in Seq(EventKind) : es = y.events
      BY DEF NetKind
    <3>3. \A k \in DOMAIN es : es[k] \in EventKind /\ Reached(es[k])
      <4>1. \A k \in DOMAIN es : es[k] \in EventKind
        OBVIOUS
      <4> QED BY <2>2, <3>1, <3>2, <4>1 DEF ProjectionInv, NetHolds
    <3>4. \A k \in DOMAIN es : Reached(es[k])'
      BY <1>4, <3>3 DEF EventKind
    <3>5. ASSUME y.arrived, asked[r] = None, reply[r] # Failed
          PROVE  AnswerHolds(y, reply[r], client.projection)'
      <4>1. PICK s : s = reply[r]
        OBVIOUS
      <4>2. AnswerHolds(y, s, client.projection)
        BY <2>2, <3>1, <3>5, <4>1 DEF ProjectionInv, NetHolds
      <4>3. Reached(s)'
        BY <1>4, <4>2 DEF AnswerHolds, AnswerKind
      <4> QED BY <1>1, <4>1, <4>2, <4>3 DEF AnswerHolds, Covers, Newest
    <3>6. y.joined => joined
      BY <2>2, <3>1 DEF ProjectionInv, NetHolds
    <3> QED BY <1>1, <3>1, <3>2, <3>4, <3>5, <3>6
  <2> QED BY <1>1, <2>1, <2>2 DEF NetHolds
<1> QED BY <1>1, <1>3, <1>5, <1>6, <1>7, <1>8, UntouchedOK

LEMMA DaemonSendsOK == ASSUME ProjectionInv, DaemonSends PROVE ProjectionInv'
<1>0. /\ FeedOK /\ epoch \in Nat /\ durable \in Nat /\ sent \subseteq 1..durable /\ joined \in BOOLEAN
      /\ channel \in Seq(EventKind)
  BY DEF ProjectionInv, FeedOK, SocketOK
<1>1. PICK S, q :
        /\ S \in SUBSET ((Newest(sent) + 1)..durable) /\ q \in InOrder(S)
        /\ sent' = sent \cup S /\ Send
        /\ channel' = IF joined
                      THEN channel \o [k \in DOMAIN q |-> [epoch |-> epoch, revision |-> q[k]]]
                      ELSE channel
        /\ UNCHANGED <<client, net, link, opened, joined>>
  BY DEF DaemonSends
<1>2. UNCHANGED <<epoch, durable, asked, reply, client, net, link, joined>> /\ sent' # sent
  BY <1>1 DEF Send
<1>3. Newest(sent) \in Nat /\ \A k \in sent : k <= Newest(sent)
  BY <1>0, NewestIs
<1>4. PICK n : n = Cardinality(S)
  OBVIOUS
<1>5. n \in Nat
  <2>1. IsFiniteSet((Newest(sent) + 1)..durable)
    BY <1>0, <1>3, FS_Interval
  <2> QED BY <1>1, <1>4, <2>1, FS_Subset, FS_CardinalityType
<1>6. /\ q \in [1..n -> S] /\ \A k \in S : \E i \in 1..n : q[i] = k
      /\ \A i, j \in 1..n : i < j => q[i] < q[j]
  BY <1>1, <1>4 DEF InOrder, Range
<1>7. \A k \in S : k \in 1..durable /\ k > Newest(sent) /\ k \in Nat \ {0}
  BY <1>0, <1>1, <1>3
<1>8. n \in 1..n
  <2>1. PICK k \in S : TRUE
    BY <1>1, <1>2
  <2> QED BY <1>5, <1>6, <2>1
<1>9. PICK last \in S : last = q[n]
  BY <1>6, <1>8
<1>10. \A k \in S : k <= last
  <2> TAKE k \in S
  <2>1. PICK i \in 1..n : q[i] = k
    BY <1>6
  <2>2. i = n \/ i < n
    BY <1>5
  <2> QED BY <1>6, <1>7, <1>8, <1>9, <2>1, <2>2
<1>11. last \in sent' /\ \A k \in sent' : k <= last
  <2>1. \A k \in sent : k \in Nat
    BY <1>0
  <2> QED BY <1>1, <1>3, <1>7, <1>9, <1>10, <2>1
<1>12. FeedOK'
  <2>1. sent' \subseteq 1..durable
    BY <1>0, <1>1, <1>7
  <2> QED BY <1>0, <1>2, <1>11, <2>1 DEF FeedOK
<1>13. Newest(sent') = last
  <2>1. sent' # {} /\ \A k \in sent' : k \in Nat
    BY <1>0, <1>1, <1>7
  <2>2. Newest(sent') \in sent' /\ \A k \in sent' : k <= Newest(sent')
    BY <1>11, <2>1 DEF Newest
  <2> HIDE DEF Newest
  <2> QED BY <1>11, <2>1, <2>2
<1>14. PICK ev : ev = [k \in 1..n |-> [epoch |-> epoch, revision |-> q[k]]]
  OBVIOUS
<1>15. /\ ev \in Seq(EventKind) /\ Len(ev) = n
       /\ \A k \in 1..n : ev[k] = [epoch |-> epoch, revision |-> q[k]] /\ Reached(ev[k])
  <2>1. \A k \in 1..n : q[k] \in S
    BY <1>6
  <2>2. \A k \in 1..n : [epoch |-> epoch, revision |-> q[k]] \in EventKind
    BY <1>0, <1>7, <2>1 DEF EventKind
  <2>3. ev \in [1..n -> EventKind]
    BY <1>14, <2>2
  <2>4. ev \in Seq(EventKind) /\ Len(ev) = n
    BY <1>5, <2>3
  <2>5. \A k \in 1..n : Reached(ev[k])
    BY <1>0, <1>7, <1>14, <2>1 DEF Reached
  <2> QED BY <1>14, <2>4, <2>5
<1>16. channel' = IF joined THEN channel \o ev ELSE channel
  <2>1. DOMAIN q = 1..n
    BY <1>6
  <2> QED BY <1>1, <1>14, <2>1
<1>17. SocketOK'
  <2>1. CASE ~joined
    <3>1. channel' = channel
      BY <1>16, <2>1
    <3> QED BY <1>2, <2>1, <3>1 DEF ProjectionInv, SocketOK, Reached
  <2>2. CASE joined
    <3>1. PICK ch \in Seq(EventKind) : ch = channel
      BY <1>0
    <3>2. PICK all : all = ch \o ev
      OBVIOUS
    <3>3. /\ all \in Seq(EventKind) /\ Len(all) = Len(ch) + n /\ Len(ch) \in Nat
          /\ \A k \in 1..Len(all) :
               \/ k \in 1..Len(ch) /\ all[k] = ch[k]
               \/ k - Len(ch) \in 1..n /\ all[k] = ev[k - Len(ch)]
      <4>1. ev \in Seq(EventKind) /\ Len(ev) = n /\ n \in Nat /\ Len(ch) \in Nat
        BY <1>5, <1>15
      <4>2. all \in Seq(EventKind) /\ Len(all) = Len(ch) + n
        BY <3>2, <4>1, ConcatProperties
      <4>3. \A k \in 1..Len(ch) : all[k] = ch[k]
        BY <3>2, <4>1
      <4>4. \A k \in 1..(Len(ch) + n) : ~(k \in 1..Len(ch)) => k - Len(ch) \in 1..n
        BY <4>1
      <4>5. \A k \in 1..(Len(ch) + n) : ~(k \in 1..Len(ch)) => all[k] = ev[k - Len(ch)]
        BY <3>2, <4>1
      <4> QED BY <4>1, <4>2, <4>3, <4>4, <4>5
    <3>4. \A k \in 1..Len(ch) : Reached(ch[k]) /\ ch[k].epoch = epoch
      BY <2>2, <3>1 DEF ProjectionInv, SocketOK
    <3>5. \A k \in 1..Len(all) : Reached(all[k]) /\ all[k].epoch = epoch
      BY <1>15, <3>3, <3>4
    <3>6. all # <<>> => all[Len(all)].revision = last
      <4>1. Len(all) \in 1..Len(all) /\ Len(all) \notin 1..Len(ch) /\ Len(all) - Len(ch) = n
        BY <1>5, <1>8, <3>3
      <4>2. all[Len(all)] = ev[n]
        BY <3>3, <4>1
      <4> QED BY <1>8, <1>9, <1>15, <4>2
    <3>7. channel' = all /\ link = "live"
      BY <1>16, <2>2, <3>1, <3>2 DEF ProjectionInv, SocketOK
    <3>8. \A k \in DOMAIN all : Reached(all[k])'
      BY <1>2, <3>3, <3>5 DEF Reached
    <3> QED BY <1>2, <1>13, <2>2, <3>3, <3>5, <3>6, <3>7, <3>8 DEF SocketOK
  <2> QED BY <1>0, <2>1, <2>2
<1>18. joined => channel' # <<>>
  <2>1. PICK ch \in Seq(EventKind) : ch = channel
    BY <1>0
  <2>2. Len(ch \o ev) = Len(ch) + n /\ Len(ch) \in Nat
    BY <1>15
  <2>3. ch \o ev # <<>>
    BY <1>5, <1>8, <2>2
  <2> QED BY <1>16, <2>1, <2>3
<1>19. AnchorHolds(client)'
  BY <1>2, <1>18 DEF ProjectionInv, AnchorHolds, ClientHolds
<1>20. ProjectionOK(client.projection)'
  BY <1>2 DEF ProjectionInv, ClientHolds, ProjectionOK, Reached
<1>21. NetHolds(net, client.projection)'
  BY <1>2, <1>18 DEF ProjectionInv, NetHolds, AnswerHolds, Reached
<1> QED BY <1>2, <1>12, <1>17, <1>19, <1>20, <1>21, UntouchedOK

LEMMA RequestArrivesOK == ASSUME ProjectionInv, NEW r \in Reader, RequestArrives(r) PROVE ProjectionInv'
<1>1. /\ net[r] # None /\ UNCHANGED <<epoch, durable, sent, client, link, joined, channel>>
      /\ asked' = [asked EXCEPT ![r] = Newest(sent)] /\ reply' = [reply EXCEPT ![r] = None]
      /\ net' = [net EXCEPT ![r].arrived = TRUE, ![r].joined = joined]
  BY DEF RequestArrives, Ask, socket
<1>2. /\ FeedOK /\ net \in [Reader -> {None} \cup NetKind] /\ joined \in BOOLEAN
      /\ Newest(sent) \in Nat /\ Newest(sent) # None
  BY NewestIs, NoneIsNoProjection DEF ProjectionInv, NetHolds, SocketOK
<1>3. FeedOK'
  BY <1>1, <1>2 DEF FeedOK
<1>4. SocketOK' /\ AnchorHolds(client)' /\ ProjectionOK(client.projection)'
  BY <1>1 DEF ProjectionInv, SocketOK, AnchorHolds, ProjectionOK, ClientHolds, Reached, Covers, Newest
<1>5. PICK o : o = [net[r] EXCEPT !.arrived = TRUE, !.joined = joined]
  OBVIOUS
<1>6. net[r] \in NetKind
  BY <1>1, <1>2
<1>7. o \in NetKind /\ o.joined = joined /\ o.events = net[r].events
  BY <1>2, <1>5, <1>6 DEF NetKind
<1>8. net' = [net EXCEPT ![r] = o]
  BY <1>1, <1>2, <1>5, <1>6 DEF NetKind
<1>9. /\ net' \in [Reader -> {None} \cup NetKind] /\ net'[r] = o
      /\ \A x \in Reader : x # r => net'[x] = net[x]
  BY <1>2, <1>7, <1>8
<1>10. /\ asked'[r] # None
       /\ \A x \in Reader : x # r => asked'[x] = asked[x] /\ reply'[x] = reply[x]
  BY <1>1, <1>2 DEF FeedOK
<1>11. \A k \in DOMAIN o.events : Reached(o.events[k])
  BY <1>1, <1>7 DEF ProjectionInv, NetHolds
<1>12. NetHolds(net, client.projection)'
  <2>1. ASSUME NEW x \in Reader, net'[x] # None
        PROVE  /\ \A k \in DOMAIN net'[x].events : Reached(net[x].events[k])'
               /\ net'[x].joined => joined'
               /\ net'[x].arrived /\ asked'[x] = None /\ reply'[x] # Failed
                    => AnswerHolds(net[x], reply[x], client.projection)'
    <3>1. CASE x = r
      BY <1>1, <1>7, <1>9, <1>10, <1>11, <3>1 DEF Reached
    <3>2. CASE x # r
      <4>1. PICK o1 : o1 = net[x]
        OBVIOUS
      <4>2. PICK s1 : s1 = reply[x]
        OBVIOUS
      <4>3. PICK p1 : p1 = client.projection
        OBVIOUS
      <4>4. net'[x] = o1 /\ o1 # None /\ asked'[x] = asked[x] /\ reply'[x] = s1 /\ client' = client
        BY <1>1, <1>9, <1>10, <2>1, <3>2, <4>1, <4>2
      <4>5. /\ \A k \in DOMAIN o1.events : Reached(o1.events[k])
            /\ o1.joined => joined
            /\ o1.arrived /\ asked[x] = None /\ s1 # Failed => AnswerHolds(o1, s1, p1)
        BY <4>1, <4>2, <4>3, <4>4 DEF ProjectionInv, NetHolds
      <4>6. \A k \in DOMAIN o1.events : Reached(o1.events[k])'
        BY <1>1, <4>5 DEF Reached
      <4>7. AnswerHolds(o1, s1, p1) => AnswerHolds(o1, s1, p1)'
        BY <1>1 DEF AnswerHolds, Reached, Covers, Newest
      <4> QED BY <1>1, <4>3, <4>4, <4>5, <4>6, <4>7
    <3> QED BY <3>1, <3>2
  <2> QED BY <1>9, <2>1 DEF NetHolds
<1> QED BY <1>1, <1>3, <1>4, <1>12, UntouchedOK

LEMMA DaemonRepliesOK == ASSUME ProjectionInv, NEW r \in Reader, DaemonReplies(r) PROVE ProjectionInv'
<1>1. /\ asked[r] # None /\ asked' = [asked EXCEPT ![r] = None]
      /\ \/ reply' = [reply EXCEPT ![r] = [epoch |-> epoch, revision |-> durable]]
         \/ reply' = [reply EXCEPT ![r] = Failed]
      /\ UNCHANGED <<epoch, durable, sent, client, net, link, joined, channel>>
  BY DEF DaemonReplies, Answer, Refuse, socket
<1>2. /\ FeedOK /\ epoch \in Nat /\ durable \in Nat /\ net \in [Reader -> {None} \cup NetKind]
      /\ Newest(sent) <= durable
  BY NewestIs DEF ProjectionInv, NetHolds, FeedOK
<1>3. FeedOK'
  BY <1>1, <1>2 DEF FeedOK
<1>4. SocketOK' /\ AnchorHolds(client)' /\ ProjectionOK(client.projection)'
  BY <1>1 DEF ProjectionInv, SocketOK, AnchorHolds, ProjectionOK, ClientHolds, Reached, Covers, Newest
<1>5. PICK s : s = [epoch |-> epoch, revision |-> durable]
  OBVIOUS
<1>6. PICK p : p = client.projection
  OBVIOUS
<1>7. (reply'[r] = s \/ reply'[r] = Failed)
      /\ \A x \in Reader : x # r => asked'[x] = asked[x] /\ reply'[x] = reply[x]
  BY <1>1, <1>2, <1>5 DEF FeedOK
<1>8. p # None => p.epoch \in Nat /\ p.revision \in Nat /\ Reached(p)
  BY <1>6 DEF ProjectionInv, ClientHolds, ClientKind, ProjectionKind, ProjectionOK
<1>9. s \in AnswerKind /\ s.epoch = epoch /\ s.revision = durable
  BY <1>2, <1>5 DEF AnswerKind
<1>10. ASSUME NEW o PROVE AnswerHolds(o, s, p)'
  BY <1>1, <1>2, <1>8, <1>9 DEF AnswerHolds, Reached, Covers, Newest
<1>11. NetHolds(net, client.projection)'
  <2>1. ASSUME NEW x \in Reader, net[x] # None
        PROVE  /\ \A k \in DOMAIN net[x].events : Reached(net[x].events[k])'
               /\ net[x].joined => joined
               /\ net[x].arrived /\ asked'[x] = None /\ reply'[x] # Failed
                    => AnswerHolds(net[x], reply[x], client.projection)'
    <3>1. /\ \A k \in DOMAIN net[x].events : Reached(net[x].events[k])
          /\ net[x].joined => joined
          /\ net[x].arrived /\ asked[x] = None /\ reply[x] # Failed
                    => AnswerHolds(net[x], reply[x], client.projection)
      BY <2>1 DEF ProjectionInv, NetHolds
    <3>2. \A k \in DOMAIN net[x].events : Reached(net[x].events[k])'
      BY <1>1, <3>1 DEF Reached
    <3>3. CASE x = r
      <4>1. PICK o : o = net[x]
        OBVIOUS
      <4>2. AnswerHolds(o, s, p)'
        BY <1>10
      <4>3. net' = net /\ client' = client
        BY <1>1
      <4> QED BY <1>6, <1>7, <3>1, <3>2, <3>3, <4>1, <4>2, <4>3
    <3>4. CASE x # r
      BY <1>1, <1>7, <3>1, <3>2, <3>4 DEF AnswerHolds, Reached, Covers, Newest
    <3> QED BY <3>3, <3>4
  <2> QED BY <1>1, <1>2, <2>1 DEF NetHolds
<1> QED BY <1>1, <1>3, <1>4, <1>11, UntouchedOK

LEMMA DaemonEndsOK == ASSUME ProjectionInv, DaemonEnds PROVE ProjectionInv'
<1>1. /\ asked' = [r \in Reader |-> None]
      /\ reply' = [r \in Reader |-> IF asked[r] = None THEN reply[r] ELSE Failed]
      /\ UNCHANGED <<epoch, durable, sent, channel>>
      /\ link' = (IF joined THEN "dying" ELSE link) /\ joined' = FALSE /\ Unanchored
  BY DEF DaemonEnds, End, Hangup
<1>2. FeedOK'
  BY <1>1 DEF ProjectionInv, FeedOK
<1>3. SocketOK'
  BY <1>1 DEF ProjectionInv, SocketOK, Reached
<1>4. PICK o : o = client
  OBVIOUS
<1>5. PICK c : c = [o EXCEPT !.anchored = FALSE]
  OBVIOUS
<1>6. PICK m : m = net
  OBVIOUS
<1>7. PICK n : n = [r \in Reader |-> IF m[r] = None THEN None ELSE [m[r] EXCEPT !.joined = FALSE]]
  OBVIOUS
<1>8. client' = c /\ net' = n
  BY <1>1, <1>4, <1>5, <1>6, <1>7 DEF Unanchored
<1>9. ClientHolds(o, FALSE) /\ NetHolds(m, o.projection)
  BY <1>4, <1>6 DEF ProjectionInv
<1>10. /\ c \in ClientKind /\ c.projection = o.projection /\ c.status = o.status /\ c.anchored = FALSE
       /\ c.loop = o.loop /\ c.queued = o.queued /\ c.failed = o.failed
  BY <1>5, <1>9 DEF ClientHolds, ClientKind
<1>11. o = Fresh0 => c = Fresh0
  <2>1. o = Fresh0 => o.anchored = FALSE
    BY DEF Fresh0
  <2>2. o.anchored = FALSE => c = o
    BY <1>5, <1>9 DEF ClientHolds, ClientKind
  <2> QED BY <2>1, <2>2
<1>12. ClientHolds(c, FALSE)' /\ AnchorHolds(c)'
  BY <1>1, <1>9, <1>10, <1>11 DEF ClientHolds, AnchorHolds, ProjectionOK, Reached
<1>13. NetHolds(n, o.projection)'
  <2>1. n = [r \in Reader |-> n[r]] /\ m \in [Reader -> {None} \cup NetKind]
    BY <1>7, <1>9 DEF NetHolds
  <2>2. ASSUME NEW r \in Reader, n[r] # None
        PROVE  /\ n[r] \in NetKind
               /\ \A k \in DOMAIN n[r].events : Reached(n[r].events[k])'
               /\ n[r].joined => joined'
               /\ n[r].arrived /\ asked'[r] = None /\ reply'[r] # Failed
                    => AnswerHolds(n[r], reply[r], o.projection)'
    <3>1. m[r] # None /\ n[r] = [m[r] EXCEPT !.joined = FALSE] /\ m[r] \in NetKind
      BY <1>7, <2>1, <2>2
    <3>2. /\ n[r] \in NetKind /\ n[r].arrived = m[r].arrived /\ n[r].events = m[r].events
          /\ n[r].moved = m[r].moved /\ n[r].joined = FALSE
      BY <3>1 DEF NetKind
    <3>3. /\ \A k \in DOMAIN m[r].events : Reached(m[r].events[k])
          /\ m[r].arrived /\ asked[r] = None /\ reply[r] # Failed => AnswerHolds(m[r], reply[r], o.projection)
      BY <1>9, <3>1 DEF NetHolds
    <3>4. reply'[r] # Failed => asked[r] = None /\ reply'[r] = reply[r]
      BY <1>1
    <3> QED BY <1>1, <3>2, <3>3, <3>4 DEF Reached, AnswerHolds
  <2>3. \A r \in Reader : n[r] \in {None} \cup NetKind
    BY <2>2
  <2> QED BY <2>1, <2>2, <2>3 DEF NetHolds
<1> QED BY <1>2, <1>3, <1>8, <1>10, <1>12, <1>13 DEF ProjectionInv

LEMMA DaemonStartsAfreshOK == ASSUME ProjectionInv, DaemonStartsAfresh PROVE ProjectionInv'
<1>1. /\ ~joined /\ epoch' = epoch + 1 /\ durable' = 0 /\ sent' = {}
      /\ UNCHANGED <<asked, reply, client, net, link, joined, channel>>
  BY DEF DaemonStartsAfresh, NewEpoch, socket
<1>2. FeedOK /\ epoch \in Nat
  BY DEF ProjectionInv, FeedOK
<1>3. FeedOK'
  BY <1>1, <1>2 DEF FeedOK
<1>4. ASSUME NEW x, Reached(x), x.epoch \in Nat PROVE Reached(x)'
  BY <1>1, <1>2, <1>4 DEF Reached
<1>5. SocketOK'
  <2>0. PICK ch \in Seq(EventKind) : ch = channel
    BY DEF ProjectionInv, SocketOK
  <2>1. \A k \in DOMAIN ch : ch[k] \in EventKind
    OBVIOUS
  <2>2. \A k \in DOMAIN ch : Reached(ch[k])
    BY <2>0 DEF ProjectionInv, SocketOK
  <2>3. \A k \in DOMAIN ch : Reached(ch[k])'
    BY <1>4, <2>1, <2>2 DEF EventKind
  <2> QED BY <1>1, <2>0, <2>3 DEF ProjectionInv, SocketOK, Reached
<1>6. ProjectionOK(client.projection)'
  <2>1. PICK p : p = client.projection
    OBVIOUS
  <2>2. p \in {None} \cup ProjectionKind /\ ProjectionOK(p)
    BY <2>1 DEF ProjectionInv, ClientHolds, ClientKind
  <2>3. ProjectionOK(p)'
    BY <1>4, <2>2 DEF ProjectionOK, ProjectionKind
  <2> QED BY <1>1, <2>1, <2>3
<1>7. ~client.anchored /\ \A r \in Reader : net[r] # None => ~net[r].joined
  BY <1>1 DEF ProjectionInv, ClientHolds, NetHolds
<1>8. AnchorHolds(client)'
  BY <1>1, <1>7 DEF AnchorHolds
<1>9. NetHolds(net, client.projection)'
  <2>1. net \in [Reader -> {None} \cup NetKind] /\ net' = net /\ client' = client
    BY <1>1 DEF ProjectionInv, NetHolds
  <2>2. ASSUME NEW r \in Reader, net[r] # None
        PROVE  /\ \A k \in DOMAIN net[r].events : Reached(net[r].events[k])'
               /\ net[r].arrived /\ asked[r] = None /\ reply[r] # Failed
                    => AnswerHolds(net[r], reply[r], client.projection)'
    <3>1. PICK y \in NetKind : y = net[r]
      BY <2>1, <2>2
    <3>2. PICK es \in Seq(EventKind) : es = y.events
      BY DEF NetKind
    <3>3. \A k \in DOMAIN es : es[k] \in EventKind /\ Reached(es[k])
      <4>1. \A k \in DOMAIN es : es[k] \in EventKind
        OBVIOUS
      <4> QED BY <2>2, <3>1, <3>2, <4>1 DEF ProjectionInv, NetHolds
    <3>4. \A k \in DOMAIN es : Reached(es[k])'
      BY <1>4, <3>3 DEF EventKind
    <3>5. ASSUME y.arrived, asked[r] = None, reply[r] # Failed
          PROVE  AnswerHolds(y, reply[r], client.projection)'
      <4>1. PICK s : s = reply[r]
        OBVIOUS
      <4>2. AnswerHolds(y, s, client.projection)
        BY <2>2, <3>1, <3>5, <4>1 DEF ProjectionInv, NetHolds
      <4>3. Reached(s)'
        BY <1>4, <4>2 DEF AnswerHolds, AnswerKind
      <4>4. ~y.joined
        BY <1>7, <2>2, <3>1
      <4> QED BY <1>1, <4>1, <4>2, <4>3, <4>4 DEF AnswerHolds
    <3> QED BY <1>1, <3>1, <3>2, <3>4, <3>5
  <2> QED BY <1>1, <1>7, <2>1, <2>2 DEF NetHolds
<1> QED BY <1>1, <1>3, <1>5, <1>6, <1>8, <1>9, UntouchedOK

LEMMA ProjectionInitOK == ProjectionInit => ProjectionInv
<1> SUFFICES ASSUME ProjectionInit PROVE ProjectionInv
  OBVIOUS
<1>1. FeedOK
  BY DEF ProjectionInit, Init, FeedOK
<1>2. channel \in Seq(EventKind) /\ DOMAIN channel = {}
  BY DEF ProjectionInit
<1>3. SocketOK
  BY <1>2 DEF ProjectionInit, SocketOK
<1>4. ClientHolds(client, FALSE) /\ AnchorHolds(client)
  BY DEF ProjectionInit, ClientHolds, ClientKind, Fresh0, Status, ProjectionOK, AnchorHolds
<1>5. NetHolds(net, client.projection)
  BY DEF ProjectionInit, NetHolds
<1> QED BY <1>1, <1>3, <1>4, <1>5 DEF ProjectionInv

LEMMA ProjectionStepOK == ASSUME ProjectionInv, [ProjectionNext]_vars PROVE ProjectionInv'
<1>1. CASE UNCHANGED vars
  <2>1. UNCHANGED <<feed, link, joined, channel>> /\ UNCHANGED <<client, net>>
    BY <1>1 DEF vars, socket
  <2>2. PICK c : c = client
    OBVIOUS
  <2>3. PICK n : n = net
    OBVIOUS
  <2>4. Settled(c, n)
    <3>1. ClientHolds(c, FALSE)' /\ AnchorHolds(c)' /\ NetHolds(n, c.projection)'
      BY <2>1, <2>2, <2>3, SameWorld DEF ProjectionInv
    <3> QED BY <2>1, <2>2, <2>3, <3>1 DEF Settled
  <2> QED BY <2>1, <2>4, ClientStepOK
<1>2. CASE Browser
  <2>1. CASE Renegotiate
    BY <2>1, RefreshOK DEF Renegotiate, socket
  <2> QED BY <1>2, <2>1, EventArrivesOK, SnapshotArrivesOK, RefreshFailsOK, LoopSettledOK, WritesOK, ForgetOK
          DEF Browser
<1>3. CASE Daemon
  BY <1>3, DaemonCommitsOK, DaemonSendsOK, DaemonEndsOK, DaemonStartsAfreshOK, RequestArrivesOK, DaemonRepliesOK
     DEF Daemon
<1> QED BY <1>1, <1>2, <1>3, SocketStepOK DEF ProjectionNext

LEMMA ProjectionInvHolds == ProjectionSpec => []ProjectionInv
<1>1. ProjectionInv /\ [ProjectionNext]_vars => ProjectionInv'
  BY ProjectionStepOK
<1> QED BY <1>1, ProjectionInitOK, PTL DEF ProjectionSpec

-----------------------------------------------------------------------------

\* The refresh promise that is settled leaves no round that somebody asked for.
QueueOK == client.loop = "idle" => ~client.queued

LEMMA ContinueQueues ==
  ASSUME NEW c, "loop" \in DOMAIN c, c.loop = "idle" => ~c.queued, NEW n, NEW w, Continue(c, n, w)
  PROVE  QueueOK'
<1>1. CASE w
  <2>1. client' = RefreshedClient(c)
    BY <1>1 DEF Continue
  <2>2. CASE c.loop = "idle"
    BY <2>1, <2>2 DEF RefreshedClient, StartRound, QueueOK
  <2>3. CASE c.loop # "idle"
    BY <2>1, <2>3 DEF RefreshedClient, QueueOK
  <2> QED BY <2>2, <2>3
<1>2. CASE ~w
  BY <1>2 DEF Continue, QueueOK
<1> QED BY <1>1, <1>2

LEMMA NextRoundQueues ==
  ASSUME NEW c \in ClientKind, NEW n, NextRound(c, n)
  PROVE  QueueOK'
<1>1. client' = StartRound(c) \/ client' = [c EXCEPT !.loop = "ending"]
  BY DEF NextRound
<1>2. client'.loop # "idle"
  BY <1>1 DEF StartRound, ClientKind
<1> QED BY <1>2 DEF QueueOK

LEMMA QueueStepOK == ASSUME ProjectionInv, QueueOK, [ProjectionNext]_vars PROVE QueueOK'
<1>1. client \in ClientKind /\ "loop" \in DOMAIN client
  BY DEF ProjectionInv, ClientHolds, ClientKind
<1>2. ASSUME client' = client PROVE QueueOK'
  BY <1>2 DEF QueueOK
<1>3. CASE EventArrives
  <2>1. PICK t : t = ApplyEvent(client.projection, client.status, Head(channel))
    OBVIOUS
  <2>2. PICK b : b = (client.anchored \/ (t.status = "fresh" /\ joined /\ client.projection = None))
    OBVIOUS
  <2>3. PICK c : c = [Install(client, t.projection, t.status) EXCEPT !.anchored = b]
    OBVIOUS
  <2>4. PICK w : w = t.refresh
    OBVIOUS
  <2>5. \E n : Continue(c, n, w)
    BY <1>3, <2>1, <2>2, <2>3, <2>4 DEF EventArrives
  <2>6. c.loop = client.loop /\ c.queued = client.queued /\ "loop" \in DOMAIN c
    BY <1>1, <2>3 DEF Install, ClientKind
  <2> QED BY <2>5, <2>6, ContinueQueues DEF QueueOK
<1>4. CASE SnapshotArrives
  <2>1. PICK a : a = Applied(client, net[Get], reply[Get])
    OBVIOUS
  <2>2. PICK q : q = (client.queued \/ a.refresh)
    OBVIOUS
  <2>3. Returned(Get) /\ \E n : NextRound([a.client EXCEPT !.queued = q, !.failed = FALSE], n)
    BY <1>4, <2>1, <2>2 DEF SnapshotArrives
  <2>4. a.client \in ClientKind /\ a.refresh \in BOOLEAN
    BY <2>1, <2>3, AppliedOK, GetAssumption DEF ClientHolds
  <2>5. q \in BOOLEAN
    BY <1>1, <2>2, <2>4 DEF ClientKind
  <2>6. PICK c : c = [a.client EXCEPT !.queued = q, !.failed = FALSE]
    OBVIOUS
  <2>7. c \in ClientKind
    BY <2>4, <2>5, <2>6 DEF ClientKind
  <2> QED BY <2>3, <2>6, <2>7, NextRoundQueues
<1>5. CASE RefreshFails
  <2>1. PICK c : c = [client EXCEPT !.status = "stale", !.failed = TRUE]
    OBVIOUS
  <2>2. c \in ClientKind
    BY <1>1, <2>1 DEF ClientKind, Status
  <2> QED BY <1>5, <2>1, <2>2, NextRoundQueues DEF RefreshFails
<1>6. CASE LoopSettled
  <2>1. PICK c : c = [client EXCEPT !.loop = "idle", !.queued = FALSE]
    OBVIOUS
  <2>2. "loop" \in DOMAIN c /\ ~c.queued
    BY <1>1, <2>1 DEF ClientKind
  <2> QED BY <1>6, <2>1, <2>2, ContinueQueues DEF LoopSettled
<1>7. ASSUME NEW r \in Reader, WriteReturns(r) PROVE QueueOK'
  <2>1. PICK a : a = Applied(client, net[r], reply[r])
    OBVIOUS
  <2>2. PICK c : c = a.client
    OBVIOUS
  <2>3. Returned(r) /\ \E n : Continue(c, n, a.refresh)
    BY <1>7, <2>1, <2>2 DEF WriteReturns
  <2>4. "loop" \in DOMAIN c /\ c.loop = client.loop /\ c.queued = client.queued
    BY <2>1, <2>2, <2>3, AppliedOK DEF ClientHolds, ClientKind
  <2> QED BY <2>3, <2>4, ContinueQueues DEF QueueOK
<1>8. CASE Renegotiate \/ Opens
  BY <1>1, <1>8, ContinueQueues DEF Renegotiate, Opens, QueueOK
<1>9. CASE Forget
  BY <1>9 DEF Forget, Fresh0, QueueOK
<1>10. CASE Breaks \/ Closes \/ DaemonEnds
  <2>1. client' = [client EXCEPT !.anchored = FALSE]
    BY <1>10 DEF Breaks, Closes, DaemonEnds, Unanchored
  <2> QED BY <1>1, <2>1 DEF ClientKind, QueueOK
<1>11. CASE UNCHANGED vars
  BY <1>2, <1>11 DEF vars
<1>12. ASSUME NEW r \in Reader, Write(r) \/ WriteFails(r) PROVE client' = client
  BY <1>12 DEF Write, WriteFails
<1>13. CASE Connect \/ Joins
  BY <1>2, <1>13 DEF Connect, Joins
<1>14. CASE DaemonCommits \/ DaemonSends \/ DaemonStartsAfresh
  BY <1>2, <1>14 DEF DaemonCommits, DaemonSends, DaemonStartsAfresh
<1>15. ASSUME NEW r \in Reader, RequestArrives(r) \/ DaemonReplies(r) PROVE client' = client
  BY <1>15 DEF RequestArrives, DaemonReplies
<1>16. CASE Browser
  BY <1>2, <1>3, <1>4, <1>5, <1>6, <1>7, <1>8, <1>9, <1>12, <1>16 DEF Browser
<1>17. CASE Socket
  BY <1>8, <1>10, <1>13, <1>17 DEF Socket
<1>18. CASE Daemon
  BY <1>2, <1>10, <1>14, <1>15, <1>18 DEF Daemon
<1> QED BY <1>11, <1>16, <1>17, <1>18 DEF ProjectionNext

LEMMA QueueHolds == ProjectionSpec => []QueueOK
<1>1. ProjectionInit => QueueOK
  BY DEF ProjectionInit, Fresh0, QueueOK
<1> QED BY <1>1, QueueStepOK, ProjectionInvHolds, PTL DEF ProjectionSpec

\* For any readers, buffers and histories: what a projection shows is what the catalog held at
\* its revision, through every race of events with answers, gaps and changes of epoch.
THEOREM ContentsAreOfTheirRevision == ProjectionSpec => []ContentsMatchRevision
<1>1. ProjectionInv => ContentsMatchRevision
  BY DEF ProjectionInv, ClientHolds, ProjectionOK, ContentsMatchRevision
<1> QED BY <1>1, ProjectionInvHolds, PTL

\* A projection that is not fresh is being refreshed, or the last refresh has failed: no round
\* of the loop that was asked for is lost between its last answer and its end.
THEOREM StaleProjectionsAreRefreshed == ProjectionSpec => []NeverStaleForNothing
<1>1. ProjectionInv /\ QueueOK => NeverStaleForNothing
  BY DEF ProjectionInv, ClientHolds, QueueOK, NeverStaleForNothing
<1> QED BY <1>1, ProjectionInvHolds, QueueHolds, PTL

\* A fresh projection whose snapshot was requested on this connection has everything that was
\* broadcast, once the socket carries nothing any more.
THEOREM AnchorsAreCurrent == ProjectionSpec => []AnchoredIsCurrent
<1>1. ProjectionInv => AnchoredIsCurrent
  BY NewestIs DEF ProjectionInv, AnchorHolds, AnchoredIsCurrent, CaughtUp, Covers, ClientHolds, ClientKind, ProjectionKind
<1> QED BY <1>1, ProjectionInvHolds, PTL

-----------------------------------------------------------------------------
(* The unread projection: going back *)

\* The answer that c waits for with n, if it has come, is not older than b.
Answers(n, b) ==
  n[Get] # None /\ asked[Get] = None /\ n[Get].arrived /\ reply[Get] # Failed => ~Older(reply[Get], b)

\* What c shows is not older than b, or it is being refreshed; a refresh may be wanted that is
\* not begun yet.
Mends(c, n, wanted, b) ==
  c.projection # None /\ Older(c.projection, b) =>
    \/ c.queued \/ wanted
    \/ c.loop = "running" /\ Answers(n, b)
    \/ c.failed /\ c.loop # "running"

LoopOK(c, n) == n[Get] # None => c.loop = "running"

BestOK == best # None => best \in AnswerKind /\ Reached(best) /\ client.projection # None

RepairInv ==
  /\ BestOK /\ LoopOK(client, net)
  /\ best # None => Mends(client, net, FALSE, best)

\* The catalog does not lose what it has reached.
LEMMA ReachedStays ==
  ASSUME ProjectionInv, [ProjectionNext]_vars, NEW x \in AnswerKind, Reached(x)
  PROVE  Reached(x)'
<1>1. epoch \in Nat /\ durable \in Nat /\ x.epoch \in Nat /\ x.revision \in Nat
  BY DEF ProjectionInv, FeedOK, AnswerKind
<1>2. \/ epoch' = epoch /\ durable' = durable
      \/ epoch' = epoch /\ durable' \in Nat /\ durable' > durable
      \/ epoch' = epoch + 1
  <2>1. CASE Browser \/ Socket
    BY <2>1 DEF Browser, Socket, EventArrives, SnapshotArrives, RefreshFails, LoopSettled, Write, WriteReturns,
                WriteFails, Renegotiate, Forget, Connect, Joins, Opens, Breaks, Closes, feed
  <2>2. CASE Daemon
    BY <2>2 DEF Daemon, DaemonCommits, DaemonSends, DaemonEnds, DaemonStartsAfresh, RequestArrives,
                DaemonReplies, Commit, Send, End, NewEpoch, Ask, Answer, Refuse
  <2>3. CASE UNCHANGED vars
    BY <2>3 DEF vars, feed
  <2> QED BY <2>1, <2>2, <2>3 DEF ProjectionNext
<1> QED BY <1>1, <1>2 DEF Reached

\* A projection that is older than the newest is older than the newest there was before.
LEMMA BestIs ==
  ASSUME ProjectionInv, ProjectionInv', BestOK, [ProjectionNext]_vars
  PROVE  /\ BestOK'
         /\ best' # None /\ client'.projection # None /\ Older(client'.projection, best') => best' = best
<1>1. CASE UNCHANGED vars
  <2>1. UNCHANGED <<best, client, epoch, durable>>
    BY <1>1 DEF vars, feed
  <2> QED BY <2>1 DEF BestOK, Reached
<1>2. CASE best' = Remembered(client')
  <2>1. PICK p : p = client'.projection
    OBVIOUS
  <2>2. p \in {None} \cup ProjectionKind /\ (p # None => Reached(p)')
    BY <2>1 DEF ProjectionInv, ClientHolds, ClientKind, ProjectionOK
  <2>3. CASE p = None
    <3>1. best' = None
      BY <1>2, <2>1, <2>3 DEF Remembered
    <3> QED BY <3>1 DEF BestOK
  <2>4. CASE p # None /\ (best = None \/ (best # None /\ Older(best, p)))
    <3>1. PICK b : b = [epoch |-> p.epoch, revision |-> p.revision]
      OBVIOUS
    <3>2. best' = b
      BY <1>2, <2>1, <2>4, <3>1 DEF Remembered
    <3>3. b \in AnswerKind /\ b.epoch = p.epoch /\ b.revision = p.revision
      BY <2>2, <2>4, <3>1 DEF ProjectionKind, AnswerKind
    <3>4. Reached(b)' /\ ~Older(p, b)
      BY <2>2, <2>4, <3>3 DEF Reached, Older, AnswerKind
    <3> QED BY <2>1, <2>4, <3>2, <3>3, <3>4 DEF BestOK
  <2>5. CASE p # None /\ best # None /\ ~Older(best, p)
    <3>1. best' = best
      BY <1>2, <2>1, <2>5 DEF Remembered
    <3>2. PICK b : b = best
      OBVIOUS
    <3>3. b \in AnswerKind /\ Reached(b)
      BY <2>5, <3>2 DEF BestOK
    <3>4. Reached(b)'
      BY <3>3, ReachedStays
    <3> QED BY <2>1, <2>5, <3>1, <3>2, <3>3, <3>4 DEF BestOK
  <2> QED BY <2>3, <2>4, <2>5
<1> QED BY <1>1, <1>2 DEF ProjectionNext

\* It is enough that the newest there was before is mended.
LEMMA MendingIsEnough ==
  ASSUME ProjectionInv, ProjectionInv', RepairInv, [ProjectionNext]_vars, NEW b, b = best,
         LoopOK(client, net)', b # None => Mends(client, net, FALSE, b)'
  PROVE  RepairInv'
<1>1. BestOK'
  BY BestIs DEF RepairInv
<1>2. ASSUME best' # None PROVE Mends(client, net, FALSE, best)'
  <2>1. CASE client'.projection # None /\ Older(client'.projection, best')
    <3>1. best' = b
      BY <1>2, <2>1, BestIs DEF RepairInv
    <3> QED BY <1>2, <3>1 DEF Mends, Answers
  <2>2. CASE ~(client'.projection # None /\ Older(client'.projection, best'))
    BY <2>2 DEF Mends
  <2> QED BY <2>1, <2>2
<1> QED BY <1>1, <1>2 DEF RepairInv

\* The client goes on from c and n, and refreshes if that is wanted.
LEMMA ContinueMends ==
  ASSUME NEW c \in ClientKind, NEW n, n = [r \in Reader |-> n[r]], NEW w \in BOOLEAN, NEW b,
         Continue(c, n, w), UNCHANGED feed, LoopOK(c, n), b # None => Mends(c, n, w, b)
  PROVE  LoopOK(client, net)' /\ (b # None => Mends(client, net, FALSE, b)')
<1>1. CASE ~w
  BY <1>1 DEF Continue, LoopOK, Mends, Answers, feed
<1>2. CASE w /\ c.loop = "idle"
  <2>1. client' = StartRound(c) /\ net' = [n EXCEPT ![Get] = Request(c.status)]
    BY <1>2 DEF Continue, RefreshedClient, RefreshedNet
  <2>2. client'.loop = "running"
    BY <2>1, StartRoundIs
  <2>3. ~net'[Get].arrived
    BY <2>1, GetAssumption, RequestIs DEF ClientKind
  <2> QED BY <2>2, <2>3 DEF LoopOK, Mends, Answers
<1>3. CASE w /\ c.loop # "idle"
  <2>1. client' = [c EXCEPT !.queued = TRUE] /\ net' = n
    BY <1>3 DEF Continue, RefreshedClient, RefreshedNet
  <2>2. client'.queued /\ client'.loop = c.loop
    BY <2>1 DEF ClientKind
  <2> QED BY <2>1, <2>2 DEF LoopOK, Mends
<1> QED BY <1>1, <1>2, <1>3

\* A round is over.
LEMMA NextRoundMends ==
  ASSUME NEW c \in ClientKind, NEW n, n = [r \in Reader |-> n[r]], n[Get] = None, NEW b, NextRound(c, n),
         b # None /\ c.projection # None /\ Older(c.projection, b) => c.queued \/ c.failed
  PROVE  LoopOK(client, net)' /\ (b # None => Mends(client, net, FALSE, b)')
<1>1. CASE c.queued
  <2>1. client' = StartRound(c) /\ net' = [n EXCEPT ![Get] = Request(c.status)]
    BY <1>1 DEF NextRound
  <2>2. client'.loop = "running"
    BY <2>1, StartRoundIs
  <2>3. ~net'[Get].arrived
    BY <2>1, GetAssumption, RequestIs DEF ClientKind
  <2> QED BY <2>2, <2>3 DEF LoopOK, Mends, Answers
<1>2. CASE ~c.queued
  <2>1. client' = [c EXCEPT !.loop = "ending"] /\ net' = n
    BY <1>2 DEF NextRound
  <2>2. /\ client'.loop = "ending" /\ client'.projection = c.projection /\ client'.queued = c.queued
        /\ client'.failed = c.failed
    BY <2>1 DEF ClientKind
  <2> QED BY <1>2, <2>1, <2>2 DEF LoopOK, Mends
<1> QED BY <1>1, <1>2

\* The client and its refresh are left alone; an answer that comes is not older than what the
\* catalog had reached.
LEMMA AloneMends ==
  ASSUME ProjectionInv, RepairInv, NEW b, b = best,
         UNCHANGED <<client.projection, client.loop, client.queued, client.failed>>,
         net'[Get] # None => net[Get] # None,
         b # None /\ Answers(net, b) => Answers(net, b)'
  PROVE  LoopOK(client, net)' /\ (b # None => Mends(client, net, FALSE, b)')
BY DEF RepairInv, LoopOK, Mends

\* The answers of the loop after steps that it sees nothing of.
LEMMA SameAnswers ==
  ASSUME net'[Get] # None => net[Get] # None /\ net'[Get].arrived = net[Get].arrived, UNCHANGED feed, NEW b
  PROVE  Answers(net, b) => Answers(net, b)'
BY DEF Answers, feed

LEMMA MovedIs ==
  ASSUME NEW n \in [Reader -> {None} \cup NetKind], NEW c, NEW d, NEW m, m = Moved(n, c, d)
  PROVE  /\ m = [r \in Reader |-> m[r]]
         /\ \A r \in Reader : m[r] # None => n[r] # None /\ m[r].arrived = n[r].arrived
BY DEF Moved, NetKind

\* What is not older than the client, and older than b, finds the client behind as well.
LEMMA BehindBefore ==
  ASSUME ProjectionInv, RepairInv, NEW b, b = best, b # None, NEW d, Forward(client, d),
         d.projection \in ProjectionKind, Older(d.projection, b)
  PROVE  /\ client.projection # None /\ Older(client.projection, b)
         /\ \/ client.queued
            \/ client.loop = "running" /\ Answers(net, b)
            \/ client.failed /\ client.loop # "running"
<1>1. PICK p : p = client.projection
  OBVIOUS
<1>2. PICK q : q = d.projection
  OBVIOUS
<1>3. p # None /\ b \in AnswerKind /\ p \in ProjectionKind
  BY <1>1 DEF RepairInv, BestOK, ProjectionInv, ClientHolds, ClientKind
<1>4. ~Older(q, p) /\ q \in ProjectionKind /\ Older(q, b)
  BY <1>1, <1>2, <1>3, NoneIsNoProjection DEF Forward
<1>5. Older(p, b)
  BY <1>3, <1>4 DEF Older, ProjectionKind, AnswerKind
<1> QED BY <1>1, <1>3, <1>5 DEF RepairInv, Mends

LEMMA EventArrivesMends ==
  ASSUME ProjectionInv, RepairInv, NEW b, b = best, EventArrives
  PROVE  LoopOK(client, net)' /\ (b # None => Mends(client, net, FALSE, b)')
<1>1. PICK e : e = Head(channel)
  OBVIOUS
<1>2. PICK o : o = client
  OBVIOUS
<1>3. PICK t : t = ApplyEvent(o.projection, o.status, e)
  OBVIOUS
<1>4. PICK a : a = (o.anchored \/ (t.status = "fresh" /\ joined /\ o.projection = None))
  OBVIOUS
<1>5. PICK c : c = [Install(o, t.projection, t.status) EXCEPT !.anchored = a]
  OBVIOUS
<1>6. PICK n : n = [r \in Reader |-> IF net[r] = None THEN None ELSE Recorded(net[r], e)]
  OBVIOUS
<1>7. PICK m : m = Moved(n, o, c)
  OBVIOUS
<1>8. PICK w : w = t.refresh
  OBVIOUS
<1>9. channel # <<>> /\ channel' = Tail(channel) /\ UNCHANGED <<feed, link, joined>> /\ Continue(c, m, w)
  BY <1>1, <1>2, <1>3, <1>4, <1>5, <1>6, <1>7, <1>8 DEF EventArrives
<1>10. e \in EventKind
  BY <1>1, <1>9, ChannelMoves
<1>11. /\ o \in ClientKind /\ o.projection \in {None} \cup ProjectionKind /\ o.status \in Status
       /\ ProjectionOK(o.projection) /\ net \in [Reader -> {None} \cup NetKind]
       /\ o.status = "loading" => o.projection = None
  BY <1>2 DEF ProjectionInv, ClientHolds, ClientKind, NetHolds
<1>12. AfterEvent(t, o.projection, o.status, e)
  BY <1>3, <1>10, <1>11, ApplyEventIs DEF ProjectionOK
<1>13. /\ t \in TransitionKind /\ t.projection \in ProjectionKind /\ w \in BOOLEAN
       /\ o.projection # None /\ t.projection # o.projection /\ o.projection.epoch # e.epoch => w
       /\ o.projection # None /\ o.projection.epoch = e.epoch =>
            t.projection.epoch = e.epoch /\ o.projection.revision <= t.projection.revision
  BY <1>8, <1>11, <1>12 DEF AfterEvent, TransitionKind, Status
<1>14. /\ c \in ClientKind /\ c.projection = t.projection /\ c.loop = o.loop /\ c.queued = o.queued
       /\ c.failed = o.failed
  <2>1. t.status \in Status /\ a \in BOOLEAN
    BY <1>4, <1>13 DEF TransitionKind
  <2> QED BY <1>5, <1>11, <1>13, <2>1 DEF Install, ClientKind
<1>15. n \in [Reader -> {None} \cup NetKind] /\ (n[Get] # None => net[Get] # None /\ n[Get].arrived = net[Get].arrived)
  <2>1. ASSUME NEW r \in Reader
        PROVE  n[r] \in {None} \cup NetKind /\ (n[r] # None => net[r] # None /\ n[r].arrived = net[r].arrived)
    <3>1. CASE net[r] = None
      BY <1>6, <3>1
    <3>2. CASE net[r] # None
      <4>1. net[r] \in NetKind
        BY <1>11, <3>2
      <4> QED BY <1>6, <1>10, <3>2, <4>1, RecordedIs
    <3> QED BY <3>1, <3>2
  <2> QED BY <1>6, <2>1, GetAssumption
<1>16. /\ m = [r \in Reader |-> m[r]]
       /\ m[Get] # None => net[Get] # None /\ m[Get].arrived = net[Get].arrived
  <2>1. \A r \in Reader : m[r] # None => n[r] # None /\ m[r].arrived = n[r].arrived
    BY <1>7, <1>15, MovedIs
  <2>2. m = [r \in Reader |-> m[r]]
    BY <1>7, <1>15, MovedIs
  <2> QED BY <1>15, <2>1, <2>2, GetAssumption
<1>17. LoopOK(c, m)
  BY <1>2, <1>14, <1>16 DEF LoopOK, RepairInv
<1>18. ASSUME b # None PROVE Mends(c, m, w, b)
  <2>1. SUFFICES ASSUME Older(c.projection, b), ~w
                 PROVE  c.queued \/ (c.loop = "running" /\ Answers(m, b)) \/ (c.failed /\ c.loop # "running")
    BY DEF Mends
  <2>2. Forward(client, c)
    BY <1>2, <1>11, <1>13, <1>14, <2>1 DEF Forward, Older, ProjectionKind
  <2>3. \/ client.queued
        \/ client.loop = "running" /\ Answers(net, b)
        \/ client.failed /\ client.loop # "running"
    BY <1>13, <1>14, <1>18, <2>1, <2>2, BehindBefore
  <2>4. Answers(net, b) => Answers(m, b)
    BY <1>16 DEF Answers
  <2> QED BY <1>2, <1>14, <2>3, <2>4
<1> QED BY <1>9, <1>13, <1>14, <1>16, <1>17, <1>18, ContinueMends

LEMMA SnapshotArrivesMends ==
  ASSUME ProjectionInv, RepairInv, NEW b, b = best, SnapshotArrives
  PROVE  LoopOK(client, net)' /\ (b # None => Mends(client, net, FALSE, b)')
<1>1. PICK a : a = Applied(client, net[Get], reply[Get])
  OBVIOUS
<1>2. PICK q : q = (client.queued \/ a.refresh)
  OBVIOUS
<1>3. PICK c : c = [a.client EXCEPT !.queued = q, !.failed = FALSE]
  OBVIOUS
<1>4. PICK n : n = [net EXCEPT ![Get] = None]
  OBVIOUS
<1>5. PICK m : m = Moved(n, client, c)
  OBVIOUS
<1>6. Returned(Get) /\ NextRound(c, m)
  BY <1>1, <1>2, <1>3, <1>4, <1>5 DEF SnapshotArrives
<1>7. /\ a.refresh \in BOOLEAN /\ a.client \in ClientKind /\ Forward(client, a.client)
      /\ ~a.refresh => ~Older(a.client.projection, reply[Get])
  BY <1>1, <1>6, AppliedOK, GetAssumption DEF ClientHolds
<1>8. client \in ClientKind /\ net \in [Reader -> {None} \cup NetKind]
  BY DEF ProjectionInv, ClientHolds, NetHolds
<1>9. q \in BOOLEAN
  BY <1>2, <1>7, <1>8 DEF ClientKind
<1>10. c \in ClientKind /\ c.projection = a.client.projection /\ c.queued = q
  BY <1>3, <1>7, <1>9 DEF ClientKind
<1>11. n \in [Reader -> {None} \cup NetKind] /\ n[Get] = None
  BY <1>4, <1>8, GetAssumption
<1>12. m = [r \in Reader |-> m[r]] /\ m[Get] = None
  BY <1>5, <1>11, MovedIs, GetAssumption
<1>13. ASSUME b # None, c.projection # None, Older(c.projection, b) PROVE c.queued
  <2>1. SUFFICES ASSUME ~a.refresh, ~client.queued PROVE FALSE
    BY <1>2, <1>10
  <2>2. PICK p : p = a.client.projection
    OBVIOUS
  <2>3. PICK s : s = reply[Get]
    OBVIOUS
  <2>4. p \in ProjectionKind /\ Older(p, b) /\ ~Older(p, s) /\ s \in AnswerKind /\ b \in AnswerKind
    <3>1. s \in AnswerKind
      BY <1>6, <2>3, GetAssumption DEF Returned, Over, ProjectionInv, NetHolds, AnswerHolds
    <3>2. b \in AnswerKind
      BY <1>13 DEF RepairInv, BestOK
    <3> QED BY <1>7, <1>10, <1>13, <2>1, <2>2, <2>3, <3>1, <3>2 DEF ClientKind
  <2>5. \/ client.loop = "running" /\ Answers(net, b)
        \/ client.failed /\ client.loop # "running"
    BY <1>7, <1>13, <2>1, <2>2, <2>4, BehindBefore
  <2>6. client.loop = "running" /\ net[Get] # None
    BY <1>6 DEF Returned, Over, RepairInv, LoopOK
  <2>7. ~Older(s, b)
    BY <1>6, <2>3, <2>5, <2>6 DEF Answers, Returned, Over
  <2> QED BY <2>4, <2>7 DEF Older, AnswerKind, ProjectionKind
<1> QED BY <1>6, <1>10, <1>12, <1>13, NextRoundMends

LEMMA RefreshFailsMends ==
  ASSUME ProjectionInv, RepairInv, NEW b, b = best, RefreshFails
  PROVE  LoopOK(client, net)' /\ (b # None => Mends(client, net, FALSE, b)')
<1>1. PICK c : c = [client EXCEPT !.status = "stale", !.failed = TRUE]
  OBVIOUS
<1>2. PICK n : n = [net EXCEPT ![Get] = None]
  OBVIOUS
<1>3. NextRound(c, n)
  BY <1>1, <1>2 DEF RefreshFails
<1>4. client \in ClientKind /\ net \in [Reader -> {None} \cup NetKind]
  BY DEF ProjectionInv, ClientHolds, NetHolds
<1>5. c \in ClientKind /\ c.failed
  BY <1>1, <1>4 DEF ClientKind, Status
<1>6. n = [r \in Reader |-> n[r]] /\ n[Get] = None
  BY <1>2, <1>4, GetAssumption
<1> QED BY <1>3, <1>5, <1>6, NextRoundMends

LEMMA LoopSettledMends ==
  ASSUME ProjectionInv, RepairInv, NEW b, b = best, LoopSettled
  PROVE  LoopOK(client, net)' /\ (b # None => Mends(client, net, FALSE, b)')
<1>1. PICK c : c = [client EXCEPT !.loop = "idle", !.queued = FALSE]
  OBVIOUS
<1>2. PICK w : w = client.queued
  OBVIOUS
<1>3. Continue(c, net, w) /\ client.loop = "ending" /\ UNCHANGED feed
  BY <1>1, <1>2 DEF LoopSettled
<1>4. client \in ClientKind /\ net \in [Reader -> {None} \cup NetKind]
  BY DEF ProjectionInv, ClientHolds, NetHolds
<1>5. /\ c \in ClientKind /\ c.projection = client.projection /\ c.failed = client.failed /\ c.loop = "idle"
      /\ w \in BOOLEAN
  BY <1>1, <1>2, <1>4 DEF ClientKind
<1>6. net[Get] = None
  BY <1>3 DEF RepairInv, LoopOK
<1>7. LoopOK(c, net) /\ net = [r \in Reader |-> net[r]]
  BY <1>4, <1>6 DEF LoopOK
<1>8. b # None => Mends(c, net, w, b)
  BY <1>2, <1>3, <1>5 DEF RepairInv, Mends
<1> QED BY <1>3, <1>5, <1>7, <1>8, ContinueMends

LEMMA WriteReturnsMends ==
  ASSUME ProjectionInv, RepairInv, NEW b, b = best, NEW x \in Reader, WriteReturns(x)
  PROVE  LoopOK(client, net)' /\ (b # None => Mends(client, net, FALSE, b)')
<1>1. PICK a : a = Applied(client, net[x], reply[x])
  OBVIOUS
<1>2. PICK c : c = a.client
  OBVIOUS
<1>3. PICK n : n = [net EXCEPT ![x] = None]
  OBVIOUS
<1>4. PICK m : m = Moved(n, client, c)
  OBVIOUS
<1>5. PICK w : w = a.refresh
  OBVIOUS
<1>6. x # Get /\ Returned(x) /\ Continue(c, m, w) /\ UNCHANGED feed
  BY <1>1, <1>2, <1>3, <1>4, <1>5 DEF WriteReturns
<1>7. /\ w \in BOOLEAN /\ c \in ClientKind /\ Forward(client, c)
      /\ c.loop = client.loop /\ c.queued = client.queued /\ c.failed = client.failed
  BY <1>1, <1>2, <1>5, <1>6, AppliedOK DEF ClientHolds
<1>8. net \in [Reader -> {None} \cup NetKind]
  BY DEF ProjectionInv, NetHolds
<1>9. n \in [Reader -> {None} \cup NetKind] /\ n[Get] = net[Get]
  BY <1>3, <1>6, <1>8, GetAssumption
<1>10. m = [r \in Reader |-> m[r]] /\ (m[Get] # None => net[Get] # None /\ m[Get].arrived = net[Get].arrived)
  <2>1. \A r \in Reader : m[r] # None => n[r] # None /\ m[r].arrived = n[r].arrived
    BY <1>4, <1>9, MovedIs
  <2>2. m = [r \in Reader |-> m[r]]
    BY <1>4, <1>9, MovedIs
  <2> QED BY <1>9, <2>1, <2>2, GetAssumption
<1>11. LoopOK(c, m)
  BY <1>7, <1>10 DEF LoopOK, RepairInv
<1>12. ASSUME b # None PROVE Mends(c, m, w, b)
  <2>1. SUFFICES ASSUME c.projection # None, Older(c.projection, b)
                 PROVE  c.queued \/ (c.loop = "running" /\ Answers(m, b)) \/ (c.failed /\ c.loop # "running")
    BY DEF Mends
  <2>2. \/ client.queued
        \/ client.loop = "running" /\ Answers(net, b)
        \/ client.failed /\ client.loop # "running"
    <3>1. c.projection \in ProjectionKind
      BY <1>7, <2>1 DEF ClientKind
    <3> QED BY <1>7, <1>12, <2>1, <3>1, BehindBefore
  <2>3. Answers(net, b) => Answers(m, b)
    BY <1>10 DEF Answers
  <2> QED BY <1>7, <2>2, <2>3
<1> QED BY <1>6, <1>7, <1>10, <1>11, <1>12, ContinueMends

\* What the browser does to its projection.
LEMMA BrowserMends ==
  ASSUME ProjectionInv, RepairInv, NEW b, b = best, Browser \/ Opens
  PROVE  LoopOK(client, net)' /\ (b # None => Mends(client, net, FALSE, b)')
<1>1. CASE Renegotiate \/ Opens
  <2>1. PICK c : c = client
    OBVIOUS
  <2>2. PICK n : n = net
    OBVIOUS
  <2>3. PICK w \in BOOLEAN : w = TRUE
    OBVIOUS
  <2>4. Continue(c, n, w) /\ UNCHANGED feed
    BY <1>1, <2>1, <2>2, <2>3 DEF Renegotiate, Opens
  <2>5. c \in ClientKind /\ n = [r \in Reader |-> n[r]]
    BY <2>1, <2>2 DEF ProjectionInv, ClientHolds, NetHolds
  <2>6. LoopOK(c, n) /\ Mends(c, n, w, b)
    BY <2>1, <2>2, <2>3 DEF RepairInv, Mends
  <2> QED BY <2>4, <2>5, <2>6, ContinueMends
<1>2. ASSUME NEW r \in Reader, Write(r) \/ WriteFails(r)
      PROVE  LoopOK(client, net)' /\ (b # None => Mends(client, net, FALSE, b)')
  <2>1. /\ client' = client /\ UNCHANGED feed /\ r # Get
        /\ net' = [net EXCEPT ![r] = None] \/ net' = [net EXCEPT ![r] = Request(client.status)]
    BY <1>2 DEF Write, WriteFails
  <2>2. net'[Get] = net[Get]
    BY <2>1, GetAssumption DEF ProjectionInv, NetHolds
  <2>3. Answers(net, b) => Answers(net, b)'
    BY <2>1, <2>2, SameAnswers
  <2> QED BY <2>1, <2>2, <2>3, AloneMends
<1>3. CASE Forget
  <2>1. client'.projection = None /\ net'[Get] = None
    BY <1>3, GetAssumption DEF Forget, Fresh0
  <2> QED BY <2>1 DEF LoopOK, Mends
<1>4. CASE Browser
  BY <1>1, <1>2, <1>3, <1>4, EventArrivesMends, SnapshotArrivesMends, RefreshFailsMends, LoopSettledMends,
     WriteReturnsMends DEF Browser
<1> QED BY <1>1, <1>4

\* What the socket and the daemon do: the catalog never hands out what is older than it.
LEMMA OthersMend ==
  ASSUME ProjectionInv, RepairInv, NEW b, b = best, Socket \/ Daemon, ~Opens
  PROVE  LoopOK(client, net)' /\ (b # None => Mends(client, net, FALSE, b)')
<1>0. client \in ClientKind /\ net \in [Reader -> {None} \cup NetKind] /\ FeedOK
  BY DEF ProjectionInv, ClientHolds, NetHolds
<1>1. UNCHANGED <<client.projection, client.loop, client.queued, client.failed>>
  <2>1. client' = client \/ client' = [client EXCEPT !.anchored = FALSE]
    BY DEF Socket, Connect, Joins, Breaks, Closes, Unanchored, Daemon, DaemonCommits, DaemonSends, DaemonEnds,
           DaemonStartsAfresh, RequestArrives, DaemonReplies
  <2> QED BY <1>0, <2>1 DEF ClientKind
<1>2. ASSUME NEW r \in Reader, RequestArrives(r)
      PROVE  (net'[Get] # None => net[Get] # None) /\ (b # None /\ Answers(net, b) => Answers(net, b)')
  <2>1. /\ net[r] # None /\ Ask(r)
        /\ net' = [net EXCEPT ![r].arrived = TRUE, ![r].joined = joined]
    BY <1>2 DEF RequestArrives
  <2>2. CASE r = Get
    <3>1. asked'[Get] # None
      BY <1>0, <2>1, <2>2, GetAssumption, NewestIs, NoneIsNoProjection DEF Ask, FeedOK
    <3> QED BY <2>1, <2>2, <3>1 DEF Answers
  <2>3. CASE r # Get
    <3>1. net'[Get] = net[Get] /\ asked'[Get] = asked[Get] /\ reply'[Get] = reply[Get]
      BY <1>0, <2>1, <2>3, GetAssumption DEF Ask, FeedOK
    <3> QED BY <3>1 DEF Answers
  <2> QED BY <2>2, <2>3
<1>3. ASSUME NEW r \in Reader, DaemonReplies(r)
      PROVE  net' = net /\ (b # None /\ Answers(net, b) => Answers(net, b)')
  <2>1. net' = net /\ (Answer(r) \/ Refuse(r))
    BY <1>3 DEF DaemonReplies
  <2>2. CASE r = Get /\ Answer(r)
    <3>1. PICK s : s = [epoch |-> epoch, revision |-> durable]
      OBVIOUS
    <3>2. reply'[Get] = s /\ s.epoch = epoch /\ s.revision = durable
      BY <1>0, <2>2, <3>1, GetAssumption DEF Answer, FeedOK
    <3>3. b # None => ~Older(s, b)
      BY <1>0, <3>2 DEF RepairInv, BestOK, Reached, Older, AnswerKind, FeedOK
    <3> QED BY <2>1, <3>2, <3>3 DEF Answers
  <2>3. CASE r = Get /\ Refuse(r)
    <3>1. reply'[Get] = Failed
      BY <1>0, <2>3, GetAssumption DEF Refuse, FeedOK
    <3> QED BY <2>1, <3>1 DEF Answers
  <2>4. CASE r # Get
    <3>1. asked'[Get] = asked[Get] /\ reply'[Get] = reply[Get]
      BY <1>0, <2>1, <2>4, GetAssumption DEF Answer, Refuse, FeedOK
    <3> QED BY <2>1, <3>1 DEF Answers
  <2> QED BY <2>1, <2>2, <2>3, <2>4
<1>4. ASSUME Unanchored
      PROVE  net'[Get] # None => net[Get] # None /\ net'[Get].arrived = net[Get].arrived
  BY <1>0, <1>4, GetAssumption DEF Unanchored, NetKind
<1>5. CASE DaemonEnds
  <2>1. /\ Unanchored /\ asked' = [r \in Reader |-> None]
        /\ reply' = [r \in Reader |-> IF asked[r] = None THEN reply[r] ELSE Failed]
    BY <1>5 DEF DaemonEnds, End, Hangup
  <2>2. reply'[Get] = IF asked[Get] = None THEN reply[Get] ELSE Failed
    BY <2>1, GetAssumption
  <2>3. Answers(net, b) => Answers(net, b)'
    BY <1>4, <2>1, <2>2 DEF Answers
  <2> QED BY <1>1, <1>4, <2>1, <2>3, AloneMends
<1>6. CASE Breaks \/ Closes
  <2>1. Unanchored /\ UNCHANGED feed
    BY <1>6 DEF Breaks, Closes
  <2> QED BY <1>1, <1>4, <2>1, SameAnswers, AloneMends
<1>7. CASE Connect \/ Joins \/ DaemonCommits \/ DaemonSends \/ DaemonStartsAfresh
  <2>1. UNCHANGED <<net, asked, reply>>
    BY <1>7 DEF Connect, Joins, DaemonCommits, DaemonSends, DaemonStartsAfresh, Commit, Send, NewEpoch, feed
  <2>2. Answers(net, b) => Answers(net, b)'
    BY <2>1 DEF Answers
  <2> QED BY <1>1, <2>1, <2>2, AloneMends
<1>8. ASSUME NEW r \in Reader, RequestArrives(r) \/ DaemonReplies(r)
      PROVE  LoopOK(client, net)' /\ (b # None => Mends(client, net, FALSE, b)')
  BY <1>1, <1>2, <1>3, <1>8, AloneMends
<1> QED BY <1>5, <1>6, <1>7, <1>8 DEF Socket, Daemon

LEMMA RepairStepOK == ASSUME ProjectionInv, RepairInv, [ProjectionNext]_vars PROVE RepairInv'
<1>1. PICK b : b = best
  OBVIOUS
<1>2. LoopOK(client, net)' /\ (b # None => Mends(client, net, FALSE, b)')
  <2>1. CASE UNCHANGED vars
    <3>1. UNCHANGED <<client, net, feed>>
      BY <2>1 DEF vars
    <3> QED BY <1>1, <3>1, SameAnswers, AloneMends
  <2>2. CASE Browser \/ Socket \/ Daemon
    BY <1>1, <2>2, BrowserMends, OthersMend
  <2> QED BY <2>1, <2>2 DEF ProjectionNext
<1>3. ProjectionInv'
  BY ProjectionStepOK
<1> QED BY <1>1, <1>2, <1>3, MendingIsEnough

\* For any readers, buffers and histories: a projection that a late event or answer of a former
\* epoch has put behind what it has shown is not left there.  Another round of the refresh loop
\* is asked for, or the one under way gets an answer that is not older, unless the last failed.
THEOREM GoingBackIsAlwaysRepaired == ProjectionSpec => []GoingBackIsRepaired
<1>1. ProjectionInit => RepairInv
  BY GetAssumption DEF ProjectionInit, RepairInv, BestOK, LoopOK
<1>2. RepairInv => GoingBackIsRepaired
  BY DEF RepairInv, BestOK, Mends, Answers, GoingBackIsRepaired, Behind, Repairing, Returned, Over
<1> QED BY <1>1, <1>2, RepairStepOK, ProjectionInvHolds, PTL DEF ProjectionSpec

-----------------------------------------------------------------------------
(* Notifications: kinds *)

ContentKind == [notes : SUBSET Nat, discarded : Nat, through : [note : Nat, mark : Nat]]
BucketKind == [session : NoteSession, notes : SUBSET Nat, discarded : Nat]

DeltaKind ==
  [kind : {"added", "dismissed", "cleared", "resync"}, notes : SUBSET Nat, gone : SUBSET Nat]

InboxEvent == [instance : Nat, revision : Nat, delta : DeltaKind, content : ContentKind]
InboxAnswer == [instance : Nat, revision : Nat, content : ContentKind]
InboxKind == [status : {"loading", "fresh", "stale"}, instance : Nat, revision : Nat, content : ContentKind]

FetchKind ==
  [phase : {"none", "asked", "answered"}, trailing : BOOLEAN, events : Seq(InboxEvent),
   answer : {<<>>} \cup InboxAnswer]

DismissalKind ==
  [phase : {"none", "asked", "answered"}, all : BOOLEAN, instance : Nat,
   through : [note : Nat, mark : Nat], current : BOOLEAN, answer : {<<>>} \cup InboxAnswer]

-----------------------------------------------------------------------------
(* Notifications: what holds, of the instance i whose inbox of Viewed has the revision r *)

\* h is what the inbox has held at each revision, now c.
History(h, r, c) ==
  /\ h \in [0..r -> ContentKind] /\ h[r] = c
  /\ \A k \in 0..r : \A n \in h[k].notes : n <= h[k].through.note

\* delta leads from the notes of one revision to those of the next, or to a refresh.
Tells(delta, before, after) ==
  /\ delta.kind = "cleared" => after = {}
  /\ delta.kind \in {"added", "dismissed"} => Latest((before \cup delta.notes) \ delta.gone) = after

EventHolds(e, h, i, r) ==
  /\ e.instance <= i
  /\ e.instance = i =>
       /\ e.revision \in 1..r /\ e.content = h[e.revision]
       /\ Tells(e.delta, h[e.revision - 1].notes, h[e.revision].notes)

SnapshotHolds(s, h, i, r) ==
  /\ s.instance <= i
  /\ s.instance = i => s.revision \in 0..r /\ s.content = h[s.revision]

BoxHolds(b, h, i, r) ==
  /\ b.instance <= i
  /\ b.status = "fresh" => SnapshotHolds(b, h, i, r)

\* The user has been shown what box and dismissal name.
SeenBy(s, b, d, i) ==
  /\ s \in [note : Nat, mark : Nat]
  /\ b.status = "fresh" /\ b.instance = i =>
       b.content.through.note <= s.note /\ b.content.through.mark <= s.mark
  /\ d.instance <= i
  /\ d.phase = "asked" /\ d.instance = i => d.through.note <= s.note /\ d.through.mark <= s.mark

FetchHolds(f, h, i, r) ==
  /\ f \in FetchKind
  /\ \A k \in DOMAIN f.events : EventHolds(f.events[k], h, i, r)
  /\ f.phase = "answered" => f.answer # <<>> /\ SnapshotHolds(f.answer, h, i, r)

DismissalHolds(d, h, i, r) ==
  /\ d \in DismissalKind
  /\ d.phase = "answered" => d.answer # <<>> /\ SnapshotHolds(d.answer, h, i, r)

WireHolds(w, h, i, r) == w \in Seq(InboxEvent) /\ \A k \in DOMAIN w : EventHolds(w[k], h, i, r)

BrowserHolds(w, b, f, d, h, i, r) ==
  /\ WireHolds(w, h, i, r) /\ b \in InboxKind /\ BoxHolds(b, h, i, r)
  /\ FetchHolds(f, h, i, r) /\ DismissalHolds(d, h, i, r)

\* What the inbox of Viewed has been, and what the browser has of it.
Known(w, b, f, d, i, r, c) ==
  \E h : History(h, r, c) /\ BrowserHolds(w, b, f, d, h, i, r)

StoreOK ==
  /\ instance \in Nat \ {0} /\ lastNote \in Nat
  /\ buckets \in Seq(BucketKind) /\ Len(buckets) <= 2
  /\ \A i \in DOMAIN buckets : buckets[i].notes \subseteq 1..lastNote
  /\ revision \in [NoteSession -> Nat] /\ watermark \in [NoteSession -> Nat]
  /\ streaming \in BOOLEAN

NotesInv ==
  /\ StoreOK
  /\ Known(wire, inbox, fetch, dismissal, instance, revision[Viewed], Content(buckets, watermark, Viewed))
  /\ SeenBy(shown, inbox, dismissal, instance)
-----------------------------------------------------------------------------
(* Notifications: the latest of a set of notes *)

LEMMA GreatestOf ==
  ASSUME NEW n \in Nat, NEW B \in SUBSET (0..n), B # {}
  PROVE  \E k \in B : \A j \in B : j <= k
<1> DEFINE C == {n - k : k \in B}
<1>0. \A k \in B : k \in Nat /\ k <= n /\ n - k \in 0..n
  OBVIOUS
<1>1. C \in SUBSET (0..n) /\ C # {}
  BY <1>0
<1>2. PICK c \in C : \A j \in C : c <= j
  <2> HIDE DEF C
  <2> QED BY <1>1, LeastOf
<1>3. PICK k \in B : c = n - k
  OBVIOUS
<1>4. ASSUME NEW j \in B PROVE j <= k
  <2>1. n - j \in C /\ j \in Nat /\ k \in Nat
    BY <1>0
  <2>2. n - k <= n - j
    <3> HIDE DEF C
    <3> QED BY <1>2, <1>3, <2>1
  <2> QED BY <2>1, <2>2
<1> QED BY <1>4

\* Parts of a set of notes are no larger.
LEMMA Parts ==
  ASSUME NEW n \in Nat, NEW B \in SUBSET (1..n), NEW A \in SUBSET B
  PROVE  /\ IsFiniteSet(A) /\ Cardinality(A) \in Nat
         /\ Cardinality(B) \in Nat /\ Cardinality(A) <= Cardinality(B)
<1>1. IsFiniteSet(1..n)
  BY FS_Interval
<1>2. IsFiniteSet(B)
  BY <1>1, FS_Subset
<1> QED BY <1>2, FS_Subset, FS_CardinalityType

LEMMA NewestNoteOf ==
  ASSUME NEW n \in Nat, NEW S \in SUBSET (1..n)
  PROVE  NewestNote(S) \in Nat /\ \A m \in S : m <= NewestNote(S)
<1>1. CASE S = {}
  BY <1>1 DEF NewestNote
<1>2. CASE S # {}
  <2>1. \E k \in S : \A m \in S : m <= k
    <3>1. S \in SUBSET (0..n)
      OBVIOUS
    <3> QED BY <1>2, <3>1, GreatestOf
  <2>2. NewestNote(S) = CHOOSE k \in S : \A m \in S : m <= k
    BY <1>2 DEF NewestNote
  <2>3. NewestNote(S) \in S /\ \A m \in S : m <= NewestNote(S)
    BY <2>1, <2>2
  <2>4. \A m \in S : m \in Nat
    OBVIOUS
  <2> QED BY <2>3, <2>4
<1> QED BY <1>1, <1>2

Later(S, k) == {m \in S : m > k}

LEMMA LatestIs ==
  ASSUME NEW S
  PROVE  Latest(S) \subseteq S /\ \A k \in S : k \in Latest(S) <=> Cardinality(Later(S, k)) < Limit
BY DEF Latest, Later

\* What is among the latest of more is among the latest of less.
LEMMA LatestOfPart ==
  ASSUME NEW n \in Nat, NEW B \in SUBSET (1..n), NEW A \in SUBSET B
  PROVE  Latest(B) \cap A \subseteq Latest(A)
<1> SUFFICES ASSUME NEW k \in A, k \in Latest(B) PROVE k \in Latest(A)
  OBVIOUS
<1>1. Later(B, k) \in SUBSET (1..n) /\ Later(A, k) \in SUBSET Later(B, k)
  BY DEF Later
<1>2. Cardinality(Later(A, k)) <= Cardinality(Later(B, k))
      /\ Cardinality(Later(A, k)) \in Nat /\ Cardinality(Later(B, k)) \in Nat
  BY <1>1, Parts
<1> QED BY <1>2, LatestIs, LimitAssumption

LEMMA LatestOfLatest ==
  ASSUME NEW n \in Nat, NEW B \in SUBSET (1..n)
  PROVE  Latest(Latest(B)) = Latest(B)
<1>1. Latest(B) \in SUBSET B
  BY LatestIs
<1>2. Latest(B) \cap Latest(B) \subseteq Latest(Latest(B))
  BY <1>1, LatestOfPart
<1> QED BY <1>2, LatestIs

\* The latest are after what is not among them, and there are enough of them.
LEMMA LatestAreAfter ==
  ASSUME NEW n \in Nat, NEW B \in SUBSET (1..n), NEW k \in B, k \notin Latest(B)
  PROVE  Cardinality(Later(Latest(B), k)) \in Nat /\ Cardinality(Later(Latest(B), k)) >= Limit
<1>0. \A i \in B : i \in Nat /\ i \in 0..n
  OBVIOUS
<1>1. PICK j \in B \ Latest(B) : \A i \in B \ Latest(B) : i <= j
  <2>1. B \ Latest(B) \in SUBSET (0..n) /\ B \ Latest(B) # {}
    BY <1>0
  <2> QED BY <2>1, GreatestOf
<1>2. k <= j /\ j \in Nat /\ k \in Nat
  BY <1>0, <1>1
<1>3. Later(B, j) \in SUBSET Later(Latest(B), k)
  <2>1. ASSUME NEW i \in B, i > j PROVE i \in Latest(B) /\ i > k
    BY <1>0, <1>1, <1>2, <2>1
  <2> QED BY <2>1 DEF Later
<1>4. Later(Latest(B), k) \in SUBSET (1..n)
  BY LatestIs DEF Later
<1>5. Cardinality(Later(B, j)) \in Nat /\ ~(Cardinality(Later(B, j)) < Limit)
  <2>1. Later(B, j) \in SUBSET B
    BY DEF Later
  <2> QED BY <1>1, <2>1, LatestIs, Parts
<1>6. /\ Cardinality(Later(B, j)) <= Cardinality(Later(Latest(B), k))
      /\ Cardinality(Later(Latest(B), k)) \in Nat
  BY <1>3, <1>4, Parts
<1> QED BY <1>5, <1>6, LimitAssumption

\* The latest of what came after t.
LEMMA LatestAfter ==
  ASSUME NEW n \in Nat, NEW B \in SUBSET (1..n), NEW t \in Nat
  PROVE  Latest(Later(B, t)) = Later(Latest(B), t)
<1>1. ASSUME NEW k \in Later(B, t) PROVE Later(Later(B, t), k) = Later(B, k)
  <2>1. \A i \in B : i \in Nat
    OBVIOUS
  <2>2. k \in Nat /\ k > t
    BY <2>1 DEF Later
  <2>3. \A i \in B : i > k => i > t
    BY <2>1, <2>2
  <2> QED BY <2>3 DEF Later
<1>2. ASSUME NEW k \in Later(B, t) PROVE k \in Latest(Later(B, t)) <=> k \in Latest(B)
  <2>1. k \in B
    BY DEF Later
  <2> QED BY <1>1, <2>1, LatestIs
<1> QED BY <1>2, LatestIs DEF Later

\* What is dropped is among the latest no more.
LEMMA LatestWithout ==
  ASSUME NEW n \in Nat, NEW B \in SUBSET (1..n), NEW k, Latest(B \ {k}) \subseteq Latest(B)
  PROVE  Latest(Latest(B) \ {k}) = Latest(B \ {k})
<1>1. Latest(B \ {k}) = Latest(B) \ {k}
  <2>1. Latest(B) \cap (B \ {k}) \subseteq Latest(B \ {k})
    BY LatestOfPart
  <2> QED BY <2>1, LatestIs
<1>2. Latest(Latest(B \ {k})) = Latest(B \ {k})
  <2>1. B \ {k} \in SUBSET (1..n)
    OBVIOUS
  <2> QED BY <2>1, LatestOfLatest
<1> QED BY <1>1, <1>2

\* B becomes C by the note n + 1, and what the bucket b had, its latest excepted, may be gone.
Gains(B, C, b, n) ==
  /\ C \subseteq B \cup {n + 1} /\ n + 1 \in C /\ b \in SUBSET B
  /\ Latest(b \cup {n + 1}) \subseteq C
  /\ \A k \in B \ C : k \in b \ Latest(b \cup {n + 1})

LEMMA LatestWith ==
  ASSUME NEW n \in Nat, NEW B \in SUBSET (1..n), NEW C, NEW b, Gains(B, C, b, n)
  PROVE  Latest((Latest(B) \cup {n + 1}) \ (Latest(B) \ Latest(C))) = Latest(C)
<1> USE DEF Gains
<1>0. \A i \in B : i \in Nat /\ i <= n /\ i \in 1..(n + 1)
  OBVIOUS
<1>1. /\ C \in SUBSET (1..(n + 1)) /\ b \cup {n + 1} \in SUBSET (1..(n + 1))
      /\ n + 1 \in Nat /\ n + 1 \notin B /\ \A i \in C : i \in Nat /\ i <= n + 1
  BY <1>0
<1>2. ASSUME NEW m \in Latest(C), m # n + 1 PROVE m \in Latest(B)
  <2>1. m \in B /\ m \in C /\ m \in Nat /\ Later(C, m) \in SUBSET (1..(n + 1))
    <3>1. m \in C /\ m \in B
      BY <1>2, LatestIs
    <3> QED BY <1>0, <1>1, <3>1 DEF Later
  <2>2. Cardinality(Later(C, m)) < Limit /\ Cardinality(Later(C, m)) \in Nat
    BY <1>1, <2>1, LatestIs, Parts
  <2>3. ASSUME NEW k \in Later(B, m), k \notin C PROVE FALSE
    <3>1. k \in B /\ k > m /\ k \in Nat
      BY <1>0 DEF Later
    <3>2. k \in b \cup {n + 1} /\ k \notin Latest(b \cup {n + 1})
      BY <2>3, <3>1
    <3>3. /\ Cardinality(Later(Latest(b \cup {n + 1}), k)) \in Nat
          /\ Cardinality(Later(Latest(b \cup {n + 1}), k)) >= Limit
      BY <1>1, <3>2, LatestAreAfter
    <3>4. Later(Latest(b \cup {n + 1}), k) \in SUBSET Later(C, m)
      <4>1. ASSUME NEW i \in Later(Latest(b \cup {n + 1}), k) PROVE i \in Later(C, m)
        <5>1. i \in C /\ i > k /\ i \in Nat
          BY <1>1 DEF Later
        <5> QED BY <2>1, <3>1, <5>1 DEF Later
      <4> QED BY <4>1
    <3>5. Cardinality(Later(Latest(b \cup {n + 1}), k)) <= Cardinality(Later(C, m))
      BY <1>1, <2>1, <3>4, Parts
    <3> QED BY <2>2, <3>3, <3>5, LimitAssumption
  <2>4. Later(B, m) \in SUBSET Later(C, m)
    BY <2>3 DEF Later
  <2>5. Cardinality(Later(B, m)) <= Cardinality(Later(C, m)) /\ Cardinality(Later(B, m)) \in Nat
    BY <1>1, <2>1, <2>4, Parts
  <2> QED BY <2>1, <2>2, <2>5, LatestIs, LimitAssumption
<1>3. n + 1 \in Latest(C)
  <2>1. \A i \in C : ~(i > n + 1)
    BY <1>1
  <2>2. Later(C, n + 1) = {}
    BY <2>1 DEF Later
  <2>3. Cardinality(Later(C, n + 1)) = 0
    BY <2>2, FS_EmptySet
  <2> QED BY <2>3, LatestIs, LimitAssumption
<1>4. (Latest(B) \cup {n + 1}) \ (Latest(B) \ Latest(C)) = Latest(C)
  <2>1. n + 1 \notin Latest(B)
    BY <1>1, LatestIs
  <2> QED BY <1>2, <1>3, <2>1
<1> HIDE DEF Gains
<1> QED BY <1>1, <1>4, LatestOfLatest

-----------------------------------------------------------------------------
(* Notifications: what buckets show *)

BucketsOK(bs, l) ==
  /\ bs \in Seq(BucketKind) /\ Len(bs) <= 2
  /\ \A i \in DOMAIN bs : bs[i].notes \subseteq 1..l

LEMMA BucketsShow ==
  ASSUME NEW l \in Nat, NEW bs, BucketsOK(bs, l), NEW marks \in [NoteSession -> Nat], NEW x \in NoteSession
  PROVE  /\ Entries(bs, x) \in SUBSET (1..l) /\ Retained(bs, x) \in SUBSET (1..l)
         /\ Discarded(bs, x) \in Nat
         /\ Content(bs, marks, x) \in ContentKind
         /\ Content(bs, marks, x).notes = Retained(bs, x)
         /\ \A n \in Retained(bs, x) : n <= Content(bs, marks, x).through.note
<1>1. \A i \in DOMAIN bs : bs[i] \in BucketKind /\ bs[i].notes \subseteq 1..l
  BY DEF BucketsOK
<1>2. Entries(bs, x) \in SUBSET (1..l)
  BY <1>1 DEF Entries, Of
<1>3. Retained(bs, x) \in SUBSET (1..l)
  BY <1>2, LatestIs DEF Retained
<1>4. \A i \in {1, 2} : Discards(bs, x, i) \in Nat
  BY <1>1 DEF Discards, Of, BucketKind
<1>5. Discarded(bs, x) \in Nat
  BY <1>4 DEF Discarded
<1>6. /\ NewestNote(Retained(bs, x)) \in Nat
      /\ \A n \in Retained(bs, x) : n <= NewestNote(Retained(bs, x))
  BY <1>3, NewestNoteOf
<1>7. Retained(bs, x) \in SUBSET Nat
  BY <1>3
<1> QED BY <1>2, <1>3, <1>5, <1>6, <1>7 DEF Content, ContentKind

\* What one bucket shows of a session.
NotesOf(b, x) == IF b.session = x THEN b.notes ELSE {}
LossOf(b, x) == IF b.session = x THEN b.discarded ELSE 0

LEMMA NoBuckets ==
  ASSUME NEW x
  PROVE  Entries(<<>>, x) = {} /\ Discarded(<<>>, x) = 0 /\ Retained(<<>>, x) = {}
<1>1. Of(<<>>, x) = {}
  BY DEF Of
<1>2. Entries(<<>>, x) = {} /\ Discarded(<<>>, x) = 0
  BY <1>1 DEF Entries, Discarded, Discards
<1> QED BY <1>2, LatestIs DEF Retained

LEMMA OneBucket ==
  ASSUME NEW b \in BucketKind, NEW x
  PROVE  Entries(<<b>>, x) = NotesOf(b, x) /\ Discarded(<<b>>, x) = LossOf(b, x)
<1>1. DOMAIN <<b>> = {1} /\ <<b>>[1] = b
  OBVIOUS
<1>2. Of(<<b>>, x) = IF b.session = x THEN {1} ELSE {}
  BY <1>1 DEF Of
<1>3. Entries(<<b>>, x) = NotesOf(b, x)
  BY <1>1, <1>2 DEF Entries, NotesOf
<1>4. Discards(<<b>>, x, 1) = LossOf(b, x) /\ Discards(<<b>>, x, 2) = 0 /\ LossOf(b, x) \in Nat
  BY <1>1, <1>2 DEF Discards, LossOf, BucketKind
<1> QED BY <1>3, <1>4 DEF Discarded

LEMMA TwoBuckets ==
  ASSUME NEW b \in BucketKind, NEW c \in BucketKind, NEW x
  PROVE  /\ Entries(<<b, c>>, x) = NotesOf(b, x) \cup NotesOf(c, x)
         /\ Discarded(<<b, c>>, x) = LossOf(b, x) + LossOf(c, x)
<1>1. DOMAIN <<b, c>> = {1, 2} /\ <<b, c>>[1] = b /\ <<b, c>>[2] = c
  OBVIOUS
<1>2. Of(<<b, c>>, x) = {i \in {1, 2} : <<b, c>>[i].session = x}
  BY <1>1 DEF Of
<1>3. Entries(<<b, c>>, x) = NotesOf(b, x) \cup NotesOf(c, x)
  BY <1>1, <1>2 DEF Entries, NotesOf
<1>4. Discards(<<b, c>>, x, 1) = LossOf(b, x) /\ Discards(<<b, c>>, x, 2) = LossOf(c, x)
  BY <1>1, <1>2 DEF Discards, LossOf
<1> QED BY <1>3, <1>4 DEF Discarded

\* The buckets are none, one or two.
LEMMA BucketsAre ==
  ASSUME NEW l \in Nat, NEW bs, BucketsOK(bs, l)
  PROVE  \/ bs = <<>> /\ Len(bs) = 0
         \/ Len(bs) = 1 /\ \E b \in BucketKind : bs = <<b>> /\ bs[1] = b /\ b.notes \subseteq 1..l
         \/ Len(bs) = 2 /\ \E b, c \in BucketKind :
              bs = <<b, c>> /\ bs[1] = b /\ bs[2] = c /\ b.notes \subseteq 1..l /\ c.notes \subseteq 1..l
<1>1. bs \in Seq(BucketKind) /\ Len(bs) \in Nat /\ Len(bs) <= 2 /\ DOMAIN bs = 1..Len(bs)
  BY DEF BucketsOK
<1>2. \A i \in 1..Len(bs) : bs[i] \in BucketKind /\ bs[i].notes \subseteq 1..l
  BY <1>1 DEF BucketsOK
<1>3. CASE Len(bs) = 0
  BY <1>1, <1>3
<1>4. CASE Len(bs) = 1
  <2>1. bs = <<bs[1]>>
    BY <1>1, <1>4
  <2> QED BY <1>1, <1>2, <1>4, <2>1
<1>5. CASE Len(bs) = 2
  <2>1. bs = <<bs[1], bs[2]>>
    BY <1>1, <1>5
  <2> QED BY <1>1, <1>2, <1>5, <2>1
<1> QED BY <1>1, <1>3, <1>4, <1>5

LEMMA StoreHolds ==
  ASSUME StoreOK
  PROVE  /\ lastNote \in Nat /\ BucketsOK(buckets, lastNote) /\ watermark \in [NoteSession -> Nat]
         /\ revision[Viewed] \in Nat /\ instance \in Nat \ {0}
         /\ Content(buckets, watermark, Viewed) \in ContentKind
BY ViewedAssumption, BucketsShow DEF StoreOK, BucketsOK

-----------------------------------------------------------------------------
(* Notifications: a store that changes *)

LEMMA HistoryGrows ==
  ASSUME NEW r \in Nat, NEW i \in Nat, NEW h, NEW c \in ContentKind, NEW old,
         History(h, r, old), \A n \in c.notes : n <= c.through.note,
         NEW h2, h2 = [k \in 0..(r + 1) |-> IF k = r + 1 THEN c ELSE h[k]]
  PROVE  /\ History(h2, r + 1, c)
         /\ \A e \in InboxEvent : EventHolds(e, h, i, r) => EventHolds(e, h2, i, r + 1)
         /\ \A s : s.revision \in Nat /\ SnapshotHolds(s, h, i, r) => SnapshotHolds(s, h2, i, r + 1)
         /\ h2[r] = old
<1>1. \A k \in 0..r : k \in 0..(r + 1) /\ k # r + 1 /\ h2[k] = h[k]
  OBVIOUS
<1>2. r + 1 \in 0..(r + 1) /\ h2[r + 1] = c /\ \A k \in 0..(r + 1) : k = r + 1 \/ k \in 0..r
  OBVIOUS
<1>3. History(h2, r + 1, c)
  <2>1. h2 \in [0..(r + 1) -> ContentKind]
    BY <1>1, <1>2 DEF History
  <2> QED BY <1>1, <1>2, <2>1 DEF History
<1>4. ASSUME NEW e \in InboxEvent, EventHolds(e, h, i, r) PROVE EventHolds(e, h2, i, r + 1)
  <2>1. CASE e.instance = i
    <3>1. e.revision \in 1..r /\ e.revision \in 0..r /\ e.revision - 1 \in 0..r /\ e.revision \in 1..(r + 1)
      BY <1>4, <2>1 DEF EventHolds
    <3> QED BY <1>1, <1>4, <3>1 DEF EventHolds
  <2> QED BY <1>4, <2>1 DEF EventHolds
<1>5. ASSUME NEW s, SnapshotHolds(s, h, i, r) PROVE SnapshotHolds(s, h2, i, r + 1)
  BY <1>1, <1>5 DEF SnapshotHolds
<1>6. h2[r] = old
  BY <1>1 DEF History
<1> QED BY <1>3, <1>4, <1>5, <1>6

LEMMA BrowserGrows ==
  ASSUME NEW r \in Nat, NEW i \in Nat, NEW h, NEW c \in ContentKind, NEW old,
         History(h, r, old), \A n \in c.notes : n <= c.through.note,
         NEW h2, h2 = [k \in 0..(r + 1) |-> IF k = r + 1 THEN c ELSE h[k]],
         NEW w, NEW b, NEW f, NEW d, BrowserHolds(w, b, f, d, h, i, r)
  PROVE  BrowserHolds(w, b, f, d, h2, i, r + 1)
<1>1. /\ \A e \in InboxEvent : EventHolds(e, h, i, r) => EventHolds(e, h2, i, r + 1)
      /\ \A s : s.revision \in Nat /\ SnapshotHolds(s, h, i, r) => SnapshotHolds(s, h2, i, r + 1)
  BY HistoryGrows
<1>2. /\ w \in Seq(InboxEvent) /\ b \in InboxKind /\ f \in FetchKind /\ d \in DismissalKind
      /\ f.events \in Seq(InboxEvent)
  BY DEF BrowserHolds, WireHolds, FetchHolds, DismissalHolds, FetchKind
<1>3. \A k \in DOMAIN w : EventHolds(w[k], h2, i, r + 1)
  BY <1>1, <1>2 DEF BrowserHolds, WireHolds
<1>4. \A k \in DOMAIN f.events : EventHolds(f.events[k], h2, i, r + 1)
  <2>1. PICK es \in Seq(InboxEvent) : es = f.events
    BY <1>2
  <2>2. \A k \in DOMAIN es : es[k] \in InboxEvent /\ EventHolds(es[k], h, i, r)
    BY <2>1 DEF BrowserHolds, FetchHolds
  <2> QED BY <1>1, <2>1, <2>2
<1>5. BoxHolds(b, h2, i, r + 1)
  BY <1>1, <1>2 DEF BrowserHolds, BoxHolds, InboxKind
<1>6. f.phase = "answered" => f.answer # <<>> /\ SnapshotHolds(f.answer, h2, i, r + 1)
  BY <1>1, <1>2 DEF BrowserHolds, FetchHolds, FetchKind, InboxAnswer
<1>7. d.phase = "answered" => d.answer # <<>> /\ SnapshotHolds(d.answer, h2, i, r + 1)
  BY <1>1, <1>2 DEF BrowserHolds, DismissalHolds, DismissalKind, InboxAnswer
<1> QED BY <1>2, <1>3, <1>4, <1>5, <1>6, <1>7 DEF BrowserHolds, WireHolds, FetchHolds, DismissalHolds

\* The deltas of a change from the notes kept before to those kept after, for the inbox of Viewed.
Tallies(deltas, bs, marks) ==
  /\ Viewed \notin DOMAIN deltas =>
       Content(bs, marks, Viewed) = Content(buckets, watermark, Viewed)
  /\ Viewed \in DOMAIN deltas =>
       /\ deltas[Viewed] \in DeltaKind
       /\ Tells(deltas[Viewed], Retained(buckets, Viewed), Retained(bs, Viewed))

LEMMA BecomesOK ==
  ASSUME StoreOK, Known(wire, inbox, fetch, dismissal, instance, revision[Viewed],
                        Content(buckets, watermark, Viewed)),
         NEW bs, NEW marks \in [NoteSession -> Nat], NEW deltas, Becomes(bs, marks, deltas),
         UNCHANGED <<instance, streaming>>, lastNote' \in Nat, BucketsOK(bs, lastNote'),
         Tallies(deltas, bs, marks)
  PROVE  /\ StoreOK' /\ Content(bs, marks, Viewed) \in ContentKind /\ revision'[Viewed] \in Nat
         /\ Known(wire', inbox, fetch, dismissal, instance, revision'[Viewed], Content(bs, marks, Viewed))
<1>1. /\ buckets' = bs /\ watermark' = marks
      /\ revision' = [x \in NoteSession |-> IF x \in DOMAIN deltas THEN revision[x] + 1 ELSE revision[x]]
  BY DEF Becomes
<1>2. StoreOK'
  BY <1>1 DEF StoreOK, BucketsOK
<1>3. PICK c : c = Content(bs, marks, Viewed)
  OBVIOUS
<1>4. /\ c \in ContentKind /\ c.notes = Retained(bs, Viewed)
      /\ \A n \in c.notes : n <= c.through.note
  BY <1>3, ViewedAssumption, BucketsShow
<1>5. PICK r \in Nat : r = revision[Viewed]
  BY StoreHolds
<1>6. PICK i \in Nat : i = instance
  BY DEF StoreOK
<1>7. PICK old : old = Content(buckets, watermark, Viewed)
  OBVIOUS
<1>8. PICK h : History(h, r, old) /\ BrowserHolds(wire, inbox, fetch, dismissal, h, i, r)
  BY <1>5, <1>6, <1>7 DEF Known
<1>9. CASE Viewed \notin DOMAIN deltas
  <2>1. wire' = wire /\ revision'[Viewed] = r /\ c = old
    BY <1>1, <1>3, <1>5, <1>7, <1>9, ViewedAssumption DEF Becomes, Tallies
  <2> QED BY <1>2, <1>3, <1>4, <1>6, <1>8, <2>1 DEF Known
<1>10. CASE Viewed \in DOMAIN deltas
  <2>1. revision'[Viewed] = r + 1
    BY <1>1, <1>5, <1>10, ViewedAssumption
  <2>2. PICK h2 : h2 = [k \in 0..(r + 1) |-> IF k = r + 1 THEN c ELSE h[k]]
    OBVIOUS
  <2>3. History(h2, r + 1, c) /\ h2[r] = old
    BY <1>4, <1>8, <2>2, HistoryGrows
  <2>4. BrowserHolds(wire, inbox, fetch, dismissal, h2, i, r + 1)
    BY <1>4, <1>8, <2>2, BrowserGrows
  <2>5. PICK e : e = [instance |-> i, revision |-> r + 1, delta |-> deltas[Viewed], content |-> c]
    OBVIOUS
  <2>6. wire' = wire \/ wire' = Append(wire, e)
    BY <1>3, <1>6, <1>10, <2>1, <2>5 DEF Becomes
  <2>7. e \in InboxEvent /\ EventHolds(e, h2, i, r + 1)
    <3>1. e \in InboxEvent
      BY <1>4, <1>10, <2>5 DEF InboxEvent, Tallies
    <3>2. old.notes = Retained(buckets, Viewed)
      BY <1>7 DEF Content
    <3>3. Tells(e.delta, h2[r].notes, h2[r + 1].notes)
      BY <1>4, <1>10, <2>3, <2>5, <3>2 DEF Tallies, History
    <3>4. e.instance = i /\ e.revision = r + 1 /\ e.content = c /\ h2[r + 1] = c /\ (r + 1) - 1 = r
          /\ r + 1 \in 1..(r + 1)
      BY <2>3, <2>5 DEF History
    <3> QED BY <3>1, <3>3, <3>4 DEF EventHolds
  <2>8. BrowserHolds(wire', inbox, fetch, dismissal, h2, i, r + 1)
    <3>1. CASE wire' = wire
      BY <2>4, <3>1
    <3>2. CASE wire' = Append(wire, e)
      <4>1. wire \in Seq(InboxEvent) /\ \A k \in DOMAIN wire : EventHolds(wire[k], h2, i, r + 1)
        BY <2>4 DEF BrowserHolds, WireHolds
      <4>2. /\ wire' \in Seq(InboxEvent)
            /\ \A k \in DOMAIN wire' :
                 \/ k = Len(wire) + 1 /\ wire'[k] = e
                 \/ k \in DOMAIN wire /\ wire'[k] = wire[k]
        BY <2>7, <3>2, <4>1
      <4>3. \A k \in DOMAIN wire' : EventHolds(wire'[k], h2, i, r + 1)
        BY <2>7, <4>1, <4>2
      <4> QED BY <2>4, <4>2, <4>3 DEF BrowserHolds, WireHolds
    <3> QED BY <2>6, <3>1, <3>2
  <2> QED BY <1>2, <1>3, <1>4, <1>6, <2>1, <2>3, <2>8 DEF Known
<1> QED BY <1>9, <1>10

-----------------------------------------------------------------------------
(* Notifications: the steps of the store *)

\* The store changes, and its deltas tell it.
Stores ==
  \E bs, marks, deltas :
    /\ Becomes(bs, marks, deltas) /\ marks \in [NoteSession -> Nat]
    /\ BucketsOK(bs, lastNote') /\ Tallies(deltas, bs, marks)

\* bs shows of Viewed what the buckets show.
SameOfViewed(bs, marks) ==
  /\ Retained(bs, Viewed) = Retained(buckets, Viewed) /\ Discarded(bs, Viewed) = Discarded(buckets, Viewed)
  /\ marks[Viewed] = watermark[Viewed]

\* A store that shows nothing more of Viewed, after a mutation or with nothing to clear.
LEMMA ClearedTallies ==
  ASSUME NEW bs, NEW marks, NEW deltas, marks[Viewed] = watermark[Viewed],
         Retained(bs, Viewed) = {}, Discarded(bs, Viewed) = 0,
         Viewed \in DOMAIN deltas <=> Seen(buckets, Viewed) # <<{}, 0>>,
         Viewed \in DOMAIN deltas => deltas[Viewed] = Cleared
  PROVE  Tallies(deltas, bs, marks)
<1>1. Cleared \in DeltaKind /\ Tells(Cleared, Retained(buckets, Viewed), {})
  BY DEF Cleared, DeltaKind, Tells
<1>2. Viewed \notin DOMAIN deltas => Content(bs, marks, Viewed) = Content(buckets, watermark, Viewed)
  BY DEF Seen, Content
<1> QED BY <1>1, <1>2 DEF Tallies

\* A store that a refresh tells, if anything it shows of Viewed has changed.
LEMMA ResyncTallies ==
  ASSUME NEW bs, NEW marks, NEW deltas,
         Viewed \notin DOMAIN deltas => SameOfViewed(bs, marks),
         Viewed \in DOMAIN deltas => deltas[Viewed] = Resync
  PROVE  Tallies(deltas, bs, marks)
<1>1. Resync \in DeltaKind /\ Tells(Resync, Retained(buckets, Viewed), Retained(bs, Viewed))
  BY DEF Resync, DeltaKind, Tells
<1>2. Viewed \notin DOMAIN deltas => Content(bs, marks, Viewed) = Content(buckets, watermark, Viewed)
  BY DEF SameOfViewed, Content
<1> QED BY <1>1, <1>2 DEF Tallies

LEMMA ClearedOfIs ==
  ASSUME NEW S
  PROVE  /\ Viewed \in DOMAIN ClearedOf(S) <=> Viewed \in S /\ Seen(buckets, Viewed) # <<{}, 0>>
         /\ Viewed \in DOMAIN ClearedOf(S) => ClearedOf(S)[Viewed] = Cleared
BY DEF ClearedOf

LEMMA OneBucketOK ==
  ASSUME NEW l \in Nat, NEW b \in BucketKind, b.notes \subseteq 1..l
  PROVE  BucketsOK(<<b>>, l)
<1>1. <<b>> \in Seq(BucketKind) /\ Len(<<b>>) = 1 /\ DOMAIN <<b>> = {1} /\ <<b>>[1] = b
  OBVIOUS
<1> QED BY <1>1 DEF BucketsOK

LEMMA EmptyBucket ==
  ASSUME NEW x \in NoteSession
  PROVE  /\ Bucket(x, {}, 0) \in BucketKind
         /\ \A y : NotesOf(Bucket(x, {}, 0), y) = {} /\ LossOf(Bucket(x, {}, 0), y) = 0
BY DEF Bucket, BucketKind, NotesOf, LossOf

LEMMA OfOne ==
  ASSUME StoreOK, Len(buckets) = 1
  PROVE  \E b \in BucketKind : buckets = <<b>> /\ b.notes \subseteq 1..lastNote
<1>1. lastNote \in Nat /\ BucketsOK(buckets, lastNote)
  BY StoreHolds
<1> HIDE DEF StoreOK
<1>2. \/ buckets = <<>> /\ Len(buckets) = 0
      \/ Len(buckets) = 1 /\ \E b \in BucketKind : buckets = <<b>> /\ buckets[1] = b /\ b.notes \subseteq 1..lastNote
      \/ Len(buckets) = 2
  BY <1>1, BucketsAre
<1>3. 1 # 0 /\ 1 # 2
  OBVIOUS
<1> QED BY <1>2, <1>3, Zenon

LEMMA OfTwo ==
  ASSUME StoreOK, Replacing
  PROVE  \E p, c \in BucketKind :
           /\ buckets = <<p, c>> /\ p = Prior /\ c = Candidate
           /\ p.notes \subseteq 1..lastNote /\ c.notes \subseteq 1..lastNote
<1>1. lastNote \in Nat /\ BucketsOK(buckets, lastNote)
  BY StoreHolds
<1>2. \/ buckets = <<>> /\ Len(buckets) = 0
      \/ Len(buckets) = 1
      \/ Len(buckets) = 2 /\ \E b, c \in BucketKind :
              /\ buckets = <<b, c>> /\ buckets[1] = b /\ buckets[2] = c
              /\ b.notes \subseteq 1..lastNote /\ c.notes \subseteq 1..lastNote
  BY <1>1, BucketsAre
<1>3. 2 # 0 /\ 2 # 1 /\ Len(buckets) = 2
  BY DEF Replacing
<1> QED BY <1>2, <1>3, Zenon DEF Prior, Candidate

LEMMA RegisterStores ==
  ASSUME StoreOK, NEW x \in NoteSession, Register(x)
  PROVE  Stores
<1>1. PICK bs : bs = <<Bucket(x, {}, 0)>>
  OBVIOUS
<1>2. Becomes(bs, watermark, ClearedOf(NoteSession)) /\ lastNote' = lastNote
  BY <1>1 DEF Register
<1>3. BucketsOK(bs, lastNote)
  <2>1. Bucket(x, {}, 0).notes \subseteq 1..lastNote
    BY DEF Bucket
  <2> QED BY <1>1, <2>1, EmptyBucket, OneBucketOK, StoreHolds
<1>4. Entries(bs, Viewed) = {} /\ Discarded(bs, Viewed) = 0
  BY <1>1, EmptyBucket, OneBucket
<1>5. Retained(bs, Viewed) = {}
  BY <1>4, LatestIs DEF Retained
<1>6. Tallies(ClearedOf(NoteSession), bs, watermark)
  BY <1>4, <1>5, ClearedTallies, ClearedOfIs, ViewedAssumption
<1> QED BY <1>2, <1>3, <1>6, StoreHolds DEF Stores

LEMMA CloseStores ==
  ASSUME StoreOK, CloseNotes
  PROVE  Stores
<1>1. PICK bs : bs = <<>>
  OBVIOUS
<1>2. Becomes(bs, watermark, ClearedOf(NoteSession)) /\ lastNote' = lastNote
  BY <1>1 DEF CloseNotes
<1>3. BucketsOK(bs, lastNote)
  BY <1>1 DEF BucketsOK
<1>4. Tallies(ClearedOf(NoteSession), bs, watermark)
  BY <1>1, NoBuckets, ClearedTallies, ClearedOfIs, ViewedAssumption
<1> QED BY <1>2, <1>3, <1>4, StoreHolds DEF Stores

LEMMA BeginStores ==
  ASSUME StoreOK, NEW x \in NoteSession, BeginReplacement(x)
  PROVE  Stores
<1>1. PICK bs : bs = Append(buckets, Bucket(x, {}, 0))
  OBVIOUS
<1>2. PICK none : none = <<>>
  OBVIOUS
<1>3. Becomes(bs, watermark, none) /\ lastNote' = lastNote /\ Len(buckets) = 1
  BY <1>1, <1>2 DEF BeginReplacement
<1>4. PICK b \in BucketKind : buckets = <<b>> /\ b.notes \subseteq 1..lastNote
  BY <1>3, OfOne
<1>5. PICK c \in BucketKind : c = Bucket(x, {}, 0) /\ c.notes = {}
  BY EmptyBucket DEF Bucket
<1>6. bs = <<b, c>>
  <2>1. bs = Append(<<b>>, c)
    BY <1>1, <1>4, <1>5
  <2>2. <<b>> \in Seq(BucketKind) /\ Len(<<b>>) = 1 /\ <<b>>[1] = b
    OBVIOUS
  <2>3. bs \in Seq(BucketKind) /\ Len(bs) = 2 /\ bs[1] = b /\ bs[2] = c
    BY <2>1, <2>2, AppendProperties
  <2>4. bs = <<bs[1], bs[2]>>
    BY <2>3
  <2> QED BY <2>3, <2>4
<1>7. BucketsOK(bs, lastNote)
  <2>1. /\ bs \in Seq(BucketKind) /\ Len(bs) = 2 /\ DOMAIN bs = {1, 2}
        /\ bs[1] = b /\ bs[2] = c
    BY <1>6
  <2> QED BY <1>4, <1>5, <2>1 DEF BucketsOK
<1>8. /\ Entries(bs, Viewed) = Entries(buckets, Viewed)
      /\ Discarded(bs, Viewed) = Discarded(buckets, Viewed)
  <2>1. /\ Entries(bs, Viewed) = NotesOf(b, Viewed) \cup NotesOf(c, Viewed)
        /\ Discarded(bs, Viewed) = LossOf(b, Viewed) + LossOf(c, Viewed)
    BY <1>6, TwoBuckets
  <2>2. Entries(buckets, Viewed) = NotesOf(b, Viewed) /\ Discarded(buckets, Viewed) = LossOf(b, Viewed)
    BY <1>4, OneBucket
  <2>3. NotesOf(c, Viewed) = {} /\ LossOf(c, Viewed) = 0
    BY <1>5, EmptyBucket
  <2>4. LossOf(b, Viewed) \in Nat
    BY DEF LossOf, BucketKind
  <2> QED BY <2>1, <2>2, <2>3, <2>4
<1>9. Tallies(none, bs, watermark)
  <2>1. Viewed \notin DOMAIN none
    BY <1>2
  <2>2. SameOfViewed(bs, watermark)
    BY <1>8 DEF SameOfViewed, Retained
  <2> QED BY <2>1, <2>2, ResyncTallies
<1> QED BY <1>3, <1>7, <1>9, StoreHolds DEF Stores

LEMMA CommitStores ==
  ASSUME StoreOK, CommitReplacement
  PROVE  Stores
<1>1. PICK p, c \in BucketKind :
        /\ buckets = <<p, c>> /\ p = Prior /\ c = Candidate
        /\ p.notes \subseteq 1..lastNote /\ c.notes \subseteq 1..lastNote
  BY OfTwo DEF CommitReplacement, Replacing
<1>2. PICK bs : bs = <<c>>
  OBVIOUS
<1>3. PICK deltas :
        /\ deltas = IF p.session # c.session THEN ClearedOf({p.session})
                    ELSE [y \in {z \in {p.session} : Seen(buckets, z) # Seen(bs, z)} |-> Resync]
  OBVIOUS
<1>4. Becomes(bs, watermark, deltas) /\ lastNote' = lastNote
  BY <1>1, <1>2, <1>3 DEF CommitReplacement
<1>5. BucketsOK(bs, lastNote)
  BY <1>1, <1>2, OneBucketOK, StoreHolds
<1>6. /\ Entries(bs, Viewed) = NotesOf(c, Viewed) /\ Discarded(bs, Viewed) = LossOf(c, Viewed)
      /\ Entries(buckets, Viewed) = NotesOf(p, Viewed) \cup NotesOf(c, Viewed)
      /\ Discarded(buckets, Viewed) = LossOf(p, Viewed) + LossOf(c, Viewed)
      /\ LossOf(c, Viewed) \in Nat
  <2>1. LossOf(c, Viewed) \in Nat
    BY DEF LossOf, BucketKind
  <2> QED BY <1>1, <1>2, <2>1, OneBucket, TwoBuckets
<1>7. Tallies(deltas, bs, watermark)
  <2>1. CASE p.session # Viewed
    <3>1. NotesOf(p, Viewed) = {} /\ LossOf(p, Viewed) = 0
      BY <2>1 DEF NotesOf, LossOf
    <3>2. SameOfViewed(bs, watermark)
      BY <1>6, <3>1 DEF SameOfViewed, Retained
    <3>3. Viewed \notin DOMAIN deltas
      BY <1>3, <2>1, ClearedOfIs
    <3> QED BY <3>2, <3>3, ResyncTallies
  <2>2. CASE p.session = Viewed /\ c.session # Viewed
    <3>1. NotesOf(c, Viewed) = {} /\ LossOf(c, Viewed) = 0
      BY <2>2 DEF NotesOf, LossOf
    <3>2. Retained(bs, Viewed) = {} /\ Discarded(bs, Viewed) = 0
      BY <1>6, <3>1, LatestIs DEF Retained
    <3>3. deltas = ClearedOf({Viewed})
      BY <1>3, <2>2
    <3> QED BY <3>2, <3>3, ClearedOfIs, ClearedTallies
  <2>3. CASE p.session = Viewed /\ c.session = Viewed
    <3>1. deltas = [y \in {z \in {Viewed} : Seen(buckets, z) # Seen(bs, z)} |-> Resync]
      BY <1>3, <2>3
    <3>2. Viewed \notin DOMAIN deltas => SameOfViewed(bs, watermark)
      BY <3>1 DEF Seen, SameOfViewed
    <3>3. Viewed \in DOMAIN deltas => deltas[Viewed] = Resync
      BY <3>1
    <3> QED BY <3>2, <3>3, ResyncTallies
  <2> QED BY <2>1, <2>2, <2>3
<1> QED BY <1>4, <1>5, <1>7, StoreHolds DEF Stores

LEMMA AbortStores ==
  ASSUME StoreOK, AbortReplacement
  PROVE  Stores
<1>1. PICK p, c \in BucketKind :
        /\ buckets = <<p, c>> /\ p = Prior /\ c = Candidate
        /\ p.notes \subseteq 1..lastNote /\ c.notes \subseteq 1..lastNote
  BY OfTwo DEF AbortReplacement, Replacing
<1>2. PICK x \in NoteSession : x = c.session
  BY DEF BucketKind
<1>3. PICK notes \in SUBSET (1..lastNote) : notes = p.notes \cup c.notes
  BY <1>1
<1>4. PICK overflow \in Nat : overflow = Cardinality(notes) - Cardinality(Latest(notes))
  <2>1. Latest(notes) \in SUBSET notes
    BY LatestIs
  <2>2. /\ Cardinality(notes) \in Nat /\ Cardinality(Latest(notes)) \in Nat
        /\ Cardinality(Latest(notes)) <= Cardinality(notes)
    BY <2>1, Parts, StoreHolds
  <2> QED BY <2>2
<1>5. p.discarded \in Nat /\ c.discarded \in Nat
  BY DEF BucketKind
<1>6. PICK moved \in Nat : moved = IF p.session = x THEN 0 ELSE p.discarded
  BY <1>5
<1>7. PICK b \in BucketKind :
        /\ b = Bucket(x, Latest(notes), p.discarded + c.discarded + overflow)
        /\ b.session = x /\ b.notes = Latest(notes) /\ b.discarded = p.discarded + c.discarded + overflow
        /\ b.notes \subseteq 1..lastNote
  <2>1. Latest(notes) \subseteq 1..lastNote
    BY LatestIs
  <2>2. Latest(notes) \in SUBSET Nat
    BY <2>1
  <2>3. p.discarded + c.discarded + overflow \in Nat
    BY <1>5
  <2>4. Bucket(x, Latest(notes), p.discarded + c.discarded + overflow) \in BucketKind
    BY <2>2, <2>3 DEF Bucket, BucketKind
  <2> QED BY <2>1, <2>4 DEF Bucket
<1>8. PICK bs : bs = <<b>>
  OBVIOUS
<1>9. PICK marks : marks = [watermark EXCEPT ![x] = @ + moved + overflow]
  OBVIOUS
<1>10. PICK changed : changed = {y \in {x} : Seen(buckets, y) # Seen(bs, y)}
  OBVIOUS
<1>11. PICK cleared : cleared = ClearedOf({p.session} \ {x})
  OBVIOUS
<1>12. PICK deltas : deltas = [y \in changed \cup DOMAIN cleared |-> IF y \in changed THEN Resync ELSE Cleared]
  OBVIOUS
<1>13. Becomes(bs, marks, deltas) /\ lastNote' = lastNote
  BY <1>1, <1>2, <1>3, <1>4, <1>6, <1>7, <1>8, <1>9, <1>10, <1>11, <1>12 DEF AbortReplacement
<1>14. BucketsOK(bs, lastNote)
  BY <1>7, <1>8, OneBucketOK, StoreHolds
<1>15. marks \in [NoteSession -> Nat]
  BY <1>9, StoreHolds
<1>16. /\ Entries(bs, Viewed) = NotesOf(b, Viewed) /\ Discarded(bs, Viewed) = LossOf(b, Viewed)
       /\ Entries(buckets, Viewed) = NotesOf(p, Viewed) \cup NotesOf(c, Viewed)
       /\ Discarded(buckets, Viewed) = LossOf(p, Viewed) + LossOf(c, Viewed)
  BY <1>1, <1>8, OneBucket, TwoBuckets
<1>17. CASE x = Viewed
  <2>1. Viewed \notin DOMAIN cleared
    BY <1>11, <1>17, ClearedOfIs
  <2>2. Viewed \in DOMAIN deltas => deltas[Viewed] = Resync
    BY <1>12, <2>1
  <2>3. ASSUME Viewed \notin DOMAIN deltas PROVE SameOfViewed(bs, marks)
    <3>1. Retained(bs, Viewed) = Retained(buckets, Viewed) /\ Discarded(bs, Viewed) = Discarded(buckets, Viewed)
      BY <1>10, <1>12, <1>17, <2>3 DEF Seen
    <3>2. LossOf(b, Viewed) = LossOf(p, Viewed) + LossOf(c, Viewed)
      BY <1>16, <3>1
    <3>3. LossOf(b, Viewed) = p.discarded + c.discarded + overflow /\ LossOf(c, Viewed) = c.discarded
      BY <1>2, <1>7, <1>17 DEF LossOf
    <3>4. overflow = 0 /\ moved = 0
      <4>1. CASE p.session = x
        <5>1. LossOf(p, Viewed) = p.discarded /\ moved = 0
          BY <1>6, <1>17, <4>1 DEF LossOf
        <5> QED BY <1>5, <3>2, <3>3, <5>1
      <4>2. CASE p.session # x
        <5>1. LossOf(p, Viewed) = 0 /\ moved = p.discarded
          BY <1>6, <1>17, <4>2 DEF LossOf
        <5> QED BY <1>5, <3>2, <3>3, <5>1
      <4> QED BY <4>1, <4>2
    <3>5. marks[Viewed] = watermark[Viewed]
      BY <1>9, <1>17, <3>4, StoreHolds, ViewedAssumption
    <3> QED BY <3>1, <3>5 DEF SameOfViewed
  <2>4. Tallies(deltas, bs, marks)
    BY <2>2, <2>3, ResyncTallies
  <2> QED BY <1>13, <1>14, <1>15, <2>4 DEF Stores
<1>18. CASE x # Viewed
  <2>1. NotesOf(b, Viewed) = {} /\ LossOf(b, Viewed) = 0 /\ NotesOf(c, Viewed) = {} /\ LossOf(c, Viewed) = 0
    BY <1>2, <1>7, <1>18 DEF NotesOf, LossOf
  <2>2. Retained(bs, Viewed) = {} /\ Discarded(bs, Viewed) = 0
    BY <1>16, <2>1, LatestIs DEF Retained
  <2>3. marks[Viewed] = watermark[Viewed]
    BY <1>9, <1>18, StoreHolds, ViewedAssumption
  <2>4. Viewed \in DOMAIN deltas <=> Viewed \in DOMAIN cleared
    BY <1>10, <1>12, <1>18
  <2>5. Viewed \in DOMAIN deltas => deltas[Viewed] = Cleared
    BY <1>10, <1>12, <1>18
  <2>6. Viewed \in DOMAIN deltas <=> Seen(buckets, Viewed) # <<{}, 0>>
    <3>1. CASE p.session = Viewed
      BY <1>11, <1>18, <2>4, <3>1, ClearedOfIs
    <3>2. CASE p.session # Viewed
      <4>1. NotesOf(p, Viewed) = {} /\ LossOf(p, Viewed) = 0
        BY <3>2 DEF NotesOf, LossOf
      <4>2. Retained(buckets, Viewed) = {} /\ Discarded(buckets, Viewed) = 0
        BY <1>16, <2>1, <4>1, LatestIs DEF Retained
      <4> QED BY <1>11, <2>4, <3>2, <4>2, ClearedOfIs DEF Seen
    <3> QED BY <3>1, <3>2
  <2>7. Tallies(deltas, bs, marks)
    BY <2>2, <2>3, <2>5, <2>6, ClearedTallies
  <2> QED BY <1>13, <1>14, <1>15, <2>7 DEF Stores
<1> QED BY <1>17, <1>18

LEMMA NewestIsLatest ==
  ASSUME NEW n \in Nat, NEW S \in SUBSET (1..n)
  PROVE  n + 1 \in Latest(S \cup {n + 1})
<1>1. \A i \in S \cup {n + 1} : i \in Nat /\ ~(i > n + 1)
  OBVIOUS
<1>2. Later(S \cup {n + 1}, n + 1) = {}
  BY <1>1 DEF Later
<1>3. Cardinality(Later(S \cup {n + 1}, n + 1)) = 0
  BY <1>2, FS_EmptySet
<1> QED BY <1>3, LatestIs, LimitAssumption

\* Of what bs and next show of x, b and c are the parts in which they may differ.
Differs(bs, next, b, c, l, x) ==
  \E O \in SUBSET (1..l) : \E d \in Nat :
    /\ Entries(bs, x) = O \cup NotesOf(b, x) /\ Entries(next, x) = O \cup NotesOf(c, x)
    /\ Discarded(bs, x) = d + LossOf(b, x) /\ Discarded(next, x) = d + LossOf(c, x)

\* The last bucket is replaced by another.
LEMMA LastBucketChanges ==
  ASSUME NEW l \in Nat, NEW m \in Nat, l <= m, NEW bs, BucketsOK(bs, l), bs # <<>>,
         NEW last, last = bs[Len(bs)],
         NEW c \in BucketKind, c.notes \subseteq 1..m,
         NEW next, next = [bs EXCEPT ![Len(bs)] = c]
  PROVE  BucketsOK(next, m) /\ \A x : Differs(bs, next, last, c, l, x)
<1>0. \A b \in BucketKind : \A x : LossOf(b, x) \in Nat
  BY DEF LossOf, BucketKind
<1>1. Len(bs) # 0
  BY BucketsAre
<1>2. CASE Len(bs) = 1
  <2>1. PICK b \in BucketKind : bs = <<b>> /\ bs[1] = b /\ b.notes \subseteq 1..l
    BY <1>2, BucketsAre
  <2>2. next = <<c>>
    BY <1>2, <2>1
  <2>3. BucketsOK(next, m)
    BY <2>2, OneBucketOK
  <2>4. ASSUME NEW x
        PROVE  /\ Entries(bs, x) = {} \cup NotesOf(b, x) /\ Entries(next, x) = {} \cup NotesOf(c, x)
               /\ Discarded(bs, x) = 0 + LossOf(b, x) /\ Discarded(next, x) = 0 + LossOf(c, x)
    BY <1>0, <2>1, <2>2, OneBucket
  <2>5. {} \in SUBSET (1..l) /\ 0 \in Nat
    OBVIOUS
  <2> QED BY <1>2, <2>1, <2>3, <2>4, <2>5 DEF Differs
<1>3. CASE Len(bs) = 2
  <2>1. PICK p, b \in BucketKind :
          bs = <<p, b>> /\ bs[1] = p /\ bs[2] = b /\ p.notes \subseteq 1..l /\ b.notes \subseteq 1..l
    BY <1>3, BucketsAre
  <2>2. next = <<p, c>>
    BY <1>3, <2>1
  <2>3. BucketsOK(next, m)
    <3>0. /\ <<p, c>> \in Seq(BucketKind) /\ Len(<<p, c>>) = 2 /\ DOMAIN <<p, c>> = {1, 2}
          /\ <<p, c>>[1] = p /\ <<p, c>>[2] = c
      OBVIOUS
    <3>1. next \in Seq(BucketKind) /\ Len(next) = 2 /\ DOMAIN next = {1, 2} /\ next[1] = p /\ next[2] = c
      BY <2>2, <3>0
    <3>2. p.notes \subseteq 1..m
      BY <2>1
    <3> QED BY <3>1, <3>2 DEF BucketsOK
  <2>4. ASSUME NEW x
        PROVE  /\ Entries(bs, x) = NotesOf(p, x) \cup NotesOf(b, x)
               /\ Entries(next, x) = NotesOf(p, x) \cup NotesOf(c, x)
               /\ Discarded(bs, x) = LossOf(p, x) + LossOf(b, x)
               /\ Discarded(next, x) = LossOf(p, x) + LossOf(c, x)
    BY <2>1, <2>2, TwoBuckets
  <2>5. \A x : NotesOf(p, x) \in SUBSET (1..l)
    BY <2>1 DEF NotesOf
  <2> QED BY <1>0, <1>3, <2>1, <2>3, <2>4, <2>5 DEF Differs
<1>4. Len(bs) = 1 \/ Len(bs) = 2
  <2>1. PICK k \in Nat : k = Len(bs) /\ k <= 2
    BY DEF BucketsOK
  <2> QED BY <1>1, <2>1
<1> QED BY <1>2, <1>3, <1>4

LEMMA AddStores ==
  ASSUME StoreOK, AddNote
  PROVE  Stores /\ lastNote' \in Nat
<1> DEFINE i == Len(buckets)
           b == buckets[i]
           n == lastNote + 1
           full == Cardinality(b.notes) = Limit
           notes == IF full THEN Latest(b.notes \cup {n}) ELSE b.notes \cup {n}
           lost == IF full THEN 1 ELSE 0
           next == [buckets EXCEPT ![i].notes = notes, ![i].discarded = @ + lost]
           marks == [watermark EXCEPT ![b.session] = @ + lost]
           deltas == [x \in {b.session} |-> Added(n, Retained(buckets, b.session) \ Retained(next, b.session))]
<1>0. /\ Becomes(next, marks, deltas) /\ lastNote' = n /\ buckets # <<>>
      /\ DOMAIN deltas = {b.session}
      /\ deltas[b.session] = Added(n, Retained(buckets, b.session) \ Retained(next, b.session))
  BY DEF AddNote
<1>1. /\ lastNote \in Nat /\ BucketsOK(buckets, lastNote) /\ watermark \in [NoteSession -> Nat]
      /\ i \in DOMAIN buckets /\ buckets \in Seq(BucketKind)
  BY <1>0, StoreHolds, BucketsAre DEF BucketsOK
<1>2. b \in BucketKind /\ b.notes \subseteq 1..lastNote
  BY <1>1 DEF BucketsOK
<1>3. lost \in Nat
  OBVIOUS
<1>4. marks \in [NoteSession -> Nat] /\ \A x \in NoteSession : x # b.session => marks[x] = watermark[x]
  <2> HIDE DEF lost, b
  <2> QED BY <1>1, <1>2, <1>3 DEF BucketKind
<1>5. next = [buckets EXCEPT ![i] = [b EXCEPT !.notes = notes, !.discarded = @ + lost]]
  <2> HIDE DEF lost, notes
  <2> QED BY <1>1, <1>2 DEF BucketKind
<1>6. n \in Nat
  BY <1>1
<1>7. /\ b.notes \cup {n} \in SUBSET (1..n) /\ Latest(b.notes \cup {n}) \subseteq notes
       /\ notes \subseteq b.notes \cup {n} /\ n \in notes
       /\ \A k \in b.notes \ notes : k \notin Latest(b.notes \cup {n})
  <2>1. n \in Latest(b.notes \cup {n})
    BY <1>1, <1>2, NewestIsLatest
  <2>2. b.notes \cup {n} \in SUBSET (1..n)
    BY <1>1, <1>2
  <2> QED BY <2>1, <2>2, LatestIs
<1>8. PICK c \in BucketKind :
         /\ next = [buckets EXCEPT ![i] = c]
         /\ c.session = b.session /\ c.notes = notes /\ c.discarded = b.discarded + lost
         /\ c.notes \subseteq 1..n
  <2> HIDE DEF lost, notes, b, next
  <2>1. notes \subseteq 1..n /\ notes \in SUBSET Nat
    BY <1>7
  <2>2. b.discarded + lost \in Nat
    BY <1>2, <1>3 DEF BucketKind
  <2>3. PICK c : c = [b EXCEPT !.notes = notes, !.discarded = @ + lost]
    OBVIOUS
  <2>4. /\ c \in BucketKind /\ c.session = b.session /\ c.notes = notes
        /\ c.discarded = b.discarded + lost
    BY <1>2, <2>1, <2>2, <2>3 DEF BucketKind
  <2> QED BY <1>5, <2>1, <2>3, <2>4
<1> HIDE DEF next, marks, deltas, notes, lost, full
<1>9. BucketsOK(next, n) /\ \A x : Differs(buckets, next, b, c, lastNote, x)
  <2>1. n \in Nat /\ lastNote <= n
    BY <1>1
  <2> QED BY <1>0, <1>1, <1>8, <2>1, LastBucketChanges
<1>10. PICK O \in SUBSET (1..lastNote), d \in Nat :
         /\ Entries(buckets, Viewed) = O \cup NotesOf(b, Viewed)
         /\ Entries(next, Viewed) = O \cup NotesOf(c, Viewed)
         /\ Discarded(buckets, Viewed) = d + LossOf(b, Viewed)
         /\ Discarded(next, Viewed) = d + LossOf(c, Viewed)
  BY <1>9 DEF Differs
<1>11. Tallies(deltas, next, marks)
  <2>1. CASE b.session # Viewed
    <3>1. /\ NotesOf(b, Viewed) = NotesOf(c, Viewed) /\ LossOf(b, Viewed) = LossOf(c, Viewed)
          /\ marks[Viewed] = watermark[Viewed]
      <4>1. marks[Viewed] = watermark[Viewed]
        BY <1>4, <2>1, ViewedAssumption
      <4>2. c.session # Viewed
        BY <1>8, <2>1
      <4> QED BY <2>1, <4>1, <4>2 DEF NotesOf, LossOf
    <3>2. SameOfViewed(next, marks)
      BY <1>10, <3>1 DEF SameOfViewed, Retained
    <3>3. Viewed \notin DOMAIN deltas
      BY <1>0, <2>1
    <3> QED BY <3>2, <3>3, ResyncTallies
  <2>2. CASE b.session = Viewed
    <3>1. NotesOf(b, Viewed) = b.notes /\ NotesOf(c, Viewed) = notes
      BY <1>8, <2>2 DEF NotesOf
    <3>2. PICK B \in SUBSET (1..lastNote) : B = O \cup b.notes
      BY <1>2
    <3>3. PICK C : C = O \cup notes
      OBVIOUS
    <3>4. Entries(buckets, Viewed) = B /\ Entries(next, Viewed) = C
      BY <1>10, <3>1, <3>2, <3>3
    <3>5. /\ C \subseteq B \cup {n} /\ n \in C /\ Latest(b.notes \cup {n}) \subseteq C
          /\ b.notes \in SUBSET B
          /\ \A k \in B \ C : k \in b.notes \ Latest(b.notes \cup {n})
      BY <1>7, <3>2, <3>3
    <3>6. Latest((Latest(B) \cup {n}) \ (Latest(B) \ Latest(C))) = Latest(C)
      <4>0. PICK s : s = b.notes
        OBVIOUS
      <4>1. PICK l \in Nat : l = lastNote
        BY <1>1
      <4>2. B \in SUBSET (1..l) /\ Gains(B, C, s, l)
        BY <3>5, <4>0, <4>1 DEF Gains
      <4>3. Latest((Latest(B) \cup {l + 1}) \ (Latest(B) \ Latest(C))) = Latest(C)
        BY <4>2, LatestWith
      <4> QED BY <4>1, <4>3
    <3>7. PICK delta : delta = Added(n, Latest(B) \ Latest(C))
      OBVIOUS
    <3>8. DOMAIN deltas = {Viewed} /\ deltas[Viewed] = delta
      BY <1>0, <2>2, <3>4, <3>7 DEF Retained
    <3>9. delta \in DeltaKind
      <4>1. Latest(B) \ Latest(C) \in SUBSET Nat /\ {n} \in SUBSET Nat
        <5>1. Latest(B) \subseteq B /\ \A k \in B : k \in Nat
          BY LatestIs
        <5>2. Latest(B) \ Latest(C) \in SUBSET Nat
          BY <5>1
        <5> QED BY <1>6, <5>2
      <4> QED BY <3>7, <4>1 DEF Added, DeltaKind
    <3>10. Tells(delta, Latest(B), Latest(C))
      BY <3>6, <3>7 DEF Tells, Added
    <3> QED BY <3>4, <3>8, <3>9, <3>10 DEF Tallies, Retained
  <2> QED BY <2>1, <2>2
<1> QED BY <1>0, <1>4, <1>9, <1>6, <1>11 DEF Stores

-----------------------------------------------------------------------------
(* Notifications: what dismissals leave *)

\* f has the buckets of bs, each with some of its notes.
Thinned(f, bs) ==
  /\ f \in [DOMAIN bs -> BucketKind]
  /\ \A i \in DOMAIN bs : f[i].session = bs[i].session /\ f[i].notes \subseteq bs[i].notes

LEMMA ThinnedOK ==
  ASSUME NEW l \in Nat, NEW bs, BucketsOK(bs, l), NEW f, Thinned(f, bs)
  PROVE  BucketsOK(f, l) /\ DOMAIN f = DOMAIN bs /\ \A y : Of(f, y) = Of(bs, y)
<1>1. PICK n \in Nat : n = Len(bs) /\ n <= 2 /\ DOMAIN bs = 1..n
  BY DEF BucketsOK
<1>2. f \in [1..n -> BucketKind]
  BY <1>1 DEF Thinned
<1>3. f \in Seq(BucketKind) /\ Len(f) = n /\ DOMAIN f = 1..n
  BY <1>2
<1>4. \A i \in DOMAIN f : f[i].notes \subseteq 1..l
  BY <1>1, <1>3 DEF Thinned, BucketsOK
<1>5. \A y : Of(f, y) = Of(bs, y)
  BY <1>1, <1>3 DEF Of, Thinned
<1> QED BY <1>1, <1>3, <1>4, <1>5 DEF BucketsOK

LEMMA WithoutDiscardsIs ==
  ASSUME NEW l \in Nat, NEW bs, BucketsOK(bs, l), NEW x, NEW count \in Nat,
         NEW f, f = WithoutDiscards(bs, x, count)
  PROVE  /\ BucketsOK(f, l) /\ Entries(f, x) = Entries(bs, x)
         /\ Discarded(f, x) = IF count <= Discarded(bs, x) THEN Discarded(bs, x) - count ELSE 0
<1>1. \A i \in DOMAIN bs : bs[i] \in BucketKind /\ bs[i].discarded \in Nat
  <2>1. \A i \in DOMAIN bs : bs[i] \in BucketKind
    BY DEF BucketsOK
  <2> QED BY <2>1 DEF BucketKind
<1>2. PICK d1 \in Nat, d2 \in Nat : d1 = Discards(bs, x, 1) /\ d2 = Discards(bs, x, 2)
  BY <1>1 DEF Discards, Of
<1>3. PICK rest : rest = [i \in {1, 2} |->
         IF i = 1 THEN (IF 0 >= count THEN 0 ELSE Least(d1, count))
         ELSE (IF d1 >= count THEN 0 ELSE Least(d2, count - d1))]
  OBVIOUS
<1>4. /\ rest[1] \in Nat /\ rest[1] <= d1 /\ rest[2] \in Nat /\ rest[2] <= d2
      /\ (d1 - rest[1]) + (d2 - rest[2]) = IF count <= d1 + d2 THEN (d1 + d2) - count ELSE 0
  <2>1. /\ rest[1] = IF 0 >= count THEN 0 ELSE Least(d1, count)
        /\ rest[2] = IF d1 >= count THEN 0 ELSE Least(d2, count - d1)
    BY <1>3
  <2> QED BY <2>1 DEF Least
<1>5. \A i \in DOMAIN bs : i = 1 \/ i = 2
  BY DEF BucketsOK
<1>6. ASSUME NEW i \in Of(bs, x)
      PROVE  /\ i \in DOMAIN bs /\ i \in DOMAIN f /\ i \in {1, 2}
             /\ f[i] = [bs[i] EXCEPT !.discarded = bs[i].discarded - rest[i]]
             /\ bs[i].discarded - rest[i] \in Nat
             /\ Discards(bs, x, i) = bs[i].discarded
  <2>1. i \in DOMAIN bs /\ bs[i].session = x /\ Discards(bs, x, i) = bs[i].discarded
    BY DEF Of, Discards
  <2>2. CASE i = 1
    <3>1. d1 = bs[1].discarded /\ rest[1] = IF 0 >= count THEN 0 ELSE Least(bs[1].discarded, count - 0)
      BY <1>2, <1>3, <2>1, <2>2
    <3>2. f[1] = [bs[1] EXCEPT !.discarded = bs[1].discarded - rest[1]]
      BY <2>1, <2>2, <3>1 DEF WithoutDiscards
    <3> QED BY <1>4, <2>1, <2>2, <3>1, <3>2 DEF WithoutDiscards
  <2>3. CASE i = 2
    <3>1. d2 = bs[2].discarded /\ rest[2] = IF d1 >= count THEN 0 ELSE Least(bs[2].discarded, count - d1)
      BY <1>2, <1>3, <2>1, <2>3
    <3>2. f[2] = [bs[2] EXCEPT !.discarded = bs[2].discarded - rest[2]]
      BY <1>2, <2>1, <2>3, <3>1 DEF WithoutDiscards
    <3> QED BY <1>4, <2>1, <2>3, <3>1, <3>2 DEF WithoutDiscards
  <2> QED BY <1>5, <2>1, <2>2, <2>3
<1>7. \A i \in DOMAIN bs : i \notin Of(bs, x) => f[i] = bs[i]
  BY DEF WithoutDiscards, Of
<1>8. Thinned(f, bs)
  <2>1. f = [i \in DOMAIN bs |-> f[i]]
    BY DEF WithoutDiscards
  <2>2. ASSUME NEW i \in DOMAIN bs
        PROVE  f[i] \in BucketKind /\ f[i].session = bs[i].session /\ f[i].notes = bs[i].notes
    <3>1. CASE i \in Of(bs, x)
      BY <1>1, <1>6, <3>1 DEF BucketKind
    <3>2. CASE i \notin Of(bs, x)
      BY <1>1, <1>7, <3>2
    <3> QED BY <3>1, <3>2
  <2> QED BY <2>1, <2>2 DEF Thinned
<1>9. BucketsOK(f, l) /\ Of(f, x) = Of(bs, x)
  BY <1>8, ThinnedOK
<1>10. Entries(f, x) = Entries(bs, x)
  <2>1. \A i \in Of(bs, x) : f[i].notes = bs[i].notes
    BY <1>1, <1>6 DEF BucketKind
  <2> QED BY <1>9, <2>1 DEF Entries
<1>11. \A i \in {1, 2} : Discards(f, x, i) = Discards(bs, x, i) - rest[i]
  <2>1. ASSUME NEW i \in Of(bs, x) PROVE Discards(f, x, i) = Discards(bs, x, i) - rest[i]
    BY <1>1, <1>6, <1>9, <2>1 DEF Discards, BucketKind
  <2>2. ASSUME NEW i \in {1, 2}, i \notin Of(bs, x) PROVE Discards(f, x, i) = Discards(bs, x, i) - rest[i]
    <3>1. Discards(f, x, i) = 0 /\ Discards(bs, x, i) = 0
      BY <1>9, <2>2 DEF Discards
    <3>2. rest[i] = 0
      BY <1>2, <1>4, <2>2, <3>1
    <3> QED BY <3>1, <3>2
  <2> QED BY <2>1, <2>2
<1>12. Discarded(f, x) = (d1 - rest[1]) + (d2 - rest[2]) /\ Discarded(bs, x) = d1 + d2
  BY <1>2, <1>11 DEF Discarded
<1> QED BY <1>4, <1>9, <1>10, <1>12

\* What is left of a bucket of Viewed without the notes of S.
Spared(b, S) == IF b.session # Viewed THEN b ELSE [b EXCEPT !.notes = @ \ S]

LEMMA KeptIs ==
  ASSUME NEW l \in Nat, NEW bs, BucketsOK(bs, l), NEW S, NEW f,
         f = [i \in DOMAIN bs |-> Spared(bs[i], S)]
  PROVE  /\ BucketsOK(f, l) /\ Entries(f, Viewed) = Entries(bs, Viewed) \ S
         /\ Discarded(f, Viewed) = Discarded(bs, Viewed)
<1>1. ASSUME NEW i \in DOMAIN bs
      PROVE  /\ f[i] \in BucketKind /\ f[i].session = bs[i].session /\ f[i].notes \subseteq bs[i].notes
             /\ f[i].discarded = bs[i].discarded
             /\ i \in Of(bs, Viewed) => f[i].notes = bs[i].notes \ S
  <2>1. bs[i] \in BucketKind
    BY DEF BucketsOK
  <2>2. f[i] = Spared(bs[i], S)
    OBVIOUS
  <2> QED BY <2>1, <2>2 DEF Spared, BucketKind, Of
<1>2. Thinned(f, bs)
  BY <1>1 DEF Thinned
<1>3. BucketsOK(f, l) /\ Of(f, Viewed) = Of(bs, Viewed)
  BY <1>2, ThinnedOK
<1>4. Of(bs, Viewed) \subseteq DOMAIN bs
  BY DEF Of
<1>5. Entries(f, Viewed) = Entries(bs, Viewed) \ S
  BY <1>1, <1>3, <1>4 DEF Entries
<1>6. \A i : Discards(f, Viewed, i) = Discards(bs, Viewed, i)
  BY <1>1, <1>3, <1>4 DEF Discards
<1> QED BY <1>3, <1>5, <1>6 DEF Discarded

\* The store takes the notes up to t alone, and of the discards, for all, those counted up to t.
Takes(t) ==
  /\ \A n \in Retained(buckets, Viewed) \ Retained(buckets', Viewed) : n <= t.note
  /\ dismissal.all =>
       Discarded(buckets', Viewed) >=
         Least(Discarded(buckets, Viewed),
               IF watermark[Viewed] > t.mark THEN watermark[Viewed] - t.mark ELSE 0)

LEMMA ThroughStores ==
  ASSUME StoreOK, NEW t \in [note : Nat, mark : Nat], DismissedThrough(t), UNCHANGED lastNote
  PROVE  Stores /\ Takes(t)
<1> DEFINE kept == [i \in DOMAIN buckets |->
                      IF buckets[i].session # Viewed THEN buckets[i]
                      ELSE [buckets[i] EXCEPT !.notes = {n \in @ : n > t.note}]]
           gone == {n \in Retained(buckets, Viewed) : n <= t.note}
           total == Discarded(buckets, Viewed)
           unseen == IF watermark[Viewed] > t.mark THEN watermark[Viewed] - t.mark ELSE 0
           taken == IF unseen >= total THEN 0 ELSE total - unseen
           next == WithoutDiscards(kept, Viewed, taken)
           deltas == [x \in {y \in {Viewed} : gone # {} \/ taken > 0} |-> Dismissed(gone)]
<1>0. Becomes(next, watermark, deltas) /\ buckets' = next
  BY DEF DismissedThrough, Becomes
<1>1. PICK l \in Nat : l = lastNote /\ BucketsOK(buckets, l) /\ watermark \in [NoteSession -> Nat]
  BY StoreHolds
<1>2. PICK B \in SUBSET (1..l) : B = Entries(buckets, Viewed)
  BY <1>1, BucketsShow, ViewedAssumption
<1>3. \A n \in B : n \in Nat /\ t.note \in Nat /\ t.mark \in Nat
  BY <1>1
<1>4. /\ BucketsOK(kept, l) /\ Entries(kept, Viewed) = Later(B, t.note)
      /\ Discarded(kept, Viewed) = total /\ total \in Nat
  <2>1. PICK S : S = {n \in Nat : ~(n > t.note)}
    OBVIOUS
  <2>2. ASSUME NEW i \in DOMAIN buckets
        PROVE  /\ buckets[i] \in BucketKind
               /\ {n \in buckets[i].notes : n > t.note} = buckets[i].notes \ S
    <3>1. buckets[i] \in BucketKind /\ \A n \in buckets[i].notes : n \in Nat
      BY <1>1 DEF BucketsOK
    <3> QED BY <2>1, <3>1
  <2>3. kept = [i \in DOMAIN buckets |-> Spared(buckets[i], S)]
    BY <2>2 DEF Spared
  <2>4. BucketsOK(kept, l) /\ Entries(kept, Viewed) = B \ S /\ Discarded(kept, Viewed) = total
    <3> HIDE DEF kept
    <3> QED BY <1>1, <1>2, <2>3, KeptIs
  <2>5. B \ S = Later(B, t.note)
    BY <1>3, <2>1 DEF Later
  <2>6. total \in Nat
    BY <1>1, BucketsShow, ViewedAssumption
  <2> QED BY <2>4, <2>5, <2>6
<1>5. unseen \in Nat /\ taken \in Nat /\ taken <= total /\ total - taken = Least(total, unseen)
  <2>1. watermark[Viewed] \in Nat /\ t.mark \in Nat
    BY <1>1, ViewedAssumption
  <2> HIDE DEF total
  <2>2. unseen \in Nat
    BY <2>1
  <2> HIDE DEF unseen
  <2> QED BY <1>4, <2>2 DEF Least
<1>6. /\ BucketsOK(next, l) /\ Entries(next, Viewed) = Later(B, t.note)
      /\ Discarded(next, Viewed) = total - taken
  <2> HIDE DEF kept, taken, total
  <2>1. PICK f : f = next
    OBVIOUS
  <2> HIDE DEF next
  <2>2. f = WithoutDiscards(kept, Viewed, taken)
    BY <2>1 DEF next
  <2> QED BY <1>4, <1>5, <2>1, <2>2, WithoutDiscardsIs
<1>7. /\ Retained(buckets, Viewed) = Latest(B) /\ Retained(next, Viewed) = Later(Latest(B), t.note)
      /\ Retained(next, Viewed) = Latest(B) \ gone /\ Latest(Retained(next, Viewed)) = Retained(next, Viewed)
      /\ gone \in SUBSET Nat
  <2> HIDE DEF next, taken, total, unseen, kept
  <2>1. Latest(Later(B, t.note)) = Later(Latest(B), t.note)
    BY <1>3, LatestAfter
  <2>2. Retained(next, Viewed) = Later(Latest(B), t.note) /\ Retained(buckets, Viewed) = Latest(B)
    BY <1>2, <1>6, <2>1 DEF Retained
  <2>3. \A n \in Latest(B) : n \in Nat
    BY <1>3, LatestIs
  <2>4. Later(Latest(B), t.note) = Latest(B) \ gone /\ gone \in SUBSET Nat
    BY <1>3, <2>2, <2>3 DEF Later
  <2>5. Latest(Latest(Later(B, t.note))) = Latest(Later(B, t.note))
    <3>1. Later(B, t.note) \in SUBSET (1..l)
      BY DEF Later
    <3> QED BY <3>1, LatestOfLatest
  <2> QED BY <2>1, <2>2, <2>4, <2>5
<1>8. Tallies(deltas, next, watermark)
  <2>1. PICK delta : delta = Dismissed(gone)
    OBVIOUS
  <2>2. delta \in DeltaKind
    BY <1>7, <2>1 DEF Dismissed, DeltaKind
  <2>3. Tells(delta, Retained(buckets, Viewed), Retained(next, Viewed))
    <3> HIDE DEF next, gone
    <3>1. (Retained(buckets, Viewed) \cup {}) \ gone = Retained(next, Viewed)
      BY <1>7
    <3> QED BY <1>7, <2>1, <3>1 DEF Tells, Dismissed
  <2>4. Viewed \in DOMAIN deltas => deltas[Viewed] = delta
    BY <2>1
  <2>5. ASSUME Viewed \notin DOMAIN deltas
        PROVE  Content(next, watermark, Viewed) = Content(buckets, watermark, Viewed)
    <3>1. gone = {} /\ ~(taken > 0)
      BY <2>5
    <3> HIDE DEF next, gone, taken, total
    <3>2. Retained(next, Viewed) = Retained(buckets, Viewed) /\ Discarded(next, Viewed) = Discarded(buckets, Viewed)
      <4>1. taken = 0
        BY <1>5, <3>1
      <4>2. Discarded(next, Viewed) = total
        BY <1>4, <1>6, <4>1
      <4> QED BY <1>7, <3>1, <4>2 DEF total
    <3> QED BY <3>2 DEF Content
  <2> HIDE DEF deltas, next
  <2> QED BY <2>2, <2>3, <2>4, <2>5 DEF Tallies
<1>9. Stores
  <2> HIDE DEF deltas, next
  <2> QED BY <1>0, <1>1, <1>6, <1>8 DEF Stores
<1>10. Takes(t)
  <2>1. ASSUME NEW n \in Retained(buckets, Viewed) \ Retained(next, Viewed) PROVE n <= t.note
    <3>1. n \in gone
      <4> HIDE DEF next, gone
      <4> QED BY <1>7
    <3> QED BY <3>1
  <2>2. Discarded(next, Viewed) >= Least(total, unseen)
    <3> HIDE DEF next, total, unseen, taken
    <3>1. Discarded(next, Viewed) = Least(total, unseen)
      BY <1>5, <1>6
    <3>2. Least(total, unseen) \in Nat
      BY <1>4, <1>5 DEF Least
    <3> QED BY <3>1, <3>2
  <2>3. PICK f : f = next
    OBVIOUS
  <2>4. f = buckets'
    BY <1>0, <2>3
  <2>5. /\ \A n \in Retained(buckets, Viewed) \ Retained(f, Viewed) : n <= t.note
        /\ Discarded(f, Viewed) >= Least(total, unseen)
    <3> HIDE DEF next, total, unseen
    <3> QED BY <2>1, <2>2, <2>3
  <2> HIDE DEF next
  <2> QED BY <2>4, <2>5 DEF Takes
<1> QED BY <1>9, <1>10

LEMMA OneStores ==
  ASSUME StoreOK, NEW t \in [note : Nat, mark : Nat], DismissedOne(t.note), UNCHANGED lastNote, ~dismissal.all
  PROVE  Stores /\ Takes(t)
<1> DEFINE n == t.note
           kept == [i \in DOMAIN buckets |->
                      IF buckets[i].session # Viewed THEN buckets[i] ELSE [buckets[i] EXCEPT !.notes = @ \ {n}]]
           next == IF n \in Entries(buckets, Viewed) /\ Entries(kept, Viewed) = {}
                   THEN WithoutDiscards(kept, Viewed, Discarded(kept, Viewed))
                   ELSE kept
           revealed == Retained(next, Viewed) \ Retained(buckets, Viewed)
           deltas == [x \in {y \in {Viewed} : Seen(next, y) # Seen(buckets, y)} |->
                        IF revealed # {} THEN Resync ELSE Dismissed({n})]
<1>0. Becomes(next, watermark, deltas) /\ buckets' = next
  BY DEF DismissedOne, Becomes
<1>1. PICK l \in Nat : l = lastNote /\ BucketsOK(buckets, l) /\ watermark \in [NoteSession -> Nat]
  BY StoreHolds
<1>2. PICK B \in SUBSET (1..l) : B = Entries(buckets, Viewed)
  BY <1>1, BucketsShow, ViewedAssumption
<1>3. n \in Nat
  OBVIOUS
<1>4. BucketsOK(kept, l) /\ Entries(kept, Viewed) = B \ {n} /\ Discarded(kept, Viewed) \in Nat
  <2>1. PICK S : S = {n}
    OBVIOUS
  <2>2. kept = [i \in DOMAIN buckets |-> Spared(buckets[i], S)]
    BY <2>1 DEF Spared
  <2> HIDE DEF kept
  <2>3. BucketsOK(kept, l) /\ Entries(kept, Viewed) = B \ S
    BY <1>1, <1>2, <2>2, KeptIs
  <2> QED BY <1>1, <2>1, <2>3, BucketsShow, ViewedAssumption
<1>5. BucketsOK(next, l) /\ Entries(next, Viewed) = B \ {n}
  <2>1. PICK f : f = WithoutDiscards(kept, Viewed, Discarded(kept, Viewed))
    OBVIOUS
  <2>2. BucketsOK(f, l) /\ Entries(f, Viewed) = B \ {n}
    <3> HIDE DEF kept
    <3> QED BY <1>4, <2>1, WithoutDiscardsIs
  <2>3. next = f \/ next = kept
    BY <2>1
  <2> HIDE DEF next, kept
  <2> QED BY <1>4, <2>2, <2>3
<1>6. Retained(buckets, Viewed) = Latest(B) /\ Retained(next, Viewed) = Latest(B \ {n})
  <2> HIDE DEF next
  <2> QED BY <1>2, <1>5 DEF Retained
<1>7. Tallies(deltas, next, watermark)
  <2>1. PICK delta : delta = IF revealed # {} THEN Resync ELSE Dismissed({n})
    OBVIOUS
  <2>2. Viewed \in DOMAIN deltas => deltas[Viewed] = delta
    BY <2>1
  <2>3. ASSUME Viewed \notin DOMAIN deltas
        PROVE  Content(next, watermark, Viewed) = Content(buckets, watermark, Viewed)
    <3>1. Seen(next, Viewed) = Seen(buckets, Viewed)
      BY <2>3
    <3> HIDE DEF next
    <3> QED BY <3>1 DEF Seen, Content
  <2>4. delta \in DeltaKind
    <3>1. Resync \in DeltaKind /\ Dismissed({n}) \in DeltaKind
      BY <1>3 DEF Resync, Dismissed, DeltaKind
    <3> QED BY <2>1, <3>1
  <2>5. Tells(delta, Latest(B), Latest(B \ {n}))
    <3>1. CASE Latest(B \ {n}) \ Latest(B) # {}
      <4>1. delta = Resync
        <5> HIDE DEF next
        <5> QED BY <1>6, <2>1, <3>1
      <4> QED BY <4>1 DEF Tells, Resync
    <3>2. CASE Latest(B \ {n}) \ Latest(B) = {}
      <4>1. delta = Dismissed({n})
        <5> HIDE DEF next
        <5> QED BY <1>6, <2>1, <3>2
      <4>2. Latest(Latest(B) \ {n}) = Latest(B \ {n})
        <5>1. Latest(B \ {n}) \subseteq Latest(B)
          BY <3>2
        <5> QED BY <5>1, LatestWithout
      <4>3. (Latest(B) \cup {}) \ {n} = Latest(B) \ {n}
        OBVIOUS
      <4> HIDE DEF n
      <4> QED BY <4>1, <4>2, <4>3 DEF Tells, Dismissed
    <3> QED BY <3>1, <3>2
  <2> HIDE DEF deltas, next, n
  <2> QED BY <1>6, <2>2, <2>3, <2>4, <2>5 DEF Tallies
<1>8. Stores
  <2> HIDE DEF deltas, next
  <2> QED BY <1>0, <1>1, <1>5, <1>7 DEF Stores
<1>9. Takes(t)
  <2>1. PICK f : f = next
    OBVIOUS
  <2>2. f = buckets'
    BY <1>0, <2>1
  <2>3. Retained(f, Viewed) = Latest(B \ {n})
    BY <1>6, <2>1
  <2>4. Latest(B) \cap (B \ {n}) \subseteq Latest(B \ {n})
    BY LatestOfPart
  <2>5. ASSUME NEW m \in Latest(B) \ Latest(B \ {n}) PROVE m <= n
    <3>1. m \in B
      BY LatestIs
    <3>2. m = n
      BY <2>4, <3>1
    <3> QED BY <1>3, <3>2
  <2> HIDE DEF next
  <2> QED BY <1>6, <2>2, <2>3, <2>5 DEF Takes
<1> QED BY <1>8, <1>9

-----------------------------------------------------------------------------
(* Notifications: what the browser makes of events and answers *)

LEMMA NothingIs ==
  /\ Nothing \in ContentKind /\ Nothing.through \in [note : Nat, mark : Nat]
  /\ Loading \in InboxKind /\ Loading.instance = 0 /\ Loading.status = "loading"
  /\ NoFetch \in FetchKind /\ Asked \in FetchKind /\ NoDismissal \in DismissalKind
<1>1. Nothing \in ContentKind /\ Nothing.through \in [note : Nat, mark : Nat]
  BY DEF Nothing, ContentKind
<1>2. Loading \in InboxKind /\ Loading.instance = 0 /\ Loading.status = "loading"
  BY <1>1 DEF Loading, Inbox, InboxKind
<1>3. <<>> \in Seq(InboxEvent)
  OBVIOUS
<1>4. NoFetch \in FetchKind /\ Asked \in FetchKind
  BY <1>3 DEF NoFetch, Asked, FetchKind
<1>5. NoDismissal \in DismissalKind
  BY <1>1 DEF NoDismissal, DismissalKind
<1> QED BY <1>1, <1>2, <1>4, <1>5

LEMMA StaleHolds ==
  ASSUME NEW h, NEW i \in Nat, NEW r, NEW b \in InboxKind, b.instance <= i
  PROVE  Stale(b) \in InboxKind /\ Stale(b).status = "stale" /\ BoxHolds(Stale(b), h, i, r)
<1>1. /\ Stale(b) \in InboxKind /\ Stale(b).status = "stale" /\ Stale(b).instance = b.instance
  BY NothingIs DEF Stale, InboxKind
<1> QED BY <1>1 DEF BoxHolds

LEMMA InstallHolds ==
  ASSUME NEW h, NEW i \in Nat, NEW r, NEW b \in InboxKind, BoxHolds(b, h, i, r),
         NEW s \in InboxAnswer, SnapshotHolds(s, h, i, r)
  PROVE  InstallSnapshot(b, s) \in InboxKind /\ BoxHolds(InstallSnapshot(b, s), h, i, r)
<1>1. PICK n : n = Inbox("fresh", s.instance, s.revision, s.content)
  OBVIOUS
<1>2. /\ n \in InboxKind /\ n.instance = s.instance /\ n.revision = s.revision /\ n.content = s.content
  BY <1>1 DEF Inbox, InboxKind, InboxAnswer
<1>3. BoxHolds(n, h, i, r)
  BY <1>2 DEF BoxHolds, SnapshotHolds
<1> QED BY <1>1, <1>2, <1>3 DEF InstallSnapshot

\* The notes of an inbox after an event.
After(b, e) ==
  IF e.delta.kind = "cleared" THEN {} ELSE Latest((b.content.notes \cup e.delta.notes) \ e.delta.gone)

LEMMA AppliesHolds ==
  ASSUME NEW h, NEW i \in Nat, NEW r \in Nat, NEW c, History(h, r, c),
         NEW b \in InboxKind, BoxHolds(b, h, i, r), NEW e \in InboxEvent, EventHolds(e, h, i, r),
         b.instance = e.instance, Applies(b, e),
         NEW n, n = Inbox("fresh", e.instance, e.revision, [e.content EXCEPT !.notes = After(b, e)])
  PROVE  n \in InboxKind /\ BoxHolds(n, h, i, r)
<1>1. /\ b.content \in ContentKind /\ b.revision \in Nat /\ b.instance \in Nat
      /\ e.content \in ContentKind /\ e.delta \in DeltaKind /\ e.revision \in Nat /\ e.instance \in Nat
  BY DEF InboxKind, InboxEvent
<1>2. After(b, e) \in SUBSET Nat
  <2>1. b.content.notes \in SUBSET Nat /\ e.delta.notes \in SUBSET Nat
    BY <1>1 DEF ContentKind, DeltaKind
  <2>2. Latest((b.content.notes \cup e.delta.notes) \ e.delta.gone) \subseteq Nat
    <3>1. Latest((b.content.notes \cup e.delta.notes) \ e.delta.gone)
            \subseteq (b.content.notes \cup e.delta.notes) \ e.delta.gone
      BY LatestIs
    <3> QED BY <2>1, <3>1
  <2> QED BY <2>2 DEF After
<1>3. PICK content : content = [e.content EXCEPT !.notes = After(b, e)]
  OBVIOUS
<1>4. content \in ContentKind
  BY <1>1, <1>2, <1>3 DEF ContentKind
<1>5. /\ n \in InboxKind /\ n.instance = e.instance /\ n.revision = e.revision /\ n.content = content
  BY <1>1, <1>3, <1>4 DEF Inbox, InboxKind
<1>6. CASE e.instance # i
  BY <1>5, <1>6 DEF BoxHolds, EventHolds, SnapshotHolds
<1>7. CASE e.instance = i
  <2>1. /\ e.revision \in 1..r /\ e.content = h[e.revision]
        /\ Tells(e.delta, h[e.revision - 1].notes, h[e.revision].notes)
    BY <1>7 DEF EventHolds
  <2>2. b.status = "fresh" /\ e.revision = b.revision + 1 /\ e.delta.kind # "resync"
    BY DEF Applies
  <2>3. b.content = h[b.revision] /\ e.revision - 1 = b.revision
    BY <1>1, <1>7, <2>2 DEF BoxHolds, SnapshotHolds
  <2>4. After(b, e) = e.content.notes
    <3>1. e.delta.kind \in {"added", "dismissed", "cleared"}
      BY <1>1, <2>2 DEF DeltaKind
    <3> QED BY <2>1, <2>3, <3>1 DEF After, Tells
  <2>5. content = e.content
    BY <1>1, <1>3, <2>4 DEF ContentKind
  <2>6. e.revision \in 0..r
    BY <2>1
  <2> QED BY <1>5, <1>7, <2>1, <2>5, <2>6 DEF BoxHolds, SnapshotHolds
<1> QED BY <1>5, <1>6, <1>7

LEMMA ApplyHolds ==
  ASSUME NEW h, NEW i \in Nat, NEW r \in Nat, NEW c, History(h, r, c),
         NEW b \in InboxKind, BoxHolds(b, h, i, r), NEW e \in InboxEvent, EventHolds(e, h, i, r)
  PROVE  /\ ApplyInboxEvent(b, e).box \in InboxKind /\ ApplyInboxEvent(b, e).ok \in BOOLEAN
         /\ BoxHolds(ApplyInboxEvent(b, e).box, h, i, r)
<1>1. Stale(Loading) \in InboxKind /\ BoxHolds(Stale(Loading), h, i, r)
  BY NothingIs, StaleHolds
<1>2. Stale(b) \in InboxKind /\ BoxHolds(Stale(b), h, i, r)
  BY StaleHolds DEF BoxHolds
<1>3. PICK n : n = Inbox("fresh", e.instance, e.revision, [e.content EXCEPT !.notes = After(b, e)])
  OBVIOUS
<1>4. b.instance = e.instance /\ Applies(b, e) => n \in InboxKind /\ BoxHolds(n, h, i, r)
  BY <1>3, AppliesHolds
<1>5. \/ ApplyInboxEvent(b, e) = [box |-> Stale(Loading), ok |-> FALSE]
      \/ ApplyInboxEvent(b, e) = [box |-> b, ok |-> TRUE]
      \/ ApplyInboxEvent(b, e) = [box |-> Stale(b), ok |-> FALSE]
      \/ b.instance = e.instance /\ Applies(b, e) /\ ApplyInboxEvent(b, e) = [ok |-> TRUE, box |-> n]
  <2>1. PICK a \in BOOLEAN :
          ApplyInboxEvent(b, e) =
            IF b.instance # e.instance THEN [box |-> Stale(Loading), ok |-> FALSE]
            ELSE IF e.revision <= b.revision THEN [box |-> b, ok |-> TRUE]
            ELSE IF ~(Applies(b, e) /\ a) THEN [box |-> Stale(b), ok |-> FALSE]
            ELSE [ok |-> TRUE,
                  box |-> Inbox("fresh", e.instance, e.revision, [e.content EXCEPT !.notes = After(b, e)])]
    BY DEF ApplyInboxEvent, After
  <2> QED BY <1>3, <2>1
<1>6. PICK result : result = ApplyInboxEvent(b, e)
  OBVIOUS
<1>7. \/ result.box = Stale(Loading) /\ result.ok = FALSE
      \/ result.box = b /\ result.ok = TRUE
      \/ result.box = Stale(b) /\ result.ok = FALSE
      \/ b.instance = e.instance /\ Applies(b, e) /\ result.box = n /\ result.ok = TRUE
  BY <1>5, <1>6
<1>8. result.ok \in BOOLEAN
  BY <1>7
<1>9. result.box \in InboxKind /\ BoxHolds(result.box, h, i, r)
  BY <1>1, <1>2, <1>4, <1>7
<1> QED BY <1>6, <1>8, <1>9

\* What a refresh has made of an answer and some events.
ReplayKind(h, i, r) == {a \in [box : InboxKind, ok : BOOLEAN] : BoxHolds(a.box, h, i, r)}

LEMMA CaughtHolds ==
  ASSUME NEW h, NEW i \in Nat, NEW r \in Nat, NEW c, History(h, r, c),
         inbox \in InboxKind, BoxHolds(inbox, h, i, r),
         NEW s \in InboxAnswer, SnapshotHolds(s, h, i, r),
         NEW es \in Seq(InboxEvent), \A k \in DOMAIN es : EventHolds(es[k], h, i, r)
  PROVE  /\ Caught(s, es).box \in InboxKind /\ Caught(s, es).ok \in BOOLEAN
         /\ BoxHolds(Caught(s, es).box, h, i, r)
<1>1. PICK T : T = ReplayKind(h, i, r)
  OBVIOUS
<1>2. PICK n \in Nat : n = Len(es) /\ DOMAIN es = 1..n
  OBVIOUS
<1>3. PICK a : a = [box |-> InstallSnapshot(inbox, s), ok |-> TRUE]
  OBVIOUS
<1>4. a \in T
  <2>1. InstallSnapshot(inbox, s) \in InboxKind /\ BoxHolds(InstallSnapshot(inbox, s), h, i, r)
    BY InstallHolds
  <2> QED BY <1>1, <1>3, <2>1 DEF ReplayKind
<1>5. ASSUME NEW x \in T, NEW k \in 1..n PROVE ReplayEvent(x, es[k]) \in T
  <2>1. es[k] \in InboxEvent /\ EventHolds(es[k], h, i, r)
    BY <1>2
  <2>2. x.box \in InboxKind /\ x.ok \in BOOLEAN /\ BoxHolds(x.box, h, i, r)
    BY <1>1 DEF ReplayKind
  <2>3. PICK next : next = ApplyInboxEvent(x.box, es[k])
    OBVIOUS
  <2>4. next.box \in InboxKind /\ next.ok \in BOOLEAN /\ BoxHolds(next.box, h, i, r)
    BY <2>1, <2>2, <2>3, ApplyHolds
  <2>5. PICK ok \in BOOLEAN : ok = (x.ok /\ next.ok)
    OBVIOUS
  <2>6. ReplayEvent(x, es[k]) = [box |-> next.box, ok |-> ok]
    BY <2>3, <2>5 DEF ReplayEvent
  <2> QED BY <1>1, <2>4, <2>6 DEF ReplayKind
<1>6. PICK step : step = [k \in 1..n |-> [x \in T |-> ReplayEvent(x, es[k])]]
  OBVIOUS
<1>7. Stepwise(step, n, T)
  BY <1>5, <1>6 DEF Stepwise
<1>8. PICK f : DefinedBy(f, a, step, n, T)
  BY <1>4, <1>7, StepsDefine
<1> DEFINE g == CHOOSE g : g = [k \in 0..Len(es) |->
                  IF k = 0 THEN [box |-> InstallSnapshot(inbox, s), ok |-> TRUE]
                  ELSE ReplayEvent(g[k - 1], es[k])]
<1>9. f = [k \in 0..Len(es) |->
            IF k = 0 THEN [box |-> InstallSnapshot(inbox, s), ok |-> TRUE]
            ELSE ReplayEvent(f[k - 1], es[k])]
  <2>1. f \in [0..n -> T] /\ f[0] = a /\ \A k \in 1..n : f[k] = step[k][f[k - 1]]
    BY <1>8 DEF DefinedBy
  <2>2. ASSUME NEW k \in 1..n PROVE f[k] = ReplayEvent(f[k - 1], es[k])
    <3>1. k - 1 \in 0..n
      OBVIOUS
    <3>2. f[k - 1] \in T
      BY <2>1, <3>1
    <3> QED BY <1>6, <2>1, <3>2
  <2>3. \A k \in 0..n : f[k] = IF k = 0 THEN a ELSE ReplayEvent(f[k - 1], es[k])
    <3>1. \A k \in 0..n : k = 0 \/ k \in 1..n
      OBVIOUS
    <3>2. \A k \in 1..n : k # 0
      OBVIOUS
    <3> QED BY <2>1, <2>2, <3>1, <3>2
  <2> QED BY <1>2, <1>3, <2>1, <2>3
<1>10. g = [k \in 0..Len(es) |->
             IF k = 0 THEN [box |-> InstallSnapshot(inbox, s), ok |-> TRUE]
             ELSE ReplayEvent(g[k - 1], es[k])]
  BY <1>9
<1> HIDE DEF g
<1>11. g[0] = a /\ \A k \in 1..n : g[k] = ReplayEvent(g[k - 1], es[k])
  <2>1. 0 \in 0..Len(es) /\ \A k \in 1..n : k \in 0..Len(es) /\ k # 0
    BY <1>2
  <2> QED BY <1>3, <1>10, <2>1
<1>12. \A k \in 0..n : g[k] \in T
  <2> DEFINE G == {k \in 0..n : g[k] \in T}
  <2>1. 0 \in G
    BY <1>4, <1>11
  <2>2. ASSUME NEW k \in 0..(n - 1), k \in G PROVE k + 1 \in G
    <3>1. k + 1 \in 1..n /\ k + 1 \in 0..n /\ (k + 1) - 1 = k
      OBVIOUS
    <3>2. g[k + 1] = ReplayEvent(g[k], es[k + 1])
      BY <1>11, <3>1
    <3> QED BY <1>5, <2>2, <3>1, <3>2
  <2>3. \A k \in 0..n : k \in G
    <3> HIDE DEF G
    <3> QED BY <2>1, <2>2, Counting
  <2> QED BY <2>3
<1>13. Caught(s, es) = g[n]
  BY <1>2 DEF Caught, g
<1>14. n \in 0..n
  OBVIOUS
<1>15. g[n] \in T
  BY <1>12, <1>14
<1> QED BY <1>1, <1>13, <1>15 DEF ReplayKind

\* By revision, events are the same events.
LEMMA ByRevisionHolds ==
  ASSUME NEW h, NEW i, NEW r, NEW es \in Seq(InboxEvent), \A k \in DOMAIN es : EventHolds(es[k], h, i, r),
         NEW fs \in ByRevision(es)
  PROVE  fs \in Seq(InboxEvent) /\ \A k \in DOMAIN fs : EventHolds(fs[k], h, i, r)
<1>1. PICK p \in [DOMAIN es -> DOMAIN es] : fs = [k \in DOMAIN es |-> es[p[k]]]
  BY DEF ByRevision
<1>2. PICK n \in Nat : n = Len(es) /\ DOMAIN es = 1..n
  OBVIOUS
<1>3. \A k \in 1..n : p[k] \in 1..n /\ fs[k] = es[p[k]] /\ es[p[k]] \in InboxEvent
  BY <1>1, <1>2
<1>4. fs \in [1..n -> InboxEvent]
  BY <1>1, <1>2, <1>3
<1>5. fs \in Seq(InboxEvent) /\ DOMAIN fs = 1..n
  BY <1>4
<1> QED BY <1>2, <1>3, <1>5

-----------------------------------------------------------------------------
(* Notifications: the steps of the browser *)

\* h is what the inbox has held in the instance i, of which it has the revision r.
NotesHold(h, i, r) ==
  /\ i = instance /\ r = revision[Viewed]
  /\ History(h, r, Content(buckets, watermark, Viewed))
  /\ BrowserHolds(wire, inbox, fetch, dismissal, h, i, r)
  /\ SeenBy(shown, inbox, dismissal, i)

LEMMA ParamsAre ==
  ASSUME StoreOK, NEW h, NEW i, NEW r, NotesHold(h, i, r)
  PROVE  /\ i \in Nat /\ r \in Nat /\ WireHolds(wire, h, i, r) /\ inbox \in InboxKind /\ BoxHolds(inbox, h, i, r)
         /\ FetchHolds(fetch, h, i, r) /\ DismissalHolds(dismissal, h, i, r)
         /\ SeenBy(shown, inbox, dismissal, i) /\ dismissal \in DismissalKind
BY StoreHolds DEF NotesHold, BrowserHolds, DismissalHolds

\* The store does not change, and what the browser has is of its history.
LEMMA StillHold ==
  ASSUME NEW h, NEW i, NEW r, NotesHold(h, i, r), UNCHANGED storeVars,
         WireHolds(wire', h, i, r), inbox' \in InboxKind, BoxHolds(inbox', h, i, r),
         FetchHolds(fetch', h, i, r), DismissalHolds(dismissal', h, i, r),
         SeenBy(shown', inbox', dismissal', i)
  PROVE  NotesHold(h, i, r)'
BY DEF NotesHold, BrowserHolds, storeVars, Content, Retained, Discarded, Discards, Entries, Of

LEMMA RefreshedHolds ==
  ASSUME NEW h, NEW i, NEW r, NEW f, FetchHolds(f, h, i, r)
  PROVE  /\ FetchHolds(Refreshed(f), h, i, r) /\ FetchHolds(Asked, h, i, r) /\ FetchHolds(NoFetch, h, i, r)
         /\ FetchHolds([f EXCEPT !.trailing = TRUE], h, i, r)
<1>1. FetchHolds(Asked, h, i, r) /\ FetchHolds(NoFetch, h, i, r)
  <2>1. /\ Asked.events = <<>> /\ Asked.phase = "asked" /\ NoFetch.events = <<>> /\ NoFetch.phase = "none"
        /\ DOMAIN <<>> = {}
    BY DEF Asked, NoFetch
  <2> QED BY <2>1, NothingIs DEF FetchHolds
<1>2. FetchHolds([f EXCEPT !.trailing = TRUE], h, i, r)
  <2>1. PICK g : g = [f EXCEPT !.trailing = TRUE]
    OBVIOUS
  <2>2. g \in FetchKind /\ g.events = f.events /\ g.phase = f.phase /\ g.answer = f.answer
    BY <2>1 DEF FetchHolds, FetchKind
  <2> QED BY <2>1, <2>2 DEF FetchHolds
<1> QED BY <1>1, <1>2 DEF Refreshed

LEMMA ShowsHolds ==
  ASSUME NEW h, NEW i \in Nat, NEW r, i = instance, NEW b \in InboxKind, BoxHolds(b, h, i, r),
         dismissal \in DismissalKind, SeenBy(shown, inbox, dismissal, i), Shows(b)
  PROVE  inbox' = b /\ SeenBy(shown', inbox', dismissal, i)
<1>1. inbox' = b
  BY DEF Shows
<1>2. PICK n \in Nat, m \in Nat : n = shown.note /\ m = shown.mark
  BY DEF SeenBy
<1>3. PICK p \in Nat, q \in Nat : p = b.content.through.note /\ q = b.content.through.mark
  BY DEF InboxKind, ContentKind
<1>4. CASE b.status = "fresh" /\ b.instance = i
  <2>1. shown' = [note |-> Greater(n, p), mark |-> Greater(m, q)]
    BY <1>2, <1>3, <1>4 DEF Shows
  <2>2. /\ Greater(n, p) \in Nat /\ Greater(m, q) \in Nat /\ n <= Greater(n, p) /\ p <= Greater(n, p)
        /\ m <= Greater(m, q) /\ q <= Greater(m, q)
    BY DEF Greater
  <2>3. shown' \in [note : Nat, mark : Nat] /\ shown'.note = Greater(n, p) /\ shown'.mark = Greater(m, q)
    BY <2>1, <2>2
  <2>4. ASSUME dismissal.phase = "asked", dismissal.instance = i
        PROVE  dismissal.through.note <= shown'.note /\ dismissal.through.mark <= shown'.mark
    <3>1. PICK p1 \in Nat, q1 \in Nat : p1 = dismissal.through.note /\ q1 = dismissal.through.mark
      BY DEF DismissalKind
    <3>2. p1 <= n /\ q1 <= m
      BY <1>2, <2>4, <3>1 DEF SeenBy
    <3>3. p1 <= Greater(n, p) /\ q1 <= Greater(m, q)
      BY <2>2, <3>2
    <3> QED BY <2>3, <3>1, <3>3
  <2> QED BY <1>1, <1>3, <2>2, <2>3, <2>4 DEF SeenBy
<1>5. CASE ~(b.status = "fresh" /\ b.instance = i)
  <2>1. shown' = shown
    BY <1>5 DEF Shows
  <2> QED BY <1>1, <1>5, <2>1 DEF SeenBy
<1> QED BY <1>1, <1>4, <1>5

LEMMA RefreshStep ==
  ASSUME StoreOK, NEW h, NEW i, NEW r, NotesHold(h, i, r),
         \/ RefreshInbox
         \/ DismissFails
  PROVE  NotesHold(h, i, r)'
<1>1. FetchHolds(Refreshed(fetch), h, i, r) /\ FetchHolds(fetch, h, i, r)
  BY ParamsAre, RefreshedHolds
<1>2. FetchHolds(fetch', h, i, r) /\ UNCHANGED <<storeVars, wire, inbox, shown>>
  BY <1>1 DEF RefreshInbox, DismissFails, BrowserOnly
<1>3. DismissalHolds(NoDismissal, h, i, r) /\ NoDismissal.phase = "none" /\ NoDismissal.instance = 0
  BY NothingIs DEF DismissalHolds, NoDismissal
<1>4. dismissal' = dismissal \/ dismissal' = NoDismissal
  BY DEF RefreshInbox, DismissFails
<1>5. DismissalHolds(dismissal', h, i, r)
  BY <1>3, <1>4, ParamsAre
<1>6. SeenBy(shown', inbox', dismissal', i)
  <2>1. 0 <= i
    BY ParamsAre
  <2> QED BY <1>2, <1>3, <1>4, <2>1, ParamsAre DEF SeenBy
<1> QED BY <1>2, <1>5, <1>6, ParamsAre, StillHold

LEMMA ReceiveStep ==
  ASSUME StoreOK, NEW h, NEW i, NEW r, NotesHold(h, i, r), ReceiveEvent
  PROVE  NotesHold(h, i, r)'
<1>1. /\ UNCHANGED storeVars /\ dismissal' = dismissal /\ wire # <<>> /\ wire' = Tail(wire)
  BY DEF ReceiveEvent, BrowserOnly
<1>2. wire \in Seq(InboxEvent) /\ \A k \in DOMAIN wire : EventHolds(wire[k], h, i, r)
  BY ParamsAre DEF WireHolds
<1>3. PICK e \in InboxEvent : e = Head(wire) /\ EventHolds(e, h, i, r)
  BY <1>1, <1>2
<1>4. WireHolds(wire', h, i, r)
  <2>1. wire' \in Seq(InboxEvent) /\ \A k \in DOMAIN wire' : k + 1 \in DOMAIN wire /\ wire'[k] = wire[k + 1]
    BY <1>1, <1>2
  <2> QED BY <1>2, <2>1 DEF WireHolds
<1>5. CASE fetch.phase # "none"
  <2>1. fetch' = [fetch EXCEPT !.events = Append(fetch.events, e)] /\ UNCHANGED <<inbox, shown>>
    BY <1>3, <1>5 DEF ReceiveEvent
  <2>2. PICK es \in Seq(InboxEvent) : es = fetch.events /\ \A k \in DOMAIN es : EventHolds(es[k], h, i, r)
    BY ParamsAre DEF FetchHolds, FetchKind
  <2>3. PICK fs \in Seq(InboxEvent) : fs = Append(es, e) /\ \A k \in DOMAIN fs : EventHolds(fs[k], h, i, r)
    <3>1. PICK fs : fs = Append(es, e)
      OBVIOUS
    <3>2. fs \in Seq(InboxEvent) /\ \A k \in DOMAIN fs : fs[k] = e \/ (k \in DOMAIN es /\ fs[k] = es[k])
      BY <3>1
    <3> QED BY <1>3, <2>2, <3>1, <3>2
  <2>4. fetch' = [fetch EXCEPT !.events = fs]
    BY <2>1, <2>2, <2>3
  <2>5. /\ fetch' \in FetchKind /\ fetch'.events = fs /\ fetch'.phase = fetch.phase
        /\ fetch'.answer = fetch.answer
    BY <2>4, ParamsAre DEF FetchHolds, FetchKind
  <2>6. FetchHolds(fetch', h, i, r)
    BY <2>3, <2>5, ParamsAre DEF FetchHolds
  <2> QED BY <1>1, <1>4, <2>1, <2>6, ParamsAre, StillHold
<1>6. CASE fetch.phase = "none"
  <2>1. PICK result : result = ApplyInboxEvent(inbox, e)
    OBVIOUS
  <2>2. Shows(result.box) /\ fetch' = IF result.ok THEN fetch ELSE Refreshed(fetch)
    BY <1>3, <1>6, <2>1 DEF ReceiveEvent
  <2>3. result.box \in InboxKind /\ BoxHolds(result.box, h, i, r)
    BY <1>3, <2>1, ParamsAre, ApplyHolds DEF NotesHold
  <2>4. FetchHolds(fetch', h, i, r)
    BY <2>2, ParamsAre, RefreshedHolds
  <2>5. inbox' = result.box /\ SeenBy(shown', inbox', dismissal, i)
    BY <2>2, <2>3, ParamsAre, ShowsHolds DEF NotesHold
  <2> QED BY <1>1, <1>4, <2>3, <2>4, <2>5, ParamsAre, StillHold
<1> QED BY <1>5, <1>6

LEMMA AnswerStep ==
  ASSUME StoreOK, NEW h, NEW i, NEW r, NotesHold(h, i, r), AnswerFetch
  PROVE  NotesHold(h, i, r)'
<1>1. /\ UNCHANGED <<storeVars, wire, inbox, dismissal, shown>>
      /\ fetch' = [fetch EXCEPT !.phase = "answered", !.answer = Snapshot]
  BY DEF AnswerFetch, BrowserOnly
<1>2. PICK s : s = Snapshot
  OBVIOUS
<1>3. s \in InboxAnswer /\ SnapshotHolds(s, h, i, r) /\ s # <<>>
  <2>1. s = [instance |-> i, revision |-> r, content |-> Content(buckets, watermark, Viewed)]
    BY <1>2 DEF Snapshot, NotesHold
  <2>2. i <= i /\ r \in 0..r /\ i \in Nat /\ r \in Nat
    BY ParamsAre
  <2>3. s \in InboxAnswer
    BY <2>1, <2>2, StoreHolds DEF InboxAnswer
  <2>4. SnapshotHolds(s, h, i, r)
    BY <2>1, <2>2 DEF SnapshotHolds, NotesHold, History
  <2>5. DOMAIN s = {"instance", "revision", "content"} /\ DOMAIN <<>> = {}
    BY <2>1
  <2> QED BY <2>3, <2>4, <2>5
<1>4. /\ fetch' \in FetchKind /\ fetch'.events = fetch.events /\ fetch'.answer = s
  BY <1>1, <1>2, <1>3, ParamsAre DEF FetchHolds, FetchKind
<1>5. FetchHolds(fetch', h, i, r)
  BY <1>3, <1>4, ParamsAre DEF FetchHolds
<1> QED BY <1>1, <1>5, ParamsAre, StillHold

LEMMA ReturnStep ==
  ASSUME StoreOK, NEW h, NEW i, NEW r, NotesHold(h, i, r), FetchReturns
  PROVE  NotesHold(h, i, r)'
<1>1. PICK es \in ByRevision(fetch.events) :
        /\ fetch.phase = "answered"
        /\ IF reachable
           THEN /\ Shows(Caught(fetch.answer, es).box)
                /\ fetch' \in {NoFetch, Asked}
           ELSE Shows(Stale(inbox)) /\ fetch' = NoFetch
        /\ UNCHANGED <<storeVars, wire, dismissal>>
  BY DEF FetchReturns, BrowserOnly
<1>2. FetchHolds(fetch', h, i, r)
  BY <1>1, ParamsAre, RefreshedHolds
<1>3. PICK s \in InboxAnswer : s = fetch.answer /\ SnapshotHolds(s, h, i, r)
  BY <1>1, ParamsAre DEF FetchHolds, FetchKind
<1>4. es \in Seq(InboxEvent) /\ \A k \in DOMAIN es : EventHolds(es[k], h, i, r)
  <2>1. PICK fs \in Seq(InboxEvent) : fs = fetch.events /\ \A k \in DOMAIN fs : EventHolds(fs[k], h, i, r)
    BY ParamsAre DEF FetchHolds, FetchKind
  <2> QED BY <1>1, <2>1, ByRevisionHolds
<1>5. PICK b \in InboxKind : BoxHolds(b, h, i, r) /\ Shows(b)
  <2>1. CASE reachable
    <3>1. Caught(s, es).box \in InboxKind /\ BoxHolds(Caught(s, es).box, h, i, r)
      BY <1>3, <1>4, ParamsAre, CaughtHolds DEF NotesHold
    <3> QED BY <1>1, <1>3, <2>1, <3>1
  <2>2. CASE ~reachable
    <3>1. Stale(inbox) \in InboxKind /\ BoxHolds(Stale(inbox), h, i, r)
      BY ParamsAre, StaleHolds DEF BoxHolds
    <3> QED BY <1>1, <2>2, <3>1
  <2> QED BY <2>1, <2>2
<1>6. inbox' = b /\ SeenBy(shown', inbox', dismissal, i)
  BY <1>5, ParamsAre, ShowsHolds DEF NotesHold
<1> QED BY <1>1, <1>2, <1>5, <1>6, ParamsAre, StillHold

\* The inbox goes stale, is emptied for another session or stays as it is.
LEMMA TurnStep ==
  ASSUME StoreOK, NEW h, NEW i, NEW r, NotesHold(h, i, r), FetchFails \/ SelectAgain \/ Reachability
  PROVE  NotesHold(h, i, r)'
<1>1. UNCHANGED <<storeVars, wire>>
  BY DEF FetchFails, SelectAgain, Reachability, BrowserOnly
<1>2. PICK b \in InboxKind : BoxHolds(b, h, i, r) /\ Shows(b)
  <2>1. Stale(inbox) \in InboxKind /\ BoxHolds(Stale(inbox), h, i, r)
    BY ParamsAre, StaleHolds DEF BoxHolds
  <2>2. Loading \in InboxKind /\ BoxHolds(Loading, h, i, r)
    BY NothingIs, ParamsAre DEF BoxHolds
  <2>3. Shows(Stale(inbox)) \/ Shows(Loading) \/ Shows(inbox)
    BY DEF FetchFails, SelectAgain, Reachability
  <2> QED BY <2>1, <2>2, <2>3, ParamsAre
<1>3. inbox' = b /\ SeenBy(shown', inbox', dismissal, i)
  BY <1>2, ParamsAre, ShowsHolds DEF NotesHold
<1>4. FetchHolds(fetch', h, i, r)
  <2>1. fetch' = NoFetch \/ fetch' = Asked \/ fetch' = [fetch EXCEPT !.trailing = TRUE] \/ fetch' = fetch
    BY DEF FetchFails, SelectAgain, Reachability
  <2>2. FetchHolds(fetch, h, i, r)
    BY ParamsAre
  <2>3. /\ FetchHolds(Asked, h, i, r) /\ FetchHolds(NoFetch, h, i, r)
        /\ FetchHolds([fetch EXCEPT !.trailing = TRUE], h, i, r)
    BY <2>2, RefreshedHolds
  <2> QED BY <2>1, <2>2, <2>3
<1>5. DismissalHolds(dismissal', h, i, r) /\ SeenBy(shown', inbox', dismissal', i)
  <2>1. dismissal' = dismissal \/ dismissal' = [dismissal EXCEPT !.current = FALSE]
    BY DEF FetchFails, SelectAgain, Reachability
  <2>2. /\ dismissal' \in DismissalKind /\ dismissal'.phase = dismissal.phase
        /\ dismissal'.instance = dismissal.instance /\ dismissal'.through = dismissal.through
        /\ dismissal'.answer = dismissal.answer
    BY <2>1, ParamsAre DEF DismissalHolds, DismissalKind
  <2>3. DismissalHolds(dismissal', h, i, r)
    BY <2>2, ParamsAre DEF DismissalHolds
  <2> QED BY <1>3, <2>2, <2>3 DEF SeenBy
<1> QED BY <1>1, <1>2, <1>3, <1>4, <1>5, StillHold, ParamsAre

LEMMA UserStep ==
  ASSUME StoreOK, NEW h, NEW i, NEW r, NotesHold(h, i, r), NEW all \in BOOLEAN, UserDismisses(all)
  PROVE  NotesHold(h, i, r)'
<1>1. PICK through \in IF all THEN {inbox.content.through}
                         ELSE {[note |-> n, mark |-> 0] : n \in inbox.content.notes} :
        dismissal' = [phase |-> "asked", all |-> all, instance |-> inbox.instance, through |-> through,
                      current |-> TRUE, answer |-> <<>>]
  BY DEF UserDismisses
<1>2. UNCHANGED <<storeVars, wire, inbox, fetch, shown>> /\ inbox.status = "fresh"
  BY DEF UserDismisses, BrowserOnly
<1>3. inbox.content \in ContentKind /\ inbox.instance \in Nat /\ inbox.instance <= i
  BY ParamsAre DEF InboxKind, BoxHolds
<1>4. /\ through \in [note : Nat, mark : Nat]
      /\ inbox.instance = i =>
           through.note <= inbox.content.through.note /\ through.mark <= inbox.content.through.mark
  <2>1. CASE all
    <3>1. through = inbox.content.through
      BY <1>1, <2>1
    <3> QED BY <1>3, <3>1 DEF ContentKind
  <2>2. CASE ~all
    <3>1. PICK n \in inbox.content.notes : through = [note |-> n, mark |-> 0]
      BY <1>1, <2>2
    <3>2. n \in Nat /\ inbox.content.through.mark \in Nat
      BY <1>3 DEF ContentKind
    <3>3. inbox.instance = i => n <= inbox.content.through.note
      <4>1. inbox.instance = i => inbox.revision \in 0..r /\ inbox.content = h[inbox.revision]
        BY <1>2, ParamsAre DEF BoxHolds, SnapshotHolds
      <4> QED BY <4>1 DEF NotesHold, History
    <3> QED BY <3>1, <3>2, <3>3
  <2> QED BY <2>1, <2>2
<1>5. /\ dismissal' \in DismissalKind /\ dismissal'.phase = "asked" /\ dismissal'.instance = inbox.instance
      /\ dismissal'.through = through
  BY <1>1, <1>3, <1>4 DEF DismissalKind
<1>6. DismissalHolds(dismissal', h, i, r)
  BY <1>5 DEF DismissalHolds
<1>7. SeenBy(shown', inbox', dismissal', i)
  <2>1. ASSUME inbox.instance = i PROVE through.note <= shown.note /\ through.mark <= shown.mark
    <3>1. /\ through.note <= inbox.content.through.note /\ inbox.content.through.note <= shown.note
          /\ through.mark <= inbox.content.through.mark /\ inbox.content.through.mark <= shown.mark
      BY <1>2, <1>4, <2>1, ParamsAre DEF SeenBy
    <3>2. /\ through.note \in Nat /\ through.mark \in Nat /\ shown.note \in Nat /\ shown.mark \in Nat
          /\ inbox.content.through.note \in Nat /\ inbox.content.through.mark \in Nat
      BY <1>3, <1>4, ParamsAre DEF SeenBy, ContentKind
    <3> QED BY <3>1, <3>2
  <2> QED BY <1>2, <1>3, <1>5, <2>1, ParamsAre DEF SeenBy
<1> QED BY <1>2, <1>6, <1>7, ParamsAre, StillHold

LEMMA DismissReturnStep ==
  ASSUME StoreOK, NEW h, NEW i, NEW r, NotesHold(h, i, r), DismissReturns
  PROVE  NotesHold(h, i, r)'
<1>1. dismissal.phase = "answered" /\ dismissal' = NoDismissal /\ UNCHANGED <<storeVars, wire, fetch>>
  BY DEF DismissReturns, BrowserOnly
<1>2. PICK s \in InboxAnswer : s = dismissal.answer /\ SnapshotHolds(s, h, i, r)
  BY <1>1, ParamsAre DEF DismissalHolds, DismissalKind
<1>3. PICK b \in InboxKind : BoxHolds(b, h, i, r) /\ Shows(b)
  <2>1. Stale(inbox) \in InboxKind /\ BoxHolds(Stale(inbox), h, i, r)
    BY ParamsAre, StaleHolds DEF BoxHolds
  <2>2. InstallSnapshot(inbox, s) \in InboxKind /\ BoxHolds(InstallSnapshot(inbox, s), h, i, r)
    BY <1>2, ParamsAre, InstallHolds
  <2>3. Shows(Stale(inbox)) \/ Shows(InstallSnapshot(inbox, s)) \/ Shows(inbox)
    BY <1>2 DEF DismissReturns
  <2> QED BY <2>1, <2>2, <2>3, ParamsAre
<1>4. inbox' = b /\ SeenBy(shown', inbox', dismissal, i)
  BY <1>3, ParamsAre, ShowsHolds DEF NotesHold
<1>5. /\ DismissalHolds(NoDismissal, h, i, r) /\ NoDismissal.phase = "none" /\ NoDismissal.instance = 0 /\ 0 <= i
  BY NothingIs, ParamsAre DEF DismissalHolds, NoDismissal
<1>6. SeenBy(shown', inbox', dismissal', i)
  BY <1>1, <1>4, <1>5 DEF SeenBy
<1> QED BY <1>1, <1>3, <1>4, <1>5, <1>6, ParamsAre, StillHold

-----------------------------------------------------------------------------
(* Notifications: the theorems *)

LEMMA InvIs ==
  /\ NotesInv => StoreOK /\ \E h, i, r : NotesHold(h, i, r)
  /\ StoreOK /\ (\E h, i, r : NotesHold(h, i, r)) => NotesInv
<1>1. ASSUME NotesInv PROVE StoreOK /\ \E h, i, r : NotesHold(h, i, r)
  BY <1>1 DEF NotesInv, Known, NotesHold
<1>2. ASSUME StoreOK, NEW h, NEW i, NEW r, NotesHold(h, i, r) PROVE NotesInv
  BY <1>2 DEF NotesInv, Known, NotesHold
<1> QED BY <1>1, <1>2

\* The store changes and the browser is as it was.
LEMMA StoreStep ==
  ASSUME NotesInv, Stores, lastNote' \in Nat, StoreOnly
  PROVE  NotesInv'
<1>1. PICK bs, marks, deltas :
        /\ Becomes(bs, marks, deltas) /\ marks \in [NoteSession -> Nat]
        /\ BucketsOK(bs, lastNote') /\ Tallies(deltas, bs, marks)
  BY DEF Stores
<1>2. UNCHANGED <<instance, streaming, reachable, inbox, fetch, dismissal, shown>>
  BY DEF StoreOnly
<1>3. /\ StoreOK'
      /\ Known(wire', inbox, fetch, dismissal, instance, revision'[Viewed], Content(bs, marks, Viewed))
  BY <1>1, <1>2, BecomesOK DEF NotesInv
<1>4. buckets' = bs /\ watermark' = marks
  BY <1>1 DEF Becomes
<1>5. Content(buckets', watermark', Viewed) = Content(bs, marks, Viewed)
  BY <1>4
<1>6. SeenBy(shown', inbox', dismissal', instance')
  BY <1>2 DEF NotesInv
<1> QED BY <1>2, <1>3, <1>5, <1>6 DEF NotesInv

\* What the daemon answers to a dismissal, and what it takes for it.
LEMMA HandledStores ==
  ASSUME NotesInv, DismissHandled
  PROVE  /\ \/ UNCHANGED <<buckets, watermark, revision, wire>>
            \/ Stores /\ dismissal.instance = instance /\ Takes(dismissal.through)
         /\ UNCHANGED <<instance, lastNote, streaming, reachable, inbox, fetch, shown>>
         /\ dismissal.phase = "asked"
<1>1. /\ UNCHANGED <<instance, lastNote, streaming, reachable, inbox, fetch, shown>>
      /\ dismissal.phase = "asked"
  BY DEF DismissHandled
<1>2. StoreOK /\ dismissal \in DismissalKind
  BY DEF NotesInv, Known, BrowserHolds, DismissalHolds
<1>3. PICK t \in [note : Nat, mark : Nat] : t = dismissal.through
  BY <1>2 DEF DismissalKind
<1>4. CASE dismissal.instance # instance
  BY <1>1, <1>4 DEF DismissHandled
<1>5. CASE dismissal.instance = instance /\ dismissal.all
  <2>1. DismissedThrough(t)
    BY <1>3, <1>5 DEF DismissHandled
  <2> QED BY <1>1, <1>2, <1>3, <1>5, <2>1, ThroughStores
<1>6. CASE dismissal.instance = instance /\ ~dismissal.all
  <2>1. DismissedOne(t.note)
    BY <1>3, <1>6 DEF DismissHandled
  <2> QED BY <1>1, <1>2, <1>3, <1>6, <2>1, OneStores
<1> QED BY <1>4, <1>5, <1>6

LEMMA HandledStep ==
  ASSUME NotesInv, DismissHandled
  PROVE  NotesInv'
<1>1. /\ \/ UNCHANGED <<buckets, watermark, revision, wire>>
         \/ Stores /\ dismissal.instance = instance /\ Takes(dismissal.through)
      /\ UNCHANGED <<instance, lastNote, streaming, reachable, inbox, fetch, shown>>
  BY HandledStores
<1>2. PICK c : c = Content(buckets', watermark', Viewed)
  OBVIOUS
<1>3. /\ StoreOK' /\ c \in ContentKind /\ revision'[Viewed] \in Nat
      /\ Known(wire', inbox, fetch, dismissal, instance, revision'[Viewed], c)
  <2>1. CASE UNCHANGED <<buckets, watermark, revision, wire>>
    <3>1. StoreOK'
      BY <1>1, <2>1 DEF NotesInv, StoreOK
    <3>2. c = Content(buckets, watermark, Viewed)
      BY <1>2, <2>1
    <3>3. c \in ContentKind /\ revision[Viewed] \in Nat
      BY <3>2, StoreHolds DEF NotesInv
    <3> QED BY <2>1, <3>1, <3>2, <3>3 DEF NotesInv
  <2>2. CASE Stores
    <3>1. PICK bs, marks, deltas :
            /\ Becomes(bs, marks, deltas) /\ marks \in [NoteSession -> Nat]
            /\ BucketsOK(bs, lastNote') /\ Tallies(deltas, bs, marks)
      BY <2>2 DEF Stores
    <3>2. lastNote' \in Nat
      BY <1>1 DEF NotesInv, StoreOK
    <3>3. buckets' = bs /\ watermark' = marks
      BY <3>1 DEF Becomes
    <3>4. c = Content(bs, marks, Viewed)
      BY <1>2, <3>3
    <3> QED BY <1>1, <3>1, <3>2, <3>4, BecomesOK DEF NotesInv
  <2> QED BY <1>1, <2>1, <2>2
<1>4. PICK i \in Nat, r \in Nat : i = instance /\ r = revision'[Viewed]
  BY <1>3 DEF NotesInv, StoreOK
<1>5. PICK h : History(h, r, c) /\ BrowserHolds(wire', inbox, fetch, dismissal, h, i, r)
  BY <1>3, <1>4 DEF Known
<1>6. PICK s : s = [instance |-> i, revision |-> r, content |-> c]
  OBVIOUS
<1>7. s \in InboxAnswer /\ SnapshotHolds(s, h, i, r) /\ s # <<>>
  <2>1. s \in InboxAnswer
    BY <1>3, <1>6 DEF InboxAnswer
  <2>2. SnapshotHolds(s, h, i, r)
    BY <1>5, <1>6 DEF SnapshotHolds, History
  <2>3. DOMAIN s = {"instance", "revision", "content"} /\ DOMAIN <<>> = {}
    BY <1>6
  <2> QED BY <2>1, <2>2, <2>3
<1>8. dismissal' = [dismissal EXCEPT !.phase = "answered", !.answer = s]
  BY <1>2, <1>4, <1>6 DEF DismissHandled, Answered
<1>9. /\ dismissal' \in DismissalKind /\ dismissal'.phase = "answered" /\ dismissal'.answer = s
      /\ dismissal'.instance = dismissal.instance
  BY <1>5, <1>7, <1>8 DEF BrowserHolds, DismissalHolds, DismissalKind
<1>10. BrowserHolds(wire', inbox', fetch', dismissal', h, i, r)
  BY <1>1, <1>5, <1>7, <1>9 DEF BrowserHolds, DismissalHolds
<1>11. SeenBy(shown', inbox', dismissal', instance')
  BY <1>1, <1>9 DEF NotesInv, SeenBy
<1>12. Known(wire', inbox', fetch', dismissal', instance', revision'[Viewed], Content(buckets', watermark', Viewed))
  BY <1>1, <1>2, <1>4, <1>5, <1>10 DEF Known
<1> QED BY <1>3, <1>11, <1>12 DEF NotesInv

\* Of an instance that begins, nothing is known.
LEMMA NothingKnown ==
  ASSUME NEW marks \in [NoteSession -> Nat]
  PROVE  \E h : History(h, 0, Content(<<>>, marks, Viewed))
<1>1. PICK c \in ContentKind : c = Content(<<>>, marks, Viewed) /\ c.notes = {}
  <2>1. PICK bs : bs = <<>>
    OBVIOUS
  <2>2. BucketsOK(bs, 0)
    BY <2>1 DEF BucketsOK
  <2>3. Content(bs, marks, Viewed) \in ContentKind
    BY <2>2, BucketsShow, ViewedAssumption
  <2>4. Content(bs, marks, Viewed).notes = {}
    BY <2>1, NoBuckets DEF Content
  <2> QED BY <2>1, <2>3, <2>4
<1>2. PICK h : h = [k \in 0..0 |-> c]
  OBVIOUS
<1>3. History(h, 0, c)
  BY <1>1, <1>2 DEF History
<1> QED BY <1>1, <1>3

LEMMA NewInstanceStep ==
  ASSUME NotesInv, NewInstance
  PROVE  NotesInv'
<1>1. PICK h, i, r : StoreOK /\ NotesHold(h, i, r)
  BY InvIs
<1>2. /\ instance' = i + 1 /\ lastNote' = 0 /\ buckets' = <<>>
      /\ revision' = [x \in NoteSession |-> 0] /\ watermark' = revision'
      /\ streaming' = FALSE /\ wire' = <<>> /\ shown' = Nothing.through
      /\ UNCHANGED <<inbox, fetch, dismissal>>
  BY <1>1 DEF NewInstance, NotesHold
<1>3. i \in Nat /\ i + 1 \in Nat \ {0} /\ watermark' \in [NoteSession -> Nat] /\ revision'[Viewed] = 0
  BY <1>1, <1>2, ParamsAre, ViewedAssumption
<1>4. StoreOK'
  <2>1. revision' \in [NoteSession -> Nat] /\ instance' \in Nat \ {0} /\ lastNote' \in Nat /\ streaming' \in BOOLEAN
    BY <1>2, <1>3
  <2>2. buckets' \in Seq(BucketKind) /\ Len(buckets') <= 2 /\ DOMAIN buckets' = {}
    BY <1>2
  <2> QED BY <1>3, <2>1, <2>2 DEF StoreOK
<1>5. PICK g : History(g, 0, Content(buckets', watermark', Viewed))
  BY <1>2, <1>3, NothingKnown
<1>6. \A k \in Nat : k <= i => k <= i + 1 /\ k # i + 1
  BY <1>3
<1>7. WireHolds(wire', g, i + 1, 0)
  BY <1>2 DEF WireHolds
<1>8. inbox \in InboxKind /\ BoxHolds(inbox, g, i + 1, 0) /\ inbox.instance # i + 1
  <2>1. inbox \in InboxKind /\ inbox.instance \in Nat /\ inbox.instance <= i
    BY <1>1, ParamsAre DEF BoxHolds, InboxKind
  <2> QED BY <1>6, <2>1 DEF BoxHolds, SnapshotHolds
<1>9. FetchHolds(fetch, g, i + 1, 0)
  <2>1. FetchHolds(fetch, h, i, r)
    BY <1>1, ParamsAre
  <2>2. PICK es \in Seq(InboxEvent) : es = fetch.events
    BY <2>1 DEF FetchHolds, FetchKind
  <2>3. \A k \in DOMAIN es : es[k].instance \in Nat /\ es[k].instance <= i
    <3>1. \A k \in DOMAIN es : es[k] \in InboxEvent /\ EventHolds(es[k], h, i, r)
      BY <2>1, <2>2 DEF FetchHolds
    <3> QED BY <3>1 DEF EventHolds, InboxEvent
  <2>4. \A k \in DOMAIN es : EventHolds(es[k], g, i + 1, 0)
    BY <1>6, <2>3 DEF EventHolds
  <2>5. fetch.phase = "answered" => SnapshotHolds(fetch.answer, g, i + 1, 0)
    <3>1. fetch.phase = "answered" => fetch.answer.instance \in Nat /\ fetch.answer.instance <= i
      BY <2>1 DEF FetchHolds, FetchKind, InboxAnswer, SnapshotHolds
    <3> QED BY <1>6, <3>1 DEF SnapshotHolds
  <2> QED BY <2>1, <2>2, <2>4, <2>5 DEF FetchHolds
<1>10. DismissalHolds(dismissal, g, i + 1, 0) /\ dismissal.instance <= i + 1 /\ dismissal.instance # i + 1
  <2>1. DismissalHolds(dismissal, h, i, r) /\ dismissal.instance \in Nat /\ dismissal.instance <= i
    BY <1>1, ParamsAre DEF SeenBy, DismissalKind
  <2>2. dismissal.phase = "answered" => SnapshotHolds(dismissal.answer, g, i + 1, 0)
    <3>1. dismissal.phase = "answered" => dismissal.answer.instance \in Nat /\ dismissal.answer.instance <= i
      BY <2>1 DEF DismissalHolds, DismissalKind, InboxAnswer, SnapshotHolds
    <3> QED BY <1>6, <3>1 DEF SnapshotHolds
  <2> QED BY <1>6, <2>1, <2>2 DEF DismissalHolds
<1>11. BrowserHolds(wire', inbox', fetch', dismissal', g, instance', 0)
  BY <1>2, <1>7, <1>8, <1>9, <1>10 DEF BrowserHolds
<1>12. SeenBy(shown', inbox', dismissal', instance')
  BY <1>2, <1>8, <1>10, NothingIs DEF SeenBy
<1> QED BY <1>3, <1>4, <1>5, <1>11, <1>12 DEF NotesInv, Known

LEMMA SocketStep ==
  ASSUME StoreOK, NEW h, NEW i, NEW r, NotesHold(h, i, r), JoinEvents \/ LoseEvents
  PROVE  NotesHold(h, i, r)' /\ StoreOK'
<1>1. UNCHANGED <<storeVars, inbox, fetch, dismissal, shown>> /\ wire' \in {wire, <<>>} /\ streaming' \in BOOLEAN
  BY DEF JoinEvents, LoseEvents
<1>2. WireHolds(wire', h, i, r)
  <2>1. PICK none : none = <<>>
    OBVIOUS
  <2>2. WireHolds(none, h, i, r)
    BY <2>1 DEF WireHolds
  <2> QED BY <1>1, <2>1, <2>2, ParamsAre
<1>3. StoreOK'
  BY <1>1 DEF StoreOK, storeVars
<1> QED BY <1>1, <1>2, <1>3, ParamsAre, StillHold

LEMMA BrowserStep ==
  ASSUME NotesInv,
         \/ RefreshInbox \/ ReceiveEvent \/ AnswerFetch \/ FetchReturns \/ FetchFails
         \/ SelectAgain \/ Reachability
         \/ \E all \in BOOLEAN : UserDismisses(all)
         \/ DismissReturns \/ DismissFails \/ JoinEvents \/ LoseEvents
         \/ UNCHANGED noteVars
  PROVE  NotesInv'
<1>1. PICK h, i, r : StoreOK /\ NotesHold(h, i, r)
  BY InvIs
<1>2. CASE JoinEvents \/ LoseEvents
  <2>1. NotesHold(h, i, r)' /\ StoreOK'
    BY <1>1, <1>2, SocketStep
  <2> QED BY <2>1 DEF NotesInv, Known, NotesHold
<1>3. CASE ~(JoinEvents \/ LoseEvents)
  <2>1. UNCHANGED <<storeVars, streaming>>
    BY <1>3 DEF RefreshInbox, ReceiveEvent, AnswerFetch, FetchReturns, FetchFails, SelectAgain, Reachability,
                UserDismisses, DismissReturns, DismissFails, BrowserOnly, noteVars
  <2>2. StoreOK'
    BY <1>1, <2>1 DEF StoreOK, storeVars
  <2>3. NotesHold(h, i, r)'
    <3>1. CASE RefreshInbox \/ DismissFails
      BY <1>1, <3>1, RefreshStep
    <3>2. CASE ReceiveEvent
      BY <1>1, <3>2, ReceiveStep
    <3>3. CASE AnswerFetch
      BY <1>1, <3>3, AnswerStep
    <3>4. CASE FetchReturns
      BY <1>1, <3>4, ReturnStep
    <3>5. CASE FetchFails \/ SelectAgain \/ Reachability
      BY <1>1, <3>5, TurnStep
    <3>6. CASE \E all \in BOOLEAN : UserDismisses(all)
      BY <1>1, <3>6, UserStep
    <3>7. CASE DismissReturns
      BY <1>1, <3>7, DismissReturnStep
    <3>8. CASE UNCHANGED noteVars
      <4>1. UNCHANGED <<storeVars, wire, inbox, fetch, dismissal, shown>>
        BY <3>8 DEF noteVars
      <4> QED BY <1>1, <4>1, ParamsAre, StillHold
    <3> QED BY <1>3, <3>1, <3>2, <3>3, <3>4, <3>5, <3>6, <3>7, <3>8
  <2> QED BY <2>2, <2>3 DEF NotesInv, Known, NotesHold
<1> QED BY <1>2, <1>3

LEMMA NotesInit0 ==
  ASSUME NotesInit
  PROVE  NotesInv
<1>1. /\ instance = 1 /\ lastNote = 0 /\ buckets = <<>>
      /\ revision = [x \in NoteSession |-> 0] /\ watermark = revision
      /\ streaming = FALSE /\ wire = <<>> /\ inbox = Loading /\ fetch = NoFetch
      /\ dismissal = NoDismissal /\ shown = Nothing.through
  BY DEF NotesInit
<1>2. StoreOK
  <2>1. /\ revision \in [NoteSession -> Nat] /\ watermark \in [NoteSession -> Nat]
        /\ instance \in Nat \ {0} /\ lastNote \in Nat
    BY <1>1
  <2>2. buckets \in Seq(BucketKind) /\ Len(buckets) <= 2 /\ DOMAIN buckets = {}
    BY <1>1
  <2>3. streaming \in BOOLEAN
    BY <1>1, Zenon
  <2> QED BY <2>1, <2>2, <2>3 DEF StoreOK
<1>3. PICK h : History(h, 0, Content(buckets, watermark, Viewed))
  BY <1>1, <1>2, NothingKnown DEF StoreOK
<1>4. WireHolds(wire, h, 1, 0)
  BY <1>1 DEF WireHolds
<1>5. BoxHolds(Loading, h, 1, 0) /\ Loading.status # "fresh"
  BY NothingIs DEF BoxHolds
<1>6. FetchHolds(NoFetch, h, 1, 0)
  <2>1. NoFetch.events = <<>> /\ NoFetch.phase = "none" /\ DOMAIN <<>> = {}
    BY DEF NoFetch
  <2> QED BY <2>1, NothingIs DEF FetchHolds
<1>7. DismissalHolds(NoDismissal, h, 1, 0) /\ NoDismissal.phase = "none" /\ NoDismissal.instance = 0
  BY NothingIs DEF DismissalHolds, NoDismissal
<1>8. BrowserHolds(wire, inbox, fetch, dismissal, h, instance, 0)
  BY <1>1, <1>4, <1>5, <1>6, <1>7, NothingIs DEF BrowserHolds
<1>9. SeenBy(shown, inbox, dismissal, instance)
  BY <1>1, <1>5, <1>7, NothingIs DEF SeenBy
<1>10. revision[Viewed] = 0
  BY <1>1, ViewedAssumption
<1> QED BY <1>2, <1>3, <1>8, <1>9, <1>10 DEF NotesInv, Known

LEMMA NotesStep ==
  ASSUME NotesInv, [NotesNext]_noteVars
  PROVE  NotesInv'
<1>0. StoreOK /\ lastNote \in Nat
  BY DEF NotesInv, StoreOK
<1>1. ASSUME NEW x \in NoteSession, Register(x) PROVE NotesInv'
  <2>1. lastNote' = lastNote /\ StoreOnly
    BY <1>1 DEF Register
  <2> QED BY <1>0, <1>1, <2>1, RegisterStores, StoreStep
<1>2. ASSUME NEW x \in NoteSession, BeginReplacement(x) PROVE NotesInv'
  <2>1. lastNote' = lastNote /\ StoreOnly
    BY <1>2 DEF BeginReplacement
  <2> QED BY <1>0, <1>2, <2>1, BeginStores, StoreStep
<1>3. CASE AddNote
  <2>1. StoreOnly
    BY <1>3 DEF AddNote
  <2> QED BY <1>0, <1>3, <2>1, AddStores, StoreStep
<1>4. CASE CommitReplacement
  <2>1. lastNote' = lastNote /\ StoreOnly
    BY <1>4 DEF CommitReplacement
  <2> QED BY <1>0, <1>4, <2>1, CommitStores, StoreStep
<1>5. CASE AbortReplacement
  <2>1. lastNote' = lastNote /\ StoreOnly
    BY <1>5 DEF AbortReplacement
  <2> QED BY <1>0, <1>5, <2>1, AbortStores, StoreStep
<1>6. CASE CloseNotes
  <2>1. lastNote' = lastNote /\ StoreOnly
    BY <1>6 DEF CloseNotes
  <2> QED BY <1>0, <1>6, <2>1, CloseStores, StoreStep
<1>7. CASE DismissHandled
  BY <1>7, HandledStep
<1>8. CASE NewInstance
  BY <1>8, NewInstanceStep
<1>9. \/ \E x \in NoteSession : Register(x) \/ BeginReplacement(x)
      \/ AddNote \/ CommitReplacement \/ AbortReplacement \/ CloseNotes
      \/ DismissHandled \/ NewInstance
      \/ \/ RefreshInbox \/ ReceiveEvent \/ AnswerFetch \/ FetchReturns \/ FetchFails
         \/ SelectAgain \/ Reachability
         \/ \E all \in BOOLEAN : UserDismisses(all)
         \/ DismissReturns \/ DismissFails \/ JoinEvents \/ LoseEvents
         \/ UNCHANGED noteVars
  BY DEF NotesNext
<1> QED BY <1>1, <1>2, <1>3, <1>4, <1>5, <1>6, <1>7, <1>8, <1>9, BrowserStep

LEMMA NotesInvHolds == NotesSpec => []NotesInv
<1>1. NotesInit => NotesInv
  BY NotesInit0
<1>2. NotesInv /\ [NotesNext]_noteVars => NotesInv'
  BY NotesStep
<1> QED BY <1>1, <1>2, PTL DEF NotesSpec

\* A fresh inbox of the revision the daemon has is the inbox the daemon has: applySelectedNotificationEvent
\* takes no event that does not follow, and each change of what a session shows has its revision.
THEOREM InboxesAgreeAlways == NotesSpec => []InboxesAgree
<1>1. NotesInv => InboxesAgree
  <2> SUFFICES ASSUME NotesInv, inbox.status = "fresh", inbox.instance = instance, inbox.revision = revision[Viewed]
               PROVE  inbox.content = Content(buckets, watermark, Viewed)
    BY DEF InboxesAgree
  <2>1. PICK h : /\ History(h, revision[Viewed], Content(buckets, watermark, Viewed))
                 /\ BoxHolds(inbox, h, instance, revision[Viewed])
    BY DEF NotesInv, Known, BrowserHolds
  <2> QED BY <2>1 DEF BoxHolds, SnapshotHolds, History
<1> QED BY <1>1, NotesInvHolds, PTL

\* What a dismissal takes is what the user has been shown.
LEMMA DismissalTakes ==
  ASSUME NotesInv, DismissHandled
  PROVE  LET unseen == IF watermark[Viewed] > shown.mark THEN watermark[Viewed] - shown.mark ELSE 0
             taken == Retained(buckets, Viewed) \ Retained(buckets', Viewed)
         IN  /\ \A n \in taken : n <= shown.note
             /\ dismissal.all => Discarded(buckets', Viewed) >= Least(Discarded(buckets, Viewed), unseen)
<1>0. /\ StoreOK /\ dismissal \in DismissalKind /\ SeenBy(shown, inbox, dismissal, instance)
  BY DEF NotesInv, Known, BrowserHolds, DismissalHolds
<1>1. PICK m \in Nat, l \in Nat, total \in Nat, s \in Nat, k \in Nat :
        /\ watermark \in [NoteSession -> Nat] /\ m = watermark[Viewed] /\ l = lastNote /\ BucketsOK(buckets, l)
        /\ total = Discarded(buckets, Viewed) /\ s = shown.note /\ k = shown.mark
  BY <1>0, StoreHolds, BucketsShow, ViewedAssumption DEF SeenBy
<1>2. CASE UNCHANGED buckets
  <2>1. Least(total, IF m > k THEN m - k ELSE 0) <= total
    BY DEF Least
  <2>2. Discarded(buckets', Viewed) = total /\ Retained(buckets', Viewed) = Retained(buckets, Viewed)
    BY <1>1, <1>2
  <2>3. Least(total, IF m > k THEN m - k ELSE 0) \in Nat
    BY DEF Least
  <2> QED BY <1>1, <2>1, <2>2, <2>3
<1>3. CASE dismissal.instance = instance /\ Takes(dismissal.through)
  <2>1. PICK t \in [note : Nat, mark : Nat] : t = dismissal.through
    BY <1>0 DEF DismissalKind
  <2>2. t.note <= s /\ t.mark <= k /\ t.note \in Nat /\ t.mark \in Nat
    BY <1>0, <1>1, <1>3, <2>1, HandledStores DEF SeenBy
  <2>3. Retained(buckets, Viewed) \in SUBSET (1..l)
    BY <1>1, BucketsShow, ViewedAssumption
  <2>4. ASSUME NEW n \in Retained(buckets, Viewed) \ Retained(buckets', Viewed) PROVE n <= s
    <3>1. n \in Nat /\ n <= t.note
      BY <1>3, <2>1, <2>3 DEF Takes
    <3> QED BY <2>2, <3>1
  <2>5. ASSUME dismissal.all
        PROVE  Discarded(buckets', Viewed) >= Least(total, IF m > k THEN m - k ELSE 0)
    <3>1. Discarded(buckets', Viewed) >= Least(total, IF m > t.mark THEN m - t.mark ELSE 0)
      BY <1>1, <1>3, <2>1, <2>5 DEF Takes
    <3>2. Discarded(buckets', Viewed) \in Nat
      <4>1. StoreOK'
        BY HandledStep DEF NotesInv
      <4>2. PICK n \in Nat : n = lastNote' /\ BucketsOK(buckets', n)
        BY <4>1 DEF StoreOK, BucketsOK
      <4> QED BY <1>1, <4>2, BucketsShow, ViewedAssumption
    <3>3. PICK d \in Nat : d = Discarded(buckets', Viewed)
      BY <3>2
    <3>4. d >= Least(total, IF m > k THEN m - k ELSE 0)
      <4>1. d >= Least(total, IF m > t.mark THEN m - t.mark ELSE 0)
        BY <3>1, <3>3
      <4> QED BY <2>2, <4>1 DEF Least
    <3> QED BY <3>3, <3>4
  <2> QED BY <1>1, <2>4, <2>5
<1> QED BY <1>2, <1>3, HandledStores

\* The store's dismissAll and dismissNotification take of the inbox what the user has been shown,
\* whatever was added, replaced, closed or restarted since the request was made.
THEOREM DismissalsStayWithinTheSeen == NotesSpec => DismissalsClearOnlySeen
<1> DEFINE A == (dismissal.phase = "asked" /\ dismissal'.phase = "answered") =>
                  LET unseen == IF watermark[Viewed] > shown.mark THEN watermark[Viewed] - shown.mark ELSE 0
                      taken == Retained(buckets, Viewed) \ Retained(buckets', Viewed)
                  IN  /\ \A n \in taken : n <= shown.note
                      /\ dismissal.all => Discarded(buckets', Viewed) >= Least(Discarded(buckets, Viewed), unseen)
<1>1. ASSUME NotesInv, [NotesNext]_noteVars, dismissal.phase = "asked", dismissal'.phase = "answered"
      PROVE  DismissHandled
  <2>1. dismissal \in DismissalKind /\ NoDismissal.phase = "none"
    BY <1>1 DEF NotesInv, Known, BrowserHolds, DismissalHolds, NoDismissal
  <2>2. dismissal' # dismissal /\ dismissal' # NoDismissal /\ dismissal' # [dismissal EXCEPT !.current = FALSE]
    BY <1>1, <2>1 DEF DismissalKind
  <2>3. ~SelectAgain /\ ~DismissReturns /\ ~DismissFails /\ ~\E all \in BOOLEAN : UserDismisses(all)
    BY <1>1, <2>2 DEF SelectAgain, DismissReturns, DismissFails, UserDismisses
  <2>4. /\ ~RefreshInbox /\ ~ReceiveEvent /\ ~AnswerFetch /\ ~FetchReturns /\ ~FetchFails /\ ~Reachability
        /\ ~JoinEvents /\ ~LoseEvents /\ ~NewInstance /\ ~UNCHANGED noteVars
    BY <2>2 DEF RefreshInbox, ReceiveEvent, AnswerFetch, FetchReturns, FetchFails, Reachability, JoinEvents,
                LoseEvents, NewInstance, noteVars
  <2>5. /\ ~AddNote /\ ~CommitReplacement /\ ~AbortReplacement /\ ~CloseNotes
        /\ ~\E x \in NoteSession : Register(x) \/ BeginReplacement(x)
    BY <2>2 DEF Register, BeginReplacement, AddNote, CommitReplacement, AbortReplacement, CloseNotes, StoreOnly
  <2> QED BY <1>1, <2>3, <2>4, <2>5 DEF NotesNext
<1>2. NotesInv /\ [NotesNext]_noteVars => [A]_noteVars
  BY <1>1, DismissalTakes
<1> QED BY <1>2, NotesInvHolds, PTL DEF NotesSpec, DismissalsClearOnlySeen

=============================================================================
