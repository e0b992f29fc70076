------------------------- MODULE ScheduledTasksProofs -------------------------
(***************************************************************************)
(* No due time starts two conversations and no outcome is made up, for any *)
(* number of tasks and launches and whatever goes wrong.                   *)
(***************************************************************************)
EXTENDS ScheduledTasks, TLAPS

\* What the row x of an execution, its launch p and the prompts s submitted for it say of
\* each other.
RowOK(x, p, s) ==
  /\ s = <<>> \/ Len(s) = 1
  /\ x.status = "unused" => s = <<>>
  /\ x.status \in {"unused", "deleted"} => x.trigger = "manual" /\ x.report = "none"
  /\ x.status = "failed" => s = <<>>
  /\ x.status = "dispatched" => Len(s) = 1
  /\ x.report # "none" => x.status = x.report
  /\ x.status \notin {"unused", "deleted"} /\ s # <<>> => s[1] = x.overrides \ x.notices
  /\ p.stage # "none" =>
       /\ x.status = "dispatching" \/ x.report # "none"
       /\ p.settings = x.overrides \ x.notices
  /\ p.stage \in {"validating", "starting"} => s = <<>>
  /\ p.stage = "sent" => Len(s) = 1

RowsOK == \A e \in Execution : RowOK(executions[e], pending[e], sent[e])

OccurrencesAreUnique ==
  \A e, f \in Execution :
    /\ executions[e].trigger = "scheduled" /\ executions[f].trigger = "scheduled"
    /\ executions[e].task = executions[f].task /\ executions[e].due = executions[f].due
    => e = f

LaunchesHaveTasks ==
  \A e \in Execution :
    pending[e].stage # "none" => tasks[executions[e].task].state \in {"current", "archived"}

\* A one-off is due at its time or not at all.
OneOffsAreDueOnTime ==
  \A t \in Task :
    tasks[t].state = "current" /\ ~Recurring(tasks[t]) =>
      tasks[t].nextDue \in {Never, tasks[t].definition.schedule.when}

IInv ==
  /\ TypeOK
  /\ RowsOK
  /\ OccurrencesAreUnique
  /\ LaunchesHaveTasks
  /\ OneOffsAreDueOnTime
  /\ OneOffsAreNotLost

LaunchRow == [stage : {"none", "validating", "starting", "sent"}, settings : SUBSET Override]

-----------------------------------------------------------------------------

LEMMA Appended ==
  ASSUME NEW S, NEW x \in S
  PROVE  Append(<<>>, x) \in Seq(S) /\ Len(Append(<<>>, x)) = 1 /\ Append(<<>>, x)[1] = x
OBVIOUS

LEMMA Definitions ==
  ASSUME NEW d \in Definition, NEW n \in Int
  PROVE  /\ NextOccurrence(d, n) \in Int
         /\ d.schedule.kind = "once" => NextOccurrence(d, n) = d.schedule.when
         /\ d.schedule.when # Never
         /\ d.schedule.when \in Nat
         /\ d.overrides \in SUBSET Override
<1>1. /\ d.schedule.when \in Nat \ {0}
      /\ d.zone \in Int
      /\ d.overrides \subseteq Override
  BY DefinitionAssumption
<1> DEFINE p == d.schedule.when
           z == d.zone
<1>2. ((n - z) \div p + 1) * p + z \in Int
  <2>1. p \in Nat \ {0} /\ z \in Int
    BY <1>1
  <2> HIDE DEF p, z
  <2>2. (n - z) \div p \in Int
    BY <2>1
  <2> QED
    BY <2>1, <2>2
<1> QED
  BY <1>1, <1>2 DEF NextOccurrence, Never

LEMMA BlankRows ==
  /\ NoTask \in TaskRow /\ NoTask.state = "none"
  /\ \A status \in {"unused", "deleted"} :
       /\ NoExecution(status) \in ExecutionRow
       /\ NoExecution(status).status = status
       /\ NoExecution(status).trigger = "manual"
       /\ NoExecution(status).report = "none"
<1>1. (CHOOSE d \in Definition : TRUE) \in Definition /\ (CHOOSE t \in Task : TRUE) \in Task
  BY SomeAssumption
<1> QED
  BY <1>1 DEF NoTask, NoExecution, TaskRow, ExecutionRow, Never

LEMMA InitHolds == Init => IInv
<1> SUFFICES ASSUME Init PROVE IInv
  OBVIOUS
<1>1. \A e \in Execution : sent[e] = <<>> /\ pending[e].stage = "none"
  BY DEF Init, Idle
<1>2. \A e \in Execution : executions[e] = NoExecution("unused")
  BY DEF Init
<1>3. TypeOK
  BY BlankRows DEF Init, TypeOK, Idle
<1> QED
  BY <1>1, <1>2, <1>3, BlankRows
     DEF Init, IInv, RowsOK, RowOK, OccurrencesAreUnique, LaunchesHaveTasks, OneOffsAreDueOnTime,
         OneOffsAreNotLost

-----------------------------------------------------------------------------
(* Steps of one execution *)

\* Only the row, the launch and the history of e change, and what identifies the row does not.
LEMMA OneRow ==
  ASSUME IInv, NEW e \in Execution,
         NEW x \in ExecutionRow, NEW p \in LaunchRow, NEW s \in Seq(SUBSET Override),
         x.task = executions[e].task, x.trigger = executions[e].trigger, x.due = executions[e].due,
         RowOK(x, p, s),
         p.stage # "none" => pending[e].stage # "none",
         executions' = [executions EXCEPT ![e] = x],
         pending' = [pending EXCEPT ![e] = p],
         sent' = [sent EXCEPT ![e] = s],
         turns' \subseteq turns \/ (turns' \subseteq Execution /\ mode # "down"),
         UNCHANGED <<tasks, mode, clock, since>>
  PROVE  IInv'
<1>1. TypeOK'
  BY DEF IInv, TypeOK, LaunchRow
<1>2. RowsOK'
  <2> SUFFICES ASSUME NEW f \in Execution PROVE RowOK(executions[f], pending[f], sent[f])'
    BY DEF RowsOK
  <2>1. CASE f = e
    BY <2>1 DEF IInv, TypeOK, RowOK
  <2>2. CASE f # e
    BY <2>2 DEF IInv, TypeOK, RowsOK, RowOK
  <2> QED
    BY <2>1, <2>2
<1>3. \A f \in Execution :
        /\ executions'[f].task = executions[f].task
        /\ executions'[f].trigger = executions[f].trigger
        /\ executions'[f].due = executions[f].due
        /\ pending'[f].stage # "none" => pending[f].stage # "none"
  BY DEF IInv, TypeOK
<1>4. OccurrencesAreUnique' /\ LaunchesHaveTasks'
  BY <1>3 DEF IInv, OccurrencesAreUnique, LaunchesHaveTasks
<1>5. OneOffsAreDueOnTime' /\ OneOffsAreNotLost'
  BY <1>3 DEF IInv, OneOffsAreDueOnTime, OneOffsAreNotLost, Reserved, Recurring
<1> QED
  BY <1>1, <1>2, <1>4, <1>5 DEF IInv

\* What is known of e while it is being launched.
LEMMA Rows ==
  ASSUME IInv, NEW e \in Execution
  PROVE  /\ executions[e] \in ExecutionRow
         /\ pending[e] \in LaunchRow
         /\ sent[e] \in Seq(SUBSET Override)
         /\ RowOK(executions[e], pending[e], sent[e])
         /\ pending[e].stage # "none" => mode # "down"
         /\ executions = [executions EXCEPT ![e] = executions[e]]
         /\ pending = [pending EXCEPT ![e] = pending[e]]
         /\ sent = [sent EXCEPT ![e] = sent[e]]
BY DEF IInv, TypeOK, RowsOK, LaunchRow

LEMMA SettlesHolds ==
  ASSUME IInv, NEW e \in Execution, pending[e].stage # "none",
         NEW status \in {"failed", "dispatched", "uncertain"},
         status = "failed" => pending[e].stage = "validating",
         status = "dispatched" => pending[e].stage = "sent",
         Settles(e, status),
         UNCHANGED <<tasks, mode, turns, clock, sent, since>>
  PROVE  IInv'
<1> DEFINE x == SetStatus(executions[e], status)
<1>1. /\ x \in ExecutionRow
      /\ x.task = executions[e].task /\ x.trigger = executions[e].trigger
      /\ x.due = executions[e].due
      /\ x.overrides = executions[e].overrides /\ x.notices = executions[e].notices
      /\ x.report = executions[e].report
      /\ x.status = IF x.report = "none" THEN status ELSE executions[e].status
  BY Rows DEF SetStatus, ExecutionRow
<1>2. Idle \in LaunchRow /\ Idle.stage = "none"
  BY DEF Idle, LaunchRow
<1>3. executions' = [executions EXCEPT ![e] = x] /\ pending' = [pending EXCEPT ![e] = Idle]
  BY DEF Settles
<1> HIDE DEF x
<1>4. RowOK(x, Idle, sent[e])
  BY <1>1, <1>2, Rows DEF RowOK, ExecutionRow
<1> QED
  BY <1>1, <1>2, <1>3, <1>4, Rows, OneRow

\* The launch of e goes on or ends; its row stays as it is.
LEMMA LaunchChanges ==
  ASSUME IInv, NEW e \in Execution, pending[e].stage # "none",
         NEW p \in LaunchRow, RowOK(executions[e], p, sent[e]),
         pending' = [pending EXCEPT ![e] = p],
         UNCHANGED <<ledger, mode, turns, clock, sent, since>>
  PROVE  IInv'
<1>1. executions' = [executions EXCEPT ![e] = executions[e]] /\ sent' = [sent EXCEPT ![e] = sent[e]]
  BY Rows DEF ledger
<1> QED
  BY <1>1, Rows, OneRow DEF ledger

LEMMA SettingUnavailableHolds ==
  ASSUME IInv, NEW e \in Execution, NEW setting \in Override, SettingUnavailable(e, setting)
  PROVE  IInv'
<1> DEFINE x == [executions[e] EXCEPT !.notices = @ \cup {setting}]
           p == Launch(pending[e].settings \ {setting})
<1>1. /\ executions' = [executions EXCEPT ![e] = x]
      /\ pending' = [pending EXCEPT ![e] = p]
      /\ UNCHANGED <<tasks, mode, turns, clock, sent, since>>
      /\ pending[e].stage = "starting"
  BY DEF SettingUnavailable
<1>2. /\ x \in ExecutionRow
      /\ x.task = executions[e].task /\ x.trigger = executions[e].trigger
      /\ x.due = executions[e].due /\ x.overrides = executions[e].overrides
      /\ x.report = executions[e].report /\ x.status = executions[e].status
      /\ x.notices = executions[e].notices \cup {setting}
  BY Rows DEF ExecutionRow
<1>3. /\ p \in LaunchRow
      /\ p.stage = "validating"
      /\ p.settings = pending[e].settings \ {setting}
  BY Rows DEF Launch, LaunchRow
<1> HIDE DEF x, p
<1>4. RowOK(x, p, sent[e])
  <2>1. p.settings = x.overrides \ x.notices /\ sent[e] = <<>>
    BY <1>1, <1>2, <1>3, Rows DEF RowOK
  <2> QED
    BY <2>1, <1>1, <1>2, <1>3, Rows DEF RowOK
<1> QED
  BY <1>1, <1>2, <1>3, <1>4, Rows, OneRow

LEMMA PromptSubmittedHolds ==
  ASSUME IInv, NEW e \in Execution, PromptSubmitted(e)
  PROVE  IInv'
<1> DEFINE p == [pending[e] EXCEPT !.stage = "sent"]
           s == Append(sent[e], pending[e].settings)
<1>1. /\ pending' = [pending EXCEPT ![e] = p]
      /\ sent' = [sent EXCEPT ![e] = s]
      /\ turns' = turns \cup {e}
      /\ executions' = [executions EXCEPT ![e] = executions[e]]
      /\ UNCHANGED <<tasks, mode, clock, since>>
      /\ pending[e].stage = "starting" /\ mode = "running"
  BY Rows DEF PromptSubmitted, ledger
<1>2. /\ p \in LaunchRow /\ p.stage = "sent"
      /\ p.settings = pending[e].settings /\ p.settings \in SUBSET Override
  BY Rows DEF LaunchRow
<1>3. sent[e] = <<>>
  BY <1>1, Rows DEF RowOK
<1>4. s \in Seq(SUBSET Override) /\ Len(s) = 1 /\ s[1] = p.settings
  BY <1>2, <1>3, Appended
<1> HIDE DEF p, s
<1>5. s # <<>>
  BY <1>4
<1>6. RowOK(executions[e], p, s)
  <2>1. executions[e].status \notin {"unused", "deleted", "failed"}
    BY <1>1, Rows DEF RowOK, ExecutionRow
  <2> QED
    BY <2>1, <1>1, <1>2, <1>3, <1>4, <1>5, Rows DEF RowOK
<1>7. turns' \subseteq Execution
  BY <1>1 DEF IInv, TypeOK
<1> QED
  BY <1>1, <1>2, <1>4, <1>6, <1>7, Rows, OneRow

LEMMA LaunchesHold ==
  ASSUME IInv, NEW e \in Execution, LaunchSteps(e) \/ TurnEnds(e)
  PROVE  IInv'
<1>1. CASE TargetRejected(e)
  BY <1>1, SettlesHolds DEF TargetRejected
<1>2. CASE RunAdmitted(e)
  <2> DEFINE p == [pending[e] EXCEPT !.stage = "starting"]
  <2>1. p \in LaunchRow /\ p.stage = "starting" /\ p.settings = pending[e].settings
    BY Rows DEF LaunchRow
  <2>2. pending[e].stage = "validating" /\ pending' = [pending EXCEPT ![e] = p]
    BY <1>2 DEF RunAdmitted
  <2> HIDE DEF p
  <2>3. RowOK(executions[e], p, sent[e])
    BY <2>1, <2>2, Rows DEF RowOK
  <2> QED
    BY <1>2, <2>1, <2>2, <2>3, LaunchChanges DEF RunAdmitted
<1>3. CASE RunRefused(e)
  BY <1>3, SettlesHolds DEF RunRefused
<1>4. CASE RunFails(e)
  BY <1>4, SettlesHolds DEF RunFails
<1>5. CASE PromptSubmitted(e)
  BY <1>5, PromptSubmittedHolds
<1>6. CASE AnswerOfRun(e)
  BY <1>6, SettlesHolds DEF AnswerOfRun
<1>7. CASE OutcomeNotRecorded(e)
  <2>1. Idle \in LaunchRow /\ Idle.stage = "none"
    BY DEF Idle, LaunchRow
  <2>2. RowOK(executions[e], Idle, sent[e])
    BY <2>1, Rows DEF RowOK
  <2> QED
    BY <1>7, <2>1, <2>2, LaunchChanges DEF OutcomeNotRecorded
<1>8. CASE TurnEnds(e)
  <2>1. turns' \subseteq turns /\ UNCHANGED <<ledger, mode, pending, clock, sent, since>>
    BY <1>8 DEF TurnEnds
  <2> DEFINE x == executions[e]
             p == pending[e]
             s == sent[e]
  <2>2. /\ executions' = [executions EXCEPT ![e] = x]
        /\ pending' = [pending EXCEPT ![e] = p]
        /\ sent' = [sent EXCEPT ![e] = s]
        /\ UNCHANGED <<tasks, mode, clock, since>>
    BY <2>1, Rows DEF ledger
  <2>3. /\ x \in ExecutionRow /\ p \in LaunchRow /\ s \in Seq(SUBSET Override)
        /\ x.task = executions[e].task /\ x.trigger = executions[e].trigger
        /\ x.due = executions[e].due
        /\ p.stage # "none" => pending[e].stage # "none"
        /\ RowOK(x, p, s)
    BY Rows
  <2> HIDE DEF x, p, s
  <2> QED
    BY <2>1, <2>2, <2>3, OneRow
<1>9. CASE \E setting \in Override : SettingUnavailable(e, setting)
  BY <1>9, SettingUnavailableHolds
<1> QED
  BY <1>1, <1>2, <1>3, <1>4, <1>5, <1>6, <1>7, <1>8, <1>9 DEF LaunchSteps

LEMMA ReportHolds ==
  ASSUME IInv, NEW e \in Execution, NEW outcome \in Outcome, Report(e, outcome)
  PROVE  IInv'
<1> DEFINE x == [executions[e] EXCEPT !.status = outcome, !.report = outcome]
<1>1. /\ executions' = [executions EXCEPT ![e] = x]
      /\ UNCHANGED <<tasks, mode, turns, pending, clock, sent, since>>
      /\ executions[e].status \notin {"unused", "deleted", "failed"}
  BY DEF Report, Exists, memory
<1>2. outcome \in {"completed", "errored"}
  BY OutcomeAssumption
<1>3. /\ x \in ExecutionRow
      /\ x.task = executions[e].task /\ x.trigger = executions[e].trigger
      /\ x.due = executions[e].due /\ x.overrides = executions[e].overrides
      /\ x.notices = executions[e].notices
      /\ x.status = outcome /\ x.report = outcome
  BY <1>2, Rows DEF ExecutionRow
<1> HIDE DEF x
<1>4. RowOK(x, pending[e], sent[e])
  BY <1>1, <1>2, <1>3, Rows DEF RowOK
<1> DEFINE p == pending[e]
           s == sent[e]
<1>5. /\ pending' = [pending EXCEPT ![e] = p] /\ sent' = [sent EXCEPT ![e] = s]
      /\ p \in LaunchRow /\ s \in Seq(SUBSET Override)
      /\ p.stage # "none" => pending[e].stage # "none"
      /\ RowOK(x, p, s)
      /\ turns' \subseteq turns
      /\ UNCHANGED <<tasks, mode, clock, since>>
  BY <1>1, <1>4, Rows
<1> HIDE DEF p, s
<1> QED
  BY <1>1, <1>3, <1>5, OneRow

-----------------------------------------------------------------------------
(* Steps of the tables *)

\* The invariant, of any tables ts, xs and launches pe.
Tables(ts, xs, pe) ==
  /\ ts \in [Task -> TaskRow]
  /\ xs \in [Execution -> ExecutionRow]
  /\ pe \in [Execution -> LaunchRow]
  /\ \A e \in Execution : RowOK(xs[e], pe[e], sent[e])
  /\ \A e, f \in Execution :
       /\ xs[e].trigger = "scheduled" /\ xs[f].trigger = "scheduled"
       /\ xs[e].task = xs[f].task /\ xs[e].due = xs[f].due
       => e = f
  /\ \A e \in Execution : pe[e].stage # "none" => ts[xs[e].task].state \in {"current", "archived"}
  /\ \A t \in Task :
       ts[t].state = "current" /\ ~Recurring(ts[t]) =>
         /\ ts[t].nextDue \in {Never, ts[t].definition.schedule.when}
         /\ ts[t].nextDue = Never => Reserved(xs, t, ts[t].definition.schedule.when)

LEMMA TablesHold == IInv => Tables(tasks, executions, pending)
BY DEF IInv, TypeOK, RowsOK, OccurrencesAreUnique, LaunchesHaveTasks, OneOffsAreDueOnTime,
       OneOffsAreNotLost, Tables, LaunchRow

LEMMA TablesSuffice ==
  ASSUME IInv, Tables(tasks', executions', pending'),
         mode' \in {"down", "running", "stopping"}, turns' \subseteq Execution,
         clock' \in Int, UNCHANGED sent, since' \in [Task -> Int],
         mode' = "down" => turns' = {} /\ \A e \in Execution : pending'[e].stage = "none"
  PROVE  IInv'
<1>1. TypeOK'
  BY DEF IInv, TypeOK, Tables, LaunchRow
<1>2. RowsOK' /\ OccurrencesAreUnique' /\ LaunchesHaveTasks'
  BY DEF Tables, RowsOK, RowOK, OccurrencesAreUnique, LaunchesHaveTasks
<1>3. OneOffsAreDueOnTime' /\ OneOffsAreNotLost'
  BY DEF Tables, OneOffsAreDueOnTime, OneOffsAreNotLost, Recurring, Reserved
<1> QED
  BY <1>1, <1>2, <1>3 DEF IInv

\* Claims reserve what nobody has reserved, and every one-off it consumes.
LEMMA ClaimsKeepTables ==
  ASSUME NEW ts, NEW xs, NEW pe, Tables(ts, xs, pe), clock \in Int,
         NEW S \in SUBSET Claimable(ts, xs),
         NEW ids \in SUBSET {e \in Execution : xs[e].status = "unused"},
         NEW task \in Bijection(ids, S)
  PROVE  Tables([t \in Task |-> IF t \in S THEN Consumed(ts[t]) ELSE ts[t]],
                [e \in Execution |->
                   IF e \in ids THEN Dispatching(ts, task[e], "scheduled", ts[task[e]].nextDue)
                   ELSE xs[e]],
                [e \in Execution |->
                   IF e \in ids THEN Launch(ts[task[e]].definition.overrides) ELSE pe[e]])
<1> DEFINE ts2 == [t \in Task |-> IF t \in S THEN Consumed(ts[t]) ELSE ts[t]]
           xs2 == [e \in Execution |->
                     IF e \in ids THEN Dispatching(ts, task[e], "scheduled", ts[task[e]].nextDue)
                     ELSE xs[e]]
           pe2 == [e \in Execution |->
                     IF e \in ids THEN Launch(ts[task[e]].definition.overrides) ELSE pe[e]]
<1>1. \A t \in S :
        /\ t \in Task /\ ts[t].state = "current" /\ ts[t].nextDue # Never
        /\ ~Reserved(xs, t, ts[t].nextDue)
  BY DEF Claimable, Due
<1>2. /\ \A e \in ids : task[e] \in S /\ e \in Execution /\ xs[e].status = "unused"
      /\ \A e, f \in ids : task[e] = task[f] => e = f
      /\ \A t \in S : \E e \in ids : task[e] = t
  BY DEF Bijection, Injection, Surjection, IsInjective
<1>3. \A t \in S :
        /\ ts2[t] \in TaskRow /\ ts2[t].state = "current"
        /\ ts2[t].definition = ts[t].definition
        /\ ~Recurring(ts2[t]) => ts2[t].nextDue = Never
  <2> SUFFICES ASSUME NEW t \in S
               PROVE  /\ ts2[t] \in TaskRow /\ ts2[t].state = "current"
                      /\ ts2[t].definition = ts[t].definition
                      /\ ~Recurring(ts2[t]) => ts2[t].nextDue = Never
    OBVIOUS
  <2>1. ts[t] \in TaskRow /\ ts[t].state = "current" /\ ts2[t] = Consumed(ts[t])
    BY <1>1 DEF Tables
  <2>2. NextOccurrence(ts[t].definition, clock) \in Int
    BY <2>1, Definitions DEF TaskRow
  <2> QED
    BY <2>1, <2>2 DEF Consumed, Recurring, TaskRow, Never
<1>4. \A t \in Task \ S : ts2[t] = ts[t]
  OBVIOUS
<1>5. \A e \in ids :
        /\ xs2[e] \in ExecutionRow
        /\ xs2[e].status = "dispatching" /\ xs2[e].trigger = "scheduled"
        /\ xs2[e].task = task[e] /\ xs2[e].due = ts[task[e]].nextDue
        /\ xs2[e].notices = {} /\ xs2[e].report = "none"
        /\ pe2[e] \in LaunchRow /\ pe2[e].stage = "validating"
        /\ pe2[e].settings = xs2[e].overrides
        /\ sent[e] = <<>>
  <2> SUFFICES ASSUME NEW e \in ids
               PROVE  /\ xs2[e] \in ExecutionRow
                      /\ xs2[e].status = "dispatching" /\ xs2[e].trigger = "scheduled"
                      /\ xs2[e].task = task[e] /\ xs2[e].due = ts[task[e]].nextDue
                      /\ xs2[e].notices = {} /\ xs2[e].report = "none"
                      /\ pe2[e] \in LaunchRow /\ pe2[e].stage = "validating"
                      /\ pe2[e].settings = xs2[e].overrides
                      /\ sent[e] = <<>>
    OBVIOUS
  <2>1. task[e] \in Task /\ ts[task[e]] \in TaskRow /\ e \in Execution
    BY <1>1, <1>2 DEF Tables
  <2>2. ts[task[e]].definition.overrides \in SUBSET Override /\ ts[task[e]].nextDue \in Int
    BY <2>1, DefinitionAssumption DEF TaskRow
  <2>3. xs2[e] = Dispatching(ts, task[e], "scheduled", ts[task[e]].nextDue)
    BY <2>1
  <2>4. pe2[e] = Launch(ts[task[e]].definition.overrides)
    BY <2>1
  <2>5. sent[e] = <<>>
    BY <1>2 DEF Tables, RowOK
  <2> QED
    BY <2>1, <2>2, <2>3, <2>4, <2>5 DEF Dispatching, Launch, ExecutionRow, LaunchRow
<1>6. \A e \in Execution \ ids : xs2[e] = xs[e] /\ pe2[e] = pe[e]
  OBVIOUS
<1>7. /\ DOMAIN ts2 = Task /\ ts2 = [t \in Task |-> ts2[t]]
      /\ xs2 = [e \in Execution |-> xs2[e]]
      /\ pe2 = [e \in Execution |-> pe2[e]]
  OBVIOUS
<1> HIDE DEF ts2, xs2, pe2
<1>8. /\ ts2 \in [Task -> TaskRow]
      /\ xs2 \in [Execution -> ExecutionRow]
      /\ pe2 \in [Execution -> LaunchRow]
  <2>1. \A t \in Task : ts2[t] \in TaskRow
    BY <1>3, <1>4 DEF Tables
  <2>2. \A e \in Execution : xs2[e] \in ExecutionRow /\ pe2[e] \in LaunchRow
    BY <1>5, <1>6 DEF Tables
  <2> QED
    BY <2>1, <2>2, <1>7
<1>9. \A e \in Execution : RowOK(xs2[e], pe2[e], sent[e])
  <2> SUFFICES ASSUME NEW e \in Execution PROVE RowOK(xs2[e], pe2[e], sent[e])
    OBVIOUS
  <2>1. CASE e \in ids
    BY <2>1, <1>5 DEF RowOK
  <2>2. CASE e \notin ids
    BY <2>2, <1>6 DEF Tables
  <2> QED
    BY <2>1, <2>2
<1>10. ASSUME NEW e \in Execution, NEW f \in Execution,
             xs2[e].trigger = "scheduled", xs2[f].trigger = "scheduled",
             xs2[e].task = xs2[f].task, xs2[e].due = xs2[f].due
      PROVE  e = f
  <2>1. CASE e \in ids /\ f \in ids
    BY <2>1, <1>2, <1>5, <1>10
  <2>2. CASE e \in ids /\ f \notin ids
    <3>1. /\ task[e] \in S /\ xs2[e].task = task[e] /\ xs2[e].due = ts[task[e]].nextDue
          /\ xs2[f] = xs[f]
      BY <2>2, <1>2, <1>5, <1>6
    <3>2. ~Reserved(xs, task[e], ts[task[e]].nextDue)
      BY <3>1, <1>1
    <3> QED
      BY <3>1, <3>2, <1>10 DEF Reserved
  <2>3. CASE e \notin ids /\ f \in ids
    <3>1. /\ task[f] \in S /\ xs2[f].task = task[f] /\ xs2[f].due = ts[task[f]].nextDue
          /\ xs2[e] = xs[e]
      BY <2>3, <1>2, <1>5, <1>6
    <3>2. ~Reserved(xs, task[f], ts[task[f]].nextDue)
      BY <3>1, <1>1
    <3> QED
      BY <3>1, <3>2, <1>10 DEF Reserved
  <2>4. CASE e \notin ids /\ f \notin ids
    BY <2>4, <1>6, <1>10 DEF Tables
  <2> QED
    BY <2>1, <2>2, <2>3, <2>4
<1>11. \A e \in Execution : pe2[e].stage # "none" => ts2[xs2[e].task].state \in {"current", "archived"}
  <2> SUFFICES ASSUME NEW e \in Execution, pe2[e].stage # "none"
               PROVE  ts2[xs2[e].task].state \in {"current", "archived"}
    OBVIOUS
  <2>1. CASE e \in ids
    BY <2>1, <1>2, <1>3, <1>5
  <2>2. CASE e \notin ids
    <3>1. xs2[e].task \in Task /\ ts[xs2[e].task].state \in {"current", "archived"}
      BY <2>2, <1>6 DEF Tables, ExecutionRow
    <3> QED
      BY <3>1, <1>3, <1>4
  <2> QED
    BY <2>1, <2>2
<1>12. ASSUME NEW t \in Task, ts2[t].state = "current", ~Recurring(ts2[t])
       PROVE  /\ ts2[t].nextDue \in {Never, ts2[t].definition.schedule.when}
              /\ ts2[t].nextDue = Never => Reserved(xs2, t, ts2[t].definition.schedule.when)
  <2>1. CASE t \in S
    <3>1. ts2[t].nextDue = Never /\ ts2[t].definition = ts[t].definition
      BY <2>1, <1>3, <1>12
    <3>2. ts[t].nextDue = ts[t].definition.schedule.when
      BY <2>1, <1>1, <1>12, <3>1 DEF Tables, Recurring
    <3>3. PICK e \in ids : task[e] = t
      BY <2>1, <1>2
    <3>4. Reserved(xs2, t, ts2[t].definition.schedule.when)
      BY <3>1, <3>2, <3>3, <1>2, <1>5 DEF Reserved
    <3> QED
      BY <3>1, <3>4
  <2>2. CASE t \notin S
    <3>1. ts2[t] = ts[t]
      BY <2>2, <1>4
    <3>2. ASSUME NEW e \in Execution, xs[e].trigger = "scheduled" PROVE xs2[e] = xs[e]
      <4>1. xs[e].status # "unused"
        BY <3>2 DEF Tables, RowOK
      <4> QED
        BY <4>1, <1>2, <1>6
    <3> QED
      BY <3>1, <3>2, <1>12 DEF Tables, Reserved
  <2> QED
    BY <2>1, <2>2
<1> HIDE DEF Claimable
<1> QED
  <2>1. Tables(ts2, xs2, pe2)
    BY <1>9, <1>10, <1>11, <1>12, <1>8 DEF Tables
  <2> QED
    BY <2>1 DEF ts2, xs2, pe2

LEMMA ClaimsHold ==
  ASSUME NEW ts, NEW xs, Tables(ts, xs, pending), clock \in Int,
         NEW S \in SUBSET Claimable(ts, xs), Claims(ts, xs, S)
  PROVE  Tables(tasks', executions', pending')
<1>1. PICK ids \in SUBSET {e \in Execution : xs[e].status = "unused"} :
        \E task \in Bijection(ids, S) :
          /\ tasks' = [t \in Task |-> IF t \in S THEN Consumed(ts[t]) ELSE ts[t]]
          /\ executions' =
               [e \in Execution |->
                  IF e \in ids THEN Dispatching(ts, task[e], "scheduled", ts[task[e]].nextDue)
                  ELSE xs[e]]
          /\ pending' =
               [e \in Execution |->
                  IF e \in ids THEN Launch(ts[task[e]].definition.overrides) ELSE pending[e]]
  BY DEF Claims
<1>2. PICK task \in Bijection(ids, S) :
        /\ tasks' = [t \in Task |-> IF t \in S THEN Consumed(ts[t]) ELSE ts[t]]
        /\ executions' =
             [e \in Execution |->
                IF e \in ids THEN Dispatching(ts, task[e], "scheduled", ts[task[e]].nextDue)
                ELSE xs[e]]
        /\ pending' =
             [e \in Execution |->
                IF e \in ids THEN Launch(ts[task[e]].definition.overrides) ELSE pending[e]]
  BY <1>1
<1> QED
  BY <1>2, ClaimsKeepTables

LEMMA TicksHold ==
  ASSUME IInv, Tick \/ TickFails
  PROVE  IInv'
<1>1. PICK S \in SUBSET Claimable(tasks, executions) : Claims(tasks, executions, S)
  BY DEF Tick, TickFails
<1>2. mode = "running" /\ UNCHANGED <<mode, turns, clock, sent, since>>
  BY DEF Tick, TickFails
<1>3. Tables(tasks', executions', pending')
  BY <1>1, TablesHold, ClaimsHold DEF IInv, TypeOK
<1> QED
  BY <1>2, <1>3, TablesSuffice DEF IInv, TypeOK

LEMMA DispatchManuallyHolds ==
  ASSUME IInv, NEW t \in Task, DispatchManually(t)
  PROVE  IInv'
<1>1. PICK e \in Execution :
        /\ executions[e].status = "unused"
        /\ executions' = [executions EXCEPT ![e] = Dispatching(tasks, t, "manual", clock)]
        /\ pending' = [pending EXCEPT ![e] = Launch(tasks[t].definition.overrides)]
  BY DEF DispatchManually
<1>2. /\ mode = "running" /\ tasks[t].state = "current"
      /\ UNCHANGED <<tasks, mode, turns, clock, sent, since>>
  BY DEF DispatchManually
<1> DEFINE x == Dispatching(tasks, t, "manual", clock)
           p == Launch(tasks[t].definition.overrides)
<1>3. /\ x \in ExecutionRow /\ x.status = "dispatching" /\ x.trigger = "manual"
      /\ x.task = t /\ x.notices = {} /\ x.report = "none"
      /\ p \in LaunchRow /\ p.stage = "validating" /\ p.settings = x.overrides
  <2>1. tasks[t].definition.overrides \in SUBSET Override /\ clock \in Int
    BY Definitions DEF IInv, TypeOK, TaskRow
  <2> QED
    BY <2>1 DEF Dispatching, Launch, ExecutionRow, LaunchRow
<1>4. executions[e].trigger = "manual" /\ sent[e] = <<>>
  BY <1>1, Rows DEF RowOK
<1>5. executions' = [executions EXCEPT ![e] = x] /\ pending' = [pending EXCEPT ![e] = p]
  BY <1>1
<1> HIDE DEF x, p
<1>6. RowOK(x, p, sent[e])
  BY <1>3, <1>4 DEF RowOK
<1>7. /\ \A f \in Execution \ {e} : executions'[f] = executions[f] /\ pending'[f] = pending[f]
      /\ executions'[e] = x /\ pending'[e] = p
      /\ executions' \in [Execution -> ExecutionRow] /\ pending' \in [Execution -> LaunchRow]
  BY <1>3, <1>5 DEF IInv, TypeOK, LaunchRow
<1>8. \A y \in Task, due \in Int : Reserved(executions, y, due) => Reserved(executions', y, due)
  BY <1>4, <1>7 DEF Reserved
<1>9. Tables(tasks, executions, pending)
  BY TablesHold
<1>10. Tables(tasks', executions', pending')
  <2>1. /\ tasks' = tasks /\ tasks \in [Task -> TaskRow]
        /\ \A f \in Execution : RowOK(executions'[f], pending'[f], sent[f])
    BY <1>2, <1>6, <1>7, <1>9 DEF Tables
  <2>2. ASSUME NEW f \in Execution, NEW g \in Execution,
               executions'[f].trigger = "scheduled", executions'[g].trigger = "scheduled",
               executions'[f].task = executions'[g].task, executions'[f].due = executions'[g].due
        PROVE  f = g
    <3>1. f # e /\ g # e
      BY <2>2, <1>3, <1>7
    <3> QED
      BY <3>1, <2>2, <1>7, <1>9 DEF Tables
  <2>3. \A f \in Execution :
          pending'[f].stage # "none" => tasks[executions'[f].task].state \in {"current", "archived"}
    BY <1>2, <1>3, <1>7, <1>9 DEF Tables
  <2>4. \A y \in Task : tasks[y].definition.schedule.when \in Int
    <3>1. \A y \in Task : tasks[y].definition \in Definition
      BY DEF IInv, TypeOK, TaskRow
    <3>2. \A d \in Definition : d.schedule.when \in Int
      BY Definitions
    <3> QED
      BY <3>1, <3>2
  <2>5. \A y \in Task :
          tasks[y].state = "current" /\ ~Recurring(tasks[y]) =>
            /\ tasks[y].nextDue \in {Never, tasks[y].definition.schedule.when}
            /\ tasks[y].nextDue = Never =>
                 Reserved(executions', y, tasks[y].definition.schedule.when)
    BY <2>4, <1>8, <1>9 DEF Tables
  <2> QED
    BY <2>1, <2>2, <2>3, <2>5, <1>7, <1>2 DEF Tables
<1> QED
  BY <1>2, <1>10, TablesSuffice DEF IInv, TypeOK

\* One task changes and keeps its conversations.
LEMMA OneTask ==
  ASSUME IInv, NEW t \in Task, NEW row \in TaskRow,
         row.state \in {"current", "archived"},
         row.state = "current" /\ ~Recurring(row) =>
           /\ row.nextDue \in {Never, row.definition.schedule.when}
           /\ row.nextDue = Never => Reserved(executions, t, row.definition.schedule.when),
         tasks' = [tasks EXCEPT ![t] = row],
         since' \in [Task -> Int],
         UNCHANGED <<executions, memory, clock, sent>>
  PROVE  IInv'
<1>1. UNCHANGED <<executions, mode, pending, turns, clock, sent>>
  BY DEF memory
<1>2. /\ tasks' \in [Task -> TaskRow] /\ tasks'[t] = row
      /\ \A y \in Task \ {t} : tasks'[y] = tasks[y]
  BY DEF IInv, TypeOK
<1>3. Tables(tasks, executions, pending)
  BY TablesHold
<1>4. \A f \in Execution :
        pending[f].stage # "none" => tasks'[executions[f].task].state \in {"current", "archived"}
  BY <1>2, <1>3 DEF Tables, ExecutionRow
<1>5. \A y \in Task :
        tasks'[y].state = "current" /\ ~Recurring(tasks'[y]) =>
          /\ tasks'[y].nextDue \in {Never, tasks'[y].definition.schedule.when}
          /\ tasks'[y].nextDue = Never =>
               Reserved(executions, y, tasks'[y].definition.schedule.when)
  BY <1>2, <1>3 DEF Tables
<1>6. Tables(tasks', executions', pending')
  BY <1>1, <1>2, <1>3, <1>4, <1>5 DEF Tables
<1> QED
  BY <1>1, <1>6, TablesSuffice DEF IInv, TypeOK

\* The rows of a deleted task lose what they say of it, and none of them is under way.
LEMMA DeleteHolds ==
  ASSUME IInv, NEW t \in Task, Delete(t)
  PROVE  IInv'
<1>1. /\ UNCHANGED <<mode, pending, turns, clock, sent, since>>
      /\ \A e \in Execution : pending[e].stage # "none" => executions[e].task # t
      /\ tasks[t].state = "archived"
  BY DEF Delete, memory
<1> DEFINE blank == [NoTask EXCEPT !.state = "deleted"]
           gone == NoExecution("deleted")
<1>2. blank \in TaskRow /\ blank.state = "deleted"
  BY BlankRows DEF TaskRow
<1>3. /\ gone \in ExecutionRow /\ gone.status = "deleted"
      /\ gone.trigger = "manual" /\ gone.report = "none"
  BY BlankRows
<1>4. tasks' = [tasks EXCEPT ![t] = blank]
  BY DEF Delete
<1>5. executions' = [e \in Execution |->
                       IF Exists(e) /\ executions[e].task = t THEN gone ELSE executions[e]]
  BY DEF Delete
<1> HIDE DEF blank, gone
<1>6. tasks' \in [Task -> TaskRow] /\ tasks'[t] = blank /\ \A y \in Task \ {t} : tasks'[y] = tasks[y]
  BY <1>2, <1>4 DEF IInv, TypeOK
<1>7. /\ executions' \in [Execution -> ExecutionRow]
      /\ \A e \in Execution : executions'[e] = executions[e] \/ (executions'[e] = gone /\ executions[e].task = t)
      /\ \A e \in Execution : executions[e].task # t => executions'[e] = executions[e]
  BY <1>3, <1>5 DEF IInv, TypeOK
<1>8. Tables(tasks, executions, pending)
  BY TablesHold
<1>9. Tables(tasks', executions', pending')
  <2>1. \A e \in Execution : RowOK(executions'[e], pending'[e], sent[e])
    <3> SUFFICES ASSUME NEW e \in Execution PROVE RowOK(executions'[e], pending[e], sent[e])
      BY <1>1
    <3>1. RowOK(executions[e], pending[e], sent[e])
      BY <1>8 DEF Tables
    <3>2. CASE executions'[e] = executions[e]
      BY <3>1, <3>2
    <3>3. CASE executions'[e] = gone /\ executions[e].task = t
      BY <3>1, <3>3, <1>1, <1>3 DEF RowOK, Tables
    <3> QED
      BY <3>2, <3>3, <1>7
  <2>2. \A e \in Execution : executions'[e].trigger = "scheduled" => executions'[e] = executions[e]
    BY <1>3, <1>7
  <2>3. \A e, f \in Execution :
          /\ executions'[e].trigger = "scheduled" /\ executions'[f].trigger = "scheduled"
          /\ executions'[e].task = executions'[f].task /\ executions'[e].due = executions'[f].due
          => e = f
    BY <2>2, <1>8 DEF Tables
  <2>4. \A e \in Execution :
          pending[e].stage # "none" => tasks'[executions'[e].task].state \in {"current", "archived"}
    <3> SUFFICES ASSUME NEW e \in Execution, pending[e].stage # "none"
                 PROVE  tasks'[executions'[e].task].state \in {"current", "archived"}
      OBVIOUS
    <3>1. executions[e].task \in Task /\ executions[e].task # t /\ executions'[e] = executions[e]
      BY <1>1, <1>7, <1>8 DEF Tables, ExecutionRow
    <3> QED
      BY <3>1, <1>6, <1>8 DEF Tables
  <2>5. ASSUME NEW y \in Task, tasks'[y].state = "current", ~Recurring(tasks'[y])
        PROVE  /\ tasks'[y].nextDue \in {Never, tasks'[y].definition.schedule.when}
               /\ tasks'[y].nextDue = Never =>
                    Reserved(executions', y, tasks'[y].definition.schedule.when)
    <3>1. y # t /\ tasks'[y] = tasks[y]
      BY <2>5, <1>2, <1>6
    <3>2. \A e \in Execution : executions[e].task = y => executions'[e] = executions[e]
      BY <3>1, <1>7
    <3> QED
      BY <2>5, <3>1, <3>2, <1>8 DEF Tables, Reserved
  <2> QED
    BY <2>1, <2>3, <2>4, <2>5, <1>1, <1>6, <1>7, <1>8 DEF Tables
<1> QED
  BY <1>1, <1>9, TablesSuffice DEF IInv, TypeOK

LEMMA RequestsHold ==
  ASSUME IInv, NEW t \in Task, Requests(t)
  PROVE  IInv'
<1>1. tasks[t] \in TaskRow /\ tasks[t].definition \in Definition /\ clock \in Int
  BY DEF IInv, TypeOK, TaskRow
<1>2. CASE \E d \in Definition : Create(t, d)
  <2>1. PICK d \in Definition : Create(t, d)
    BY <1>2
  <2> DEFINE row == [state |-> "current", definition |-> d, paused |-> FALSE,
                     nextDue |-> NextOccurrence(d, clock)]
  <2>2. row \in TaskRow /\ row.state = "current" /\ row.definition = d
    BY <1>1, Definitions DEF TaskRow
  <2>3. ~Recurring(row) => row.nextDue = d.schedule.when /\ d.schedule.when # Never
    BY <1>1, Definitions, DefinitionAssumption DEF Recurring
  <2>4. /\ tasks' = [tasks EXCEPT ![t] = row] /\ since' \in [Task -> Int]
        /\ UNCHANGED <<executions, memory, clock, sent>>
    BY <2>1, <1>1 DEF Create, IInv, TypeOK
  <2> HIDE DEF row
  <2> QED
    BY <2>2, <2>3, <2>4, OneTask
<1>3. CASE \E d \in Definition : Update(t, d)
  <2>1. PICK d \in Definition : Update(t, d)
    BY <1>3
  <2> DEFINE row == Rescheduled(tasks[t], d)
  <2>2. tasks[t].state = "current"
    BY <2>1 DEF Update
  <2>3. /\ row \in TaskRow /\ row.state = "current" /\ row.definition = d
        /\ row.nextDue = IF d.schedule # tasks[t].definition.schedule \/ d.zone # tasks[t].definition.zone
                         THEN NextOccurrence(d, clock) ELSE tasks[t].nextDue
    BY <1>1, <2>2, Definitions DEF Rescheduled, TaskRow
  <2>4. /\ tasks' = [tasks EXCEPT ![t] = row] /\ since' \in [Task -> Int]
        /\ UNCHANGED <<executions, memory, clock, sent>>
    BY <2>1, <1>1 DEF Update, IInv, TypeOK
  <2> HIDE DEF row
  <2>5. ASSUME ~Recurring(row)
        PROVE  /\ row.nextDue \in {Never, row.definition.schedule.when}
               /\ row.nextDue = Never => Reserved(executions, t, row.definition.schedule.when)
    <3>1. d.schedule.kind = "once"
      BY <2>3, <2>5, DefinitionAssumption DEF Recurring
    <3>2. CASE d.schedule # tasks[t].definition.schedule \/ d.zone # tasks[t].definition.zone
      BY <3>1, <3>2, <2>3, <1>1, Definitions
    <3>3. CASE d.schedule = tasks[t].definition.schedule /\ d.zone = tasks[t].definition.zone
      <4>1. ~Recurring(tasks[t])
        BY <3>1, <3>3 DEF Recurring
      <4> QED
        BY <4>1, <3>3, <2>2, <2>3 DEF IInv, OneOffsAreDueOnTime, OneOffsAreNotLost
    <3> QED
      BY <3>2, <3>3
  <2> QED
    BY <2>3, <2>4, <2>5, OneTask
<1>4. CASE Pause(t)
  <2> DEFINE row == [tasks[t] EXCEPT !.paused = TRUE]
  <2>1. /\ row \in TaskRow /\ row.state = "current" /\ tasks[t].state = "current"
        /\ row.definition = tasks[t].definition /\ row.nextDue = tasks[t].nextDue
    BY <1>1, <1>4 DEF Pause, TaskRow
  <2>2. /\ tasks' = [tasks EXCEPT ![t] = row] /\ since' \in [Task -> Int]
        /\ UNCHANGED <<executions, memory, clock, sent>>
    BY <1>4, <1>1 DEF Pause, IInv, TypeOK
  <2> HIDE DEF row
  <2>3. ~Recurring(row) =>
          /\ row.nextDue \in {Never, row.definition.schedule.when}
          /\ row.nextDue = Never => Reserved(executions, t, row.definition.schedule.when)
    BY <2>1 DEF IInv, OneOffsAreDueOnTime, OneOffsAreNotLost, Recurring
  <2> QED
    BY <2>1, <2>2, <2>3, OneTask
<1>5. CASE Resume(t)
  <2> DEFINE due == IF Recurring(tasks[t])
                    THEN NextOccurrence(tasks[t].definition, clock) ELSE tasks[t].nextDue
             row == [tasks[t] EXCEPT !.paused = FALSE, !.nextDue = due]
  <2>1. due \in Int
    BY <1>1, Definitions DEF TaskRow
  <2>2. /\ row \in TaskRow /\ row.state = "current" /\ tasks[t].state = "current"
        /\ row.definition = tasks[t].definition /\ row.nextDue = due
    BY <1>1, <1>5, <2>1 DEF Resume, TaskRow
  <2>3. /\ tasks' = [tasks EXCEPT ![t] = row] /\ since' \in [Task -> Int]
        /\ UNCHANGED <<executions, memory, clock, sent>>
    BY <1>5, <1>1 DEF Resume, IInv, TypeOK
  <2>4. ~Recurring(tasks[t]) => due = tasks[t].nextDue
    OBVIOUS
  <2> HIDE DEF row, due
  <2>5. ~Recurring(row) =>
          /\ row.nextDue \in {Never, row.definition.schedule.when}
          /\ row.nextDue = Never => Reserved(executions, t, row.definition.schedule.when)
    BY <2>2, <2>4 DEF IInv, OneOffsAreDueOnTime, OneOffsAreNotLost, Recurring
  <2> QED
    BY <2>2, <2>3, <2>5, OneTask
<1>6. CASE Archive(t)
  <2> DEFINE row == [tasks[t] EXCEPT !.state = "archived", !.nextDue = Never]
  <2>1. row \in TaskRow /\ row.state = "archived"
    <3>1. Never \in Int
      BY DEF Never
    <3> QED
      BY <1>1, <3>1 DEF TaskRow
  <2>2. /\ tasks' = [tasks EXCEPT ![t] = row] /\ since' \in [Task -> Int]
        /\ UNCHANGED <<executions, memory, clock, sent>>
    BY <1>6, <1>1 DEF Archive, IInv, TypeOK
  <2> HIDE DEF row
  <2> QED
    BY <2>1, <2>2, OneTask
<1>7. CASE Delete(t)
  BY <1>7, DeleteHolds
<1>8. CASE DispatchManually(t)
  BY <1>8, DispatchManuallyHolds
<1> QED
  BY <1>2, <1>3, <1>4, <1>5, <1>6, <1>7, <1>8 DEF Requests

-----------------------------------------------------------------------------
(* Steps of the plugin *)

\* Recovery keeps the tables: one-offs keep their due time and no outcome is made up.
LEMMA RecoveryKeepsTables ==
  ASSUME IInv, mode = "down"
  PROVE  Tables(RecoveredTasks, RecoveredExecutions, pending)
<1> DEFINE ts == RecoveredTasks
           xs == RecoveredExecutions
<1>1. Tables(tasks, executions, pending) /\ clock \in Int
  BY TablesHold DEF IInv, TypeOK
<1>2. \A t \in Task :
        /\ ts[t] \in TaskRow /\ ts[t].state = tasks[t].state
        /\ ts[t].definition = tasks[t].definition
        /\ ~Recurring(tasks[t]) => ts[t] = tasks[t]
  <2> SUFFICES ASSUME NEW t \in Task
               PROVE  /\ ts[t] \in TaskRow /\ ts[t].state = tasks[t].state
                      /\ ts[t].definition = tasks[t].definition
                      /\ ~Recurring(tasks[t]) => ts[t] = tasks[t]
    OBVIOUS
  <2>1. tasks[t] \in TaskRow /\ NextOccurrence(tasks[t].definition, clock) \in Int
    BY <1>1, Definitions DEF Tables, TaskRow
  <2> QED
    BY <2>1 DEF RecoveredTasks, TaskRow
<1>3. \A e \in Execution :
        /\ xs[e] \in ExecutionRow
        /\ xs[e].task = executions[e].task /\ xs[e].trigger = executions[e].trigger
        /\ xs[e].due = executions[e].due /\ xs[e].report = executions[e].report
        /\ xs[e].overrides = executions[e].overrides /\ xs[e].notices = executions[e].notices
        /\ xs[e].status = IF executions[e].status = "dispatching"
                          THEN "uncertain" ELSE executions[e].status
  <2> SUFFICES ASSUME NEW e \in Execution
               PROVE  /\ xs[e] \in ExecutionRow
                      /\ xs[e].task = executions[e].task /\ xs[e].trigger = executions[e].trigger
                      /\ xs[e].due = executions[e].due /\ xs[e].report = executions[e].report
                      /\ xs[e].overrides = executions[e].overrides
                      /\ xs[e].notices = executions[e].notices
                      /\ xs[e].status = IF executions[e].status = "dispatching"
                                        THEN "uncertain" ELSE executions[e].status
    OBVIOUS
  <2>1. executions[e] \in ExecutionRow
    BY <1>1 DEF Tables
  <2> QED
    BY <2>1 DEF RecoveredExecutions, ExecutionRow
<1>4. ts \in [Task -> TaskRow] /\ xs \in [Execution -> ExecutionRow]
  BY <1>2, <1>3 DEF RecoveredTasks, RecoveredExecutions
<1> HIDE DEF ts, xs
<1>5. \A e \in Execution : RowOK(xs[e], pending[e], sent[e])
  <2> SUFFICES ASSUME NEW e \in Execution PROVE RowOK(xs[e], pending[e], sent[e])
    OBVIOUS
  <2>1. RowOK(executions[e], pending[e], sent[e]) /\ pending[e].stage = "none"
        /\ executions[e].report \in {"none", "completed", "errored"}
    BY <1>1 DEF Tables, ExecutionRow, IInv, TypeOK
  <2> QED
    BY <2>1, <1>3 DEF RowOK
<1>6. \A e \in Execution : pending[e].stage = "none"
  BY DEF IInv, TypeOK
<1>7. \A t \in Task :
        ts[t].state = "current" /\ ~Recurring(ts[t]) =>
          /\ ts[t].nextDue \in {Never, ts[t].definition.schedule.when}
          /\ ts[t].nextDue = Never => Reserved(xs, t, ts[t].definition.schedule.when)
  BY <1>1, <1>2, <1>3 DEF Tables, Recurring, Reserved
<1>8. \A e, f \in Execution :
        /\ xs[e].trigger = "scheduled" /\ xs[f].trigger = "scheduled"
        /\ xs[e].task = xs[f].task /\ xs[e].due = xs[f].due
        => e = f
  BY <1>1, <1>3 DEF Tables
<1>9. Tables(ts, xs, pending)
  BY <1>1, <1>4, <1>5, <1>6, <1>7, <1>8 DEF Tables
<1> QED
  BY <1>9 DEF ts, xs

LEMMA StartHolds ==
  ASSUME IInv, Start
  PROVE  IInv'
<1>1. mode = "down" /\ mode' = "running" /\ UNCHANGED <<turns, clock, sent>>
  BY DEF Start
<1>2. PICK S \in SUBSET Claimable(RecoveredTasks, RecoveredExecutions) :
        Claims(RecoveredTasks, RecoveredExecutions, S)
  BY DEF Start
<1>3. Tables(RecoveredTasks, RecoveredExecutions, pending) /\ clock \in Int
  BY <1>1, RecoveryKeepsTables DEF IInv, TypeOK
<1>4. Tables(tasks', executions', pending')
  BY <1>2, <1>3, ClaimsHold
<1>5. since' \in [Task -> Int]
  BY DEF Start, IInv, TypeOK
<1> QED
  BY <1>1, <1>4, <1>5, TablesSuffice DEF IInv, TypeOK

LEMMA CrashHolds ==
  ASSUME IInv, Crash
  PROVE  IInv'
<1>1. UNCHANGED <<tasks, executions, clock, sent, since>> /\ mode' = "down" /\ turns' = {}
  BY DEF Crash, ledger
<1>2. pending' = [e \in Execution |-> Idle] /\ Idle \in LaunchRow /\ Idle.stage = "none"
  BY DEF Crash, Idle, LaunchRow
<1>3. /\ pending' \in [Execution -> LaunchRow]
      /\ \A e \in Execution : pending'[e].stage = "none"
  BY <1>2
<1>4. Tables(tasks, executions, pending)
  BY TablesHold
<1>5. \A e \in Execution : RowOK(executions[e], pending'[e], sent[e])
  BY <1>3, <1>4 DEF Tables, RowOK
<1>6. Tables(tasks', executions', pending')
  BY <1>1, <1>3, <1>4, <1>5 DEF Tables
<1> QED
  BY <1>1, <1>3, <1>6, TablesSuffice DEF IInv, TypeOK

\* Steps that leave the tables and the launches alone.
LEMMA ElsewhereHolds ==
  ASSUME IInv, Stop \/ Drained \/ TimePasses \/ ClockSetBack \/ UNCHANGED vars
  PROVE  IInv'
<1>1. UNCHANGED <<tasks, executions, pending, sent, since>>
  BY DEF Stop, Drained, TimePasses, ClockSetBack, vars, ledger, memory
<1>2. /\ mode' \in {"down", "running", "stopping"} /\ turns' \subseteq Execution /\ clock' \in Int
      /\ mode' = "down" => turns' = {} /\ \A e \in Execution : pending[e].stage = "none"
  BY DEF IInv, TypeOK, Stop, Drained, TimePasses, ClockSetBack, vars, ledger, memory
<1>3. Tables(tasks', executions', pending')
  BY <1>1, TablesHold
<1> QED
  BY <1>1, <1>2, <1>3, TablesSuffice DEF IInv, TypeOK

-----------------------------------------------------------------------------
(* Results *)

LEMMA NextHolds ==
  ASSUME IInv, [Next]_vars
  PROVE  IInv'
<1>1. CASE Tick \/ TickFails
  BY <1>1, TicksHold
<1>2. CASE \E t \in Task : Requests(t)
  BY <1>2, RequestsHold
<1>3. CASE \E e \in Execution : LaunchSteps(e) \/ TurnEnds(e)
  BY <1>3, LaunchesHold
<1>4. CASE \E e \in Execution : \E outcome \in Outcome : Report(e, outcome)
  BY <1>4, ReportHolds
<1>5. CASE Start
  BY <1>5, StartHolds
<1>6. CASE Crash
  BY <1>6, CrashHolds
<1>7. CASE Stop \/ Drained \/ TimePasses \/ ClockSetBack \/ UNCHANGED vars
  BY <1>7, ElsewhereHolds
<1> QED
  BY <1>1, <1>2, <1>3, <1>4, <1>5, <1>6, <1>7 DEF Next

\* What the tables, the launches under way and the submitted prompts say of each other
\* stays true whatever is asked for and whatever fails, stops or crashes.
THEOREM Inductive == Spec => []IInv
<1>1. Init => IInv
  BY InitHolds
<1>2. IInv /\ [Next]_vars => IInv'
  BY NextHolds
<1> QED
  BY <1>1, <1>2, PTL DEF Spec

\* The tables keep their types, and nothing is under way while the plugin is down.
THEOREM TypeCorrect == Spec => []TypeOK
<1>1. IInv => TypeOK
  BY DEF IInv
<1> QED
  BY <1>1, Inductive, PTL

\* A due time starts at most one conversation, and a launch submits at most one prompt:
\* neither a crash between claim and outcome, nor a fallback, nor a failed write, nor an
\* edit of the schedule makes the scheduler start it again.
THEOREM NeverTwice == Spec => []AtMostOnce
<1>1. IInv => AtMostOnce
  <2> SUFFICES ASSUME IInv PROVE AtMostOnce
    OBVIOUS
  <2>1. \A e \in Execution : Len(sent[e]) <= 1
    <3> SUFFICES ASSUME NEW e \in Execution PROVE Len(sent[e]) <= 1
      OBVIOUS
    <3>1. sent[e] = <<>> \/ Len(sent[e]) = 1
      BY Rows DEF RowOK
    <3>2. CASE sent[e] = <<>>
      <4>1. Len(sent[e]) = 0
        BY <3>2
      <4> QED
        BY <4>1
    <3>3. CASE Len(sent[e]) = 1
      BY <3>3
    <3> QED
      BY <3>1, <3>2, <3>3
  <2> QED
    BY <2>1 DEF IInv, OccurrencesAreUnique, AtMostOnce
<1> QED
  BY <1>1, Inductive, PTL

\* "failed" is never said of a prompt that was submitted, nor "dispatched" of one that
\* was not, in whatever order outcomes, reports and recoveries are written.
THEOREM TheLedgerTellsTheTruth == Spec => []LedgerIsTruthful
<1>1. IInv => StatusIsTruthful
  BY DEF IInv, RowsOK, RowOK, StatusIsTruthful
<1>2. IInv => ReportsStand
  BY DEF IInv, RowsOK, RowOK, ReportsStand
<1>3. IInv => LedgerIsTruthful
  BY <1>1, <1>2 DEF LedgerIsTruthful
<1> QED
  BY <1>3, Inductive, PTL

\* A conversation whose row is there runs with the settings that were asked for, less
\* those noted as unavailable.
THEOREM FallbacksAreNoted == Spec => []FallbacksAreRecorded
<1>1. IInv => FallbacksAreRecorded
  BY DEF IInv, RowsOK, RowOK, FallbacksAreRecorded, Exists
<1> QED
  BY <1>1, Inductive, PTL

\* No task is deleted under a launch, whose outcome can always be written to its row.
THEOREM LaunchesKeepTheirRows == Spec => []LaunchesHaveRows
<1>1. IInv => LaunchesHaveRows
  BY DEF IInv, RowsOK, RowOK, LaunchesHaveTasks, LaunchesHaveRows
<1> QED
  BY <1>1, Inductive, PTL

\* A one-off that is not due any more has an execution reserved for its time.
THEOREM OneOffsSurvive == Spec => []OneOffsAreNotLost
<1>1. IInv => OneOffsAreNotLost
  BY DEF IInv
<1> QED
  BY <1>1, Inductive, PTL

-----------------------------------------------------------------------------
(* Missed recurrences *)

\* The row of a recurrence that is scheduled again at s is not due at s or before.
Ahead(row, s) ==
  row.state = "current" /\ Recurring(row) /\ row.nextDue # Never => row.nextDue > s

RecurrencesAreAhead == \A t \in Task : Ahead(tasks[t], since[t])

LEMMA NextMultiple ==
  ASSUME NEW n \in Int, NEW p \in Nat \ {0}
  PROVE  (n \div p + 1) * p > n
OBVIOUS

LEMMA OccurrencesComeLater ==
  ASSUME NEW d \in Definition, d.schedule.kind = "cron", NEW n \in Int
  PROVE  NextOccurrence(d, n) > n
<1>1. d.schedule.when \in Nat \ {0} /\ d.zone \in Int /\ d.schedule.kind # "once"
  BY DefinitionAssumption
<1>2. PICK p \in Nat \ {0} : p = d.schedule.when
  BY <1>1
<1>3. PICK z \in Int : z = d.zone
  BY <1>1
<1>4. PICK m \in Int : m = n - z
  OBVIOUS
<1>5. PICK q \in Int : q = (m \div p + 1) * p
  OBVIOUS
<1>6. q > m
  BY <1>5, NextMultiple
<1>7. NextOccurrence(d, n) = q + z
  BY <1>1, <1>2, <1>3, <1>4, <1>5 DEF NextOccurrence
<1> QED BY <1>4, <1>6, <1>7

\* What is scheduled anew now is ahead of now.
LEMMA AnewIsAhead ==
  ASSUME NEW row, row.definition \in Definition, clock \in Int,
         row.nextDue = NextOccurrence(row.definition, clock)
  PROVE  Ahead(row, clock)
BY OccurrencesComeLater DEF Ahead, Recurring

\* Claims of rows that are ahead of sn: they leave them ahead, and are for later times.
LEMMA ClaimsStayAhead ==
  ASSUME NEW ts \in [Task -> TaskRow], NEW xs \in [Execution -> ExecutionRow], clock \in Int,
         NEW sn \in [Task -> Int], \A t \in Task : Ahead(ts[t], sn[t]),
         NEW S \in SUBSET Claimable(ts, xs), Claims(ts, xs, S)
  PROVE  /\ \A t \in Task : Ahead(tasks'[t], sn[t])
         /\ \A e \in Execution :
              executions'[e].trigger = "scheduled" /\ executions'[e] # xs[e] =>
                LET t == executions'[e].task IN
                  t \in S /\ executions'[e].due = ts[t].nextDue
<1>1. PICK ids \in SUBSET {e \in Execution : xs[e].status = "unused"} :
        \E task \in Bijection(ids, S) :
          /\ tasks' = [t \in Task |-> IF t \in S THEN Consumed(ts[t]) ELSE ts[t]]
          /\ executions' =
               [e \in Execution |->
                  IF e \in ids THEN Dispatching(ts, task[e], "scheduled", ts[task[e]].nextDue)
                  ELSE xs[e]]
  BY DEF Claims
<1>2. PICK task \in Bijection(ids, S) :
        /\ tasks' = [t \in Task |-> IF t \in S THEN Consumed(ts[t]) ELSE ts[t]]
        /\ executions' =
             [e \in Execution |->
                IF e \in ids THEN Dispatching(ts, task[e], "scheduled", ts[task[e]].nextDue)
                ELSE xs[e]]
  BY <1>1
<1>3. task \in [ids -> S]
  BY DEF Bijection, Injection, Surjection
<1>4. ASSUME NEW t \in Task PROVE Ahead(tasks'[t], sn[t])
  <2>1. CASE t \notin S
    BY <1>2, <2>1
  <2>2. CASE t \in S
    <3>1. PICK r \in TaskRow : r = ts[t]
      OBVIOUS
    <3>2. Due(r) /\ Ahead(r, sn[t]) /\ tasks'[t] = Consumed(r)
      BY <1>2, <2>2, <3>1 DEF Claimable
    <3>3. PICK due : due = IF Recurring(r) THEN NextOccurrence(r.definition, clock) ELSE Never
      OBVIOUS
    <3>4. PICK c : c = [r EXCEPT !.nextDue = due]
      OBVIOUS
    <3>5. c.nextDue = due /\ c.definition = r.definition /\ c.state = r.state
      BY <3>4 DEF TaskRow
    <3>6. tasks'[t] = c
      BY <3>2, <3>3, <3>4 DEF Consumed
    <3>7. CASE Recurring(r)
      <4>1. due > clock /\ due \in Int
        BY <3>3, <3>7, OccurrencesComeLater, Definitions DEF Recurring, TaskRow
      <4>2. r.nextDue > sn[t] /\ r.nextDue <= clock /\ r.nextDue \in Int
        BY <3>2, <3>7 DEF Due, Ahead, TaskRow
      <4>3. due > sn[t]
        BY <4>1, <4>2
      <4> QED BY <3>5, <3>6, <4>3 DEF Ahead
    <3>8. CASE ~Recurring(r)
      BY <3>5, <3>6, <3>8 DEF Ahead, Recurring
    <3> QED BY <3>7, <3>8
  <2> QED BY <2>1, <2>2
<1>5. ASSUME NEW e \in Execution, executions'[e] # xs[e]
      PROVE  executions'[e].task \in S /\ executions'[e].due = ts[executions'[e].task].nextDue
  <2>1. e \in ids
    BY <1>2, <1>5
  <2>2. executions'[e].task = task[e] /\ executions'[e].due = ts[task[e]].nextDue
    BY <1>2, <2>1 DEF Dispatching
  <2> QED BY <1>3, <2>1, <2>2
<1> QED BY <1>4, <1>5

\* Only a claim dispatches a scheduled execution.
ClaimedAhead ==
  \A e \in Execution :
    executions[e].status = "unused" /\ executions'[e].trigger = "scheduled" =>
      LET t == executions'[e].task IN
        Recurring(tasks[t]) => executions'[e].due > since'[t]

LEMMA TicksStayAhead ==
  ASSUME IInv, RecurrencesAreAhead, Tick \/ TickFails
  PROVE  RecurrencesAreAhead' /\ ClaimedAhead
<1>1. PICK S \in SUBSET Claimable(tasks, executions) : Claims(tasks, executions, S)
  BY DEF Tick, TickFails
<1>2. since' = since
  BY DEF Tick, TickFails
<1>3. /\ tasks \in [Task -> TaskRow] /\ executions \in [Execution -> ExecutionRow] /\ clock \in Int
      /\ since \in [Task -> Int] /\ \A t \in Task : Ahead(tasks[t], since[t])
  BY DEF IInv, TypeOK, RecurrencesAreAhead
<1>4. /\ \A t \in Task : Ahead(tasks'[t], since[t])
      /\ \A e \in Execution :
           executions'[e].trigger = "scheduled" /\ executions'[e] # executions[e] =>
             executions'[e].task \in S /\ executions'[e].due = tasks[executions'[e].task].nextDue
  BY <1>1, <1>3, ClaimsStayAhead
<1>5. RecurrencesAreAhead'
  BY <1>2, <1>4 DEF RecurrencesAreAhead, Ahead, Recurring
<1>6. ASSUME NEW e \in Execution, executions[e].status = "unused", executions'[e].trigger = "scheduled",
             Recurring(tasks[executions'[e].task])
      PROVE  executions'[e].due > since'[executions'[e].task]
  <2>1. executions[e].trigger = "manual"
    BY <1>6 DEF IInv, RowsOK, RowOK
  <2>2. PICK t : t = executions'[e].task
    OBVIOUS
  <2>3. t \in S /\ executions'[e].due = tasks[t].nextDue
    BY <1>4, <1>6, <2>1, <2>2
  <2>4. t \in Task /\ Due(tasks[t])
    BY <2>3 DEF Claimable
  <2> QED BY <1>2, <1>3, <1>6, <2>2, <2>3, <2>4 DEF Ahead, Due
<1> QED BY <1>5, <1>6 DEF ClaimedAhead

LEMMA StartStaysAhead ==
  ASSUME IInv, RecurrencesAreAhead, Start
  PROVE  RecurrencesAreAhead' /\ ClaimedAhead
<1>1. PICK ts : ts = RecoveredTasks
  OBVIOUS
<1>2. PICK xs : xs = RecoveredExecutions
  OBVIOUS
<1>3. PICK S \in SUBSET Claimable(ts, xs) : Claims(ts, xs, S)
  BY <1>1, <1>2 DEF Start
<1>4. PICK sn : sn = [t \in Task |-> IF tasks[t].state = "current" THEN clock ELSE since[t]]
  OBVIOUS
<1>5. since' = sn /\ mode = "down"
  BY <1>4 DEF Start
<1>6. /\ tasks \in [Task -> TaskRow] /\ executions \in [Execution -> ExecutionRow] /\ clock \in Int
      /\ since \in [Task -> Int]
  BY DEF IInv, TypeOK
<1>7. ts \in [Task -> TaskRow] /\ xs \in [Execution -> ExecutionRow] /\ sn \in [Task -> Int]
  BY <1>1, <1>2, <1>4, <1>5, <1>6, RecoveryKeepsTables DEF Tables
<1>8. ASSUME NEW t \in Task
      PROVE  /\ ts[t].definition = tasks[t].definition
             /\ ts[t].state = tasks[t].state
             /\ ts[t].state = "current" /\ Recurring(tasks[t]) => ts[t].nextDue > clock
             /\ Ahead(ts[t], sn[t])
  <2>1. CASE tasks[t].state = "current" /\ Recurring(tasks[t])
    <3>1. PICK due : due = NextOccurrence(tasks[t].definition, clock)
      OBVIOUS
    <3>2. ts[t] = [tasks[t] EXCEPT !.nextDue = due]
      BY <1>1, <2>1, <3>1 DEF RecoveredTasks
    <3>3. ts[t].definition = tasks[t].definition /\ ts[t].state = tasks[t].state /\ ts[t].nextDue = due
      BY <1>6, <3>2 DEF TaskRow
    <3>4. due > clock
      BY <1>6, <2>1, <3>1, OccurrencesComeLater DEF Recurring, TaskRow
    <3> QED BY <1>4, <2>1, <3>3, <3>4 DEF Ahead
  <2>2. CASE ~(tasks[t].state = "current" /\ Recurring(tasks[t]))
    <3>1. ts[t] = tasks[t]
      BY <1>1, <2>2 DEF RecoveredTasks
    <3> QED BY <2>2, <3>1 DEF Ahead
  <2> QED BY <2>1, <2>2
<1>9. /\ \A t \in Task : Ahead(tasks'[t], sn[t])
      /\ \A e \in Execution :
           executions'[e].trigger = "scheduled" /\ executions'[e] # xs[e] =>
             executions'[e].task \in S /\ executions'[e].due = ts[executions'[e].task].nextDue
  BY <1>3, <1>6, <1>7, <1>8, ClaimsStayAhead
<1>10. RecurrencesAreAhead'
  BY <1>5, <1>9 DEF RecurrencesAreAhead, Ahead, Recurring
<1>11. ASSUME NEW e \in Execution, executions[e].status = "unused", executions'[e].trigger = "scheduled",
              Recurring(tasks[executions'[e].task])
       PROVE  FALSE
  <2>1. executions[e].trigger = "manual" /\ xs[e] = executions[e]
    BY <1>2, <1>11 DEF IInv, RowsOK, RowOK, RecoveredExecutions
  <2>2. PICK t : t = executions'[e].task
    OBVIOUS
  <2>3. t \in S
    BY <1>9, <1>11, <2>1, <2>2
  <2>4. t \in Task /\ Due(ts[t])
    BY <2>3 DEF Claimable
  <2>5. ts[t].nextDue > clock /\ ts[t].nextDue <= clock /\ ts[t].nextDue \in Int
    BY <1>7, <1>8, <1>11, <2>2, <2>4 DEF Due, TaskRow
  <2> QED BY <1>6, <2>5
<1> QED BY <1>10, <1>11 DEF ClaimedAhead

\* Requests: the row that changes is scheduled anew, as far ahead as it was, or no recurrence.
LEMMA OneTaskAhead ==
  ASSUME RecurrencesAreAhead, tasks \in [Task -> TaskRow], since \in [Task -> Int], NEW t \in Task,
         NEW row, tasks' = [tasks EXCEPT ![t] = row],
         NEW s, since' = [since EXCEPT ![t] = s], Ahead(row, s)
  PROVE  RecurrencesAreAhead'
<1>1. ASSUME NEW u \in Task PROVE Ahead(tasks'[u], since'[u])
  <2>1. CASE u = t
    BY <2>1
  <2>2. CASE u # t
    <3>1. tasks'[u] = tasks[u] /\ since'[u] = since[u]
      BY <2>2
    <3> QED BY <3>1 DEF RecurrencesAreAhead
  <2> QED BY <2>1, <2>2
<1> QED BY <1>1 DEF RecurrencesAreAhead, Ahead, Recurring

LEMMA RequestsStayAhead ==
  ASSUME IInv, RecurrencesAreAhead, NEW t \in Task, Requests(t)
  PROVE  RecurrencesAreAhead'
<1>1. /\ tasks \in [Task -> TaskRow] /\ since \in [Task -> Int] /\ clock \in Int
      /\ since = [since EXCEPT ![t] = since[t]]
  BY DEF IInv, TypeOK
<1>2. PICK r \in TaskRow : r = tasks[t]
  BY <1>1
<1>3. Ahead(r, since[t]) /\ r.definition \in Definition
  BY <1>2 DEF RecurrencesAreAhead, TaskRow
<1>4. ASSUME NEW d \in Definition, Create(t, d) PROVE RecurrencesAreAhead'
  <2>1. PICK row : row = [state |-> "current", definition |-> d, paused |-> FALSE,
                          nextDue |-> NextOccurrence(d, clock)]
    OBVIOUS
  <2>2. tasks' = [tasks EXCEPT ![t] = row] /\ since' = [since EXCEPT ![t] = clock]
    BY <1>4, <2>1 DEF Create
  <2>3. Ahead(row, clock)
    BY <1>1, <2>1, AnewIsAhead
  <2> QED BY <1>1, <2>2, <2>3, OneTaskAhead
<1>5. ASSUME NEW d \in Definition, Update(t, d) PROVE RecurrencesAreAhead'
  <2>1. PICK row : row = Rescheduled(r, d)
    OBVIOUS
  <2>2. tasks' = [tasks EXCEPT ![t] = row]
    BY <1>2, <1>5, <2>1 DEF Update
  <2>3. /\ row.definition = d /\ row.state = r.state
        /\ row.nextDue = IF d.schedule # r.definition.schedule \/ d.zone # r.definition.zone
                         THEN NextOccurrence(d, clock) ELSE r.nextDue
    BY <2>1 DEF Rescheduled, TaskRow
  <2>4. CASE d.schedule # r.definition.schedule \/ d.zone # r.definition.zone
    <3>1. since' = [since EXCEPT ![t] = clock]
      BY <1>2, <1>5, <2>4 DEF Update
    <3>2. Ahead(row, clock)
      BY <1>1, <2>3, <2>4, AnewIsAhead
    <3> QED BY <1>1, <2>2, <3>1, <3>2, OneTaskAhead
  <2>5. CASE ~(d.schedule # r.definition.schedule \/ d.zone # r.definition.zone)
    <3>1. since' = [since EXCEPT ![t] = since[t]]
      BY <1>1, <1>2, <1>5, <2>5 DEF Update
    <3>2. Ahead(row, since[t])
      BY <1>3, <2>3, <2>5 DEF Ahead, Recurring
    <3> QED BY <1>1, <2>2, <3>1, <3>2, OneTaskAhead
  <2> QED BY <2>4, <2>5
<1>6. CASE Pause(t)
  <2>1. PICK row : row = [r EXCEPT !.paused = TRUE]
    OBVIOUS
  <2>2. tasks' = [tasks EXCEPT ![t] = row] /\ since' = [since EXCEPT ![t] = since[t]]
    BY <1>1, <1>2, <1>6, <2>1 DEF Pause
  <2>3. Ahead(row, since[t])
    BY <1>3, <2>1 DEF Ahead, Recurring, TaskRow
  <2> QED BY <1>1, <2>2, <2>3, OneTaskAhead
<1>7. CASE Resume(t)
  <2>1. PICK due : due = IF Recurring(r) THEN NextOccurrence(r.definition, clock) ELSE r.nextDue
    OBVIOUS
  <2>2. PICK row : row = [r EXCEPT !.paused = FALSE, !.nextDue = due]
    OBVIOUS
  <2>3. tasks' = [tasks EXCEPT ![t] = row] /\ since' = [since EXCEPT ![t] = clock]
    BY <1>2, <1>7, <2>1, <2>2 DEF Resume
  <2>4. row.nextDue = due /\ row.definition = r.definition
    BY <2>2 DEF TaskRow
  <2>5. Ahead(row, clock)
    <3>1. CASE Recurring(r)
      BY <1>1, <1>3, <2>1, <2>4, <3>1, AnewIsAhead
    <3>2. CASE ~Recurring(r)
      BY <2>4, <3>2 DEF Ahead, Recurring
    <3> QED BY <3>1, <3>2
  <2> QED BY <1>1, <2>3, <2>5, OneTaskAhead
<1>8. CASE Archive(t)
  <2>1. PICK row : row = [r EXCEPT !.state = "archived", !.nextDue = Never]
    OBVIOUS
  <2>2. tasks' = [tasks EXCEPT ![t] = row] /\ since' = [since EXCEPT ![t] = since[t]]
    BY <1>1, <1>2, <1>8, <2>1 DEF Archive
  <2>3. Ahead(row, since[t])
    BY <2>1 DEF Ahead, TaskRow
  <2> QED BY <1>1, <2>2, <2>3, OneTaskAhead
<1>9. CASE Delete(t)
  <2>1. PICK row : row = [NoTask EXCEPT !.state = "deleted"]
    OBVIOUS
  <2>2. tasks' = [tasks EXCEPT ![t] = row] /\ since' = [since EXCEPT ![t] = since[t]]
    BY <1>1, <1>9, <2>1 DEF Delete
  <2>3. Ahead(row, since[t])
    BY <2>1, BlankRows DEF Ahead, TaskRow
  <2> QED BY <1>1, <2>2, <2>3, OneTaskAhead
<1>10. CASE DispatchManually(t)
  BY <1>10 DEF DispatchManually, RecurrencesAreAhead, Ahead, Recurring
<1> QED BY <1>4, <1>5, <1>6, <1>7, <1>8, <1>9, <1>10 DEF Requests

\* No other step dispatches a scheduled execution.
LEMMA OthersClaimNothing ==
  ASSUME IInv,
         \/ \E t \in Task : Requests(t)
         \/ \E e \in Execution :
              LaunchSteps(e) \/ TurnEnds(e) \/ \E outcome \in Outcome : Report(e, outcome)
         \/ Stop \/ Drained \/ Crash \/ TimePasses \/ ClockSetBack \/ UNCHANGED vars
  PROVE  ClaimedAhead
<1> SUFFICES ASSUME NEW f \in Execution, executions[f].status = "unused"
             PROVE  executions'[f].trigger # "scheduled"
  BY DEF ClaimedAhead
<1>1. /\ executions \in [Execution -> ExecutionRow] /\ executions[f].trigger = "manual"
      /\ executions[f] \in ExecutionRow
  BY DEF IInv, TypeOK, RowsOK, RowOK
<1>2. ASSUME NEW e \in Execution, NEW status, Settles(e, status) PROVE executions'[f].trigger = "manual"
  BY <1>1, <1>2 DEF Settles, SetStatus, ExecutionRow
<1>3. ASSUME NEW t \in Task, Requests(t) PROVE executions'[f].trigger # "scheduled"
  <2>1. CASE Delete(t)
    BY <1>1, <2>1, BlankRows DEF Delete
  <2>2. CASE DispatchManually(t)
    BY <1>1, <2>2 DEF DispatchManually, Dispatching
  <2>3. CASE (\E d \in Definition : Create(t, d) \/ Update(t, d)) \/ Pause(t) \/ Resume(t) \/ Archive(t)
    BY <1>1, <2>3 DEF Create, Update, Pause, Resume, Archive
  <2> QED BY <1>3, <2>1, <2>2, <2>3 DEF Requests
<1>4. ASSUME NEW e \in Execution, LaunchSteps(e) PROVE executions'[f].trigger = "manual"
  <2>1. CASE TargetRejected(e) \/ RunRefused(e) \/ RunFails(e) \/ AnswerOfRun(e)
    BY <1>2, <2>1 DEF TargetRejected, RunRefused, RunFails, AnswerOfRun
  <2>2. CASE RunAdmitted(e) \/ PromptSubmitted(e) \/ OutcomeNotRecorded(e)
    BY <1>1, <2>2 DEF RunAdmitted, PromptSubmitted, OutcomeNotRecorded, ledger
  <2>3. CASE \E setting \in Override : SettingUnavailable(e, setting)
    BY <1>1, <2>3 DEF SettingUnavailable, ExecutionRow
  <2> QED BY <1>4, <2>1, <2>2, <2>3 DEF LaunchSteps
<1>5. ASSUME NEW e \in Execution, NEW outcome \in Outcome, Report(e, outcome)
      PROVE  executions'[f].trigger = "manual"
  BY <1>1, <1>5 DEF Report, ExecutionRow
<1>6. ASSUME NEW e \in Execution, TurnEnds(e) PROVE executions'[f].trigger = "manual"
  BY <1>1, <1>6 DEF TurnEnds, ledger
<1>7. CASE Stop \/ Drained \/ Crash \/ TimePasses \/ ClockSetBack \/ UNCHANGED vars
  BY <1>1, <1>7 DEF Stop, Drained, Crash, TimePasses, ClockSetBack, vars, ledger
<1> QED BY <1>3, <1>4, <1>5, <1>6, <1>7

LEMMA StepsStayAhead ==
  ASSUME IInv, RecurrencesAreAhead, [Next]_vars
  PROVE  RecurrencesAreAhead' /\ ClaimedAhead
<1>1. CASE Tick \/ TickFails
  BY <1>1, TicksStayAhead
<1>2. CASE Start
  BY <1>2, StartStaysAhead
<1>3. CASE \E t \in Task : Requests(t)
  BY <1>3, RequestsStayAhead, OthersClaimNothing
<1>4. CASE \E e \in Execution :
             LaunchSteps(e) \/ TurnEnds(e) \/ \E outcome \in Outcome : Report(e, outcome)
  <2>1. UNCHANGED <<tasks, since>>
    BY <1>4 DEF LaunchSteps, TargetRejected, RunAdmitted, RunRefused, SettingUnavailable, RunFails,
                PromptSubmitted, AnswerOfRun, OutcomeNotRecorded, TurnEnds, Report, ledger
  <2> QED BY <1>4, <2>1, OthersClaimNothing DEF RecurrencesAreAhead, Ahead, Recurring
<1>5. CASE Stop \/ Drained \/ Crash \/ TimePasses \/ ClockSetBack \/ UNCHANGED vars
  <2>1. UNCHANGED <<tasks, since>>
    BY <1>5 DEF Stop, Drained, Crash, TimePasses, ClockSetBack, vars, ledger
  <2> QED BY <1>5, <2>1, OthersClaimNothing DEF RecurrencesAreAhead, Ahead, Recurring
<1> QED BY <1>1, <1>2, <1>3, <1>4, <1>5 DEF Next

\* A recurrence starts conversations only for times after the daemon was started and the task
\* resumed or rescheduled, also when the clock was set back in between.
THEOREM MissedTimesAreSkipped == Spec => MissedRecurrencesAreSkipped
<1>1. Init => RecurrencesAreAhead
  BY BlankRows DEF Init, RecurrencesAreAhead, Ahead
<1>2. IInv /\ RecurrencesAreAhead /\ [Next]_vars => RecurrencesAreAhead'
  BY StepsStayAhead
<1>3. IInv /\ RecurrencesAreAhead /\ [Next]_vars => [ClaimedAhead]_vars
  BY StepsStayAhead
<1>4. Spec => [][ClaimedAhead]_vars
  BY <1>1, <1>2, <1>3, Inductive, PTL DEF Spec
<1>5. [ClaimedAhead]_vars =>
        [\A e \in Execution :
           executions[e].status = "unused" /\ executions'[e].trigger = "scheduled" =>
             LET t == executions'[e].task IN
               Recurring(tasks[t]) => executions'[e].due > since'[t]]_vars
  BY DEF ClaimedAhead
<1> QED BY <1>4, <1>5, PTL DEF MissedRecurrencesAreSkipped

=============================================================================
