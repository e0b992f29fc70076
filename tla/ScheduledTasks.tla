---------------------------- MODULE ScheduledTasks ----------------------------
(***************************************************************************)
(* The scheduled tasks package (src/pi-packages/scheduled-tasks): the       *)
(* ledger of tasks and executions in SQLite, the scheduler that claims due *)
(* tasks and launches conversations, the operations that agents call, and  *)
(* what its host does with a launch (serverPluginPiSessionsCapability.ts    *)
(* and startManagedSession of piSessionService.ts).                        *)
(*                                                                         *)
(* A transaction is one step; a callback that runs several of them without *)
(* awaiting is one step too.  Requests carry the task's current revision:  *)
(* with any other one they are refused and change nothing.                 *)
(***************************************************************************)
EXTENDS Integers, Sequences, FiniteSets, Functions

CONSTANTS
  Task,        \* task ids
  Execution,   \* execution ids; as many launches as a behaviour can have
  Override,    \* the settings a task may ask for, "model" and "thinkingLevel"
  Definition,  \* what tasks may be defined as
  MaxRuns,     \* maxConcurrentRunsPerPlugin
  MaxTime,     \* bound: the clock
  Outcome,     \* what agents report, of "completed" and "errored"
  Faults       \* what can go wrong: "crash", "stop", "host", "storage", "clock"

ASSUME DefinitionAssumption ==
  \A d \in Definition :
    /\ d = [schedule |-> d.schedule, zone |-> d.zone, overrides |-> d.overrides]
    /\ d.schedule = [kind |-> d.schedule.kind, when |-> d.schedule.when]
    /\ d.schedule.kind \in {"once", "cron"}
    /\ d.schedule.when \in Nat \ {0}
    /\ d.zone \in Int
    /\ d.overrides \subseteq Override
ASSUME BoundAssumption == MaxRuns \in Nat \ {0} /\ MaxTime \in Nat
ASSUME OutcomeAssumption == Outcome \subseteq {"completed", "errored"}
ASSUME SomeAssumption == Task # {} /\ Definition # {}

VARIABLES
  tasks,       \* table tasks
  executions,  \* table executions
  mode,        \* the plugin: "down", "running" or "stopping"
  pending,     \* TaskScheduler.pending: the launches under way
  turns,       \* launched conversations in their initial turn (admissions of the host)
  clock,       \* now()
  sent,        \* history: the settings of every prompt submitted for an execution
  since        \* history: when a task's schedule was last (re)started

ledger == <<tasks, executions>>
memory == <<mode, pending, turns>>
vars == <<ledger, memory, clock, sent, since>>

-----------------------------------------------------------------------------
(* Tasks *)

Never == -1

NoTask == [state |-> "none", definition |-> CHOOSE d \in Definition : TRUE,
           paused |-> FALSE, nextDue |-> Never]

\* A one-off has its instant; a recurrence has a period, shifted by the zone.
NextOccurrence(d, after) ==
  IF d.schedule.kind = "once"
  THEN d.schedule.when
  ELSE ((after - d.zone) \div d.schedule.when + 1) * d.schedule.when + d.zone

Recurring(task) == task.definition.schedule.kind = "cron"

Due(task) ==
  /\ task.state = "current"
  /\ ~task.paused
  /\ task.nextDue # Never
  /\ task.nextDue <= clock

Consumed(task) ==
  [task EXCEPT !.nextDue = IF Recurring(task) THEN NextOccurrence(task.definition, clock) ELSE Never]

Rescheduled(task, d) ==
  [task EXCEPT !.definition = d,
               !.nextDue = IF d.schedule # task.definition.schedule \/ d.zone # task.definition.zone
                           THEN NextOccurrence(d, clock) ELSE task.nextDue]

-----------------------------------------------------------------------------
(* Executions *)

NoExecution(status) ==
  [status |-> status, task |-> CHOOSE t \in Task : TRUE, trigger |-> "manual", due |-> Never,
   overrides |-> {}, notices |-> {}, report |-> "none"]

Exists(e) == executions[e].status \notin {"unused", "deleted"}

Dispatching(ts, t, trigger, due) ==
  [status |-> "dispatching", task |-> t, trigger |-> trigger, due |-> due,
   overrides |-> ts[t].definition.overrides, notices |-> {}, report |-> "none"]

\* The column "occurrence" is unique.
Reserved(xs, t, due) ==
  \E e \in Execution : xs[e].task = t /\ xs[e].trigger = "scheduled" /\ xs[e].due = due

\* Mutant of SetStatus: the outcome of the launch replaces what the agent reported.
SetStatusOverReports(execution, status) == [execution EXCEPT !.status = status]

\* confirmDispatch and dispatchProblem: reports are not overwritten.
SetStatus(execution, status) ==
  [execution EXCEPT !.status = IF execution.report = "none" THEN status ELSE execution.status]

Idle == [stage |-> "none", settings |-> {}]

Launch(settings) == [stage |-> "validating", settings |-> settings]

-----------------------------------------------------------------------------
(* The scheduler *)

\* Of ts, the due tasks that are not reserved yet.
Claimable(ts, xs) == {t \in Task : Due(ts[t]) /\ ~Reserved(xs, t, ts[t].nextDue)}

\* One claim and one launch for every task of S, from the tables ts and xs.
Claims(ts, xs, S) ==
  \E ids \in SUBSET {e \in Execution : xs[e].status = "unused"} :
    \E task \in Bijection(ids, S) :
      /\ tasks' = [t \in Task |-> IF t \in S THEN Consumed(ts[t]) ELSE ts[t]]
      /\ executions' =
           [e \in Execution |->
              IF e \in ids THEN Dispatching(ts, task[e], "scheduled", ts[task[e]].nextDue) ELSE xs[e]]
      /\ pending' =
           [e \in Execution |->
              IF e \in ids THEN Launch(ts[task[e]].definition.overrides) ELSE pending[e]]

Tick ==
  /\ mode = "running"
  /\ Claimable(tasks, executions) # {}
  /\ Claims(tasks, executions, Claimable(tasks, executions))
  /\ UNCHANGED <<mode, turns, clock, sent, since>>

\* A claim fails and ends the tick; the order of the tasks is that of random ids.
TickFails ==
  /\ "storage" \in Faults
  /\ mode = "running"
  /\ \E S \in SUBSET Claimable(tasks, executions) :
       /\ S # Claimable(tasks, executions)
       /\ Claims(tasks, executions, S)
  /\ UNCHANGED <<mode, turns, clock, sent, since>>

DispatchManually(t) ==
  /\ mode = "running"
  /\ tasks[t].state = "current"
  /\ \E e \in Execution :
       /\ executions[e].status = "unused"
       /\ executions' = [executions EXCEPT ![e] = Dispatching(tasks, t, "manual", clock)]
       /\ pending' = [pending EXCEPT ![e] = Launch(tasks[t].definition.overrides)]
  /\ UNCHANGED <<tasks, mode, turns, clock, sent, since>>

-----------------------------------------------------------------------------
(* A launch *)

\* The promise of the launch settles; the outcome is in the ledger.
Settles(e, status) ==
  /\ executions' = [executions EXCEPT ![e] = SetStatus(@, status)]
  /\ pending' = [pending EXCEPT ![e] = Idle]

Admissions == turns \cup {e \in Execution : pending[e].stage = "starting"}

\* The workspace is not there any more, or the plugin is stopping.
TargetRejected(e) ==
  /\ pending[e].stage = "validating"
  /\ Settles(e, "failed")
  /\ UNCHANGED <<tasks, mode, turns, clock, sent, since>>

RunAdmitted(e) ==
  /\ pending[e].stage = "validating"
  /\ mode = "running"
  /\ Cardinality(Admissions) < MaxRuns
  /\ pending' = [pending EXCEPT ![e].stage = "starting"]
  /\ UNCHANGED <<ledger, mode, turns, clock, sent, since>>

RunRefused(e) ==
  /\ pending[e].stage = "validating"
  /\ mode = "running"
  /\ Cardinality(Admissions) >= MaxRuns
  /\ Settles(e, "uncertain")
  /\ UNCHANGED <<tasks, mode, turns, clock, sent, since>>

\* Mutant of SettingUnavailable: the same settings are tried again.
SettingTriedAgain(e, setting) ==
  /\ pending[e].stage = "starting"
  /\ mode = "running"
  /\ setting \in pending[e].settings
  /\ executions' = [executions EXCEPT ![e].notices = @ \cup {setting}]
  /\ pending' = [pending EXCEPT ![e] = Launch(pending[e].settings)]
  /\ UNCHANGED <<tasks, mode, turns, clock, sent, since>>

\* A typed rejection, before any prompt: the setting is dropped and all begins again.
SettingUnavailable(e, setting) ==
  /\ pending[e].stage = "starting"
  /\ mode = "running"
  /\ setting \in pending[e].settings
  /\ executions' = [executions EXCEPT ![e].notices = @ \cup {setting}]
  /\ pending' = [pending EXCEPT ![e] = Launch(pending[e].settings \ {setting})]
  /\ UNCHANGED <<tasks, mode, turns, clock, sent, since>>

\* Any other failure of the host, or its answer to a plugin that is stopping.
RunFails(e) ==
  /\ pending[e].stage = "starting"
  /\ "host" \in Faults \/ mode = "stopping"
  /\ Settles(e, "uncertain")
  /\ UNCHANGED <<tasks, mode, turns, clock, sent, since>>

PromptSubmitted(e) ==
  /\ pending[e].stage = "starting"
  /\ mode = "running"
  /\ pending' = [pending EXCEPT ![e].stage = "sent"]
  /\ sent' = [sent EXCEPT ![e] = Append(@, pending[e].settings)]
  /\ turns' = turns \cup {e}
  /\ UNCHANGED <<ledger, mode, clock, since>>

\* The host's answer; one that comes after the plugin was revoked is an error.
AnswerOfRun(e) ==
  /\ pending[e].stage = "sent"
  /\ Settles(e, IF mode = "running" THEN "dispatched" ELSE "uncertain")
  /\ UNCHANGED <<tasks, mode, turns, clock, sent, since>>

\* Mutant of OutcomeNotRecorded: a failed write counts as a failed launch and is retried.
OutcomeNotRecordedRetried(e) ==
  /\ "storage" \in Faults
  /\ pending[e].stage # "none"
  /\ pending' = [pending EXCEPT ![e].stage = "validating"]
  /\ UNCHANGED <<ledger, mode, turns, clock, sent, since>>

\* The ledger cannot be written: the launch ends without an outcome.
OutcomeNotRecorded(e) ==
  /\ "storage" \in Faults
  /\ pending[e].stage # "none"
  /\ pending' = [pending EXCEPT ![e] = Idle]
  /\ UNCHANGED <<ledger, mode, turns, clock, sent, since>>

TurnEnds(e) ==
  /\ e \in turns
  /\ turns' = turns \ {e}
  /\ UNCHANGED <<ledger, mode, pending, clock, sent, since>>

-----------------------------------------------------------------------------
(* What agents ask for *)

Create(t, d) ==
  /\ mode = "running"
  /\ tasks[t].state = "none"
  /\ tasks' = [tasks EXCEPT ![t] = [state |-> "current", definition |-> d, paused |-> FALSE,
                                    nextDue |-> NextOccurrence(d, clock)]]
  /\ since' = [since EXCEPT ![t] = clock]
  /\ UNCHANGED <<executions, memory, clock, sent>>

Update(t, d) ==
  /\ mode = "running"
  /\ tasks[t].state = "current"
  /\ tasks' = [tasks EXCEPT ![t] = Rescheduled(@, d)]
  /\ since' = IF d.schedule # tasks[t].definition.schedule \/ d.zone # tasks[t].definition.zone
              THEN [since EXCEPT ![t] = clock] ELSE since
  /\ UNCHANGED <<executions, memory, clock, sent>>

Pause(t) ==
  /\ mode = "running"
  /\ tasks[t].state = "current"
  /\ tasks' = [tasks EXCEPT ![t].paused = TRUE]
  /\ UNCHANGED <<executions, memory, clock, sent, since>>

\* Mutant of Resume: the recurrence goes on where it was paused.
ResumeLate(t) ==
  /\ mode = "running"
  /\ tasks[t].state = "current"
  /\ tasks' = [tasks EXCEPT ![t].paused = FALSE]
  /\ since' = [since EXCEPT ![t] = clock]
  /\ UNCHANGED <<executions, memory, clock, sent>>

Resume(t) ==
  /\ mode = "running"
  /\ tasks[t].state = "current"
  /\ tasks' = [tasks EXCEPT ![t].paused = FALSE,
                            ![t].nextDue = IF Recurring(tasks[t])
                                           THEN NextOccurrence(tasks[t].definition, clock) ELSE @]
  /\ since' = [since EXCEPT ![t] = clock]
  /\ UNCHANGED <<executions, memory, clock, sent>>

Archive(t) ==
  /\ mode = "running"
  /\ tasks[t].state = "current"
  /\ tasks' = [tasks EXCEPT ![t].state = "archived", ![t].nextDue = Never]
  /\ UNCHANGED <<executions, memory, clock, sent, since>>

Delete(t) ==
  /\ mode = "running"
  /\ tasks[t].state = "archived"
  /\ \A e \in Execution : pending[e].stage # "none" => executions[e].task # t
  /\ tasks' = [tasks EXCEPT ![t] = [NoTask EXCEPT !.state = "deleted"]]
  /\ executions' = [e \in Execution |->
                      IF Exists(e) /\ executions[e].task = t THEN NoExecution("deleted") ELSE executions[e]]
  /\ UNCHANGED <<memory, clock, sent, since>>

Report(e, outcome) ==
  /\ mode = "running"
  /\ Exists(e)
  /\ executions[e].status # "failed"
  /\ executions' = [executions EXCEPT ![e].status = outcome, ![e].report = outcome]
  /\ UNCHANGED <<tasks, memory, clock, sent, since>>

-----------------------------------------------------------------------------
(* The plugin's life *)

\* Mutant of RecoveredTasks: a one-off that was missed is skipped too.
RecoveredTasksSkipAll ==
  [t \in Task |-> IF Due(tasks[t]) THEN Consumed(tasks[t]) ELSE tasks[t]]

\* recover(): recurrences that were missed are skipped.
RecoveredTasks ==
  [t \in Task |->
     IF tasks[t].state = "current" /\ Recurring(tasks[t])
     THEN [tasks[t] EXCEPT !.nextDue = NextOccurrence(tasks[t].definition, clock)]
     ELSE tasks[t]]

\* recover(): an interrupted launch is not tried again.
RecoveredExecutions ==
  [e \in Execution |->
     IF executions[e].status = "dispatching"
     THEN [executions[e] EXCEPT !.status = "uncertain"] ELSE executions[e]]

\* Recovery and the first tick, of which a part may fail.
Start ==
  /\ mode = "down"
  /\ mode' = "running"
  /\ \E S \in SUBSET Claimable(RecoveredTasks, RecoveredExecutions) :
       /\ S = Claimable(RecoveredTasks, RecoveredExecutions) \/ "storage" \in Faults
       /\ Claims(RecoveredTasks, RecoveredExecutions, S)
  /\ since' = [t \in Task |-> IF tasks[t].state = "current" THEN clock ELSE since[t]]
  /\ UNCHANGED <<turns, clock, sent>>

Stop ==
  /\ "stop" \in Faults
  /\ mode = "running"
  /\ mode' = "stopping"
  /\ UNCHANGED <<ledger, pending, turns, clock, sent, since>>

\* drain() is over: the store is closed and the daemon goes on to exit.
Drained ==
  /\ mode = "stopping"
  /\ \A e \in Execution : pending[e].stage = "none"
  /\ mode' = "down"
  /\ turns' = {}
  /\ UNCHANGED <<ledger, pending, clock, sent, since>>

Crash ==
  /\ "crash" \in Faults
  /\ mode # "down"
  /\ mode' = "down"
  /\ pending' = [e \in Execution |-> Idle]
  /\ turns' = {}
  /\ UNCHANGED <<ledger, clock, sent, since>>

TimePasses ==
  /\ clock < MaxTime
  /\ clock' = clock + 1
  /\ UNCHANGED <<ledger, memory, sent, since>>

ClockSetBack ==
  /\ "clock" \in Faults
  /\ clock > 0
  /\ clock' = clock - 1
  /\ UNCHANGED <<ledger, memory, sent, since>>

-----------------------------------------------------------------------------
Init ==
  /\ tasks = [t \in Task |-> NoTask]
  /\ executions = [e \in Execution |-> NoExecution("unused")]
  /\ mode = "down"
  /\ pending = [e \in Execution |-> Idle]
  /\ turns = {}
  /\ clock = 0
  /\ sent = [e \in Execution |-> <<>>]
  /\ since = [t \in Task |-> 0]

LaunchSteps(e) ==
  \/ TargetRejected(e)
  \/ RunAdmitted(e)
  \/ RunRefused(e)
  \/ \E setting \in Override : SettingUnavailable(e, setting)
  \/ RunFails(e)
  \/ PromptSubmitted(e)
  \/ AnswerOfRun(e)
  \/ OutcomeNotRecorded(e)

Requests(t) ==
  \/ \E d \in Definition : Create(t, d) \/ Update(t, d)
  \/ Pause(t)
  \/ Resume(t)
  \/ Archive(t)
  \/ Delete(t)
  \/ DispatchManually(t)

Next ==
  \/ Tick
  \/ TickFails
  \/ \E t \in Task : Requests(t)
  \/ \E e \in Execution :
       \/ LaunchSteps(e)
       \/ TurnEnds(e)
       \/ \E outcome \in Outcome : Report(e, outcome)
  \/ Start
  \/ Stop
  \/ Drained
  \/ Crash
  \/ TimePasses
  \/ ClockSetBack

Spec == Init /\ [][Next]_vars

\* The host answers every launch.
FairSpec == Spec /\ \A e \in Execution : WF_vars(LaunchSteps(e))

-----------------------------------------------------------------------------
(* Properties *)

TaskRow == [state : {"none", "current", "archived", "deleted"}, definition : Definition,
            paused : BOOLEAN, nextDue : Int]

ExecutionRow ==
  [status : {"unused", "deleted", "dispatching", "dispatched", "failed", "uncertain",
             "completed", "errored"},
   task : Task, trigger : {"scheduled", "manual"}, due : Int,
   overrides : SUBSET Override, notices : SUBSET Override,
   report : {"none", "completed", "errored"}]

\* The tables hold rows of their types, and a plugin that is down has nothing under way.
TypeOK ==
  /\ tasks \in [Task -> TaskRow]
  /\ executions \in [Execution -> ExecutionRow]
  /\ mode \in {"down", "running", "stopping"}
  /\ pending \in [Execution -> [stage : {"none", "validating", "starting", "sent"},
                                settings : SUBSET Override]]
  /\ turns \subseteq Execution
  /\ clock \in Int
  /\ sent \in [Execution -> Seq(SUBSET Override)]
  /\ since \in [Task -> Int]
  /\ mode = "down" => turns = {} /\ \A e \in Execution : pending[e].stage = "none"

\* A due time of a task starts at most one conversation, whatever crashes, is retried
\* or is edited back: "Durable reservation precedes all session side effects".
AtMostOnce ==
  /\ \A e \in Execution : Len(sent[e]) <= 1
  /\ \A e, f \in Execution :
       /\ Exists(e) /\ Exists(f)
       /\ executions[e].trigger = "scheduled" /\ executions[f].trigger = "scheduled"
       /\ executions[e].task = executions[f].task /\ executions[e].due = executions[f].due
       => e = f

\* "failed" is only said of a launch whose prompt was never submitted, and "dispatched"
\* only of one whose prompt was.
StatusIsTruthful ==
  \A e \in Execution :
    /\ executions[e].status = "failed" => sent[e] = <<>>
    /\ executions[e].status = "dispatched" => Len(sent[e]) = 1

\* What the agent reported stands, whenever the launch is confirmed, refused or recovered.
ReportsStand ==
  \A e \in Execution : executions[e].report # "none" => executions[e].status = executions[e].report

\* The ledger tells the truth of every launch, whichever comes first: its confirmation, its
\* failure, the agent's report, or a restart of the daemon that recovers it.
LedgerIsTruthful == StatusIsTruthful /\ ReportsStand

\* A conversation runs with the requested settings except those whose loss the ledger
\* notes; the note is written before the conversation starts.
FallbacksAreRecorded ==
  \A e \in Execution :
    Exists(e) /\ sent[e] # <<>> => sent[e][1] = executions[e].overrides \ executions[e].notices

\* The outcome of a launch under way has a row to go to, and its task is there.
LaunchesHaveRows ==
  \A e \in Execution :
    pending[e].stage # "none" =>
      /\ executions[e].status = "dispatching" \/ executions[e].report # "none"
      /\ tasks[executions[e].task].state \in {"current", "archived"}

\* A one-off that is not due any more has been reserved at its time: a crash or an edit
\* between claim and launch does not make it disappear.
OneOffsAreNotLost ==
  \A t \in Task :
    tasks[t].state = "current" /\ ~Recurring(tasks[t]) /\ tasks[t].nextDue = Never =>
      Reserved(executions, t, tasks[t].definition.schedule.when)

\* A recurrence is dispatched only for times that came after the daemon was started and
\* the task resumed or rescheduled: what was missed is skipped.
MissedRecurrencesAreSkipped ==
  [][\A e \in Execution :
       executions[e].status = "unused" /\ executions'[e].trigger = "scheduled" =>
         LET t == executions'[e].task IN
           Recurring(tasks[t]) => executions'[e].due > since'[t]]_vars

\* A launch leaves "dispatching", if the ledger can be written, or the daemon goes down:
\* the fallbacks come to an end.
LaunchesSettle ==
  \A e \in Execution :
    executions[e].status = "dispatching" ~> executions[e].status # "dispatching" \/ mode = "down"

\* docs/scheduled-tasks.md of a consumed one-off: "explicitly changing its schedule does"
\* schedule it again.  What is due can be claimed by the next tick.
DueCanBeClaimed ==
  \A t \in Task : Due(tasks[t]) => t \in Claimable(tasks, executions)

=============================================================================
