--------------------------- MODULE MCScheduledTasks ---------------------------
(* A few tasks: one-offs, recurrences, and a setting that may be unavailable. *)
EXTENDS ScheduledTasks, TLC

CONSTANTS t1, t2, e1, e2, model

Once(at, overrides) ==
  [schedule |-> [kind |-> "once", when |-> at], zone |-> 0, overrides |-> overrides]

Cron(period, zone, overrides) ==
  [schedule |-> [kind |-> "cron", when |-> period], zone |-> zone, overrides |-> overrides]

\* A one-off that asks for a setting.
MCOneSetting == {Once(1, {model})}

\* A one-off at two instants.
MCOneOffs == {Once(1, {}), Once(2, {})}

\* A one-off that asks for a setting and a recurrence of every other instant.
MCEdited == {Once(1, {model}), Cron(2, 1, {})}

MCSymmetry == Permutations(Task) \cup Permutations(Execution)

=============================================================================
