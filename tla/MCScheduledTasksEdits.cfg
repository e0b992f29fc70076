CONSTANTS
  t1 = t1
  t2 = t2
  e1 = e1
  e2 = e2
  model = model
  Task = {t1}
  Execution = {e1, e2}
  Override = {model}
  Definition <- MCEdited
  MaxRuns = 2
  MaxTime = 2
  Outcome = {}
  Faults = {"crash", "clock"}
SPECIFICATION FairSpec
INVARIANTS
  OneOffsAreNotLost
PROPERTIES
  MissedRecurrencesAreSkipped
  LaunchesSettle
CHECK_DEADLOCK FALSE
