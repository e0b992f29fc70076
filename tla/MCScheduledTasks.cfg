CONSTANTS
  t1 = t1
  t2 = t2
  e1 = e1
  e2 = e2
  model = model
  Task = {t1, t2}
  Execution = {e1, e2}
  Override = {model}
  Definition <- MCOneSetting
  MaxRuns = 1
  MaxTime = 1
  Outcome = {"completed"}
  Faults = {"crash", "stop", "host", "storage"}
SPECIFICATION Spec
SYMMETRY MCSymmetry
INVARIANTS
  AtMostOnce
  LedgerIsTruthful
CHECK_DEADLOCK FALSE
