CONSTANTS
  s1 = s1
  s2 = s2
  c1 = c1
  f1 = f1
  f2 = f2
  Session = {s1, s2}
  Cwd = {c1}
  Flusher = {f1, f2}
  Limit = 1
  MaxSafe = 2
  MaxStarts = 2
  MaxExposed = 1
  None = None
  Missing = Missing
  Corrupt = Corrupt
SPECIFICATION MCSpec
INVARIANTS
  FlushIsDurable
  OneCatalogPerRevision
  AcknowledgementsClearOnlyShownWork
PROPERTIES
  EventuallyDurable
  FlushTerminates
CHECK_DEADLOCK FALSE
