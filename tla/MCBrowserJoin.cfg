CONSTANTS
  get = get
  write = write
  Reader = {get, write}
  Get = get
  None = None
  Failed = Failed
  MaxBuffered = 1
  Length <- MCOneEpoch
  n1 = n1
  n2 = n2
  NoteSession = {n1, n2}
  Viewed = n1
  Limit = 2
  MaxNote = 0
  MaxTurns = 0
  MaxWire = 0
  l1 = l1
  l2 = l2
  LoginFlow = {l1, l2}
  NoFlowYet = NoFlowYet
  MaxPrompt = 0
  MaxCalls = 0
SPECIFICATION MCSpec
INVARIANTS
  FreshIsCurrent
CHECK_DEADLOCK FALSE
