CONSTANTS
  get = get
  write = write
  Reader = {get, write}
  Get = get
  None = None
  Failed = Failed
  MaxBuffered = 2
  Length <- MCTwoEpochs
  n1 = n1
  n2 = n2
  NoteSession = {n1, n2}
  Viewed = n1
  Limit = 2
  MaxNote = 3
  MaxTurns = 3
  MaxWire = 2
  l1 = l1
  l2 = l2
  LoginFlow = {l1, l2}
  NoFlowYet = NoFlowYet
  MaxPrompt = 2
  MaxCalls = 3
SPECIFICATION MCSpec
INVARIANTS
  ContentsMatchRevision
  NeverStaleForNothing
  GoingBackIsRepaired
  AnchoredIsCurrent
  InboxesAgree
  FlowsTellOfTheirLogin
  RunningFlowsAreOwned
PROPERTIES
  DismissalsClearOnlySeen
CHECK_DEADLOCK FALSE
