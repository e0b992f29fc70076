SPECIFICATION FairSpec
CONSTANTS
  s1 = s1
  c1 = c1
  c2 = c2
  Session = {s1}
  Client = {c1, c2}
  None = None
  MaxMessages = 1
INVARIANTS
  NeverOutOfSight
  
PROPERTY InterruptedMovesFinish
