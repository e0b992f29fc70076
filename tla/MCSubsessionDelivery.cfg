CONSTANTS
  Completion = {c1, c2}
  MaxBranch = 3

SPECIFICATION SubsessionSpec
INVARIANT WaitingParentIsWoken
CHECK_DEADLOCK FALSE
