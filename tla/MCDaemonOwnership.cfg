CONSTANTS
  d1 = d1
  d2 = d2
  d3 = d3
  p1 = p1
  p2 = p2
  q1 = q1
  q2 = q2
  q3 = q3
  v1 = v1
  v2 = v2
  v3 = v3
  Daemon = {d1, d2, d3}
  Pid = {p1, p2}
  Precise = TRUE
  Absent = Absent
  Torn = Torn
  MaxVersion = 2
  Caller = {q1, q2, q3}
  PiRuntime = {v1, v2, v3}
  NoRuntime = NoRuntime
  x1 = x1
  x2 = x2
  x3 = x3
  h1 = h1
  h2 = h2
  Plugin = {x1, x2, x3}
  Terminal = x1
  Late = Late
  Channel = {h1, h2}
  MaxAdmissions = 1
  MaxFrames = 2
SPECIFICATION MCSpec
SYMMETRY MCSymmetry
INVARIANTS
  OneRuntime
  NothingIsLeftBehind
  ControlIsExclusive
  ProvidersOutliveDependents
  NobodyFailsForNothing
  FramesArrive
  AdmissionCoversChannel
  ShutdownIsComplete
PROPERTIES
  KeepsAuthority
CHECK_DEADLOCK FALSE
