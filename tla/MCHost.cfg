CONSTANTS
  Requester = {r1, r2}
  Flight = {f1, f2}
  Confirmation = {k1, k2}
  NoFlight = NoFlight
  Place = {a, b}
  Nowhere = Nowhere
  Loading = Loading
  Dialog = {g1, g2}
  Runtime = {v1, v2}
  Completion = {c1, c2}
  MaxBranch = 3
  Daemon = {d1, d2}
  Pid = {p1, p2}
  Precise = FALSE
  Absent = Absent
  Torn = Torn
  MaxVersion = 1
  Caller = {q1, q2}
  PiRuntime = {u1, u2, u3}
  NoRuntime = NoRuntime
SPECIFICATION MCSpec
INVARIANTS
  StatusCatchesUp
  DialogsEndWell
  DeliveredOnce
PROPERTIES
  RemovesOnlyWhatIsAsked
  RequestsAreAnswered
  StartsAndStopsEnd
  StopsEnd
CHECK_DEADLOCK FALSE
