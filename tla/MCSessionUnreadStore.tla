------------------------- MODULE MCSessionUnreadStore -------------------------
(* The unread store with two sessions and one caller of flush(), or with one  *)
(* session, two callers and no restart.                                       *)
EXTENDS SessionUnreadStore

CONSTANTS s1, s2, c1, f1, f2

VARIABLE several

MCInit == Init /\ several \in {"sessions", "callers"}

OneSession == \A i \in {s2} \X Cwd : UNCHANGED <<unread[i], i \in active, i \in excluded>>

MCNext ==
  /\ Next
  /\ several = "sessions" => UNCHANGED flushPc[f2]
  /\ several = "callers" => OneSession /\ starts' <= 1
  /\ UNCHANGED several

MCSpec ==
  /\ MCInit /\ [][MCNext]_<<vars, several>>
  /\ StorageFairness /\ FlushFairness(f1)
  /\ several = "callers" => FlushFairness(f2)

=============================================================================
