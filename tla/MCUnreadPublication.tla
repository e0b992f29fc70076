------------------------- MODULE MCUnreadPublication -------------------------
(* The publication of unread mutations on a small instance. *)
EXTENDS UnreadPublication

CONSTANTS r1, r2

=============================================================================
