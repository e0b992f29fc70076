--------------------------- MODULE MCSessionArchive ---------------------------
(* A few sessions of one workspace and the clients that move them. *)
EXTENDS SessionArchive

CONSTANTS s1, c1, c2

=============================================================================
