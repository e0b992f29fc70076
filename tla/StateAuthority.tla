---------------------------- MODULE StateAuthority ----------------------------
(***************************************************************************)
(* What the session daemons of one data directory promise each other: the  *)
(* durable state has one writer at a time, and nobody who takes over       *)
(* brings back a state older than the one it found.                        *)
(***************************************************************************)
EXTENDS Integers

CONSTANTS
  Daemon,
  Nobody

VARIABLES
  owner,  \* the daemon that may change the state
  disk    \* the version of the state

authority == <<owner, disk>>

Init == owner = Nobody /\ disk = 0

Take ==
  /\ owner = Nobody
  /\ owner' \in Daemon
  /\ UNCHANGED disk

Write ==
  /\ owner # Nobody
  /\ disk' \in Nat
  /\ disk' > disk
  /\ UNCHANGED owner

\* It stops, or it dies.
Leave ==
  /\ owner # Nobody
  /\ owner' = Nobody
  /\ UNCHANGED disk

Next == Take \/ Write \/ Leave

Spec == Init /\ [][Next]_authority

=============================================================================
