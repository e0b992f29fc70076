------------------------------ MODULE MCBrowser ------------------------------
(* What one browser shows of a daemon.  Of the unread catalog: its refresh    *)
(* loop and at most one write at a time, either a long history without writes *)
(* or writes with one revision in each epoch.  Of the notifications of the    *)
(* selected session: a runtime that says a few things.  Of logins: one with   *)
(* its prompts, or two without.  focus is the one that moves.                 *)
EXTENDS UnreadProjection, SessionNotifications, LoginFlows

CONSTANTS get, write, n1, n2, l1, l2

VARIABLE focus

\* Two epochs of three revisions.
MCTwoEpochs == <<3, 3>>

\* One epoch of two revisions.
MCOneEpoch == <<2>>

MCInit ==
  /\ ProjectionInit /\ NotesInit /\ LoginInit
  /\ focus \in {"long", "written", "notifications", "login", "logins"}

MCNext ==
  \/ /\ focus = "long" /\ ProjectionNext
     /\ UNCHANGED <<net[write], noteVars, loginVars, focus>>
  \/ /\ focus = "written" /\ ProjectionNext /\ durable' <= 1
     /\ UNCHANGED <<noteVars, loginVars, focus>>
  \/ /\ focus = "notifications" /\ NotesNext
     /\ UNCHANGED <<vars, loginVars, focus>>
  \/ /\ focus = "login" /\ LoginNext /\ flows'[l2] = NewFlow
     /\ UNCHANGED <<vars, noteVars, focus>>
  \/ /\ focus = "logins" /\ LoginNext /\ \A f \in LoginFlow : flows'[f].asked = 0
     /\ UNCHANGED <<vars, noteVars, focus>>

MCSpec == MCInit /\ [][MCNext]_<<vars, noteVars, loginVars, focus>>

=============================================================================
