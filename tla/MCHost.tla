-------------------------------- MODULE MCHost --------------------------------
(* The small components of the host, each on an instance of its own: focus is *)
(* the one that moves, so that their states add up and do not multiply.       *)
EXTENDS WorkspaceRemoval, MachineStatus, ExtensionDialogs, SubsessionDelivery, DaemonOwnership,
        SessionRuntimes

VARIABLE focus

hostVars == <<removalVars, statusVars, dialogVars, subsessionVars, vars, runtimeVars, focus>>

MCInit ==
  /\ focus \in {"removal", "status", "dialogs", "subsessions", "ownership", "runtimes"}
  /\ RemovalInit /\ (focus # "removal" => shape = CHOOSE p \in Confirmation : TRUE)
  /\ StatusInit
  /\ focus # "status" => Current = Tree(FALSE, FALSE, Nowhere)
                         /\ source.place = CHOOSE p \in Place : TRUE
  /\ DialogsInit /\ SubsessionInit /\ Init /\ RuntimesInit

MCNext ==
  \/ focus = "removal" /\ RemovalNext
     /\ UNCHANGED <<statusVars, dialogVars, subsessionVars, vars, runtimeVars, focus>>
  \/ focus = "status" /\ StatusNext
     /\ UNCHANGED <<removalVars, dialogVars, subsessionVars, vars, runtimeVars, focus>>
  \/ focus = "dialogs" /\ DialogsNext
     /\ UNCHANGED <<removalVars, statusVars, subsessionVars, vars, runtimeVars, focus>>
  \/ focus = "subsessions" /\ SubsessionNext
     /\ UNCHANGED <<removalVars, statusVars, dialogVars, vars, runtimeVars, focus>>
  \/ focus = "ownership" /\ Next
     /\ UNCHANGED <<removalVars, statusVars, dialogVars, subsessionVars, runtimeVars, focus>>
  \/ focus = "runtimes" /\ RuntimesNext
     /\ UNCHANGED <<removalVars, statusVars, dialogVars, subsessionVars, vars, focus>>

\* Initially no fair action is enabled, so a component that does not move owes nothing.
MCSpec ==
  /\ MCInit /\ [][MCNext]_hostVars
  /\ RemovalFairness /\ Fairness /\ RuntimesFairness

=============================================================================
