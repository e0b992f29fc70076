---------------------------- MODULE MachineStatus ----------------------------
(***************************************************************************)
(* The status of the machine as browsers see it                            *)
(* (src/src/server/status/machineStatusService.ts with                     *)
(* workspaceAttribution.ts): a tree computed from what is active, what is  *)
(* unread and which workspace a directory belongs to, each read at another *)
(* moment.  A change that arrives meanwhile causes another pass.           *)
(*                                                                         *)
(* One scope.  A source is a value that changes; the tree is what it was   *)
(* computed from.                                                          *)
(***************************************************************************)
EXTENDS Naturals

CONSTANTS
  Place,    \* what workspaces a directory may be found to belong to
  Nowhere,  \* the answer of attribution when a list failed
  Loading   \* the topology is being read

ASSUME NoPlaceAssumption == Nowhere \notin Place /\ Loading \notin Place /\ Nowhere # Loading

VARIABLES
  source,     \* what is so now
  untold,     \* the sources whose change has not been notified
  pending,    \* another pass is wanted
  pass,       \* the await the running pass is in, "none" if none runs
  read,       \* what it has read
  topology,   \* the promise that attribution made last, by what it gives
  cached,     \* whether attribution would answer with it again
  published,  \* the tree of the snapshot
  failed      \* whether the last pass, or a list it used, failed

statusVars == <<source, untold, pending, pass, read, topology, cached, published, failed>>

Kinds == {"active", "unread", "place"}

Tree(active, unread, place) ==
  [active |-> active, unread |-> unread, place |-> IF active \/ unread THEN place ELSE Nowhere]

Current == Tree(source.active, source.unread, source.place)

-----------------------------------------------------------------------------

Value(k) == IF k = "place" THEN Place ELSE BOOLEAN

Change(k) ==
  /\ \E v \in Value(k) \ {source[k]} : source' = [source EXCEPT ![k] = v]
  /\ untold' = untold \cup {k}
  /\ UNCHANGED <<pending, pass, read, topology, cached, published, failed>>

\* The head of a pass: activity is read before the first await.
Begins ==
  /\ pass' = "unread"
  /\ read' = [active |-> source.active, unread |-> FALSE]

\* notifyChanged; a change of projects or workspaces invalidates attribution first.
Notify(k) ==
  /\ k \in untold
  /\ untold' = untold \ {k}
  /\ cached' = (cached /\ k # "place")
  /\ IF pass = "none"
     THEN Begins /\ UNCHANGED pending
     ELSE pending' = TRUE /\ UNCHANGED <<pass, read>>
  /\ UNCHANGED <<source, topology, published, failed>>

\* catalogSnapshot has answered; attribute uses the topology it has or loads it, and
\* nothing if there is no directory to attribute.
ReadUnread ==
  /\ pass = "unread"
  /\ read' = [read EXCEPT !.unread = source.unread]
  /\ pass' = "placing"
  /\ IF cached \/ ~(read.active \/ source.unread)
     THEN UNCHANGED <<topology, cached>>
     ELSE topology' = Loading /\ cached' = TRUE
  /\ UNCHANGED <<source, untold, pending, published, failed>>

Load ==
  /\ topology = Loading
  /\ topology' \in {source.place, Nowhere}
  /\ UNCHANGED <<source, untold, pending, pass, read, cached, published, failed>>

\* The time to live of the topology is over.
Expire ==
  /\ cached /\ cached' = FALSE
  /\ UNCHANGED <<source, untold, pending, pass, read, topology, published, failed>>

\* runUntilSettled.
Again ==
  IF pending
  THEN Begins /\ pending' = FALSE
  ELSE pass' = "none" /\ UNCHANGED <<read, pending>>

\* Mutant of Publish: what came while the tree was computed counts as done.
PublishAndRest ==
  /\ pass = "placing"
  /\ (read.active \/ read.unread) => topology # Loading
  /\ published' = Tree(read.active, read.unread, topology)
  /\ failed' = ((read.active \/ read.unread) /\ topology = Nowhere)
  /\ pass' = "none" /\ pending' = FALSE
  /\ UNCHANGED <<source, untold, read, topology, cached>>

\* publishIfChanged.
Publish ==
  /\ pass = "placing"
  /\ (read.active \/ read.unread) => topology # Loading
  /\ published' = Tree(read.active, read.unread, topology)
  /\ failed' = ((read.active \/ read.unread) /\ topology = Nowhere)
  /\ Again
  /\ UNCHANGED <<source, untold, topology, cached>>

\* The catalog could not be read; the pass is logged and not repeated.
FailPass ==
  /\ pass = "unread"
  /\ failed' = TRUE
  /\ Again
  /\ UNCHANGED <<source, untold, topology, cached, published>>

StatusInit ==
  /\ source \in [active : BOOLEAN, unread : BOOLEAN, place : Place]
  /\ untold = Kinds
  /\ pending = FALSE
  /\ pass = "none"
  /\ read = [active |-> FALSE, unread |-> FALSE]
  /\ topology = Nowhere /\ cached = FALSE
  /\ published = Tree(FALSE, FALSE, Nowhere)
  /\ failed = FALSE

StatusNext ==
  \/ \E k \in Kinds : Change(k) \/ Notify(k)
  \/ ReadUnread \/ Load \/ Expire \/ Publish \/ FailPass

StatusSpec == StatusInit /\ [][StatusNext]_statusVars

-----------------------------------------------------------------------------
(* What the status promises *)

\* Every variable holds a value of its kind.
StatusTypeOK ==
  /\ source \in [active : BOOLEAN, unread : BOOLEAN, place : Place]
  /\ untold \subseteq Kinds
  /\ pending \in BOOLEAN /\ cached \in BOOLEAN /\ failed \in BOOLEAN
  /\ pass \in {"none", "unread", "placing"}
  /\ read \in [active : BOOLEAN, unread : BOOLEAN]
  /\ topology \in Place \cup {Nowhere, Loading}

\* When every change was notified and no pass runs, browsers see what is so: no change was
\* missed by a pass that had already read its source, and no answer of attribution that a
\* change has overtaken is kept.
StatusCatchesUp ==
  (pass = "none" /\ untold = {} /\ ~failed) => published = Current

=============================================================================
