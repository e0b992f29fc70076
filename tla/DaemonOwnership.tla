--------------------------- MODULE DaemonOwnership ---------------------------
(***************************************************************************)
(* How session daemons that resolve the same data directory keep to one    *)
(* owner of its state: the marker file sessiond-owner.json, the mkdir lock *)
(* around its changes, startup and shutdown                                *)
(* (src/src/server/sessiond/sessiondStateOwnership.ts, sessiond.ts,         *)
(* sessionDaemonShutdown.ts).                                              *)
(*                                                                         *)
(* A member of Daemon is one run of the program.  A marker's pid and start *)
(* times name the run that wrote it, so the marker holds the run itself.   *)
(* The state it protects is a version number; every save is of the whole   *)
(* state the daemon has in memory.                                         *)
(***************************************************************************)
EXTENDS Integers

CONSTANTS
  Daemon,
  Pid,
  Precise,     \* whether /proc start times can be read on this platform
  Absent,      \* no marker, nobody holds the lock
  Torn,        \* a marker that is not a readable ownership record
  MaxVersion   \* bound: versions of the state

ASSUME PreciseAssumption == Precise \in BOOLEAN
ASSUME MarkerAssumption == Absent \notin Daemon /\ Torn \notin Daemon /\ Absent # Torn
ASSUME PidAssumption == Pid # {}
ASSUME VersionAssumption == MaxVersion \in Nat

VARIABLES
  pc,      \* where each daemon is
  pid,     \* daemon -> its process id
  late,    \* daemon -> its grace period is over
  seen,    \* daemon -> the marker it has read
  marker,  \* sessiond-owner.json
  lock,    \* who made the directory sessiond-owner.json.lock
  disk,    \* the version of the state in the data directory
  mem,     \* daemon -> the version it has in memory
  saving   \* daemon -> its persistence worker is writing mem

vars == <<pc, pid, late, seen, marker, lock, disk, mem, saving>>

Starting == {"locking", "reading", "deciding", "removing", "creating", "writing",
             "claimed", "yielding"}
Stopping == {"relocking", "rereading", "releasing", "leaving"}
Working == {"loading", "running", "closing"}

\* The marker belongs to the daemon and no other may take it.
Serving == {"claimed", "relocking", "rereading", "releasing"} \cup Working

Up(d) == pc[d] \notin {"unborn", "gone"}

Goto(d, from, to) == pc[d] = from /\ pc' = [pc EXCEPT ![d] = to]

Exit(d) ==
  /\ pc' = [pc EXCEPT ![d] = "gone"]
  /\ saving' = [saving EXCEPT ![d] = FALSE]

files == <<marker, lock>>
state == <<disk, mem, saving>>
clocks == <<pid, late>>

-----------------------------------------------------------------------------
(* Processes *)

\* Live processes have different process ids; those of dead ones come again.
Spawn(d, p) ==
  /\ Goto(d, "unborn", "locking")
  /\ \A e \in Daemon : Up(e) => pid[e] # p
  /\ pid' = [pid EXCEPT ![d] = p]
  /\ UNCHANGED <<late, seen, files, state>>

GraceEnds(d) ==
  /\ pc[d] \in Starting
  /\ ~late[d]
  /\ late' = [late EXCEPT ![d] = TRUE]
  /\ UNCHANGED <<pc, pid, seen, files, state>>

\* Also an unlock that fails: the daemon exits and leaves the lock behind.
Crash(d) ==
  /\ Up(d)
  /\ Exit(d)
  /\ UNCHANGED <<clocks, seen, files, disk, mem>>

-----------------------------------------------------------------------------
(* lockOwnershipMutation *)

Lock(d, from, to) ==
  /\ Goto(d, from, to)
  /\ lock = Absent
  /\ lock' = d
  /\ UNCHANGED <<clocks, seen, marker, state>>

Unlock(d, from, to) ==
  /\ Goto(d, from, to)
  /\ lock' = Absent
  /\ UNCHANGED <<clocks, seen, marker, state>>

\* The directory stays taken for five seconds, or cannot be made: the claim
\* throws, or the release is logged as failed.
LockGivenUp(d) ==
  /\ pc[d] \in {"locking", "relocking"}
  /\ Exit(d)
  /\ UNCHANGED <<clocks, seen, files, disk, mem>>

\* "Confirm no daemon is starting or stopping before removing this lock
\* directory."
OperatorRemovesLock ==
  /\ lock # Absent
  /\ \A d \in Daemon : pc[d] \notin Starting \cup Stopping
  /\ lock' = Absent
  /\ UNCHANGED <<pc, clocks, seen, marker, state>>

\* "If pid is not a running pi-web session daemon, remove the stale marker file."
OperatorRemovesMarker ==
  /\ marker \in Daemon
  /\ ~Up(marker)
  /\ \A d \in Daemon : pc[d] \notin Starting \cup Stopping
  /\ marker' = Absent
  /\ UNCHANGED <<pc, clocks, seen, lock, state>>

-----------------------------------------------------------------------------
(* isOwnershipRecordAlive *)

\* A live process has the pid; the start time, where known, tells whether it is
\* the one of the record.  Processes that are no daemons have pids too.
FoundAlive(e) == Up(e) \/ ~Precise

FoundDead(e) ==
  IF Precise THEN ~Up(e) ELSE \A f \in Daemon : Up(f) => pid[f] # pid[e]

-----------------------------------------------------------------------------
(* claimSessiondStateOwnership *)

ReadMarker(d) ==
  /\ Goto(d, "reading", "deciding")
  /\ seen' = [seen EXCEPT ![d] = marker]
  /\ UNCHANGED <<clocks, files, state>>

\* Reading, removing or creating the marker fails.
ClaimFails(d) ==
  /\ pc[d] \in {"reading", "removing", "creating", "writing"}
  /\ pc' = [pc EXCEPT ![d] = "leaving"]
  /\ UNCHANGED <<clocks, seen, files, state>>

Decide(d, to) ==
  /\ Goto(d, "deciding", to)
  /\ UNCHANGED <<clocks, seen, files, state>>

ClaimsUnowned(d) == seen[d] = Absent /\ Decide(d, "creating")

\* Mutant of WaitsForTornMarker: nobody ever discards one.
WaitsForTornMarkerForever(d) == seen[d] = Torn /\ Decide(d, "yielding")

WaitsForTornMarker(d) == seen[d] = Torn /\ ~late[d] /\ Decide(d, "yielding")

DiscardsTornMarker(d) == seen[d] = Torn /\ late[d] /\ Decide(d, "removing")

OtherAlive(d) == seen[d] \in Daemon /\ pid[seen[d]] # pid[d] /\ FoundAlive(seen[d])

WaitsForOwner(d) == OtherAlive(d) /\ ~late[d] /\ Decide(d, "yielding")

Conflicts(d) == OtherAlive(d) /\ late[d] /\ Decide(d, "leaving")

TakesOver(d) ==
  /\ seen[d] \in Daemon
  /\ pid[seen[d]] = pid[d] \/ FoundDead(seen[d])
  /\ Decide(d, "removing")

RemoveMarker(d) ==
  /\ Goto(d, "removing", "creating")
  /\ marker' = Absent
  /\ UNCHANGED <<clocks, seen, lock, state>>

\* The file is created exclusively; whoever finds one there starts over.
CreateMarker(d) ==
  /\ pc[d] = "creating"
  /\ IF marker = Absent
     THEN marker' = Torn /\ pc' = [pc EXCEPT ![d] = "writing"]
     ELSE marker' = marker /\ pc' = [pc EXCEPT ![d] = "yielding"]
  /\ UNCHANGED <<clocks, seen, lock, state>>

WriteMarker(d) ==
  /\ Goto(d, "writing", "claimed")
  /\ marker' = d
  /\ UNCHANGED <<clocks, seen, lock, state>>

-----------------------------------------------------------------------------
(* The daemon's work and its end *)

Loads(d) ==
  /\ Goto(d, "loading", "running")
  /\ mem' = [mem EXCEPT ![d] = disk]
  /\ UNCHANGED <<clocks, seen, files, disk, saving>>

\* createRuntime throws before there is anything to save.
LoadFails(d) ==
  /\ Goto(d, "loading", "relocking")
  /\ UNCHANGED <<clocks, seen, files, state>>

SaveBegins(d) ==
  /\ pc[d] \in {"running", "closing"}
  /\ ~saving[d]
  /\ mem[d] < MaxVersion
  /\ mem' = [mem EXCEPT ![d] = @ + 1]
  /\ saving' = [saving EXCEPT ![d] = TRUE]
  /\ UNCHANGED <<pc, clocks, seen, files, disk>>

SaveReturns(d) ==
  /\ Up(d)
  /\ saving[d]
  /\ disk' = mem[d]
  /\ saving' = [saving EXCEPT ![d] = FALSE]
  /\ UNCHANGED <<pc, clocks, seen, files, mem>>

SaveFails(d) ==
  /\ Up(d)
  /\ saving[d]
  /\ saving' = [saving EXCEPT ![d] = FALSE]
  /\ UNCHANGED <<pc, clocks, seen, files, disk, mem>>

\* A signal, or a startup that fails later on.
Shutdown(d) ==
  /\ Goto(d, "running", "closing")
  /\ UNCHANGED <<clocks, seen, files, state>>

\* Mutant of FlushReturns: ownership goes before the last save is over.
FlushReturnsTooEarly(d) ==
  /\ Goto(d, "closing", "relocking")
  /\ UNCHANGED <<clocks, seen, files, state>>

\* The last save is over, well or not, before ownership is released.
FlushReturns(d) ==
  /\ Goto(d, "closing", "relocking")
  /\ ~saving[d]
  /\ UNCHANGED <<clocks, seen, files, state>>

\* releaseOwnershipMarker
RereadMarker(d) ==
  /\ pc[d] = "rereading"
  /\ pc' = [pc EXCEPT ![d] = IF marker = d THEN "releasing" ELSE "leaving"]
  /\ UNCHANGED <<clocks, seen, files, state>>

ReleaseMarker(d) ==
  /\ Goto(d, "releasing", "leaving")
  /\ marker' = Absent
  /\ UNCHANGED <<clocks, seen, lock, state>>

ReleaseFails(d) ==
  /\ pc[d] \in {"rereading", "releasing"}
  /\ pc' = [pc EXCEPT ![d] = "leaving"]
  /\ UNCHANGED <<clocks, seen, files, state>>

\* The lock goes and the daemon exits.
Leaves(d) == Unlock(d, "leaving", "gone")

-----------------------------------------------------------------------------

Init ==
  /\ pc = [d \in Daemon |-> "unborn"]
  /\ pid = [d \in Daemon |-> CHOOSE p \in Pid : TRUE]
  /\ late = [d \in Daemon |-> FALSE]
  /\ seen = [d \in Daemon |-> Absent]
  /\ marker = Absent
  /\ lock = Absent
  /\ disk = 0
  /\ mem = [d \in Daemon |-> 0]
  /\ saving = [d \in Daemon |-> FALSE]

Claim(d) ==
  \/ Lock(d, "locking", "reading")
  \/ ReadMarker(d)
  \/ ClaimsUnowned(d)
  \/ WaitsForTornMarker(d) \/ DiscardsTornMarker(d)
  \/ WaitsForOwner(d) \/ Conflicts(d) \/ TakesOver(d)
  \/ Unlock(d, "yielding", "locking")
  \/ RemoveMarker(d) \/ CreateMarker(d) \/ WriteMarker(d)
  \/ Unlock(d, "claimed", "loading")

Release(d) ==
  \/ Lock(d, "relocking", "rereading")
  \/ RereadMarker(d)
  \/ ReleaseMarker(d)
  \/ Leaves(d)

Next ==
  \/ \E d \in Daemon :
       \/ \E p \in Pid : Spawn(d, p)
       \/ GraceEnds(d) \/ Crash(d) \/ LockGivenUp(d)
       \/ Claim(d) \/ ClaimFails(d)
       \/ Loads(d) \/ LoadFails(d)
       \/ SaveBegins(d) \/ SaveReturns(d) \/ SaveFails(d)
       \/ Shutdown(d) \/ FlushReturns(d)
       \/ Release(d) \/ ReleaseFails(d)
  \/ OperatorRemovesLock
  \/ OperatorRemovesMarker

Spec == Init /\ [][Next]_vars

-----------------------------------------------------------------------------
(* What the daemons promise *)

\* Every variable holds a value of its kind.
TypeOK ==
  /\ pc \in [Daemon -> Starting \cup Stopping \cup Working \cup {"unborn", "gone"}]
  /\ pid \in [Daemon -> Pid]
  /\ late \in [Daemon -> BOOLEAN]
  /\ seen \in [Daemon -> Daemon \cup {Absent, Torn}]
  /\ marker \in Daemon \cup {Absent, Torn}
  /\ lock \in Daemon \cup {Absent}
  /\ disk \in Nat
  /\ mem \in [Daemon -> Nat]
  /\ saving \in [Daemon -> BOOLEAN]
  /\ \A d \in Daemon : saving[d] => pc[d] \in {"running", "closing"}

\* "The only process allowed to own it while running": at most one daemon is
\* between the end of its claim and the removal of its marker, through crashes,
\* stale and torn markers, reused process ids and operators who clean up.
OneOwner ==
  \A d, e \in Daemon : pc[d] \in Serving /\ pc[e] \in Serving => d = e

\* The marker names the daemon that serves, so the next one finds it.
OwnerIsRecorded == \A d \in Daemon : pc[d] \in Serving => marker = d

\* "Stale markers never block startup": where start times can be read, a daemon
\* that refuses to start because of the marker does so for one that runs, even
\* if the process id in the marker has come again.
NeverBlockedByTheDead ==
  [][\A d \in Daemon : pc[d] = "deciding" /\ pc'[d] = "leaving" => Up(seen[d])]_vars

\* The owner whose state it is.
Owner ==
  IF \E d \in Daemon : pc[d] \in Serving
  THEN CHOOSE d \in Daemon : pc[d] \in Serving
  ELSE Absent

Authority == INSTANCE StateAuthority WITH Nobody <- Absent, owner <- Owner

\* "Two daemons sharing one data directory corrupt each other's state": one
\* writer at a time, and no save ever puts back an older state.
KeepsAuthority == Authority!Spec

Fairness ==
  \A d \in Daemon :
    /\ WF_vars(GraceEnds(d))
    /\ WF_vars(LockGivenUp(d))
    /\ WF_vars(Claim(d) \/ Release(d))
    /\ WF_vars(Loads(d) \/ LoadFails(d))
    /\ WF_vars(SaveReturns(d) \/ SaveFails(d))
    /\ WF_vars(FlushReturns(d))

FairSpec == Spec /\ Fairness

\* A daemon that starts serves or gives up, whatever it finds and whatever
\* others do meanwhile; one that stops is gone in the end.
StartsAndStopsEnd ==
  \A d \in Daemon :
    /\ pc[d] = "locking" ~> pc[d] \in {"running", "gone"}
    /\ pc[d] = "closing" ~> pc[d] = "gone"

=============================================================================
