------------------------------ MODULE HostProofs ------------------------------
(***************************************************************************)
(* The components of the host that MCHost composes, each for any instance: *)
(* one owner of the state at a time, with or without /proc; a workspace is *)
(* removed only while a request waits for it; the status of the machine    *)
(* catches up with its sources; dialogs do not outlive their runtimes; and *)
(* a parent is told once of each subsession.                               *)
(***************************************************************************)
EXTENDS DaemonOwnership, WorkspaceRemoval, MachineStatus, ExtensionDialogs, SubsessionDelivery,
        SequenceTheorems, TLAPS

-----------------------------------------------------------------------------
(* Ownership: where a daemon holds the lock *)

\* Where a daemon holds the lock directory.
Locked == {"reading", "deciding", "removing", "creating", "writing", "claimed", "yielding",
           "rereading", "releasing", "leaving"}

LockIsHeld == \A d \in Daemon : pc[d] \in Locked => lock = d

PidsDiffer == \A d, e \in Daemon : d # e /\ Up(d) /\ Up(e) => pid[d] # pid[e]

\* What was read under the lock still holds.
SeenIsMarker ==
  \A d \in Daemon : pc[d] \in {"deciding", "removing"} => seen[d] = marker

\* Whoever replaces a marker replaces that of no daemon that serves.
ReplacesNobody ==
  \A d \in Daemon :
    /\ pc[d] = "removing" => \A e \in Daemon : pc[e] \notin Serving
    /\ pc[d] = "creating" => marker = Absent
    /\ pc[d] = "writing" => marker = Torn

SavesAreNewer ==
  \A d \in Daemon :
    /\ pc[d] \in {"running", "closing"} => mem[d] >= disk
    /\ saving[d] => mem[d] > disk

OwnershipInv ==
  /\ TypeOK
  /\ LockIsHeld
  /\ PidsDiffer
  /\ OwnerIsRecorded
  /\ SeenIsMarker
  /\ ReplacesNobody
  /\ SavesAreNewer

-----------------------------------------------------------------------------

LEMMA OwnershipInitHolds == Init => OwnershipInv
BY MarkerAssumption, PidAssumption
   DEF Init, OwnershipInv, TypeOK, LockIsHeld, PidsDiffer, OwnerIsRecorded, SeenIsMarker, ReplacesNobody,
       SavesAreNewer, Up, Locked, Serving, Working, Starting, Stopping

LEMMA OwnershipNextHolds == OwnershipInv /\ [Next]_vars => OwnershipInv'
<1> SUFFICES ASSUME OwnershipInv, [Next]_vars PROVE OwnershipInv'
  OBVIOUS
<1> USE MarkerAssumption
        DEF OwnershipInv, TypeOK, LockIsHeld, PidsDiffer, OwnerIsRecorded, SeenIsMarker, ReplacesNobody,
            SavesAreNewer, Up, Locked, Serving, Working, Starting, Stopping, Goto, files, state,
            clocks
<1>1. ASSUME NEW d \in Daemon, NEW p \in Pid, Spawn(d, p) PROVE OwnershipInv'
  BY <1>1 DEF Spawn
<1>2. ASSUME NEW d \in Daemon, GraceEnds(d) PROVE OwnershipInv'
  BY <1>2 DEF GraceEnds
<1>3. ASSUME NEW d \in Daemon, Crash(d) PROVE OwnershipInv'
  BY <1>3 DEF Crash, Exit
<1>4. ASSUME NEW d \in Daemon, LockGivenUp(d) PROVE OwnershipInv'
  BY <1>4 DEF LockGivenUp, Exit
<1>5. ASSUME NEW d \in Daemon, Lock(d, "locking", "reading") PROVE OwnershipInv'
  BY <1>5 DEF Lock
<1>6. ASSUME NEW d \in Daemon, ReadMarker(d) PROVE OwnershipInv'
  BY <1>6 DEF ReadMarker
<1>7. ASSUME NEW d \in Daemon, ClaimFails(d) PROVE OwnershipInv'
  BY <1>7 DEF ClaimFails
<1>8. ASSUME NEW d \in Daemon, ClaimsUnowned(d) PROVE OwnershipInv'
  BY <1>8 DEF ClaimsUnowned, Decide
<1>9. ASSUME NEW d \in Daemon, WaitsForTornMarker(d) PROVE OwnershipInv'
  BY <1>9 DEF WaitsForTornMarker, Decide
<1>10. ASSUME NEW d \in Daemon, DiscardsTornMarker(d) PROVE OwnershipInv'
  BY <1>10 DEF DiscardsTornMarker, Decide
<1>11. ASSUME NEW d \in Daemon, WaitsForOwner(d) PROVE OwnershipInv'
  BY <1>11 DEF WaitsForOwner, Decide
<1>12. ASSUME NEW d \in Daemon, Conflicts(d) PROVE OwnershipInv'
  BY <1>12 DEF Conflicts, Decide
<1>13. ASSUME NEW d \in Daemon, TakesOver(d) PROVE OwnershipInv'
  BY <1>13 DEF TakesOver, Decide, FoundDead
<1>14. ASSUME NEW d \in Daemon, Unlock(d, "yielding", "locking") PROVE OwnershipInv'
  BY <1>14 DEF Unlock
<1>15. ASSUME NEW d \in Daemon, RemoveMarker(d) PROVE OwnershipInv'
  BY <1>15 DEF RemoveMarker
<1>16. ASSUME NEW d \in Daemon, CreateMarker(d) PROVE OwnershipInv'
  BY <1>16 DEF CreateMarker
<1>17. ASSUME NEW d \in Daemon, WriteMarker(d) PROVE OwnershipInv'
  BY <1>17 DEF WriteMarker
<1>18. ASSUME NEW d \in Daemon, Unlock(d, "claimed", "loading") PROVE OwnershipInv'
  BY <1>18 DEF Unlock
<1>19. ASSUME NEW d \in Daemon, Loads(d) PROVE OwnershipInv'
  BY <1>19 DEF Loads
<1>20. ASSUME NEW d \in Daemon, LoadFails(d) PROVE OwnershipInv'
  BY <1>20 DEF LoadFails
<1>21. ASSUME NEW d \in Daemon, SaveBegins(d) PROVE OwnershipInv'
  BY <1>21 DEF SaveBegins
<1>22. ASSUME NEW d \in Daemon, SaveReturns(d) PROVE OwnershipInv'
  BY <1>22 DEF SaveReturns
<1>23. ASSUME NEW d \in Daemon, SaveFails(d) PROVE OwnershipInv'
  BY <1>23 DEF SaveFails
<1>24. ASSUME NEW d \in Daemon, Shutdown(d) PROVE OwnershipInv'
  BY <1>24 DEF Shutdown
<1>25. ASSUME NEW d \in Daemon, FlushReturns(d) PROVE OwnershipInv'
  BY <1>25 DEF FlushReturns
<1>26. ASSUME NEW d \in Daemon, Lock(d, "relocking", "rereading") PROVE OwnershipInv'
  BY <1>26 DEF Lock
<1>27. ASSUME NEW d \in Daemon, RereadMarker(d) PROVE OwnershipInv'
  BY <1>27 DEF RereadMarker
<1>28. ASSUME NEW d \in Daemon, ReleaseMarker(d) PROVE OwnershipInv'
  BY <1>28 DEF ReleaseMarker
<1>29. ASSUME NEW d \in Daemon, Leaves(d) PROVE OwnershipInv'
  BY <1>29 DEF Leaves, Unlock
<1>30. ASSUME NEW d \in Daemon, ReleaseFails(d) PROVE OwnershipInv'
  BY <1>30 DEF ReleaseFails
<1>31. CASE OperatorRemovesLock
  BY <1>31 DEF OperatorRemovesLock
<1>32. CASE OperatorRemovesMarker
  BY <1>32 DEF OperatorRemovesMarker
<1>33. CASE UNCHANGED vars
  BY <1>33 DEF vars
<1> QED
  BY <1>1, <1>2, <1>3, <1>4, <1>5, <1>6, <1>7, <1>8, <1>9, <1>10, <1>11, <1>12, <1>13, <1>14, <1>15, <1>16, <1>17, <1>18, <1>19, <1>20, <1>21, <1>22, <1>23, <1>24, <1>25, <1>26, <1>27, <1>28, <1>29, <1>30, <1>31, <1>32, <1>33 DEF Next, Claim, Release

\* Who serves is the owner, as the abstract specification has it.
LEMMA OwnerServes ==
  ASSUME OwnershipInv
  PROVE  /\ \A d \in Daemon : pc[d] \in Serving => Owner = d
         /\ (\A d \in Daemon : pc[d] \notin Serving) => Owner = Absent
BY DEF OwnershipInv, OwnerIsRecorded, Owner

-----------------------------------------------------------------------------

THEOREM OwnershipHolds == Spec => []OwnershipInv
BY OwnershipInitHolds, OwnershipNextHolds, PTL DEF Spec

\* Type correctness of the claim, the release and the saves between them.
THEOREM OwnershipTypeCorrect == Spec => []TypeOK
<1>1. OwnershipInv => TypeOK
  BY DEF OwnershipInv
<1> QED
  BY <1>1, OwnershipHolds, PTL

\* The marker names the daemon that serves (writeFile in
\* claimSessiondStateOwnership to rm in releaseOwnershipMarker).
THEOREM TheOwnerIsRecorded == Spec => []OwnerIsRecorded
<1>1. OwnershipInv => OwnerIsRecorded
  BY DEF OwnershipInv
<1> QED
  BY <1>1, OwnershipHolds, PTL

\* No two daemons own the data directory at a time
\* (claimSessiondStateOwnership).
THEOREM AtMostOneOwner == Spec => []OneOwner
<1>1. OwnershipInv => OneOwner
  BY DEF OwnershipInv, OwnerIsRecorded, OneOwner
<1> QED
  BY <1>1, OwnershipHolds, PTL

\* With /proc start times a stale marker never makes a claim fail
\* (isOwnershipRecordAlive).
THEOREM TheDeadDoNotBlock ==
  ASSUME Precise
  PROVE  Spec => NeverBlockedByTheDead
<1>1. ASSUME OwnershipInv, [Next]_vars, NEW d \in Daemon,
             pc[d] = "deciding", pc'[d] = "leaving"
      PROVE  Up(seen[d])
  <2>1. CASE Conflicts(d)
    BY <2>1, <1>1 DEF Conflicts, OtherAlive, FoundAlive
  <2>2. CASE ~Conflicts(d)
    <3>1. pc'[d] # pc[d]
      BY <1>1
    <3> QED
      BY <1>1, <2>2, <3>1
         DEF OwnershipInv, TypeOK, vars, Next, Claim, Release, Spawn, GraceEnds, Crash, LockGivenUp, Exit,
             Lock, Unlock, Goto, ReadMarker, ClaimFails, ClaimsUnowned, WaitsForTornMarker,
             DiscardsTornMarker, WaitsForOwner, Conflicts, TakesOver, Decide, RemoveMarker,
             CreateMarker, WriteMarker, Loads, LoadFails, SaveBegins, SaveReturns, SaveFails,
             Shutdown, FlushReturns, RereadMarker, ReleaseMarker, ReleaseFails, Leaves,
             OperatorRemovesLock, OperatorRemovesMarker
  <2> QED
    BY <2>1, <2>2
<1>2. ASSUME OwnershipInv, [Next]_vars
      PROVE  [\A d \in Daemon : pc[d] = "deciding" /\ pc'[d] = "leaving" => Up(seen[d])]_vars
  BY <1>1, <1>2
<1> QED
  BY <1>2, OwnershipHolds, PTL DEF Spec, NeverBlockedByTheDead

-----------------------------------------------------------------------------
(* The daemons keep the promises of StateAuthority *)

LEMMA InitImplements == Init => Authority!Init
BY DEF Init, Authority!Init, Owner, Serving, Working

\* Before and after a step, the owner is known from who serves.
LEMMA OwnerThroughStep ==
  ASSUME OwnershipInv, OwnershipInv'
  PROVE  /\ \A d \in Daemon : pc[d] \in Serving => Owner = d
         /\ (\A d \in Daemon : pc[d] \notin Serving) => Owner = Absent
         /\ \A d \in Daemon : pc'[d] \in Serving => Owner' = d
         /\ (\A d \in Daemon : pc'[d] \notin Serving) => Owner' = Absent
         /\ Owner \in Daemon \cup {Absent}
<1>1. /\ \A d \in Daemon : pc'[d] \in Serving => Owner' = d
      /\ (\A d \in Daemon : pc'[d] \notin Serving) => Owner' = Absent
  BY DEF OwnershipInv, OwnerIsRecorded, Owner, Serving, Working
<1> QED
  BY <1>1, OwnerServes

\* Only the daemon that serves changes who serves, if any does, and only a claim
\* that ends makes one serve: the rest is who saves.
LEMMA StepImplements ==
  ASSUME OwnershipInv, OwnershipInv', [Next]_vars
  PROVE  [Authority!Next]_(Authority!authority)
<1> USE MarkerAssumption
<1>o. /\ \A d \in Daemon : pc[d] \in Serving => Owner = d
      /\ (\A d \in Daemon : pc[d] \notin Serving) => Owner = Absent
      /\ \A d \in Daemon : pc'[d] \in Serving => Owner' = d
      /\ (\A d \in Daemon : pc'[d] \notin Serving) => Owner' = Absent
      /\ Owner \in Daemon \cup {Absent}
  BY OwnerThroughStep
<1>k. ASSUME \A d \in Daemon : pc[d] \in Serving <=> pc'[d] \in Serving, disk' = disk
      PROVE  UNCHANGED Authority!authority
  <2>1. CASE \E d \in Daemon : pc[d] \in Serving
    BY <2>1, <1>k, <1>o DEF Authority!authority
  <2>2. CASE \A d \in Daemon : pc[d] \notin Serving
    BY <2>2, <1>k, <1>o DEF Authority!authority
  <2> QED
    BY <2>1, <2>2
<1>e. ASSUME NEW d \in Daemon, pc[d] \in Serving, pc'[d] \notin Serving, disk' = disk,
             \A e \in Daemon \ {d} : pc'[e] = pc[e]
      PROVE  Authority!Leave
  <2>1. \A e \in Daemon : pc'[e] \notin Serving
    BY <1>e, <1>o
  <2> QED
    BY <2>1, <1>e, <1>o DEF Authority!Leave
<1>m. ASSUME NEW d \in Daemon, disk' = disk, \A e \in Daemon \ {d} : pc'[e] = pc[e],
             pc'[d] \in Serving => pc[d] \in Serving
      PROVE  [Authority!Next]_(Authority!authority)
  BY <1>m, <1>k, <1>e DEF Authority!Next
<1>1. ASSUME NEW d \in Daemon, WriteMarker(d)
      PROVE  Authority!Take
  <2>1. pc[d] = "writing" /\ marker = Torn
    BY <1>1 DEF WriteMarker, Goto, OwnershipInv, ReplacesNobody
  <2>2. \A e \in Daemon : pc[e] \notin Serving
    BY <2>1 DEF OwnershipInv, OwnerIsRecorded
  <2>3. pc'[d] = "claimed" /\ disk' = disk
    BY <1>1 DEF WriteMarker, Goto, OwnershipInv, TypeOK, state
  <2> QED
    BY <2>2, <2>3, <1>o DEF Authority!Take, Serving
<1>2. ASSUME NEW d \in Daemon, SaveReturns(d)
      PROVE  Authority!Write
  <2>1. pc[d] \in Serving /\ pc' = pc /\ disk' = mem[d] /\ mem[d] > disk /\ mem[d] \in Nat
    BY <1>2 DEF SaveReturns, OwnershipInv, TypeOK, SavesAreNewer, Serving, Working
  <2> QED
    BY <2>1, <1>o DEF Authority!Write
<1>3. CASE OperatorRemovesLock \/ OperatorRemovesMarker \/ UNCHANGED vars
  BY <1>3, <1>k DEF OperatorRemovesLock, OperatorRemovesMarker, vars, state
<1>4. ASSUME NEW d \in Daemon,
             \/ \E p \in Pid : Spawn(d, p)
             \/ GraceEnds(d) \/ Crash(d) \/ LockGivenUp(d)
             \/ Claim(d) /\ ~WriteMarker(d)
             \/ ClaimFails(d)
             \/ Loads(d) \/ LoadFails(d)
             \/ SaveBegins(d) \/ SaveFails(d)
             \/ Shutdown(d) \/ FlushReturns(d)
             \/ Release(d) \/ ReleaseFails(d)
      PROVE  [Authority!Next]_(Authority!authority)
  <2>1. /\ disk' = disk
        /\ \A e \in Daemon \ {d} : pc'[e] = pc[e]
        /\ pc'[d] \in Serving => pc[d] \in Serving
    BY <1>4
       DEF OwnershipInv, TypeOK, Claim, Release, Spawn, GraceEnds, Crash, LockGivenUp, Exit,
           Lock, Unlock, Goto, ReadMarker, ClaimFails, ClaimsUnowned, WaitsForTornMarker,
           DiscardsTornMarker, WaitsForOwner, Conflicts, TakesOver, Decide, RemoveMarker,
           CreateMarker, Loads, LoadFails, SaveBegins, SaveFails,
           Shutdown, FlushReturns, RereadMarker, ReleaseMarker, ReleaseFails, Leaves,
           Serving, Working, Starting, Stopping, state
  <2> QED
    BY <2>1, <1>m
<1> QED
  BY <1>1, <1>2, <1>3, <1>4 DEF Next, Claim, Authority!Next

\* One writer at a time, and no save puts back an older state
\* (claimSessiondStateOwnership, runSessionDaemonShutdown).
THEOREM KeepsTheAuthority == Spec => KeepsAuthority
<1>1. OwnershipInv /\ OwnershipInv' /\ [Next]_vars => [Authority!Next]_(Authority!authority)
  BY StepImplements
<1> QED
  BY InitImplements, <1>1, OwnershipHolds, PTL DEF Spec, KeepsAuthority, Authority!Spec

-----------------------------------------------------------------------------
(* Removal: what is so of flights and of those that wait for them *)

\* The flight of an operation that was not told to stop is the current one, is undecided, and
\* somebody waits for it.
UnabortedIsWanted ==
  \A f \in Flight : (step[f] # "ended" /\ ~aborted[f]) =>
    outcome[f] = "open" /\ flights = f /\ Waiters(f) # {} /\ ~shutdown

\* Whoever waits, waits for a flight that is current.
WaitsAreForTheCurrent == \A r \in Requester : waitsFor[r] \in {flights, NoFlight}

RemovalInv == RemovalTypeOK /\ UnabortedIsWanted /\ WaitsAreForTheCurrent

LEMMA RemovalInitHolds == RemovalInit => RemovalInv
BY DEF RemovalInit, RemovalInv, RemovalTypeOK, UnabortedIsWanted, WaitsAreForTheCurrent

LEMMA RemovalNextHolds == RemovalInv /\ [RemovalNext]_removalVars => RemovalInv'
<1> SUFFICES ASSUME RemovalInv, [RemovalNext]_removalVars PROVE RemovalInv'
  OBVIOUS
<1> USE NoFlightAssumption
        DEF RemovalInv, RemovalTypeOK, UnabortedIsWanted, WaitsAreForTheCurrent, Waiters, flightVars
<1>1. ASSUME NEW r \in Requester, NEW p \in Confirmation, JoinFlight(r, p) PROVE RemovalInv'
  BY <1>1 DEF JoinFlight
<1>2. ASSUME NEW r \in Requester, NEW p \in Confirmation, NEW f \in Flight, StartFlight(r, p, f)
      PROVE  RemovalInv'
  BY <1>2 DEF StartFlight, Free
<1>3. ASSUME NEW r \in Requester, Leave(r) PROVE RemovalInv'
  BY <1>3 DEF Leave, Decided
<1>4. ASSUME NEW f \in Flight, Throw(f) PROVE RemovalInv'
  BY <1>4 DEF Throw, Decided
<1>5. ASSUME NEW f \in Flight, Resolve(f) PROVE RemovalInv'
  BY <1>5 DEF Resolve
<1>6. ASSUME NEW f \in Flight, Prepare(f) PROVE RemovalInv'
  BY <1>6 DEF Prepare
<1>7. ASSUME NEW f \in Flight, RemoveWorkspace(f) PROVE RemovalInv'
  BY <1>7 DEF RemoveWorkspace
<1>8. ASSUME NEW f \in Flight, Deadline(f) PROVE RemovalInv'
  BY <1>8 DEF Deadline
<1>9. ASSUME NEW f \in Flight, Settle(f) PROVE RemovalInv'
  BY <1>9 DEF Settle
<1>10. CASE CloseAll
  BY <1>10 DEF CloseAll, Decided
<1>11. ASSUME NEW p \in Confirmation, Reshape(p) PROVE RemovalInv'
  BY <1>11 DEF Reshape
<1>12. CASE UNCHANGED removalVars
  BY <1>12 DEF removalVars
<1> QED
  BY <1>1, <1>2, <1>3, <1>4, <1>5, <1>6, <1>7, <1>8, <1>9, <1>10, <1>11, <1>12 DEF RemovalNext

LEMMA RemovalInvHolds == RemovalSpec => []RemovalInv
BY RemovalInitHolds, RemovalNextHolds, PTL DEF RemovalSpec

-----------------------------------------------------------------------------

\* Every variable holds a value of its kind.
THEOREM RemovalTypeCorrect == RemovalSpec => []RemovalTypeOK
<1>1. RemovalInv => RemovalTypeOK
  BY DEF RemovalInv
<1> QED BY <1>1, RemovalInvHolds, PTL

\* What one step of the program may remove.
WantedStep ==
  \A f \in Flight : (outcome[f] # "run" /\ outcome'[f] = "run") =>
    /\ outcome[f] = "open" /\ ~shutdown
    /\ \E r \in Requester : waitsFor[r] = f

LEMMA StepsRemoveWhatIsAsked == RemovalInv /\ [RemovalNext]_removalVars => WantedStep
<1> SUFFICES ASSUME RemovalInv, [RemovalNext]_removalVars,
                    NEW f \in Flight, outcome[f] # "run", outcome'[f] = "run"
             PROVE  outcome[f] = "open" /\ ~shutdown /\ \E r \in Requester : waitsFor[r] = f
  BY DEF WantedStep
<1>1. outcome \in [Flight -> {"open", "run", "failed"}]
  BY DEF RemovalInv, RemovalTypeOK
<1>2. RemoveWorkspace(f)
  BY <1>1 DEF RemovalNext, JoinFlight, StartFlight, Leave, Throw, Resolve, Prepare, RemoveWorkspace,
              Deadline, Settle, CloseAll, Reshape, Decided, flightVars, removalVars
<1>3. step[f] # "ended" /\ ~aborted[f]
  BY <1>2 DEF RemoveWorkspace
<1> QED BY <1>3 DEF RemovalInv, UnabortedIsWanted, Waiters

\* Terminals are closed and the command is run only for a request that still waits.
THEOREM OnlyWhatIsAskedIsRemoved == RemovalSpec => RemovesOnlyWhatIsAsked
<1>1. RemovalInv /\ [RemovalNext]_removalVars => [WantedStep]_removalVars
  BY StepsRemoveWhatIsAsked
<1>2. RemovalSpec => [][WantedStep]_removalVars
  BY <1>1, RemovalInvHolds, PTL DEF RemovalSpec
<1> QED BY <1>2 DEF RemovesOnlyWhatIsAsked, WantedStep

-----------------------------------------------------------------------------
(* Status: what was read, and what was kept of it *)

\* Between notifications nothing asks for a pass, and what attribution kept is no older than
\* the last change that was notified.
KeptIsCurrent ==
  /\ pass = "none" => ~pending
  /\ (cached /\ "place" \notin untold) => topology \in {Loading, Nowhere, source.place}

\* A pass that is not to be repeated has read what is so, except for changes still untold.
ReadIsCurrent ==
  (pass # "none" /\ ~pending) =>
    /\ "active" \notin untold => read.active = source.active
    /\ pass = "placing" =>
         /\ "unread" \notin untold => read.unread = source.unread
         /\ ("place" \notin untold /\ (read.active \/ read.unread)) =>
              topology \in {Loading, Nowhere, source.place}

StatusInv == StatusTypeOK /\ KeptIsCurrent /\ ReadIsCurrent /\ StatusCatchesUp

LEMMA StatusInitHolds == StatusInit => StatusInv
<1> SUFFICES ASSUME StatusInit PROVE StatusInv
  OBVIOUS
<1>1. StatusTypeOK
  BY DEF StatusInit, StatusTypeOK, Kinds
<1>2. KeptIsCurrent /\ ReadIsCurrent
  BY DEF StatusInit, KeptIsCurrent, ReadIsCurrent
<1>3. untold # {}
  BY DEF StatusInit, Kinds
<1> QED BY <1>1, <1>2, <1>3 DEF StatusInv, StatusCatchesUp

LEMMA StatusNextHolds == StatusInv /\ [StatusNext]_statusVars => StatusInv'
<1> SUFFICES ASSUME StatusInv, [StatusNext]_statusVars PROVE StatusInv'
  OBVIOUS
<1> USE NoPlaceAssumption
        DEF StatusInv, StatusTypeOK, KeptIsCurrent, ReadIsCurrent, StatusCatchesUp, Kinds
<1>1. ASSUME NEW k \in Kinds, Change(k) PROVE StatusInv'
  BY <1>1 DEF Change, Value
<1>2. ASSUME NEW k \in Kinds, Notify(k) PROVE StatusInv'
  <2>1. /\ cached' \in BOOLEAN
        /\ cached' => cached /\ k # "place"
    BY <1>2, Zenon DEF Notify
  <2>2. CASE pass = "none"
    <3>1. /\ pass' = "unread" /\ pending' = FALSE
          /\ read' = [active |-> source.active, unread |-> FALSE]
      BY <1>2, <2>2, Zenon DEF Notify, Begins
    <3>2. read'.active = source.active /\ read' \in [active : BOOLEAN, unread : BOOLEAN]
      BY <3>1
    <3> QED BY <1>2, <2>1, <3>1, <3>2 DEF Notify
  <2>3. CASE pass # "none"
    <3>1. pending' = TRUE /\ pass' = pass /\ read' = read
      BY <1>2, <2>3, Zenon DEF Notify
    <3> QED BY <1>2, <2>1, <2>3, <3>1 DEF Notify
  <2> QED BY <2>2, <2>3
<1>3. CASE ReadUnread
  BY <1>3 DEF ReadUnread, Current, Tree
<1>4. CASE Load
  BY <1>4 DEF Load, Current, Tree
<1>5. CASE Expire
  BY <1>5 DEF Expire, Current, Tree
<1>6. CASE Publish
  <2> USE <1>6 DEF Publish, Again, Begins
  <2>1. StatusTypeOK'
    <3>1. failed' \in BOOLEAN /\ pending' \in BOOLEAN
      BY ZenonT(30)
    <3>2. pass' \in {"none", "unread", "placing"}
      OBVIOUS
    <3>3. read' \in [active : BOOLEAN, unread : BOOLEAN]
      <4>1. CASE pending
        <5>1. read' = [active |-> source.active, unread |-> FALSE]
          BY <4>1
        <5>2. source.active \in BOOLEAN
          OBVIOUS
        <5> QED BY <5>1, <5>2, Zenon
      <4>2. CASE ~pending
        BY <4>2
      <4> QED BY <4>1, <4>2
    <3> QED BY <3>1, <3>2, <3>3
  <2>2. KeptIsCurrent' /\ ReadIsCurrent'
    OBVIOUS
  <2>3. StatusCatchesUp'
    <3> SUFFICES ASSUME ~pending, untold = {}, ~failed' PROVE published' = Current
      BY <2>1 DEF Current, Tree
    <3>1. read.active = source.active /\ read.unread = source.unread
      OBVIOUS
    <3>2. (read.active \/ read.unread) => topology = source.place
      OBVIOUS
    <3> QED BY <3>1, <3>2 DEF Current, Tree
  <2> QED BY <2>1, <2>2, <2>3
<1>7. CASE FailPass
  <2> USE <1>7 DEF FailPass, Again, Begins
  <2>1. StatusTypeOK'
    <3>1. failed' \in BOOLEAN /\ pending' \in BOOLEAN
      BY ZenonT(30)
    <3>2. pass' \in {"none", "unread", "placing"}
      OBVIOUS
    <3>3. read' \in [active : BOOLEAN, unread : BOOLEAN]
      <4>1. CASE pending
        <5>1. read' = [active |-> source.active, unread |-> FALSE]
          BY <4>1
        <5>2. source.active \in BOOLEAN
          OBVIOUS
        <5> QED BY <5>1, <5>2, Zenon
      <4>2. CASE ~pending
        BY <4>2
      <4> QED BY <4>1, <4>2
    <3> QED BY <3>1, <3>2, <3>3
  <2>2. KeptIsCurrent' /\ ReadIsCurrent' /\ StatusCatchesUp'
    OBVIOUS
  <2> QED BY <2>1, <2>2
<1>8. CASE UNCHANGED statusVars
  BY <1>8 DEF statusVars, Current, Tree
<1> QED
  BY <1>1, <1>2, <1>3, <1>4, <1>5, <1>6, <1>7, <1>8 DEF StatusNext

LEMMA StatusInvHolds == StatusSpec => []StatusInv
BY StatusInitHolds, StatusNextHolds, PTL DEF StatusSpec

-----------------------------------------------------------------------------

\* Every variable holds a value of its kind.
THEOREM StatusTypeCorrect == StatusSpec => []StatusTypeOK
<1>1. StatusInv => StatusTypeOK
  BY DEF StatusInv
<1> QED BY <1>1, StatusInvHolds, PTL

\* When every change was notified and no pass runs, browsers see what is so.
THEOREM TheStatusCatchesUp == StatusSpec => []StatusCatchesUp
<1>1. StatusInv => StatusCatchesUp
  BY DEF StatusInv
<1> QED BY <1>1, StatusInvHolds, PTL

-----------------------------------------------------------------------------
(* Dialogs: who asks *)

\* A dialog that was not opened too late belongs to a runtime that nobody closes yet: that is
\* why nothing is left to settle when a runtime is gone.
AskersArePresent == \A d \in open \ latecomers : phase[asker[d]] \in {"starting", "live"}

DialogsInv == DialogsTypeOK /\ DialogsPairUp /\ AskersArePresent

LEMMA DialogsInitHolds == DialogsInit => DialogsInv
BY RuntimeAssumption DEF DialogsInit, DialogsInv, DialogsTypeOK, DialogsPairUp, AskersArePresent

LEMMA DialogsNextHolds == DialogsInv /\ [DialogsNext]_dialogVars => DialogsInv'
<1> SUFFICES ASSUME DialogsInv, [DialogsNext]_dialogVars PROVE DialogsInv'
  OBVIOUS
<1> USE DEF DialogsInv, DialogsTypeOK, DialogsPairUp, AskersArePresent
<1>1. ASSUME NEW d \in Dialog, AnswerDialog(d) PROVE DialogsInv'
  BY <1>1 DEF AnswerDialog
<1>2. ASSUME NEW d \in Dialog, CancelDialog(d) PROVE DialogsInv'
  BY <1>2 DEF CancelDialog, CloseAllOf
<1>3. ASSUME NEW d \in Dialog, NEW r \in Runtime, OpenDialog(r, d) PROVE DialogsInv'
  BY <1>3 DEF OpenDialog
<1>4. ASSUME NEW r \in Runtime, RunStarts(r) PROVE DialogsInv'
  BY <1>4 DEF RunStarts
<1>5. ASSUME NEW r \in Runtime, AbortRun(r) PROVE DialogsInv'
  BY <1>5 DEF AbortRun, CloseAllOf
<1>6. ASSUME NEW r \in Runtime, RunEnds(r) PROVE DialogsInv'
  BY <1>6 DEF RunEnds, CloseAllOf
<1>7. ASSUME NEW r \in Runtime, StartRuntime(r) PROVE DialogsInv'
  BY <1>7 DEF StartRuntime
<1>8. ASSUME NEW r \in Runtime, RuntimeStarted(r) PROVE DialogsInv'
  BY <1>8 DEF RuntimeStarted
<1>9. ASSUME NEW r \in Runtime, CloseStarting(r) PROVE DialogsInv'
  BY <1>9 DEF CloseStarting, EndSessionDialogs, CloseAllOf
<1>10. ASSUME NEW r \in Runtime, CloseRuntime(r) PROVE DialogsInv'
  BY <1>10 DEF CloseRuntime, EndSessionDialogs, CloseAllOf
<1>11. ASSUME NEW r \in Runtime, DisposeRuntime(r) PROVE DialogsInv'
  BY <1>11 DEF DisposeRuntime
<1>12. ASSUME NEW r \in Runtime, NEW q \in Runtime, ReplaceRuntime(r, q) PROVE DialogsInv'
  BY <1>12 DEF ReplaceRuntime, EndSessionDialogs, CloseAllOf
<1>13. CASE UNCHANGED dialogVars
  BY <1>13 DEF dialogVars
<1> QED
  BY <1>1, <1>2, <1>3, <1>4, <1>5, <1>6, <1>7, <1>8, <1>9, <1>10, <1>11, <1>12, <1>13
     DEF DialogsNext

LEMMA DialogsInvHolds == DialogsSpec => []DialogsInv
BY DialogsInitHolds, DialogsNextHolds, PTL DEF DialogsSpec

-----------------------------------------------------------------------------

\* Every variable holds a value of its kind.
THEOREM DialogsTypeCorrect == DialogsSpec => []DialogsTypeOK
<1>1. DialogsInv => DialogsTypeOK
  BY DEF DialogsInv
<1> QED BY <1>1, DialogsInvHolds, PTL

\* For any runtimes and dialogs: every open record has exactly one parked wait, and no code
\* of a runtime that is gone is parked on a dialog opened before it was closed.
THEOREM DialogsEnd == DialogsSpec => []DialogsEndWell
<1>1. DialogsInv => DialogsPairUp
  BY DEF DialogsInv
<1>2. DialogsInv => TeardownSettlesDialogs
  BY DEF DialogsInv, DialogsTypeOK, DialogsPairUp, AskersArePresent, TeardownSettlesDialogs
<1>3. DialogsInv => DialogsEndWell
  BY <1>1, <1>2 DEF DialogsEndWell
<1> QED BY <1>3, DialogsInvHolds, PTL

-----------------------------------------------------------------------------
(* Subsessions: what a longer branch has received *)

EntryKind == [kind : {"notice", "receipt", "result"}, ids : SUBSET Completion]

\* What an entry that is appended adds to what the branch has received.
LEMMA ReceivedOnLonger ==
  ASSUME NEW b \in Seq(EntryKind), NEW kind \in {"notice", "receipt", "result"},
         NEW S \in SUBSET Completion
  PROVE  LET longer == Append(b, Entry(kind, S)) IN
         /\ longer \in Seq(EntryKind)
         /\ kind = "notice" => ReceivedOn(longer) = ReceivedOn(b) \cup S
         /\ kind = "receipt" => ReceivedOn(longer) = ReceivedOn(b)
         /\ kind = "result" => ReceivedOn(longer) \subseteq ReceivedOn(b) \cup S
<1> DEFINE e == Entry(kind, S)
           longer == Append(b, e)
           n == Len(b)
<1>1. e \in EntryKind /\ e.kind = kind /\ e.ids = S /\ (e = Entry("result", S) <=> kind = "result")
  BY DEF Entry, EntryKind
<1> HIDE DEF e
<1>2. longer \in Seq(EntryKind) /\ Len(longer) = n + 1 /\ n \in Nat
      /\ longer[n + 1] = e /\ \A i \in 1..n : longer[i] = b[i]
  BY <1>1
<1> HIDE DEF longer
<1>3. DOMAIN b = 1..n /\ DOMAIN longer = 1..(n + 1)
  BY <1>2
<1>4. Counts(longer, n + 1) <=> kind = "notice"
  BY <1>1, <1>2 DEF Counts
<1>5. ASSUME NEW i \in 1..n
      PROVE  /\ Counts(b, i) => Counts(longer, i)
             /\ Counts(longer, i) => (Counts(b, i) \/ (kind = "result" /\ b[i].ids = S))
  <2>1. longer[i] = b[i] /\ i \in Nat /\ 1 <= i /\ i <= n
    BY <1>2
  <2>2. ASSUME NEW j \in (i + 1)..n PROVE j \in (i + 1)..(n + 1) /\ longer[j] = b[j]
    BY <1>2, <2>1
  <2>3. ASSUME NEW j \in (i + 1)..(n + 1)
        PROVE  j = n + 1 \/ (j \in (i + 1)..n /\ longer[j] = b[j])
    <3>1. j = n + 1 \/ (j \in (i + 1)..n /\ j \in 1..n)
      BY <1>2, <2>1
    <3> QED BY <1>2, <3>1
  <2>4. Counts(b, i) => Counts(longer, i)
    BY <1>2, <2>1, <2>2 DEF Counts
  <2>5. SUFFICES ASSUME Counts(longer, i), ~Counts(b, i) PROVE kind = "result" /\ b[i].ids = S
    BY <2>4
  <2>6. kind = "result" /\ b[i].ids = S
    <3>1. PICK j \in (i + 1)..(n + 1) : longer[j] = Entry("result", b[i].ids)
      BY <1>2, <2>1, <2>5 DEF Counts
    <3>2. j = n + 1
      BY <2>1, <2>3, <2>5, <3>1 DEF Counts
    <3>3. e.kind = "result" /\ e.ids = b[i].ids
      BY <1>2, <3>1, <3>2 DEF Entry
    <3> QED BY <1>1, <3>3
  <2> QED BY <2>6
<1>6. ReceivedOn(b) \subseteq ReceivedOn(longer)
  BY <1>2, <1>3, <1>5 DEF ReceivedOn
<1>7. ReceivedOn(longer) \subseteq ReceivedOn(b) \cup (IF kind = "receipt" THEN {} ELSE S)
  <2> SUFFICES ASSUME NEW i \in 1..(n + 1), Counts(longer, i), NEW c \in longer[i].ids
               PROVE  c \in ReceivedOn(b) \cup (IF kind = "receipt" THEN {} ELSE S)
    BY <1>3 DEF ReceivedOn
  <2>1. CASE i = n + 1
    BY <1>1, <1>2, <1>4, <2>1
  <2>2. CASE i # n + 1
    <3>1. i \in 1..n
      BY <1>2, <2>2
    <3>2. longer[i] = b[i]
      BY <1>2, <3>1
    <3>3. CASE Counts(b, i)
      BY <1>3, <3>1, <3>2, <3>3 DEF ReceivedOn
    <3>4. CASE ~Counts(b, i)
      BY <1>5, <3>1, <3>2, <3>4
    <3> QED BY <3>3, <3>4
  <2> QED BY <2>1, <2>2
<1>8. kind = "notice" => S \subseteq ReceivedOn(longer)
  BY <1>1, <1>2, <1>3, <1>4 DEF ReceivedOn
<1> QED BY <1>2, <1>6, <1>7, <1>8 DEF longer, e

\* Nobody is told twice on a longer branch, if what the entry names was not received before.
LEMMA LongerToldOnce ==
  ASSUME NEW b \in Seq(EntryKind), NEW e \in EntryKind,
         \A j \in DOMAIN b : b[j].kind # "result" =>
           b[j].ids \cap ReceivedOn(SubSeq(b, 1, j - 1)) = {},
         e.kind # "result" => e.ids \cap ReceivedOn(b) = {},
         NEW j \in DOMAIN Append(b, e), Append(b, e)[j].kind # "result"
  PROVE  Append(b, e)[j].ids \cap ReceivedOn(SubSeq(Append(b, e), 1, j - 1)) = {}
<1> DEFINE n == Len(b)
<1>1. n \in Nat /\ DOMAIN b = 1..n /\ DOMAIN Append(b, e) = 1..(n + 1)
  OBVIOUS
<1>2. SubSeq(Append(b, e), 1, j - 1) = SubSeq(b, 1, j - 1)
  <2>1. j - 1 \in 0..n
    BY <1>1
  <2>2. \A i \in 1..(j - 1) : Append(b, e)[i] = b[i]
    BY <1>1, <2>1
  <2> QED BY <1>1, <2>1, <2>2
<1>3. CASE j = n + 1
  <2>1. Append(b, e)[j] = e /\ SubSeq(b, 1, j - 1) = b
    BY <1>1, <1>3
  <2> QED BY <1>2, <2>1
<1>4. CASE j # n + 1
  <2>1. j \in 1..n /\ Append(b, e)[j] = b[j]
    BY <1>1, <1>4
  <2> QED BY <1>1, <1>2, <2>1
<1> QED BY <1>3, <1>4


-----------------------------------------------------------------------------
(* Subsessions: what holds of a delivery at each of its steps *)

\* What the inbox has received and claims, next to the branch, in each phase of the parent's
\* run.  Only a turn may have received more than its branch: a receipt whose tool failed.
InboxFollowsRun ==
  LET past == ReceivedOn(branch)
  IN  CASE run \in {"idle", "unwinding"} -> live => claimed = {} /\ received = past
        [] run \in {"sending", "adding"} ->
             claimed = held /\ received = past /\ held \cap past = {}
        [] run = "turn" -> claimed = {} /\ past \subseteq received
        [] run = "calling" -> claimed = {} /\ past \cup held \subseteq received
        [] run = "boundary" -> held \cap past = {}

\* Only a parent that is open works, and an exclusive operation holds one that is idle.
WorkIsLive == (run # "idle" => live) /\ (exclusive => run = "idle")

SubsessionInv == SubsessionTypeOK /\ NeverDeliveredTwice /\ WorkIsLive /\ InboxFollowsRun

\* A step that leaves the branch alone.
LEMMA SameBranch ==
  ASSUME SubsessionInv, UNCHANGED branch, SubsessionTypeOK', WorkIsLive', InboxFollowsRun'
  PROVE  SubsessionInv'
BY DEF SubsessionInv, NeverDeliveredTwice

\* A step that appends an entry.
LEMMA LongerBranch ==
  ASSUME SubsessionInv, NEW kind \in {"notice", "receipt", "result"}, NEW S \in SUBSET Completion,
         branch' = Append(branch, Entry(kind, S)),
         kind # "result" => S \cap ReceivedOn(branch) = {}
  PROVE  /\ branch' \in Seq(EntryKind) /\ NeverDeliveredTwice'
         /\ kind = "notice" => ReceivedOn(branch)' = ReceivedOn(branch) \cup S
         /\ kind = "receipt" => ReceivedOn(branch)' = ReceivedOn(branch)
         /\ kind = "result" => ReceivedOn(branch)' \subseteq ReceivedOn(branch) \cup S
<1>1. branch \in Seq(EntryKind)
  BY DEF SubsessionInv, SubsessionTypeOK, EntryKind
<1>2. Entry(kind, S) \in EntryKind /\ Entry(kind, S).kind = kind /\ Entry(kind, S).ids = S
  BY DEF Entry, EntryKind
<1> DEFINE e == Entry(kind, S)
<1>3. \A j \in DOMAIN Append(branch, e) : Append(branch, e)[j].kind # "result" =>
        Append(branch, e)[j].ids \cap ReceivedOn(SubSeq(Append(branch, e), 1, j - 1)) = {}
  <2> HIDE DEF e
  <2> QED BY <1>1, <1>2, LongerToldOnce DEF SubsessionInv, NeverDeliveredTwice, e
<1>4. NeverDeliveredTwice'
  BY <1>3 DEF NeverDeliveredTwice
<1> QED BY <1>1, <1>4, ReceivedOnLonger

\* A branch that was rewound tells nobody twice either.
LEMMA ShorterBranch ==
  ASSUME SubsessionInv, NEW n \in 0..(Len(branch) - 1), branch' = SubSeq(branch, 1, n)
  PROVE  branch' \in Seq(EntryKind) /\ NeverDeliveredTwice'
<1>1. branch \in Seq(EntryKind)
  BY DEF SubsessionInv, SubsessionTypeOK, EntryKind
<1>2. n \in Nat /\ n <= Len(branch) /\ Len(branch) \in Nat
  BY <1>1
<1>3. branch' \in Seq(EntryKind) /\ Len(branch') = n /\ \A i \in 1..n : branch'[i] = branch[i]
  BY <1>1, <1>2
<1>4. ASSUME NEW j \in 1..n PROVE SubSeq(branch', 1, j - 1) = SubSeq(branch, 1, j - 1)
  <2>1. j - 1 \in 0..n /\ j - 1 \in 0..Len(branch)
    BY <1>2
  <2>2. \A i \in 1..(j - 1) : branch'[i] = branch[i]
    BY <1>2, <1>3, <2>1
  <2> QED BY <1>1, <1>3, <2>1, <2>2
<1>5. DOMAIN branch' = 1..n /\ 1..n \subseteq DOMAIN branch
  BY <1>1, <1>2, <1>3
<1> QED BY <1>3, <1>4, <1>5 DEF NeverDeliveredTwice, SubsessionInv


\* Completions, runtimes and timers come and go without touching what was received.
LEMMA WakingOK ==
  ASSUME SubsessionInv,
         \/ \E c \in Completion : Finish(c) \/ Wake(c)
         \/ Open \/ FireInVain \/ Fire \/ BeginExclusive \/ Reopen \/ EndExclusive \/ DaemonDies
  PROVE  SubsessionInv'
<1> USE DEF SubsessionInv, SubsessionTypeOK, WorkIsLive, InboxFollowsRun
<1>0. ReceivedOn(branch) \in SUBSET Completion
  <2>1. \A i \in DOMAIN branch : branch[i].ids \subseteq Completion
    <3>1. branch \in Seq(EntryKind)
      BY DEF EntryKind
    <3>2. \A i \in DOMAIN branch : branch[i] \in EntryKind
      <4> HIDE DEF SubsessionInv, SubsessionTypeOK, WorkIsLive, InboxFollowsRun
      <4> QED BY <3>1
    <3> QED BY <3>2 DEF EntryKind
  <2> QED BY <2>1 DEF ReceivedOn
<1>1. ASSUME Bind, UNCHANGED <<finished, branch, run, held, exclusive>>, waking' \subseteq waking,
             run = "idle"
      PROVE  SubsessionInv'
  <2>1. UNCHANGED branch /\ live' = TRUE /\ stopped' = FALSE /\ timer' \in BOOLEAN
        /\ received' = ReceivedOn(branch)' /\ claimed' = {} /\ UNCHANGED known
    BY <1>1, ZenonT(30) DEF Bind, Restore
  <2>2. SubsessionTypeOK'
    BY <1>0, <1>1, <2>1
  <2>3. WorkIsLive' /\ InboxFollowsRun'
    BY <1>1, <2>1
  <2> QED BY <2>1, <2>2, <2>3, SameBranch
<1>2. ASSUME NEW c \in Completion, Finish(c) PROVE SubsessionInv'
  <2>1. SubsessionTypeOK' /\ WorkIsLive' /\ InboxFollowsRun' /\ UNCHANGED branch
    BY <1>2 DEF Finish
  <2> QED BY <2>1, SameBranch
<1>3. ASSUME NEW c \in Completion, Wake(c) PROVE SubsessionInv'
  <2>1. CASE live
    <3>1. /\ UNCHANGED <<inbox, live, stopped, finished, branch, run, held, exclusive>>
          /\ timer' \in BOOLEAN /\ waking' = waking \ {c}
      BY <1>3, <2>1, ZenonT(30) DEF Wake, Schedule
    <3>2. SubsessionTypeOK' /\ WorkIsLive' /\ InboxFollowsRun'
      BY <3>1 DEF inbox
    <3> QED BY <3>1, <3>2, SameBranch
  <2>2. CASE ~live
    BY <1>1, <1>3, <2>2 DEF Wake
  <2> QED BY <2>1, <2>2
<1>4. CASE Open
  BY <1>1, <1>4 DEF Open
<1>5. CASE FireInVain
  <2>1. SubsessionTypeOK' /\ WorkIsLive' /\ InboxFollowsRun' /\ UNCHANGED branch
    BY <1>5 DEF FireInVain, inbox
  <2> QED BY <2>1, SameBranch
<1>6. CASE Fire
  <2>1. run = "idle" /\ claimed = {} /\ received = ReceivedOn(branch) /\ live /\ ~exclusive
    BY <1>6 DEF Fire, busy
  <2>2. SubsessionTypeOK' /\ WorkIsLive' /\ InboxFollowsRun' /\ UNCHANGED branch
    BY <1>6, <2>1 DEF Fire, Pending
  <2> QED BY <2>2, SameBranch
<1>7. CASE BeginExclusive
  <2>1. SubsessionTypeOK' /\ WorkIsLive' /\ InboxFollowsRun' /\ UNCHANGED branch
    BY <1>7 DEF BeginExclusive, busy, inbox
  <2> QED BY <2>1, SameBranch
<1>8. CASE Reopen
  BY <1>1, <1>8 DEF Reopen
<1>9. CASE EndExclusive
  <2>1. SubsessionTypeOK' /\ WorkIsLive' /\ InboxFollowsRun' /\ UNCHANGED branch
    BY <1>9 DEF EndExclusive, inbox
  <2> QED BY <2>1, SameBranch
<1>10. CASE DaemonDies
  <2>1. SubsessionTypeOK' /\ WorkIsLive' /\ InboxFollowsRun' /\ UNCHANGED branch
    BY <1>10 DEF DaemonDies
  <2> QED BY <2>1, SameBranch
<1> QED BY <1>2, <1>3, <1>4, <1>5, <1>6, <1>7, <1>8, <1>9, <1>10

\* A run of the parent, and the three ways in which it is told.
LEMMA RunOK ==
  ASSUME SubsessionInv,
         \/ SendStarts \/ SendAppends \/ SendFails \/ Prompt \/ Receive \/ ToolReturns \/ ToolFails
         \/ PrepareNotice \/ CommitDraft \/ NextTurn \/ SettleRun \/ Unwind \/ Stop
  PROVE  SubsessionInv'
<1> USE DEF SubsessionInv, SubsessionTypeOK, WorkIsLive, InboxFollowsRun
<1>0. ASSUME NEW b \in Seq(EntryKind) PROVE ReceivedOn(b) \subseteq Completion
  <2>1. \A i \in DOMAIN b : b[i] \in EntryKind
    OBVIOUS
  <2> QED BY <2>1 DEF ReceivedOn, EntryKind
<1>a. branch \in Seq(EntryKind) /\ ReceivedOn(branch) \subseteq Completion
  BY <1>0 DEF EntryKind
<1>1. CASE SendStarts
  <2>1. SubsessionTypeOK' /\ WorkIsLive' /\ InboxFollowsRun' /\ UNCHANGED branch
    BY <1>1, <1>a DEF SendStarts
  <2> QED BY <2>1, SameBranch
<1>2. CASE SendAppends
  <2>1. /\ branch' = Append(branch, Entry("notice", held)) /\ held \in SUBSET Completion
        /\ held \cap ReceivedOn(branch) = {} /\ claimed = held /\ received = ReceivedOn(branch)
        /\ received' = received \cup held /\ claimed' = claimed \ held /\ run' = "turn" /\ held' = {}
        /\ UNCHANGED <<finished, known, timer, waking, stopped, live, exclusive>> /\ run # "idle"
    BY <1>2 DEF SendAppends
  <2>2. /\ branch' \in Seq(EntryKind) /\ NeverDeliveredTwice'
        /\ ReceivedOn(branch)' = ReceivedOn(branch) \cup held
    BY <2>1, LongerBranch
  <2> QED BY <2>1, <2>2 DEF EntryKind
<1>3. CASE SendFails
  <2>1. run' = "idle" /\ claimed' = {} /\ received' = ReceivedOn(branch)' /\ UNCHANGED branch
    BY <1>3 DEF SendFails
  <2>2. SubsessionTypeOK' /\ WorkIsLive' /\ InboxFollowsRun'
    BY <1>3, <2>1 DEF SendFails
  <2> QED BY <2>1, <2>2, SameBranch
<1>4. CASE Prompt
  <2>1. SubsessionTypeOK' /\ WorkIsLive' /\ InboxFollowsRun' /\ UNCHANGED branch
    BY <1>4, <1>a DEF Prompt, busy
  <2> QED BY <2>1, SameBranch
<1>5. CASE Receive
  <2>1. PICK S \in {known' \ (received \cup claimed)} \cup {{c} : c \in finished \ received} :
          /\ branch' = Append(branch, Entry("receipt", S))
          /\ received' = received \cup S /\ claimed' = claimed \ S /\ held' = S
    BY <1>5 DEF Receive
  <2>2. /\ run = "turn" /\ known' = finished /\ run' = "calling"
        /\ UNCHANGED <<finished, timer, waking, stopped, live, exclusive>>
    BY <1>5 DEF Receive
  <2>3. S \in SUBSET Completion /\ S \cap received = {}
    BY <2>1, <2>2
  <2>4. claimed = {} /\ ReceivedOn(branch) \subseteq received
    BY <2>2
  <2>5. S \cap ReceivedOn(branch) = {}
    BY <2>3, <2>4
  <2>6. /\ branch' \in Seq(EntryKind) /\ NeverDeliveredTwice'
        /\ ReceivedOn(branch)' = ReceivedOn(branch)
    BY <2>1, <2>3, <2>5, LongerBranch
  <2> QED BY <2>1, <2>2, <2>3, <2>4, <2>6 DEF EntryKind
<1>6. CASE ToolReturns
  <2>1. /\ branch' = Append(branch, Entry("result", held)) /\ held \in SUBSET Completion
        /\ claimed = {} /\ ReceivedOn(branch) \cup held \subseteq received
        /\ run = "calling" /\ run' = "turn" /\ held' = {}
        /\ UNCHANGED <<finished, known, received, claimed, timer, waking, stopped, live, exclusive>>
    BY <1>6 DEF ToolReturns, inbox
  <2>2. /\ branch' \in Seq(EntryKind) /\ NeverDeliveredTwice'
        /\ ReceivedOn(branch)' \subseteq ReceivedOn(branch) \cup held
    BY <2>1, LongerBranch
  <2> QED BY <2>1, <2>2 DEF EntryKind
<1>7. CASE ToolFails
  <2>1. SubsessionTypeOK' /\ WorkIsLive' /\ InboxFollowsRun' /\ UNCHANGED branch
    BY <1>7 DEF ToolFails, inbox
  <2> QED BY <2>1, SameBranch
<1>8. CASE PrepareNotice
  <2>1. SubsessionTypeOK' /\ WorkIsLive' /\ InboxFollowsRun' /\ UNCHANGED branch
    BY <1>8, <1>a DEF PrepareNotice
  <2> QED BY <2>1, SameBranch
<1>9. CASE CommitDraft
  <2>1. /\ branch' = Append(branch, Entry("notice", held)) /\ held \in SUBSET Completion
        /\ held \cap ReceivedOn(branch) = {} /\ run = "boundary" /\ run' = "turn" /\ held' = {}
        /\ received' = ReceivedOn(branch)' /\ claimed' = {}
        /\ UNCHANGED <<finished, known, timer, waking, stopped, live, exclusive>>
    BY <1>9 DEF CommitDraft, Restore
  <2>2. branch' \in Seq(EntryKind) /\ NeverDeliveredTwice'
    BY <2>1, LongerBranch
  <2>3. received' \subseteq Completion
    BY <1>0, <2>1, <2>2
  <2> QED BY <2>1, <2>2, <2>3 DEF EntryKind
<1>10. CASE NextTurn
  <2>1. SubsessionTypeOK' /\ WorkIsLive' /\ InboxFollowsRun' /\ UNCHANGED branch
    BY <1>10, <1>a DEF NextTurn, Restore
  <2> QED BY <2>1, SameBranch
<1>11. CASE SettleRun
  <2>1. /\ run = "boundary" /\ run' = "unwinding" /\ held' = {} /\ timer' \in BOOLEAN
        /\ received' = ReceivedOn(branch) /\ claimed' = {}
        /\ UNCHANGED <<finished, branch, known, waking, stopped, live, exclusive>>
    BY <1>11, ZenonT(30) DEF SettleRun, Restore, Schedule
  <2>2. SubsessionTypeOK' /\ WorkIsLive' /\ InboxFollowsRun'
    BY <2>1, <1>a
  <2> QED BY <2>1, <2>2, SameBranch
<1>12. CASE Unwind
  <2>1. /\ run = "unwinding" /\ run' = "idle" /\ timer' \in BOOLEAN
        /\ UNCHANGED <<finished, branch, inbox, held, waking, stopped, live, exclusive>>
    BY <1>12, ZenonT(30) DEF Unwind, Schedule
  <2>2. SubsessionTypeOK' /\ WorkIsLive' /\ InboxFollowsRun'
    BY <2>1 DEF inbox
  <2> QED BY <2>1, <2>2, SameBranch
<1>13. CASE Stop
  <2>1. SubsessionTypeOK' /\ WorkIsLive' /\ InboxFollowsRun' /\ UNCHANGED branch
    BY <1>13 DEF Stop, inbox
  <2> QED BY <2>1, SameBranch
<1> QED BY <1>1, <1>2, <1>3, <1>4, <1>5, <1>6, <1>7, <1>8, <1>9, <1>10, <1>11, <1>12, <1>13

\* What was received follows the branch also when that is rewound.
LEMMA RewindOK == ASSUME SubsessionInv, Rewind PROVE SubsessionInv'
<1>1. PICK n \in 0..(Len(branch) - 1) : branch' = SubSeq(branch, 1, n)
  BY DEF Rewind
<1>2. branch' \in Seq(EntryKind) /\ NeverDeliveredTwice'
  BY <1>1, ShorterBranch
<1>3. /\ run = "idle" /\ received' = ReceivedOn(branch)' /\ claimed' = {} /\ timer' \in BOOLEAN
      /\ UNCHANGED <<finished, known, run, held, waking, stopped, live, exclusive>>
  BY ZenonT(30) DEF Rewind, Restore, Schedule, busy, SubsessionInv, SubsessionTypeOK
<1>4. \A i \in DOMAIN branch' : branch'[i] \in EntryKind
  BY <1>2
<1>5. ReceivedOn(branch)' \subseteq Completion
  BY <1>4 DEF ReceivedOn, EntryKind
<1>6. SubsessionTypeOK'
  BY <1>2, <1>3, <1>5 DEF SubsessionInv, SubsessionTypeOK, EntryKind
<1>7. WorkIsLive' /\ InboxFollowsRun'
  BY <1>3 DEF SubsessionInv, WorkIsLive, InboxFollowsRun
<1> QED BY <1>2, <1>6, <1>7 DEF SubsessionInv

LEMMA SubsessionInvHolds == SubsessionSpec => []SubsessionInv
<1>1. SubsessionInit => SubsessionInv
  <2> SUFFICES ASSUME SubsessionInit PROVE SubsessionInv
    OBVIOUS
  <2>1. DOMAIN branch = {} /\ branch \in Seq(EntryKind)
    BY DEF SubsessionInit
  <2>2. ReceivedOn(branch) = {}
    BY <2>1 DEF ReceivedOn
  <2> QED BY <2>1, <2>2 DEF SubsessionInit, SubsessionInv, SubsessionTypeOK, NeverDeliveredTwice,
                            WorkIsLive, InboxFollowsRun, EntryKind
<1>2. SubsessionInv /\ [SubsessionNext]_subsessionVars => SubsessionInv'
  <2> SUFFICES ASSUME SubsessionInv, [SubsessionNext]_subsessionVars PROVE SubsessionInv'
    OBVIOUS
  <2>1. CASE UNCHANGED subsessionVars
    BY <2>1 DEF subsessionVars, inbox, SubsessionInv, SubsessionTypeOK, NeverDeliveredTwice,
                WorkIsLive, InboxFollowsRun
  <2> QED BY <2>1, WakingOK, RunOK, RewindOK DEF SubsessionNext
<1> QED BY <1>1, <1>2, PTL DEF SubsessionSpec

\* For any completions and branches of any length: no way of delivery tells the parent what
\* another has told it, and an idle parent's inbox has lost nothing.
THEOREM EachIsDeliveredOnce == SubsessionSpec => []DeliveredOnce
<1>1. SubsessionInv => NothingIsLost
  BY DEF SubsessionInv, InboxFollowsRun, NothingIsLost
<1>2. SubsessionInv => DeliveredOnce
  BY <1>1 DEF SubsessionInv, DeliveredOnce
<1> QED BY <1>2, SubsessionInvHolds, PTL

\* Every variable holds a value of its kind.
THEOREM SubsessionsTypeCorrect == SubsessionSpec => []SubsessionTypeOK
<1>1. SubsessionInv => SubsessionTypeOK
  BY DEF SubsessionInv
<1> QED BY <1>1, SubsessionInvHolds, PTL

=============================================================================
