----------------------- MODULE SessionUnreadStoreProofs -----------------------
(***************************************************************************)
(* Machine-checked facts about SessionUnreadStore, for every set of         *)
(* sessions, directories and callers, and every limit.                      *)
(***************************************************************************)
EXTENDS SessionUnreadStore, FiniteSetTheorems, WellFoundedInduction, TLAPS

\* What persistence variables must satisfy; the part of the two invariants
\* that SchedulePersist and the worker change.
PersistenceOK ==
  /\ generation \in Nat /\ durableGeneration \in Nat
  /\ pending \in Snapshot \cup {None}
  /\ failure \in BOOLEAN
  /\ worker \in {"none", "writing", "renamed", "exiting"}
  /\ saving \in Snapshot \cup {None}
  /\ worker \in {"writing", "renamed"} <=> saving # None
  /\ pending # None => Parsable(pending.state)
  /\ saving # None => Parsable(saving.state)

\* The catalog variables, and that what they describe could be loaded again.
CatalogOK ==
  /\ catalogId \in Nat /\ lastCatalogId \in Nat
  /\ catalogRevision \in Nat /\ nextCompletionOrder \in Nat /\ now \in Nat
  /\ unread \in [Identity -> Nat]
  /\ completedAt \in [Identity -> Nat]
  /\ Parsable(PersistedState)

RestOK ==
  /\ up \in {"down", "loading", "loaded"}
  /\ starts \in 0..MaxStarts
  /\ active \subseteq Identity /\ excluded \subseteq Identity
  /\ flushPc \in [Flusher -> {"idle", "wait", "check", "retry", "settle", "ok", "failed"}]
  /\ flushNeed \in [Flusher -> Nat]

DiskOK ==
  /\ disk \in State \cup {Missing, Corrupt}
  /\ disk \notin {Missing, Corrupt} => Parsable(disk)

\* The inductive invariant: what parsePersistedState demands of a file holds of
\* the catalog at all times, so every snapshot ever taken has it too.
IInv == PersistenceOK /\ CatalogOK /\ RestOK /\ DiskOK

-----------------------------------------------------------------------------
(* Sets of identities *)

LEMMA IdentityFinite == IsFiniteSet(Identity)
  BY IdentityAssumption, FS_Product DEF Identity

\* Clearing some of the unread identities lowers their number by as many.
LEMMA UnreadSubset ==
  ASSUME NEW u \in [Identity -> Nat]
  PROVE  /\ UnreadIn(u) \subseteq Identity
         /\ IsFiniteSet(UnreadIn(u))
         /\ Cardinality(UnreadIn(u)) \in Nat
  BY IdentityFinite, FS_Subset, FS_CardinalityType DEF UnreadIn

-----------------------------------------------------------------------------
(* Scheduling a save *)

\* A save of a catalog that parses leaves the persistence variables in order.
LEMMA ScheduleKeeps ==
  ASSUME PersistenceOK, CatalogOK', SchedulePersist
  PROVE  PersistenceOK'
<1> DEFINE snapshot == [generation |-> generation + 1, state |-> PersistedState']
<1>1. PersistedState' \in State
  BY DEF CatalogOK, PersistedState, State
<1>2. snapshot \in Snapshot /\ snapshot # None /\ Parsable(snapshot.state)
  BY <1>1, SentinelAssumption DEF Snapshot, PersistenceOK, CatalogOK
<1>3. CASE failure \/ worker # "none"
  BY <1>2, <1>3 DEF SchedulePersist, PersistenceOK
<1>4. CASE ~(failure \/ worker # "none")
  BY <1>2, <1>4, SentinelAssumption DEF SchedulePersist, StartWorker, PersistenceOK
<1> QED BY <1>3, <1>4

-----------------------------------------------------------------------------
(* Mutations of the catalog *)

\* Clear removes marks of identities that are unread, and a catalog with fewer
\* marks and more revisions still parses.
LEMMA ClearKeeps ==
  ASSUME CatalogOK, PersistenceOK, NEW S, S \subseteq UnreadIn(unread),
         catalogRevision + Cardinality(S) <= MaxSafe, Clear(S)
  PROVE  CatalogOK' /\ PersistenceOK'
<1>1. IsFiniteSet(S) /\ Cardinality(S) \in Nat
  BY UnreadSubset, FS_Subset, FS_CardinalityType DEF CatalogOK
<1>2. /\ unread' \in [Identity -> Nat]
      /\ completedAt' \in [Identity -> Nat]
      /\ catalogRevision' \in Nat
      /\ UNCHANGED <<catalogId, lastCatalogId, nextCompletionOrder, now>>
  BY <1>1 DEF Clear, CatalogOK
<1>3. UnreadIn(unread') \subseteq UnreadIn(unread)
  BY <1>2 DEF Clear, UnreadIn
<1>4. Cardinality(UnreadIn(unread')) <= Limit
  <2>1. Cardinality(UnreadIn(unread')) <= Cardinality(UnreadIn(unread))
    BY <1>3, UnreadSubset, FS_Subset DEF CatalogOK
  <2> QED BY <2>1, <1>2, UnreadSubset, LimitAssumption DEF CatalogOK, Parsable, PersistedState
<1>5. Parsable(PersistedState')
  <2>1. \A i \in UnreadIn(unread') : unread'[i] = unread[i]
    BY DEF Clear, UnreadIn
  <2>2. \A i \in Identity : unread'[i] = unread[i] \/ unread'[i] = 0
    BY DEF Clear
  <2>3. \A i, j \in UnreadIn(unread') : unread'[i] = unread'[j] => i = j
    BY <2>1, <1>3 DEF CatalogOK, Parsable, PersistedState
  <2>4. \A i \in Identity : unread'[i] <= nextCompletionOrder
    BY <2>2 DEF CatalogOK, Parsable, PersistedState
  <2>5. nextCompletionOrder <= catalogRevision' /\ catalogRevision' <= MaxSafe
    BY <1>1, BoundAssumption DEF Clear, CatalogOK, Parsable, PersistedState
  <2> QED BY <1>2, <1>4, <2>3, <2>4, <2>5 DEF Parsable, PersistedState
<1>6. CatalogOK'
  BY <1>2, <1>5 DEF CatalogOK
<1> QED BY <1>6, ScheduleKeeps DEF Clear

LEMMA ClearUnreadKeeps ==
  ASSUME CatalogOK, PersistenceOK, NEW S, ClearUnread(S)
  PROVE  CatalogOK' /\ PersistenceOK'
<1>1. CASE S \cap UnreadIn(unread) = {}
  <2>1. UNCHANGED <<catalog, persistence>>
    BY <1>1 DEF ClearUnread
  <2> QED BY <2>1 DEF catalog, persistence, CatalogOK, PersistenceOK, PersistedState
<1>2. CASE S \cap UnreadIn(unread) # {}
  BY <1>2, ClearKeeps DEF ClearUnread
<1> QED BY <1>1, <1>2

\* A nonempty catalog has a least recent completion.
LEMMA OldestIsUnread ==
  ASSUME NEW u \in [Identity -> Nat], UnreadIn(u) # {}
  PROVE  Oldest(u) \in UnreadIn(u)
<1> DEFINE orders == {u[i] : i \in UnreadIn(u)}
<1>1. orders \in (SUBSET Nat) \ {{}}
  BY DEF UnreadIn
<1>2. PICK m \in orders : \A k \in orders : m <= k
  <2> DEFINE less == OpToRel(<, Nat)
  <2>1. IsWellFoundedOn(less, Nat)
    BY NatLessThanWellFounded
  <2>2. \E m \in orders : \A k \in orders : ~ (<<k, m>> \in less)
    BY <1>1, <2>1, WFMin
  <2>3. \A m, k \in orders : ~ (<<k, m>> \in less) => m <= k
    BY <1>1 DEF OpToRel
  <2> QED BY <2>2, <2>3
<1>3. \E i \in UnreadIn(u) : \A j \in UnreadIn(u) : u[i] <= u[j]
  BY <1>2
<1> QED BY <1>3 DEF Oldest

\* Recording a completion hands out an order above all others, and evicts at
\* most one identity, so the limit and the distinctness of orders survive.
LEMMA RecordKeeps ==
  ASSUME CatalogOK, PersistenceOK, NEW i \in Identity, RecordCompletion(i)
  PROVE  CatalogOK' /\ PersistenceOK'
<1> DEFINE u == Completed(i)
<1>1. u \in [Identity -> Nat] /\ UnreadIn(u) = UnreadIn(unread) \cup {i}
  BY DEF CatalogOK, Completed, UnreadIn
<1>2. Cardinality(UnreadIn(u)) <= Limit + 1
  <2>1. Cardinality(UnreadIn(unread)) <= Limit
    BY DEF CatalogOK, Parsable, PersistedState
  <2>2. IsFiniteSet(UnreadIn(unread)) /\ Cardinality(UnreadIn(unread)) \in Nat
    BY UnreadSubset DEF CatalogOK
  <2>3. Cardinality(UnreadIn(unread) \cup {i}) =
          IF i \in UnreadIn(unread) THEN Cardinality(UnreadIn(unread))
                                    ELSE Cardinality(UnreadIn(unread)) + 1
    BY <2>2, FS_AddElement
  <2>4. Cardinality(UnreadIn(unread) \cup {i}) <= Limit + 1
    BY <2>1, <2>2, <2>3, LimitAssumption
  <2> QED BY <1>1, <2>4
<1>3. /\ Evicted(i) \subseteq UnreadIn(u)
      /\ Cardinality(Evicted(i)) \in {0, 1}
      /\ Evicts(i) => Cardinality(Evicted(i)) = 1 /\ Evicted(i) = {Oldest(u)}
  <2>1. CASE Evicts(i)
    <3>1. Evicted(i) = {Oldest(u)}
      BY <2>1 DEF Evicted
    <3>2. Oldest(u) \in UnreadIn(u)
      BY <1>1, OldestIsUnread
    <3>3. Cardinality({Oldest(u)}) = 1
      BY FS_Singleton
    <3> HIDE DEF u
    <3> QED BY <3>1, <3>2, <3>3
  <2>2. CASE ~Evicts(i)
    BY <2>2, FS_EmptySet DEF Evicted
  <2> QED BY <2>1, <2>2
<1>4. /\ unread' \in [Identity -> Nat]
      /\ completedAt' \in [Identity -> Nat]
      /\ catalogRevision' \in Nat /\ nextCompletionOrder' \in Nat /\ now' \in Nat
      /\ UNCHANGED <<catalogId, lastCatalogId>>
  BY <1>1, <1>3 DEF RecordCompletion, CatalogOK
<1>5. UnreadIn(unread') = UnreadIn(u) \ Evicted(i)
  BY <1>1 DEF RecordCompletion, UnreadIn
<1>6. Cardinality(UnreadIn(unread')) <= Limit
  <2>1. CASE Evicts(i)
    <3>1. Oldest(u) \in UnreadIn(u) /\ Evicted(i) = {Oldest(u)}
      BY <2>1, <1>3
    <3>2. Cardinality(UnreadIn(u) \ {Oldest(u)}) = Cardinality(UnreadIn(u)) - 1
      BY <3>1, <1>1, UnreadSubset, FS_RemoveElement
    <3>3. Cardinality(UnreadIn(u)) \in Nat
      BY <1>1, UnreadSubset
    <3>4. UnreadIn(unread') = UnreadIn(u) \ {Oldest(u)}
      BY <3>1, <1>5
    <3> QED BY <3>2, <3>3, <3>4, <1>2, LimitAssumption
  <2>2. CASE ~Evicts(i)
    <3>1. Cardinality(UnreadIn(u)) <= Limit
      BY <2>2, <1>1, UnreadSubset, LimitAssumption DEF Evicts
    <3> QED BY <3>1, <2>2, <1>5 DEF Evicted
  <2> QED BY <2>1, <2>2
<1>7. Parsable(PersistedState')
  <2>1. \A j \in Identity : unread'[j] = u[j] \/ unread'[j] = 0
    BY DEF RecordCompletion
  <2>2. \A j \in UnreadIn(u) : j # i => u[j] = unread[j] /\ u[j] <= nextCompletionOrder
    BY DEF Completed, CatalogOK, Parsable, PersistedState, UnreadIn
  <2>3. \A j, k \in UnreadIn(u) : u[j] = u[k] => j = k
    <3>1. u[i] = nextCompletionOrder + 1 /\ nextCompletionOrder \in Nat
      BY DEF Completed, CatalogOK
    <3>2. \A j, k \in UnreadIn(u) : j # i /\ k # i /\ u[j] = u[k] => j = k
      BY <2>2, <1>1 DEF CatalogOK, Parsable, PersistedState
    <3>3. \A j \in UnreadIn(u) : j # i => u[j] # u[i]
      BY <2>2, <1>1, <3>1 DEF UnreadIn
    <3> QED BY <3>2, <3>3
  <2>4. \A j \in UnreadIn(unread') : unread'[j] = u[j] /\ j \in UnreadIn(u)
    BY <1>5, <2>1 DEF UnreadIn
  <2>5. \A j, k \in UnreadIn(unread') : unread'[j] = unread'[k] => j = k
    BY <2>3, <2>4
  <2>6. \A j \in Identity : unread'[j] <= nextCompletionOrder'
    BY <2>1 DEF RecordCompletion, Completed, CatalogOK, Parsable, PersistedState
  <2>7. nextCompletionOrder' <= catalogRevision' /\ catalogRevision' <= MaxSafe
    BY <1>3, BoundAssumption DEF RecordCompletion, CatalogOK, Parsable, PersistedState
  <2> QED BY <1>6, <2>5, <2>6, <2>7 DEF Parsable, PersistedState
<1>8. CatalogOK'
  BY <1>4, <1>7 DEF CatalogOK
<1> QED BY <1>8, ScheduleKeeps DEF RecordCompletion

-----------------------------------------------------------------------------
(* Initial states and steps *)

LEMMA NoneUnreadParses ==
  ASSUME NEW c
  PROVE  Parsable([catalogId |-> c, catalogRevision |-> 0, nextCompletionOrder |-> 0,
                   sessions |-> NoneUnread, completedAt |-> NoneUnread])
<1>1. UnreadIn(NoneUnread) = {}
  BY DEF UnreadIn, NoneUnread
<1>2. Cardinality(UnreadIn(NoneUnread)) = 0
  BY <1>1, FS_EmptySet
<1> QED BY <1>1, <1>2, LimitAssumption, BoundAssumption DEF Parsable, NoneUnread

LEMMA InitIInv == Init => IInv
<1> SUFFICES ASSUME Init PROVE IInv
  OBVIOUS
<1>1. PersistenceOK
  BY DEF Init, PersistenceOK
<1>2. CatalogOK
  BY NoneUnreadParses DEF Init, CatalogOK, PersistedState, NoneUnread
<1>3. RestOK
  BY BoundAssumption DEF Init, RestOK
<1>4. DiskOK
  BY DEF Init, DiskOK
<1> QED BY <1>1, <1>2, <1>3, <1>4 DEF IInv

\* What a step may leave alone.
LEMMA CatalogUnchanged == CatalogOK /\ UNCHANGED catalog => CatalogOK'
  BY DEF CatalogOK, catalog, PersistedState

LEMMA PersistenceUnchanged == PersistenceOK /\ UNCHANGED persistence => PersistenceOK'
  BY DEF PersistenceOK, persistence

LEMMA DiskUnchanged == DiskOK /\ UNCHANGED disk => DiskOK'
  BY DEF DiskOK

LEMMA RestUnchanged == RestOK /\ UNCHANGED <<process, latches, callers>> => RestOK'
  BY DEF RestOK, process, latches, callers

\* A mutation of the catalog keeps the invariant.
LEMMA MutateKeeps == IInv /\ Mutate => IInv'
<1> SUFFICES ASSUME IInv, Mutate PROVE IInv'
  OBVIOUS
<1>0. PersistenceOK /\ CatalogOK /\ RestOK /\ DiskOK
  BY DEF IInv
<1>1. ASSUME NEW i \in Identity, ObserveActive(i) PROVE IInv'
  BY <1>0, <1>1, CatalogUnchanged, PersistenceUnchanged, DiskUnchanged
     DEF ObserveActive, IInv, RestOK, process, callers
<1>2. ASSUME NEW i \in Identity, ObserveIdle(i) PROVE IInv'
  <2>1. CatalogOK' /\ PersistenceOK'
    BY <1>0, <1>2, CatalogUnchanged, PersistenceUnchanged, RecordKeeps DEF ObserveIdle
  <2> QED BY <1>0, <1>2, <2>1, DiskUnchanged DEF ObserveIdle, IInv, RestOK, process, callers
<1>3. ASSUME NEW i \in Identity, MarkUnread(i) PROVE IInv'
  BY <1>0, <1>3, RecordKeeps, DiskUnchanged, RestUnchanged DEF MarkUnread, IInv
<1>4. ASSUME NEW i \in Identity, ForgetActivity(i) PROVE IInv'
  BY <1>0, <1>4, CatalogUnchanged, PersistenceUnchanged, DiskUnchanged
     DEF ForgetActivity, IInv, RestOK, process, callers
<1>5. ASSUME NEW i \in Identity, ExcludeSession(i) PROVE IInv'
  BY <1>0, <1>5, ClearUnreadKeeps, DiskUnchanged
     DEF ExcludeSession, IInv, RestOK, process, callers
<1>6. ASSUME NEW i \in Identity, ForgetSession(i) PROVE IInv'
  BY <1>0, <1>6, ClearUnreadKeeps, DiskUnchanged
     DEF ForgetSession, IInv, RestOK, process, callers
<1>7. ASSUME NEW i \in Identity, AcknowledgeShown(i) PROVE IInv'
  BY <1>0, <1>7, ClearUnreadKeeps, DiskUnchanged, RestUnchanged
     DEF AcknowledgeShown, Acknowledge, IInv
<1>8. ASSUME NEW cwds \in SUBSET Cwd, ReconcileWorkspaces(cwds) PROVE IInv'
  BY <1>0, <1>8, ClearUnreadKeeps, DiskUnchanged
     DEF ReconcileWorkspaces, IInv, RestOK, process, callers
<1>9. ASSUME NEW cwd \in Cwd, NEW sessionIds \in SUBSET Session, ReconcileCwd(cwd, sessionIds)
      PROVE  IInv'
  BY <1>0, <1>9, ClearUnreadKeeps, DiskUnchanged
     DEF ReconcileCwd, IInv, RestOK, process, callers
<1> QED BY <1>1, <1>2, <1>3, <1>4, <1>5, <1>6, <1>7, <1>8, <1>9 DEF Mutate

\* What the worker saves and what it takes next both parse.
LEMMA SaveKeeps == IInv /\ Save => IInv'
<1> SUFFICES ASSUME IInv, Save PROVE IInv'
  OBVIOUS
<1>0. PersistenceOK /\ CatalogOK /\ RestOK /\ DiskOK
  BY DEF IInv
<1>1. CASE SaveRename
  <2>1. PersistenceOK'
    BY <1>0, <1>1 DEF SaveRename, PersistenceOK, unsaved
  <2>2. DiskOK'
    BY <1>0, <1>1 DEF SaveRename, PersistenceOK, DiskOK, Snapshot
  <2> QED BY <1>0, <1>1, <2>1, <2>2, CatalogUnchanged, RestUnchanged DEF SaveRename, IInv
<1>2. CASE SaveReturns
  <2>1. PersistenceOK'
    BY <1>0, <1>2, SentinelAssumption DEF SaveReturns, StartWorker, PersistenceOK, Snapshot
  <2> QED BY <1>0, <1>2, <2>1, CatalogUnchanged, RestUnchanged, DiskUnchanged
          DEF SaveReturns, IInv
<1>3. CASE SaveFails
  <2>1. PersistenceOK'
    BY <1>0, <1>3 DEF SaveFails, PersistenceOK
  <2> QED BY <1>0, <1>3, <2>1, CatalogUnchanged, RestUnchanged, DiskUnchanged
          DEF SaveFails, IInv
<1>4. CASE WorkerCleared
  <2>1. PersistenceOK'
    BY <1>0, <1>4 DEF WorkerCleared, PersistenceOK, unsaved
  <2> QED BY <1>0, <1>4, <2>1, CatalogUnchanged, RestUnchanged, DiskUnchanged
          DEF WorkerCleared, IInv
<1> QED BY <1>1, <1>2, <1>3, <1>4 DEF Save

\* Callers of flush() at most restart the worker on the pending snapshot.
LEMMA FlushKeeps ==
  ASSUME IInv, NEW f \in Flusher, FlushCall(f) \/ FlushStep(f) \/ FlushOutcome(f)
  PROVE  IInv'
<1>0. PersistenceOK /\ CatalogOK /\ RestOK /\ DiskOK
  BY DEF IInv
<1>1. CASE FlushCall(f)
  <2>1. RestOK'
    BY <1>0, <1>1 DEF FlushCall, Goto, RestOK, PersistenceOK, process, latches
  <2> QED BY <1>0, <1>1, <2>1, CatalogUnchanged, PersistenceUnchanged, DiskUnchanged
          DEF FlushCall, IInv
<1>2. CASE FlushWaited(f)
  <2>1. RestOK'
    BY <1>0, <1>2 DEF FlushWaited, Goto, RestOK, process, latches
  <2> QED BY <1>0, <1>2, <2>1, CatalogUnchanged, PersistenceUnchanged, DiskUnchanged
          DEF FlushWaited, IInv
<1>3. CASE FlushCheck(f)
  <2>1. RestOK'
    BY <1>0, <1>3 DEF FlushCheck, Goto, RestOK, process, latches
  <2>2. PersistenceOK'
    <3>1. CASE UNCHANGED persistence
      BY <1>0, <3>1, PersistenceUnchanged
    <3>2. CASE /\ worker = "none" /\ pending # None /\ StartWorker(pending)
               /\ UNCHANGED <<generation, durableGeneration, failure>>
      BY <1>0, <3>2 DEF StartWorker, PersistenceOK
    <3> QED BY <1>3, <3>1, <3>2 DEF FlushCheck
  <2> QED BY <1>0, <1>3, <2>1, <2>2, CatalogUnchanged, DiskUnchanged DEF FlushCheck, IInv
<1>4. CASE FlushSettle(f)
  <2>1. RestOK'
    BY <1>0, <1>4 DEF FlushSettle, Goto, RestOK, process, latches
  <2> QED BY <1>0, <1>4, <2>1, CatalogUnchanged, PersistenceUnchanged, DiskUnchanged
          DEF FlushSettle, IInv
<1>5. CASE FlushOutcome(f)
  <2>1. RestOK'
    BY <1>0, <1>5
       DEF FlushOutcome, FlushReturns, SnapshotReturns, SnapshotFlushesAgain, Goto, RestOK,
           PersistenceOK, process, latches
  <2> QED BY <1>0, <1>5, <2>1, CatalogUnchanged, PersistenceUnchanged, DiskUnchanged
          DEF FlushOutcome, FlushReturns, SnapshotReturns, SnapshotFlushesAgain, IInv
<1> QED BY <1>1, <1>2, <1>3, <1>4, <1>5 DEF FlushStep

\* A process that ends forgets everything.
LEMMA ForgetMemoryKeeps == IInv /\ ForgetMemory => IInv'
<1> SUFFICES ASSUME IInv, ForgetMemory PROVE IInv'
  OBVIOUS
<1>0. PersistenceOK /\ CatalogOK /\ RestOK /\ DiskOK
  BY DEF IInv
<1>1. PersistenceOK'
  BY DEF ForgetMemory, PersistenceOK
<1>2. CatalogOK'
  BY <1>0, NoneUnreadParses DEF ForgetMemory, CatalogOK, PersistedState, NoneUnread
<1>3. RestOK'
  BY <1>0 DEF ForgetMemory, RestOK
<1> QED BY <1>0, <1>1, <1>2, <1>3, DiskUnchanged DEF ForgetMemory, IInv

\* Startup installs a file that parses, or starts an empty epoch.
LEMMA LoadKeeps == IInv /\ Load => IInv'
<1> SUFFICES ASSUME IInv, Load PROVE IInv'
  OBVIOUS
<1>0. PersistenceOK /\ CatalogOK /\ RestOK /\ DiskOK
  BY DEF IInv
<1>1. CASE LoadInstalls
  <2>1. disk \in State /\ Parsable(disk)
    BY <1>0, <1>1 DEF LoadInstalls, Readable, DiskOK
  <2>2. PersistedState' = disk
    BY <1>1, <2>1 DEF LoadInstalls, PersistedState, State
  <2>3. CatalogOK'
    BY <1>0, <1>1, <2>1, <2>2 DEF LoadInstalls, CatalogOK, State
  <2>4. RestOK'
    BY <1>0, <1>1, BoundAssumption DEF LoadInstalls, Start, RestOK, latches, callers
  <2> QED BY <1>0, <1>1, <2>3, <2>4, PersistenceUnchanged, DiskUnchanged
          DEF LoadInstalls, IInv
<1>2. CASE LoadResets
  <2>1. CatalogOK'
    BY <1>0, <1>2, NoneUnreadParses DEF LoadResets, CatalogOK, PersistedState, NoneUnread
  <2>2. PersistenceOK'
    BY <1>0, <1>2, <2>1, ScheduleKeeps DEF LoadResets
  <2>3. RestOK'
    BY <1>0, <1>2, BoundAssumption DEF LoadResets, Start, RestOK, latches, callers
  <2> QED BY <1>0, <1>2, <2>1, <2>2, <2>3, DiskUnchanged DEF LoadResets, IInv
<1>3. CASE LoadSaved
  <2>1. RestOK'
    BY <1>0, <1>3 DEF LoadSaved, RestOK, latches, callers
  <2> QED BY <1>0, <1>3, <2>1, CatalogUnchanged, PersistenceUnchanged, DiskUnchanged
          DEF LoadSaved, IInv
<1>4. CASE LoadFails
  BY <1>4, ForgetMemoryKeeps DEF LoadFails
<1> QED BY <1>1, <1>2, <1>3, <1>4 DEF Load

LEMMA StepIInv == IInv /\ [Next]_vars => IInv'
<1> SUFFICES ASSUME IInv, [Next]_vars PROVE IInv'
  OBVIOUS
<1>1. CASE \E f \in Flusher : FlushCall(f) \/ FlushStep(f) \/ FlushOutcome(f)
  BY <1>1, FlushKeeps
<1>2. CASE Crash
  BY <1>2, ForgetMemoryKeeps DEF Crash
<1>3. CASE StorageLost
  BY <1>3, CatalogUnchanged, PersistenceUnchanged, RestUnchanged
     DEF StorageLost, IInv, DiskOK
<1>4. CASE UNCHANGED vars
  BY <1>4, CatalogUnchanged, PersistenceUnchanged, RestUnchanged, DiskUnchanged DEF vars, IInv
<1> QED BY <1>1, <1>2, <1>3, <1>4, MutateKeeps, SaveKeeps, LoadKeeps DEF Next

LEMMA IInvAlways == Spec => []IInv
  BY InitIInv, StepIInv, PTL DEF Spec

-----------------------------------------------------------------------------
(* Results *)

\* Every variable always has its type, whatever the constants.
THEOREM TypeCorrect == Spec => []TypeOK
<1>1. IInv => TypeOK
  BY DEF IInv, PersistenceOK, CatalogOK, RestOK, DiskOK, TypeOK
<1> QED BY <1>1, IInvAlways, PTL

\* The daemon can always load what it wrote or is about to write: no sequence
\* of completions, acknowledgements, evictions, reconciliations, failed saves
\* and crashes makes it discard its own catalog.
THEOREM AlwaysSelfReadable == Spec => []SelfReadable
<1>1. IInv => SelfReadable
  BY DEF IInv, PersistenceOK, CatalogOK, DiskOK, SelfReadable
<1> QED BY <1>1, IInvAlways, PTL

-----------------------------------------------------------------------------
(* Durability: what the generation counters say of the file *)

DownIsEmpty ==
  up = "down" =>
    /\ worker = "none" /\ pending = None /\ saving = None /\ ~failure
    /\ generation = 0 /\ durableGeneration = 0
    /\ \A f \in Flusher : flushPc[f] = "idle"

GenerationsOrdered ==
  /\ durableGeneration <= generation
  /\ pending # None => durableGeneration < generation
  /\ saving # None => durableGeneration < saving.generation
  /\ saving # None /\ pending # None => saving.generation < generation

FileFollows ==
  /\ worker = "renamed" => disk = saving.state
  /\ up # "down" /\ durableGeneration = generation => disk = PersistedState

\* Where a caller of flush() is decides what it may still have to wait for:
\* once it has seen no worker, any worker that starts saves what it needs.
FlushProgress ==
  \A f \in Flusher :
    /\ flushNeed[f] <= generation
    /\ flushPc[f] \in {"check", "settle"} =>
         /\ saving # None => flushNeed[f] <= saving.generation
         /\ worker = "exiting" => failure \/ flushNeed[f] <= durableGeneration
    /\ flushPc[f] = "retry" =>
         \/ failure \/ flushNeed[f] <= durableGeneration
         \/ saving # None /\ flushNeed[f] <= saving.generation
    /\ flushPc[f] = "settle" => failure \/ flushNeed[f] <= durableGeneration
    /\ flushPc[f] = "ok" => flushNeed[f] <= durableGeneration

\* The inductive invariant of durability.
Durability ==
  DownIsEmpty /\ NothingLost /\ GenerationsOrdered /\ FileFollows /\ FlushProgress

\* A step that changes the catalog and schedules its save.
Mutation ==
  /\ up' # "down"
  /\ UNCHANGED <<disk, callers>>
  /\ SchedulePersist

LEMMA MutateShape ==
  Mutate => \/ UNCHANGED <<process, disk, catalog, persistence, callers>>
            \/ Mutation
<1> SUFFICES ASSUME Mutate
             PROVE  /\ up = "loaded" /\ UNCHANGED <<process, disk, callers>>
                    /\ UNCHANGED <<catalog, persistence>> \/ SchedulePersist
  BY DEF Mutation, process
<1>1. \A S : ClearUnread(S) => UNCHANGED <<catalog, persistence>> \/ SchedulePersist
  BY DEF ClearUnread, Clear
<1>2. \A i : RecordCompletion(i) => SchedulePersist
  BY DEF RecordCompletion
<1> QED BY <1>1, <1>2
        DEF Mutate, ObserveActive, ObserveIdle, MarkUnread, ForgetActivity, ExcludeSession,
            ForgetSession, AcknowledgeShown, Acknowledge, ReconcileWorkspaces, ReconcileCwd, Ready

\* Scheduling a save puts the newest catalog where a worker will take it.
LEMMA MutationDurable ==
  ASSUME IInv, IInv', Durability, Mutation
  PROVE  Durability'
<1> DEFINE snapshot == [generation |-> generation + 1, state |-> PersistedState']
<1>0. PersistenceOK /\ PersistenceOK' /\ RestOK
  BY DEF IInv
<1>1. snapshot # None
  BY SentinelAssumption DEF Snapshot, IInv, CatalogOK, PersistenceOK, PersistedState, State
<1>2. /\ generation' = generation + 1
      /\ UNCHANGED <<durableGeneration, failure, disk, flushPc, flushNeed>>
      /\ up' # "down"
  BY DEF Mutation, SchedulePersist, callers
<1>3. CASE failure \/ worker # "none"
  <2>1. pending' = snapshot /\ UNCHANGED <<worker, saving>>
    BY <1>3 DEF Mutation, SchedulePersist
  <2>2. NothingLost'
    BY <1>0, <1>1, <1>2, <2>1 DEF NothingLost, Durability, PersistenceOK, Snapshot
  <2>3. GenerationsOrdered'
    <3>1. saving # None => saving.generation \in Nat /\ saving.generation <= generation
      BY <1>0 DEF NothingLost, Durability, PersistenceOK, Snapshot
    <3> QED BY <1>0, <1>1, <1>2, <2>1, <3>1 DEF GenerationsOrdered, Durability, PersistenceOK
  <2>4. FileFollows'
    BY <1>0, <1>2, <2>1 DEF FileFollows, GenerationsOrdered, Durability, PersistenceOK
  <2>5. FlushProgress'
    BY <1>0, <1>2, <2>1 DEF FlushProgress, Durability, PersistenceOK, RestOK
  <2> QED BY <1>2, <2>2, <2>3, <2>4, <2>5 DEF Durability, DownIsEmpty
<1>4. CASE ~(failure \/ worker # "none")
  <2>1. worker' = "writing" /\ saving' = snapshot /\ pending' = None
    BY <1>4 DEF Mutation, SchedulePersist, StartWorker
  <2>2. NothingLost'
    BY <1>0, <1>1, <1>2, <2>1 DEF NothingLost, PersistenceOK
  <2>3. GenerationsOrdered'
    BY <1>0, <1>1, <1>2, <2>1 DEF GenerationsOrdered, Durability, PersistenceOK
  <2>4. FileFollows'
    BY <1>0, <1>2, <2>1 DEF FileFollows, GenerationsOrdered, Durability, PersistenceOK
  <2>5. FlushProgress'
    BY <1>0, <1>1, <1>2, <2>1 DEF FlushProgress, Durability, PersistenceOK, RestOK
  <2> QED BY <1>2, <2>2, <2>3, <2>4, <2>5 DEF Durability, DownIsEmpty
<1> QED BY <1>3, <1>4

\* The worker hands over between the snapshot it saved and the newest one.
LEMMA SaveDurable ==
  ASSUME IInv, IInv', Durability, Save
  PROVE  Durability'
<1>0. PersistenceOK /\ PersistenceOK' /\ RestOK
  BY DEF IInv
<1>1. UNCHANGED <<up, PersistedState, flushPc, flushNeed, generation>>
  BY DEF Save, SaveRename, SaveReturns, SaveFails, WorkerCleared, process, catalog, callers,
         unsaved, PersistedState
<1>2. up # "down"
  BY <1>0 DEF Save, SaveRename, SaveReturns, SaveFails, WorkerCleared, Durability, DownIsEmpty
<1>3. CASE SaveRename
  <2>1. FileFollows'
    BY <1>0, <1>1, <1>3
       DEF SaveRename, unsaved, FileFollows, NothingLost, GenerationsOrdered, Durability,
           PersistenceOK, Snapshot
  <2>2. (NothingLost /\ GenerationsOrdered /\ FlushProgress)'
    BY <1>0, <1>1, <1>3
       DEF SaveRename, unsaved, NothingLost, GenerationsOrdered, FlushProgress, Durability,
           PersistenceOK
  <2> QED BY <1>1, <1>2, <2>1, <2>2 DEF Durability, DownIsEmpty
<1>4. CASE SaveReturns
  <2>1. saving # None /\ saving.generation \in Nat
    BY <1>0, <1>4 DEF SaveReturns, PersistenceOK, Snapshot
  <2>2. CASE pending = None
    <3>1. /\ durableGeneration' = saving.generation /\ failure' = FALSE
          /\ worker' = "exiting" /\ saving' = None /\ pending' = None
          /\ disk' = disk /\ disk = saving.state
          /\ saving.generation = generation
      BY <1>4, <2>1, <2>2 DEF SaveReturns, Durability, FileFollows, NothingLost
    <3>2. (NothingLost /\ GenerationsOrdered /\ FileFollows)'
      BY <1>0, <1>1, <2>1, <3>1
         DEF NothingLost, GenerationsOrdered, FileFollows, Durability, PersistenceOK
    <3>3. FlushProgress'
      BY <1>0, <1>1, <2>1, <3>1 DEF FlushProgress, Durability, RestOK, PersistenceOK
    <3> QED BY <1>1, <1>2, <3>2, <3>3 DEF Durability, DownIsEmpty
  <2>3. CASE pending # None
    <3>1. /\ durableGeneration' = saving.generation /\ failure' = FALSE
          /\ worker' = "writing" /\ saving' = pending /\ pending' = None
          /\ disk' = disk
          /\ pending.generation = generation /\ pending.state = PersistedState
      BY <1>4, <2>3 DEF SaveReturns, StartWorker, Durability, NothingLost
    <3>2. NothingLost'
      BY <1>0, <1>1, <2>3, <3>1 DEF NothingLost, PersistenceOK
    <3>3. saving.generation < generation
      BY <2>1, <2>3 DEF Durability, GenerationsOrdered
    <3>4. (GenerationsOrdered /\ FileFollows)'
      BY <1>0, <1>1, <2>1, <2>3, <3>1, <3>3
         DEF GenerationsOrdered, FileFollows, Durability, PersistenceOK
    <3>5. FlushProgress'
      <4> SUFFICES ASSUME NEW f \in Flusher
                   PROVE  /\ flushNeed[f] <= generation
                          /\ flushPc[f] = "settle" => flushNeed[f] <= saving.generation
                          /\ flushPc[f] = "ok" => flushNeed[f] <= saving.generation
        BY <1>0, <1>1, <2>3, <3>1 DEF FlushProgress
      <4>1. durableGeneration < saving.generation /\ durableGeneration \in Nat
        BY <1>0, <2>1 DEF Durability, GenerationsOrdered, PersistenceOK
      <4>2. flushNeed[f] \in Nat
        BY <1>0 DEF RestOK
      <4> QED BY <2>1, <4>1, <4>2 DEF Durability, FlushProgress
    <3> QED BY <1>1, <1>2, <3>2, <3>4, <3>5 DEF Durability, DownIsEmpty
  <2> QED BY <2>2, <2>3
<1>5. CASE SaveFails
  <2>1. (NothingLost /\ GenerationsOrdered /\ FileFollows)'
    BY <1>0, <1>1, <1>5
       DEF SaveFails, NothingLost, GenerationsOrdered, FileFollows, Durability, PersistenceOK,
           Snapshot
  <2>2. FlushProgress'
    BY <1>0, <1>1, <1>5 DEF SaveFails, FlushProgress, Durability, RestOK, PersistenceOK
  <2> QED BY <1>1, <1>2, <2>1, <2>2 DEF Durability, DownIsEmpty
<1>6. CASE WorkerCleared
  <2>1. (NothingLost /\ GenerationsOrdered /\ FileFollows /\ FlushProgress)'
    BY <1>0, <1>1, <1>6
       DEF WorkerCleared, unsaved, NothingLost, GenerationsOrdered, FileFollows, FlushProgress,
           Durability, PersistenceOK
  <2> QED BY <1>1, <1>2, <2>1 DEF Durability, DownIsEmpty
<1> QED BY <1>3, <1>4, <1>5, <1>6 DEF Save

\* A caller that saw no worker is owed nothing that is not pending or durable.
LEMMA FlushStepDurable ==
  ASSUME IInv, IInv', Durability,
         NEW g \in Flusher, FlushCall(g) \/ FlushStep(g) \/ FlushOutcome(g)
  PROVE  Durability'
<1>0. PersistenceOK /\ RestOK
  BY DEF IInv
<1>1. UNCHANGED <<up, disk, PersistedState, generation, durableGeneration, failure>>
  BY DEF FlushCall, FlushStep, FlushWaited, FlushCheck, FlushSettle, FlushOutcome, FlushReturns,
         SnapshotReturns, SnapshotFlushesAgain, process, catalog, persistence, PersistedState
<1>2. up # "down"
  BY DEF FlushCall, FlushStep, FlushWaited, FlushCheck, FlushSettle, FlushOutcome, FlushReturns,
         SnapshotReturns, SnapshotFlushesAgain, Ready, Durability, DownIsEmpty
<1>3. CASE /\ UNCHANGED persistence
           /\ \A f \in Flusher : f # g => UNCHANGED <<flushPc[f], flushNeed[f]>>
           /\ \/ FlushCall(g) \/ FlushWaited(g) \/ FlushSettle(g) \/ FlushOutcome(g)
              \/ FlushCheck(g)
  <2>1. (NothingLost /\ GenerationsOrdered /\ FileFollows)'
    BY <1>1, <1>3 DEF NothingLost, GenerationsOrdered, FileFollows, Durability, persistence
  <2>2. FlushProgress'
    <3> SUFFICES ASSUME NEW f \in Flusher
                 PROVE  (/\ flushNeed[f] <= generation
                         /\ flushPc[f] \in {"check", "settle"} =>
                              /\ saving # None => flushNeed[f] <= saving.generation
                              /\ worker = "exiting" => failure \/ flushNeed[f] <= durableGeneration
                         /\ flushPc[f] = "retry" =>
                              \/ failure \/ flushNeed[f] <= durableGeneration
                              \/ saving # None /\ flushNeed[f] <= saving.generation
                         /\ flushPc[f] = "settle" => failure \/ flushNeed[f] <= durableGeneration
                         /\ flushPc[f] = "ok" => flushNeed[f] <= durableGeneration)'
      BY DEF FlushProgress
    <3>1. CASE f # g
      BY <1>1, <1>3, <3>1 DEF FlushProgress, Durability, persistence
    <3>2. CASE f = g /\ FlushCall(g)
      BY <1>0, <1>1, <3>2 DEF FlushCall, Goto, RestOK, PersistenceOK
    <3>3. CASE f = g /\ FlushWaited(g)
      BY <1>0, <1>1, <1>3, <3>3
         DEF FlushWaited, Goto, RestOK, PersistenceOK, FlushProgress, Durability, persistence
    <3>4. CASE f = g /\ FlushSettle(g)
      BY <1>0, <1>1, <1>3, <3>4
         DEF FlushSettle, Goto, RestOK, PersistenceOK, FlushProgress, Durability, persistence
    <3>5. CASE f = g /\ FlushOutcome(g)
      BY <1>0, <1>1, <1>3, <3>5
         DEF FlushOutcome, FlushReturns, SnapshotReturns, SnapshotFlushesAgain, Goto, RestOK,
             PersistenceOK, FlushProgress, Durability, persistence
    <3>6. CASE f = g /\ FlushCheck(g)
      <4>1. flushPc[g] = "check" /\ flushPc'[g] \in {"ok", "retry"} /\ flushNeed' = flushNeed
        BY <1>0, <3>6 DEF FlushCheck, Goto, RestOK
      <4>2. CASE ~failure /\ generation = durableGeneration
        BY <1>0, <1>1, <1>3, <3>6, <4>1, <4>2
           DEF FlushCheck, Goto, RestOK, PersistenceOK, FlushProgress, Durability, persistence
      <4>3. CASE ~(~failure /\ generation = durableGeneration)
        <5>1. flushPc'[g] = "retry" /\ ~(worker = "none" /\ pending # None)
          BY <1>0, <1>3, <3>6, <4>3, SentinelAssumption
             DEF FlushCheck, Goto, StartWorker, RestOK, PersistenceOK, persistence
        <5>2. worker # "none"
          BY <1>0, <4>3, <5>1 DEF Durability, NothingLost, PersistenceOK
        <5> QED BY <1>0, <1>1, <1>3, <3>6, <4>1, <5>1, <5>2
                DEF PersistenceOK, FlushProgress, Durability, persistence
      <4> QED BY <4>2, <4>3
    <3> QED BY <1>3, <3>1, <3>2, <3>3, <3>4, <3>5, <3>6
  <2> QED BY <1>1, <1>2, <2>1, <2>2 DEF Durability, DownIsEmpty
<1>4. CASE /\ FlushCheck(g) /\ ~UNCHANGED persistence
  <2>1. /\ worker = "none" /\ pending # None /\ saving = None
        /\ worker' = "writing" /\ saving' = pending /\ pending' = None
        /\ pending.generation = generation /\ pending.state = PersistedState
    BY <1>0, <1>4 DEF FlushCheck, StartWorker, PersistenceOK, Durability, NothingLost
  <2>2. (NothingLost /\ GenerationsOrdered /\ FileFollows)'
    BY <1>0, <1>1, <2>1
       DEF NothingLost, GenerationsOrdered, FileFollows, Durability, PersistenceOK
  <2>3. /\ flushPc[g] = "check" /\ flushNeed' = flushNeed
        /\ \A f \in Flusher : f # g => flushPc'[f] = flushPc[f]
        /\ flushPc'[g] = "retry"
    BY <1>0, <1>4 DEF FlushCheck, Goto, RestOK
  <2>4. FlushProgress'
    BY <1>0, <1>1, <2>1, <2>3 DEF FlushProgress, Durability, PersistenceOK, RestOK
  <2> QED BY <1>1, <1>2, <2>2, <2>4 DEF Durability, DownIsEmpty
<1>5. FlushCheck(g) \/ UNCHANGED persistence
  BY DEF FlushCall, FlushStep, FlushWaited, FlushSettle, FlushOutcome, FlushReturns,
         SnapshotReturns, SnapshotFlushesAgain
<1>6. \A f \in Flusher : f # g => UNCHANGED <<flushPc[f], flushNeed[f]>>
  BY <1>0 DEF FlushCall, FlushStep, FlushWaited, FlushCheck, FlushSettle, FlushOutcome,
         FlushReturns, SnapshotReturns, SnapshotFlushesAgain, Goto, RestOK
<1> QED BY <1>3, <1>4, <1>5, <1>6 DEF FlushStep

LEMMA ForgetMemoryDurable ==
  ASSUME IInv, Durability, ForgetMemory
  PROVE  Durability'
  BY DEF ForgetMemory, Durability, DownIsEmpty, NothingLost, GenerationsOrdered, FileFollows,
         FlushProgress

LEMMA LoadDurable ==
  ASSUME IInv, IInv', Durability, Load
  PROVE  Durability'
<1>0. PersistenceOK /\ RestOK /\ DiskOK
  BY DEF IInv
<1>1. CASE LoadInstalls
  <2>1. PersistedState' = disk
    BY <1>0, <1>1 DEF LoadInstalls, Readable, DiskOK, PersistedState, State
  <2> QED BY <1>0, <1>1, <2>1
          DEF LoadInstalls, Start, persistence, callers, Durability, DownIsEmpty, NothingLost,
              GenerationsOrdered, FileFollows, FlushProgress
<1>2. CASE LoadResets
  BY <1>2, MutationDurable DEF LoadResets, Mutation
<1>3. CASE LoadSaved
  BY <1>3
     DEF LoadSaved, persistence, callers, catalog, PersistedState, Durability, DownIsEmpty,
         NothingLost, GenerationsOrdered, FileFollows, FlushProgress
<1>4. CASE LoadFails
  BY <1>4, ForgetMemoryDurable DEF LoadFails
<1> QED BY <1>1, <1>2, <1>3, <1>4 DEF Load

LEMMA DurabilityUnchanged ==
  Durability /\ UNCHANGED <<up, disk, catalog, persistence, callers>> => Durability'
  BY DEF catalog, persistence, callers, PersistedState, Durability, DownIsEmpty, NothingLost,
         GenerationsOrdered, FileFollows, FlushProgress

LEMMA StepDurability == IInv /\ Durability /\ [Next]_vars => Durability'
<1> SUFFICES ASSUME IInv, Durability, [Next]_vars PROVE Durability'
  OBVIOUS
<1>0. IInv'
  BY StepIInv
<1>1. CASE Mutate
  BY <1>0, <1>1, MutateShape, MutationDurable, DurabilityUnchanged DEF process
<1>2. CASE \E f \in Flusher : FlushCall(f) \/ FlushStep(f) \/ FlushOutcome(f)
  BY <1>0, <1>2, FlushStepDurable
<1>3. CASE StorageLost
  BY <1>3 DEF StorageLost, process, persistence, callers, catalog, PersistedState, Durability,
              DownIsEmpty, NothingLost, GenerationsOrdered, FileFollows, FlushProgress
<1>4. CASE UNCHANGED vars
  BY <1>4, DurabilityUnchanged DEF vars, process
<1>5. CASE Crash
  BY <1>5, ForgetMemoryDurable DEF Crash
<1> QED BY <1>0, <1>1, <1>2, <1>3, <1>4, <1>5, SaveDurable, LoadDurable DEF Next

LEMMA DurabilityAlways == Spec => []Durability
<1>1. Init => Durability
  BY DEF Init, Durability, DownIsEmpty, NothingLost, GenerationsOrdered, FileFollows, FlushProgress
<1> QED BY <1>1, IInvAlways, StepDurability, PTL DEF Spec

\* The newest state is always durable, in flight or pending.
THEOREM NothingIsLost == Spec => []NothingLost
<1>1. Durability => NothingLost
  BY DEF Durability
<1> QED BY <1>1, DurabilityAlways, PTL

\* When the generations agree the file is the catalog in memory.
THEOREM DurableMeansOnDisk == Spec => []DurableIsOnDisk
<1>1. Durability => DurableIsOnDisk
  BY DEF Durability, FileFollows, DurableIsOnDisk
<1> QED BY <1>1, DurabilityAlways, PTL

\* flush() never returns before what it was called for is durable.
THEOREM FlushMeansDurable == Spec => []FlushIsDurable
<1>1. Durability => FlushIsDurable
  BY DEF Durability, FlushProgress, FlushIsDurable
<1> QED BY <1>1, DurabilityAlways, PTL

-----------------------------------------------------------------------------
(* Exposure: what a client was shown stays true across crashes *)

\* State s continues the shown snapshot e: it is of another epoch, or it is e,
\* or it is later, with every summary of s that e could acknowledge in e.
Continues(s, e) ==
  s.catalogId = e.catalogId =>
    /\ e.catalogRevision <= s.catalogRevision
    /\ e.nextCompletionOrder <= s.nextCompletionOrder
    /\ s.catalogRevision = e.catalogRevision => s = e
    /\ \A i \in Identity : s.sessions[i] # 0 /\ s.sessions[i] <= e.sessions[i]
                           => s.completedAt[i] <= e.completedAt[i]

Shown(e) ==
  /\ e \in State /\ Parsable(e) /\ e.catalogId <= lastCatalogId
  /\ up # "down" => Continues(PersistedState, e)
  /\ pending # None => Continues(pending.state, e)
  /\ saving # None => Continues(saving.state, e)
  /\ disk \notin {Missing, Corrupt} => Continues(disk, e)
  /\ \A d \in exposed : d.catalogId = e.catalogId /\ d.catalogRevision = e.catalogRevision => d = e

\* No state anywhere is of an epoch that is still to be created.
EpochsCreated ==
  /\ catalogId <= lastCatalogId
  /\ pending # None => pending.state.catalogId <= lastCatalogId
  /\ saving # None => saving.state.catalogId <= lastCatalogId
  /\ disk \notin {Missing, Corrupt} => disk.catalogId <= lastCatalogId

\* The inductive invariant of exposure.
Exposure == EpochsCreated /\ \A e \in exposed : Shown(e)

\* A mutation strictly increases the revision, so what it leads to continues
\* everything the catalog continued before.
LEMMA ClearContinues ==
  ASSUME CatalogOK, NEW S, S \subseteq UnreadIn(unread), S # {}, Clear(S),
         NEW e \in State, Continues(PersistedState, e)
  PROVE  Continues(PersistedState', e)
<1>1. IsFiniteSet(S) /\ Cardinality(S) \in Nat /\ Cardinality(S) # 0
  BY UnreadSubset, FS_Subset, FS_CardinalityType, FS_EmptySet DEF CatalogOK
<1>2. catalogRevision' > catalogRevision
  BY <1>1 DEF Clear, CatalogOK
<1>3. /\ UNCHANGED <<catalogId, nextCompletionOrder>>
      /\ \A i \in Identity : unread'[i] # 0 => unread'[i] = unread[i]
                                               /\ completedAt'[i] = completedAt[i]
  BY DEF Clear
<1>4. e.catalogRevision \in Nat /\ catalogRevision \in Nat /\ catalogRevision' \in Nat
  BY <1>1 DEF State, CatalogOK, Clear
<1> QED BY <1>2, <1>3, <1>4 DEF Continues, PersistedState

LEMMA RecordContinues ==
  ASSUME CatalogOK, NEW i \in Identity, RecordCompletion(i),
         NEW e \in State, Parsable(e), Continues(PersistedState, e)
  PROVE  Continues(PersistedState', e)
<1>1. Cardinality(Evicted(i)) \in {0, 1}
  BY FS_Singleton, FS_EmptySet DEF Evicted
<1>2. catalogRevision' > catalogRevision /\ catalogRevision' \in Nat
  BY <1>1 DEF RecordCompletion, CatalogOK
<1>3. /\ UNCHANGED catalogId
      /\ nextCompletionOrder' = nextCompletionOrder + 1
      /\ unread'[i] \in {0, nextCompletionOrder + 1}
      /\ \A j \in Identity : j # i /\ unread'[j] # 0 =>
           unread'[j] = unread[j] /\ completedAt'[j] = completedAt[j]
  BY DEF RecordCompletion, Completed, CatalogOK
<1>4. /\ e.catalogRevision \in Nat /\ e.nextCompletionOrder \in Nat /\ e.sessions[i] \in Nat
      /\ e.sessions[i] <= e.nextCompletionOrder
      /\ catalogRevision \in Nat /\ nextCompletionOrder \in Nat
  BY DEF State, CatalogOK, Parsable
<1> SUFFICES ASSUME catalogId' = e.catalogId PROVE Continues(PersistedState', e)
  BY DEF Continues, PersistedState
<1>5. e.catalogRevision <= catalogRevision /\ e.nextCompletionOrder <= nextCompletionOrder
  BY <1>3 DEF Continues, PersistedState
<1>6. unread'[i] # 0 => ~(unread'[i] <= e.sessions[i])
  BY <1>3, <1>4, <1>5
<1>7. \A j \in Identity : unread'[j] # 0 /\ unread'[j] <= e.sessions[j]
                          => completedAt'[j] <= e.completedAt[j]
  BY <1>3, <1>6 DEF Continues, PersistedState
<1> QED BY <1>2, <1>3, <1>4, <1>5, <1>7 DEF Continues, PersistedState

\* Mutate leaves the catalog alone or schedules a state that continues it.
LEMMA MutateContinues ==
  ASSUME CatalogOK, Mutate, NEW e \in State, Parsable(e), Continues(PersistedState, e)
  PROVE  Continues(PersistedState', e)
<1>1. \A S : ClearUnread(S) => Continues(PersistedState', e)
  <2> SUFFICES ASSUME NEW S, ClearUnread(S) PROVE Continues(PersistedState', e)
    OBVIOUS
  <2>1. CASE S \cap UnreadIn(unread) = {}
    BY <2>1 DEF ClearUnread, catalog, PersistedState
  <2>2. CASE S \cap UnreadIn(unread) # {}
    BY <2>2, ClearContinues DEF ClearUnread
  <2> QED BY <2>1, <2>2
<1>2. \A i \in Identity : RecordCompletion(i) => Continues(PersistedState', e)
  BY RecordContinues
<1>3. UNCHANGED catalog => Continues(PersistedState', e)
  BY DEF catalog, PersistedState
<1> QED BY <1>1, <1>2, <1>3
        DEF Mutate, ObserveActive, ObserveIdle, MarkUnread, ForgetActivity, ExcludeSession,
            ForgetSession, AcknowledgeShown, Acknowledge, ReconcileWorkspaces, ReconcileCwd

\* What SchedulePersist puts in the pending or in-flight snapshot is the newest
\* state or was there before.
LEMMA ScheduledStates ==
  ASSUME SchedulePersist
  PROVE  /\ pending' # None => pending'.state = PersistedState'
         /\ saving' # None => saving'.state = PersistedState' \/ saving' = saving
  BY DEF SchedulePersist, StartWorker

LEMMA MutateExposure ==
  ASSUME IInv, Durability, Exposure, Mutate
  PROVE  Exposure'
<1>0. CatalogOK
  BY DEF IInv
<1>1. up = "loaded" /\ UNCHANGED <<up, disk, exposed, lastCatalogId>>
  BY DEF Mutate, ObserveActive, ObserveIdle, MarkUnread, ForgetActivity, ExcludeSession,
         ForgetSession, AcknowledgeShown, Acknowledge, ReconcileWorkspaces, ReconcileCwd, Ready,
         process, callers, ClearUnread, Clear, RecordCompletion, catalog
<1>2. UNCHANGED persistence \/ SchedulePersist
  BY MutateShape DEF Mutation
<1>7. EpochsCreated'
  <2>1. UNCHANGED catalogId
    BY DEF Mutate, ObserveActive, ObserveIdle, MarkUnread, ForgetActivity, ExcludeSession,
           ForgetSession, AcknowledgeShown, Acknowledge, ReconcileWorkspaces, ReconcileCwd,
           ClearUnread, Clear, RecordCompletion, catalog
  <2>2. CASE UNCHANGED persistence
    BY <1>1, <2>1, <2>2 DEF Exposure, EpochsCreated, persistence
  <2>3. CASE SchedulePersist
    BY <1>1, <2>1, <2>3, ScheduledStates DEF Exposure, EpochsCreated, PersistedState
  <2> QED BY <1>2, <2>2, <2>3
<1> SUFFICES ASSUME NEW e \in exposed PROVE Shown(e)'
  BY <1>1, <1>7 DEF Exposure
<1>3. Shown(e)
  BY DEF Exposure
<1>4. Continues(PersistedState', e)
  BY <1>0, <1>1, <1>3, MutateContinues DEF Shown
<1>5. CASE UNCHANGED persistence
  BY <1>1, <1>3, <1>4, <1>5 DEF Shown, persistence
<1>6. CASE SchedulePersist
  BY <1>1, <1>3, <1>4, <1>6, ScheduledStates DEF Shown
<1> QED BY <1>2, <1>5, <1>6

\* A snapshot is handed out only when it is the file and nothing else is owed.
LEMMA SnapshotExposure ==
  ASSUME IInv, Durability, Exposure, NEW f \in Flusher, SnapshotReturns(f)
  PROVE  Exposure'
<1> DEFINE new == PersistedState
<1>0. PersistenceOK /\ CatalogOK /\ DiskOK
  BY DEF IInv
<1>1. up # "down"
  BY DEF SnapshotReturns, Durability, DownIsEmpty
<1>2. disk = new /\ pending = None /\ saving = None
  BY <1>0, <1>1
     DEF SnapshotReturns, Durability, FileFollows, NothingLost, GenerationsOrdered,
         PersistenceOK, Snapshot
<1>3. /\ exposed' = exposed \cup {new}
      /\ UNCHANGED <<up, disk, pending, saving, lastCatalogId, PersistedState>>
  BY DEF SnapshotReturns, process, catalog, persistence, PersistedState
<1>4. new \in State /\ Parsable(new) /\ Continues(new, new)
  BY <1>0 DEF CatalogOK, PersistedState, State, Continues
<1>5. new.catalogId <= lastCatalogId
  BY DEF Exposure, EpochsCreated, PersistedState
<1>6. EpochsCreated'
  BY <1>3, <1>2 DEF Exposure, EpochsCreated, SnapshotReturns, catalog
<1>7. ASSUME NEW e \in exposed PROVE Shown(e)'
  <2>1. Shown(e)
    BY DEF Exposure
  <2>2. e.catalogId = new.catalogId /\ e.catalogRevision = new.catalogRevision => new = e
    BY <1>1, <2>1 DEF Shown, Continues
  <2> QED BY <1>3, <2>1, <2>2 DEF Shown
<1>8. Shown(new)'
  <2>1. \A d \in exposed : d.catalogId = new.catalogId /\ d.catalogRevision = new.catalogRevision
                           => d = new
    BY <1>1 DEF Exposure, Shown, Continues
  <2> QED BY <1>2, <1>3, <1>4, <1>5, <2>1 DEF Shown
<1> QED BY <1>3, <1>6, <1>7, <1>8 DEF Exposure

\* Steps that only move states between memory, the worker and the file.
LEMMA ExposureMoves ==
  ASSUME Exposure,
         UNCHANGED <<exposed, lastCatalogId>>,
         catalogId' <= lastCatalogId,
         pending' # None => pending' \in {pending, saving},
         saving' # None => saving' \in {pending, saving},
         disk' \notin {Missing, Corrupt} => disk' = disk \/ (saving # None /\ disk' = saving.state),
         up' # "down" => \/ up # "down" /\ PersistedState' = PersistedState
                         \/ disk \notin {Missing, Corrupt} /\ PersistedState' = disk
  PROVE  Exposure'
<1>1. EpochsCreated'
  BY DEF Exposure, EpochsCreated
<1>2. ASSUME NEW e \in exposed PROVE Shown(e)'
  <2>1. Shown(e)
    BY DEF Exposure
  <2>2. /\ up' # "down" => Continues(PersistedState', e)
        /\ pending' # None => Continues(pending'.state, e)
        /\ saving' # None => Continues(saving'.state, e)
        /\ disk' \notin {Missing, Corrupt} => Continues(disk', e)
    BY <2>1 DEF Shown
  <2> QED BY <2>1, <2>2 DEF Shown
<1> QED BY <1>1, <1>2 DEF Exposure

LEMMA SaveExposure ==
  ASSUME IInv, Exposure, Save
  PROVE  Exposure'
<1>0. PersistenceOK
  BY DEF IInv
<1>1. UNCHANGED <<up, PersistedState, exposed, lastCatalogId, catalogId>>
  BY DEF Save, SaveRename, SaveReturns, SaveFails, WorkerCleared, process, catalog, callers,
         PersistedState
<1>2. /\ pending' # None => pending' \in {pending, saving}
      /\ saving' # None => saving' \in {pending, saving}
      /\ disk' = disk \/ (saving # None /\ disk' = saving.state)
  BY <1>0 DEF Save, SaveRename, SaveReturns, SaveFails, WorkerCleared, unsaved, StartWorker,
              PersistenceOK
<1>3. catalogId' <= lastCatalogId
  BY <1>1 DEF Exposure, EpochsCreated
<1>4. up' # "down" => up # "down" /\ PersistedState' = PersistedState
  BY <1>1
<1> QED BY <1>1, <1>2, <1>3, <1>4, ExposureMoves

LEMMA FlushExposure ==
  ASSUME IInv, Durability, Exposure,
         NEW f \in Flusher, FlushCall(f) \/ FlushStep(f) \/ FlushOutcome(f)
  PROVE  Exposure'
<1>1. CASE SnapshotReturns(f)
  BY <1>1, SnapshotExposure
<1>2. CASE ~SnapshotReturns(f)
  <2>1. UNCHANGED <<up, disk, catalogId, PersistedState, exposed, lastCatalogId>>
    BY <1>2 DEF FlushCall, FlushStep, FlushWaited, FlushCheck, FlushSettle, FlushOutcome,
                FlushReturns, SnapshotFlushesAgain, process, catalog, PersistedState
  <2>2. /\ pending' # None => pending' \in {pending, saving}
        /\ saving' # None => saving' \in {pending, saving}
    BY <1>2 DEF FlushCall, FlushStep, FlushWaited, FlushCheck, FlushSettle, FlushOutcome,
                FlushReturns, SnapshotFlushesAgain, persistence, StartWorker
  <2>3. catalogId' <= lastCatalogId
    BY <2>1 DEF Exposure, EpochsCreated
  <2> QED BY <2>1, <2>2, <2>3, ExposureMoves
<1> QED BY <1>1, <1>2

LEMMA ForgetMemoryExposure ==
  ASSUME IInv, Exposure, ForgetMemory
  PROVE  Exposure'
<1>1. lastCatalogId \in Nat
  BY DEF IInv, CatalogOK
<1>2. 0 <= lastCatalogId
  BY <1>1
<1> QED BY <1>2, ExposureMoves DEF ForgetMemory

LEMMA LoadExposure ==
  ASSUME IInv, Durability, Exposure, Load
  PROVE  Exposure'
<1>0. CatalogOK /\ DiskOK
  BY DEF IInv
<1>1. CASE LoadInstalls
  <2>1. disk \notin {Missing, Corrupt} /\ disk \in State
    BY <1>0, <1>1 DEF LoadInstalls, Readable, DiskOK
  <2>2. PersistedState' = disk /\ catalogId' = disk.catalogId
    BY <1>1, <2>1 DEF LoadInstalls, PersistedState, State
  <2>3. catalogId' <= lastCatalogId
    BY <2>1, <2>2 DEF Exposure, EpochsCreated
  <2>4. UNCHANGED <<pending, saving, disk, exposed, lastCatalogId>>
    BY <1>1 DEF LoadInstalls, persistence, callers
  <2> QED BY <2>1, <2>2, <2>3, <2>4, ExposureMoves
<1>2. CASE LoadResets
  <2>1. /\ pending = None /\ saving = None
        /\ catalogId' = lastCatalogId + 1 /\ lastCatalogId' = lastCatalogId + 1
        /\ PersistedState'.catalogId = lastCatalogId + 1
        /\ UNCHANGED <<disk, exposed>>
        /\ disk \in {Missing, Corrupt} \/ disk.catalogId <= lastCatalogId
    BY <1>2 DEF LoadResets, Start, Durability, DownIsEmpty, PersistedState, callers, Exposure,
                EpochsCreated
  <2>2. /\ pending' # None => pending'.state = PersistedState'
        /\ saving' # None => saving'.state = PersistedState'
    BY <1>2, <2>1, ScheduledStates DEF LoadResets
  <2>3. lastCatalogId \in Nat
    BY <1>0 DEF CatalogOK
  <2>4. disk \notin {Missing, Corrupt} => disk.catalogId \in Nat
    BY <1>0 DEF DiskOK, State
  <2>5. EpochsCreated'
    BY <2>1, <2>2, <2>3, <2>4 DEF EpochsCreated
  <2>6. ASSUME NEW e \in exposed PROVE Shown(e)'
    <3>1. Shown(e) /\ e.catalogId \in Nat
      BY DEF Exposure, Shown, State
    <3>2. e.catalogId <= lastCatalogId' /\ PersistedState'.catalogId # e.catalogId
      BY <2>1, <2>3, <3>1 DEF Shown
    <3>3. Continues(PersistedState', e)
      BY <3>2 DEF Continues
    <3> QED BY <2>1, <2>2, <3>1, <3>2, <3>3 DEF Shown
  <2> QED BY <2>1, <2>5, <2>6 DEF Exposure
<1>3. CASE LoadSaved
  BY <1>3, ExposureMoves
     DEF LoadSaved, persistence, callers, catalog, PersistedState, Exposure, EpochsCreated
<1>4. CASE LoadFails
  BY <1>4, ForgetMemoryExposure DEF LoadFails
<1> QED BY <1>1, <1>2, <1>3, <1>4 DEF Load

LEMMA StepExposure == IInv /\ Durability /\ Exposure /\ [Next]_vars => Exposure'
<1> SUFFICES ASSUME IInv, Durability, Exposure, [Next]_vars PROVE Exposure'
  OBVIOUS
<1>1. CASE \E f \in Flusher : FlushCall(f) \/ FlushStep(f) \/ FlushOutcome(f)
  BY <1>1, FlushExposure
<1>2. CASE Crash
  BY <1>2, ForgetMemoryExposure DEF Crash
<1>3. CASE StorageLost
  BY <1>3 DEF StorageLost, process, persistence, callers, catalog, PersistedState, Exposure,
              EpochsCreated, Shown
<1>4. CASE UNCHANGED vars
  BY <1>4 DEF vars, process, persistence, callers, catalog, PersistedState, Exposure,
              EpochsCreated, Shown
<1> QED BY <1>1, <1>2, <1>3, <1>4, MutateExposure, SaveExposure, LoadExposure DEF Next

LEMMA ExposureAlways == Spec => []Exposure
<1>1. Init => Exposure
  BY DEF Init, Exposure, EpochsCreated
<1> QED BY <1>1, IInvAlways, DurabilityAlways, StepExposure, PTL DEF Spec

\* Whatever crashes and failed saves happen, an epoch and a revision a client
\* was given never come to denote another catalog.
THEOREM ShownRevisionsAreFinal == Spec => []OneCatalogPerRevision
<1>1. Exposure => OneCatalogPerRevision
  BY DEF Exposure, Shown, Continues, PersistedState, OneCatalogPerRevision
<1> QED BY <1>1, ExposureAlways, PTL

\* No acknowledgement of something shown clears a completion later than that.
THEOREM AcknowledgementsAreSafe == Spec => []AcknowledgementsClearOnlyShownWork
<1>1. Exposure => AcknowledgementsClearOnlyShownWork
  BY DEF Exposure, Shown, Continues, PersistedState, AcknowledgementsClearOnlyShownWork
<1> QED BY <1>1, ExposureAlways, PTL

\* Only the loss of the file outside the daemon makes it start a new epoch
\* (loadPersistedState).
THEOREM EpochsAreKept == Spec => EpochsOnlyEndByStorageLoss
<1>1. ASSUME IInv, Exposure, [Next]_vars, catalogId' = lastCatalogId + 1
      PROVE  disk \in {Missing, Corrupt}
  <2>0. catalogId \in Nat /\ lastCatalogId \in Nat /\ DiskOK /\ EpochsCreated
    BY <1>1 DEF IInv, CatalogOK, Exposure
  <2>1. catalogId' # catalogId /\ catalogId' # 0
    BY <1>1, <2>0 DEF EpochsCreated, PersistedState
  <2>2. ~ForgetMemory
    BY <2>1 DEF ForgetMemory
  <2>3. ~Mutate
    BY <2>1
       DEF Mutate, ObserveActive, ObserveIdle, MarkUnread, ForgetActivity, ExcludeSession,
           ForgetSession, AcknowledgeShown, Acknowledge, ReconcileWorkspaces, ReconcileCwd,
           ClearUnread, Clear, RecordCompletion, catalog
  <2>4. ~Save
    BY <2>1 DEF Save, SaveRename, SaveReturns, SaveFails, WorkerCleared, catalog
  <2>5. \A f \in Flusher : ~(FlushCall(f) \/ FlushStep(f) \/ FlushOutcome(f))
    BY <2>1
       DEF FlushStep, FlushOutcome, FlushCall, FlushWaited, FlushCheck, FlushSettle, FlushReturns,
           SnapshotReturns, SnapshotFlushesAgain, catalog
  <2>6. LoadInstalls \/ LoadResets
    BY <1>1, <2>1, <2>2, <2>3, <2>4, <2>5
       DEF Next, Load, LoadSaved, LoadFails, Crash, StorageLost, vars, catalog
  <2>7. ~LoadInstalls
    BY <1>1, <2>0 DEF LoadInstalls, Readable, EpochsCreated, DiskOK, State
  <2> QED BY <1>1, <2>0, <2>6, <2>7 DEF LoadResets, Readable, DiskOK
<1>2. ASSUME IInv, Exposure, [Next]_vars
      PROVE  [catalogId' = lastCatalogId + 1 => disk \in {Missing, Corrupt}]_vars
  BY <1>1, <1>2
<1> QED
  BY <1>2, IInvAlways, ExposureAlways, PTL DEF Spec, EpochsOnlyEndByStorageLoss

=============================================================================
