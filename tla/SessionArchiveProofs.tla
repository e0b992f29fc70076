------------------------ MODULE SessionArchiveProofs ------------------------
(***************************************************************************)
(* What holds of the session archive for any finite set of sessions, any   *)
(* clients and any bound on messages, whatever fails or crashes.           *)
(*                                                                         *)
(* The invariant says how far the operation that runs has come (OpOK): it  *)
(* never takes a transcript away before another one stands for it, and the *)
(* index is written at the right side of that.  Of listings it says that   *)
(* those which may still mark a session have an index that names every     *)
(* session nobody may mark (ListingsKnow).                                 *)
(***************************************************************************)
EXTENDS SessionArchive, FiniteSetTheorems, SequenceTheorems, TLAPS

-----------------------------------------------------------------------------
(* Operations on the store *)

Kinds == {"archive", "restore", "delete"}
Phases == {"files", "originals", "archived", "index"}

OpKind == [by : Client, kind : Kinds, items : SUBSET Session, todo : SUBSET Session, phase : Phases]

ResultKind == [by : Client, items : SUBSET Session, ok : BOOLEAN]

\* One session at a time is restored.
AtMostOne(S) == \A s, t \in S : s = t

\* An operation that waits has done nothing.
Waits(q) == q.phase = "files" /\ q.todo = q.items

Requested(q) ==
  q \in OpKind /\ q.todo \subseteq q.items /\ (q.kind = "restore" => AtMostOne(q.items))

QueueOK ==
  /\ queue \in Seq(OpKind)
  /\ \A i \in DOMAIN queue : Requested(queue[i]) /\ (i # 1 => Waits(queue[i]))

\* What the operation that runs has done so far: archiving has copied before the index names a
\* session and before originals go, restoring has put a transcript back before the archived one
\* goes, and deleting leaves in sight what somebody has written meanwhile.
OpOK(q) ==
  /\ q.kind = "archive" =>
       /\ q.phase \in {"files", "originals"}
       /\ q.phase = "files" => \A s \in q.items \ q.todo : arch[s] # None
       /\ q.phase = "originals" => \A s \in q.items : s \in records /\ arch[s] # None
  /\ q.kind = "restore" =>
       /\ q.phase \in {"files", "archived", "index"}
       /\ q.phase # "files" => \A s \in q.items : file[s] # None
  /\ q.kind = "delete" =>
       /\ q.phase \in {"files", "index"}
       /\ \A s \in (IF q.phase = "files" THEN q.items \ q.todo ELSE q.items) :
            said[s] # None => file[s] # None

StoreOK == QueueOK /\ (queue # <<>> => OpOK(Head(queue))) /\ results \subseteq ResultKind

-----------------------------------------------------------------------------
(* Requests *)

Doing == {"idle", "archive", "tree", "delete", "restore", "deleteOne", "storing", "deletingOne",
          "listing", "moving", "marking", "prompting"}

SeenKind == [files : {None} \cup SUBSET Session, index : {None} \cup SUBSET Session]

RequestsOK ==
  /\ doing \in [Client -> Doing] /\ seen \in [Client -> SeenKind]
  /\ \A c \in Client : doing[c] = "restore" => AtMostOne(items[c])

\* A listing that may still mark a session as unread has an index that names all those that
\* nobody may mark: it is stale otherwise.
ListingsKnow ==
  \A c \in Client :
    /\ doing[c] \in {"moving", "marking"} => seen[c].files # None /\ seen[c].index # None
    /\ (doing[c] \in {"listing", "moving", "marking"} /\ c \notin stale /\ seen[c].index # None)
         => settled \subseteq seen[c].index

ArchiveInv ==
  /\ TypeOK /\ StoreOK /\ RequestsOK
  /\ NeverOutOfSight /\ ForgottenStaysForgotten /\ ListingsKnow

-----------------------------------------------------------------------------
(* Sequences of operations *)

\* The sessions of a set, in some order.
LEMMA SomeOrder ==
  ASSUME NEW S \in SUBSET Session
  PROVE  SetToSeq(S) \in Seq(S)
<1>1. IsFiniteSet(S)
  BY FS_Subset, SessionAssumption
<1>2. Cardinality(S) \in Nat /\ ExistsBijection(1..Cardinality(S), S)
  BY <1>1, FS_CardinalityType
<1>3. PICK f \in [1..Cardinality(S) -> S] : IsInjective(f)
  <2>1. PICK g \in Bijection(1..Cardinality(S), S) : TRUE
    BY <1>2 DEF ExistsBijection
  <2>2. g \in [1..Cardinality(S) -> S] /\ \A a, b \in 1..Cardinality(S) : g[a] = g[b] => a = b
    BY <2>1 DEF Bijection, Injection, IsInjective
  <2> QED BY <2>2 DEF IsInjective
<1>4. SetToSeq(S) \in [1..Cardinality(S) -> S]
  BY <1>3 DEF SetToSeq
<1> QED BY <1>2, <1>4

LEMMA OperationIs ==
  ASSUME NEW c \in Client, NEW kind \in Kinds, NEW S \in SUBSET Session,
         kind = "restore" => AtMostOne(S)
  PROVE  Requested(Operation(c, kind, S)) /\ Waits(Operation(c, kind, S))
BY DEF Requested, Waits, Operation, OpKind, Kinds, Phases

\* An operation that begins is in order whatever the files are.
LEMMA BeginningOK == ASSUME NEW q, Requested(q), Waits(q) PROVE OpOK(q) /\ OpOK(q)'
BY DEF Requested, Waits, OpOK, OpKind

LEMMA QueueNext ==
  ASSUME QueueOK, queue # <<>>, queue' = Tail(queue)
  PROVE  QueueOK' /\ (queue' # <<>> => OpOK(Head(queue))')
<1> DEFINE n == Len(queue)
<1>1. queue \in Seq(OpKind) /\ n \in Nat \ {0} /\ DOMAIN queue = 1..n
  BY DEF QueueOK
<1>2. queue' \in Seq(OpKind) /\ Len(queue') = n - 1
      /\ \A i \in 1..(n - 1) : queue'[i] = queue[i + 1]
  BY <1>1
<1>3. \A i \in 1..(n - 1) : i + 1 \in 1..n /\ i + 1 # 1
  BY <1>1
<1>4. DOMAIN queue' = 1..(n - 1)
  BY <1>1, <1>2
<1>5. \A i \in DOMAIN queue' : Requested(queue'[i]) /\ Waits(queue'[i])
  <2> HIDE DEF n
  <2> QED BY <1>1, <1>2, <1>3, <1>4 DEF QueueOK
<1>6. QueueOK'
  BY <1>2, <1>5 DEF QueueOK
<1>7. ASSUME queue' # <<>> PROVE OpOK(Head(queue))'
  <2>1. 1 \in DOMAIN queue' /\ Head(queue') = queue'[1]
    BY <1>2, <1>7
  <2> HIDE DEF n
  <2>2. Requested(queue'[1]) /\ Waits(queue'[1])
    BY <1>5, <2>1
  <2> QED BY <2>1, <2>2 DEF Requested, Waits, OpOK, OpKind
<1> HIDE DEF n
<1> QED BY <1>6, <1>7

LEMMA QueueWorks ==
  ASSUME QueueOK, queue # <<>>, NEW q, Requested(q), queue' = [queue EXCEPT ![1] = q]
  PROVE  QueueOK' /\ queue' # <<>> /\ Head(queue') = q
<1> DEFINE n == Len(queue)
<1>1. queue \in Seq(OpKind) /\ n \in Nat \ {0} /\ q \in OpKind /\ DOMAIN queue = 1..n
  BY DEF QueueOK, Requested
<1>2. queue' \in Seq(OpKind) /\ Len(queue') = n /\ DOMAIN queue' = 1..n /\ queue' # <<>>
      /\ queue'[1] = q /\ Head(queue') = queue'[1] /\ \A i \in 1..n : i # 1 => queue'[i] = queue[i]
  BY <1>1
<1> HIDE DEF n
<1>3. \A i \in DOMAIN queue' : Requested(queue'[i]) /\ (i # 1 => Waits(queue'[i]))
  BY <1>1, <1>2 DEF QueueOK
<1> QED BY <1>2, <1>3 DEF QueueOK

LEMMA QueueGrows ==
  ASSUME QueueOK, NEW ops \in Seq(OpKind),
         \A i \in DOMAIN ops : Requested(ops[i]) /\ Waits(ops[i]),
         queue' = queue \o ops
  PROVE  /\ QueueOK'
         /\ queue # <<>> => queue' # <<>> /\ Head(queue') = Head(queue)
         /\ queue = <<>> /\ queue' # <<>> => Requested(Head(queue')) /\ Waits(Head(queue'))
<1> DEFINE n == Len(queue)
           m == Len(ops)
<1>1. queue \in Seq(OpKind) /\ n \in Nat /\ DOMAIN queue = 1..n /\ m \in Nat /\ DOMAIN ops = 1..m
  BY DEF QueueOK
<1>2. /\ queue' \in Seq(OpKind) /\ Len(queue') = n + m /\ DOMAIN queue' = 1..(n + m)
      /\ \A i \in 1..n : queue'[i] = queue[i]
      /\ \A i \in 1..(n + m) : i \notin 1..n => queue'[i] = ops[i - n] /\ i - n \in 1..m
  BY <1>1
<1>3. \A i \in DOMAIN queue' : Requested(queue'[i]) /\ (i # 1 => Waits(queue'[i]))
                               /\ (i \notin 1..n => Waits(queue'[i]))
  <2> HIDE DEF n, m
  <2> QED BY <1>1, <1>2 DEF QueueOK
<1>4. QueueOK'
  BY <1>2, <1>3 DEF QueueOK
<1>5. queue # <<>> => 1 \in 1..n /\ 1 \in 1..(n + m) /\ Head(queue) = queue[1]
  BY <1>1
<1>6. queue' # <<>> => 1 \in 1..(n + m) /\ Head(queue') = queue'[1]
  BY <1>1, <1>2
<1>7. queue = <<>> => 1 \notin 1..n
  BY <1>1
<1>8. queue # <<>> => queue' # <<>>
  BY <1>1, <1>2
<1> HIDE DEF n, m
<1> QED BY <1>2, <1>3, <1>4, <1>5, <1>6, <1>7, <1>8

-----------------------------------------------------------------------------
(* Steps of the store *)

Files == file \in [Session -> Content] /\ arch \in [Session -> Content] /\ said \in [Session -> Content]
         /\ records \subseteq Session

\* Of sessions that leave the archive nothing is remembered.
Remembers ==
  /\ settled' = settled \cap records'
  /\ worked' = worked \cap records'

\* A step of the store leaves requests alone.
LEMMA StoreSteps ==
  ASSUME ArchiveInv, UNCHANGED <<run, request, stale, marks>>, Remembers,
         Files', StoreOK', NeverOutOfSight'
  PROVE  ArchiveInv'
BY DEF Remembers, ArchiveInv, TypeOK, Files, RequestsOK, ForgottenStaysForgotten, ListingsKnow, request

\* What can be read of the operation that runs.
LEMMA CurrentIs ==
  ASSUME ArchiveInv, queue # <<>>
  PROVE  /\ Requested(current) /\ OpOK(current) /\ QueueOK
         /\ current.kind \in Kinds /\ current.items \subseteq Session /\ current.todo \subseteq current.items
         /\ current.phase \in Phases /\ current.by \in Client /\ current = queue[1]
<1>1. queue \in Seq(OpKind) /\ 1 \in DOMAIN queue /\ Head(queue) = queue[1]
  BY DEF ArchiveInv, StoreOK, QueueOK
<1>2. Requested(current) /\ OpOK(current) /\ QueueOK
  BY <1>1 DEF ArchiveInv, StoreOK, QueueOK, current
<1> QED BY <1>1, <1>2 DEF Requested, OpKind, current

\* An operation settles.
LEMMA SettlesOK ==
  ASSUME ArchiveInv, queue # <<>>, NEW S \in SUBSET Session, NEW ok \in BOOLEAN, Settles(S, ok)
  PROVE  StoreOK'
<1>1. QueueOK /\ current.by \in Client
  BY CurrentIs
<1>2. QueueOK' /\ (queue' # <<>> => OpOK(Head(queue))')
  BY <1>1, QueueNext DEF Settles
<1>3. results' \subseteq ResultKind
  BY <1>1 DEF Settles, ResultKind, ArchiveInv, StoreOK
<1> QED BY <1>2, <1>3 DEF StoreOK

\* An operation goes on: it becomes q.
LEMMA GoesOn ==
  ASSUME ArchiveInv, queue # <<>>, NEW S, S \subseteq current.items, NEW phase \in Phases,
         queue' = [queue EXCEPT ![1] = [current EXCEPT !.todo = S, !.phase = phase]],
         UNCHANGED results,
         \A q : ( /\ q.kind = current.kind /\ q.items = current.items /\ q.todo = S
                  /\ q.phase = phase ) => OpOK(q)'
  PROVE  StoreOK'
<1>0. PICK q : q = [current EXCEPT !.todo = S, !.phase = phase]
  OBVIOUS
<1>1. Requested(current) /\ QueueOK
  BY CurrentIs
<1>2. Requested(q) /\ q.kind = current.kind /\ q.items = current.items /\ q.todo = S /\ q.phase = phase
  BY <1>0, <1>1 DEF Requested, OpKind
<1>3. QueueOK' /\ queue' # <<>> /\ Head(queue') = q
  BY <1>0, <1>1, <1>2, QueueWorks
<1>4. OpOK(q)'
  BY <1>2
<1>5. OpOK(Head(queue))'
  BY <1>3, <1>4
<1> QED BY <1>3, <1>5 DEF StoreOK, ArchiveInv

\* One session of an operation is dealt with, or its next phase begins.
LEMMA DoesIs ==
  ASSUME ArchiveInv, queue # <<>>, NEW s, Does(s)
  PROVE  queue' = [queue EXCEPT ![1] = [current EXCEPT !.todo = current.todo \ {s},
                                                       !.phase = current.phase]]
<1>1. current = queue[1] /\ current \in OpKind
  BY CurrentIs DEF Requested
<1>2. queue' = [queue EXCEPT ![1] = [queue[1] EXCEPT !.todo = queue[1].todo \ {s}]]
  BY DEF Does
<1>3. [current EXCEPT !.todo = current.todo \ {s}]
        = [current EXCEPT !.todo = current.todo \ {s}, !.phase = current.phase]
  BY <1>1 DEF OpKind
<1> QED BY <1>1, <1>2, <1>3

LEMMA EntersIs ==
  ASSUME ArchiveInv, queue # <<>>, NEW phase, Enters(phase)
  PROVE  queue' = [queue EXCEPT ![1] = [current EXCEPT !.todo = current.items, !.phase = phase]]
<1>1. current = queue[1] /\ current \in OpKind
  BY CurrentIs DEF Requested
<1>2. queue \in Seq(OpKind) /\ 1 \in DOMAIN queue
  BY DEF ArchiveInv, StoreOK, QueueOK
<1>3. queue' = [queue EXCEPT ![1] = [[queue[1] EXCEPT !.phase = phase] EXCEPT !.todo = current.items]]
  BY <1>2 DEF Enters
<1>4. [[current EXCEPT !.phase = phase] EXCEPT !.todo = current.items]
        = [current EXCEPT !.todo = current.items, !.phase = phase]
  BY <1>1 DEF OpKind
<1> QED BY <1>1, <1>3, <1>4

\* Copies, the index, then the originals: what goes has a copy.
LEMMA ArchivingOK ==
  ASSUME ArchiveInv, UNCHANGED <<run, request, stale, marks>>, Remembers,
         \/ \E s \in Session : Copy(s) \/ RemoveOriginal(s)
         \/ WriteArchived \/ Archived
  PROVE  ArchiveInv'
<1>0. Files /\ NeverOutOfSight
  BY DEF ArchiveInv, TypeOK, Files
<1>1. ASSUME NEW s \in Session, Copy(s) PROVE ArchiveInv'
  <2>1. /\ queue # <<>> /\ current.kind = "archive" /\ current.phase = "files" /\ Does(s)
        /\ UNCHANGED <<file, records, results, said>>
    BY <1>1 DEF Copy, Runs
  <2>2. \/ arch[s] # None /\ arch' = arch
        \/ arch[s] = None /\ file[s] # None /\ arch' = [arch EXCEPT ![s] = file[s]]
    BY <1>1 DEF Copy
  <2>3. Files' /\ arch'[s] # None /\ \A t \in Session : arch[t] # None => arch'[t] # None
    BY <1>0, <2>1, <2>2 DEF Files
  <2>4. \A t \in current.items \ current.todo : arch[t] # None
    BY <2>1, CurrentIs DEF OpOK
  <2>5. current.items \subseteq Session /\ current.todo \ {s} \subseteq current.items /\ current.phase \in Phases
    BY <2>1, CurrentIs
  <2>6. StoreOK'
    <3>1. ASSUME NEW q, q.kind = current.kind, q.items = current.items, q.todo = current.todo \ {s},
                 q.phase = current.phase
          PROVE  OpOK(q)'
      BY <2>1, <2>3, <2>4, <2>5, <3>1 DEF OpOK
    <3>2. queue' = [queue EXCEPT ![1] = [current EXCEPT !.todo = current.todo \ {s}, !.phase = current.phase]]
      BY <2>1, DoesIs
    <3> QED BY <2>1, <2>5, <3>1, <3>2, GoesOn
  <2>7. NeverOutOfSight'
    BY <1>0, <2>1, <2>3 DEF NeverOutOfSight
  <2> QED BY <2>3, <2>6, <2>7, StoreSteps
<1>2. ASSUME NEW s \in Session, RemoveOriginal(s) PROVE ArchiveInv'
  <2>1. /\ queue # <<>> /\ current.kind = "archive" /\ current.phase = "originals" /\ Does(s)
        /\ s \in current.todo /\ file' = [file EXCEPT ![s] = None]
        /\ UNCHANGED <<arch, records, results, said>>
    BY <1>2 DEF RemoveOriginal, Runs
  <2>2. Files'
    BY <1>0, <2>1 DEF Files, Content
  <2>3. \A t \in current.items : t \in records /\ arch[t] # None
    BY <2>1, CurrentIs DEF OpOK
  <2>4. current.todo \ {s} \subseteq current.items /\ current.phase \in Phases
    BY <2>1, CurrentIs
  <2>5. StoreOK'
    <3>1. ASSUME NEW q, q.kind = current.kind, q.items = current.items, q.todo = current.todo \ {s},
                 q.phase = current.phase
          PROVE  OpOK(q)'
      BY <2>1, <2>3, <3>1 DEF OpOK
    <3>2. queue' = [queue EXCEPT ![1] = [current EXCEPT !.todo = current.todo \ {s}, !.phase = current.phase]]
      BY <2>1, DoesIs
    <3> QED BY <2>1, <2>4, <3>1, <3>2, GoesOn
  <2>6. s \in records /\ arch[s] # None
    BY <2>1, <2>3, CurrentIs
  <2>7. NeverOutOfSight'
    BY <1>0, <2>1, <2>6 DEF NeverOutOfSight, Files
  <2> QED BY <2>2, <2>5, <2>7, StoreSteps
<1>3. CASE WriteArchived
  <2>1. /\ queue # <<>> /\ current.kind = "archive" /\ current.phase = "files" /\ current.todo = {}
        /\ records' = records \cup current.items /\ Enters("originals")
        /\ UNCHANGED <<file, arch, results, said>>
    BY <1>3 DEF WriteArchived, Runs
  <2>2. current.items \subseteq Session /\ \A t \in current.items : arch[t] # None
    BY <2>1, CurrentIs DEF OpOK
  <2>3. Files'
    BY <1>0, <2>1, <2>2 DEF Files
  <2>4. StoreOK'
    <3>1. ASSUME NEW q, q.kind = current.kind, q.items = current.items, q.todo = current.items,
                 q.phase = "originals"
          PROVE  OpOK(q)'
      BY <2>1, <2>2, <3>1 DEF OpOK
    <3> QED BY <2>1, <2>2, <3>1, EntersIs, GoesOn DEF Phases
  <2>5. NeverOutOfSight'
    BY <1>0, <2>1, <2>2 DEF NeverOutOfSight
  <2> QED BY <2>3, <2>4, <2>5, StoreSteps
<1>4. CASE Archived
  <2>1. queue # <<>> /\ Settles(current.items, TRUE) /\ UNCHANGED <<file, arch, records, said>>
    BY <1>4 DEF Archived, Runs
  <2>2. StoreOK'
    BY <2>1, CurrentIs, SettlesOK
  <2>3. Files' /\ NeverOutOfSight'
    BY <1>0, <2>1 DEF Files, NeverOutOfSight
  <2> QED BY <2>2, <2>3, StoreSteps
<1> QED BY <1>1, <1>2, <1>3, <1>4

\* Restoring and deleting: what leaves the index is in the sessions directory or was deleted.
LEMMA LeavingOK ==
  ASSUME ArchiveInv, UNCHANGED <<run, request, stale, marks>>, Remembers,
         \/ \E s \in Session : MoveBack(s) \/ CopyBack(s) \/ RemoveArchived(s) \/ Unlink(s)
         \/ NothingToRestore \/ Unlinked \/ WriteWithout \/ Refuses \/ Throws
  PROVE  ArchiveInv'
<1>0. Files /\ NeverOutOfSight
  BY DEF ArchiveInv, TypeOK, Files
<1>1. ASSUME NEW s \in Session, MoveBack(s) \/ CopyBack(s) PROVE ArchiveInv'
  <2>1. /\ queue # <<>> /\ current.kind = "restore" /\ current.phase = "files"
        /\ s \in current.items /\ s \in records /\ file[s] = None /\ arch[s] # None
        /\ file' = [file EXCEPT ![s] = arch[s]] /\ arch' \in {arch, [arch EXCEPT ![s] = None]}
        /\ UNCHANGED <<records, results, said>>
    BY <1>1 DEF MoveBack, CopyBack, Runs, Movable
  <2>2. PICK phase \in {"archived", "index"} : Enters(phase)
    BY <1>1 DEF MoveBack, CopyBack
  <2>3. current.items \subseteq Session /\ \A t \in current.items : t = s
    BY <2>1, CurrentIs DEF Requested, AtMostOne
  <2>4. Files' /\ file'[s] # None
    BY <1>0, <2>1 DEF Files, Content
  <2>5. StoreOK'
    <3>1. ASSUME NEW q, q.kind = current.kind, q.items = current.items, q.todo = current.items,
                 q.phase = phase
          PROVE  OpOK(q)'
      BY <2>1, <2>3, <2>4, <3>1 DEF OpOK
    <3>2. queue' = [queue EXCEPT ![1] = [current EXCEPT !.todo = current.items, !.phase = phase]]
      BY <2>1, <2>2, EntersIs
    <3>3. phase \in Phases
      BY DEF Phases
    <3> QED BY <2>1, <3>1, <3>2, <3>3, GoesOn
  <2>6. NeverOutOfSight'
    BY <1>0, <2>1, <2>4 DEF NeverOutOfSight, Files
  <2> QED BY <2>4, <2>5, <2>6, StoreSteps
<1>2. ASSUME NEW s \in Session, RemoveArchived(s) PROVE ArchiveInv'
  <2>1. /\ queue # <<>> /\ current.kind = "restore" /\ current.phase = "archived"
        /\ s \in current.items /\ arch' = [arch EXCEPT ![s] = None] /\ Enters("index")
        /\ UNCHANGED <<file, records, results, said>>
    BY <1>2 DEF RemoveArchived, Runs
  <2>2. current.items \subseteq Session /\ \A t \in current.items : file[t] # None
    BY <2>1, CurrentIs DEF OpOK
  <2>3. Files'
    BY <1>0, <2>1 DEF Files, Content
  <2>4. StoreOK'
    <3>1. ASSUME NEW q, q.kind = current.kind, q.items = current.items, q.todo = current.items,
                 q.phase = "index"
          PROVE  OpOK(q)'
      BY <2>1, <2>2, <3>1 DEF OpOK
    <3> QED BY <2>1, <2>2, <3>1, EntersIs, GoesOn DEF Phases
  <2>5. NeverOutOfSight'
    BY <1>0, <2>1, <2>2 DEF NeverOutOfSight, Files
  <2> QED BY <2>3, <2>4, <2>5, StoreSteps
<1>3. ASSUME NEW s \in Session, Unlink(s) PROVE ArchiveInv'
  <2>1. /\ queue # <<>> /\ current.kind = "delete" /\ current.phase = "files" /\ s \in current.todo
        /\ s \in records /\ arch' = [arch EXCEPT ![s] = None] /\ said' = [said EXCEPT ![s] = file[s]]
        /\ Does(s) /\ UNCHANGED <<file, records, results>>
    BY <1>3 DEF Unlink, Runs
  <2>2. /\ current.items \subseteq Session /\ current.todo \ {s} \subseteq current.items
        /\ current.phase \in Phases
        /\ \A t \in current.items \ current.todo : said[t] # None => file[t] # None
    BY <2>1, CurrentIs DEF OpOK
  <2>3. Files'
    BY <1>0, <2>1 DEF Files, Content
  <2>4. said'[s] = file[s] /\ \A t \in Session : t # s => said'[t] = said[t] /\ arch'[t] = arch[t]
    BY <1>0, <2>1 DEF Files
  <2>5. \A t \in current.items \ (current.todo \ {s}) : said'[t] # None => file[t] # None
    BY <2>2, <2>4
  <2>6. StoreOK'
    <3>1. ASSUME NEW q, q.kind = current.kind, q.items = current.items, q.todo = current.todo \ {s},
                 q.phase = current.phase
          PROVE  OpOK(q)'
      BY <2>1, <2>5, <3>1 DEF OpOK
    <3>2. queue' = [queue EXCEPT ![1] = [current EXCEPT !.todo = current.todo \ {s}, !.phase = current.phase]]
      BY <2>1, DoesIs
    <3> QED BY <2>1, <2>2, <3>1, <3>2, GoesOn
  <2>7. NeverOutOfSight'
    BY <1>0, <2>1, <2>4 DEF NeverOutOfSight
  <2> QED BY <2>3, <2>6, <2>7, StoreSteps
<1>4. CASE Unlinked
  <2>1. /\ queue # <<>> /\ current.kind = "delete" /\ current.phase = "files"
        /\ current.todo \cap records = {} /\ Enters("index")
        /\ UNCHANGED <<file, arch, records, results, said>>
    BY <1>4 DEF Unlinked, Runs
  <2>2. /\ current.items \subseteq Session
        /\ \A t \in current.items \ current.todo : said[t] # None => file[t] # None
    BY <2>1, CurrentIs DEF OpOK
  <2>3. \A t \in current.items : said[t] # None => file[t] # None
    BY <1>0, <2>1, <2>2 DEF NeverOutOfSight
  <2>4. StoreOK'
    <3>1. ASSUME NEW q, q.kind = current.kind, q.items = current.items, q.todo = current.items,
                 q.phase = "index"
          PROVE  OpOK(q)'
      BY <2>1, <2>3, <3>1 DEF OpOK
    <3> QED BY <2>1, <2>2, <3>1, EntersIs, GoesOn DEF Phases
  <2>5. Files' /\ NeverOutOfSight'
    BY <1>0, <2>1 DEF Files, NeverOutOfSight
  <2> QED BY <2>4, <2>5, StoreSteps
<1>5. CASE WriteWithout
  <2>1. /\ queue # <<>> /\ current.phase = "index" /\ records' = records \ current.items
        /\ Settles(current.items \cap records, TRUE) /\ UNCHANGED <<file, arch, said>>
    BY <1>5 DEF WriteWithout
  <2>2. \A t \in current.items : said[t] # None => file[t] # None
    BY <2>1, CurrentIs DEF OpOK, Kinds
  <2>3. StoreOK'
    <3>1. current.items \cap records \subseteq Session
      BY <2>1, CurrentIs
    <3> QED BY <2>1, <3>1, SettlesOK
  <2>4. Files' /\ NeverOutOfSight'
    BY <1>0, <2>1, <2>2 DEF Files, NeverOutOfSight
  <2> QED BY <2>3, <2>4, StoreSteps
<1>6. CASE NothingToRestore \/ Refuses \/ Throws
  <2>1. PICK ok \in BOOLEAN : Settles(current.items, ok)
    BY <1>6 DEF NothingToRestore, Refuses, Throws
  <2>2. queue # <<>> /\ UNCHANGED <<file, arch, records, said>>
    BY <1>6 DEF NothingToRestore, Refuses, Throws, Runs
  <2>3. StoreOK'
    BY <2>1, <2>2, CurrentIs, SettlesOK
  <2>4. Files' /\ NeverOutOfSight'
    BY <1>0, <2>2 DEF Files, NeverOutOfSight
  <2> QED BY <2>3, <2>4, StoreSteps
<1> QED BY <1>1, <1>2, <1>3, <1>4, <1>5, <1>6

-----------------------------------------------------------------------------
(* Requests and runtimes *)

\* Operations join the queue.
LEMMA JoinsOK ==
  ASSUME ArchiveInv, NEW ops \in Seq(OpKind),
         \A i \in DOMAIN ops : Requested(ops[i]) /\ Waits(ops[i]),
         queue' = queue \o ops, UNCHANGED <<file, arch, records, results, said>>
  PROVE  StoreOK'
<1>1. QueueOK /\ (queue # <<>> => OpOK(Head(queue))) /\ results \subseteq ResultKind
  BY DEF ArchiveInv, StoreOK
<1>2. /\ QueueOK'
      /\ queue # <<>> => queue' # <<>> /\ Head(queue') = Head(queue)
      /\ queue = <<>> /\ queue' # <<>> => Requested(Head(queue')) /\ Waits(Head(queue'))
  BY <1>1, QueueGrows
<1>3. queue' # <<>> => OpOK(Head(queue))'
  <2>1. CASE queue = <<>>
    BY <1>2, <2>1 DEF Requested, Waits, OpOK, OpKind
  <2>2. CASE queue # <<>>
    BY <1>1, <1>2, <2>2 DEF OpOK
  <2> QED BY <2>1, <2>2
<1> QED BY <1>1, <1>2, <1>3 DEF StoreOK

LEMMA JoinsOneOK ==
  ASSUME ArchiveInv, NEW c \in Client, NEW kind \in Kinds, NEW S \in SUBSET Session,
         kind = "restore" => AtMostOne(S),
         queue' = Append(queue, Operation(c, kind, S)),
         UNCHANGED <<file, arch, records, results, said>>
  PROVE  StoreOK'
<1> DEFINE op == Operation(c, kind, S)
<1>1. Requested(op) /\ Waits(op) /\ op \in OpKind
  BY OperationIs DEF Requested
<1>2. queue \in Seq(OpKind)
  BY DEF ArchiveInv, StoreOK, QueueOK
<1>3. queue' = Append(queue, op)
  OBVIOUS
<1> HIDE DEF op
<1>4. queue' = queue \o <<op>> /\ <<op>> \in Seq(OpKind)
  BY <1>1, <1>2, <1>3
<1>5. \A i \in DOMAIN <<op>> : Requested(<<op>>[i]) /\ Waits(<<op>>[i])
  BY <1>1
<1> QED BY <1>4, <1>5, JoinsOK

\* A store that does not move.
LEMMA SameStore ==
  ASSUME ArchiveInv, UNCHANGED store
  PROVE  StoreOK' /\ NeverOutOfSight' /\ Files'
BY DEF ArchiveInv, StoreOK, QueueOK, OpOK, NeverOutOfSight, TypeOK, Files, store

\* What clients begin.
LEMMA RequestOK == ASSUME ArchiveInv, NEW c \in Client, Request(c) PROVE ArchiveInv'
<1> USE DEF Goto
<1>0. /\ doing \in [Client -> Doing] /\ items \in [Client -> SUBSET Session]
      /\ seen \in [Client -> SeenKind] /\ Existing \subseteq Session /\ records \subseteq Session
  BY DEF ArchiveInv, RequestsOK, TypeOK, Existing
<1>1. CASE PlanArchive(c) \/ PlanDelete(c) \/ PlanRestore(c) \/ PlanDeleteOne(c) \/ \E s \in Session : Prompt(c, s)
  <2>1. PICK kind \in Doing \ {"listing", "moving", "marking"}, S \in SUBSET Session :
          /\ doing' = [doing EXCEPT ![c] = kind] /\ items' = [items EXCEPT ![c] = S]
          /\ kind = "restore" => AtMostOne(S)
          /\ UNCHANGED <<store, run, seen, stale, marks, history>>
    <3>1. CASE PlanArchive(c)
      BY <1>0, <3>1 DEF PlanArchive, Plan, Doing
    <3>2. CASE PlanDelete(c)
      BY <1>0, <3>2 DEF PlanDelete, Plan, Doing
    <3>3. CASE PlanRestore(c)
      <4>1. PICK s \in records : Plan(c, "restore", {s})
        BY <3>3 DEF PlanRestore
      <4>2. {s} \in SUBSET Session /\ AtMostOne({s}) /\ "restore" \in Doing \ {"listing", "moving", "marking"}
        BY <1>0 DEF AtMostOne, Doing
      <4> QED BY <4>1, <4>2 DEF Plan
    <3>4. CASE PlanDeleteOne(c)
      <4>1. PICK s \in records : Plan(c, "deleteOne", {s})
        BY <3>4 DEF PlanDeleteOne
      <4>2. {s} \in SUBSET Session /\ "deleteOne" \in Doing \ {"listing", "moving", "marking"}
        BY <1>0 DEF Doing
      <4> QED BY <4>1, <4>2 DEF Plan
    <3>5. CASE \E s \in Session : Prompt(c, s)
      <4>1. PICK s \in Session : Prompt(c, s)
        BY <3>5
      <4>2. {s} \in SUBSET Session /\ "prompting" \in Doing \ {"listing", "moving", "marking"}
        BY DEF Doing
      <4> QED BY <4>1, <4>2 DEF Prompt
    <3> QED BY <1>1, <3>1, <3>2, <3>3, <3>4, <3>5
  <2>2. StoreOK' /\ NeverOutOfSight' /\ Files'
    BY <2>1, SameStore
  <2>3. TypeOK' /\ ForgottenStaysForgotten'
    BY <1>0, <2>1 DEF ArchiveInv, TypeOK, ForgottenStaysForgotten, history, store
  <2>4. RequestsOK'
    BY <1>0, <2>1 DEF ArchiveInv, RequestsOK
  <2>5. ListingsKnow'
    BY <1>0, <2>1 DEF ArchiveInv, ListingsKnow, history
  <2> QED BY <2>2, <2>3, <2>4, <2>5 DEF ArchiveInv
<1>2. CASE List(c)
  <2>1. PICK S \in SUBSET Session : items' = [items EXCEPT ![c] = S]
    BY <1>2 DEF List
  <2>2. /\ doing' = [doing EXCEPT ![c] = "listing"] /\ seen' = [seen EXCEPT ![c] = Unread]
        /\ stale' = stale \ {c} /\ UNCHANGED <<store, run, marks, history>>
    BY <1>2 DEF List
  <2>3. StoreOK' /\ NeverOutOfSight' /\ Files'
    BY <2>2, SameStore
  <2>4. TypeOK' /\ ForgottenStaysForgotten'
    BY <1>0, <2>1, <2>2 DEF ArchiveInv, TypeOK, ForgottenStaysForgotten, history, store
  <2>5. RequestsOK'
    BY <1>0, <2>1, <2>2 DEF ArchiveInv, RequestsOK, Unread, SeenKind, Doing
  <2>6. ListingsKnow'
    BY <1>0, <2>2 DEF ArchiveInv, ListingsKnow, history, Unread
  <2> QED BY <2>3, <2>4, <2>5, <2>6 DEF ArchiveInv
<1> QED BY <1>1, <1>2 DEF Request

\* Requests go to the store and come back.
LEMMA ExecutionOK ==
  ASSUME ArchiveInv, NEW c \in Client, Execute(c) \/ ExecuteDeleteOne(c) \/ Complete(c) \/ StartRun(c)
  PROVE  ArchiveInv'
<1> USE DEF Goto
<1>0. /\ doing \in [Client -> Doing] /\ items \in [Client -> SUBSET Session]
      /\ seen \in [Client -> SeenKind] /\ records \subseteq Session /\ results \subseteq ResultKind
      /\ Files /\ NeverOutOfSight
  BY DEF ArchiveInv, RequestsOK, TypeOK, StoreOK, Files
<1>1. CASE Execute(c)
  <2> DEFINE free == {s \in items[c] : Idle(s) /\ (Reserved(s) => doing[c] \in {"restore", "tree"})}
             ready == IF doing[c] = "tree" /\ free # items[c] THEN {} ELSE free
             move == IF doing[c] = "tree" THEN "archive" ELSE doing[c]
  <2>1. /\ move \in Kinds /\ (move = "restore" => doing[c] = "restore")
        /\ doing' = [doing EXCEPT ![c] = IF ready = {} THEN "idle" ELSE "storing"]
        /\ items' = [items EXCEPT ![c] = ready]
        /\ queue' = IF ready = {} THEN queue ELSE Append(queue, Operation(c, move, ready))
        /\ UNCHANGED <<file, arch, records, results, said, run, seen, stale, marks, history>>
    BY <1>1 DEF Execute, Kinds
  <2>2. ready \subseteq items[c] /\ items[c] \subseteq Session
    BY <1>0
  <2> HIDE DEF free, ready, move
  <2>3. move = "restore" => AtMostOne(ready)
    BY <2>1, <2>2 DEF ArchiveInv, RequestsOK, AtMostOne
  <2>4. StoreOK'
    <3>1. CASE ready = {}
      BY <2>1, <3>1, SameStore DEF store
    <3>2. CASE ready # {}
      BY <2>1, <2>2, <2>3, <3>2, JoinsOneOK
    <3> QED BY <3>1, <3>2
  <2>5. TypeOK' /\ ForgottenStaysForgotten' /\ NeverOutOfSight'
    BY <1>0, <2>1, <2>2 DEF ArchiveInv, TypeOK, ForgottenStaysForgotten, history, NeverOutOfSight
  <2>6. RequestsOK'
    BY <1>0, <2>1 DEF ArchiveInv, RequestsOK, Doing
  <2>7. ListingsKnow'
    BY <1>0, <2>1 DEF ArchiveInv, ListingsKnow, history
  <2> QED BY <2>4, <2>5, <2>6, <2>7 DEF ArchiveInv
<1>2. CASE ExecuteDeleteOne(c)
  <2>1. /\ doing' = [doing EXCEPT ![c] = "deletingOne"]
        /\ run' = [s \in Session |-> IF s \in items[c] THEN "none" ELSE run[s]]
        /\ queue' = Append(queue, Operation(c, "delete", items[c]))
        /\ UNCHANGED <<file, arch, records, results, said, items, seen, stale, marks, history>>
    BY <1>2 DEF ExecuteDeleteOne
  <2>2. StoreOK'
    BY <1>0, <2>1, JoinsOneOK DEF Kinds
  <2>3. TypeOK' /\ ForgottenStaysForgotten' /\ NeverOutOfSight'
    BY <1>0, <2>1 DEF ArchiveInv, TypeOK, ForgottenStaysForgotten, history, NeverOutOfSight
  <2>4. RequestsOK'
    BY <1>0, <2>1 DEF ArchiveInv, RequestsOK, Doing
  <2>5. ListingsKnow'
    BY <1>0, <2>1 DEF ArchiveInv, ListingsKnow, history
  <2> QED BY <2>2, <2>3, <2>4, <2>5 DEF ArchiveInv
<1>3. CASE Complete(c)
  <2>1. PICK r \in Returned(c) :
          /\ IF r.ok THEN Forget(r.items) ELSE UNCHANGED <<marks, worked, stale>>
          /\ settled' = IF r.ok THEN settled \cup (r.items \cap records) ELSE settled
          /\ results' = results \ {r}
    BY <1>3 DEF Complete
  <2>2. /\ doing' = [doing EXCEPT ![c] = "idle"] /\ items' = [items EXCEPT ![c] = {}]
        /\ UNCHANGED <<file, arch, records, queue, said, run, seen>>
    BY <1>3 DEF Complete
  <2>3. r.ok \in BOOLEAN /\ r.items \subseteq Session
    BY <1>0 DEF Returned, ResultKind
  <2>4. \/ marks' = marks \ r.items /\ worked' = worked \ r.items /\ settled' = settled \cup (r.items \cap records)
           /\ (stale' = Client \/ (r.items = {} /\ stale' = stale))
        \/ UNCHANGED <<marks, worked, stale, settled>>
    BY <2>1, <2>3 DEF Forget
  <2>5. StoreOK'
    BY <1>0, <2>1, <2>2 DEF ArchiveInv, StoreOK, QueueOK, OpOK
  <2>6. TypeOK' /\ NeverOutOfSight'
    BY <1>0, <2>2, <2>3, <2>4 DEF ArchiveInv, TypeOK, NeverOutOfSight
  <2>7. ForgottenStaysForgotten'
    BY <2>3, <2>4 DEF ArchiveInv, ForgottenStaysForgotten
  <2>8. RequestsOK'
    BY <1>0, <2>2 DEF ArchiveInv, RequestsOK, Doing
  <2>9. ListingsKnow'
    BY <1>0, <2>2, <2>4 DEF ArchiveInv, ListingsKnow, history
  <2> QED BY <2>5, <2>6, <2>7, <2>8, <2>9 DEF ArchiveInv
<1>4. CASE StartRun(c)
  <2>1. /\ doing' = [doing EXCEPT ![c] = "idle"] /\ items' = [items EXCEPT ![c] = {}]
        /\ run' = [s \in Session |-> IF s \in items[c] THEN Opened(s) ELSE run[s]]
        /\ UNCHANGED <<store, seen, stale, marks, history>>
    BY <1>4 DEF StartRun
  <2>2. StoreOK' /\ NeverOutOfSight'
    BY <2>1, SameStore
  <2>3. run' \in [Session -> {"none", "file", "arch"}]
    BY <2>1 DEF ArchiveInv, TypeOK, Opened
  <2>4. TypeOK' /\ ForgottenStaysForgotten'
    BY <1>0, <2>1, <2>3 DEF ArchiveInv, TypeOK, ForgottenStaysForgotten, history, store
  <2>5. RequestsOK'
    BY <1>0, <2>1 DEF ArchiveInv, RequestsOK, Doing
  <2>6. ListingsKnow'
    BY <1>0, <2>1 DEF ArchiveInv, ListingsKnow, history
  <2> QED BY <2>2, <2>4, <2>5, <2>6 DEF ArchiveInv
<1> QED BY <1>1, <1>2, <1>3, <1>4

\* Listings: what they have read, and what they do with it.
LEMMA ListingOK ==
  ASSUME ArchiveInv, NEW c \in Client,
         ReadFiles(c) \/ ReadIndex(c) \/ FinishMoves(c) \/ Reconcile(c) \/ Mark(c)
  PROVE  ArchiveInv'
<1> USE DEF Goto
<1>0. /\ doing \in [Client -> Doing] /\ items \in [Client -> SUBSET Session]
      /\ seen \in [Client -> SeenKind] /\ records \subseteq Session /\ results \subseteq ResultKind
      /\ marks \subseteq Session /\ settled \subseteq records
  BY DEF ArchiveInv, RequestsOK, TypeOK, StoreOK
<1>1. CASE ReadFiles(c) \/ ReadIndex(c)
  <2>1. /\ doing[c] = "listing" /\ UNCHANGED <<store, run, doing, items, stale, marks, history>>
        /\ \/ seen' = [seen EXCEPT ![c].files = Existing]
           \/ seen' = [seen EXCEPT ![c].index = records]
    BY <1>1 DEF ReadFiles, ReadIndex
  <2>2. Existing \subseteq Session
    BY DEF Existing
  <2>3. seen' \in [Client -> SeenKind]
    BY <1>0, <2>1, <2>2 DEF SeenKind
  <2>4. /\ \A d \in Client : d # c => seen'[d] = seen[d]
        /\ seen'[c].index \in {seen[c].index, records}
    BY <1>0, <2>1 DEF SeenKind
  <2>5. StoreOK' /\ NeverOutOfSight'
    BY <2>1, SameStore
  <2>6. TypeOK' /\ ForgottenStaysForgotten'
    BY <1>0, <2>1 DEF ArchiveInv, TypeOK, ForgottenStaysForgotten, history, store
  <2>7. RequestsOK'
    BY <1>0, <2>1, <2>3 DEF ArchiveInv, RequestsOK
  <2>8. ListingsKnow'
    BY <1>0, <2>1, <2>4 DEF ArchiveInv, ListingsKnow, history
  <2> QED BY <2>5, <2>6, <2>7, <2>8 DEF ArchiveInv
<1>2. CASE FinishMoves(c)
  <2> DEFINE S == {s \in seen[c].files \cap seen[c].index : Idle(s)}
             left == SetToSeq(S)
             ops == [i \in DOMAIN left |-> Operation(c, "archive", {left[i]})]
  <2>1. /\ doing[c] = "listing" /\ doing' = [doing EXCEPT ![c] = "moving"]
        /\ seen[c].files # None /\ seen[c].index # None
        /\ queue' = queue \o ops
        /\ UNCHANGED <<file, arch, records, results, said, run, items, seen, stale, marks, history>>
    BY <1>2 DEF FinishMoves
  <2>2. S \in SUBSET Session
    BY <1>0, <2>1 DEF SeenKind
  <2> HIDE DEF S
  <2>3. left \in Seq(S) /\ \A i \in DOMAIN left : {left[i]} \in SUBSET Session
    <3>1. left \in Seq(S)
      BY <2>2, SomeOrder
    <3> HIDE DEF left
    <3> QED BY <2>2, <3>1
  <2> HIDE DEF left
  <2>4. DOMAIN left = 1..Len(left) /\ Len(left) \in Nat
    BY <2>3
  <2>5. \A i \in DOMAIN left : Requested(ops[i]) /\ Waits(ops[i])
    BY <2>3, OperationIs DEF Kinds
  <2>6. ops \in Seq(OpKind) /\ DOMAIN ops = DOMAIN left
    <3>1. \A i \in DOMAIN left : Operation(c, "archive", {left[i]}) \in OpKind
      BY <2>5 DEF Requested
    <3> QED BY <2>4, <3>1
  <2> HIDE DEF ops
  <2>7. StoreOK'
    BY <2>1, <2>5, <2>6, JoinsOK
  <2>8. TypeOK' /\ ForgottenStaysForgotten' /\ NeverOutOfSight'
    BY <1>0, <2>1 DEF ArchiveInv, TypeOK, ForgottenStaysForgotten, history, NeverOutOfSight
  <2>9. RequestsOK'
    BY <1>0, <2>1 DEF ArchiveInv, RequestsOK, Doing
  <2>10. ListingsKnow'
    BY <1>0, <2>1 DEF ArchiveInv, ListingsKnow, history
  <2> QED BY <2>7, <2>8, <2>9, <2>10 DEF ArchiveInv
<1>3. CASE Reconcile(c)
  <2>1. /\ doing[c] = "moving" /\ doing' = [doing EXCEPT ![c] = "marking"]
        /\ results' \subseteq results /\ marks' \subseteq marks /\ worked' = worked \cap marks'
        /\ UNCHANGED <<file, arch, records, queue, said, run, items, seen, stale, settled>>
    BY <1>3 DEF Reconcile
  <2>2. StoreOK'
    BY <1>0, <2>1 DEF ArchiveInv, StoreOK, QueueOK, OpOK
  <2>3. TypeOK' /\ ForgottenStaysForgotten' /\ NeverOutOfSight'
    BY <1>0, <2>1 DEF ArchiveInv, TypeOK, ForgottenStaysForgotten, history, NeverOutOfSight
  <2>4. RequestsOK'
    BY <1>0, <2>1 DEF ArchiveInv, RequestsOK, Doing
  <2>5. ListingsKnow'
    BY <1>0, <2>1 DEF ArchiveInv, ListingsKnow, history
  <2> QED BY <2>2, <2>3, <2>4, <2>5 DEF ArchiveInv
<1>4. CASE Mark(c)
  <2>1. /\ doing[c] = "marking" /\ doing' = [doing EXCEPT ![c] = "idle"]
        /\ marks' = IF c \in stale THEN marks ELSE marks \cup (items[c] \cap Listed(c))
        /\ items' = [items EXCEPT ![c] = {}] /\ seen' = [seen EXCEPT ![c] = Unread]
        /\ UNCHANGED <<store, run, stale, history>>
    BY <1>4 DEF Mark
  <2>2. c \notin stale => Listed(c) \cap settled = {}
    BY <2>1 DEF ArchiveInv, ListingsKnow, Listed
  <2>3. StoreOK' /\ NeverOutOfSight'
    BY <2>1, SameStore
  <2>4. TypeOK' /\ ForgottenStaysForgotten'
    BY <1>0, <2>1, <2>2 DEF ArchiveInv, TypeOK, ForgottenStaysForgotten, history, store
  <2>5. RequestsOK'
    BY <1>0, <2>1 DEF ArchiveInv, RequestsOK, Unread, SeenKind, Doing
  <2>6. ListingsKnow'
    BY <1>0, <2>1 DEF ArchiveInv, ListingsKnow, history
  <2> QED BY <2>3, <2>4, <2>5, <2>6 DEF ArchiveInv
<1> QED BY <1>1, <1>2, <1>3, <1>4

\* Runtimes append to transcripts, which are there afterwards, or end.
LEMMA RunsOK == ASSUME ArchiveInv, NEW s \in Session, Say(s) \/ EndRun(s) PROVE ArchiveInv'
<1>0. /\ file \in [Session -> Content] /\ arch \in [Session -> Content] /\ said \in [Session -> Content]
      /\ run \in [Session -> {"none", "file", "arch"}] /\ items \in [Client -> SUBSET Session]
  BY DEF ArchiveInv, TypeOK
<1>1. CASE Say(s)
  <2>1. PICK m \in 1..MaxMessages :
          /\ Messages(said[s]) = 1..(m - 1)
          /\ said' = IF said[s] = None THEN said ELSE [said EXCEPT ![s] = 1..m]
          /\ \/ /\ file' = [file EXCEPT ![s] = Messages(file[s]) \cup {m}] /\ arch' = arch
             \/ /\ arch' = [arch EXCEPT ![s] = Messages(arch[s]) \cup {m}] /\ file' = file
    BY <1>1 DEF Say
  <2>2. UNCHANGED <<records, queue, results, run, request, stale, marks, history>>
    BY <1>1 DEF Say
  <2>3. ASSUME NEW t \in Content
        PROVE  Messages(t) \cup {m} \in Content /\ Messages(t) \cup {m} # None
    <3>1. m \in Nat /\ 1..MaxMessages \subseteq Nat /\ m \in 1..MaxMessages
      BY SessionAssumption
    <3>2. Messages(t) \cup {m} \subseteq 1..MaxMessages
      BY <3>1 DEF Messages, Content
    <3> QED BY <3>2, NoneAssumption DEF Content
  <2>4. 1..m \in Content
    BY SessionAssumption DEF Content
  <2>5. /\ Files'
        /\ \A t \in Session : file[t] # None => file'[t] # None
        /\ \A t \in Session : arch[t] # None => arch'[t] # None
        /\ \A t \in Session : said'[t] # None => said[t] # None
    <3>1. file'[s] # None \/ file' = file
      BY <1>0, <2>1, <2>3
    <3>2. arch'[s] # None \/ arch' = arch
      BY <1>0, <2>1, <2>3
    <3>3. \A t \in Session : t # s => file'[t] = file[t] /\ arch'[t] = arch[t] /\ said'[t] = said[t]
      BY <1>0, <2>1
    <3>4. said[s] = None => said' = said
      BY <2>1
    <3>5. file' \in [Session -> Content] /\ arch' \in [Session -> Content]
      BY <1>0, <2>1, <2>3
    <3>6. said' \in [Session -> Content]
      BY <1>0, <2>1, <2>4
    <3>7. records' \subseteq Session
      BY <2>2 DEF ArchiveInv, TypeOK
    <3> QED BY <3>1, <3>2, <3>3, <3>4, <3>5, <3>6, <3>7 DEF Files
  <2>6. StoreOK'
    <3>1. ASSUME queue # <<>> PROVE OpOK(Head(queue))'
      <4>1. PICK q : q = Head(queue)
        OBVIOUS
      <4>2. Requested(q) /\ OpOK(q) /\ q.items \subseteq Session /\ Head(queue') = q
        BY <2>2, <3>1, <4>1, CurrentIs DEF current
      <4>3. records' = records
        BY <2>2
      <4>4. OpOK(q)'
        BY <2>5, <4>2, <4>3 DEF OpOK
      <4> QED BY <4>2, <4>4
    <3> QED BY <2>2, <3>1 DEF ArchiveInv, StoreOK, QueueOK
  <2>10. NeverOutOfSight'
    <3>1. records' = records /\ NeverOutOfSight
      BY <2>2 DEF ArchiveInv
    <3> QED BY <2>5, <3>1 DEF NeverOutOfSight
  <2>8. TypeOK' /\ ForgottenStaysForgotten'
    BY <1>0, <2>2, <2>5 DEF ArchiveInv, TypeOK, Files, ForgottenStaysForgotten, history, request
  <2>9. RequestsOK' /\ ListingsKnow'
    BY <2>2 DEF ArchiveInv, RequestsOK, ListingsKnow, request, history
  <2> QED BY <2>6, <2>10, <2>8, <2>9 DEF ArchiveInv
<1>2. CASE EndRun(s)
  <2>1. /\ run' = [run EXCEPT ![s] = "none"] /\ UNCHANGED <<store, request, stale, settled>>
        /\ \/ marks' = marks \cup {s} /\ worked' = worked \cup ({s} \cap settled)
           \/ UNCHANGED <<marks, worked>>
    BY <1>2 DEF EndRun
  <2>2. StoreOK' /\ NeverOutOfSight'
    BY <2>1, SameStore
  <2>3. TypeOK' /\ ForgottenStaysForgotten'
    BY <1>0, <2>1 DEF ArchiveInv, TypeOK, ForgottenStaysForgotten, history, store, request
  <2>4. RequestsOK' /\ ListingsKnow'
    BY <2>1 DEF ArchiveInv, RequestsOK, ListingsKnow, request, history
  <2> QED BY <2>2, <2>3, <2>4 DEF ArchiveInv
<1> QED BY <1>1, <1>2

\* A crash tears at most a file that the other one still stands for.
LEMMA CrashOK == ASSUME ArchiveInv, Crash PROVE ArchiveInv'
<1>0. Files /\ NeverOutOfSight
  BY DEF ArchiveInv, TypeOK, Files
<1>1. /\ queue' = <<>> /\ results' = {} /\ UNCHANGED <<records, said, marks, history>>
      /\ run' = [t \in Session |-> "none"] /\ doing' = [c \in Client |-> "idle"]
      /\ items' = [c \in Client |-> {}] /\ seen' = [c \in Client |-> Unread] /\ stale' = {}
  BY DEF Crash, StoreCrash
<1>2. Files' /\ NeverOutOfSight'
  <2>1. \/ UNCHANGED <<file, arch>>
        \/ \E s \in Session :
             /\ Runs("archive", "files") /\ s \in current.todo /\ file[s] # None
             /\ \E part \in Torn(file[s], arch[s]) : arch' = [arch EXCEPT ![s] = part]
             /\ UNCHANGED file
        \/ \E s \in Session :
             /\ Runs("restore", "files") /\ Movable(s)
             /\ \E part \in Torn(arch[s], file[s]) : file' = [file EXCEPT ![s] = part]
             /\ UNCHANGED arch
    BY DEF Crash, StoreCrash
  <2>2. CASE UNCHANGED <<file, arch>>
    BY <1>0, <1>1, <2>2 DEF Files, NeverOutOfSight
  <2>3. ASSUME NEW s \in Session, file[s] # None, UNCHANGED file,
               NEW part \in Torn(file[s], arch[s]), arch' = [arch EXCEPT ![s] = part]
        PROVE  Files' /\ NeverOutOfSight'
    <3>1. part \in Content
      BY <1>0, <2>3 DEF Files, Content, Torn
    <3>2. Files'
      BY <1>0, <1>1, <2>3, <3>1 DEF Files
    <3>3. NeverOutOfSight'
      BY <1>0, <1>1, <2>3 DEF Files, NeverOutOfSight
    <3> QED BY <3>2, <3>3
  <2>4. ASSUME NEW s \in Session, s \in records, arch[s] # None, UNCHANGED arch,
               NEW part \in Torn(arch[s], file[s]), file' = [file EXCEPT ![s] = part]
        PROVE  Files' /\ NeverOutOfSight'
    <3>1. part \in Content
      BY <1>0, <2>4 DEF Files, Content, Torn
    <3>2. Files'
      BY <1>0, <1>1, <2>4, <3>1 DEF Files
    <3>3. NeverOutOfSight'
      BY <1>0, <1>1, <2>4 DEF Files, NeverOutOfSight
    <3> QED BY <3>2, <3>3
  <2> QED BY <2>1, <2>2, <2>3, <2>4 DEF Movable
<1>3. StoreOK'
  BY <1>1 DEF StoreOK, QueueOK
<1>4. TypeOK' /\ ForgottenStaysForgotten'
  BY <1>1, <1>2 DEF Files, ArchiveInv, TypeOK, ForgottenStaysForgotten, history
<1>5. RequestsOK' /\ ListingsKnow'
  BY <1>1 DEF RequestsOK, ListingsKnow, history, Doing, SeenKind, Unread
<1> QED BY <1>2, <1>3, <1>4, <1>5 DEF ArchiveInv

LEMMA ArchiveInvHolds == Spec => []ArchiveInv
<1>1. Init => ArchiveInv
  <2> SUFFICES ASSUME Init PROVE ArchiveInv
    OBVIOUS
  <2>1. TypeOK /\ NeverOutOfSight /\ ForgottenStaysForgotten
    <3>1. {} \in Content /\ None \in Content
      BY DEF Content
    <3> QED BY <3>1 DEF Init, StoreInit, TypeOK, NeverOutOfSight, ForgottenStaysForgotten
  <2>2. StoreOK
    BY DEF Init, StoreInit, StoreOK, QueueOK
  <2>3. RequestsOK /\ ListingsKnow
    BY DEF Init, RequestsOK, ListingsKnow, Doing, SeenKind, Unread
  <2> QED BY <2>1, <2>2, <2>3 DEF ArchiveInv
<1>2. ArchiveInv /\ [Next]_vars => ArchiveInv'
  <2> SUFFICES ASSUME ArchiveInv, [Next]_vars PROVE ArchiveInv'
    OBVIOUS
  <2>1. CASE UNCHANGED vars
    <3>1. UNCHANGED <<run, request, stale, marks, history>> /\ UNCHANGED store
      BY <2>1 DEF vars
    <3>2. Remembers
      BY <3>1 DEF Remembers, history, store, ArchiveInv, TypeOK
    <3> QED BY <3>1, <3>2, SameStore, StoreSteps
  <2>2. CASE Store
    <3>1. UNCHANGED <<run, request, stale, marks>> /\ Remembers /\ StoreStep
      BY <2>2 DEF Store, Remembers
    <3> QED BY <3>1, ArchivingOK, LeavingOK DEF StoreStep, Progress
  <2>3. ASSUME NEW c \in Client, Request(c) \/ Continue(c) PROVE ArchiveInv'
    BY <2>3, RequestOK, ExecutionOK, ListingOK DEF Continue
  <2> QED BY <2>1, <2>2, <2>3, RunsOK, CrashOK DEF Next
<1> QED BY <1>1, <1>2, PTL DEF Spec

-----------------------------------------------------------------------------

\* Every variable holds a value of its kind.
THEOREM ArchiveTypeCorrect == Spec => []TypeOK
<1>1. ArchiveInv => TypeOK
  BY DEF ArchiveInv
<1> QED BY <1>1, ArchiveInvHolds, PTL

\* For any finite set of sessions, any clients and messages: wherever an operation is
\* interrupted, by a failure or a crash, a session that was not deleted can be found again.
THEOREM SessionsStayInSight == Spec => []NeverOutOfSight
<1>1. ArchiveInv => NeverOutOfSight
  BY DEF ArchiveInv
<1> QED BY <1>1, ArchiveInvHolds, PTL

\* However listings and requests of any clients overlap, they never mark an archived session
\* whose request has ended: only work that ended in it since does.
THEOREM TheForgottenStayForgotten == Spec => []ForgottenStaysForgotten
<1>1. ArchiveInv => ForgottenStaysForgotten
  BY DEF ArchiveInv
<1> QED BY <1>1, ArchiveInvHolds, PTL

=============================================================================
