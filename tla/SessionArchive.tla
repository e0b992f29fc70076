--------------------------- MODULE SessionArchive ---------------------------
(***************************************************************************)
(* Who moves sessions in and out of the archive: the requests of clients,  *)
(* the listing that finishes moves it finds half done, prompts, and the    *)
(* unread marks that archived sessions must not keep                       *)
(* (src/src/server/sessions/piSessionService.ts), around the store of      *)
(* SessionArchiveStore.                                                    *)
(*                                                                         *)
(* All sessions belong to one directory and one scope.  run[s] says that a *)
(* runtime has the session open and which of the two files it appends to;  *)
(* requests find it at work until it is closed.                            *)
(***************************************************************************)
EXTENDS SessionArchiveStore, FiniteSets, SequencesExt

CONSTANT MaxMessages  \* bound: messages of a session

ASSUME SessionAssumption == IsFiniteSet(Session) /\ MaxMessages \in Nat
ASSUME NoneAssumption == \A transcript \in SUBSET (1..MaxMessages) : transcript # None

VARIABLES
  run,      \* session -> "file", "arch" or "none"
  doing,    \* client -> what its request is about to do
  items,    \* client -> the sessions it is about
  seen,     \* client -> the sessions directory and the index as its listing read them
  stale,    \* the clients whose listing is older than unreadEligibilityRevision
  marks,    \* the sessions marked as unread
  settled,  \* history: archived sessions whose request has ended well
  worked    \* history: those of them that work has marked since

history == <<settled, worked>>

request == <<doing, items, seen>>
vars == <<store, run, request, stale, marks, history>>

Unread == [files |-> None, index |-> None]

Goto(c, from, to) == doing[c] = from /\ doing' = [doing EXCEPT ![c] = to]

\* runTreeExclusiveOperation holds a session from its check to the end.
Reserved(s) == \E c \in Client : doing[c] = "storing" /\ s \in items[c]

Existing == {s \in Session : file[s] # None}

Idle(s) == run[s] = "none"

-----------------------------------------------------------------------------
(* archive, archiveMany, archiveTree, restore, deleteArchived, deleteArchivedMany, cleanup *)

\* A request finds its sessions in a list and an index it has awaited.
Plan(c, kind, S) ==
  /\ Goto(c, "idle", kind)
  /\ S # {}
  /\ items' = [items EXCEPT ![c] = S]
  /\ UNCHANGED <<store, run, seen, stale, marks, history>>

PlanArchive(c) ==
  \E S \in SUBSET (Existing \ records), kind \in {"archive", "tree"} : Plan(c, kind, S)
PlanDelete(c) == \E S \in SUBSET records : Plan(c, "delete", S)
PlanRestore(c) == \E s \in records : Plan(c, "restore", {s})
PlanDeleteOne(c) == \E s \in records : Plan(c, "deleteOne", {s})

\* Sessions at work or held by another request are left out, or refuse it; the
\* store is called for the others.  A tree is archived whole or not at all.  Neither it nor
\* restore minds a session that is held and has no runtime.
Execute(c) ==
  LET kind == doing[c]
      free == {s \in items[c] : Idle(s) /\ (Reserved(s) => kind \in {"restore", "tree"})}
      ready == IF kind = "tree" /\ free # items[c] THEN {} ELSE free
      move == IF kind = "tree" THEN "archive" ELSE kind
  IN  /\ kind \in {"archive", "tree", "delete", "restore"}
      /\ doing' = [doing EXCEPT ![c] = IF ready = {} THEN "idle" ELSE "storing"]
      /\ items' = [items EXCEPT ![c] = ready]
      /\ queue' = IF ready = {} THEN queue ELSE Append(queue, Operation(c, move, ready))
      /\ UNCHANGED <<file, arch, records, results, said, run, seen, stale, marks, history>>

\* deleteArchived closes the session whatever it does, and reserves nothing.
ExecuteDeleteOne(c) ==
  /\ Goto(c, "deleteOne", "deletingOne")
  /\ run' = [s \in Session |-> IF s \in items[c] THEN "none" ELSE run[s]]
  /\ queue' = Append(queue, Operation(c, "delete", items[c]))
  /\ UNCHANGED <<file, arch, records, results, said, items, seen, stale, marks, history>>

\* forgetUnreadSessions.
Forget(S) ==
  /\ marks' = marks \ S /\ worked' = worked \ S
  /\ stale' = IF S = {} THEN stale ELSE Client

Returned(c) == {r \in results : r.by = c}

\* The store has answered; an error ends the request at once.
Complete(c) ==
  /\ \E r \in Returned(c) :
       /\ IF r.ok THEN Forget(r.items) ELSE UNCHANGED <<marks, worked, stale>>
       /\ settled' = IF r.ok THEN settled \cup (r.items \cap records) ELSE settled
       /\ results' = results \ {r}
  /\ Goto(c, "storing", "idle") \/ Goto(c, "deletingOne", "idle")
  /\ items' = [items EXCEPT ![c] = {}]
  /\ UNCHANGED <<file, arch, records, queue, said, run, seen>>

-----------------------------------------------------------------------------
(* listWorkspaceSessions and markUnread *)

\* markUnread takes the revision and lists; a plain listing marks nothing.
List(c) ==
  /\ Goto(c, "idle", "listing")
  /\ \E S \in SUBSET Session : Cardinality(S) <= 1 /\ items' = [items EXCEPT ![c] = S]
  /\ stale' = stale \ {c}
  /\ seen' = [seen EXCEPT ![c] = Unread]
  /\ UNCHANGED <<store, run, marks, history>>

ReadFiles(c) ==
  /\ doing[c] = "listing"
  /\ seen[c].files = None
  /\ seen' = [seen EXCEPT ![c].files = Existing]
  /\ UNCHANGED <<store, run, doing, items, stale, marks, history>>

ReadIndex(c) ==
  /\ doing[c] = "listing"
  /\ seen[c].index = None
  /\ seen' = [seen EXCEPT ![c].index = records]
  /\ UNCHANGED <<store, run, doing, items, stale, marks, history>>

\* Mutant of FinishMoves: an archived session counts as moved.
TrustMoves(c) ==
  /\ Goto(c, "listing", "moving")
  /\ seen[c].files # None /\ seen[c].index # None
  /\ UNCHANGED <<store, run, items, seen, stale, marks, history>>

\* ensureArchivedSessionMoved: each archived session whose transcript is still
\* there is archived again.
FinishMoves(c) ==
  /\ Goto(c, "listing", "moving")
  /\ seen[c].files # None /\ seen[c].index # None
  /\ LET left == SetToSeq({s \in seen[c].files \cap seen[c].index : Idle(s)})
     IN  queue' = queue \o [i \in DOMAIN left |-> Operation(c, "archive", {left[i]})]
  /\ UNCHANGED <<file, arch, records, results, said, run, items, seen, stale, marks, history>>

Listed(c) == seen[c].files \ seen[c].index

\* reconcileCwd drops the unread state of what is not listed; errors of the
\* moves are swallowed.
Reconcile(c) ==
  /\ Goto(c, "moving", "marking")
  /\ \A i \in DOMAIN queue : queue[i].by # c
  /\ results' = results \ Returned(c)
  /\ marks' = marks \cap (Listed(c) \cup {s \in Session \ seen[c].index : ~Idle(s)})
  /\ worked' = worked \cap marks'
  /\ UNCHANGED <<file, arch, records, queue, said, run, items, seen, stale, settled>>

\* Mutant of Mark: the row decides alone.
MarkByRow(c) ==
  /\ Goto(c, "marking", "idle")
  /\ marks' = marks \cup (items[c] \cap Listed(c))
  /\ items' = [items EXCEPT ![c] = {}]
  /\ seen' = [seen EXCEPT ![c] = Unread]
  /\ UNCHANGED <<store, run, stale, history>>

\* The row must be unarchived and the revision still the one taken at the start.
Mark(c) ==
  /\ Goto(c, "marking", "idle")
  /\ marks' = IF c \in stale THEN marks ELSE marks \cup (items[c] \cap Listed(c))
  /\ items' = [items EXCEPT ![c] = {}]
  /\ seen' = [seen EXCEPT ![c] = Unread]
  /\ UNCHANGED <<store, run, stale, history>>

-----------------------------------------------------------------------------
(* Prompts *)

\* assertWritable.
Prompt(c, s) ==
  /\ Goto(c, "idle", "prompting")
  /\ s \notin records
  /\ items' = [items EXCEPT ![c] = {s}]
  /\ UNCHANGED <<store, run, seen, stale, marks, history>>

\* getOrOpen joins the runtime at work, or opens what is there by now.
Opened(s) ==
  IF ~Idle(s) THEN run[s]
  ELSE IF s \in records /\ arch[s] # None THEN "arch"
  ELSE IF s \notin records /\ file[s] # None THEN "file"
  ELSE "none"

StartRun(c) ==
  /\ Goto(c, "prompting", "idle")
  /\ run' = [s \in Session |-> IF s \in items[c] THEN Opened(s) ELSE run[s]]
  /\ items' = [items EXCEPT ![c] = {}]
  /\ UNCHANGED <<store, seen, stale, marks, history>>

Messages(transcript) == IF transcript = None THEN {} ELSE transcript

\* The runtime appends to the path it has opened, and creates the file if it has gone;
\* what it adds to a deleted session nobody expects to find.
Say(s) ==
  /\ \E m \in 1..MaxMessages :
       /\ Messages(said[s]) = 1..(m - 1)
       /\ said' = IF said[s] = None THEN said ELSE [said EXCEPT ![s] = 1..m]
       /\ \/ /\ run[s] = "file"
             /\ file' = [file EXCEPT ![s] = Messages(@) \cup {m}]
             /\ UNCHANGED arch
          \/ /\ run[s] = "arch"
             /\ arch' = [arch EXCEPT ![s] = Messages(@) \cup {m}]
             /\ UNCHANGED file
  /\ UNCHANGED <<records, queue, results, run, request, stale, marks, history>>

\* observeActivityState: work that ends marks its session, archived or not, unless that is a
\* subsession or was forgotten since it was last seen at work.
EndRun(s) ==
  /\ ~Idle(s)
  /\ run' = [run EXCEPT ![s] = "none"]
  /\ \/ /\ marks' = marks \cup {s}
        /\ worked' = worked \cup ({s} \cap settled)
     \/ UNCHANGED <<marks, worked>>
  /\ UNCHANGED <<store, request, stale, settled>>

-----------------------------------------------------------------------------

\* Unread state is durable.
Crash ==
  /\ StoreCrash
  /\ run' = [s \in Session |-> "none"]
  /\ doing' = [c \in Client |-> "idle"]
  /\ items' = [c \in Client |-> {}]
  /\ seen' = [c \in Client |-> Unread]
  /\ stale' = {}
  /\ UNCHANGED <<marks, history>>

Init ==
  /\ StoreInit
  /\ run = [s \in Session |-> "none"]
  /\ doing = [c \in Client |-> "idle"]
  /\ items = [c \in Client |-> {}]
  /\ seen = [c \in Client |-> Unread]
  /\ stale = {}
  /\ marks = {} /\ settled = {} /\ worked = {}

Request(c) ==
  \/ PlanArchive(c) \/ PlanDelete(c) \/ PlanDeleteOne(c) \/ PlanRestore(c)
  \/ List(c)
  \/ \E s \in Session : Prompt(c, s)

Continue(c) ==
  \/ Execute(c) \/ ExecuteDeleteOne(c) \/ Complete(c)
  \/ ReadFiles(c) \/ ReadIndex(c) \/ FinishMoves(c) \/ Reconcile(c) \/ Mark(c)
  \/ StartRun(c)

Store ==
  /\ StoreStep
  /\ settled' = settled \cap records' /\ worked' = worked \cap records'
  /\ UNCHANGED <<run, request, stale, marks>>

Next ==
  \/ Store
  \/ \E c \in Client : Request(c) \/ Continue(c)
  \/ \E s \in Session : Say(s) \/ EndRun(s)
  \/ Crash

Spec == Init /\ [][Next]_vars

-----------------------------------------------------------------------------
(* What archiving promises *)

Content == {None} \cup SUBSET (1..MaxMessages)

\* Every variable holds a value of its kind.
TypeOK ==
  /\ file \in [Session -> Content] /\ arch \in [Session -> Content]
  /\ said \in [Session -> Content]
  /\ records \subseteq Session /\ marks \subseteq Session /\ settled \subseteq records
  /\ worked \subseteq settled
  /\ run \in [Session -> {"none", "file", "arch"}]
  /\ items \in [Client -> SUBSET Session]

\* A session that was not deleted can be found again, whatever failed between two steps: in
\* the sessions directory, or by the index and then in one of the directories.
NeverOutOfSight ==
  \A s \in Session : said[s] # None =>
    IF s \in records THEN file[s] # None \/ arch[s] # None ELSE file[s] # None

\* An archived session whose request has ended is marked as unread only by work that ended in
\* it since, never by the requests and listings of clients, however they overlap with it.
ForgottenStaysForgotten == settled \cap marks \subseteq worked

\* Somebody lists the workspace from time to time; the disk does not fail and the daemon
\* does not die for ever.
Fairness ==
  /\ \A c \in Client : SF_vars(List(c)) /\ WF_vars(Continue(c))
  /\ WF_vars(Progress /\ Store)
  /\ <>[][~Crash /\ (Throws => Refuses)]_vars

FairSpec == Spec /\ Fairness

\* The listing finishes what a crash or a failure interrupted: an archived session does not
\* keep a transcript in the sessions directory, unless a runtime has it open.
InterruptedMovesFinish ==
  \A s \in Session :
    s \in records /\ file[s] # None ~> s \notin records \/ file[s] = None \/ ~Idle(s)

\* test sessionArchiveStore.test.ts:53-84: what was written before archiving is read after it.
MessagesAreKept ==
  \A s \in Session :
    Messages(said[s]) \subseteq Messages(file[s]) \cup Messages(arch[s])

=============================================================================
