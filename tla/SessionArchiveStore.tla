------------------------- MODULE SessionArchiveStore -------------------------
(***************************************************************************)
(* The archive of sessions on disk                                         *)
(* (src/src/server/sessions/sessionArchiveStore.ts): transcripts are moved *)
(* between the sessions directory and the archive directory, and an index  *)
(* of records says which sessions are archived.  Neither move is atomic    *)
(* with the index.  Operations run one at a time, in the order they came.  *)
(*                                                                         *)
(* A transcript is the set of the messages it holds, None if the file does *)
(* not exist.  Each path belongs to one session.                           *)
(***************************************************************************)
EXTENDS Naturals, Sequences

CONSTANTS
  Session,
  Client,   \* who calls the store
  None      \* no file

VARIABLES
  file,     \* session -> its transcript in the sessions directory
  arch,     \* session -> its transcript in the archive directory
  records,  \* the sessions archived-sessions.json names
  queue,    \* the operation that runs and those that wait for it
  results,  \* what operations returned and their callers have not seen yet
  said      \* history: session -> the messages written to it, None once it is deleted

store == <<file, arch, records, queue, results, said>>

Operation(c, kind, items) ==
  [by |-> c, kind |-> kind, items |-> items, todo |-> items, phase |-> "files"]

current == Head(queue)

Runs(kind, phase) ==
  queue # <<>> /\ current.kind = kind /\ current.phase = phase

Does(s) == queue' = [queue EXCEPT ![1].todo = @ \ {s}]

Enters(phase) == queue' = [queue EXCEPT ![1].phase = phase, ![1].todo = current.items]

\* The promise of the operation settles and the next one begins.
Settles(items, ok) ==
  /\ queue' = Tail(queue)
  /\ results' = results \cup {[by |-> current.by, items |-> items, ok |-> ok]}

-----------------------------------------------------------------------------
(* archiveMany: all copies, then the index, then the originals go *)

\* A copy that exists is taken for this session's and kept.
Copy(s) ==
  /\ Runs("archive", "files")
  /\ s \in current.todo
  /\ IF arch[s] # None
     THEN UNCHANGED arch
     ELSE file[s] # None /\ arch' = [arch EXCEPT ![s] = file[s]]
  /\ Does(s)
  /\ UNCHANGED <<file, records, results, said>>

\* Mutant of WriteArchived: the index is written before the copies are made.
WriteArchivedFirst ==
  /\ Runs("archive", "files")
  /\ records' = records \cup current.items
  /\ Enters("originals")
  /\ UNCHANGED <<file, arch, results, said>>

WriteArchived ==
  /\ Runs("archive", "files")
  /\ current.todo = {}
  /\ records' = records \cup current.items
  /\ Enters("originals")
  /\ UNCHANGED <<file, arch, results, said>>

RemoveOriginal(s) ==
  /\ Runs("archive", "originals")
  /\ s \in current.todo
  /\ file' = [file EXCEPT ![s] = None]
  /\ Does(s)
  /\ UNCHANGED <<arch, records, results, said>>

Archived ==
  /\ Runs("archive", "originals")
  /\ current.todo = {}
  /\ Settles(current.items, TRUE)
  /\ UNCHANGED <<file, arch, records, said>>

-----------------------------------------------------------------------------
(* restore: the transcript goes back, then the index forgets it *)

NothingToRestore ==
  /\ Runs("restore", "files")
  /\ current.items \cap records = {}
  /\ Settles(current.items, TRUE)
  /\ UNCHANGED <<file, arch, records, said>>

\* A transcript at the original path is never overwritten; without an archived
\* one the move fails.
Movable(s) == s \in current.items \cap records /\ file[s] = None /\ arch[s] # None

MoveBack(s) ==
  /\ Runs("restore", "files")
  /\ Movable(s)
  /\ file' = [file EXCEPT ![s] = arch[s]]
  /\ arch' = [arch EXCEPT ![s] = None]
  /\ Enters("index")
  /\ UNCHANGED <<records, results, said>>

\* Between file systems: a copy, then the archived file goes.
CopyBack(s) ==
  /\ Runs("restore", "files")
  /\ Movable(s)
  /\ file' = [file EXCEPT ![s] = arch[s]]
  /\ Enters("archived")
  /\ UNCHANGED <<arch, records, results, said>>

RemoveArchived(s) ==
  /\ Runs("restore", "archived")
  /\ s \in current.items
  /\ arch' = [arch EXCEPT ![s] = None]
  /\ Enters("index")
  /\ UNCHANGED <<file, records, results, said>>

-----------------------------------------------------------------------------
(* deleteArchivedMany: the archived files go, then the index forgets them *)

Unlink(s) ==
  /\ Runs("delete", "files")
  /\ s \in current.todo \cap records
  /\ arch' = [arch EXCEPT ![s] = None]
  /\ said' = [said EXCEPT ![s] = file[s]]
  /\ Does(s)
  /\ UNCHANGED <<file, records, results>>

Unlinked ==
  /\ Runs("delete", "files")
  /\ current.todo \cap records = {}
  /\ Enters("index")
  /\ UNCHANGED <<file, arch, records, results, said>>

\* The end of restore and of deleteArchivedMany.
WriteWithout ==
  /\ queue # <<>>
  /\ current.phase = "index"
  /\ records' = records \ current.items
  /\ Settles(current.items \cap records, TRUE)
  /\ UNCHANGED <<file, arch, said>>

\* There is nothing to copy, or restoring would overwrite a transcript.
Refuses ==
  /\ \/ Runs("archive", "files") /\ \E s \in current.todo : arch[s] = None /\ file[s] = None
     \/ Runs("restore", "files") /\ \E s \in current.items \cap records : ~Movable(s)
  /\ Settles(current.items, FALSE)
  /\ UNCHANGED <<file, arch, records, said>>

\* Any access to the disk may throw; what was done stays done.
Throws ==
  /\ queue # <<>>
  /\ Settles(current.items, FALSE)
  /\ UNCHANGED <<file, arch, records, said>>

Progress ==
  \/ \E s \in Session : Copy(s) \/ RemoveOriginal(s)
  \/ \E s \in Session : MoveBack(s) \/ CopyBack(s) \/ RemoveArchived(s)
  \/ \E s \in Session : Unlink(s)
  \/ WriteArchived \/ Archived \/ NothingToRestore \/ Unlinked \/ WriteWithout
  \/ Refuses

StoreStep == Progress \/ Throws

\* What a crash leaves of a copy that was being made: some of the messages.
Torn(from, to) == {part \in SUBSET from : to = None /\ part # from}

\* The daemon dies.
StoreCrash ==
  /\ queue' = <<>>
  /\ results' = {}
  /\ UNCHANGED <<records, said>>
  /\ \/ UNCHANGED <<file, arch>>
     \/ \E s \in Session :
          /\ Runs("archive", "files") /\ s \in current.todo /\ file[s] # None
          /\ \E part \in Torn(file[s], arch[s]) : arch' = [arch EXCEPT ![s] = part]
          /\ UNCHANGED file
     \/ \E s \in Session :
          /\ Runs("restore", "files") /\ Movable(s)
          /\ \E part \in Torn(arch[s], file[s]) : file' = [file EXCEPT ![s] = part]
          /\ UNCHANGED arch

StoreInit ==
  /\ file = [s \in Session |-> {}]
  /\ arch = [s \in Session |-> None]
  /\ records = {}
  /\ queue = <<>>
  /\ results = {}
  /\ said = file

=============================================================================
