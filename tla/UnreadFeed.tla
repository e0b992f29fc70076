------------------------------ MODULE UnreadFeed ------------------------------
(***************************************************************************)
(* What the session daemon promises the readers of its unread catalog.     *)
(*                                                                         *)
(* An epoch of the catalog is a log of revisions.  A revision is broadcast *)
(* or handed out only once it cannot be lost any more, broadcasts come in  *)
(* order and never twice, and a reply is never older than what had been    *)
(* broadcast when its request was made.  Revisions may be skipped, requests*)
(* may fail, and a daemon that ends answers nobody.  What a catalog holds  *)
(* at a revision is settled by the revision (SessionUnreadStore proves     *)
(* that), so revisions stand for contents here.                            *)
(***************************************************************************)
EXTENDS Integers, FiniteSets

CONSTANTS
  Reader,   \* clients that make requests, one at a time each
  None,     \* no request, no reply
  Failed    \* the reply of a request that failed

VARIABLES
  epoch,    \* the catalog epoch
  durable,  \* the revision of this epoch that cannot be lost
  sent,     \* the revisions of this epoch that were broadcast
  asked,    \* reader -> newest revision broadcast when it asked, or None
  reply     \* reader -> what its last request returned

feed == <<epoch, durable, sent, asked, reply>>

Newest(S) == IF S = {} THEN 0 ELSE CHOOSE k \in S : \A j \in S : j <= k

Init ==
  /\ epoch = 1
  /\ durable = 0
  /\ sent = {}
  /\ asked = [r \in Reader |-> None]
  /\ reply = [r \in Reader |-> None]

\* A longer prefix of the log becomes durable.
Commit ==
  /\ durable' \in Nat
  /\ durable' > durable
  /\ UNCHANGED <<epoch, sent, asked, reply>>

\* Durable revisions are broadcast, in order, some perhaps never.
Send ==
  /\ sent' # sent
  /\ sent \subseteq sent'
  /\ sent' \ sent \subseteq (Newest(sent) + 1)..durable
  /\ UNCHANGED <<epoch, durable, asked, reply>>

Ask(r) ==
  /\ asked[r] = None
  /\ asked' = [asked EXCEPT ![r] = Newest(sent)]
  /\ reply' = [reply EXCEPT ![r] = None]
  /\ UNCHANGED <<epoch, durable, sent>>

Answer(r) ==
  /\ asked[r] # None
  /\ \A k \in sent : k <= durable
  /\ asked' = [asked EXCEPT ![r] = None]
  /\ reply' = [reply EXCEPT ![r] = [epoch |-> epoch, revision |-> durable]]
  /\ UNCHANGED <<epoch, durable, sent>>

Refuse(r) ==
  /\ asked[r] # None
  /\ asked' = [asked EXCEPT ![r] = None]
  /\ reply' = [reply EXCEPT ![r] = Failed]
  /\ UNCHANGED <<epoch, durable, sent>>

\* The daemon ends; every request it had fails.
Hangup ==
  /\ asked' = [r \in Reader |-> None]
  /\ reply' = [r \in Reader |-> IF asked[r] = None THEN reply[r] ELSE Failed]

End ==
  /\ Hangup
  /\ UNCHANGED <<epoch, durable, sent>>

\* The daemon starts without its catalog: another epoch.
NewEpoch ==
  /\ epoch' = epoch + 1
  /\ durable' = 0
  /\ sent' = {}
  /\ UNCHANGED <<asked, reply>>

Next ==
  \/ Commit
  \/ Send
  \/ \E r \in Reader : Ask(r) \/ Answer(r) \/ Refuse(r)
  \/ End
  \/ NewEpoch

Spec == Init /\ [][Next]_feed

=============================================================================
