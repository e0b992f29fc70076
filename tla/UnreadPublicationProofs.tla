----------------------- MODULE UnreadPublicationProofs -----------------------
(***************************************************************************)
(* The queue of unread mutations loses, repeats and reorders none, and the *)
(* service implements UnreadFeed, for any limit of the queue, any number   *)
(* of requests and any bounds of the model.                                *)
(***************************************************************************)
EXTENDS UnreadPublication, TLAPS

Rising(s) == \A i, j \in DOMAIN s : i < j => s[i] < s[j]

-----------------------------------------------------------------------------
(* Sequences *)

LEMMA ElementsOfTrim ==
  ASSUME NEW S, NEW q \in Seq(S)
  PROVE  /\ Trim(q) \in Seq(S)
         /\ Elements(Trim(q)) \subseteq Elements(q)
         /\ Rising(q) => Rising(Trim(q))
<1>1. Excess(q) \in Nat /\ Excess(q) <= Len(q)
  BY QueueAssumption DEF Excess
<1>2. /\ Trim(q) \in Seq(S)
      /\ Len(Trim(q)) = Len(q) - Excess(q)
      /\ \A i \in 1..Len(Trim(q)) : Trim(q)[i] = q[Excess(q) + i]
  BY <1>1 DEF Trim
<1>3. \A i \in 1..Len(Trim(q)) : Excess(q) + i \in 1..Len(q)
  BY <1>1, <1>2
<1>4. DOMAIN Trim(q) = 1..Len(Trim(q)) /\ DOMAIN q = 1..Len(q)
  BY <1>2
<1>5. Elements(Trim(q)) \subseteq Elements(q)
  BY <1>2, <1>3, <1>4 DEF Elements
<1>6. ASSUME Rising(q) PROVE Rising(Trim(q))
  <2> SUFFICES ASSUME NEW i \in 1..Len(Trim(q)), NEW j \in 1..Len(Trim(q)), i < j
               PROVE  Trim(q)[i] < Trim(q)[j]
    BY <1>4 DEF Rising
  <2>1. Excess(q) + i < Excess(q) + j
    BY <1>1
  <2> QED BY <1>2, <1>3, <1>4, <1>6, <2>1 DEF Rising
<1> QED BY <1>2, <1>5, <1>6

LEMMA ElementsOfJoin ==
  ASSUME NEW S, NEW p \in Seq(S), NEW q \in Seq(S)
  PROVE  /\ p \o q \in Seq(S)
         /\ Elements(p \o q) = Elements(p) \cup Elements(q)
<1>1. /\ p \o q \in Seq(S) /\ Len(p \o q) = Len(p) + Len(q)
      /\ \A i \in 1..Len(p) : (p \o q)[i] = p[i]
      /\ \A i \in 1..Len(q) : (p \o q)[Len(p) + i] = q[i]
  OBVIOUS
<1>2. \A i \in 1..Len(p \o q) : i \in 1..Len(p) \/ \E j \in 1..Len(q) : i = Len(p) + j
  <2> SUFFICES ASSUME NEW i \in 1..Len(p \o q), i \notin 1..Len(p)
               PROVE  \E j \in 1..Len(q) : i = Len(p) + j
    OBVIOUS
  <2>1. i - Len(p) \in 1..Len(q) /\ i = Len(p) + (i - Len(p))
    BY <1>1
  <2> QED BY <2>1
<1>3. DOMAIN p = 1..Len(p) /\ DOMAIN q = 1..Len(q) /\ DOMAIN (p \o q) = 1..Len(p \o q)
  BY <1>1
<1>4. Elements(p \o q) \subseteq Elements(p) \cup Elements(q)
  BY <1>1, <1>2, <1>3 DEF Elements
<1>5. Elements(p) \subseteq Elements(p \o q)
  <2>1. \A i \in 1..Len(p) : i \in 1..Len(p \o q)
    BY <1>1
  <2> QED BY <1>1, <1>3, <2>1 DEF Elements
<1>6. Elements(q) \subseteq Elements(p \o q)
  <2>1. \A i \in 1..Len(q) : Len(p) + i \in 1..Len(p \o q)
    BY <1>1
  <2> QED BY <1>1, <1>3, <2>1 DEF Elements
<1> QED BY <1>1, <1>4, <1>5, <1>6

LEMMA JoinRises ==
  ASSUME NEW S, NEW p \in Seq(S), NEW q \in Seq(S), Rising(p), Rising(q),
         \A x \in Elements(p), y \in Elements(q) : x < y
  PROVE  Rising(p \o q)
<1> SUFFICES ASSUME NEW i \in 1..Len(p \o q), NEW j \in 1..Len(p \o q), i < j
             PROVE  (p \o q)[i] < (p \o q)[j]
  BY DEF Rising
<1>1. /\ Len(p \o q) = Len(p) + Len(q)
      /\ \A k \in 1..Len(p) : (p \o q)[k] = p[k]
      /\ \A k \in 1..Len(q) : (p \o q)[Len(p) + k] = q[k]
  OBVIOUS
<1>2. CASE j \in 1..Len(p)
  BY <1>1, <1>2 DEF Rising
<1>3. CASE i \notin 1..Len(p)
  <2>1. /\ i - Len(p) \in 1..Len(q) /\ i = Len(p) + (i - Len(p))
        /\ j - Len(p) \in 1..Len(q) /\ j = Len(p) + (j - Len(p))
        /\ i - Len(p) < j - Len(p)
    BY <1>1, <1>3
  <2> QED BY <1>1, <2>1 DEF Rising
<1>4. CASE i \in 1..Len(p) /\ j \notin 1..Len(p)
  <2>1. j - Len(p) \in 1..Len(q) /\ j = Len(p) + (j - Len(p))
    BY <1>1, <1>4
  <2>2. p[i] \in Elements(p) /\ q[j - Len(p)] \in Elements(q)
    BY <1>4, <2>1 DEF Elements
  <2> QED BY <1>1, <1>4, <2>1, <2>2
<1> QED BY <1>2, <1>3, <1>4

LEMMA FreshRises ==
  ASSUME NEW n \in Nat, head \in Nat
  PROVE  /\ Fresh(n) \in Seq(1..(head + n))
         /\ Elements(Fresh(n)) = (head + 1)..(head + n)
         /\ Rising(Fresh(n))
<1>1. Fresh(n) \in [1..n -> 1..(head + n)]
  BY DEF Fresh
<1>2. Fresh(n) \in Seq(1..(head + n)) /\ DOMAIN Fresh(n) = 1..n
  BY <1>1
<1>3. \A x \in (head + 1)..(head + n) : x - head \in 1..n /\ x = head + (x - head)
  OBVIOUS
<1>4. (head + 1)..(head + n) \subseteq Elements(Fresh(n))
  BY <1>2, <1>3 DEF Elements, Fresh
<1>5. Elements(Fresh(n)) \subseteq (head + 1)..(head + n)
  BY <1>2 DEF Elements, Fresh
<1>6. Rising(Fresh(n))
  BY <1>2 DEF Rising, Fresh
<1> QED BY <1>2, <1>4, <1>5, <1>6

LEMMA EmptySequence == Elements(<<>>) = {} /\ Rising(<<>>) /\ \A S : <<>> \in Seq(S)
BY DEF Elements, Rising

LEMMA WiderSeq == ASSUME NEW S, NEW T, S \subseteq T, NEW q \in Seq(S) PROVE q \in Seq(T)
OBVIOUS

LEMMA ElementsAreMembers == ASSUME NEW S, NEW q \in Seq(S) PROVE Elements(q) \subseteq S
BY DEF Elements

-----------------------------------------------------------------------------
(* The invariant *)

\* What waits is in order, newer than all that was sent, and what the drain is about to send
\* was scheduled before it called flush().
WaitingInOrder ==
  /\ Rising(batch) /\ Rising(queue)
  /\ \A b \in Elements(batch), k \in Elements(queue) : b < k
  /\ \A k \in sent, w \in Elements(batch) \cup Elements(queue) : k < w
  /\ \A b \in Elements(batch) : b <= need
  /\ publication # "draining" => batch = <<>>

SentIsDurable ==
  /\ \A k \in sent : k <= stored
  /\ sent # {} => \E k \in sent : \A j \in sent : j <= k

OneRequestEach == \A r \in Reader : pc[r] = "idle" <=> asked[r] = None

\* A daemon that is down starts with nothing to do but what is stored.
NothingWhileDown ==
  ~up => /\ head = stored /\ base = stored
         /\ queue = <<>> /\ batch = <<>> /\ dropped = {}
         /\ publication = "none" /\ need = 0 /\ ~timer /\ ~stopped /\ ~flushRequested
         /\ \A r \in Reader : pc[r] = "idle"

PubInv ==
  /\ TypeOK /\ epoch <= starts
  /\ WaitingInOrder
  /\ EveryMutationIsAccountedFor
  /\ SentIsDurable
  /\ OneRequestEach
  /\ NothingWhileDown

\* The part of the invariant that speaks of the store and the drain.
DrainTypes ==
  /\ head \in 0..MaxHead /\ stored \in 0..head /\ base \in 0..head
  /\ queue \in Seq(1..head) /\ batch \in Seq(1..head)
  /\ flushRequested \in BOOLEAN /\ timer \in BOOLEAN
  /\ publication \in {"none", "draining", "resolved", "rejected"}
  /\ need \in 0..head
  /\ dropped \subseteq 1..head /\ sent \subseteq 1..head

Publishes == DrainTypes /\ WaitingInOrder /\ EveryMutationIsAccountedFor

LEMMA InitHolds == Init => PubInv
<1> SUFFICES ASSUME Init PROVE PubInv
  OBVIOUS
<1> USE EmptySequence DEF Init
<1>1. TypeOK
  <2>1. /\ up \in BOOLEAN /\ flushRequested \in BOOLEAN /\ timer \in BOOLEAN /\ stopped \in BOOLEAN
        /\ publication \in {"none", "draining", "resolved", "rejected"}
        /\ pc \in [Reader -> {"idle", "publishing", "snapshot", "refused"}]
    OBVIOUS
  <2>2. /\ starts \in 1..MaxStarts /\ epoch \in 1..MaxStarts
        /\ head \in 0..MaxHead /\ stored \in 0..head /\ base \in 0..head /\ need \in 0..head
    BY HeadAssumption
  <2>3. /\ queue \in Seq(1..head) /\ batch \in Seq(1..head)
        /\ dropped \subseteq 1..head /\ sent \subseteq 1..head
        /\ asked \in [Reader -> 0..head \cup {None}]
    OBVIOUS
  <2> QED BY <2>1, <2>2, <2>3 DEF TypeOK
<1> QED BY <1>1 DEF PubInv, WaitingInOrder, EveryMutationIsAccountedFor, SentIsDurable,
                  OneRequestEach, NothingWhileDown

LEMMA PublishKeeps ==
  ASSUME PubInv, up, up' = up, NEW n \in 0..MaxBatch, Publish(n)
  PROVE  Publishes' /\ UNCHANGED <<stored, sent, base>> /\ head' >= head
<1> USE QueueAssumption, HeadAssumption
<1>1. DrainTypes /\ n \in Nat /\ head \in Nat
  BY DEF PubInv, TypeOK, DrainTypes
<1>2. head' = head + n /\ head' \in 0..MaxHead /\ UNCHANGED <<stored, base, timer, sent>>
  BY <1>1 DEF Publish
<1>3. 1..head \subseteq 1..head'
  BY <1>1, <1>2
<1> DEFINE new == Fresh(n)
           all == queue \o new
<1>4. /\ new \in Seq(1..head') /\ Elements(new) = (head + 1)..head' /\ Rising(new)
      /\ Elements(new) \subseteq 1..head'
  BY <1>1, <1>2, FreshRises, ElementsAreMembers
<1>5. queue \in Seq(1..head') /\ batch \in Seq(1..head')
  BY <1>1, <1>3, WiderSeq DEF DrainTypes
<1>6. /\ Elements(queue) \subseteq 1..head /\ Elements(batch) \subseteq 1..head
      /\ sent \subseteq 1..head /\ dropped \subseteq 1..head
  BY <1>1, ElementsAreMembers DEF DrainTypes
<1>7. /\ all \in Seq(1..head') /\ Elements(all) = Elements(queue) \cup ((head + 1)..head')
      /\ Rising(all) /\ Elements(all) \subseteq 1..head'
  <2>1. \A x \in Elements(queue), y \in Elements(new) : x < y
    BY <1>1, <1>4, <1>6
  <2> HIDE DEF new
  <2>2. Rising(queue)
    BY DEF PubInv, WaitingInOrder
  <2>3. all \in Seq(1..head') /\ Elements(all) = Elements(queue) \cup Elements(new)
    BY <1>4, <1>5, ElementsOfJoin, Zenon
  <2>4. Rising(all)
    BY <1>4, <1>5, <2>1, <2>2, JoinRises
  <2> QED BY <1>4, <2>3, <2>4, ElementsAreMembers
<1> HIDE DEF all, new
<1>8. /\ Trim(all) \in Seq(1..head') /\ Elements(Trim(all)) \subseteq Elements(all)
      /\ Rising(Trim(all))
      /\ Trim(new) \in Seq(1..head') /\ Elements(Trim(new)) \subseteq Elements(new)
      /\ Rising(Trim(new))
  BY <1>4, <1>7, ElementsOfTrim
<1>9. WaitingInOrder /\ EveryMutationIsAccountedFor
  BY DEF PubInv
<1>10. ASSUME Requeue(all), UNCHANGED <<publication, batch, need>>, flushRequested' = TRUE
       PROVE  Publishes'
  <2>1. DrainTypes'
    <3>1. /\ head' \in 0..MaxHead /\ stored' \in 0..head' /\ base' \in 0..head'
          /\ need' \in 0..head'
      BY <1>1, <1>2, <1>3, <1>5, <1>6, <1>7, <1>8, <1>10 DEF DrainTypes, Requeue
    <3>2. queue' \in Seq(1..head') /\ batch' \in Seq(1..head')
      BY <1>1, <1>2, <1>3, <1>5, <1>6, <1>7, <1>8, <1>10 DEF DrainTypes, Requeue
    <3>3. dropped' \subseteq 1..head' /\ sent' \subseteq 1..head'
      BY <1>2, <1>3, <1>4, <1>6, <1>7, <1>10, Zenon DEF Requeue
    <3>4. /\ flushRequested' \in BOOLEAN /\ timer' \in BOOLEAN
          /\ publication' \in {"none", "draining", "resolved", "rejected"}
      BY <1>1, <1>2, <1>3, <1>5, <1>6, <1>7, <1>8, <1>10 DEF DrainTypes, Requeue
    <3> QED BY <3>1, <3>2, <3>3, <3>4 DEF DrainTypes
  <2>2. WaitingInOrder'
    BY <1>1, <1>2, <1>6, <1>7, <1>8, <1>9, <1>10 DEF WaitingInOrder, Requeue, DrainTypes
  <2>3. EveryMutationIsAccountedFor'
    BY <1>1, <1>2, <1>6, <1>7, <1>8, <1>9, <1>10
       DEF EveryMutationIsAccountedFor, Requeue, DrainTypes
  <2> QED BY <2>1, <2>2, <2>3 DEF Publishes
<1>11. ASSUME publication = "none", BeginDrain(all, head + n) PROVE Publishes'
  <2>1. batch = <<>> /\ Elements(batch) = {}
    BY <1>9, <1>11, EmptySequence DEF WaitingInOrder
  <2>2. DrainTypes'
    <3>1. /\ head' \in 0..MaxHead /\ stored' \in 0..head' /\ base' \in 0..head'
          /\ need' \in 0..head'
      BY <1>1, <1>2, <1>3, <1>5, <1>6, <1>7, <1>8, <1>11, EmptySequence DEF DrainTypes, BeginDrain
    <3>2. queue' \in Seq(1..head') /\ batch' \in Seq(1..head')
      BY <1>1, <1>2, <1>3, <1>5, <1>6, <1>7, <1>8, <1>11, EmptySequence DEF DrainTypes, BeginDrain
    <3>3. dropped' \subseteq 1..head' /\ sent' \subseteq 1..head'
      BY <1>2, <1>3, <1>4, <1>6, <1>7, <1>11, Zenon DEF BeginDrain
    <3>4. /\ flushRequested' \in BOOLEAN /\ timer' \in BOOLEAN
          /\ publication' \in {"none", "draining", "resolved", "rejected"}
      BY <1>1, <1>2, <1>3, <1>5, <1>6, <1>7, <1>8, <1>11, EmptySequence DEF DrainTypes, BeginDrain
    <3> QED BY <3>1, <3>2, <3>3, <3>4 DEF DrainTypes
  <2>3. WaitingInOrder'
    BY <1>1, <1>2, <1>6, <1>7, <1>8, <1>9, <1>11, EmptySequence
       DEF WaitingInOrder, BeginDrain, DrainTypes
  <2>4. EveryMutationIsAccountedFor'
    BY <1>1, <1>2, <1>6, <1>7, <1>8, <1>9, <1>11, <2>1, EmptySequence
       DEF EveryMutationIsAccountedFor, BeginDrain, DrainTypes
  <2> QED BY <2>2, <2>3, <2>4 DEF Publishes
<1>12. ASSUME publication = "none", publication' = "draining", batch' = queue, need' = head + n,
              Requeue(new), flushRequested' = TRUE
       PROVE  Publishes'
  <2>1. batch = <<>> /\ Elements(batch) = {}
    BY <1>9, <1>12, EmptySequence DEF WaitingInOrder
  <2>2. DrainTypes'
    <3>1. /\ head' \in 0..MaxHead /\ stored' \in 0..head' /\ base' \in 0..head'
          /\ need' \in 0..head'
      BY <1>1, <1>2, <1>3, <1>4, <1>5, <1>6, <1>8, <1>12 DEF DrainTypes, Requeue
    <3>2. queue' \in Seq(1..head') /\ batch' \in Seq(1..head')
      BY <1>1, <1>2, <1>3, <1>4, <1>5, <1>6, <1>8, <1>12 DEF DrainTypes, Requeue
    <3>3. dropped' \subseteq 1..head' /\ sent' \subseteq 1..head'
      BY <1>2, <1>3, <1>4, <1>6, <1>7, <1>12, Zenon DEF Requeue
    <3>4. /\ flushRequested' \in BOOLEAN /\ timer' \in BOOLEAN
          /\ publication' \in {"none", "draining", "resolved", "rejected"}
      BY <1>1, <1>2, <1>3, <1>4, <1>5, <1>6, <1>8, <1>12 DEF DrainTypes, Requeue
    <3> QED BY <3>1, <3>2, <3>3, <3>4 DEF DrainTypes
  <2>3. WaitingInOrder'
    BY <1>1, <1>2, <1>4, <1>6, <1>8, <1>9, <1>12 DEF WaitingInOrder, Requeue, DrainTypes
  <2>4. EveryMutationIsAccountedFor'
    BY <1>1, <1>2, <1>4, <1>6, <1>8, <1>9, <1>12, <2>1
       DEF EveryMutationIsAccountedFor, Requeue, DrainTypes
  <2> QED BY <2>2, <2>3, <2>4 DEF Publishes
<1>13. \/ Requeue(all) /\ UNCHANGED <<publication, batch, need>> /\ flushRequested' = TRUE
       \/ publication = "none" /\ BeginDrain(all, head + n)
       \/ /\ publication = "none" /\ publication' = "draining"
          /\ batch' = queue /\ need' = head + n /\ Requeue(new) /\ flushRequested' = TRUE
  BY Zenon DEF Publish, all, new
<1>14. Publishes'
  BY <1>10, <1>11, <1>12, <1>13, Zenon
<1>15. head' >= head
  BY <1>1, <1>2
<1> QED BY <1>2, <1>14, <1>15, Zenon

\* A drain that begins when everything it captured before has left.
LEMMA BeginKeeps ==
  ASSUME PubInv, up, UNCHANGED <<up, store>>, timer' \in BOOLEAN,
         sent' = sent \cup Elements(batch), BeginDrain(queue, head)
  PROVE  Publishes'
<1> USE QueueAssumption, HeadAssumption
<1>1. DrainTypes /\ head \in Nat /\ WaitingInOrder /\ EveryMutationIsAccountedFor
  BY DEF PubInv, TypeOK, DrainTypes
<1>2. /\ Elements(queue) \subseteq 1..head /\ Elements(batch) \subseteq 1..head
      /\ sent \subseteq 1..head /\ dropped \subseteq 1..head
  BY <1>1, ElementsAreMembers DEF DrainTypes
<1>3. /\ Trim(queue) \in Seq(1..head) /\ Elements(Trim(queue)) \subseteq Elements(queue)
      /\ Rising(Trim(queue))
  BY <1>1, ElementsOfTrim DEF DrainTypes, WaitingInOrder
<1>4. /\ UNCHANGED <<up, head, stored, base>> /\ queue' = <<>> /\ batch' = Trim(queue)
      /\ publication' = "draining" /\ flushRequested' = FALSE /\ need' = head
      /\ dropped' = dropped \cup (Elements(queue) \ Elements(Trim(queue)))
  BY DEF BeginDrain, store
<1>5. DrainTypes'
  <2>1. /\ head' \in 0..MaxHead /\ stored' \in 0..head' /\ base' \in 0..head'
        /\ need' \in 0..head'
    BY <1>1, <1>4 DEF DrainTypes
  <2>2. queue' \in Seq(1..head') /\ batch' \in Seq(1..head')
    BY <1>3, <1>4, EmptySequence
  <2>3. dropped' \subseteq 1..head' /\ sent' \subseteq 1..head'
    BY <1>2, <1>4, Zenon
  <2> QED BY <2>1, <2>2, <2>3, <1>4 DEF DrainTypes
<1>6. WaitingInOrder'
  BY <1>1, <1>2, <1>3, <1>4, EmptySequence DEF WaitingInOrder
<1>7. EveryMutationIsAccountedFor'
  <2>1. (Elements(batch) \cup Elements(queue)) \subseteq (base + 1)..head
    BY <1>1 DEF EveryMutationIsAccountedFor
  <2>2. \A k \in Elements(batch) : k > base
    BY <1>1, <2>1 DEF DrainTypes
  <2>3. {k \in sent' : k > base} = {k \in sent : k > base} \cup Elements(batch)
    BY <1>2, <2>2
  <2>4. (base + 1)..head = {k \in sent' : k > base} \cup Elements(batch') \cup dropped'
    BY <1>1, <1>3, <1>4, <2>3 DEF EveryMutationIsAccountedFor
  <2>5. Elements(batch') \cap (sent' \cup dropped') = {}
    BY <1>1, <1>3, <1>4 DEF EveryMutationIsAccountedFor
  <2>6. Elements(queue') = {}
    BY <1>4, EmptySequence
  <2> QED BY <1>4, <2>4, <2>5, <2>6 DEF EveryMutationIsAccountedFor
<1> QED BY <1>5, <1>6, <1>7 DEF Publishes

\* A drain that fails and gives back what it captured.
LEMMA RequeueKeeps ==
  ASSUME PubInv, up, UNCHANGED <<up, store, timer, sent>>, Requeue(batch \o queue),
         flushRequested' = TRUE, publication' = "rejected", batch' = <<>>, need' = 0
  PROVE  Publishes'
<1> USE QueueAssumption, HeadAssumption
<1>1. DrainTypes /\ head \in Nat /\ WaitingInOrder /\ EveryMutationIsAccountedFor
  BY DEF PubInv, TypeOK, DrainTypes
<1> DEFINE all == batch \o queue
<1>2. /\ all \in Seq(1..head) /\ Elements(all) = Elements(batch) \cup Elements(queue)
      /\ Rising(all)
  BY <1>1, ElementsOfJoin, JoinRises DEF DrainTypes, WaitingInOrder
<1>3. UNCHANGED <<up, head, stored, base, timer, sent>>
  BY DEF store
<1>4. /\ queue' = Trim(all)
      /\ dropped' = dropped \cup (Elements(all) \ Elements(Trim(all)))
  BY DEF Requeue
<1> HIDE DEF all
<1>5. /\ Trim(all) \in Seq(1..head) /\ Elements(Trim(all)) \subseteq Elements(all)
      /\ Rising(Trim(all))
  BY <1>2, ElementsOfTrim
<1>6. Elements(all) \subseteq 1..head /\ sent \subseteq 1..head /\ dropped \subseteq 1..head
  BY <1>1, <1>2, ElementsAreMembers DEF DrainTypes
<1>7. DrainTypes'
  <2>1. /\ head' \in 0..MaxHead /\ stored' \in 0..head' /\ base' \in 0..head'
        /\ need' \in 0..head'
    BY <1>1, <1>3 DEF DrainTypes
  <2>2. queue' \in Seq(1..head') /\ batch' \in Seq(1..head')
    BY <1>3, <1>4, <1>5, EmptySequence
  <2>3. dropped' \subseteq 1..head' /\ sent' \subseteq 1..head'
    BY <1>3, <1>4, <1>6, Zenon
  <2>4. timer' \in BOOLEAN
    BY <1>1, <1>3 DEF DrainTypes
  <2> QED BY <2>1, <2>2, <2>3, <2>4 DEF DrainTypes
<1>8. WaitingInOrder'
  BY <1>1, <1>2, <1>3, <1>4, <1>5, <1>6, EmptySequence DEF WaitingInOrder
<1>9. EveryMutationIsAccountedFor'
  BY <1>1, <1>2, <1>3, <1>4, <1>5, <1>6, EmptySequence DEF EveryMutationIsAccountedFor
<1> QED BY <1>7, <1>8, <1>9 DEF Publishes

LEMMA Assemble ==
  ASSUME Publishes', SentIsDurable', OneRequestEach', NothingWhileDown',
         up' \in BOOLEAN, starts' \in 1..MaxStarts, epoch' \in 1..MaxStarts, epoch' <= starts',
         stopped' \in BOOLEAN,
         pc' \in [Reader -> {"idle", "publishing", "snapshot", "refused"}],
         asked' \in [Reader -> 0..head' \cup {None}]
  PROVE  PubInv'
BY DEF Publishes, DrainTypes, TypeOK, PubInv

\* The part of the invariant no action of the drain touches.
LEMMA DaemonTypes ==
  ASSUME PubInv
  PROVE  /\ up \in BOOLEAN /\ starts \in 1..MaxStarts /\ epoch \in 1..MaxStarts /\ epoch <= starts
         /\ stopped \in BOOLEAN /\ head \in Nat /\ stored \in 0..head
         /\ pc \in [Reader -> {"idle", "publishing", "snapshot", "refused"}]
         /\ asked \in [Reader -> 0..head \cup {None}]
         /\ SentIsDurable /\ OneRequestEach
         /\ DrainTypes /\ WaitingInOrder /\ EveryMutationIsAccountedFor
BY HeadAssumption DEF PubInv, TypeOK, DrainTypes

LEMMA WiderAsked ==
  ASSUME PubInv, head' \in Nat, head' >= head
  PROVE  asked \in [Reader -> 0..head' \cup {None}]
<1>1. 0..head \subseteq 0..head'
  BY DaemonTypes
<1> QED BY <1>1, DaemonTypes

LEMMA NewestOfSent ==
  ASSUME PubInv
  PROVE  /\ Newest(sent) \in 0..head
         /\ sent = {} => Newest(sent) = 0
         /\ sent # {} => Newest(sent) \in sent /\ \A j \in sent : j <= Newest(sent)
<1>1. sent \subseteq 1..head /\ head \in Nat
  BY DaemonTypes DEF DrainTypes
<1>2. ASSUME sent # {} PROVE Newest(sent) \in sent /\ \A j \in sent : j <= Newest(sent)
  BY <1>2, DaemonTypes DEF SentIsDurable, Newest
<1>3. sent = {} => Newest(sent) = 0
  BY DEF Newest
<1>4. Newest(sent) \in 0..head
  <2>1. CASE sent = {}
    BY <1>1, <1>3, <2>1
  <2>2. CASE sent # {}
    <3>1. Newest(sent) \in 1..head
      BY <1>1, <1>2, <2>2, Zenon
    <3> QED BY <1>1, <3>1
  <2> QED BY <2>1, <2>2
<1> QED BY <1>2, <1>3, <1>4, Zenon

LEMMA AfterPublish ==
  ASSUME PubInv, up, NEW n \in 0..MaxBatch, Publish(n), UNCHANGED <<process, stopped>>,
         pc' \in [Reader -> {"idle", "publishing", "snapshot", "refused"}],
         asked' \in [Reader -> 0..head' \cup {None}], OneRequestEach'
  PROVE  PubInv'
<1>1. UNCHANGED <<up, starts, epoch>>
  BY DEF process
<1>2. Publishes' /\ UNCHANGED <<stored, sent, base>> /\ head' >= head
  BY <1>1, PublishKeeps
<1>3. SentIsDurable'
  BY <1>2, DaemonTypes DEF SentIsDurable
<1>4. NothingWhileDown'
  BY <1>1 DEF NothingWhileDown
<1> QED BY <1>1, <1>2, <1>3, <1>4, DaemonTypes, Assemble

LEMMA MutateHolds == ASSUME PubInv, Mutate PROVE PubInv'
<1>1. PICK n \in 1..MaxBatch : Publish(n)
  BY DEF Mutate
<1>2. up /\ UNCHANGED <<process, stopped, requests>> /\ n \in 0..MaxBatch
  BY QueueAssumption DEF Mutate
<1>3. head' \in Nat /\ head' >= head
  <2>1. up' = up
    BY <1>2 DEF process
  <2>2. Publishes' /\ head' >= head
    BY <1>1, <1>2, <2>1, PublishKeeps
  <2> QED BY <2>2, HeadAssumption DEF Publishes, DrainTypes
<1>4. UNCHANGED <<pc, asked>>
  BY <1>2 DEF requests
<1>5. asked' \in [Reader -> 0..head' \cup {None}]
  BY <1>3, <1>4, WiderAsked
<1>6. OneRequestEach'
  BY <1>4, DaemonTypes DEF OneRequestEach
<1> QED BY <1>1, <1>2, <1>4, <1>5, <1>6, DaemonTypes, AfterPublish

LEMMA FinalPublishHolds == ASSUME PubInv, FinalPublish PROVE PubInv'
<1>1. up /\ Publish(0) /\ UNCHANGED <<process, stopped, requests>> /\ 0 \in 0..MaxBatch
  BY QueueAssumption DEF FinalPublish
<1>2. head' \in Nat /\ head' >= head
  <2>1. up' = up
    BY <1>1 DEF process
  <2>2. Publishes' /\ head' >= head
    BY <1>1, <2>1, PublishKeeps
  <2> QED BY <2>2, HeadAssumption DEF Publishes, DrainTypes
<1>3. UNCHANGED <<pc, asked>>
  BY <1>1 DEF requests
<1>4. asked' \in [Reader -> 0..head' \cup {None}]
  BY <1>2, <1>3, WiderAsked
<1>5. OneRequestEach'
  BY <1>3, DaemonTypes DEF OneRequestEach
<1> QED BY <1>1, <1>3, <1>4, <1>5, DaemonTypes, AfterPublish

LEMMA AskHolds == ASSUME PubInv, NEW r \in Reader, Ask(r) PROVE PubInv'
<1>1. PICK n \in 0..MaxBatch : Publish(n)
  BY DEF Ask
<1>2. up /\ UNCHANGED <<process, stopped>> /\ pc[r] = "idle"
  BY DEF Ask
<1>3. head' \in Nat /\ head' >= head
  <2>1. up' = up
    BY <1>2 DEF process
  <2>2. Publishes' /\ head' >= head
    BY <1>1, <1>2, <2>1, PublishKeeps
  <2> QED BY <2>2, HeadAssumption DEF Publishes, DrainTypes
<1>4. Newest(sent) \in 0..head' /\ Newest(sent) # None
  BY <1>3, NewestOfSent, NoReplyAssumption, DaemonTypes
<1>5. pc' \in [Reader -> {"idle", "publishing", "snapshot", "refused"}]
  BY DaemonTypes DEF Ask
<1>6. asked' \in [Reader -> 0..head' \cup {None}]
  BY <1>3, <1>4, WiderAsked DEF Ask
<1>7. OneRequestEach'
  BY <1>4, DaemonTypes DEF OneRequestEach, Ask
<1> QED BY <1>1, <1>2, <1>5, <1>6, <1>7, AfterPublish

LEMMA PersistHolds == ASSUME PubInv, Persist PROVE PubInv'
<1>1. /\ up /\ stored' \in (stored + 1)..head
      /\ UNCHANGED <<up, starts, epoch, head, base, queue, flushRequested, publication, batch,
                     need, dropped, timer, stopped, sent, pc, asked>>
  BY DEF Persist, process, drain, requests
<1>2. stored' \in 0..head' /\ stored' >= stored
  BY <1>1, DaemonTypes
<1>3. DrainTypes'
  BY <1>1, <1>2, DaemonTypes DEF DrainTypes
<1>4. WaitingInOrder' /\ EveryMutationIsAccountedFor' /\ OneRequestEach' /\ NothingWhileDown'
  BY <1>1, DaemonTypes DEF WaitingInOrder, EveryMutationIsAccountedFor, OneRequestEach,
                          NothingWhileDown
<1>5. SentIsDurable'
  BY <1>1, <1>2, DaemonTypes DEF SentIsDurable, DrainTypes
<1> QED BY <1>1, <1>3, <1>4, <1>5, DaemonTypes, Assemble DEF Publishes

\* The newest of what was sent, once a captured batch is sent as well.
LEMMA SentGrows ==
  ASSUME PubInv, sent' = sent \cup Elements(batch), UNCHANGED stored, need <= stored
  PROVE  SentIsDurable'
<1>1. /\ batch \in Seq(1..head) /\ head \in Nat /\ stored \in Nat /\ need \in Nat
      /\ Elements(batch) \subseteq 1..head /\ sent \subseteq 1..head
  BY DaemonTypes, ElementsAreMembers DEF DrainTypes
<1>2. \A k \in sent' : k <= stored'
  BY <1>1, DaemonTypes DEF WaitingInOrder, SentIsDurable
<1>3. ASSUME batch = <<>>, sent' # {} PROVE \E k \in sent' : \A j \in sent' : j <= k
  BY <1>3, EmptySequence, DaemonTypes DEF SentIsDurable
<1>4. ASSUME batch # <<>> PROVE \E k \in sent' : \A j \in sent' : j <= k
  <2> DEFINE last == batch[Len(batch)]
  <2>1. Len(batch) \in 1..Len(batch) /\ DOMAIN batch = 1..Len(batch) /\ Len(batch) \in Nat
    BY <1>1, <1>4
  <2>2. last \in Elements(batch)
    BY <2>1 DEF Elements
  <2>3. \A i \in 1..Len(batch) : batch[i] <= last
    <3> SUFFICES ASSUME NEW i \in 1..Len(batch) PROVE batch[i] <= last
      OBVIOUS
    <3>1. CASE i = Len(batch)
      BY <1>1, <3>1
    <3>2. CASE i < Len(batch)
      BY <1>1, <2>1, <3>2, DaemonTypes DEF WaitingInOrder, Rising
    <3>3. i = Len(batch) \/ i < Len(batch)
      BY <1>1
    <3> QED BY <3>1, <3>2, <3>3
  <2>4. \A j \in Elements(batch) : j <= last
    BY <2>1, <2>3 DEF Elements
  <2>5. \A j \in sent : j < last
    BY <2>2, DaemonTypes DEF WaitingInOrder
  <2>6. \A j \in sent : j <= last
    <3>1. last \in 1..head
      BY <1>1, <2>2, Zenon
    <3> HIDE DEF last
    <3> QED BY <1>1, <2>5, <3>1
  <2> QED BY <2>2, <2>4, <2>6
<1> QED BY <1>2, <1>3, <1>4 DEF SentIsDurable

LEMMA DrainHolds == ASSUME PubInv, Drain PROVE PubInv'
<1>1. /\ publication = "draining" /\ UNCHANGED <<process, store, stopped, requests>>
  BY DEF Drain, DrainPublishes, DrainFails, Flushed
<1>2. up /\ up \in BOOLEAN
  BY <1>1, DaemonTypes DEF PubInv, NothingWhileDown
<1>3. UNCHANGED <<up, starts, epoch, head, stored, base, stopped, pc, asked>>
  BY <1>1 DEF process, store, requests
<1>4. OneRequestEach' /\ NothingWhileDown'
  BY <1>2, <1>3, DaemonTypes DEF OneRequestEach, NothingWhileDown
<1>5. CASE DrainPublishes
  <2>1. /\ need <= stored /\ sent' = sent \cup Elements(batch) /\ timer' = FALSE
    BY <1>5 DEF DrainPublishes, Flushed
  <2>2. SentIsDurable'
    BY <1>3, <2>1, SentGrows
  <2>3. CASE flushRequested \/ queue # <<>>
    <3>1. BeginDrain(queue, head)
      BY <1>5, <2>3 DEF DrainPublishes
    <3>2. Publishes'
      BY <1>1, <1>2, <1>3, <2>1, <3>1, BeginKeeps
    <3> QED BY <1>3, <1>4, <2>2, <3>2, DaemonTypes, Assemble
  <2>4. CASE ~(flushRequested \/ queue # <<>>)
    <3>1. /\ publication' = "resolved" /\ batch' = <<>> /\ need' = 0
          /\ UNCHANGED <<queue, flushRequested, dropped>>
      BY <1>5, <2>4 DEF DrainPublishes
    <3>2. /\ Elements(batch) \subseteq 1..head /\ sent' \subseteq 1..head /\ queue = <<>>
      BY <2>1, <2>4, DaemonTypes, ElementsAreMembers DEF DrainTypes
    <3>3. DrainTypes'
      <4>1. need' \in 0..head' /\ batch' \in Seq(1..head')
        BY <1>3, <3>1, DaemonTypes, EmptySequence
      <4> QED BY <1>3, <2>1, <3>1, <3>2, <4>1, DaemonTypes DEF DrainTypes
    <3>4. WaitingInOrder'
      BY <3>1, <3>2, EmptySequence DEF WaitingInOrder
    <3>5. EveryMutationIsAccountedFor'
      <4>1. Elements(batch) \subseteq (base + 1)..head
        BY <1>2, DaemonTypes DEF EveryMutationIsAccountedFor
      <4>2. \A k \in Elements(batch) : k > base
        BY <4>1, DaemonTypes DEF DrainTypes
      <4>3. {k \in sent' : k > base} = {k \in sent : k > base} \cup Elements(batch)
        BY <2>1, <4>2
      <4> QED BY <1>2, <1>3, <3>1, <3>2, <4>3, EmptySequence, DaemonTypes
              DEF EveryMutationIsAccountedFor
    <3> QED BY <1>3, <1>4, <2>2, <3>3, <3>4, <3>5, DaemonTypes, Assemble DEF Publishes
  <2> QED BY <2>3, <2>4
<1>6. CASE DrainFails
  <2>1. /\ Requeue(batch \o queue) /\ flushRequested' = TRUE /\ publication' = "rejected"
        /\ batch' = <<>> /\ need' = 0 /\ UNCHANGED <<store, timer, sent>>
    BY <1>6 DEF DrainFails
  <2>2. Publishes'
    BY <1>2, <1>3, <2>1, RequeueKeeps
  <2>3. SentIsDurable'
    BY <1>3, <2>1, DaemonTypes DEF SentIsDurable
  <2> QED BY <1>3, <1>4, <2>2, <2>3, DaemonTypes, Assemble
<1> QED BY <1>5, <1>6 DEF Drain

LEMMA SettledHolds == ASSUME PubInv, Settled PROVE PubInv'
<1>1. /\ publication \in {"resolved", "rejected"} /\ publication' = "none" /\ timer' \in BOOLEAN
      /\ UNCHANGED <<up, starts, epoch, head, stored, base, queue, flushRequested, batch, need,
                     dropped, stopped, sent, asked>>
  BY DaemonTypes DEF Settled, process, store, DrainTypes
<1>2. up /\ up \in BOOLEAN /\ batch = <<>>
  BY <1>1, DaemonTypes DEF PubInv, NothingWhileDown, WaitingInOrder
<1>3. PICK to \in {"snapshot", "refused"} : Await("publishing", to)
  BY DEF Settled
<1>4. pc' \in [Reader -> {"idle", "publishing", "snapshot", "refused"}]
  BY <1>3, DaemonTypes DEF Await
<1>5. OneRequestEach'
  BY <1>1, <1>3, DaemonTypes DEF OneRequestEach, Await
<1>6. DrainTypes'
  BY <1>1, DaemonTypes DEF DrainTypes
<1>7. WaitingInOrder' /\ EveryMutationIsAccountedFor' /\ SentIsDurable' /\ NothingWhileDown'
  BY <1>1, <1>2, DaemonTypes
     DEF WaitingInOrder, EveryMutationIsAccountedFor, SentIsDurable, NothingWhileDown
<1> QED BY <1>1, <1>4, <1>5, <1>6, <1>7, DaemonTypes, Assemble DEF Publishes

LEMMA TimerFiresHolds == ASSUME PubInv, TimerFires PROVE PubInv'
<1>1. /\ up /\ timer' = FALSE
      /\ UNCHANGED <<up, starts, epoch, store, head, stored, base, stopped, sent, pc, asked>>
  BY DEF TimerFires, process, store, requests
<1>2. OneRequestEach' /\ NothingWhileDown' /\ SentIsDurable'
  BY <1>1, DaemonTypes DEF OneRequestEach, NothingWhileDown, SentIsDurable
<1>3. CASE publication = "none" /\ (flushRequested \/ queue # <<>>)
  <2>1. BeginDrain(queue, head)
    BY <1>3 DEF TimerFires
  <2>2. sent' = sent \cup Elements(batch)
    BY <1>1, <1>3, DaemonTypes, EmptySequence DEF WaitingInOrder
  <2>3. Publishes'
    BY <1>1, <2>1, <2>2, BeginKeeps
  <2> QED BY <1>1, <1>2, <2>3, DaemonTypes, Assemble
<1>4. CASE ~(publication = "none" /\ (flushRequested \/ queue # <<>>))
  <2>1. UNCHANGED <<queue, flushRequested, publication, batch, need, dropped>>
    BY <1>4 DEF TimerFires, drain
  <2>2. DrainTypes'
    BY <1>1, <2>1, DaemonTypes DEF DrainTypes
  <2>3. WaitingInOrder' /\ EveryMutationIsAccountedFor'
    BY <1>1, <2>1, DaemonTypes DEF WaitingInOrder, EveryMutationIsAccountedFor
  <2> QED BY <1>1, <1>2, <2>2, <2>3, DaemonTypes, Assemble DEF Publishes
<1> QED BY <1>3, <1>4

LEMMA FinishHolds ==
  ASSUME PubInv, NEW r \in Reader, NEW result, pc[r] # "idle", Finish(r, result)
  PROVE  PubInv'
<1>1. /\ UNCHANGED <<up, starts, epoch, head, stored, base, queue, flushRequested, publication,
                     batch, need, dropped, timer, stopped, sent>>
      /\ pc' = [pc EXCEPT ![r] = "idle"] /\ asked' = [asked EXCEPT ![r] = None]
  BY DEF Finish, process, store, drain
<1>2. /\ pc' \in [Reader -> {"idle", "publishing", "snapshot", "refused"}]
      /\ asked' \in [Reader -> 0..head \cup {None}]
  BY <1>1, DaemonTypes
<1>3. OneRequestEach'
  BY <1>1, DaemonTypes DEF OneRequestEach
<1>4. up /\ up \in BOOLEAN
  BY DaemonTypes DEF PubInv, NothingWhileDown
<1>5. DrainTypes' /\ WaitingInOrder' /\ EveryMutationIsAccountedFor' /\ SentIsDurable'
      /\ NothingWhileDown'
  BY <1>1, <1>4, DaemonTypes DEF DrainTypes, WaitingInOrder, EveryMutationIsAccountedFor,
                                SentIsDurable, NothingWhileDown
<1> QED BY <1>1, <1>2, <1>3, <1>5, DaemonTypes, Assemble DEF Publishes

LEMMA DisposeHolds == ASSUME PubInv, Dispose PROVE PubInv'
<1>1. /\ up /\ stopped' = TRUE /\ timer' = FALSE
      /\ UNCHANGED <<up, starts, epoch, head, stored, base, queue, flushRequested, publication,
                     batch, need, dropped, sent, pc, asked>>
  BY DEF Dispose, process, store, drain, requests
<1>2. DrainTypes' /\ WaitingInOrder' /\ EveryMutationIsAccountedFor' /\ SentIsDurable'
      /\ NothingWhileDown' /\ OneRequestEach'
  BY <1>1, DaemonTypes DEF DrainTypes, WaitingInOrder, EveryMutationIsAccountedFor,
                          SentIsDurable, NothingWhileDown, OneRequestEach
<1> QED BY <1>1, <1>2, DaemonTypes, Assemble DEF Publishes

LEMMA CrashHolds == ASSUME PubInv, Crash PROVE PubInv'
<1>1. /\ up' = FALSE /\ head' = stored /\ base' = stored
      /\ queue' = <<>> /\ batch' = <<>> /\ flushRequested' = FALSE /\ publication' = "none"
      /\ need' = 0 /\ timer' = FALSE /\ stopped' = FALSE /\ dropped' = {}
      /\ pc' = [r \in Reader |-> "idle"] /\ asked' = [r \in Reader |-> None]
      /\ UNCHANGED <<starts, epoch, stored, sent>>
  BY DEF Crash
<1>2. stored \in 0..MaxHead /\ sent \subseteq 1..stored /\ stored \in Nat
  BY HeadAssumption, DaemonTypes DEF DrainTypes, SentIsDurable
<1>3. DrainTypes'
  <2>1. /\ head' \in 0..MaxHead /\ stored' \in 0..head' /\ base' \in 0..head'
        /\ need' \in 0..head'
    BY <1>1, <1>2
  <2>2. queue' \in Seq(1..head') /\ batch' \in Seq(1..head')
    BY <1>1, EmptySequence
  <2>3. dropped' \subseteq 1..head' /\ sent' \subseteq 1..head'
    BY <1>1, <1>2
  <2> QED BY <1>1, <2>1, <2>2, <2>3 DEF DrainTypes
<1>4. WaitingInOrder' /\ EveryMutationIsAccountedFor' /\ SentIsDurable' /\ NothingWhileDown'
      /\ OneRequestEach'
  BY <1>1, DaemonTypes, EmptySequence
     DEF WaitingInOrder, EveryMutationIsAccountedFor, SentIsDurable, NothingWhileDown,
         OneRequestEach
<1>5. /\ pc' \in [Reader -> {"idle", "publishing", "snapshot", "refused"}]
      /\ asked' \in [Reader -> 0..head' \cup {None}]
  BY <1>1
<1> QED BY <1>1, <1>3, <1>4, <1>5, DaemonTypes, Assemble DEF Publishes

LEMMA StartHolds == ASSUME PubInv, Restart \/ RestartAfresh PROVE PubInv'
<1>1. /\ ~up /\ up' = TRUE /\ starts' = starts + 1 /\ starts' \in 1..MaxStarts
      /\ UNCHANGED <<queue, flushRequested, publication, batch, need, dropped, timer, stopped,
                     pc, asked>>
  BY HeadAssumption, DaemonTypes DEF Restart, RestartAfresh, Start, drain, requests
<1>2. /\ queue = <<>> /\ batch = <<>> /\ dropped = {} /\ head = stored /\ base = stored
      /\ publication = "none" /\ need = 0
      /\ \A r \in Reader : pc[r] = "idle"
  BY <1>1 DEF PubInv, NothingWhileDown
<1>3. OneRequestEach' /\ NothingWhileDown'
  BY <1>1, DaemonTypes DEF OneRequestEach, NothingWhileDown
<1>4. asked = [r \in Reader |-> None]
  BY <1>2, DaemonTypes DEF OneRequestEach
<1>5. WaitingInOrder'
  BY <1>1, <1>2, EmptySequence DEF WaitingInOrder
<1>6. CASE Restart
  <2>1. UNCHANGED <<epoch, head, stored, base, sent>>
    BY <1>6 DEF Restart, store
  <2>2. DrainTypes'
    BY <1>1, <2>1, DaemonTypes DEF DrainTypes
  <2>3. SentIsDurable'
    BY <2>1, DaemonTypes DEF SentIsDurable
  <2>4. EveryMutationIsAccountedFor'
    <3>1. {k \in sent : k > base} = {} /\ (base + 1)..head = {}
      BY <1>2, DaemonTypes DEF SentIsDurable, DrainTypes
    <3> QED BY <1>1, <1>2, <2>1, <3>1, EmptySequence DEF EveryMutationIsAccountedFor
  <2>5. epoch' \in 1..MaxStarts /\ epoch' <= starts'
    BY <1>1, <2>1, DaemonTypes
  <2> QED BY <1>1, <1>3, <1>5, <2>1, <2>2, <2>3, <2>4, <2>5, DaemonTypes, Assemble DEF Publishes
<1>7. CASE RestartAfresh
  <2>1. /\ epoch' = epoch + 1 /\ head' = 0 /\ stored' = 0 /\ base' = 0 /\ sent' = {}
    BY <1>7 DEF RestartAfresh
  <2>2. /\ head' \in 0..MaxHead /\ stored' \in 0..head' /\ base' \in 0..head'
        /\ need' \in 0..head'
    BY <1>1, <1>2, <2>1, HeadAssumption
  <2>3. DrainTypes'
    <3>1. queue' \in Seq(1..head') /\ batch' \in Seq(1..head')
      BY <1>1, <1>2, EmptySequence
    <3>2. dropped' \subseteq 1..head' /\ sent' \subseteq 1..head'
      BY <1>1, <1>2, <2>1
    <3> QED BY <1>1, <2>2, <3>1, <3>2, DaemonTypes DEF DrainTypes
  <2>4. SentIsDurable' /\ EveryMutationIsAccountedFor'
    BY <1>1, <1>2, <2>1, EmptySequence DEF SentIsDurable, EveryMutationIsAccountedFor
  <2>5. epoch' \in 1..MaxStarts /\ epoch' <= starts'
    BY <1>1, <2>1, HeadAssumption, DaemonTypes
  <2>6. asked' \in [Reader -> 0..head' \cup {None}]
    BY <1>1, <1>4
  <2> QED BY <1>1, <1>3, <1>5, <2>3, <2>4, <2>5, <2>6, DaemonTypes, Assemble DEF Publishes
<1> QED BY <1>6, <1>7

LEMMA StutterHolds == ASSUME PubInv, UNCHANGED vars PROVE PubInv'
<1>1. UNCHANGED <<up, starts, epoch, head, stored, base, queue, flushRequested, publication, batch,
                  need, dropped, timer, stopped, sent, pc, asked>>
  BY DEF vars, process, store, drain, requests
<1>2. DrainTypes' /\ WaitingInOrder' /\ EveryMutationIsAccountedFor' /\ SentIsDurable'
      /\ OneRequestEach' /\ NothingWhileDown'
  BY <1>1, DaemonTypes DEF DrainTypes, WaitingInOrder, EveryMutationIsAccountedFor,
                          SentIsDurable, OneRequestEach, NothingWhileDown, PubInv
<1> QED BY <1>1, <1>2, DaemonTypes, Assemble DEF Publishes

LEMMA NextHolds == ASSUME PubInv, [Next]_vars PROVE PubInv'
<1>1. CASE Mutate BY <1>1, MutateHolds
<1>2. CASE Persist BY <1>2, PersistHolds
<1>3. CASE Drain BY <1>3, DrainHolds
<1>4. CASE Settled BY <1>4, SettledHolds
<1>5. CASE TimerFires BY <1>5, TimerFiresHolds
<1>6. ASSUME NEW r \in Reader, Ask(r) PROVE PubInv' BY <1>6, AskHolds
<1>7. ASSUME NEW r \in Reader, Answer(r) \/ Refuse(r) PROVE PubInv'
  <2>1. PICK result : Finish(r, result) /\ pc[r] # "idle"
    BY <1>7 DEF Answer, Refuse
  <2> QED BY <2>1, FinishHolds
<1>8. CASE Dispose BY <1>8, DisposeHolds
<1>9. CASE FinalPublish BY <1>9, FinalPublishHolds
<1>10. CASE Crash BY <1>10, CrashHolds
<1>11. CASE Restart \/ RestartAfresh BY <1>11, StartHolds
<1>12. CASE UNCHANGED vars BY <1>12, StutterHolds
<1> QED BY <1>1, <1>2, <1>3, <1>4, <1>5, <1>6, <1>7, <1>8, <1>9, <1>10, <1>11, <1>12 DEF Next

LEMMA PubInvariant == Spec => []PubInv
<1>1. Init => PubInv
  BY InitHolds
<1>2. PubInv /\ [Next]_vars => PubInv'
  BY NextHolds
<1> QED BY <1>1, <1>2, PTL DEF Spec

-----------------------------------------------------------------------------
(* The theorems *)

\* Every variable of the publication keeps a value of its kind.
THEOREM PublicationTypeCorrect == Spec => []TypeOK
<1>1. PubInv => TypeOK
  BY DEF PubInv
<1> QED BY <1>1, PubInvariant, PTL

\* A mutation of the catalog is broadcast, waits, or was trimmed for want of room, and only one
\* of these (publishUnread, drainUnreadPublication, trimPendingUnreadMutations).
THEOREM MutationsAreAccountedFor == Spec => []EveryMutationIsAccountedFor
<1>1. PubInv => EveryMutationIsAccountedFor
  BY DEF PubInv
<1> QED BY <1>1, PubInvariant, PTL

\* What is still to be broadcast is in the catalog's order, and newer than all that was.
THEOREM MutationsLeaveInOrder == Spec => []MutationsStayInOrder
<1>1. ASSUME PubInv PROVE MutationsStayInOrder
  <2>1. batch \in Seq(1..head) /\ queue \in Seq(1..head) /\ WaitingInOrder
    BY <1>1, DaemonTypes DEF DrainTypes
  <2>2. /\ batch \o queue \in Seq(1..head) /\ Rising(batch \o queue)
        /\ Elements(batch \o queue) = Elements(batch) \cup Elements(queue)
    BY <2>1, ElementsOfJoin, JoinRises DEF WaitingInOrder
  <2>3. \A i \in DOMAIN (batch \o queue) : (batch \o queue)[i] \in Elements(batch \o queue)
    BY DEF Elements
  <2> DEFINE waiting == batch \o queue
  <2> HIDE DEF waiting
  <2>4. \A i \in DOMAIN waiting : \A k \in sent : k < waiting[i]
    BY <2>1, <2>2, <2>3 DEF WaitingInOrder, waiting
  <2>5. \A i, j \in DOMAIN waiting : i < j => waiting[i] < waiting[j]
    BY <2>2 DEF Rising, waiting
  <2> QED BY <2>4, <2>5 DEF MutationsStayInOrder, waiting
<1> QED BY <1>1, PubInvariant, PTL

-----------------------------------------------------------------------------
(* The refinement: what the feed shows of a step of the service *)

FeedStep == [Feed!Next]_(Feed!feed)

LEMMA PublishIsHidden ==
  ASSUME NEW n, Publish(n)
  PROVE  UNCHANGED <<stored, sent>>
BY DEF Publish

LEMMA SendStep == ASSUME PubInv, DrainPublishes PROVE FeedStep
<1>1. /\ sent' = sent \cup Elements(batch) /\ need <= stored
      /\ UNCHANGED <<epoch, stored, asked, reply>>
  BY DEF DrainPublishes, Flushed, process, store, requests
<1>2. CASE sent' = sent
  BY <1>1, <1>2 DEF FeedStep, Feed!feed
<1>3. CASE sent' # sent
  <2>1. /\ Elements(batch) \subseteq 1..head /\ head \in Nat /\ need \in Nat /\ stored \in Nat
        /\ Newest(sent) \in Nat
    BY DaemonTypes, ElementsAreMembers, NewestOfSent DEF DrainTypes
  <2>2. \A k \in Elements(batch) : k > Newest(sent) /\ k <= stored
    BY <1>1, <2>1, NewestOfSent, DaemonTypes DEF WaitingInOrder
  <2>3. sent' \ sent \subseteq (Newest(sent) + 1)..stored
    BY <1>1, <2>1, <2>2
  <2>4. Feed!Newest(sent) = Newest(sent)
    BY DEF Newest, Feed!Newest
  <2>5. Feed!Send
    BY <1>1, <1>3, <2>3, <2>4 DEF Feed!Send
  <2> QED BY <2>5 DEF FeedStep, Feed!Next
<1> QED BY <1>2, <1>3

LEMMA RequestStep ==
  ASSUME PubInv, NEW r \in Reader, Ask(r) \/ Answer(r) \/ Refuse(r)
  PROVE  FeedStep
<1>1. CASE Ask(r)
  <2>1. /\ pc[r] = "idle" /\ UNCHANGED <<epoch, stored, sent>>
        /\ asked' = [asked EXCEPT ![r] = Newest(sent)] /\ reply' = [reply EXCEPT ![r] = None]
    BY <1>1, PublishIsHidden DEF Ask, process
  <2>2. asked[r] = None
    BY <2>1, DaemonTypes DEF OneRequestEach
  <2>3. Feed!Newest(sent) = Newest(sent)
    BY DEF Newest, Feed!Newest
  <2>4. Feed!Ask(r)
    BY <2>1, <2>2, <2>3 DEF Feed!Ask
  <2> QED BY <2>4 DEF FeedStep, Feed!Next
<1>2. CASE Answer(r)
  <2>1. /\ pc[r] = "snapshot" /\ stored = head /\ UNCHANGED <<epoch, stored, sent>>
        /\ asked' = [asked EXCEPT ![r] = None]
        /\ reply' = [reply EXCEPT ![r] = [epoch |-> epoch, revision |-> stored]]
    BY <1>2 DEF Answer, Finish, process, store
  <2>2. asked[r] # None /\ \A k \in sent : k <= stored
    BY <2>1, DaemonTypes DEF OneRequestEach, SentIsDurable
  <2>3. Feed!Answer(r)
    BY <2>1, <2>2 DEF Feed!Answer
  <2> QED BY <2>3 DEF FeedStep, Feed!Next
<1>3. CASE Refuse(r)
  <2>1. /\ pc[r] # "idle" /\ UNCHANGED <<epoch, stored, sent>>
        /\ asked' = [asked EXCEPT ![r] = None] /\ reply' = [reply EXCEPT ![r] = Failed]
    BY <1>3 DEF Refuse, Finish, process, store
  <2>2. asked[r] # None
    BY <2>1, DaemonTypes DEF OneRequestEach
  <2>3. Feed!Refuse(r)
    BY <2>1, <2>2 DEF Feed!Refuse
  <2> QED BY <2>3 DEF FeedStep, Feed!Next
<1> QED BY <1>1, <1>2, <1>3

LEMMA CrashStep == ASSUME PubInv, Crash PROVE FeedStep
<1>1. /\ asked' = [r \in Reader |-> None] /\ UNCHANGED <<epoch, stored, sent>>
      /\ reply' = [r \in Reader |-> IF pc[r] = "idle" THEN reply[r] ELSE Failed]
  BY DEF Crash
<1>2. \A r \in Reader : pc[r] = "idle" <=> asked[r] = None
  BY DaemonTypes DEF OneRequestEach
<1>3. reply' = [r \in Reader |-> IF asked[r] = None THEN reply[r] ELSE Failed]
  BY <1>1, <1>2
<1>4. Feed!End
  BY <1>1, <1>3 DEF Feed!End, Feed!Hangup
<1> QED BY <1>4 DEF FeedStep, Feed!Next

LEMMA HiddenStep ==
  ASSUME UNCHANGED <<epoch, stored, sent, asked, reply>>
  PROVE  FeedStep
BY DEF FeedStep, Feed!feed

LEMMA EveryStepIsAFeedStep == ASSUME PubInv, [Next]_vars PROVE FeedStep
<1>1. CASE Mutate \/ FinalPublish
  <2>1. UNCHANGED <<epoch, stored, sent, asked, reply>>
    BY <1>1, PublishIsHidden DEF Mutate, FinalPublish, process, requests
  <2> QED BY <2>1, HiddenStep
<1>2. CASE Persist
  <2>1. /\ stored' \in (stored + 1)..head /\ UNCHANGED <<epoch, sent, asked, reply>>
    BY <1>2 DEF Persist, process, requests
  <2>2. Feed!Commit
    BY <2>1, DaemonTypes DEF Feed!Commit
  <2> QED BY <2>2 DEF FeedStep, Feed!Next
<1>3. CASE DrainPublishes BY <1>3, SendStep
<1>4. CASE DrainFails \/ Settled \/ TimerFires \/ Dispose \/ Restart \/ UNCHANGED vars
  <2>1. UNCHANGED <<epoch, stored, sent, asked, reply>>
    BY <1>4 DEF DrainFails, Settled, TimerFires, Dispose, Restart, vars, process, store, requests
  <2> QED BY <2>1, HiddenStep
<1>5. ASSUME NEW r \in Reader, Ask(r) \/ Answer(r) \/ Refuse(r) PROVE FeedStep
  BY <1>5, RequestStep
<1>6. CASE Crash BY <1>6, CrashStep
<1>7. CASE RestartAfresh
  <2>1. Feed!NewEpoch
    BY <1>7 DEF RestartAfresh, requests, Feed!NewEpoch
  <2> QED BY <2>1 DEF FeedStep, Feed!Next
<1> QED BY <1>1, <1>2, <1>3, <1>4, <1>5, <1>6, <1>7 DEF Next, Drain

\* The session service keeps the promises of UnreadFeed: nothing is broadcast or handed out that
\* could be lost, in order and once, and no reply is older than what was broadcast before.
THEOREM ServiceKeepsFeed == Spec => KeepsFeed
<1>1. Init => Feed!Init
  BY DEF Init, Feed!Init
<1>2. PubInv /\ [Next]_vars => [Feed!Next]_(Feed!feed)
  BY EveryStepIsAFeedStep DEF FeedStep
<1> QED BY <1>1, <1>2, PubInvariant, PTL DEF Spec, KeepsFeed, Feed!Spec

=============================================================================
