------------------------ MODULE SessionRuntimesProofs ------------------------
(***************************************************************************)
(* One runtime hosts a session, failed and finished requests leave nothing *)
(* behind, and tree operations are exclusive, for any number of requests   *)
(* and runtimes.                                                           *)
(***************************************************************************)
EXTENDS SessionRuntimes, TLAPS

Pending == {"waiting", "draining", "reopening"}

\* The pending open is that of the runtime that is not ready yet; a ready one is hosted, and
\* nothing is opened beside it.
OpensAreKnown ==
  /\ \A r \in PiRuntime : life[r] \in {"creating", "starting", "failing"} <=> opening = r
  /\ \A r \in PiRuntime : life[r] = "starting" <=> startup = r
  /\ \A r \in PiRuntime : life[r] = "starting" => hosted = r
  /\ \A r \in PiRuntime : life[r] = "ready" => hosted = r /\ opening = NoRuntime
  /\ \A r \in PiRuntime : hosted = r => life[r] \in {"starting", "ready"}

\* Whom callers wait for, and what those were given that wait no longer.
CallersAreServed ==
  \A c \in Caller :
    /\ doing[c] = "nothing" <=> at[c] = "none"
    /\ (on[c] # NoRuntime /\ at[c] \notin Pending) =>
         life[on[c]] \notin {"creating", "starting", "failing"}
    /\ at[c] = "got" => hosted \in {on[c], NoRuntime}
    /\ at[c] = "drained" => startup = NoRuntime
    /\ at[c] \in {"naming", "forking"} => doing[c] = "fork"
    /\ at[c] = "queued" => doing[c] \in {"batch", "move"}
    /\ at[c] \in {"draining", "drained"} => doing[c] \in {"stop", "batch", "move"}
    /\ at[c] \in Pending \cup {"got", "reserved"} => on[c] # NoRuntime

\* Somebody waits for whatever is under way.
SomebodyWaits ==
  /\ opening # NoRuntime => \E c \in Caller : on[c] = opening /\ at[c] \in Pending
  /\ \A r \in PiRuntime : life[r] = "closing" => \E c \in Caller : on[c] = r /\ at[c] = "closing"

Hosting == OpensAreKnown /\ CallersAreServed /\ SomebodyWaits

RuntimesInv == RuntimesTypeOK /\ ControlIsExclusive /\ (~displaced => Hosting)

-----------------------------------------------------------------------------
(* What the ways to go on do *)

LEMMA RuntimesInitHolds == RuntimesInit => RuntimesInv
<1> SUFFICES ASSUME RuntimesInit PROVE RuntimesInv
  OBVIOUS
<1>1. RuntimesTypeOK
  BY DEF RuntimesInit, RuntimesTypeOK
<1>2. OpensAreKnown /\ CallersAreServed /\ SomebodyWaits
  BY NoRuntimeAssumption DEF RuntimesInit, OpensAreKnown, CallersAreServed, SomebodyWaits, Pending
<1>3. ControlIsExclusive
  BY DEF RuntimesInit, ControlIsExclusive, Mutating, Navigating, Exclusive, Moves
<1> QED BY <1>1, <1>2, <1>3 DEF RuntimesInv, Hosting

LEMMA WaitersAreSent ==
  ASSUME NEW r \in PiRuntime, NEW got \in {"none", "got"}, RuntimesTypeOK,
         WaitersGo(r, [waiting |-> got, draining |-> "drained", reopening |-> "none"])
  PROVE  /\ at' = [c \in Caller |-> IF on[c] # r THEN at[c]
                                    ELSE IF at[c] = "waiting" THEN got
                                    ELSE IF at[c] = "draining" THEN "drained"
                                    ELSE IF at[c] = "reopening" THEN "none" ELSE at[c]]
         /\ doing' = [c \in Caller |-> IF at'[c] = "none" THEN "nothing" ELSE doing[c]]
         /\ on' = [c \in Caller |-> IF at'[c] = "none" THEN NoRuntime ELSE on[c]]
<1> DEFINE next == [waiting |-> got, draining |-> "drained", reopening |-> "none"]
<1>1. DOMAIN next = {"waiting", "draining", "reopening"}
  OBVIOUS
<1>2. next["waiting"] = got /\ next["draining"] = "drained" /\ next["reopening"] = "none"
  OBVIOUS
<1> QED BY <1>1, <1>2 DEF WaitersGo

LEMMA RuntimesNextHolds == RuntimesInv /\ [RuntimesNext]_runtimeVars => RuntimesInv'
<1> SUFFICES ASSUME RuntimesInv, [RuntimesNext]_runtimeVars PROVE RuntimesInv'
  OBVIOUS
<1> USE NoRuntimeAssumption DEF RuntimesInv, hostedVars, callerVars
<1>1. ASSUME ~displaced, NEW c \in Caller, BeginMutation(c) PROVE RuntimesInv'
  <2> USE DEF BeginMutation, Goes, Ends
  <2>1. RuntimesTypeOK'
    BY <1>1 DEF RuntimesTypeOK
  <2>2. ControlIsExclusive'
    BY <1>1 DEF RuntimesTypeOK, Hosting, OpensAreKnown, CallersAreServed,
                ControlIsExclusive, Exclusive, Moves, Mutating, Navigating, Pending
  <2> SUFFICES ASSUME ~displaced' PROVE Hosting'
    BY <2>1, <2>2
  <2>3. OpensAreKnown'
    BY <1>1 DEF RuntimesTypeOK, Hosting, OpensAreKnown, CallersAreServed, Pending
  <2>4. CallersAreServed'
    BY <1>1 DEF RuntimesTypeOK, Hosting, OpensAreKnown, CallersAreServed, Pending
  <2>5. SomebodyWaits'
    BY <1>1 DEF RuntimesTypeOK, Hosting, OpensAreKnown, CallersAreServed, SomebodyWaits, Pending
  <2> QED BY <2>3, <2>4, <2>5 DEF Hosting
<1>2. ASSUME ~displaced, NEW c \in Caller, BeginNavigation(c) PROVE RuntimesInv'
  <2> USE DEF BeginNavigation, Goes, Ends, ActiveWork
  <2>1. RuntimesTypeOK'
    BY <1>2 DEF RuntimesTypeOK
  <2>2. ControlIsExclusive'
    BY <1>2 DEF RuntimesTypeOK, Hosting, OpensAreKnown, CallersAreServed,
                ControlIsExclusive, Exclusive, Moves, Mutating, Navigating, Pending
  <2> SUFFICES ASSUME ~displaced' PROVE Hosting'
    BY <2>1, <2>2
  <2>3. OpensAreKnown'
    BY <1>2 DEF RuntimesTypeOK, Hosting, OpensAreKnown, CallersAreServed, Pending
  <2>4. CallersAreServed'
    BY <1>2 DEF RuntimesTypeOK, Hosting, OpensAreKnown, CallersAreServed, Pending
  <2>5. SomebodyWaits'
    BY <1>2 DEF RuntimesTypeOK, Hosting, OpensAreKnown, CallersAreServed, SomebodyWaits, Pending
  <2> QED BY <2>3, <2>4, <2>5 DEF Hosting
<1>3. ASSUME ~displaced, NEW c \in Caller, NameFork(c) PROVE RuntimesInv'
  <2> USE DEF NameFork, Goes, Ends, ActiveWork
  <2>1. RuntimesTypeOK'
    BY <1>3 DEF RuntimesTypeOK
  <2>2. ControlIsExclusive'
    BY <1>3 DEF RuntimesTypeOK, Hosting, OpensAreKnown, CallersAreServed,
                ControlIsExclusive, Exclusive, Moves, Mutating, Navigating, Pending
  <2> SUFFICES ASSUME ~displaced' PROVE Hosting'
    BY <2>1, <2>2
  <2>3. OpensAreKnown'
    BY <1>3 DEF RuntimesTypeOK, Hosting, OpensAreKnown, CallersAreServed, Pending
  <2>4. CallersAreServed'
    BY <1>3 DEF RuntimesTypeOK, Hosting, OpensAreKnown, CallersAreServed, Pending
  <2>5. SomebodyWaits'
    BY <1>3 DEF RuntimesTypeOK, Hosting, OpensAreKnown, CallersAreServed, SomebodyWaits, Pending
  <2> QED BY <2>3, <2>4, <2>5 DEF Hosting
<1>4. ASSUME ~displaced, NEW c \in Caller, BeginReload(c) PROVE RuntimesInv'
  <2> USE DEF BeginReload, Goes, Ends, ActiveWork, Closes
  <2>1. RuntimesTypeOK'
    <3>1. displaced' \in BOOLEAN
      <4>1. CASE ActiveWork(on[c], {})
        BY <1>4, <4>1 DEF RuntimesTypeOK
      <4>2. CASE ~ActiveWork(on[c], {})
        BY <1>4, <4>2, Zenon
      <4> QED BY <4>1, <4>2
    <3>2. life' \in [PiRuntime -> {"none", "creating", "starting", "ready", "failing", "closing"}]
      BY <1>4 DEF RuntimesTypeOK
    <3>3. {hosted', opening', startup'} \subseteq PiRuntime \cup {NoRuntime}
          /\ unexpected' \subseteq parked' /\ parked' \subseteq PiRuntime
      BY <1>4 DEF RuntimesTypeOK
    <3>4. on' \in [Caller -> PiRuntime \cup {NoRuntime}]
      BY <1>4 DEF RuntimesTypeOK
    <3>5. doing' \in [Caller -> {"nothing", "prompt", "navigate", "fork", "reload", "archive", "wake",
                                "stop", "batch", "move"}]
      BY <1>4 DEF RuntimesTypeOK
    <3>6. at' \in [Caller -> {"none", "lookup", "resolving", "waiting", "got", "header", "mutating",
                        "controlling", "steering", "restarting", "navigating", "naming", "forking",
                        "reserved", "queued", "closing", "closed", "reopening", "persisting", "draining",
                        "drained"}]
      BY <1>4 DEF RuntimesTypeOK
    <3> QED BY <3>1, <3>2, <3>3, <3>4, <3>5, <3>6 DEF RuntimesTypeOK
  <2>2. ControlIsExclusive'
    BY <1>4 DEF RuntimesTypeOK, Hosting, OpensAreKnown, CallersAreServed,
                ControlIsExclusive, Exclusive, Moves, Mutating, Navigating, Pending
  <2> SUFFICES ASSUME ~displaced' PROVE Hosting'
    BY <2>1, <2>2
  <2>3. OpensAreKnown'
    BY <1>4 DEF RuntimesTypeOK, Hosting, OpensAreKnown, CallersAreServed, Pending
  <2>4. CallersAreServed'
    BY <1>4 DEF RuntimesTypeOK, Hosting, OpensAreKnown, CallersAreServed, Pending
  <2>5. SomebodyWaits'
    BY <1>4 DEF RuntimesTypeOK, Hosting, OpensAreKnown, CallersAreServed, SomebodyWaits, Pending
  <2> QED BY <2>3, <2>4, <2>5 DEF Hosting
<1>5. ASSUME ~displaced, NEW c \in Caller, BeginArchive(c) PROVE RuntimesInv'
  <2> USE DEF BeginArchive, Goes, Ends, ActiveWork
  <2>1. RuntimesTypeOK'
    BY <1>5 DEF RuntimesTypeOK
  <2>2. ControlIsExclusive'
    BY <1>5 DEF RuntimesTypeOK, Hosting, OpensAreKnown, CallersAreServed,
                ControlIsExclusive, Exclusive, Moves, Mutating, Navigating, Pending
  <2> SUFFICES ASSUME ~displaced' PROVE Hosting'
    BY <2>1, <2>2
  <2>3. OpensAreKnown'
    BY <1>5 DEF RuntimesTypeOK, Hosting, OpensAreKnown, CallersAreServed, Pending
  <2>4. CallersAreServed'
    BY <1>5 DEF RuntimesTypeOK, Hosting, OpensAreKnown, CallersAreServed, Pending
  <2>5. SomebodyWaits'
    BY <1>5 DEF RuntimesTypeOK, Hosting, OpensAreKnown, CallersAreServed, SomebodyWaits, Pending
  <2> QED BY <2>3, <2>4, <2>5 DEF Hosting
<1>6. ASSUME ~displaced, NEW c \in Caller, GotParent(c) PROVE RuntimesInv'
  <2> USE DEF GotParent, Ends
  <2>1. RuntimesTypeOK'
    BY <1>6 DEF RuntimesTypeOK
  <2>2. ControlIsExclusive'
    BY <1>6 DEF RuntimesTypeOK, Hosting, OpensAreKnown, CallersAreServed,
                ControlIsExclusive, Exclusive, Moves, Mutating, Navigating, Pending
  <2> SUFFICES ASSUME ~displaced' PROVE Hosting'
    BY <2>1, <2>2
  <2>3. OpensAreKnown'
    BY <1>6 DEF RuntimesTypeOK, Hosting, OpensAreKnown, CallersAreServed, Pending
  <2>4. CallersAreServed'
    BY <1>6 DEF RuntimesTypeOK, Hosting, OpensAreKnown, CallersAreServed, Pending
  <2>5. SomebodyWaits'
    BY <1>6 DEF RuntimesTypeOK, Hosting, OpensAreKnown, CallersAreServed, SomebodyWaits, Pending
  <2> QED BY <2>3, <2>4, <2>5 DEF Hosting
<1>7. ASSUME ~displaced, NEW c \in Caller, CloseDrained(c) PROVE RuntimesInv'
  <2> USE DEF CloseDrained, Goes, Ends, ClosesHosted, Closes
  <2>1. RuntimesTypeOK'
    BY <1>7 DEF RuntimesTypeOK
  <2>2. ControlIsExclusive'
    <3>1. Exclusive' \subseteq Exclusive
      BY <1>7 DEF RuntimesTypeOK, Exclusive, Hosting, CallersAreServed
    <3>2. \A q \in PiRuntime : Navigating(q)' = Navigating(q) /\ Mutating(q)' = Mutating(q)
      BY <1>7 DEF RuntimesTypeOK, Navigating, Mutating
    <3>3. hosted' = NoRuntime
      BY <1>7
    <3>4. Exclusive' \ Moves' \subseteq Exclusive \ Moves
      BY <1>7, <3>1 DEF RuntimesTypeOK, Exclusive, Moves
    <3> QED BY <1>7, <3>1, <3>2, <3>3, <3>4 DEF ControlIsExclusive
  <2> SUFFICES ASSUME ~displaced' PROVE Hosting'
    BY <2>1, <2>2
  <2>3. OpensAreKnown'
    BY <1>7 DEF RuntimesTypeOK, Hosting, OpensAreKnown, CallersAreServed, Pending
  <2>4. CallersAreServed'
    BY <1>7 DEF RuntimesTypeOK, Hosting, OpensAreKnown, CallersAreServed, Pending
  <2>5. SomebodyWaits'
    BY <1>7 DEF RuntimesTypeOK, Hosting, OpensAreKnown, CallersAreServed, SomebodyWaits, Pending
  <2> QED BY <2>3, <2>4, <2>5 DEF Hosting
<1>8. ASSUME ~displaced, NEW c \in Caller, ReopenRuntime(c) PROVE RuntimesInv'
  <2> USE DEF ReopenRuntime, Goes, Ends, OpenPending, Creates, Fresh
  <2>1. RuntimesTypeOK'
    BY <1>8 DEF RuntimesTypeOK
  <2>2. ControlIsExclusive'
    BY <1>8 DEF RuntimesTypeOK, Hosting, OpensAreKnown, CallersAreServed,
                ControlIsExclusive, Exclusive, Moves, Mutating, Navigating, Pending
  <2> SUFFICES ASSUME ~displaced' PROVE Hosting'
    BY <2>1, <2>2
  <2>3. OpensAreKnown'
    BY <1>8 DEF RuntimesTypeOK, Hosting, OpensAreKnown, CallersAreServed, Pending
  <2>4. CallersAreServed'
    BY <1>8 DEF RuntimesTypeOK, Hosting, OpensAreKnown, CallersAreServed, Pending
  <2>5. SomebodyWaits'
    BY <1>8 DEF RuntimesTypeOK, Hosting, OpensAreKnown, CallersAreServed, SomebodyWaits, Pending
  <2> QED BY <2>3, <2>4, <2>5 DEF Hosting
<1>9. ASSUME ~displaced, ~Resumed, NEW c \in Caller, NEW what \in {"prompt", "navigate", "fork", "reload", "archive"}, Ask(c, what) PROVE RuntimesInv'
  <2> USE DEF Ask
  <2>1. RuntimesTypeOK'
    BY <1>9 DEF RuntimesTypeOK
  <2>2. ControlIsExclusive'
    BY <1>9 DEF RuntimesTypeOK, Hosting, OpensAreKnown, CallersAreServed,
                ControlIsExclusive, Exclusive, Moves, Mutating, Navigating, Pending
  <2> SUFFICES ASSUME ~displaced' PROVE Hosting'
    BY <2>1, <2>2
  <2>3. OpensAreKnown'
    BY <1>9 DEF RuntimesTypeOK, Hosting, OpensAreKnown, CallersAreServed, Pending
  <2>4. CallersAreServed'
    BY <1>9 DEF RuntimesTypeOK, Hosting, OpensAreKnown, CallersAreServed, Pending
  <2>5. SomebodyWaits'
    BY <1>9 DEF RuntimesTypeOK, Hosting, OpensAreKnown, CallersAreServed, SomebodyWaits, Pending
  <2> QED BY <2>3, <2>4, <2>5 DEF Hosting
<1>10. ASSUME ~displaced, ~Resumed, NEW c \in Caller, Lookup(c) PROVE RuntimesInv'
  <2> USE DEF Lookup, Goes
  <2>1. RuntimesTypeOK'
    BY <1>10 DEF RuntimesTypeOK
  <2>2. ControlIsExclusive'
    BY <1>10 DEF RuntimesTypeOK, Hosting, OpensAreKnown, CallersAreServed,
                ControlIsExclusive, Exclusive, Moves, Mutating, Navigating, Pending
  <2> SUFFICES ASSUME ~displaced' PROVE Hosting'
    BY <2>1, <2>2
  <2>3. OpensAreKnown'
    BY <1>10 DEF RuntimesTypeOK, Hosting, OpensAreKnown, CallersAreServed, Pending
  <2>4. CallersAreServed'
    BY <1>10 DEF RuntimesTypeOK, Hosting, OpensAreKnown, CallersAreServed, Pending
  <2>5. SomebodyWaits'
    BY <1>10 DEF RuntimesTypeOK, Hosting, OpensAreKnown, CallersAreServed, SomebodyWaits, Pending
  <2> QED BY <2>3, <2>4, <2>5 DEF Hosting
<1>11. ASSUME ~displaced, ~Resumed, NEW c \in Caller, Resolved(c) PROVE RuntimesInv'
  <2> USE DEF Resolved, Goes, OpenPending, Creates, Fresh
  <2>1. RuntimesTypeOK'
    BY <1>11 DEF RuntimesTypeOK
  <2>2. ControlIsExclusive'
    BY <1>11 DEF RuntimesTypeOK, Hosting, OpensAreKnown, CallersAreServed,
                ControlIsExclusive, Exclusive, Moves, Mutating, Navigating, Pending
  <2> SUFFICES ASSUME ~displaced' PROVE Hosting'
    BY <2>1, <2>2
  <2>3. OpensAreKnown'
    BY <1>11 DEF RuntimesTypeOK, Hosting, OpensAreKnown, CallersAreServed, Pending
  <2>4. CallersAreServed'
    BY <1>11 DEF RuntimesTypeOK, Hosting, OpensAreKnown, CallersAreServed, Pending
  <2>5. SomebodyWaits'
    BY <1>11 DEF RuntimesTypeOK, Hosting, OpensAreKnown, CallersAreServed, SomebodyWaits, Pending
  <2> QED BY <2>3, <2>4, <2>5 DEF Hosting
<1>12. ASSUME ~displaced, ~Resumed, NEW c \in Caller, NotFound(c) PROVE RuntimesInv'
  <2> USE DEF NotFound, Ends
  <2>1. RuntimesTypeOK'
    BY <1>12 DEF RuntimesTypeOK
  <2>2. ControlIsExclusive'
    BY <1>12 DEF RuntimesTypeOK, Hosting, OpensAreKnown, CallersAreServed,
                ControlIsExclusive, Exclusive, Moves, Mutating, Navigating, Pending
  <2> SUFFICES ASSUME ~displaced' PROVE Hosting'
    BY <2>1, <2>2
  <2>3. OpensAreKnown'
    BY <1>12 DEF RuntimesTypeOK, Hosting, OpensAreKnown, CallersAreServed, Pending
  <2>4. CallersAreServed'
    BY <1>12 DEF RuntimesTypeOK, Hosting, OpensAreKnown, CallersAreServed, Pending
  <2>5. SomebodyWaits'
    BY <1>12 DEF RuntimesTypeOK, Hosting, OpensAreKnown, CallersAreServed, SomebodyWaits, Pending
  <2> QED BY <2>3, <2>4, <2>5 DEF Hosting
<1>13. ASSUME ~displaced, ~Resumed, NEW c \in Caller, WakeDirectly(c) PROVE RuntimesInv'
  <2> USE DEF WakeDirectly
  <2>1. RuntimesTypeOK'
    BY <1>13 DEF RuntimesTypeOK
  <2>2. ControlIsExclusive'
    BY <1>13 DEF RuntimesTypeOK, Hosting, OpensAreKnown, CallersAreServed,
                ControlIsExclusive, Exclusive, Moves, Mutating, Navigating, Pending
  <2> SUFFICES ASSUME ~displaced' PROVE Hosting'
    BY <2>1, <2>2
  <2>3. OpensAreKnown'
    BY <1>13 DEF RuntimesTypeOK, Hosting, OpensAreKnown, CallersAreServed, Pending
  <2>4. CallersAreServed'
    BY <1>13 DEF RuntimesTypeOK, Hosting, OpensAreKnown, CallersAreServed, Pending
  <2>5. SomebodyWaits'
    BY <1>13 DEF RuntimesTypeOK, Hosting, OpensAreKnown, CallersAreServed, SomebodyWaits, Pending
  <2> QED BY <2>3, <2>4, <2>5 DEF Hosting
<1>14. ASSUME ~displaced, ~Resumed, NEW c \in Caller, CreateDirectly(c) PROVE RuntimesInv'
  <2> USE DEF CreateDirectly, Goes, Creates, Fresh
  <2>1. RuntimesTypeOK'
    BY <1>14 DEF RuntimesTypeOK
  <2>2. ControlIsExclusive'
    BY <1>14 DEF RuntimesTypeOK, Hosting, OpensAreKnown, CallersAreServed,
                ControlIsExclusive, Exclusive, Moves, Mutating, Navigating, Pending
  <2> SUFFICES ASSUME ~displaced' PROVE Hosting'
    BY <2>1, <2>2
  <2>3. OpensAreKnown'
    <3>1. {hosted, opening} = {NoRuntime}
      BY <1>14, Zenon
    <3>2. hosted = NoRuntime /\ opening = NoRuntime
      BY <3>1
    <3> QED BY <1>14, <3>2 DEF RuntimesTypeOK, Hosting, OpensAreKnown
  <2>4. CallersAreServed'
    BY <1>14 DEF RuntimesTypeOK, Hosting, OpensAreKnown, CallersAreServed, Pending
  <2>5. SomebodyWaits'
    BY <1>14 DEF RuntimesTypeOK, Hosting, OpensAreKnown, CallersAreServed, SomebodyWaits, Pending
  <2> QED BY <2>3, <2>4, <2>5 DEF Hosting
<1>15. ASSUME ~displaced, ~Resumed, NEW c \in Caller, EndMutation(c) PROVE RuntimesInv'
  <2> USE DEF EndMutation, Ends
  <2>1. RuntimesTypeOK'
    BY <1>15 DEF RuntimesTypeOK
  <2>2. ControlIsExclusive'
    BY <1>15 DEF RuntimesTypeOK, Hosting, OpensAreKnown, CallersAreServed,
                ControlIsExclusive, Exclusive, Moves, Mutating, Navigating, Pending
  <2> SUFFICES ASSUME ~displaced' PROVE Hosting'
    BY <2>1, <2>2
  <2>3. OpensAreKnown'
    BY <1>15 DEF RuntimesTypeOK, Hosting, OpensAreKnown, CallersAreServed, Pending
  <2>4. CallersAreServed'
    BY <1>15 DEF RuntimesTypeOK, Hosting, OpensAreKnown, CallersAreServed, Pending
  <2>5. SomebodyWaits'
    BY <1>15 DEF RuntimesTypeOK, Hosting, OpensAreKnown, CallersAreServed, SomebodyWaits, Pending
  <2> QED BY <2>3, <2>4, <2>5 DEF Hosting
<1>16. ASSUME ~displaced, ~Resumed, NEW c \in Caller, EndNavigation(c) PROVE RuntimesInv'
  <2> USE DEF EndNavigation, Ends
  <2>1. RuntimesTypeOK'
    BY <1>16 DEF RuntimesTypeOK
  <2>2. ControlIsExclusive'
    BY <1>16 DEF RuntimesTypeOK, Hosting, OpensAreKnown, CallersAreServed,
                ControlIsExclusive, Exclusive, Moves, Mutating, Navigating, Pending
  <2> SUFFICES ASSUME ~displaced' PROVE Hosting'
    BY <2>1, <2>2
  <2>3. OpensAreKnown'
    BY <1>16 DEF RuntimesTypeOK, Hosting, OpensAreKnown, CallersAreServed, Pending
  <2>4. CallersAreServed'
    BY <1>16 DEF RuntimesTypeOK, Hosting, OpensAreKnown, CallersAreServed, Pending
  <2>5. SomebodyWaits'
    BY <1>16 DEF RuntimesTypeOK, Hosting, OpensAreKnown, CallersAreServed, SomebodyWaits, Pending
  <2> QED BY <2>3, <2>4, <2>5 DEF Hosting
<1>17. ASSUME ~displaced, ~Resumed, NEW r \in PiRuntime, BindRuntime(r) PROVE RuntimesInv'
  <2> USE DEF BindRuntime
  <2>1. RuntimesTypeOK'
    BY <1>17 DEF RuntimesTypeOK
  <2>2. ControlIsExclusive'
    BY <1>17 DEF RuntimesTypeOK, Hosting, OpensAreKnown, CallersAreServed,
                ControlIsExclusive, Exclusive, Moves, Mutating, Navigating, Pending
  <2> SUFFICES ASSUME ~displaced' PROVE Hosting'
    BY <2>1, <2>2
  <2>3. OpensAreKnown'
    BY <1>17 DEF RuntimesTypeOK, Hosting, OpensAreKnown, CallersAreServed, Pending
  <2>4. CallersAreServed'
    BY <1>17 DEF RuntimesTypeOK, Hosting, OpensAreKnown, CallersAreServed, Pending, Resumed
  <2>5. SomebodyWaits'
    BY <1>17 DEF RuntimesTypeOK, Hosting, OpensAreKnown, CallersAreServed, SomebodyWaits, Pending
  <2> QED BY <2>3, <2>4, <2>5 DEF Hosting
<1>18. ASSUME ~displaced, ~Resumed, NEW r \in PiRuntime, CreationFails(r) PROVE RuntimesInv'
  <2> USE DEF CreationFails, Unless
  <2>0. WaitersGo(r, [waiting |-> "none", draining |-> "drained", reopening |-> "none"])
    BY <1>18
  <2>1. RuntimesTypeOK'
    BY <1>18, <2>0, WaitersAreSent DEF RuntimesTypeOK
  <2>2. ControlIsExclusive'
    BY <1>18, <2>0, WaitersAreSent DEF RuntimesTypeOK, Hosting, OpensAreKnown, CallersAreServed,
                ControlIsExclusive, Exclusive, Moves, Mutating, Navigating, Pending
  <2> SUFFICES ASSUME ~displaced' PROVE Hosting'
    BY <2>1, <2>2
  <2>3. OpensAreKnown'
    BY <1>18, <2>0, WaitersAreSent DEF RuntimesTypeOK, Hosting, OpensAreKnown, CallersAreServed, Pending
  <2>4. CallersAreServed'
    BY <1>18, <2>0, WaitersAreSent DEF RuntimesTypeOK, Hosting, OpensAreKnown, CallersAreServed, Pending
  <2>5. SomebodyWaits'
    BY <1>18, <2>0, WaitersAreSent DEF RuntimesTypeOK, Hosting, OpensAreKnown, CallersAreServed, SomebodyWaits, Pending
  <2> QED BY <2>3, <2>4, <2>5 DEF Hosting
<1>19. ASSUME ~displaced, ~Resumed, NEW r \in PiRuntime, Started(r) PROVE RuntimesInv'
  <2> USE DEF Started, Unless
  <2>0. WaitersGo(r, [waiting |-> "got", draining |-> "drained", reopening |-> "none"])
    BY <1>19
  <2>1. RuntimesTypeOK'
    BY <1>19, <2>0, WaitersAreSent DEF RuntimesTypeOK
  <2>2. ControlIsExclusive'
    BY <1>19, <2>0, WaitersAreSent DEF RuntimesTypeOK, Hosting, OpensAreKnown, CallersAreServed,
                ControlIsExclusive, Exclusive, Moves, Mutating, Navigating, Pending
  <2> SUFFICES ASSUME ~displaced' PROVE Hosting'
    BY <2>1, <2>2
  <2>3. OpensAreKnown'
    BY <1>19, <2>0, WaitersAreSent DEF RuntimesTypeOK, Hosting, OpensAreKnown, CallersAreServed, Pending
  <2>4. CallersAreServed'
    BY <1>19, <2>0, WaitersAreSent DEF RuntimesTypeOK, Hosting, OpensAreKnown, CallersAreServed, Pending
  <2>5. SomebodyWaits'
    BY <1>19, <2>0, WaitersAreSent DEF RuntimesTypeOK, Hosting, OpensAreKnown, CallersAreServed, SomebodyWaits, Pending
  <2> QED BY <2>3, <2>4, <2>5 DEF Hosting
<1>20. ASSUME ~displaced, ~Resumed, NEW r \in PiRuntime, StartFails(r) PROVE RuntimesInv'
  <2> USE DEF StartFails, Unless
  <2>1. RuntimesTypeOK'
    BY <1>20 DEF RuntimesTypeOK
  <2>2. ControlIsExclusive'
    BY <1>20 DEF RuntimesTypeOK, Hosting, OpensAreKnown, CallersAreServed,
                ControlIsExclusive, Exclusive, Moves, Mutating, Navigating, Pending
  <2> SUFFICES ASSUME ~displaced' PROVE Hosting'
    BY <2>1, <2>2
  <2>3. OpensAreKnown'
    BY <1>20 DEF RuntimesTypeOK, Hosting, OpensAreKnown, CallersAreServed, Pending
  <2>4. CallersAreServed'
    BY <1>20 DEF RuntimesTypeOK, Hosting, OpensAreKnown, CallersAreServed, Pending
  <2>5. SomebodyWaits'
    BY <1>20 DEF RuntimesTypeOK, Hosting, OpensAreKnown, CallersAreServed, SomebodyWaits, Pending
  <2> QED BY <2>3, <2>4, <2>5 DEF Hosting
<1>21. ASSUME ~displaced, ~Resumed, NEW r \in PiRuntime, FailedIsDisposed(r) PROVE RuntimesInv'
  <2> USE DEF FailedIsDisposed, Unless
  <2>0. WaitersGo(r, [waiting |-> "none", draining |-> "drained", reopening |-> "none"])
    BY <1>21
  <2>1. RuntimesTypeOK'
    BY <1>21, <2>0, WaitersAreSent DEF RuntimesTypeOK
  <2>2. ControlIsExclusive'
    BY <1>21, <2>0, WaitersAreSent DEF RuntimesTypeOK, Hosting, OpensAreKnown, CallersAreServed,
                ControlIsExclusive, Exclusive, Moves, Mutating, Navigating, Pending
  <2> SUFFICES ASSUME ~displaced' PROVE Hosting'
    BY <2>1, <2>2
  <2>3. OpensAreKnown'
    BY <1>21, <2>0, WaitersAreSent DEF RuntimesTypeOK, Hosting, OpensAreKnown, CallersAreServed, Pending
  <2>4. CallersAreServed'
    BY <1>21, <2>0, WaitersAreSent DEF RuntimesTypeOK, Hosting, OpensAreKnown, CallersAreServed, Pending
  <2>5. SomebodyWaits'
    BY <1>21, <2>0, WaitersAreSent DEF RuntimesTypeOK, Hosting, OpensAreKnown, CallersAreServed, SomebodyWaits, Pending
  <2> QED BY <2>3, <2>4, <2>5 DEF Hosting
<1>22. ASSUME ~displaced, ~Resumed, NEW r \in PiRuntime, Disposed(r) PROVE RuntimesInv'
  <2> USE DEF Disposed
  <2>1. RuntimesTypeOK'
    BY <1>22 DEF RuntimesTypeOK
  <2>2. ControlIsExclusive'
    BY <1>22 DEF RuntimesTypeOK, Hosting, OpensAreKnown, CallersAreServed,
                ControlIsExclusive, Exclusive, Moves, Mutating, Navigating, Pending
  <2> SUFFICES ASSUME ~displaced' PROVE Hosting'
    BY <2>1, <2>2
  <2>3. OpensAreKnown'
    BY <1>22 DEF RuntimesTypeOK, Hosting, OpensAreKnown, CallersAreServed, Pending
  <2>4. CallersAreServed'
    BY <1>22 DEF RuntimesTypeOK, Hosting, OpensAreKnown, CallersAreServed, Pending
  <2>5. SomebodyWaits'
    BY <1>22 DEF RuntimesTypeOK, Hosting, OpensAreKnown, CallersAreServed, SomebodyWaits, Pending
  <2> QED BY <2>3, <2>4, <2>5 DEF Hosting
<1>23. ASSUME ~displaced, ~Resumed, NEW r \in PiRuntime, ExtensionAsks(r) PROVE RuntimesInv'
  <2> USE DEF ExtensionAsks
  <2>1. RuntimesTypeOK'
    BY <1>23 DEF RuntimesTypeOK
  <2>2. ControlIsExclusive'
    BY <1>23 DEF RuntimesTypeOK, Hosting, OpensAreKnown, CallersAreServed,
                ControlIsExclusive, Exclusive, Moves, Mutating, Navigating, Pending
  <2> SUFFICES ASSUME ~displaced' PROVE Hosting'
    BY <2>1, <2>2
  <2>3. OpensAreKnown'
    BY <1>23 DEF RuntimesTypeOK, Hosting, OpensAreKnown, CallersAreServed, Pending
  <2>4. CallersAreServed'
    BY <1>23 DEF RuntimesTypeOK, Hosting, OpensAreKnown, CallersAreServed, Pending
  <2>5. SomebodyWaits'
    BY <1>23 DEF RuntimesTypeOK, Hosting, OpensAreKnown, CallersAreServed, SomebodyWaits, Pending
  <2> QED BY <2>3, <2>4, <2>5 DEF Hosting
<1>24. ASSUME ~displaced, ~Resumed, NEW r \in PiRuntime, UserAnswers(r) PROVE RuntimesInv'
  <2> USE DEF UserAnswers
  <2>1. RuntimesTypeOK'
    BY <1>24 DEF RuntimesTypeOK
  <2>2. ControlIsExclusive'
    BY <1>24 DEF RuntimesTypeOK, Hosting, OpensAreKnown, CallersAreServed,
                ControlIsExclusive, Exclusive, Moves, Mutating, Navigating, Pending
  <2> SUFFICES ASSUME ~displaced' PROVE Hosting'
    BY <2>1, <2>2
  <2>3. OpensAreKnown'
    BY <1>24 DEF RuntimesTypeOK, Hosting, OpensAreKnown, CallersAreServed, Pending
  <2>4. CallersAreServed'
    BY <1>24 DEF RuntimesTypeOK, Hosting, OpensAreKnown, CallersAreServed, Pending
  <2>5. SomebodyWaits'
    BY <1>24 DEF RuntimesTypeOK, Hosting, OpensAreKnown, CallersAreServed, SomebodyWaits, Pending
  <2> QED BY <2>3, <2>4, <2>5 DEF Hosting
<1>25. ASSUME ~displaced, ~Resumed, NEW c \in Caller, Control(c) PROVE RuntimesInv'
  <2> USE DEF Control, Goes, IsCurrent
  <2>1. RuntimesTypeOK'
    BY <1>25 DEF RuntimesTypeOK
  <2>2. ControlIsExclusive'
    BY <1>25 DEF RuntimesTypeOK, Hosting, OpensAreKnown, CallersAreServed,
                ControlIsExclusive, Exclusive, Moves, Mutating, Navigating, Pending
  <2> SUFFICES ASSUME ~displaced' PROVE Hosting'
    BY <2>1, <2>2
  <2>3. OpensAreKnown'
    BY <1>25 DEF RuntimesTypeOK, Hosting, OpensAreKnown, CallersAreServed, Pending
  <2>4. CallersAreServed'
    BY <1>25 DEF RuntimesTypeOK, Hosting, OpensAreKnown, CallersAreServed, Pending
  <2>5. SomebodyWaits'
    BY <1>25 DEF RuntimesTypeOK, Hosting, OpensAreKnown, CallersAreServed, SomebodyWaits, Pending
  <2> QED BY <2>3, <2>4, <2>5 DEF Hosting
<1>26. ASSUME ~displaced, ~Resumed, NEW c \in Caller, ControlGoesOn(c) PROVE RuntimesInv'
  <2> USE DEF ControlGoesOn, Goes, IsCurrent, ActiveWork
  <2>1. RuntimesTypeOK'
    BY <1>26 DEF RuntimesTypeOK
  <2>2. ControlIsExclusive'
    BY <1>26 DEF RuntimesTypeOK, Hosting, OpensAreKnown, CallersAreServed,
                ControlIsExclusive, Exclusive, Moves, Mutating, Navigating, Pending
  <2> SUFFICES ASSUME ~displaced' PROVE Hosting'
    BY <2>1, <2>2
  <2>3. OpensAreKnown'
    BY <1>26 DEF RuntimesTypeOK, Hosting, OpensAreKnown, CallersAreServed, Pending
  <2>4. CallersAreServed'
    BY <1>26 DEF RuntimesTypeOK, Hosting, OpensAreKnown, CallersAreServed, Pending
  <2>5. SomebodyWaits'
    BY <1>26 DEF RuntimesTypeOK, Hosting, OpensAreKnown, CallersAreServed, SomebodyWaits, Pending
  <2> QED BY <2>3, <2>4, <2>5 DEF Hosting
<1>27. ASSUME ~displaced, ~Resumed, NEW c \in Caller, ControlEnds(c) PROVE RuntimesInv'
  <2> USE DEF ControlEnds, Goes
  <2>1. RuntimesTypeOK'
    BY <1>27 DEF RuntimesTypeOK
  <2>2. ControlIsExclusive'
    BY <1>27 DEF RuntimesTypeOK, Hosting, OpensAreKnown, CallersAreServed,
                ControlIsExclusive, Exclusive, Moves, Mutating, Navigating, Pending
  <2> SUFFICES ASSUME ~displaced' PROVE Hosting'
    BY <2>1, <2>2
  <2>3. OpensAreKnown'
    BY <1>27 DEF RuntimesTypeOK, Hosting, OpensAreKnown, CallersAreServed, Pending
  <2>4. CallersAreServed'
    BY <1>27 DEF RuntimesTypeOK, Hosting, OpensAreKnown, CallersAreServed, Pending
  <2>5. SomebodyWaits'
    BY <1>27 DEF RuntimesTypeOK, Hosting, OpensAreKnown, CallersAreServed, SomebodyWaits, Pending
  <2> QED BY <2>3, <2>4, <2>5 DEF Hosting
<1>28. ASSUME ~displaced, ~Resumed, NEW c \in Caller, BeginFork(c) PROVE RuntimesInv'
  <2> USE DEF BeginFork, Goes, Ends, ActiveWork
  <2>1. RuntimesTypeOK'
    BY <1>28 DEF RuntimesTypeOK
  <2>2. ControlIsExclusive'
    BY <1>28 DEF RuntimesTypeOK, Hosting, OpensAreKnown, CallersAreServed,
                ControlIsExclusive, Exclusive, Moves, Mutating, Navigating, Pending
  <2> SUFFICES ASSUME ~displaced' PROVE Hosting'
    BY <2>1, <2>2
  <2>3. OpensAreKnown'
    BY <1>28 DEF RuntimesTypeOK, Hosting, OpensAreKnown, CallersAreServed, Pending
  <2>4. CallersAreServed'
    BY <1>28 DEF RuntimesTypeOK, Hosting, OpensAreKnown, CallersAreServed, Pending
  <2>5. SomebodyWaits'
    BY <1>28 DEF RuntimesTypeOK, Hosting, OpensAreKnown, CallersAreServed, SomebodyWaits, Pending
  <2> QED BY <2>3, <2>4, <2>5 DEF Hosting
<1>29. ASSUME ~displaced, ~Resumed, NEW c \in Caller, ForkReplaces(c) PROVE RuntimesInv'
  <2> USE DEF ForkReplaces, Ends, Unless
  <2>1. RuntimesTypeOK'
    <3>1. displaced' \in BOOLEAN
      BY <1>29 DEF RuntimesTypeOK
    <3>2. life' \in [PiRuntime -> {"none", "creating", "starting", "ready", "failing", "closing"}]
      BY <1>29 DEF RuntimesTypeOK
    <3>3. {hosted', opening', startup'} \subseteq PiRuntime \cup {NoRuntime}
          /\ unexpected' \subseteq parked' /\ parked' \subseteq PiRuntime
      BY <1>29 DEF RuntimesTypeOK
    <3>4. on' \in [Caller -> PiRuntime \cup {NoRuntime}]
      BY <1>29 DEF RuntimesTypeOK
    <3>5. doing' \in [Caller -> {"nothing", "prompt", "navigate", "fork", "reload", "archive", "wake",
                                "stop", "batch", "move"}]
      BY <1>29 DEF RuntimesTypeOK
    <3>6. at' \in [Caller -> {"none", "lookup", "resolving", "waiting", "got", "header", "mutating",
                        "controlling", "steering", "restarting", "navigating", "naming", "forking",
                        "reserved", "queued", "closing", "closed", "reopening", "persisting", "draining",
                        "drained"}]
      BY <1>29 DEF RuntimesTypeOK
    <3> QED BY <3>1, <3>2, <3>3, <3>4, <3>5, <3>6 DEF RuntimesTypeOK
  <2>2. ControlIsExclusive'
    BY <1>29 DEF RuntimesTypeOK, Hosting, OpensAreKnown, CallersAreServed,
                ControlIsExclusive, Exclusive, Moves, Mutating, Navigating, Pending
  <2> SUFFICES ASSUME ~displaced' PROVE Hosting'
    BY <2>1, <2>2
  <2>3. OpensAreKnown'
    BY <1>29 DEF RuntimesTypeOK, Hosting, OpensAreKnown, CallersAreServed, Pending
  <2>4. CallersAreServed'
    BY <1>29 DEF RuntimesTypeOK, Hosting, OpensAreKnown, CallersAreServed, Pending
  <2>5. SomebodyWaits'
    BY <1>29 DEF RuntimesTypeOK, Hosting, OpensAreKnown, CallersAreServed, SomebodyWaits, Pending
  <2> QED BY <2>3, <2>4, <2>5 DEF Hosting
<1>30. ASSUME ~displaced, ~Resumed, NEW c \in Caller, ForkIsCancelled(c) PROVE RuntimesInv'
  <2> USE DEF ForkIsCancelled, Ends
  <2>1. RuntimesTypeOK'
    BY <1>30 DEF RuntimesTypeOK
  <2>2. ControlIsExclusive'
    BY <1>30 DEF RuntimesTypeOK, Hosting, OpensAreKnown, CallersAreServed,
                ControlIsExclusive, Exclusive, Moves, Mutating, Navigating, Pending
  <2> SUFFICES ASSUME ~displaced' PROVE Hosting'
    BY <2>1, <2>2
  <2>3. OpensAreKnown'
    BY <1>30 DEF RuntimesTypeOK, Hosting, OpensAreKnown, CallersAreServed, Pending
  <2>4. CallersAreServed'
    BY <1>30 DEF RuntimesTypeOK, Hosting, OpensAreKnown, CallersAreServed, Pending
  <2>5. SomebodyWaits'
    BY <1>30 DEF RuntimesTypeOK, Hosting, OpensAreKnown, CallersAreServed, SomebodyWaits, Pending
  <2> QED BY <2>3, <2>4, <2>5 DEF Hosting
<1>31. ASSUME ~displaced, ~Resumed, NEW c \in Caller, CloseForArchive(c) PROVE RuntimesInv'
  <2> USE DEF CloseForArchive, Goes, Closes
  <2>1. RuntimesTypeOK'
    <3>1. displaced' \in BOOLEAN
      BY <1>31, Zenon DEF Closes
    <3>2. life' \in [PiRuntime -> {"none", "creating", "starting", "ready", "failing", "closing"}]
      BY <1>31 DEF RuntimesTypeOK, Hosting, CallersAreServed, Pending
    <3>3. {hosted', opening', startup'} \subseteq PiRuntime \cup {NoRuntime}
          /\ unexpected' \subseteq parked' /\ parked' \subseteq PiRuntime
      BY <1>31 DEF RuntimesTypeOK
    <3>4. on' \in [Caller -> PiRuntime \cup {NoRuntime}]
      BY <1>31 DEF RuntimesTypeOK
    <3>5. doing' \in [Caller -> {"nothing", "prompt", "navigate", "fork", "reload", "archive", "wake",
                                "stop", "batch", "move"}]
      BY <1>31 DEF RuntimesTypeOK
    <3>6. at' \in [Caller -> {"none", "lookup", "resolving", "waiting", "got", "header", "mutating",
                        "controlling", "steering", "restarting", "navigating", "naming", "forking",
                        "reserved", "queued", "closing", "closed", "reopening", "persisting", "draining",
                        "drained"}]
      BY <1>31 DEF RuntimesTypeOK
    <3> QED BY <3>1, <3>2, <3>3, <3>4, <3>5, <3>6 DEF RuntimesTypeOK
  <2>2. ControlIsExclusive'
    BY <1>31 DEF RuntimesTypeOK, Hosting, OpensAreKnown, CallersAreServed,
                ControlIsExclusive, Exclusive, Moves, Mutating, Navigating, Pending
  <2> SUFFICES ASSUME ~displaced' PROVE Hosting'
    BY <2>1, <2>2
  <2>3. OpensAreKnown'
    <3>1. on[c] \in PiRuntime /\ life[on[c]] \in {"none", "ready", "closing"}
      BY <1>31 DEF RuntimesTypeOK, Hosting, CallersAreServed, Pending
    <3>2. hosted' = NoRuntime /\ hosted \in {on[c], NoRuntime} /\ UNCHANGED <<opening, startup>>
      BY <1>31
    <3>3. CASE life[on[c]] = "ready"
      <4>1. life' = [life EXCEPT ![on[c]] = "closing"]
        BY <1>31, <3>3
      <4> QED BY <1>31, <3>1, <3>2, <3>3, <4>1 DEF RuntimesTypeOK, Hosting, OpensAreKnown
    <3>4. CASE life[on[c]] # "ready"
      <4>1. life' = life
        BY <1>31, <3>4
      <4> QED BY <1>31, <3>1, <3>2, <3>4, <4>1 DEF RuntimesTypeOK, Hosting, OpensAreKnown
    <3> QED BY <3>3, <3>4
  <2>4. CallersAreServed'
    BY <1>31 DEF RuntimesTypeOK, Hosting, OpensAreKnown, CallersAreServed, Pending
  <2>5. SomebodyWaits'
    BY <1>31 DEF RuntimesTypeOK, Hosting, OpensAreKnown, CallersAreServed, SomebodyWaits, Pending
  <2> QED BY <2>3, <2>4, <2>5 DEF Hosting
<1>32. ASSUME ~displaced, ~Resumed, NEW c \in Caller, OperationEnds(c) PROVE RuntimesInv'
  <2> USE DEF OperationEnds, Ends
  <2>1. RuntimesTypeOK'
    BY <1>32 DEF RuntimesTypeOK
  <2>2. ControlIsExclusive'
    BY <1>32 DEF RuntimesTypeOK, Hosting, OpensAreKnown, CallersAreServed,
                ControlIsExclusive, Exclusive, Moves, Mutating, Navigating, Pending
  <2> SUFFICES ASSUME ~displaced' PROVE Hosting'
    BY <2>1, <2>2
  <2>3. OpensAreKnown'
    BY <1>32 DEF RuntimesTypeOK, Hosting, OpensAreKnown, CallersAreServed, Pending
  <2>4. CallersAreServed'
    BY <1>32 DEF RuntimesTypeOK, Hosting, OpensAreKnown, CallersAreServed, Pending
  <2>5. SomebodyWaits'
    BY <1>32 DEF RuntimesTypeOK, Hosting, OpensAreKnown, CallersAreServed, SomebodyWaits, Pending
  <2> QED BY <2>3, <2>4, <2>5 DEF Hosting
<1>33. ASSUME ~displaced, ~Resumed, NEW c \in Caller, StopSession(c) PROVE RuntimesInv'
  <2> USE DEF StopSession, ClosesHosted, Closes, Drains
  <2>1. RuntimesTypeOK'
    BY <1>33 DEF RuntimesTypeOK
  <2>2. ControlIsExclusive'
    BY <1>33 DEF RuntimesTypeOK, Hosting, OpensAreKnown, CallersAreServed,
                ControlIsExclusive, Exclusive, Moves, Mutating, Navigating, Pending
  <2> SUFFICES ASSUME ~displaced' PROVE Hosting'
    BY <2>1, <2>2
  <2>3. OpensAreKnown'
    BY <1>33 DEF RuntimesTypeOK, Hosting, OpensAreKnown, CallersAreServed, Pending
  <2>4. CallersAreServed'
    BY <1>33 DEF RuntimesTypeOK, Hosting, OpensAreKnown, CallersAreServed, Pending
  <2>5. SomebodyWaits'
    BY <1>33 DEF RuntimesTypeOK, Hosting, OpensAreKnown, CallersAreServed, SomebodyWaits, Pending
  <2> QED BY <2>3, <2>4, <2>5 DEF Hosting
<1>34. ASSUME ~displaced, ~Resumed, NEW c \in Caller, Batch(c) PROVE RuntimesInv'
  <2> USE DEF Batch, Queues, ActiveWork
  <2>1. RuntimesTypeOK'
    BY <1>34 DEF RuntimesTypeOK
  <2>2. ControlIsExclusive'
    BY <1>34 DEF RuntimesTypeOK, Hosting, OpensAreKnown, CallersAreServed,
                ControlIsExclusive, Exclusive, Moves, Mutating, Navigating, Pending
  <2> SUFFICES ASSUME ~displaced' PROVE Hosting'
    BY <2>1, <2>2
  <2>3. OpensAreKnown'
    BY <1>34 DEF RuntimesTypeOK, Hosting, OpensAreKnown, CallersAreServed, Pending
  <2>4. CallersAreServed'
    BY <1>34 DEF RuntimesTypeOK, Hosting, OpensAreKnown, CallersAreServed, Pending
  <2>5. SomebodyWaits'
    BY <1>34 DEF RuntimesTypeOK, Hosting, OpensAreKnown, CallersAreServed, SomebodyWaits, Pending
  <2> QED BY <2>3, <2>4, <2>5 DEF Hosting
<1>35. ASSUME ~displaced, ~Resumed, NEW c \in Caller, MoveSession(c) PROVE RuntimesInv'
  <2> USE DEF MoveSession, Queues, ActiveWork
  <2>1. RuntimesTypeOK'
    BY <1>35 DEF RuntimesTypeOK
  <2>2. ControlIsExclusive'
    BY <1>35 DEF RuntimesTypeOK, Hosting, OpensAreKnown, CallersAreServed,
                ControlIsExclusive, Exclusive, Moves, Mutating, Navigating, Pending
  <2> SUFFICES ASSUME ~displaced' PROVE Hosting'
    BY <2>1, <2>2
  <2>3. OpensAreKnown'
    BY <1>35 DEF RuntimesTypeOK, Hosting, OpensAreKnown, CallersAreServed, Pending
  <2>4. CallersAreServed'
    BY <1>35 DEF RuntimesTypeOK, Hosting, OpensAreKnown, CallersAreServed, Pending
  <2>5. SomebodyWaits'
    BY <1>35 DEF RuntimesTypeOK, Hosting, OpensAreKnown, CallersAreServed, SomebodyWaits, Pending
  <2> QED BY <2>3, <2>4, <2>5 DEF Hosting
<1>36. ASSUME ~displaced, ~Resumed, NEW c \in Caller, CloseQueued(c) PROVE RuntimesInv'
  <2> USE DEF CloseQueued, Goes, ClosesHosted, Closes, Drains
  <2>1. RuntimesTypeOK'
    BY <1>36 DEF RuntimesTypeOK
  <2>2. ControlIsExclusive'
    BY <1>36 DEF RuntimesTypeOK, Hosting, OpensAreKnown, CallersAreServed,
                ControlIsExclusive, Exclusive, Moves, Mutating, Navigating, Pending
  <2> SUFFICES ASSUME ~displaced' PROVE Hosting'
    BY <2>1, <2>2
  <2>3. OpensAreKnown'
    BY <1>36 DEF RuntimesTypeOK, Hosting, OpensAreKnown, CallersAreServed, Pending
  <2>4. CallersAreServed'
    BY <1>36 DEF RuntimesTypeOK, Hosting, OpensAreKnown, CallersAreServed, Pending
  <2>5. SomebodyWaits'
    BY <1>36 DEF RuntimesTypeOK, Hosting, OpensAreKnown, CallersAreServed, SomebodyWaits, Pending
  <2> QED BY <2>3, <2>4, <2>5 DEF Hosting
<1>37. CASE UNCHANGED runtimeVars
  BY <1>37 DEF runtimeVars, RuntimesTypeOK, Hosting, OpensAreKnown, CallersAreServed, SomebodyWaits,
            ControlIsExclusive, Exclusive, Moves, Mutating, Navigating, Pending
<1> QED
  BY <1>1, <1>2, <1>3, <1>4, <1>5, <1>6, <1>7, <1>8, <1>9, <1>10, <1>11, <1>12, <1>13, <1>14, <1>15, <1>16, <1>17, <1>18, <1>19, <1>20, <1>21, <1>22, <1>23, <1>24, <1>25, <1>26, <1>27, <1>28, <1>29, <1>30, <1>31, <1>32, <1>33, <1>34, <1>35, <1>36, <1>37 DEF RuntimesNext, Resumes, GoesOn

LEMMA RuntimesInvHolds == RuntimesSpec => []RuntimesInv
BY RuntimesInitHolds, RuntimesNextHolds, PTL DEF RuntimesSpec

-----------------------------------------------------------------------------

\* Every variable holds a value of its kind.
THEOREM RuntimesTypeCorrect == RuntimesSpec => []RuntimesTypeOK
<1>1. RuntimesInv => RuntimesTypeOK
  BY DEF RuntimesInv
<1> QED BY <1>1, RuntimesInvHolds, PTL

\* Lookups, opens, reloads, stops, archives and failures never make a second runtime of a
\* session, however many requests there are, except in the two displacing steps.
THEOREM OneRuntimeHosts == RuntimesSpec => []OneRuntime
<1>1. RuntimesInv => OneRuntime
  BY NoRuntimeAssumption DEF RuntimesInv, RuntimesTypeOK, Hosting, OpensAreKnown, OneRuntime, Alive
<1> QED BY <1>1, RuntimesInvHolds, PTL

\* What failed or finished requests opened is gone when nobody waits any more.
THEOREM RequestsLeaveNothingBehind == RuntimesSpec => []NothingIsLeftBehind
<1>1. RuntimesInv => NothingIsLeftBehind
  <2> SUFFICES ASSUME RuntimesInv, ~displaced, \A c \in Caller : doing[c] = "nothing"
               PROVE  /\ {opening, startup} = {NoRuntime}
                      /\ \A r \in PiRuntime : IF r = hosted THEN life[r] = "ready" ELSE life[r] = "none"
    BY DEF NothingIsLeftBehind
  <2> USE DEF RuntimesInv, RuntimesTypeOK, Hosting
  <2>1. \A c \in Caller : at[c] = "none"
    BY DEF CallersAreServed
  <2>2. opening = NoRuntime /\ \A r \in PiRuntime : life[r] # "closing"
    BY <2>1 DEF SomebodyWaits, Pending
  <2>3. startup = NoRuntime /\ \A r \in PiRuntime : life[r] \in {"none", "ready"}
    BY <2>2, NoRuntimeAssumption DEF OpensAreKnown
  <2> QED BY <2>2, <2>3 DEF OpensAreKnown
<1> QED BY <1>1, RuntimesInvHolds, PTL

\* Checked operations never share the session, whatever is awaited between a check and a
\* reservation, and while the tree of the hosting runtime is navigated nobody has reserved the
\* session, not even by an archive of a tree or a restore, and nobody else adds entries.
THEOREM ControlStaysExclusive == RuntimesSpec => []ControlIsExclusive
<1>1. RuntimesInv => ControlIsExclusive
  BY DEF RuntimesInv
<1> QED BY <1>1, RuntimesInvHolds, PTL

=============================================================================
