--------------------------- MODULE ForegroundProofs ---------------------------
(***************************************************************************)
(* Proofs about Foreground, for any number of handlers, sessions and modes *)
(* and with every executor free to fail: the slot and its lock, the events *)
(* that handlers publish after they have given the lock back, and the      *)
(* refinement of SessionSlot.                                              *)
(***************************************************************************)
EXTENDS Foreground, TLAPS

\* The session being launched has its number.
Numbered == \A h \in Handlers : pc[h] \in LaunchPc => sess[h] # 0

\* The lock is with the handler whose step needs it, and with it alone.
LockHeld == \A h \in Handlers : pc[h] \in Locked <=> lock = h

\* What is current and what is running at each step under the lock, and
\* whenever nobody is about to record a session that has started.
SlotState ==
    /\ \A h \in Handlers : pc[h] \in {"replacing", "stopping"} => current # 0
    /\ \A h \in Handlers :
           pc[h] = "launching" => current = 0 /\ running \subseteq strays
    /\ \A h \in Handlers :
           pc[h] = "recording" =>
               current = 0 /\ running \subseteq {sess[h]} \cup strays
    /\ (\A h \in Handlers : pc[h] # "recording") =>
           running \subseteq {current} \cup strays

\* A session whose launch reported a failure is neither current nor being
\* launched.
StraysAreOver ==
    /\ current \notin strays
    /\ \A h \in Handlers : pc[h] \in LaunchPc => sess[h] \notin strays

IInv == TypeOK /\ Numbered /\ LockHeld /\ SlotState /\ StraysAreOver

-----------------------------------------------------------------------------
(* Types *)

LEMMA InitTypes == Init => TypeOK /\ Numbered
  BY ModesAssumption, BoundAssumption
  DEF Init, TypeOK, Numbered, Pc, Locked, LaunchPc

LEMMA LaunchTypes ==
  ASSUME TypeOK, Numbered, NEW h \in Handlers, Launch(h) \/ LaunchSteps(h)
  PROVE  TypeOK' /\ Numbered'
  <1> USE BoundAssumption
      DEF TypeOK, Numbered, Goto, Unlock, switch, Pc, Locked, LaunchPc
  <1>1. CASE Launch(h)
    <2>1. count' \in 0..MaxSessions /\ count \in Nat /\ count' = count + 1
      BY <1>1 DEF Launch
    <2>2. current' \in 0..count' /\ running' \subseteq 1..count'
          /\ strays' \subseteq 1..count'
      BY <1>1, <2>1 DEF Launch
    <2>3. sess' \in [Handlers -> 0..count']
      BY <1>1, <2>1 DEF Launch
    <2>4. pc' \in [Handlers -> Pc] /\ lock' \in Handlers \cup {None}
      BY <1>1 DEF Launch
    <2>5. mode' \in Modes /\ serverBusy' \in BOOLEAN
      BY <1>1 DEF Launch
    <2>6. target' \in [Handlers -> Modes]
          /\ held' \in [Handlers -> BOOLEAN]
      BY <1>1 DEF Launch
    <2>7. Numbered'
      BY <1>1, <2>1 DEF Launch
    <2> QED BY <2>1, <2>2, <2>3, <2>4, <2>5, <2>6, <2>7
  <1>2. CASE Replace(h) BY <1>2 DEF Replace, Ended
  <1>3. CASE ReplaceFails(h) BY <1>3 DEF ReplaceFails, MayHaveEnded
  <1>4. CASE Started(h)
    <2>1. sess[h] \in 1..count /\ count' = count
      BY <1>4 DEF Started
    <2>2. running' \subseteq 1..count'
      BY <1>4, <2>1 DEF Started
    <2> QED BY <1>4, <2>2 DEF Started
  <1>5. CASE StartFails(h)
    <2>1. sess[h] \in 1..count /\ count' = count
      BY <1>5 DEF StartFails
    <2>2. running' \subseteq 1..count' /\ strays' \subseteq 1..count'
      BY <1>5, <2>1 DEF StartFails
    <2> QED BY <1>5, <2>2 DEF StartFails
  <1>6. CASE Record(h) BY <1>6 DEF Record
  <1> QED BY <1>1, <1>2, <1>3, <1>4, <1>5, <1>6 DEF LaunchSteps

LEMMA CloseTypes ==
  ASSUME TypeOK, Numbered, NEW h \in Handlers,
         ReadCurrent(h) \/ CloseSteps(h) \/ Close(h)
  PROVE  TypeOK' /\ Numbered'
  <1> USE DEF TypeOK, Numbered, Goto, Unlock, switch, Pc, Locked, LaunchPc,
              Closed
  <1>1. CASE ReadCurrent(h) BY <1>1 DEF ReadCurrent
  <1>2. CASE Stop(h) BY <1>2 DEF Stop, Ended
  <1>3. CASE StopFails(h) BY <1>3 DEF StopFails, MayHaveEnded
  <1>4. CASE Close(h) BY <1>4 DEF Close
  <1> QED BY <1>1, <1>2, <1>3, <1>4 DEF CloseSteps

LEMMA SwitchTypes ==
  ASSUME TypeOK, Numbered, NEW h \in Handlers,
         \/ \E t \in Targets, f \in BOOLEAN : BeginSwitch(h, t, f)
         \/ SwitchSteps(h) \/ CheckApps(h) \/ Announce(h)
  PROVE  TypeOK' /\ Numbered'
  <1> USE DEF TypeOK, Numbered, Goto, switch, app, Pc, Locked, LaunchPc
  <1>1. ASSUME NEW t \in Targets, NEW f \in BOOLEAN, BeginSwitch(h, t, f)
        PROVE  TypeOK' /\ Numbered'
    BY <1>1 DEF BeginSwitch
  <1>2. CASE CheckServers(h) BY <1>2 DEF CheckServers
  <1>3. CASE Execute(h) BY <1>3 DEF Execute
  <1>4. CASE Persist(h) BY <1>4 DEF Persist
  <1>5. CASE PersistFails(h) BY <1>5 DEF PersistFails
  <1>6. CASE CheckApps(h) BY <1>6 DEF CheckApps
  <1>7. CASE Announce(h) BY <1>7 DEF Announce
  <1> QED BY <1>1, <1>2, <1>3, <1>4, <1>5, <1>6, <1>7 DEF SwitchSteps

LEMMA NextTypes == TypeOK /\ Numbered /\ [Next]_vars => TypeOK' /\ Numbered'
  <1> SUFFICES ASSUME TypeOK, Numbered, [Next]_vars
               PROVE  TypeOK' /\ Numbered'
    OBVIOUS
  <1>1. CASE UNCHANGED vars
    BY <1>1 DEF vars, TypeOK, Numbered
  <1>2. CASE ServersChange
    BY <1>2 DEF ServersChange, app, switch, TypeOK, Numbered
  <1>3. CASE \E h \in Handlers : Launch(h) \/ LaunchSteps(h)
    BY <1>3, LaunchTypes
  <1>4. CASE \E h \in Handlers : ReadCurrent(h) \/ CloseSteps(h) \/ Close(h)
    BY <1>4, CloseTypes
  <1>5. CASE \E h \in Handlers :
               \/ \E t \in Targets, f \in BOOLEAN : BeginSwitch(h, t, f)
               \/ SwitchSteps(h) \/ CheckApps(h) \/ Announce(h)
    BY <1>5, SwitchTypes
  <1> QED BY <1>1, <1>2, <1>3, <1>4, <1>5 DEF Next, Waiting

\* The Manager and the handlers keep their types; no session number is used
\* beyond those given out.
THEOREM ForegroundTypeCorrect == Spec => []TypeOK
  <1>1. Spec => [](TypeOK /\ Numbered)
    BY InitTypes, NextTypes, PTL DEF Spec
  <1> QED BY <1>1, PTL

-----------------------------------------------------------------------------
(* The lock and the slot *)

LEMMA InitSlot == Init => LockHeld /\ SlotState /\ StraysAreOver
  BY HandlersAssumption
  DEF Init, LockHeld, SlotState, StraysAreOver, Locked, LaunchPc

LEMMA LaunchSlot ==
  ASSUME IInv, NEW h \in Handlers, Launch(h) \/ LaunchSteps(h)
  PROVE  LockHeld' /\ SlotState' /\ StraysAreOver'
  <1> USE HandlersAssumption
      DEF IInv, TypeOK, LockHeld, SlotState, StraysAreOver, Goto, Unlock,
          Locked, LaunchPc
  <1>1. CASE Launch(h)
    <2>1. lock = None /\ lock' = h /\ UNCHANGED <<current, running, strays>>
      BY <1>1 DEF Launch
    <2>2. \A g \in Handlers : pc[g] \notin Locked
      BY <2>1
    <2>3. running \subseteq {current} \cup strays
      BY <2>2
    <2>4. current = 0 => running \subseteq strays
      BY <2>3, BoundAssumption
    <2>5. pc' = [pc EXCEPT ![h] =
                   IF current = 0 THEN "launching" ELSE "replacing"]
      BY <1>1 DEF Launch
    <2>6. LockHeld'
      BY <2>1, <2>2, <2>5
    <2>7. SlotState'
      BY <2>1, <2>2, <2>3, <2>4, <2>5
    <2>8. StraysAreOver'
      <3>1. sess'[h] = count + 1
            /\ \A g \in Handlers \ {h} : sess'[g] = sess[g] /\ pc'[g] = pc[g]
        BY <1>1 DEF Launch
      <3>2. count + 1 \notin strays
        BY BoundAssumption
      <3> QED BY <2>1, <3>1, <3>2
    <2> QED BY <2>6, <2>7, <2>8
  <1>2. CASE Replace(h) BY <1>2 DEF Replace, Ended
  <1>3. CASE ReplaceFails(h) BY <1>3 DEF ReplaceFails, MayHaveEnded
  <1>4. CASE Started(h) BY <1>4 DEF Started
  <1>5. CASE StartFails(h)
    <2>1. /\ pc[h] = "launching" /\ lock = h /\ lock' = None /\ current' = 0
          /\ pc' = [pc EXCEPT ![h] = "idle"] /\ UNCHANGED sess
      BY <1>5 DEF StartFails
    <2>2. \A g \in Handlers \ {h} : pc[g] \notin Locked
      BY <2>1
    <2>3. \A g \in Handlers : pc'[g] \notin Locked
      BY <2>1, <2>2
    <2>4. running' \subseteq strays'
      BY <1>5, <2>1 DEF StartFails
    <2>5. 0 \notin strays'
      <3>1. 0 \notin strays
        BY BoundAssumption
      <3>2. sess[h] # 0
        BY <2>1 DEF Numbered
      <3> QED BY <1>5, <3>1, <3>2 DEF StartFails
    <2>6. LockHeld'
      BY <2>1, <2>3
    <2>7. SlotState'
      BY <2>1, <2>3, <2>4
    <2>8. StraysAreOver'
      BY <2>1, <2>3, <2>5
    <2> QED BY <2>6, <2>7, <2>8
  <1>6. CASE Record(h) BY <1>6 DEF Record
  <1> QED BY <1>1, <1>2, <1>3, <1>4, <1>5, <1>6 DEF LaunchSteps

LEMMA CloseSlot ==
  ASSUME IInv, NEW h \in Handlers,
         ReadCurrent(h) \/ CloseSteps(h) \/ Close(h)
  PROVE  LockHeld' /\ SlotState' /\ StraysAreOver'
  <1> USE HandlersAssumption
      DEF IInv, TypeOK, LockHeld, SlotState, StraysAreOver, Goto, Unlock,
          Locked, LaunchPc, Closed
  <1>1. CASE ReadCurrent(h) BY <1>1 DEF ReadCurrent
  <1>2. CASE Stop(h) BY <1>2 DEF Stop, Ended
  <1>3. CASE StopFails(h) BY <1>3 DEF StopFails, MayHaveEnded
  <1>4. CASE Close(h) BY <1>4 DEF Close
  <1> QED BY <1>1, <1>2, <1>3, <1>4 DEF CloseSteps

\* A handler moves between two places where it needs no lock.
LEMMA MoveSlot ==
  ASSUME IInv, NEW h \in Handlers, NEW to \in Pc \ Locked,
         pc[h] \notin Locked, pc' = [pc EXCEPT ![h] = to],
         UNCHANGED <<lock, current, running, strays, sess>>
  PROVE  LockHeld' /\ SlotState' /\ StraysAreOver'
  BY DEF IInv, TypeOK, LockHeld, SlotState, StraysAreOver, Locked, LaunchPc

LEMMA SwitchSlot ==
  ASSUME IInv, NEW h \in Handlers,
         \/ \E t \in Targets, f \in BOOLEAN : BeginSwitch(h, t, f)
         \/ SwitchSteps(h) \/ CheckApps(h) \/ Announce(h)
  PROVE  LockHeld' /\ SlotState' /\ StraysAreOver'
  <1>1. PICK to \in Pc \ Locked : pc' = [pc EXCEPT ![h] = to]
    <2> USE DEF Goto, Pc, Locked, LaunchPc
    <2>1. ASSUME NEW t \in Targets, NEW f \in BOOLEAN, BeginSwitch(h, t, f)
          PROVE  \E to \in Pc \ Locked : pc' = [pc EXCEPT ![h] = to]
      BY <2>1 DEF BeginSwitch
    <2>2. CASE SwitchSteps(h)
      BY <2>2 DEF SwitchSteps, CheckServers, Execute, Persist, PersistFails
    <2>3. CASE CheckApps(h)
      BY <2>3 DEF CheckApps
    <2>4. CASE Announce(h)
      BY <2>4 DEF Announce
    <2> QED BY <2>1, <2>2, <2>3, <2>4
  <1>2. /\ pc[h] \notin Locked
        /\ UNCHANGED <<lock, current, running, strays, sess>>
    BY DEF Goto, Locked, LaunchPc, app, BeginSwitch, SwitchSteps,
           CheckServers, Execute, Persist, PersistFails, CheckApps, Announce
  <1> QED BY <1>1, <1>2, MoveSlot

LEMMA NextSlot == IInv /\ [Next]_vars => IInv'
  <1> SUFFICES ASSUME IInv, [Next]_vars
               PROVE  LockHeld' /\ SlotState' /\ StraysAreOver'
    BY NextTypes DEF IInv
  <1>1. CASE UNCHANGED vars
    BY <1>1 DEF vars, IInv, LockHeld, SlotState, StraysAreOver
  <1>2. CASE ServersChange
    BY <1>2 DEF ServersChange, app, IInv, LockHeld, SlotState, StraysAreOver
  <1>3. CASE \E h \in Handlers : Launch(h) \/ LaunchSteps(h)
    BY <1>3, LaunchSlot
  <1>4. CASE \E h \in Handlers : ReadCurrent(h) \/ CloseSteps(h) \/ Close(h)
    BY <1>4, CloseSlot
  <1>5. CASE \E h \in Handlers :
               \/ \E t \in Targets, f \in BOOLEAN : BeginSwitch(h, t, f)
               \/ SwitchSteps(h) \/ CheckApps(h) \/ Announce(h)
    BY <1>5, SwitchSlot
  <1> QED BY <1>1, <1>2, <1>3, <1>4, <1>5 DEF Next, Waiting

LEMMA Invariance == Spec => []IInv
  BY InitTypes, InitSlot, NextSlot, PTL DEF Spec, IInv

LEMMA SlotIsKnown == IInv => RunningIsKnown
  <1> SUFFICES ASSUME IInv PROVE RunningIsKnown
    OBVIOUS
  <1>1. CASE \A h \in Handlers : pc[h] # "recording"
    BY <1>1 DEF IInv, SlotState, RunningIsKnown
  <1>2. CASE \E h \in Handlers : pc[h] = "recording"
    BY <1>2 DEF IInv, SlotState, RunningIsKnown
  <1> QED BY <1>1, <1>2

LEMMA StraysAreNotCurrent == IInv => StraysAreOver
  BY DEF IInv

\* Whatever fails, and however far it got before it failed: of the sessions
\* whose launch has not reported a failure at most one is alive, and it is
\* current or just being recorded; and one whose launch reported a failure
\* is never current, alive or not.
THEOREM NothingRunsUnknown == Spec => [](RunningIsKnown /\ StraysAreOver)
  BY Invariance, SlotIsKnown, StraysAreNotCurrent, PTL

-----------------------------------------------------------------------------
(* The events of a switch *)

LEMMA NextHeld ==
  ASSUME TypeOK, ModeEventsTrue, [Next]_vars
  PROVE  ModeEventsTrue'
  <1> USE DEF TypeOK, ModeEventsTrue, Goto
  <1>1. CASE UNCHANGED vars \/ ServersChange
    BY <1>1 DEF vars, ServersChange, switch
  <1>2. ASSUME NEW h \in Handlers, Launch(h) \/ LaunchSteps(h)
        PROVE  ModeEventsTrue'
    BY <1>2 DEF Launch, LaunchSteps, Replace, ReplaceFails, Started,
                StartFails, Record, switch
  <1>3. ASSUME NEW h \in Handlers, ReadCurrent(h) \/ CloseSteps(h) \/ Close(h)
        PROVE  ModeEventsTrue'
    BY <1>3 DEF ReadCurrent, CloseSteps, Stop, StopFails, Close, Closed, switch
  <1>4. ASSUME NEW h \in Handlers, NEW t \in Targets, NEW f \in BOOLEAN,
               BeginSwitch(h, t, f)
        PROVE  ModeEventsTrue'
    BY <1>4 DEF BeginSwitch
  <1>5. ASSUME NEW h \in Handlers, Persist(h) PROVE ModeEventsTrue'
    BY <1>5 DEF Persist
  <1>6. ASSUME NEW h \in Handlers,
               \/ CheckServers(h) \/ Execute(h) \/ PersistFails(h)
               \/ CheckApps(h) \/ Announce(h)
        PROVE  ModeEventsTrue'
    BY <1>6 DEF CheckServers, Execute, PersistFails, CheckApps, Announce, switch
  <1> QED BY <1>1, <1>2, <1>3, <1>4, <1>5, <1>6
          DEF Next, SwitchSteps, Waiting

\* A published mode was in effect during the request that publishes it.
THEOREM ModeEventsAreTrue == Spec => []ModeEventsTrue
  <1>1. Init => ModeEventsTrue
    BY DEF Init, ModeEventsTrue
  <1> QED BY <1>1, NextHeld, ForegroundTypeCorrect, PTL DEF Spec

-----------------------------------------------------------------------------
(* The Manager implements the slot *)

\* The attempt is the session of the handler that launches, if there is one.
LEMMA AttemptIs ==
  ASSUME IInv, NEW h \in Handlers, pc[h] \in Locked
  PROVE  Attempt = IF pc[h] \in LaunchPc THEN sess[h] ELSE 0
  BY HandlersAssumption DEF IInv, LockHeld, Attempt

LEMMA NoAttempt == ASSUME lock = None PROVE Attempt = 0
  BY DEF Attempt

LEMMA LaunchFills ==
  ASSUME IInv, IInv', NEW h \in Handlers, Launch(h) \/ LaunchSteps(h)
  PROVE  [Slot!Next]_<<current, Attempt, count>>
  <1> USE HandlersAssumption DEF Slot!Next, Goto, Unlock
  <1>1. CASE Launch(h)
    <2>1. Attempt = 0 /\ lock' = h /\ count' = count + 1
          /\ UNCHANGED current
      BY <1>1, NoAttempt DEF Launch
    <2>2. pc'[h] \in LaunchPc /\ sess'[h] = count + 1
      BY <1>1 DEF Launch, LaunchPc, IInv, TypeOK
    <2>3. Attempt' = count + 1
      BY <2>1, <2>2 DEF Attempt
    <2> QED BY <2>1, <2>3 DEF Slot!Try
  <1>2. CASE Replace(h)
    <2>1. lock = h /\ lock' = lock /\ sess' = sess /\ count' = count
      BY <1>2 DEF Replace, IInv, LockHeld, Locked, LaunchPc
    <2>2. pc[h] \in LaunchPc /\ pc'[h] \in LaunchPc
      BY <1>2 DEF Replace, LaunchPc, IInv, TypeOK
    <2>3. Attempt' = Attempt
      BY <2>1, <2>2 DEF Attempt
    <2>4. current # 0 /\ current' = 0
      BY <1>2 DEF Replace, IInv, SlotState
    <2> QED BY <2>1, <2>3, <2>4 DEF Slot!Leave
  <1>3. CASE Started(h)
    <2>1. lock = h /\ UNCHANGED <<lock, sess, count, current>>
      BY <1>3 DEF Started, IInv, LockHeld, Locked, LaunchPc
    <2>2. pc[h] \in LaunchPc /\ pc'[h] \in LaunchPc
      BY <1>3 DEF Started, LaunchPc, IInv, TypeOK
    <2> QED BY <2>1, <2>2 DEF Attempt
  <1>4. CASE ReplaceFails(h) \/ StartFails(h) \/ Record(h)
    <2>1. pc[h] \in LaunchPc /\ lock = h /\ lock' = None /\ count' = count
      BY <1>4 DEF ReplaceFails, StartFails, Record, IInv, LockHeld, Locked,
                  LaunchPc
    <2>2. Attempt = sess[h] /\ Attempt # 0 /\ Attempt' = 0
      BY <2>1 DEF Attempt, IInv, Numbered
    <2>3. CASE ReplaceFails(h)
      BY <2>1, <2>2, <2>3 DEF ReplaceFails, Slot!GiveUp
    <2>4. CASE StartFails(h)
      <3>1. current = 0
        BY <2>4 DEF StartFails, IInv, SlotState
      <3> QED BY <2>1, <2>2, <2>4, <3>1 DEF StartFails, Slot!GiveUp
    <2>5. CASE Record(h)
      <3>1. current = 0
        BY <2>5 DEF Record, IInv, SlotState
      <3> QED BY <2>1, <2>2, <2>5, <3>1 DEF Record, Slot!Enter
    <2> QED BY <1>4, <2>3, <2>4, <2>5
  <1> QED BY <1>1, <1>2, <1>3, <1>4 DEF LaunchSteps

LEMMA CloseFills ==
  ASSUME IInv, NEW h \in Handlers,
         ReadCurrent(h) \/ CloseSteps(h) \/ Close(h)
  PROVE  [Slot!Next]_<<current, Attempt, count>>
  <1> USE HandlersAssumption DEF Goto, Unlock
  <1>1. CASE ReadCurrent(h)
    BY <1>1 DEF ReadCurrent, Attempt
  <1>2. CASE Close(h)
    BY <1>2 DEF Close, Attempt, LaunchPc, IInv, TypeOK
  <1>3. CASE Stop(h) \/ StopFails(h)
    <2>1. lock = h /\ pc[h] = "stopping" /\ lock' = None /\ count' = count
      BY <1>3 DEF Stop, StopFails, IInv, LockHeld, Locked
    <2>2. Attempt = 0 /\ Attempt' = 0 /\ current # 0
      BY <2>1 DEF Attempt, LaunchPc, IInv, SlotState
    <2> QED BY <1>3, <2>1, <2>2 DEF Stop, StopFails, Slot!Next, Slot!Leave
  <1> QED BY <1>1, <1>2, <1>3 DEF CloseSteps

LEMMA SwitchFills ==
  ASSUME IInv, NEW h \in Handlers,
         \/ \E t \in Targets, f \in BOOLEAN : BeginSwitch(h, t, f)
         \/ SwitchSteps(h) \/ CheckApps(h) \/ Announce(h)
  PROVE  UNCHANGED <<current, Attempt, count>>
  <1>1. pc[h] \notin Locked /\ UNCHANGED app
    BY DEF Goto, Locked, LaunchPc, app, BeginSwitch, SwitchSteps,
           CheckServers, Execute, Persist, PersistFails, CheckApps, Announce
  <1>2. \A g \in Handlers \ {h} : pc'[g] = pc[g]
    BY DEF Goto, IInv, TypeOK, BeginSwitch, SwitchSteps,
           CheckServers, Execute, Persist, PersistFails, CheckApps, Announce
  <1>3. lock # h
    BY <1>1 DEF IInv, LockHeld
  <1> QED BY <1>1, <1>2, <1>3 DEF app, Attempt, IInv, TypeOK

LEMMA NextFills ==
  IInv /\ IInv' /\ [Next]_vars => [Slot!Next]_<<current, Attempt, count>>
  <1> SUFFICES ASSUME IInv, IInv', [Next]_vars
               PROVE  [Slot!Next]_<<current, Attempt, count>>
    OBVIOUS
  <1>1. CASE UNCHANGED vars \/ ServersChange
    BY <1>1 DEF vars, ServersChange, app, Attempt
  <1>2. CASE \E h \in Handlers : Launch(h) \/ LaunchSteps(h)
    BY <1>2, LaunchFills
  <1>3. CASE \E h \in Handlers : ReadCurrent(h) \/ CloseSteps(h) \/ Close(h)
    BY <1>3, CloseFills
  <1>4. CASE \E h \in Handlers :
               \/ \E t \in Targets, f \in BOOLEAN : BeginSwitch(h, t, f)
               \/ SwitchSteps(h) \/ CheckApps(h) \/ Announce(h)
    BY <1>4, SwitchFills
  <1> QED BY <1>1, <1>2, <1>3, <1>4 DEF Next, Waiting

\* A session enters an empty slot, leaves before another enters, and never
\* comes back, whatever fails and however requests interleave.
THEOREM ForegroundFillsSlot == Spec => FillsSlot
  <1>1. Init => Slot!Init
    BY DEF Init, Slot!Init, Attempt
  <1> QED BY <1>1, Invariance, NextFills, PTL DEF Spec, FillsSlot, Slot!Spec

-----------------------------------------------------------------------------
(* The lock, and what is published *)

LEMMA SlotIsLocked == IInv => LockHeld
  BY DEF IInv

\* The safety half of RequestsEnd: no path through Launch and Close, failing
\* or not, keeps the lock behind, and none goes on without it.
THEOREM LockIsGivenBack == Spec => []LockHeld
  BY Invariance, SlotIsLocked, PTL

\* handleClose names the session it saw before it had the lock; meanwhile
\* others may have closed it, and launched another which Close then stops.
\* Still app.closed only names a session that has ended for good.
ClosedHasEnded ==
    \A h \in Handlers :
        pc[h] = "announceClosed" => sess[h] \notin running \cup {current}

\* Every app.launched has a session of its own.
Launched == LaunchPc \cup {"announceLaunched"}
LaunchedOnce ==
    \A g, h \in Handlers :
        g # h /\ pc[g] \in Launched /\ pc[h] \in Launched => sess[g] # sess[h]

\* A close is about a session that nobody is still launching, and what a
\* launch replaces is another one.
Closing == {"close", "stopping", "announceClosed"}
Apart ==
    /\ \A g, h \in Handlers :
           pc[g] \in LaunchPc /\ pc[h] \in Closing => sess[g] # sess[h]
    /\ \A h \in Handlers : pc[h] = "replacing" => sess[h] # current
    /\ \A h \in Handlers : pc[h] = "announceClosed" => sess[h] # 0
    /\ \A h \in Handlers : pc[h] \in Closing => sess[h] \notin strays

Past == ClosedHasEnded /\ LaunchedOnce /\ Apart

LEMMA InitPast == Init => Past
  BY DEF Init, Past, ClosedHasEnded, LaunchedOnce, Apart, Launched, Closing,
         LaunchPc

\* A launch has a number nobody used yet.
LEMMA LaunchPast == ASSUME IInv, Past, NEW h \in Handlers, Launch(h) PROVE Past'
  <1> USE DEF Launched, Closing, LaunchPc
  <1>1. TypeOK  BY DEF IInv
  <1>2. /\ sess'[h] = count + 1 /\ pc'[h] \in {"launching", "replacing"}
        /\ \A g \in Handlers \ {h} : sess'[g] = sess[g] /\ pc'[g] = pc[g]
        /\ UNCHANGED <<current, running, strays>>
    BY <1>1 DEF Launch, Goto, TypeOK
  <1>3. /\ count \in Nat /\ \A g \in Handlers : sess[g] \in 0..count
        /\ current \in 0..count
    BY <1>1, BoundAssumption DEF TypeOK
  <1>4. ASSUME NEW g \in Handlers PROVE sess[g] # count + 1
    <2>1. sess[g] \in 0..count
      BY <1>3
    <2>2. \A n \in 0..count : n # count + 1
      BY <1>3
    <2> QED BY <2>1, <2>2
  <1>5. ClosedHasEnded'
    BY <1>2 DEF Past, ClosedHasEnded
  <1>6. LaunchedOnce'
    BY <1>2, <1>4 DEF Past, LaunchedOnce
  <1>7. Apart'
    BY <1>2, <1>3, <1>4 DEF Past, Apart
  <1> QED BY <1>5, <1>6, <1>7 DEF Past

LEMMA LaunchStepsPast ==
  ASSUME IInv, Past, NEW h \in Handlers, LaunchSteps(h)
  PROVE  Past'
  <1> USE DEF Launched, Closing, LaunchPc, Goto
  <1>1. TypeOK /\ SlotState /\ Numbered  BY DEF IInv
  <1>2. UNCHANGED sess /\ \A g \in Handlers \ {h} : pc'[g] = pc[g]
    BY <1>1 DEF LaunchSteps, Replace, ReplaceFails, Started, StartFails,
                Record, TypeOK
  <1>3. pc[h] \in LaunchPc /\ pc'[h] \in Launched \cup {"idle"}
        /\ pc'[h] # "replacing"
    BY <1>1 DEF LaunchSteps, Replace, ReplaceFails, Started, StartFails,
                Record, TypeOK
  <1>4. /\ current' \in {0, current, sess[h]}
        /\ running' \subseteq running \cup {sess[h]}
        /\ strays' \subseteq strays \cup {sess[h]}
    BY DEF LaunchSteps, Replace, ReplaceFails, Started, StartFails, Record,
           Ended, MayHaveEnded
  <1>5. LaunchedOnce'
    BY <1>2, <1>3 DEF Past, LaunchedOnce
  <1>6. ClosedHasEnded'
    <2> SUFFICES ASSUME NEW g \in Handlers, pc'[g] = "announceClosed"
                 PROVE  sess[g] \notin running' \cup {current'}
      BY <1>2 DEF ClosedHasEnded
    <2>1. pc[g] = "announceClosed"
      BY <1>2, <1>3
    <2>2. sess[g] # 0 /\ sess[g] # sess[h] /\ sess[g] \notin running \cup {current}
      BY <1>3, <2>1 DEF Past, ClosedHasEnded, Apart
    <2> QED BY <1>4, <2>2
  <1>7. Apart'
    <2>1. \A g \in Handlers : pc'[g] \in Closing => pc[g] = pc'[g]
      BY <1>2, <1>3
    <2>2. \A g \in Handlers : pc'[g] \in LaunchPc => pc[g] \in LaunchPc
      BY <1>2, <1>3
    <2>3. \A g \in Handlers : pc'[g] # "replacing"
      BY <1>2, <1>3 DEF IInv, LockHeld, Locked
    <2>4. \A g \in Handlers : pc'[g] \in Closing => sess'[g] \notin strays'
      BY <1>2, <1>3, <1>4, <2>1 DEF Past, Apart
    <2> QED BY <1>2, <2>1, <2>2, <2>3, <2>4 DEF Past, Apart
  <1> QED BY <1>5, <1>6, <1>7 DEF Past

LEMMA ClosePast ==
  ASSUME IInv, Past, NEW h \in Handlers,
         ReadCurrent(h) \/ CloseSteps(h) \/ Close(h)
  PROVE  Past'
  <1> USE DEF Launched, Closing, LaunchPc, Goto, Closed
  <1>1. TypeOK /\ SlotState /\ LockHeld /\ StraysAreOver  BY DEF IInv
  <1>2. CASE ReadCurrent(h)
    <2>1. /\ sess'[h] = current /\ pc'[h] = "close" /\ lock = None
          /\ \A g \in Handlers \ {h} : sess'[g] = sess[g] /\ pc'[g] = pc[g]
          /\ UNCHANGED <<current, running, strays>>
      BY <1>1, <1>2 DEF ReadCurrent, TypeOK
    <2>2. \A g \in Handlers : pc[g] \notin LaunchPc
      BY <1>1, <2>1, HandlersAssumption DEF LockHeld, Locked
    <2>3. \A g \in Handlers : pc'[g] \notin LaunchPc
      BY <2>1, <2>2
    <2> QED BY <1>1, <2>1, <2>3
        DEF Past, ClosedHasEnded, LaunchedOnce, Apart, StraysAreOver
  <1>3. CASE CloseSteps(h) \/ Close(h)
    <2>1. /\ UNCHANGED sess
          /\ \A g \in Handlers \ {h} : pc'[g] = pc[g]
          /\ pc[h] \in Closing /\ pc'[h] \in Closing \cup {"idle"}
      BY <1>1, <1>3 DEF CloseSteps, Stop, StopFails, Close, TypeOK
    <2>2. running' \subseteq running /\ current' \in {0, current} /\ UNCHANGED strays
      BY <1>3 DEF CloseSteps, Stop, StopFails, Close, Ended, MayHaveEnded
    <2>3. ASSUME pc'[h] = "announceClosed"
          PROVE  sess[h] # 0 /\ running' \subseteq strays /\ current' = 0
      <3>1. CASE Stop(h)
        BY <1>1, <2>3, <3>1 DEF Stop, Ended, TypeOK
      <3>2. CASE StopFails(h)
        BY <1>1, <2>3, <3>2 DEF StopFails, TypeOK
      <3>3. CASE Close(h)
        <4>1. sess[h] # 0 /\ current = 0 /\ lock = None
              /\ UNCHANGED <<running, current>>
          BY <1>1, <2>3, <3>3 DEF Close, TypeOK
        <4>2. \A g \in Handlers : pc[g] # "recording"
          BY <1>1, <4>1, HandlersAssumption DEF LockHeld, Locked
        <4>3. running \subseteq {0} \cup strays
          BY <1>1, <4>1, <4>2 DEF SlotState
        <4>4. 0 \notin running
          BY <1>1, BoundAssumption DEF TypeOK
        <4> QED BY <4>1, <4>3, <4>4
      <3> QED BY <1>3, <3>1, <3>2, <3>3 DEF CloseSteps
    <2>4. LaunchedOnce'
      BY <2>1 DEF Past, LaunchedOnce
    <2>5. ClosedHasEnded'
      BY <2>1, <2>2, <2>3 DEF Past, ClosedHasEnded, Apart
    <2>6. Apart'
      <3>1. \A g \in Handlers : pc'[g] \in LaunchPc => pc[g] = pc'[g]
        BY <2>1
      <3>2. \A g \in Handlers : pc'[g] \in Closing => pc[g] \in Closing
        BY <2>1
      <3>3. \A g \in Handlers : pc[g] \in LaunchPc => sess[g] # 0
        BY DEF IInv, Numbered
      <3>4. \A g \in Handlers : pc'[g] = "replacing" => sess'[g] # current'
        BY <2>1, <2>2, <3>1, <3>3 DEF Past, Apart
      <3>5. \A g \in Handlers : pc'[g] = "announceClosed" => sess'[g] # 0
        BY <2>1, <2>3 DEF Past, Apart
      <3>6. \A g \in Handlers : pc'[g] \in Closing => sess'[g] \notin strays'
        BY <2>1, <2>2, <3>2 DEF Past, Apart
      <3> QED BY <2>1, <3>1, <3>2, <3>4, <3>5, <3>6 DEF Past, Apart
    <2> QED BY <2>4, <2>5, <2>6 DEF Past
  <1> QED BY <1>2, <1>3

LEMMA SwitchPast ==
  ASSUME IInv, Past, NEW h \in Handlers,
         \/ \E t \in Targets, f \in BOOLEAN : BeginSwitch(h, t, f)
         \/ SwitchSteps(h) \/ CheckApps(h) \/ Announce(h)
  PROVE  Past'
  <1>1. UNCHANGED <<current, running, strays, sess>>
    BY DEF app, BeginSwitch, SwitchSteps, CheckServers, Execute, Persist,
           PersistFails, CheckApps, Announce
  <1>2. /\ \A g \in Handlers \ {h} : pc'[g] = pc[g]
        /\ pc'[h] \notin Launched \cup Closing
    BY DEF IInv, TypeOK, Goto, Launched, Closing, LaunchPc, BeginSwitch,
           SwitchSteps, CheckServers, Execute, Persist, PersistFails,
           CheckApps, Announce
  <1> QED BY <1>1, <1>2
          DEF Past, ClosedHasEnded, LaunchedOnce, Apart, Launched, Closing,
              LaunchPc

LEMMA NextPast == IInv /\ Past /\ [Next]_vars => Past'
  <1> SUFFICES ASSUME IInv, Past, [Next]_vars PROVE Past'
    OBVIOUS
  <1>1. CASE UNCHANGED vars \/ ServersChange
    BY <1>1 DEF vars, ServersChange, app, Past, ClosedHasEnded, LaunchedOnce,
                Apart
  <1>2. CASE \E h \in Handlers : Launch(h) \/ LaunchSteps(h)
    BY <1>2, LaunchPast, LaunchStepsPast
  <1>3. CASE \E h \in Handlers : ReadCurrent(h) \/ CloseSteps(h) \/ Close(h)
    BY <1>3, ClosePast
  <1>4. CASE \E h \in Handlers :
               \/ \E t \in Targets, f \in BOOLEAN : BeginSwitch(h, t, f)
               \/ SwitchSteps(h) \/ CheckApps(h) \/ Announce(h)
    BY <1>4, SwitchPast
  <1> QED BY <1>1, <1>2, <1>3, <1>4 DEF Next, Waiting

\* What is published of sessions is true and said once, although handlers
\* publish after they gave the lock back.
THEOREM SessionEventsAreTrue == Spec => [](ClosedHasEnded /\ LaunchedOnce)
  <1>1. Spec => []Past
    BY InitPast, NextPast, Invariance, PTL DEF Spec
  <1>2. Past => ClosedHasEnded /\ LaunchedOnce
    BY DEF Past
  <1> QED BY <1>1, <1>2, PTL
=============================================================================
