------------------------------ MODULE Foreground ------------------------------
(***************************************************************************)
(* What the appliance is doing: the one app session of apps.Manager, the   *)
(* mode of modes.Manager, and the HTTP handlers that launch, close and     *)
(* switch and then publish what they did.                                  *)
(*                                                                         *)
(* Manager.mu is held across the executors, so each executor call is a     *)
(* step of its own with the lock taken.  A mode switch has no lock: it     *)
(* reads, checks, executes and stores in separate steps.  An executor may  *)
(* fail before or after it has done its work.  Sessions are numbers, since *)
(* their type and parameters decide nothing here; requests that validate   *)
(* refuses change nothing and are left out.                                *)
(***************************************************************************)
EXTENDS Naturals

CONSTANTS
    Handlers,     \* goroutines serving requests
    Targets,      \* what a switch may ask for
    Modes,        \* AllModes
    DefaultMode,  \* the mode of a fresh appliance
    MaxSessions,  \* bound on the sessions numbered in a behaviour
    None          \* nobody has the lock

ASSUME HandlersAssumption == None \notin Handlers
ASSUME ModesAssumption == DefaultMode \in Modes
ASSUME BoundAssumption == MaxSessions \in Nat

VARIABLES
    lock,        \* who holds Manager.mu for writing
    current,     \* Manager.current, 0 for nil
    count,       \* sessions numbered so far
    running,     \* the sessions whose process is alive (external)
    strays,      \* ghost: those started by a launch that reported a failure
    mode,        \* State.Mode
    serverBusy,  \* servers.Manager reports a running server with players
    pc,          \* where each handler is
    sess,        \* the session it launches, or read before closing
    target,      \* the mode it switches to
    held         \* ghost: its target was the mode at some time since it began

app == <<lock, current, count, running, strays, sess>>
switch == <<mode, target, held>>
vars == <<lock, current, count, running, strays, mode, serverBusy, pc, sess,
          target, held>>

\* Steps taken with the lock held.
LaunchPc == {"replacing", "launching", "recording"}
Locked == LaunchPc \cup {"stopping"}

Pc == Locked \cup {"idle", "announceLaunched", "close", "announceClosed",
                   "checkApps", "checkServers", "executing", "persisting",
                   "announceMode"}

TypeOK ==
    /\ lock \in Handlers \cup {None}
    /\ count \in 0..MaxSessions
    /\ current \in 0..count
    /\ running \subseteq 1..count
    /\ strays \subseteq 1..count
    /\ mode \in Modes
    /\ serverBusy \in BOOLEAN
    /\ pc \in [Handlers -> Pc]
    /\ sess \in [Handlers -> 0..count]
    /\ target \in [Handlers -> Modes]
    /\ held \in [Handlers -> BOOLEAN]

Init ==
    /\ lock = None
    /\ current = 0
    /\ count = 0
    /\ running = {}
    /\ strays = {}
    /\ mode = DefaultMode
    /\ serverBusy \in BOOLEAN
    /\ pc = [h \in Handlers |-> "idle"]
    /\ sess = [h \in Handlers |-> 0]
    /\ target = [h \in Handlers |-> DefaultMode]
    /\ held = [h \in Handlers |-> FALSE]

Goto(h, from, to) ==
    /\ pc[h] = from
    /\ pc' = [pc EXCEPT ![h] = to]

Unlock == lock' = None

-----------------------------------------------------------------------------
(* Launching: apps.Manager.Launch behind both of its routes *)

\* Altered: what runs is not closed first.
LaunchBeside(h) ==
    /\ lock = None
    /\ count < MaxSessions
    /\ lock' = h
    /\ count' = count + 1
    /\ sess' = [sess EXCEPT ![h] = count + 1]
    /\ Goto(h, "idle", "launching")
    /\ UNCHANGED <<current, running, strays, serverBusy, switch>>

\* Launch takes the lock for its whole length.
Launch(h) ==
    /\ lock = None
    /\ count < MaxSessions
    /\ lock' = h
    /\ count' = count + 1
    /\ sess' = [sess EXCEPT ![h] = count + 1]
    /\ Goto(h, "idle", IF current = 0 THEN "launching" ELSE "replacing")
    /\ UNCHANGED <<current, running, strays, serverBusy, switch>>

\* closeExecutor is not told what to stop.  When it succeeds the current
\* session has ended; what a failed launch left behind may go on.
Ended == running' \in SUBSET (running \cap strays)

\* When it fails, anything may have stopped or not.
MayHaveEnded == running' \in SUBSET running

Replace(h) ==
    /\ Goto(h, "replacing", "launching")
    /\ Ended
    /\ current' = 0
    /\ UNCHANGED <<lock, count, strays, sess, serverBusy, switch>>

\* Altered: the lock is kept.
ReplaceFailsLocked(h) ==
    /\ Goto(h, "replacing", "idle")
    /\ MayHaveEnded
    /\ UNCHANGED <<lock, current, count, strays, sess, serverBusy, switch>>

ReplaceFails(h) ==
    /\ Goto(h, "replacing", "idle")
    /\ MayHaveEnded
    /\ Unlock
    /\ UNCHANGED <<current, count, strays, sess, serverBusy, switch>>

\* launchExecutor starts the new session.
Started(h) ==
    /\ Goto(h, "launching", "recording")
    /\ running' = running \cup {sess[h]}
    /\ UNCHANGED <<lock, current, count, strays, sess, serverBusy, switch>>

\* launchExecutor fails: nothing is current, although the executor may have
\* started the session before it failed.
StartFails(h) ==
    /\ Goto(h, "launching", "idle")
    /\ current' = 0
    /\ \/ UNCHANGED <<running, strays>>
       \/ /\ running' = running \cup {sess[h]}
          /\ strays' = strays \cup {sess[h]}
    /\ Unlock
    /\ UNCHANGED <<count, sess, serverBusy, switch>>

Record(h) ==
    /\ Goto(h, "recording", "announceLaunched")
    /\ current' = sess[h]
    /\ Unlock
    /\ UNCHANGED <<count, running, strays, sess, serverBusy, switch>>

-----------------------------------------------------------------------------
(* Closing *)

\* handleClose looks first at what is running.
ReadCurrent(h) ==
    /\ lock = None
    /\ Goto(h, "idle", "close")
    /\ sess' = [sess EXCEPT ![h] = current]
    /\ UNCHANGED <<lock, current, count, running, strays, serverBusy, switch>>

\* What the handler does once Close returned without an error: app.closed
\* for the session it saw before.
Closed(h) == IF sess[h] = 0 THEN "idle" ELSE "announceClosed"

\* Close takes the lock, and returns at once if nothing is current.
Close(h) ==
    /\ lock = None
    /\ IF current = 0 THEN Goto(h, "close", Closed(h)) /\ UNCHANGED lock
       ELSE Goto(h, "close", "stopping") /\ lock' = h
    /\ UNCHANGED <<current, count, running, strays, sess, serverBusy, switch>>

Stop(h) ==
    /\ Goto(h, "stopping", Closed(h))
    /\ Ended
    /\ current' = 0
    /\ Unlock
    /\ UNCHANGED <<count, strays, sess, serverBusy, switch>>

\* Altered: the slot is emptied although the close failed.
StopFailsCleared(h) ==
    /\ Goto(h, "stopping", "idle")
    /\ MayHaveEnded
    /\ current' = 0
    /\ Unlock
    /\ UNCHANGED <<count, strays, sess, serverBusy, switch>>

\* closeExecutor fails: the session stays current, since it may still run.
StopFails(h) ==
    /\ Goto(h, "stopping", "idle")
    /\ MayHaveEnded
    /\ Unlock
    /\ UNCHANGED <<current, count, strays, sess, serverBusy, switch>>

-----------------------------------------------------------------------------
(* Switching: modes.Manager.Switch *)

\* A switch to the present mode succeeds without doing anything, and the
\* handler publishes it like any other.
BeginSwitch(h, t, f) ==
    /\ t \in Modes
    /\ Goto(h, "idle", IF t = mode THEN "announceMode"
                       ELSE IF f THEN "executing" ELSE "checkApps")
    /\ target' = [target EXCEPT ![h] = t]
    /\ held' = [held EXCEPT ![h] = t = mode]
    /\ UNCHANGED <<mode, serverBusy, app>>

\* The checker of main.go asks the apps first, which waits for their lock.
CheckApps(h) ==
    /\ lock = None
    /\ Goto(h, "checkApps", IF current = 0 THEN "checkServers" ELSE "idle")
    /\ UNCHANGED <<serverBusy, app, switch>>

CheckServers(h) ==
    /\ Goto(h, "checkServers", IF serverBusy THEN "idle" ELSE "executing")
    /\ UNCHANGED <<serverBusy, app, switch>>

\* The SystemExecutor, which may fail.
Execute(h) ==
    /\ \E outcome \in {"persisting", "idle"} : Goto(h, "executing", outcome)
    /\ UNCHANGED <<serverBusy, app, switch>>

Persist(h) ==
    /\ Goto(h, "persisting", "announceMode")
    /\ mode' = target[h]
    /\ held' = [g \in Handlers |-> held[g] \/ target[g] = target[h]]
    /\ UNCHANGED <<serverBusy, target, app>>

\* Altered: the handler publishes all the same.
PersistFailsLoud(h) ==
    /\ Goto(h, "persisting", "announceMode")
    /\ UNCHANGED <<serverBusy, app, switch>>

\* The store could not save the mode and keeps the old one.
PersistFails(h) ==
    /\ Goto(h, "persisting", "idle")
    /\ UNCHANGED <<serverBusy, app, switch>>

-----------------------------------------------------------------------------

\* hub.Publish, after every lock is released.
Announce(h) ==
    /\ \E p \in {"announceLaunched", "announceClosed", "announceMode"} :
           Goto(h, p, "idle")
    /\ UNCHANGED <<serverBusy, app, switch>>

\* What servers.Manager.Blocking answers changes, see ServerLifecycle.
ServersChange ==
    /\ serverBusy' = ~serverBusy
    /\ UNCHANGED <<pc, app, switch>>

LaunchSteps(h) ==
    Replace(h) \/ ReplaceFails(h) \/ Started(h) \/ StartFails(h) \/ Record(h)

CloseSteps(h) == Stop(h) \/ StopFails(h)

SwitchSteps(h) ==
    CheckServers(h) \/ Execute(h) \/ Persist(h) \/ PersistFails(h)

\* Steps that wait for the lock.
Waiting(h) == Close(h) \/ CheckApps(h)

Next ==
    \/ \E h \in Handlers :
        \/ Launch(h) \/ LaunchSteps(h)
        \/ ReadCurrent(h) \/ CloseSteps(h)
        \/ \E t \in Targets, f \in BOOLEAN : BeginSwitch(h, t, f)
        \/ SwitchSteps(h)
        \/ Waiting(h)
        \/ Announce(h)
    \/ ServersChange

Spec == Init /\ [][Next]_vars

\* A goroutine that can go on does, an executor returns, and Go's RWMutex
\* starves no waiter.  No request has to come.
Fairness ==
    \A h \in Handlers :
        /\ WF_vars(LaunchSteps(h) \/ CloseSteps(h) \/ SwitchSteps(h)
                   \/ Announce(h))
        /\ SF_vars(Waiting(h))

FairSpec == Spec /\ Fairness

-----------------------------------------------------------------------------
(* Properties *)

\* What is alive is current, is just being recorded, or was left behind by
\* a launch that reported a failure, which apps.go:190 takes to mean that it
\* "never actually started".  Apart from those never are two alive; and no
\* close, failed half way or not, makes the Manager forget one (apps.go:184).
RunningIsKnown ==
    /\ \A s \in running \ strays :
        s = current \/ \E h \in Handlers : pc[h] = "recording" /\ sess[h] = s
    /\ \A s, t \in running \ strays : s = t

\* The session being launched, as the lock makes it unique.
Attempt == IF lock # None /\ pc[lock] \in LaunchPc THEN sess[lock] ELSE 0

\* Replacement is sequential and nothing is resurrected (apps.go:181-191):
\* the Manager implements a slot that is emptied before it is filled again.
Slot == INSTANCE SessionSlot WITH slot <- current, attempt <- Attempt
FillsSlot == Slot!Spec

\* mode.changed names a mode that was in effect during the request, so that
\* no switch is published that was blocked or failed (mode_handlers.go:91).
ModeEventsTrue == \A h \in Handlers : pc[h] = "announceMode" => held[h]

\* Whatever fails, every request is answered: no error path keeps the lock.
RequestsEnd == \A h \in Handlers : pc[h] # "idle" ~> pc[h] = "idle"
===============================================================================
