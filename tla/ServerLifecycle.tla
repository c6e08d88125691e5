--------------------------- MODULE ServerLifecycle ---------------------------
(***************************************************************************)
(* The lifecycle of one catalogued game server: servers.Manager, the HTTP  *)
(* handlers that call it, the executor and player poller that main.go      *)
(* wires to it, and the systemd unit behind them.                          *)
(*                                                                         *)
(* Every section of the code that runs under Manager.mu is one action;     *)
(* what a goroutine does between two of them (an executor call, a          *)
(* notification) is an action of its own, so that goroutines interleave    *)
(* exactly where the code lets go of the lock.                             *)
(***************************************************************************)
EXTENDS Naturals, FiniteSets

CONSTANTS
    Callers,     \* goroutines serving POST .../start and forced .../stop
    Seqs,        \* runStopSequence goroutines that may exist at one time
    Counts,      \* player counts a ping can report
    Environment  \* which of Events the environment may produce

\* What the surroundings of the Manager may do beyond normal service.
Events ==
    { "force",      \* a client sends stop requests with force=true
      "startError", \* StartUnit fails and systemd queued nothing
      "stopError",  \* StopUnit fails and systemd queued nothing
      "lostReply",  \* a unit call is reported failed although it was queued
      "busFault",   \* GetUnit fails although the unit is loaded
      "hang",       \* the read of the unit's state is never answered
      "syncFault",  \* the query at startup fails
      "crash",      \* the unit exits on its own
      "external",   \* the unit is started by something other than a6core
      "restart" }   \* the a6core process is restarted

ASSUME EnvironmentAssumption == Environment \subseteq Events
ASSUME CountsAssumption == Counts \subseteq Nat

VARIABLES
    status,       \* runtimeState.status
    stopRunning,  \* runtimeState.stopRunning
    players,      \* runtimeState.players: {} for nil, {n} for n players
    view,         \* the status last published to the event stream
    caller,       \* where each HTTP goroutine is
    seqPc,        \* where each stop sequence is
    ahead,        \* the Start calls a stop sequence found in flight
    poller,       \* where the player poller is
    answer,       \* the ping result the poller is about to store
    unit,         \* systemd's ActiveState of the unit
    job           \* the job systemd has queued for the unit

manager == <<status, stopRunning, players>>
systemd == <<unit, job>>
polling == <<poller, answer>>
vars == <<status, stopRunning, players, view, caller, seqPc, ahead,
          poller, answer, unit, job>>

Status == {"stopped", "starting", "running", "stopping"}
CallerPc == {"idle", "calling", "started", "failed", "announce", "forcing"}
SeqPc == {"idle", "announce", "grace", "poll", "hung", "confirmed",
          "announceStopped", "expired", "ending"}
UnitState == {"inactive", "activating", "active", "deactivating"}

May(e) == e \in Environment
Optional(S) == {{}} \cup {{x} : x \in S}

InFlight == {s \in Seqs : seqPc[s] # "idle"}

\* A Start that has claimed the server and has not yet reported the outcome.
Starters == {c \in Callers : caller[c] \in {"calling", "started", "failed"}}

TypeOK ==
    /\ status \in Status
    /\ stopRunning \in BOOLEAN
    /\ players \in Optional(Counts)
    /\ view \in Status
    /\ caller \in [Callers -> CallerPc]
    /\ seqPc \in [Seqs -> SeqPc]
    /\ ahead \in [Seqs -> SUBSET Callers]
    /\ poller \in {"idle", "answered"}
    /\ answer \in Optional(Counts)
    /\ unit \in UnitState
    /\ job \in {"none", "start", "stop"}

\* main.go asks systemd once; only "active" is taken for a running server,
\* and a failed query leaves NewManager's "stopped".
SyncedStatuses ==
    IF unit # "active" THEN {"stopped"}
    ELSE {"running"} \cup {x \in {"stopped"} : May("syncFault")}

Init ==
    /\ unit \in {"inactive", "active"}
    /\ job = "none"
    /\ status \in SyncedStatuses
    /\ view = status
    /\ stopRunning = FALSE
    /\ players = {}
    /\ caller = [c \in Callers |-> "idle"]
    /\ seqPc = [s \in Seqs |-> "idle"]
    /\ ahead = [s \in Seqs |-> {}]
    /\ poller = "idle"
    /\ answer = {}

-----------------------------------------------------------------------------
(* Starting *)

\* Altered: rejects only a server that is already running.
StartUnlessRunning(c) ==
    /\ caller[c] = "idle"
    /\ status # "running"
    /\ status' = "starting"
    /\ caller' = [caller EXCEPT ![c] = "calling"]
    /\ UNCHANGED <<stopRunning, players, view, seqPc, ahead, polling, systemd>>

\* Manager.Start claims the server: only a stopped one may be started.
Start(c) ==
    /\ caller[c] = "idle"
    /\ status = "stopped"
    /\ status' = "starting"
    /\ caller' = [caller EXCEPT ![c] = "calling"]
    /\ UNCHANGED <<stopRunning, players, view, seqPc, ahead, polling, systemd>>

\* executor.Start, made without the lock: dbusctl.StartUnit returns once
\* systemd has queued the job.
CallStart(c) ==
    /\ caller[c] = "calling"
    /\ \/ /\ caller' = [caller EXCEPT ![c] = "started"]
          /\ job' = "start"
       \/ /\ May("startError")
          /\ caller' = [caller EXCEPT ![c] = "failed"]
          /\ UNCHANGED job
       \/ /\ May("lostReply")
          /\ caller' = [caller EXCEPT ![c] = "failed"]
          /\ job' = "start"
    /\ UNCHANGED <<manager, view, seqPc, ahead, polling, unit>>

\* The outcome is written whatever the status has become meanwhile.
Report(c, pc, s, next) ==
    /\ caller[c] = pc
    /\ status' = s
    /\ caller' = [caller EXCEPT ![c] = next]
    /\ ahead' = [q \in Seqs |-> ahead[q] \ {c}]
    /\ UNCHANGED <<stopRunning, players, view, seqPc, polling, systemd>>

StartSucceeds(c) == Report(c, "started", "running", "announce")
StartFails(c) == Report(c, "failed", "stopped", "idle")

AnnounceRunning(c) ==
    /\ caller[c] = "announce"
    /\ view' = "running"
    /\ caller' = [caller EXCEPT ![c] = "idle"]
    /\ UNCHANGED <<manager, seqPc, ahead, polling, systemd>>

-----------------------------------------------------------------------------
(* Stopping *)

\* What Stop and ForceRestartStopSequence do once past their guards.
BeginSequence(s) ==
    /\ seqPc[s] = "idle"
    /\ status # "stopped"
    /\ status' = "stopping"
    /\ stopRunning' = TRUE
    /\ seqPc' = [seqPc EXCEPT ![s] = "announce"]
    /\ ahead' = [ahead EXCEPT ![s] = Starters]
    /\ UNCHANGED <<players, view, polling, systemd>>

\* Altered: the guard is forgotten.
StopUnguarded(s) == BeginSequence(s) /\ UNCHANGED caller

\* Altered: a server left in "stopping" counts as being stopped.
StopOnlyRunning(s) ==
    /\ ~stopRunning
    /\ status \in {"starting", "running"}
    /\ BeginSequence(s)
    /\ UNCHANGED caller

Stop(s) ==
    /\ ~stopRunning
    /\ BeginSequence(s)
    /\ UNCHANGED caller

\* A forced stop first tries Stop; refused with ErrStopInProgress, it
\* calls ForceRestartStopSequence, which locks and looks again.
ForcedStopRefused(c) ==
    /\ May("force")
    /\ caller[c] = "idle"
    /\ status # "stopped"
    /\ stopRunning
    /\ caller' = [caller EXCEPT ![c] = "forcing"]
    /\ UNCHANGED <<manager, view, seqPc, ahead, polling, systemd>>

ForceRestart(c) ==
    /\ caller[c] = "forcing"
    /\ caller' = [caller EXCEPT ![c] = "idle"]
    /\ \/ \E s \in Seqs : BeginSequence(s)
       \/ /\ status = "stopped"
          /\ UNCHANGED <<manager, view, seqPc, ahead, polling, systemd>>

Move(s, from, to) ==
    /\ seqPc[s] = from
    /\ seqPc' = [seqPc EXCEPT ![s] = to]

\* Stop's notify, the last thing before the goroutine is started.
AnnounceStopping(s) ==
    /\ Move(s, "announce", "grace")
    /\ view' = "stopping"
    /\ UNCHANGED <<manager, caller, ahead, polling, systemd>>

\* Altered: the error return skips the cleanup.
GraceEndsNoCleanup(s) ==
    /\ ahead[s] = {}
    /\ \/ /\ Move(s, "grace", "poll")
          /\ job' = "stop"
       \/ /\ May("stopError")
          /\ Move(s, "grace", "idle")
          /\ UNCHANGED job
    /\ UNCHANGED <<manager, view, caller, ahead, polling, unit>>

\* Broadcast does nothing in main.go's executor and its error is ignored.
\* The grace period (30s) outlasts every unit call (5s), so a Start that
\* was in flight when the sequence began has reported by now.
GraceEnds(s) ==
    /\ ahead[s] = {}
    /\ \/ /\ Move(s, "grace", "poll")
          /\ job' = "stop"
       \/ /\ May("stopError")
          /\ Move(s, "grace", "ending")
          /\ UNCHANGED job
       \/ /\ May("lostReply")
          /\ Move(s, "grace", "ending")
          /\ job' = "stop"
    /\ UNCHANGED <<manager, view, caller, ahead, polling, unit>>

\* Altered: a unit on its way down counts as stopped.
ConfirmEarly(s) ==
    /\ unit \in {"inactive", "deactivating"}
    /\ Move(s, "poll", "confirmed")
    /\ UNCHANGED <<manager, view, caller, ahead, polling, systemd>>

\* executor.IsStopped; a poll that says no changes nothing.  A GetUnit that
\* fails is reported as "inactive".
Confirm(s) ==
    /\ unit = "inactive" \/ May("busFault")
    /\ Move(s, "poll", "confirmed")
    /\ UNCHANGED <<manager, view, caller, ahead, polling, systemd>>

MarkStopped(s) ==
    /\ Move(s, "confirmed", "announceStopped")
    /\ status' = "stopped"
    /\ players' = {}
    /\ UNCHANGED <<stopRunning, view, caller, ahead, polling, systemd>>

AnnounceStopped(s) ==
    /\ Move(s, "announceStopped", "ending")
    /\ view' = "stopped"
    /\ UNCHANGED <<manager, caller, ahead, polling, systemd>>

\* maxWait has passed and the last poll did not confirm.
Expire(s) ==
    /\ unit # "inactive" \/ May("busFault")
    /\ Move(s, "poll", "expired")
    /\ UNCHANGED <<manager, view, caller, ahead, polling, systemd>>

\* GetUnit is called with a timeout, but the read of the ActiveState that
\* follows it is not: unanswered, it keeps the sequence for good, and maxWait
\* is looked at only between two polls.
ReadHangs(s) ==
    /\ May("hang")
    /\ Move(s, "poll", "hung")
    /\ UNCHANGED <<manager, view, caller, ahead, polling, systemd>>

\* One last executor.Stop, its outcome ignored; the status stays.
Escalate(s) ==
    /\ Move(s, "expired", "ending")
    /\ job' = "stop" \/ (May("stopError") /\ UNCHANGED job)
    /\ UNCHANGED <<manager, view, caller, ahead, polling, unit>>

\* Altered: the flag is not cleared.
EndSequenceNoReset(s) ==
    /\ Move(s, "ending", "idle")
    /\ UNCHANGED <<manager, view, caller, ahead, polling, systemd>>

\* The deferred cleanup.
EndSequence(s) ==
    /\ Move(s, "ending", "idle")
    /\ stopRunning' = FALSE
    /\ UNCHANGED <<status, players, view, caller, ahead, polling, systemd>>

-----------------------------------------------------------------------------
(* The player poller: a ping and, up to two seconds later, a store of what *)
(* it said, whatever the status is by then.                                *)

Ping ==
    /\ poller = "idle"
    /\ poller' = "answered"
    /\ answer' \in IF unit = "active" THEN Optional(Counts) ELSE {{}}
    /\ UNCHANGED <<manager, view, caller, seqPc, ahead, systemd>>

\* Altered: a failed ping stores nothing.
SetPlayersIfAnswered ==
    /\ poller = "answered"
    /\ poller' = "idle"
    /\ players' = IF answer = {} THEN players ELSE answer
    /\ answer' = {}
    /\ UNCHANGED <<status, stopRunning, view, caller, seqPc, ahead, systemd>>

SetPlayers ==
    /\ poller = "answered"
    /\ poller' = "idle"
    /\ players' = answer
    /\ answer' = {}
    /\ UNCHANGED <<status, stopRunning, view, caller, seqPc, ahead, systemd>>

-----------------------------------------------------------------------------
(* systemd (external) and the daemon's own restart *)

RunJob ==
    /\ \/ /\ job = "start"
          /\ \/ unit = "inactive" /\ unit' = "activating" /\ UNCHANGED job
             \/ unit = "activating" /\ unit' = "active" /\ job' = "none"
             \/ unit = "active" /\ unit' = "active" /\ job' = "none"
             \/ unit = "deactivating" /\ unit' = "inactive" /\ UNCHANGED job
       \/ /\ job = "stop"
          /\ \/ unit = "inactive" /\ unit' = "inactive" /\ job' = "none"
             \/ unit \in {"activating", "active"} /\ unit' = "deactivating"
                /\ UNCHANGED job
             \/ unit = "deactivating" /\ unit' = "inactive" /\ job' = "none"
    /\ UNCHANGED <<manager, view, caller, seqPc, ahead, polling>>

UnitAlone ==
    /\ \/ May("crash") /\ unit = "active" /\ unit' = "inactive"
       \/ May("external") /\ unit = "inactive" /\ unit' = "active"
    /\ UNCHANGED <<manager, view, caller, seqPc, ahead, polling, job>>

\* Nothing of the Manager is persisted: a new process starts from Init's
\* state, with the status it reads off the unit.
Restart ==
    /\ May("restart")
    /\ status' \in SyncedStatuses
    /\ view' = status'
    /\ stopRunning' = FALSE
    /\ players' = {}
    /\ caller' = [c \in Callers |-> "idle"]
    /\ seqPc' = [s \in Seqs |-> "idle"]
    /\ ahead' = [s \in Seqs |-> {}]
    /\ poller' = "idle"
    /\ answer' = {}
    /\ UNCHANGED systemd

-----------------------------------------------------------------------------

StartSteps(c) ==
    Start(c) \/ CallStart(c) \/ StartSucceeds(c) \/ StartFails(c)
    \/ AnnounceRunning(c)

ForceSteps(c) == ForcedStopRefused(c) \/ ForceRestart(c)

\* The body of runStopSequence, with the notification that precedes it.
SequenceSteps(s) ==
    AnnounceStopping(s) \/ GraceEnds(s) \/ Confirm(s) \/ MarkStopped(s)
    \/ AnnounceStopped(s) \/ Expire(s) \/ ReadHangs(s) \/ Escalate(s)
    \/ EndSequence(s)

PollerSteps == Ping \/ SetPlayers

Next ==
    \/ \E c \in Callers : StartSteps(c) \/ ForceSteps(c)
    \/ \E s \in Seqs : Stop(s) \/ SequenceSteps(s)
    \/ PollerSteps
    \/ RunJob
    \/ UnitAlone
    \/ Restart

Spec == Init /\ [][Next]_vars

\* Goroutines make progress: the unit calls of a start and of a stop, and the
\* ping, have a timeout, and a poll ends unless its read hangs ("hung" has no
\* step).  systemd works its jobs off, the poller's ticker never stops, and
\* clients owe nothing.
Fairness ==
    /\ \A c \in Callers :
        WF_vars(CallStart(c) \/ StartSucceeds(c) \/ StartFails(c)
                \/ AnnounceRunning(c))
    /\ \A s \in Seqs : WF_vars(SequenceSteps(s))
    /\ WF_vars(RunJob)
    /\ WF_vars(PollerSteps)

FairSpec == Spec /\ Fairness

\* A client that keeps asking for the stop it was promised.
PersistentSpec == FairSpec /\ WF_vars(\E s \in Seqs : Stop(s))

-----------------------------------------------------------------------------
(* Safety *)

\* "Stop in progress" is never reported for a sequence that is gone: the
\* guard is up only while some runStopSequence goroutine still has its
\* deferred cleanup to do, whatever is forced, fails, or crashes.
GuardHeldOnlyInFlight == stopRunning => InFlight # {}

\* Without force the guard is exact: it is up precisely while a stop
\* sequence runs, and there is never a second one beside it.
OneStopSequence ==
    /\ stopRunning <=> InFlight # {}
    /\ \A s, t \in InFlight : s = t

\* A server shown as stopped has no process and nothing queued that would
\* start one.
HonestStopped ==
    status = "stopped" => unit = "inactive" /\ job # "start"

\* Two Start calls never reach the executor side by side.
StartExclusive == \A c, d \in Starters : c = d

\* Starting and stopping never overlap at the unit: a sequence that has not
\* yet asked systemd to stop knows every Start in flight and waits for it;
\* one that has asked finds none in flight and nothing queued by one; and the
\* server counts as stopped only before a Start and after a confirmation.
UnitDiscipline ==
    /\ Starters # {} => status # "stopped"
    /\ \A s \in Seqs :
        /\ seqPc[s] \in {"announce", "grace"} =>
               status # "stopped" /\ Starters \subseteq ahead[s]
        /\ seqPc[s] \in {"poll", "hung", "confirmed", "expired"} =>
               status # "stopped" /\ Starters = {} /\ job # "start"

\* What a sequence read off the unit is still true when it acts on it.
ConfirmedIsDown == \A s \in Seqs : seqPc[s] = "confirmed" => unit = "inactive"

StopDiscipline == UnitDiscipline /\ ConfirmedIsDown

\* The server as its clients may think of it.  It counts as stopping until the
\* sequence is over, although a Start that was in flight reports "running".
Stopping == {s \in Seqs :
    seqPc[s] \in {"announce", "grace", "poll", "hung", "confirmed", "expired"}}
Phase == IF Stopping # {} THEN "stopping" ELSE status
Claimed == {c \in Callers : caller[c] = "calling"}
Launched == {c \in Callers : caller[c] = "started"}
On == unit # "inactive" \/ job = "start"

\* What DECISIONS.md:132 says of "stopping": it is shown from the return of
\* Stop until the sequence has ended.  The code does not keep it: a Start that
\* was in its unit call writes its outcome over it (servers.go:249).
StoppingUntilOver ==
    \A s \in Seqs :
        seqPc[s] \in {"grace", "poll", "hung", "confirmed", "expired"} =>
            status = "stopping"

\* The Manager, its goroutines and the unit together go through the cycle of
\* ServerCycle: launched once for each claim, stopped only when it is down.
Cycle == INSTANCE ServerCycle WITH
    phase <- Phase, claimed <- Claimed, launched <- Launched, on <- On
FollowsCycle == Cycle!Spec

-----------------------------------------------------------------------------
(* Liveness *)

\* A stop that is refused because one is in progress can eventually be
\* retried, whatever fails and however sequences are forced on top of each
\* other, unless each of them is caught in a read that never answers.
AllHung == InFlight # {} /\ \A s \in InFlight : seqPc[s] = "hung"
GuardReleased == stopRunning ~> ~stopRunning \/ AllHung

\* A client that retries its stop does not see "stopping" for ever, although
\* the sequence itself gives up after its escalation.
StoppingResolves == (status = "stopping") ~> (status # "stopping")

\* A count measured before the server went down does not stay on screen.
StalePlayersCleared ==
    (players # {} /\ unit = "inactive") ~> (players = {} \/ unit # "inactive")
=============================================================================
