------------------------ MODULE ServerLifecycleProofs ------------------------
(***************************************************************************)
(* What ServerLifecycle guarantees for any number of goroutines, in        *)
(* layers. Types, the release of the stop guard and the end of every grace *)
(* period need nothing of the environment; each further promise names what *)
(* it needs, from a single stop sequence (no forced stops) to the honesty  *)
(* of "stopped" and the cycle a client sees (stops that fail or hang and a *)
(* server that crashes, nothing else). Each layer is an invariant that the *)
(* next one builds on.                                                     *)
(***************************************************************************)
EXTENDS ServerLifecycle, TLAPS

\* What a theorem may assume of the environment, from weak to strong.

\* No client forces a stop.
Unforced == "force" \notin Environment

\* Moreover a start that systemd has queued is not reported as failed, and
\* none fails.
StartsAnswered == Environment \cap {"force", "startError", "lostReply"} = {}

\* Moreover a status query that fails is not taken for "inactive", and nothing
\* but a6core starts the unit.
QueriesTrue ==
    Environment \cap {"force", "startError", "lostReply", "busFault",
                      "external"} = {}

\* Stops may fail or hang and the server may crash, and that is all.
Undisturbed == Environment \subseteq {"stopError", "crash", "hang"}

-----------------------------------------------------------------------------
(* Types *)

LEMMA TypeInit == Init => TypeOK
  BY CountsAssumption
  DEF Init, TypeOK, Status, CallerPc, SeqPc, UnitState, Optional,
      SyncedStatuses

\* Every step of a goroutine, of the poller, of systemd and of the daemon
\* keeps every variable in its set.
LEMMA TypeNext == TypeOK /\ [Next]_vars => TypeOK'
<1> SUFFICES ASSUME TypeOK, [Next]_vars PROVE TypeOK'
  OBVIOUS
<1> USE DEF TypeOK, Status, CallerPc, SeqPc, UnitState, manager, systemd,
            polling
<1>1. ASSUME NEW c \in Callers, StartSteps(c) \/ ForceSteps(c)
      PROVE  TypeOK'
  <2>1. CASE Start(c)
    BY <2>1 DEF Start
  <2>2. CASE CallStart(c)
    BY <2>2 DEF CallStart
  <2>3. CASE StartSucceeds(c) \/ StartFails(c)
    BY <2>3 DEF StartSucceeds, StartFails, Report
  <2>4. CASE AnnounceRunning(c)
    BY <2>4 DEF AnnounceRunning
  <2>5. CASE ForcedStopRefused(c)
    BY <2>5 DEF ForcedStopRefused
  <2>6. CASE ForceRestart(c)
    BY <2>6 DEF ForceRestart, BeginSequence, Starters
  <2> QED
    BY <1>1, <2>1, <2>2, <2>3, <2>4, <2>5, <2>6 DEF StartSteps, ForceSteps
<1>2. ASSUME NEW s \in Seqs, Stop(s) \/ SequenceSteps(s)
      PROVE  TypeOK'
  <2>1. CASE Stop(s)
    BY <2>1 DEF Stop, BeginSequence, Starters
  <2>2. CASE AnnounceStopping(s) \/ AnnounceStopped(s)
    BY <2>2 DEF AnnounceStopping, AnnounceStopped, Move
  <2>3. CASE GraceEnds(s) \/ Escalate(s)
    BY <2>3 DEF GraceEnds, Escalate, Move
  <2>4. CASE Confirm(s) \/ Expire(s) \/ ReadHangs(s)
    BY <2>4 DEF Confirm, Expire, ReadHangs, Move
  <2>5. CASE MarkStopped(s)
    BY <2>5 DEF MarkStopped, Move, Optional
  <2>6. CASE EndSequence(s)
    BY <2>6 DEF EndSequence, Move
  <2> QED
    BY <1>2, <2>1, <2>2, <2>3, <2>4, <2>5, <2>6 DEF SequenceSteps
<1>3. CASE PollerSteps
  <2>1. CASE Ping
    BY <2>1 DEF Ping, Optional
  <2>2. CASE SetPlayers
    BY <2>2 DEF SetPlayers, Optional
  <2> QED
    BY <1>3, <2>1, <2>2 DEF PollerSteps
<1>4. CASE RunJob
  BY <1>4 DEF RunJob
<1>5. CASE UnitAlone
  BY <1>5 DEF UnitAlone
<1>6. CASE Restart
  BY <1>6 DEF Restart, SyncedStatuses, Optional
<1>7. CASE UNCHANGED vars
  BY <1>7 DEF vars
<1> QED
  BY <1>1, <1>2, <1>3, <1>4, <1>5, <1>6, <1>7 DEF Next

\* The variables of the Manager, its goroutines and the unit keep their types.
THEOREM TypeCorrect == Spec => []TypeOK
<1>1. Init => TypeOK
  BY TypeInit
<1>2. TypeOK /\ [Next]_vars => TypeOK'
  BY TypeNext
<1> QED
  BY <1>1, <1>2, PTL DEF Spec

-----------------------------------------------------------------------------
(* The stop guard *)

\* A sequence that ends lowers the guard, so a raised guard always belongs to
\* a sequence still to end: stops cannot be refused for ever.
THEOREM GuardSound == Spec => []GuardHeldOnlyInFlight
<1> USE DEF GuardHeldOnlyInFlight, InFlight, TypeOK, manager, systemd, polling
<1>1. Init => GuardHeldOnlyInFlight
  BY DEF Init
<1>2. TypeOK /\ GuardHeldOnlyInFlight /\ [Next]_vars => GuardHeldOnlyInFlight'
  <2> SUFFICES ASSUME TypeOK, GuardHeldOnlyInFlight, [Next]_vars
               PROVE  GuardHeldOnlyInFlight'
    OBVIOUS
  <2>1. ASSUME NEW c \in Callers, StartSteps(c) \/ ForceSteps(c)
        PROVE  GuardHeldOnlyInFlight'
    <3>1. CASE ForceRestart(c)
      BY <3>1 DEF ForceRestart, BeginSequence
    <3>2. CASE ~ForceRestart(c)
      BY <2>1, <3>2 DEF StartSteps, ForceSteps, Start, CallStart, Report,
         StartSucceeds, StartFails, AnnounceRunning, ForcedStopRefused
    <3> QED
      BY <3>1, <3>2
  <2>2. ASSUME NEW s \in Seqs, Stop(s)
        PROVE  GuardHeldOnlyInFlight'
    BY <2>2 DEF Stop, BeginSequence
  <2>3. ASSUME NEW s \in Seqs, SequenceSteps(s), ~EndSequence(s)
        PROVE  GuardHeldOnlyInFlight'
    <3>1. stopRunning' = stopRunning /\ seqPc'[s] # "idle"
          /\ \A q \in Seqs \ {s} : seqPc'[q] = seqPc[q]
      BY <2>3 DEF SequenceSteps, Move, AnnounceStopping, GraceEnds, Confirm,
         MarkStopped, AnnounceStopped, Expire, ReadHangs, Escalate
    <3> QED
      BY <3>1
  <2>4. ASSUME NEW s \in Seqs, EndSequence(s)
        PROVE  GuardHeldOnlyInFlight'
    BY <2>4 DEF EndSequence
  <2>5. CASE PollerSteps \/ RunJob \/ UnitAlone \/ UNCHANGED vars
    BY <2>5 DEF PollerSteps, Ping, SetPlayers, RunJob, UnitAlone, vars
  <2>6. CASE Restart
    BY <2>6 DEF Restart
  <2> QED
    BY <2>1, <2>2, <2>3, <2>4, <2>5, <2>6 DEF Next
<1> QED
  BY <1>1, <1>2, TypeCorrect, PTL DEF Spec

-----------------------------------------------------------------------------
(* Waiting *)

\* A sequence waits only for Starts that have still to report.
WaitsForStarters == \A s \in Seqs : ahead[s] \subseteq Starters

LEMMA WaitsNext ==
    ASSUME TypeOK, WaitsForStarters, [Next]_vars
    PROVE  WaitsForStarters'
<1> USE DEF TypeOK, WaitsForStarters, manager, systemd, polling
<1>1. ASSUME NEW c \in Callers, StartSteps(c)
      PROVE  WaitsForStarters'
  <2>1. CASE Report(c, "started", "running", "announce")
             \/ Report(c, "failed", "stopped", "idle")
    BY <2>1 DEF Report, Starters
  <2>2. CASE Start(c) \/ CallStart(c) \/ AnnounceRunning(c)
    BY <2>2 DEF Start, CallStart, AnnounceRunning, Starters
  <2> QED
    BY <1>1, <2>1, <2>2 DEF StartSteps, StartSucceeds, StartFails
<1>2. ASSUME NEW c \in Callers, ForceSteps(c)
      PROVE  WaitsForStarters'
  BY <1>2 DEF ForceSteps, ForcedStopRefused, ForceRestart, BeginSequence,
     Starters
<1>3. ASSUME NEW s \in Seqs, Stop(s)
      PROVE  WaitsForStarters'
  BY <1>3 DEF Stop, BeginSequence, Starters
<1>4. CASE \/ \E s \in Seqs : SequenceSteps(s)
           \/ PollerSteps \/ RunJob \/ UnitAlone \/ UNCHANGED vars
  BY <1>4 DEF SequenceSteps, AnnounceStopping, GraceEnds, Confirm, MarkStopped,
     AnnounceStopped, Expire, ReadHangs, Escalate, EndSequence, PollerSteps, Ping,
     SetPlayers, RunJob, UnitAlone, vars, Starters
<1>5. CASE Restart
  BY <1>5 DEF Restart
<1> QED
  BY <1>1, <1>2, <1>3, <1>4, <1>5 DEF Next

\* In every environment, no grace period is held up by a Start that is gone:
\* each one a sequence still waits for is in flight and will report.
THEOREM GraceWaitsForTheLiving == Spec => []WaitsForStarters
<1>1. Init => WaitsForStarters
  BY DEF Init, WaitsForStarters
<1> QED
  BY <1>1, WaitsNext, TypeCorrect, PTL DEF Spec

-----------------------------------------------------------------------------
(* One stop sequence, as long as none is forced *)

SingleInv ==
    /\ TypeOK
    /\ \A c \in Callers : caller[c] # "forcing"
    /\ OneStopSequence

LEMMA SingleInvInit == Init => SingleInv
  BY TypeInit DEF Init, SingleInv, OneStopSequence, InFlight

LEMMA SingleInvNext == ASSUME Unforced, SingleInv, [Next]_vars PROVE SingleInv'
<1> USE DEF SingleInv, TypeOK, OneStopSequence, InFlight, manager, systemd,
            polling
<1>0. TypeOK'
  BY TypeNext
<1>1. ASSUME NEW c \in Callers, StartSteps(c) \/ ForceSteps(c)
      PROVE  SingleInv'
  <2>1. UNCHANGED <<seqPc, stopRunning>>
        /\ \A d \in Callers : caller'[d] # "forcing"
    BY <1>1 DEF StartSteps, Start, CallStart, StartSucceeds, StartFails, Report,
       AnnounceRunning, ForceSteps, ForcedStopRefused, ForceRestart, Unforced,
       May
  <2> QED
    BY <1>0, <2>1
<1>2. ASSUME NEW s \in Seqs, Stop(s)
      PROVE  SingleInv'
  <2>1. InFlight = {} /\ stopRunning' /\ seqPc' = [seqPc EXCEPT ![s] = "announce"]
        /\ UNCHANGED caller
    BY <1>2 DEF Stop, BeginSequence
  <2> QED
    BY <1>0, <2>1
<1>3. ASSUME NEW s \in Seqs, SequenceSteps(s)
      PROVE  SingleInv'
  <2>1. InFlight = {s} /\ UNCHANGED caller
        /\ \A q \in Seqs \ {s} : seqPc'[q] = "idle"
    BY <1>3 DEF SequenceSteps, Move, AnnounceStopping, GraceEnds, Confirm,
       MarkStopped, AnnounceStopped, Expire, ReadHangs, Escalate, EndSequence
  <2>2. CASE EndSequence(s)
    BY <1>0, <2>1, <2>2 DEF EndSequence, Move
  <2>3. CASE ~EndSequence(s)
    <3>1. seqPc'[s] # "idle" /\ UNCHANGED stopRunning
      BY <1>3, <2>3 DEF SequenceSteps, Move, AnnounceStopping, GraceEnds,
         Confirm, MarkStopped, AnnounceStopped, Expire, ReadHangs, Escalate
    <3> QED
      BY <1>0, <2>1, <3>1
  <2> QED
    BY <2>2, <2>3
<1>4. CASE PollerSteps \/ RunJob \/ UnitAlone \/ UNCHANGED vars
  BY <1>0, <1>4 DEF PollerSteps, Ping, SetPlayers, RunJob, UnitAlone, vars
<1>5. CASE Restart
  BY <1>0, <1>5 DEF Restart
<1> QED
  BY <1>1, <1>2, <1>3, <1>4, <1>5 DEF Next

\* Without forced stops there is at most one stop sequence, and the guard is
\* raised as long as it lasts: whatever calls fail, whatever the unit does and
\* however often the daemon restarts.
THEOREM StopsAreSingle == ASSUME Unforced PROVE Spec => []OneStopSequence
<1>1. Init => SingleInv
  BY SingleInvInit
<1>2. SingleInv /\ [Next]_vars => SingleInv'
  BY SingleInvNext
<1>3. SingleInv => OneStopSequence
  BY DEF SingleInv
<1> QED
  BY <1>1, <1>2, <1>3, PTL DEF Spec

-----------------------------------------------------------------------------
(* Starts and stops apart, as long as no start fails *)

ApartInv ==
    /\ SingleInv
    /\ \A c \in Callers : caller[c] # "failed"
    /\ StartExclusive
    /\ UnitDiscipline

LEMMA ApartInvInit == Init => ApartInv
<1> SUFFICES ASSUME Init PROVE ApartInv
  OBVIOUS
<1>1. Starters = {}
  BY DEF Init, Starters
<1> QED
  BY <1>1, SingleInvInit DEF Init, ApartInv, StartExclusive, UnitDiscipline

\* A Start needs "stopped", so no sequence is before its confirmation and no
\* other Start is in flight.
LEMMA ApartInvCaller ==
    ASSUME StartsAnswered, ApartInv, NEW c \in Callers,
           StartSteps(c) \/ ForceSteps(c)
    PROVE  ApartInv'
<1> USE DEF ApartInv, SingleInv, TypeOK, manager, systemd, polling
<1>0. SingleInv'
  BY SingleInvNext DEF Next, StartsAnswered, Unforced
<1>1. CASE Start(c)
  <2>1. Starters = {} /\ Starters' = {c} /\ status = "stopped"
    BY <1>1 DEF Start, UnitDiscipline, Starters
  <2> QED
    BY <1>0, <1>1, <2>1 DEF Start, StartExclusive, UnitDiscipline
<1>2. CASE CallStart(c)
  <2>1. /\ c \in Starters /\ Starters' = Starters
        /\ caller' = [caller EXCEPT ![c] = "started"]
    BY <1>2 DEF CallStart, Starters, StartsAnswered, May
  <2>2. UNCHANGED <<seqPc, ahead, status>>
    BY <1>2 DEF CallStart
  <2> QED
    BY <1>0, <2>1, <2>2 DEF StartExclusive, UnitDiscipline
<1>3. CASE StartSucceeds(c)
  <2>1. Starters' = {} /\ status' = "running" /\ UNCHANGED <<seqPc, job>>
    BY <1>3 DEF StartSucceeds, Report, StartExclusive, Starters
  <2> QED
    BY <1>0, <1>3, <2>1 DEF StartSucceeds, Report, StartExclusive,
       UnitDiscipline
<1>4. CASE AnnounceRunning(c)
  <2>1. Starters' = Starters /\ UNCHANGED <<seqPc, ahead, status, job>>
    BY <1>4 DEF AnnounceRunning, Starters
  <2> QED
    BY <1>0, <1>4, <2>1 DEF AnnounceRunning, StartExclusive, UnitDiscipline
<1>5. ~StartFails(c) /\ ~ForcedStopRefused(c) /\ ~ForceRestart(c)
  BY DEF StartFails, Report, ForcedStopRefused, ForceRestart, StartsAnswered,
     May
<1> QED
  BY <1>1, <1>2, <1>3, <1>4, <1>5 DEF StartSteps, ForceSteps

\* Stop begins the only sequence, and hands it the Starts to wait for.
LEMMA ApartInvStop ==
    ASSUME StartsAnswered, ApartInv, NEW s \in Seqs, Stop(s)
    PROVE  ApartInv'
<1> USE DEF ApartInv, SingleInv, TypeOK, manager, systemd, polling
<1>0. SingleInv'
  BY SingleInvNext DEF Next, StartsAnswered, Unforced
<1>1. \A q \in Seqs \ {s} : seqPc'[q] = "idle"
  BY DEF Stop, BeginSequence, OneStopSequence, InFlight
<1>2. Starters' = Starters /\ ahead'[s] = Starters
  BY DEF Stop, BeginSequence, Starters
<1>3. seqPc'[s] = "announce" /\ status' = "stopping" /\ UNCHANGED caller
  BY DEF Stop, BeginSequence
<1> QED
  BY <1>0, <1>1, <1>2, <1>3 DEF StartExclusive, UnitDiscipline

\* Past the grace period there is no Start left, and none comes before the
\* sequence has marked the server stopped.
LEMMA ApartInvSequence ==
    ASSUME StartsAnswered, ApartInv, NEW s \in Seqs, SequenceSteps(s)
    PROVE  ApartInv'
<1> USE DEF ApartInv, SingleInv, TypeOK, manager, systemd, polling
<1>0. SingleInv'
  BY SingleInvNext DEF Next, StartsAnswered, Unforced
<1>1. UNCHANGED <<caller, ahead>> /\ Starters' = Starters
  BY DEF SequenceSteps, AnnounceStopping, GraceEnds, Confirm, MarkStopped,
     AnnounceStopped, Expire, ReadHangs, Escalate, EndSequence, Starters
<1>2. StartExclusive'
  BY <1>1 DEF StartExclusive
<1>3. \A q \in Seqs \ {s} : seqPc'[q] = "idle"
  BY DEF SequenceSteps, Move, AnnounceStopping, GraceEnds, Confirm,
     MarkStopped, AnnounceStopped, Expire, ReadHangs, Escalate, EndSequence,
     OneStopSequence, InFlight
<1>4. UnitDiscipline'
  <2>1. CASE AnnounceStopping(s)
    BY <1>1, <1>3, <2>1 DEF AnnounceStopping, Move, UnitDiscipline
  <2>2. CASE GraceEnds(s)
    <3>1. Starters = {} /\ status # "stopped"
      BY <2>2 DEF GraceEnds, Move, UnitDiscipline
    <3>2. seqPc'[s] \in {"poll", "ending"} /\ UNCHANGED status
          /\ (seqPc'[s] = "poll" => job' = "stop")
      BY <2>2 DEF GraceEnds, Move
    <3> QED
      BY <1>1, <1>3, <3>1, <3>2 DEF UnitDiscipline
  <2>3. CASE Confirm(s) \/ Expire(s) \/ ReadHangs(s)
    BY <1>1, <1>3, <2>3 DEF Confirm, Expire, ReadHangs, Move, UnitDiscipline
  <2>4. CASE MarkStopped(s)
    BY <1>1, <1>3, <2>4 DEF MarkStopped, Move, UnitDiscipline
  <2>5. CASE AnnounceStopped(s) \/ Escalate(s) \/ EndSequence(s)
    BY <1>1, <1>3, <2>5
    DEF AnnounceStopped, Escalate, EndSequence, Move, UnitDiscipline
  <2> QED
    BY <2>1, <2>2, <2>3, <2>4, <2>5 DEF SequenceSteps
<1> QED
  BY <1>0, <1>1, <1>2, <1>4

LEMMA ApartInvNext ==
    ASSUME StartsAnswered, ApartInv, [Next]_vars
    PROVE  ApartInv'
<1>0. SingleInv'
  BY SingleInvNext DEF StartsAnswered, Unforced, ApartInv
<1>1. CASE PollerSteps \/ RunJob \/ UnitAlone \/ UNCHANGED vars
  <2>1. UNCHANGED <<status, caller, seqPc, ahead>> /\ job' \in {job, "none"}
        /\ Starters' = Starters
    BY <1>1 DEF PollerSteps, Ping, SetPlayers, RunJob, UnitAlone, vars, manager,
       systemd, Starters
  <2> QED
    BY <1>0, <2>1 DEF ApartInv, StartExclusive, UnitDiscipline
<1>2. CASE Restart
  <2>1. Starters' = {}
    BY <1>2 DEF Restart, Starters
  <2> QED
    BY <1>0, <1>2, <2>1 DEF Restart, ApartInv, StartExclusive, UnitDiscipline
<1> QED
  BY <1>1, <1>2, ApartInvCaller, ApartInvStop, ApartInvSequence DEF Next

LEMMA ApartInvAlways == ASSUME StartsAnswered PROVE Spec => []ApartInv
<1>1. Init => ApartInv
  BY ApartInvInit
<1>2. ApartInv /\ [Next]_vars => ApartInv'
  BY ApartInvNext
<1> QED
  BY <1>1, <1>2, PTL DEF Spec

\* However many clients start the server at once, one of them reaches systemd:
\* also when queries fail, when something else starts the unit and across
\* restarts of the daemon.
THEOREM StartsExclude == ASSUME StartsAnswered PROVE Spec => []StartExclusive
<1>1. ApartInv => StartExclusive
  BY DEF ApartInv
<1> QED
  BY ApartInvAlways, <1>1, PTL

-----------------------------------------------------------------------------
(* Confirmed stops, as long as the queries tell the truth *)

LEMMA ConfirmedNext ==
    ASSUME QueriesTrue, ApartInv, ConfirmedIsDown, [Next]_vars
    PROVE  ConfirmedIsDown'
<1> USE DEF ApartInv, SingleInv, TypeOK, ConfirmedIsDown, manager, systemd,
            polling
<1>1. CASE RunJob \/ UnitAlone
  BY <1>1 DEF RunJob, UnitAlone, UnitDiscipline, QueriesTrue, May
<1>2. ASSUME NEW c \in Callers, StartSteps(c) \/ ForceSteps(c)
      PROVE  ConfirmedIsDown'
  BY <1>2 DEF StartSteps, Start, CallStart, StartSucceeds, StartFails, Report,
     AnnounceRunning, ForceSteps, ForcedStopRefused, ForceRestart, QueriesTrue,
     May
<1>3. ASSUME NEW s \in Seqs, Stop(s) \/ SequenceSteps(s)
      PROVE  ConfirmedIsDown'
  <2>1. CASE Confirm(s)
    BY <2>1 DEF Confirm, Move, QueriesTrue, May
  <2>2. CASE ~Confirm(s)
    BY <1>3, <2>2 DEF Stop, BeginSequence, SequenceSteps, Move,
       AnnounceStopping, GraceEnds, MarkStopped, AnnounceStopped, Expire, ReadHangs,
       Escalate, EndSequence
  <2> QED
    BY <2>1, <2>2
<1>4. CASE PollerSteps \/ UNCHANGED vars
  BY <1>4 DEF PollerSteps, Ping, SetPlayers, vars
<1>5. CASE Restart
  BY <1>5 DEF Restart
<1> QED
  BY <1>1, <1>2, <1>3, <1>4, <1>5 DEF Next

LEMMA ConfirmedAlways ==
    ASSUME QueriesTrue PROVE Spec => [](ApartInv /\ ConfirmedIsDown)
<1>1. Init => ConfirmedIsDown
  BY DEF Init, ConfirmedIsDown
<1>2. ApartInv /\ ConfirmedIsDown /\ [Next]_vars => ConfirmedIsDown'
  BY ConfirmedNext
<1>3. Spec => []ApartInv
  BY ApartInvAlways DEF QueriesTrue, StartsAnswered
<1> QED
  BY <1>1, <1>2, <1>3, PTL DEF Spec

\* A start and a stop never meet at the unit, and what a sequence confirmed is
\* still so when it says so, restarts of the daemon included.
THEOREM StartsAndStopsApart == ASSUME QueriesTrue PROVE Spec => []StopDiscipline
<1>1. ApartInv /\ ConfirmedIsDown => StopDiscipline
  BY DEF ApartInv, StopDiscipline
<1> QED
  BY ConfirmedAlways, <1>1, PTL

\* The step in which a stop sequence turns the status to "stopped".
Marks(s) == seqPc[s] = "confirmed" /\ seqPc'[s] = "announceStopped"

\* A sequence marks a server as stopped only while it is down and stays down,
\* even if an earlier process of a6core had lost track of it.
THEOREM MarkedWhenDown ==
    ASSUME QueriesTrue
    PROVE  Spec => [][\A s \in Seqs :
                        Marks(s) => unit = "inactive" /\ job # "start"]_vars
<1>1. ApartInv /\ ConfirmedIsDown /\ [Next]_vars =>
          [\A s \in Seqs : Marks(s) => unit = "inactive" /\ job # "start"]_vars
  BY DEF ApartInv, UnitDiscipline, ConfirmedIsDown, Marks
<1> QED
  BY ConfirmedAlways, <1>1, PTL DEF Spec

-----------------------------------------------------------------------------
(* Honest stops, undisturbed *)

LEMMA HonestNext ==
    ASSUME Undisturbed, ApartInv, ConfirmedIsDown, HonestStopped, [Next]_vars
    PROVE  HonestStopped'
<1> USE DEF ApartInv, SingleInv, TypeOK, HonestStopped, manager, systemd,
            polling
<1>1. ASSUME NEW c \in Callers, StartSteps(c) \/ ForceSteps(c)
      PROVE  HonestStopped'
  <2>1. CASE CallStart(c)
    BY <2>1 DEF CallStart, UnitDiscipline, Starters
  <2>2. CASE ~CallStart(c)
    BY <1>1, <2>2 DEF StartSteps, Start, StartSucceeds, StartFails, Report,
       AnnounceRunning, ForceSteps, ForcedStopRefused, ForceRestart,
       Undisturbed, May
  <2> QED
    BY <2>1, <2>2
<1>2. ASSUME NEW s \in Seqs, Stop(s) \/ SequenceSteps(s)
      PROVE  HonestStopped'
  <2>1. CASE MarkStopped(s)
    BY <2>1 DEF MarkStopped, Move, UnitDiscipline, ConfirmedIsDown
  <2>2. CASE ~MarkStopped(s)
    BY <1>2, <2>2 DEF Stop, BeginSequence, SequenceSteps, AnnounceStopping,
       GraceEnds, Confirm, AnnounceStopped, Expire, ReadHangs, Escalate, EndSequence
  <2> QED
    BY <2>1, <2>2
<1>3. CASE RunJob \/ UnitAlone
  BY <1>3 DEF RunJob, UnitAlone, Undisturbed, May
<1>4. CASE PollerSteps \/ UNCHANGED vars
  BY <1>4 DEF PollerSteps, Ping, SetPlayers, vars
<1>5. ~Restart
  BY DEF Restart, Undisturbed, May
<1> QED
  BY <1>1, <1>2, <1>3, <1>4, <1>5 DEF Next

\* Undisturbed, whatever the number of clients, "stopped" is never shown for
\* a server that runs or is about to.
THEOREM StopsAreHonest == ASSUME Undisturbed PROVE Spec => []HonestStopped
<1>1. Init => HonestStopped
  BY DEF Init, HonestStopped, SyncedStatuses, Undisturbed, May
<1>2. ApartInv /\ ConfirmedIsDown /\ HonestStopped /\ [Next]_vars
          => HonestStopped'
  BY HonestNext
<1>3. Spec => [](ApartInv /\ ConfirmedIsDown)
  BY ConfirmedAlways DEF Undisturbed, QueriesTrue
<1> QED
  BY <1>1, <1>2, <1>3, PTL DEF Spec

-----------------------------------------------------------------------------
(* The Manager implements the cycle *)

\* "starting" stands for a Start in flight, unless a sequence waits for it;
\* and what has been claimed and not launched is down.
CycleInv ==
    /\ status = "starting" => Starters # {}
    /\ Starters # {} /\ Stopping = {} => status = "starting"
    /\ Claimed # {} => ~On

\* What the steps of the cycle rely on.
Calm ==
    /\ Undisturbed
    /\ ApartInv /\ ConfirmedIsDown /\ HonestStopped /\ CycleInv

LEMMA StartersAre == TypeOK => Starters = Claimed \cup Launched \cup
                                 {c \in Callers : caller[c] = "failed"}
  BY DEF TypeOK, Starters, Claimed, Launched

\* One caller moves: who has claimed and who has launched follows.
LEMMA CallerMoves ==
    ASSUME TypeOK, NEW c \in Callers, NEW pc,
           caller' = [caller EXCEPT ![c] = pc]
    PROVE  /\ Claimed' = (Claimed \ {c}) \cup (IF pc = "calling" THEN {c} ELSE {})
           /\ Launched' = (Launched \ {c}) \cup (IF pc = "started" THEN {c} ELSE {})
           /\ Starters' = (Starters \ {c}) \cup
                (IF pc \in {"calling", "started", "failed"} THEN {c} ELSE {})
  BY DEF TypeOK, Claimed, Launched, Starters

LEMMA CallerStays ==
    ASSUME UNCHANGED caller
    PROVE  UNCHANGED <<Claimed, Launched, Starters>>
  BY DEF Claimed, Launched, Starters

\* The starts: each one is a step of the cycle.
LEMMA CycleStarts ==
    ASSUME Calm, NEW c \in Callers, StartSteps(c) \/ ForceSteps(c)
    PROVE  CycleInv' /\ [Cycle!Next]_<<Phase, Claimed, Launched, On>>
<1>1. TypeOK /\ StartExclusive /\ UnitDiscipline /\ HonestStopped /\ CycleInv
      /\ \A d \in Callers : caller[d] # "failed"
  BY DEF Calm, ApartInv, SingleInv
<1>2. Stopping # {} => status # "stopped"
  BY <1>1 DEF Stopping, UnitDiscipline
<1>3. CASE Start(c)
  <2>1. Starters = {} /\ Claimed = {} /\ Launched = {} /\ Stopping = {}
    BY <1>1, <1>2, <1>3, StartersAre DEF Start, UnitDiscipline
  <2>2. Claimed' = {c} /\ Launched' = {} /\ Starters' = {c}
    BY <1>1, <1>3, <2>1, CallerMoves DEF Start
  <2>3. UNCHANGED <<Stopping, On>> /\ ~On
    BY <1>1, <1>3 DEF Start, Stopping, On, HonestStopped, systemd
  <2>4. Phase = "stopped" /\ Phase' = "starting" /\ status' = "starting"
    BY <1>3, <2>1, <2>3 DEF Start, Phase
  <2>5. Cycle!Claim(c)
    BY <2>1, <2>2, <2>3, <2>4 DEF Cycle!Claim
  <2> QED
    BY <2>2, <2>3, <2>4, <2>5 DEF CycleInv, Cycle!Next
<1>4. CASE CallStart(c)
  <2>1. caller' = [caller EXCEPT ![c] = "started"] /\ job' = "start"
        /\ UNCHANGED <<status, seqPc>>
    BY <1>4 DEF CallStart, Calm, Undisturbed, May, manager
  <2>2. Claimed = {c} /\ Launched = {} /\ Starters = {c}
    BY <1>1, <1>4 DEF CallStart, Claimed, Launched, StartExclusive, Starters
  <2>3. Claimed' = {} /\ Launched' = {c} /\ Starters' = {c}
    BY <1>1, <2>1, <2>2, CallerMoves
  <2>4. ~On /\ On' /\ UNCHANGED <<Phase, Stopping>>
    BY <1>1, <2>1, <2>2 DEF CycleInv, On, Phase, Stopping
  <2>5. Cycle!Launch
    BY <2>2, <2>3, <2>4, Zenon DEF Cycle!Launch
  <2> QED
    BY <1>1, <2>1, <2>2, <2>3, <2>4, <2>5 DEF CycleInv, Cycle!Next
<1>5. CASE StartSucceeds(c)
  <2>1. Claimed = {} /\ Launched = {c} /\ Starters = {c}
    <3>1. caller[c] = "started"
      BY <1>5 DEF StartSucceeds, Report
    <3> QED
      BY <1>1, <3>1 DEF Claimed, Launched, StartExclusive, Starters
  <2>2. Claimed' = {} /\ Launched' = {} /\ Starters' = {}
    <3>1. caller' = [caller EXCEPT ![c] = "announce"]
      BY <1>5 DEF StartSucceeds, Report
    <3>2. /\ Claimed' = Claimed \ {c} /\ Launched' = Launched \ {c}
          /\ Starters' = Starters \ {c}
      BY <1>1, <3>1 DEF TypeOK, Claimed, Launched, Starters
    <3> QED
      BY <2>1, <3>2
  <2>3. UNCHANGED <<Stopping, On>> /\ status' = "running"
    BY <1>5 DEF StartSucceeds, Report, Stopping, On, systemd
  <2>4. \/ Phase = "starting" /\ Phase' = "running"
        \/ Phase = "stopping" /\ UNCHANGED Phase
    BY <1>1, <2>1, <2>3 DEF CycleInv, Phase
  <2>5. Cycle!Report
    BY <2>1, <2>2, <2>3, <2>4 DEF Cycle!Report
  <2> QED
    BY <2>2, <2>3, <2>5 DEF CycleInv, Cycle!Next
<1>6. CASE AnnounceRunning(c)
  <2>1. UNCHANGED <<Claimed, Launched, Starters>>
    BY <1>1, <1>6 DEF AnnounceRunning, Claimed, Launched, Starters, TypeOK
  <2>2. UNCHANGED <<Stopping, On, Phase, status>>
    BY <1>6 DEF AnnounceRunning, Stopping, On, Phase, manager, systemd
  <2> QED
    BY <1>1, <2>1, <2>2 DEF CycleInv
<1>7. ~StartFails(c) /\ ~ForcedStopRefused(c) /\ ~ForceRestart(c)
  BY <1>1 DEF StartFails, Report, ForcedStopRefused, ForceRestart, Calm,
     Undisturbed, ApartInv, SingleInv, May
<1> QED
  BY <1>3, <1>4, <1>5, <1>6, <1>7 DEF StartSteps, ForceSteps

\* The stop: asked for, and then confirmed or given up.
LEMMA CycleStops ==
    ASSUME Calm, NEW s \in Seqs, Stop(s) \/ SequenceSteps(s)
    PROVE  CycleInv' /\ [Cycle!Next]_<<Phase, Claimed, Launched, On>>
<1>1. TypeOK /\ OneStopSequence /\ UnitDiscipline /\ CycleInv
      /\ \A d \in Callers : caller[d] # "failed"
  BY DEF Calm, ApartInv, SingleInv
<1>2. UNCHANGED <<Claimed, Launched, Starters>>
  BY CallerStays DEF Stop, SequenceSteps, AnnounceStopping, GraceEnds, Confirm,
     MarkStopped, AnnounceStopped, Expire, ReadHangs, Escalate, EndSequence
<1>3. \A q \in Seqs \ {s} : seqPc[q] = "idle" /\ seqPc'[q] = "idle"
  BY <1>1 DEF Stop, BeginSequence, SequenceSteps, Move, AnnounceStopping,
     GraceEnds, Confirm, MarkStopped, AnnounceStopped, Expire, ReadHangs, Escalate,
     EndSequence, OneStopSequence, InFlight, TypeOK
<1>4. CASE Stop(s)
  <2>1. Stopping = {} /\ Stopping' = {s} /\ UNCHANGED On
    BY <1>1, <1>3, <1>4
    DEF Stop, BeginSequence, OneStopSequence, InFlight, Stopping, On, systemd,
        TypeOK
  <2>2. status # "stopped" /\ status' = "stopping"
    BY <1>4 DEF Stop, BeginSequence
  <2>3. Phase = status /\ Phase' = "stopping"
    BY <2>1 DEF Phase
  <2>4. status \in {"starting", "running", "stopping"}
    BY <1>1, <2>2 DEF TypeOK, Status
  <2>5. Cycle!AskToStop \/ UNCHANGED <<Phase, Claimed, Launched, On>>
    BY <1>2, <2>1, <2>3, <2>4 DEF Cycle!AskToStop
  <2> QED
    BY <1>1, <1>2, <2>1, <2>2, <2>5 DEF CycleInv, Cycle!Next
<1>5. CASE AnnounceStopping(s) \/ Confirm(s) \/ Expire(s) \/ ReadHangs(s)
  <2>1. Stopping = {s} /\ Stopping' = {s} /\ UNCHANGED <<status, On>>
    BY <1>1, <1>3, <1>5
    DEF AnnounceStopping, Confirm, Expire, ReadHangs, Move, Stopping, On, systemd,
        manager, TypeOK
  <2>2. UNCHANGED Phase
    BY <2>1 DEF Phase
  <2> QED
    BY <1>1, <1>2, <2>1, <2>2 DEF CycleInv
<1>6. CASE GraceEnds(s) \/ Escalate(s)
  <2>1. /\ Starters = {} /\ status # "stopped" /\ UNCHANGED status
        /\ Stopping = {s} /\ Stopping' \in {{}, {s}}
    BY <1>1, <1>3, <1>6
    DEF GraceEnds, Escalate, Move, UnitDiscipline, Stopping, manager, TypeOK
  <2>2. Claimed = {} /\ Launched = {}
    BY <1>1, <2>1, StartersAre
  <2>3. status \in {"running", "stopping"}
    BY <1>1, <2>1 DEF CycleInv, TypeOK, Status
  <2>4. Phase = "stopping" /\ Phase' \in {"running", "stopping"}
    BY <2>1, <2>3 DEF Phase
  <2>5. On' => On
    BY <1>6 DEF GraceEnds, Escalate, On
  <2>6. Phase' = "running" => UNCHANGED On
    <3>1. CASE GraceEnds(s)
      BY <1>1, <3>1, <2>1
      DEF GraceEnds, Move, Phase, Stopping, On, Calm, Undisturbed, May, TypeOK
    <3>2. CASE Escalate(s)
      BY <1>1, <3>2 DEF Escalate, Move, On, UnitDiscipline
    <3> QED
      BY <1>6, <3>1, <3>2
  <2>7. Cycle!GiveUp \/ Cycle!Die \/ UNCHANGED <<Phase, Claimed, Launched, On>>
    <3>1. On \in BOOLEAN /\ On' \in BOOLEAN
      BY DEF On
    <3>2. CASE Phase' = "running"
      BY <1>2, <2>2, <2>4, <2>6, <3>2 DEF Cycle!GiveUp
    <3>3. CASE Phase' = "stopping"
      BY <1>2, <2>4, <2>5, <3>1, <3>3, Zenon DEF Cycle!Die
    <3> QED
      BY <2>4, <3>2, <3>3
  <2> QED
    BY <1>1, <1>2, <2>1, <2>2, <2>3, <2>7 DEF CycleInv, Cycle!Next
<1>7. CASE MarkStopped(s)
  <2>1. /\ Starters = {} /\ Stopping = {s} /\ Stopping' = {}
        /\ status' = "stopped" /\ UNCHANGED On
    BY <1>1, <1>3, <1>7
    DEF MarkStopped, Move, UnitDiscipline, Stopping, On, systemd, TypeOK
  <2>2. ~On
    BY <1>1, <1>7
    DEF MarkStopped, Move, UnitDiscipline, On, Calm, ConfirmedIsDown
  <2>3. Claimed = {} /\ Launched = {}
    BY <1>1, <2>1, StartersAre
  <2>4. Phase = "stopping" /\ Phase' = "stopped"
    BY <2>1 DEF Phase
  <2>5. Cycle!Confirm
    BY <1>2, <2>1, <2>2, <2>3, <2>4 DEF Cycle!Confirm
  <2> QED
    BY <1>2, <2>1, <2>3, <2>5 DEF CycleInv, Cycle!Next
<1>8. CASE AnnounceStopped(s) \/ EndSequence(s)
  <2>1. Stopping = {} /\ Stopping' = {} /\ UNCHANGED <<status, On>>
    BY <1>1, <1>3, <1>8
    DEF AnnounceStopped, EndSequence, Move, Stopping, On, systemd, manager,
        TypeOK
  <2>2. UNCHANGED Phase
    BY <2>1 DEF Phase
  <2> QED
    BY <1>1, <1>2, <2>1, <2>2 DEF CycleInv
<1> QED
  BY <1>4, <1>5, <1>6, <1>7, <1>8 DEF SequenceSteps

\* The rest happens below the Manager, or is no business of the cycle.
LEMMA CycleRest ==
    ASSUME Calm, PollerSteps \/ RunJob \/ UnitAlone \/ UNCHANGED vars
    PROVE  CycleInv' /\ [Cycle!Next]_<<Phase, Claimed, Launched, On>>
<1>1. UNCHANGED <<status, seqPc, caller>>
  BY DEF PollerSteps, Ping, SetPlayers, RunJob, UnitAlone, vars, manager
<1>2. UNCHANGED <<Claimed, Launched, Starters, Stopping, Phase>>
  BY <1>1 DEF Claimed, Launched, Starters, Stopping, Phase
<1>3. On' => On
  BY DEF PollerSteps, Ping, SetPlayers, RunJob, UnitAlone, vars, systemd, On,
     Calm, Undisturbed, May
<1>4. On \in BOOLEAN /\ On' \in BOOLEAN
  BY DEF On
<1>5. Cycle!Die \/ UNCHANGED <<Phase, Claimed, Launched, On>>
  BY <1>2, <1>3, <1>4, Zenon DEF Cycle!Die
<1> QED
  BY <1>1, <1>2, <1>3, <1>5 DEF Calm, CycleInv, Cycle!Next

LEMMA CycleInit == ASSUME Undisturbed, Init PROVE CycleInv /\ Cycle!Init
<1>1. Claimed = {} /\ Launched = {} /\ Starters = {} /\ Stopping = {}
  BY DEF Init, Claimed, Launched, Starters, Stopping
<1>2. /\ Phase = status /\ status \in {"stopped", "running"}
      /\ On <=> status = "running"
  BY <1>1 DEF Init, SyncedStatuses, Undisturbed, May, Phase, On
<1>3. On \in BOOLEAN
  BY DEF On
<1> QED
  BY <1>1, <1>2, <1>3 DEF CycleInv, Cycle!Init

\* Undisturbed, and with any number of clients, a server is launched once for
\* each claim, only when it is down, and is stopped only when it is down again.
THEOREM LifecycleFollowsCycle == ASSUME Undisturbed PROVE Spec => FollowsCycle
<1>1. Spec => [](ApartInv /\ ConfirmedIsDown)
  BY ConfirmedAlways DEF Undisturbed, QueriesTrue
<1>2. Spec => []HonestStopped
  BY StopsAreHonest
<1>3. ApartInv /\ ConfirmedIsDown /\ HonestStopped /\ CycleInv /\ [Next]_vars
          => CycleInv' /\ [Cycle!Next]_<<Phase, Claimed, Launched, On>>
  <2> SUFFICES ASSUME Calm, [Next]_vars
               PROVE  CycleInv' /\ [Cycle!Next]_<<Phase, Claimed, Launched, On>>
    BY DEF Calm
  <2>1. ~Restart
    BY DEF Restart, Undisturbed, May
  <2> QED
    BY <2>1, CycleStarts, CycleStops, CycleRest DEF Next
<1>4. Init => CycleInv /\ Cycle!Init
  BY CycleInit
<1> QED
  BY <1>1, <1>2, <1>3, <1>4, PTL
  DEF Spec, FollowsCycle, Cycle!Spec, Cycle!vars
=============================================================================
