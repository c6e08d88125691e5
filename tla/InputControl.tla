----------------------------- MODULE InputControl -----------------------------
(***************************************************************************)
(* Who controls mouse and keyboard: input.Manager and the two goroutines   *)
(* of every GET /v1/input connection, the handler with its read loop and   *)
(* the write loop.  The connection that comes last takes control and tells *)
(* the one it evicts, which then ends by itself.                           *)
(*                                                                         *)
(* What is injected is left out: an input is a step that its connection    *)
(* takes while it is reading.                                              *)
(***************************************************************************)
EXTENDS Naturals, Sequences

CONSTANTS
    Conns,      \* the connections that are made, each of them once
    Stalled,    \* those whose peer may stop reading without going away
    QueueSize,  \* sendBufferSize
    None        \* no connection

ASSUME ConnsAssumption == Stalled \subseteq Conns /\ None \notin Conns
ASSUME QueueAssumption == QueueSize \in Nat \ {0}

VARIABLES
    current,    \* Manager.current
    handler,    \* where each connection's handler is
    evicted,    \* the controller it took over from
    send,       \* each controller's queue of outbound messages
    closed,     \* whether the controller's closed channel is closed
    writer,     \* where its write loop is
    conn,       \* the network connection
    delivered,  \* what the peer was told about control
    dropped     \* controllers whose control_taken found the queue full

wire == <<send, conn, delivered, dropped>>
vars == <<current, handler, evicted, send, closed, writer, conn, delivered,
          dropped>>

Messages == {"control_granted", "control_taken", "error"}
HandlerPc == {"new", "taking", "told", "spawned", "granting", "reading",
              "leaving", "gone"}

TypeOK ==
    /\ current \in Conns \cup {None}
    /\ handler \in [Conns -> HandlerPc]
    /\ evicted \in [Conns -> Conns \cup {None}]
    /\ send \in [Conns -> Seq(Messages)]
    /\ \A c \in Conns : Len(send[c]) <= QueueSize
    /\ closed \in [Conns -> BOOLEAN]
    /\ writer \in [Conns -> {"none", "running", "draining", "stopped"}]
    /\ conn \in [Conns -> {"open", "broken", "closed"}]
    /\ delivered \in [Conns -> Seq(Messages)]
    /\ dropped \subseteq Conns

Init ==
    /\ current = None
    /\ handler = [c \in Conns |-> "new"]
    /\ evicted = [c \in Conns |-> None]
    /\ send = [c \in Conns |-> <<>>]
    /\ closed = [c \in Conns |-> FALSE]
    /\ writer = [c \in Conns |-> "none"]
    /\ conn = [c \in Conns |-> "open"]
    /\ delivered = [c \in Conns |-> <<>>]
    /\ dropped = {}

Move(c, from, to) ==
    /\ handler[c] = from
    /\ handler' = [handler EXCEPT ![c] = to]

\* enqueue: a message for a full queue is dropped.
Enqueue(c, msg) ==
    send' = IF Len(send[c]) < QueueSize
            THEN [send EXCEPT ![c] = Append(@, msg)] ELSE send

-----------------------------------------------------------------------------
(* The handler *)

\* takeControl, once the key is valid and the upgrade done.
TakeControl(c) ==
    /\ Move(c, "new", "taking")
    /\ evicted' = [evicted EXCEPT ![c] = current]
    /\ current' = c
    /\ UNCHANGED <<closed, writer, wire>>

\* Altered: the message waits for room in the queue.
TellEvictedBlocking(c) ==
    /\ Move(c, "taking", "told")
    /\ LET e == evicted[c] IN
       IF e = None THEN UNCHANGED send
       ELSE Len(send[e]) < QueueSize /\ Enqueue(e, "control_taken")
    /\ UNCHANGED <<current, evicted, closed, writer, conn, delivered, dropped>>

\* Altered: not the one that takeControl returned is told, but whoever has
\* control by now.
TellCurrent(c) ==
    /\ Move(c, "taking", "told")
    /\ IF None \in {evicted[c], current} THEN UNCHANGED <<send, dropped>>
       ELSE /\ Enqueue(current, "control_taken")
            /\ dropped' = IF Len(send[current]) < QueueSize THEN dropped
                          ELSE dropped \cup {current}
    /\ UNCHANGED <<current, evicted, closed, writer, conn, delivered>>

\* The evicted controller is sent control_taken.
TellEvicted(c) ==
    /\ Move(c, "taking", "told")
    /\ LET e == evicted[c] IN
       IF e = None THEN UNCHANGED <<send, dropped>>
       ELSE /\ Enqueue(e, "control_taken")
            /\ dropped' = IF Len(send[e]) < QueueSize THEN dropped
                          ELSE dropped \cup {e}
    /\ UNCHANGED <<current, evicted, closed, writer, conn, delivered>>

SpawnWriter(c) ==
    /\ Move(c, "told", "spawned")
    /\ writer' = [writer EXCEPT ![c] = "running"]
    /\ UNCHANGED <<current, evicted, closed, wire>>

\* Altered: the new connection's own channel is closed.
CloseSelf(c) ==
    /\ Move(c, "spawned", "granting")
    /\ closed' = [closed EXCEPT ![c] = evicted[c] # None]
    /\ UNCHANGED <<current, evicted, writer, wire>>

CloseEvicted(c) ==
    /\ Move(c, "spawned", "granting")
    /\ closed' = [d \in Conns |-> closed[d] \/ d = evicted[c]]
    /\ UNCHANGED <<current, evicted, writer, wire>>

Grant(c) ==
    /\ Move(c, "granting", "reading")
    /\ Enqueue(c, "control_granted")
    /\ UNCHANGED <<current, evicted, closed, writer, conn, delivered, dropped>>

\* One turn of readLoop.  Whether c still has control is not looked at; an
\* input that is malformed or cannot be injected is answered with an error,
\* any other changes nothing here.  Nothing bounds how many there are, nor how
\* fast they come.
ReadBadInput(c) ==
    /\ handler[c] = "reading"
    /\ conn[c] = "open"
    /\ Enqueue(c, "error")
    /\ UNCHANGED <<current, handler, evicted, closed, writer, conn, delivered,
                   dropped>>

\* Read fails: readLoop closes the controller on its way out.
ReadEnds(c) ==
    /\ conn[c] # "open"
    /\ Move(c, "reading", "leaving")
    /\ closed' = [closed EXCEPT ![c] = TRUE]
    /\ UNCHANGED <<current, evicted, writer, wire>>

\* Altered: control is released whoever has it.
ReleaseAny(c) ==
    /\ Move(c, "leaving", "gone")
    /\ current' = None
    /\ UNCHANGED <<evicted, closed, writer, wire>>

\* The deferred releaseIfCurrent.
Release(c) ==
    /\ Move(c, "leaving", "gone")
    /\ current' = IF current = c THEN None ELSE current
    /\ UNCHANGED <<evicted, closed, writer, wire>>

-----------------------------------------------------------------------------
(* The write loop.  A select with both channels ready takes either. *)

\* What reaches the peer: errors are not followed further.
Deliver(c) ==
    delivered' = IF conn[c] = "open" /\ Head(send[c]) # "error"
                 THEN [delivered EXCEPT ![c] = Append(@, Head(send[c]))]
                 ELSE delivered

\* A write that fails ends the loop and leaves the connection to its reader.
Write(c) ==
    /\ writer[c] = "running"
    /\ send[c] # <<>>
    /\ send' = [send EXCEPT ![c] = Tail(@)]
    /\ Deliver(c)
    /\ IF conn[c] = "open" THEN UNCHANGED <<closed, writer>>
       ELSE /\ closed' = [closed EXCEPT ![c] = TRUE]
            /\ writer' = [writer EXCEPT ![c] = "stopped"]
    /\ UNCHANGED <<current, handler, evicted, conn, dropped>>

SeeClosed(c) ==
    /\ writer[c] = "running"
    /\ closed[c]
    /\ writer' = [writer EXCEPT ![c] = "draining"]
    /\ UNCHANGED <<current, handler, evicted, closed, wire>>

\* drainPending: errors of its writes are ignored.  It takes what readLoop
\* still queues behind it, too.
Drain(c) ==
    /\ writer[c] = "draining"
    /\ send[c] # <<>>
    /\ send' = [send EXCEPT ![c] = Tail(@)]
    /\ Deliver(c)
    /\ UNCHANGED <<current, handler, evicted, closed, writer, conn, dropped>>

\* Altered: what is still queued is not written.
CloseConnAtOnce(c) ==
    /\ writer[c] = "draining"
    /\ writer' = [writer EXCEPT ![c] = "stopped"]
    /\ conn' = [conn EXCEPT ![c] = IF @ = "open" THEN "closed" ELSE @]
    /\ UNCHANGED <<current, handler, evicted, send, closed, delivered,
                   dropped>>

\* The queue is empty: conn.Close, up to the end of the closing handshake.
CloseConn(c) ==
    /\ writer[c] = "draining"
    /\ send[c] = <<>>
    /\ writer' = [writer EXCEPT ![c] = "stopped"]
    /\ conn' = [conn EXCEPT ![c] = IF @ = "open" THEN "closed" ELSE @]
    /\ UNCHANGED <<current, handler, evicted, send, closed, delivered,
                   dropped>>

-----------------------------------------------------------------------------

\* The peer goes away or the network fails (external).
PeerGone(c) ==
    /\ handler[c] # "new"
    /\ conn[c] = "open"
    /\ conn' = [conn EXCEPT ![c] = "broken"]
    /\ UNCHANGED <<current, handler, evicted, send, closed, writer, delivered,
                   dropped>>

HandlerSteps(c) ==
    TellEvicted(c) \/ SpawnWriter(c) \/ CloseEvicted(c) \/ Grant(c)
    \/ ReadEnds(c) \/ Release(c)

WriterSteps(c) == Write(c) \/ SeeClosed(c) \/ Drain(c) \/ CloseConn(c)

Next ==
    \E c \in Conns :
        \/ TakeControl(c) \/ HandlerSteps(c) \/ ReadBadInput(c)
        \/ WriterSteps(c)
        \/ PeerGone(c)

Spec == Init /\ [][Next]_vars

\* A handler never waits for another, and a write loop waits only for its
\* peer.  Go's select gives a closed channel its turn.
Fairness ==
    /\ \A c \in Conns : WF_vars(HandlerSteps(c))
    /\ \A c \in Conns \ Stalled :
        /\ WF_vars(WriterSteps(c))
        /\ SF_vars(SeeClosed(c))

FairSpec == Spec /\ Fairness

-----------------------------------------------------------------------------
(* Properties *)

Has(seq, msg) == \E i \in DOMAIN seq : seq[i] = msg

\* The handler of another connection has taken control from c and has still
\* to close it.
BeingEvicted(c) ==
    \E d \in Conns :
        evicted[d] = c /\ handler[d] \in {"taking", "told", "spawned"}

\* One owner at a time: every other connection that may still read inputs has
\* been told to end or is about to be, through any takeovers and breaks.
OneOwner ==
    \A c \in Conns :
        handler[c] \notin {"new", "leaving", "gone"} /\ ~closed[c] =>
            current = c \/ BeingEvicted(c)

\* Control is never held by a connection that has ended.
OwnerPresent == current # None => handler[current] \notin {"new", "gone"}

\* The close signal never overtakes the notification: a connection that the
\* server closes was told that control was taken, unless its own queue was
\* full at that time (input.go:98).
ClosedWasTold ==
    \A c \in Conns :
        conn[c] = "closed" => c \in dropped \/ Has(delivered[c], "control_taken")

\* The notification is sent after the lock is released and may wait in a
\* queue: it never reaches whoever has control now.
TakenIsTrue ==
    \A c \in Conns :
        Has(send[c], "control_taken") \/ Has(delivered[c], "control_taken")
            => current # c

\* An evicted connection whose peer reads what it is sent stops injecting,
\* unless that peer sends bad inputs for ever: the drain that comes before the
\* close ends only on an empty queue, and each of them puts an error there.
KeepsErring(c) == []<><<ReadBadInput(c)>>_vars

EvictedStops ==
    \A c \in Conns \ Stalled :
        \/ KeepsErring(c)
        \/ handler[c] = "reading" /\ current # c ~> handler[c] # "reading"

\* A peer that does not read what it is sent delays nobody else: whoever
\* takes control is told so, unless it is evicted or cut off meanwhile.
OwnerIsTold ==
    \A c \in Conns \ Stalled :
        handler[c] = "taking" ~>
            \/ current # c
            \/ conn[c] # "open"
            \/ Has(delivered[c], "control_granted")
=============================================================================
