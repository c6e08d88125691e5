-------------------------------- MODULE EventHub --------------------------------
(***************************************************************************)
(* The event stream: events.Hub, which publishes to every registered       *)
(* client, and the goroutines of a GET /v1/events connection, its handler  *)
(* with the write loop and its read loop.                                  *)
(*                                                                         *)
(* An event is the goroutine that publishes it and a number; the greeting  *)
(* and the pings are one message, Note, that is not followed.  Publish and *)
(* checkHeartbeats hold the read lock while they go through the clients,   *)
(* one client at a time; register and unregister wait until nobody does.   *)
(* Time is what makes a client overdue: it has not sent a pong for longer  *)
(* than staleAfter.                                                        *)
(***************************************************************************)
EXTENDS Naturals, Sequences

CONSTANTS
    Clients,     \* the connections that are made, each of them once
    Silent,      \* those whose peer may vanish without the network noticing:
                 \* it neither reads nor answers, and no call fails
    Breaking,    \* those whose connection may break
    Publishers,  \* goroutines that publish
    QueueSize,   \* sendBufferSize
    MaxEvents,   \* bound on the events of one publisher
    Hub,         \* the sender of greetings and pings
    None         \* no client

ASSUME ClientsAssumption ==
    Silent \subseteq Clients /\ Breaking \subseteq Clients /\ None \notin Clients
ASSUME PublishersAssumption == Hub \notin Publishers
ASSUME BoundsAssumption == QueueSize \in Nat \ {0} /\ MaxEvents \in Nat

VARIABLES
    clients,  \* Hub.clients
    handler,  \* where each connection's handler is
    reader,   \* where its read loop is
    closed,   \* Client.closed is closed: closeOnce has run or is running
    conn,     \* the network connection; "closed" is the end of closeOnce
    send,     \* Client.send
    writing,  \* the message in conn.Write, or Note
    overdue,  \* sinceLastPong exceeds staleAfter
    count,    \* events published so far, per publisher
    todo,     \* the clients that its Publish has still to reach
    asking,   \* the clients that checkHeartbeats has still to look at
    stale,    \* those that it is going to close
    closing,  \* the one whose close it waits for
    pending,  \* ghost: events published while the client was registered, and
              \* neither written to its peer nor dropped for a full queue; it
              \* ends with close
    last      \* ghost: the last event of each publisher that its peer got

hub == <<count, todo, asking, stale, closing>>
line == <<send, writing, pending, last>>
vars == <<clients, handler, reader, closed, conn, overdue, hub, line>>

Events == Publishers \X (1..MaxEvents)
Note == <<Hub, 0>>
Messages == Events \cup {Note}

HandlerPc == {"new", "registered", "selecting", "writing",
              "closing", "leaving", "gone"}

TypeOK ==
    /\ clients \subseteq Clients
    /\ handler \in [Clients -> HandlerPc]
    /\ reader \in [Clients -> {"none", "reading", "stopped"}]
    /\ closed \in [Clients -> BOOLEAN]
    /\ conn \in [Clients -> {"open", "broken", "closed"}]
    /\ send \in [Clients -> Seq(Messages)]
    /\ \A c \in Clients : Len(send[c]) <= QueueSize
    /\ writing \in [Clients -> Messages]
    /\ overdue \in [Clients -> BOOLEAN]
    /\ count \in [Publishers -> 0..MaxEvents]
    /\ todo \in [Publishers -> SUBSET Clients]
    /\ asking \subseteq Clients
    /\ stale \subseteq Clients
    /\ closing \in Clients \cup {None}
    /\ pending \in [Clients -> SUBSET Events]
    /\ last \in [Clients -> [Publishers \cup {Hub} -> 0..MaxEvents]]

Init ==
    /\ clients = {}
    /\ handler = [c \in Clients |-> "new"]
    /\ reader = [c \in Clients |-> "none"]
    /\ closed = [c \in Clients |-> FALSE]
    /\ conn = [c \in Clients |-> "open"]
    /\ send = [c \in Clients |-> <<>>]
    /\ writing = [c \in Clients |-> Note]
    /\ overdue = [c \in Clients |-> FALSE]
    /\ count = [p \in Publishers |-> 0]
    /\ todo = [p \in Publishers |-> {}]
    /\ asking = {}
    /\ stale = {}
    /\ closing = None
    /\ pending = [c \in Clients |-> {}]
    /\ last = [c \in Clients |-> [p \in Publishers \cup {Hub} |-> 0]]

Move(c, from, to) ==
    /\ handler[c] = from
    /\ handler' = [handler EXCEPT ![c] = to]

\* enqueue: a message for a full queue is dropped.
Enqueue(c, m) ==
    IF Len(send[c]) < QueueSize
    THEN /\ send' = [send EXCEPT ![c] = Append(@, m)]
         /\ pending' = pending
    ELSE /\ send' = send
         /\ pending' = [pending EXCEPT ![c] = @ \ {m}]

\* close: whoever comes first closes the channel and then the connection,
\* the others wait until that is done.
CallClose(c) ==
    /\ closed' = [closed EXCEPT ![c] = TRUE]
    /\ pending' = [pending EXCEPT ![c] = {}]

\* Altered: the connection is left to the write loop, as input.go does it.
FinishCloseAfterWrite(c) ==
    /\ closed[c]
    /\ conn[c] # "closed"
    /\ handler[c] # "writing"
    /\ conn' = [conn EXCEPT ![c] = "closed"]
    /\ UNCHANGED <<clients, handler, reader, closed, overdue, hub, line>>

\* conn.Close gives up its handshake after some seconds and closes the
\* connection all the same.
FinishClose(c) ==
    /\ closed[c]
    /\ conn[c] # "closed"
    /\ conn' = [conn EXCEPT ![c] = "closed"]
    /\ UNCHANGED <<clients, handler, reader, closed, overdue, hub, line>>

\* Nobody holds the read lock.
LockFree == asking = {} /\ \A p \in Publishers : todo[p] = {}

-----------------------------------------------------------------------------
(* The handler and its write loop *)

\* register, once the key is valid and the upgrade done.
Register(c) ==
    /\ LockFree
    /\ Move(c, "new", "registered")
    /\ clients' = clients \cup {c}
    /\ UNCHANGED <<reader, closed, conn, overdue, hub, line>>

\* The greeting is queued after the registration, then the loops start.
Greet(c) ==
    /\ Move(c, "registered", "selecting")
    /\ Enqueue(c, Note)
    /\ reader' = [reader EXCEPT ![c] = "reading"]
    /\ UNCHANGED <<clients, closed, conn, overdue, writing, last, hub>>

\* Altered: the message stays in the queue while it is written.
TakeWithoutRemoving(c) ==
    /\ send[c] # <<>>
    /\ Move(c, "selecting", "writing")
    /\ writing' = [writing EXCEPT ![c] = Head(send[c])]
    /\ UNCHANGED <<clients, reader, closed, conn, overdue, send, pending, last,
                   hub>>

\* A select with both channels ready takes either.
Take(c) ==
    /\ send[c] # <<>>
    /\ Move(c, "selecting", "writing")
    /\ writing' = [writing EXCEPT ![c] = Head(send[c])]
    /\ send' = [send EXCEPT ![c] = Tail(@)]
    /\ UNCHANGED <<clients, reader, closed, conn, overdue, pending, last, hub>>

SeeClosed(c) ==
    /\ closed[c]
    /\ Move(c, "selecting", "leaving")
    /\ UNCHANGED <<clients, reader, closed, conn, overdue, hub, line>>

Written(c) ==
    /\ conn[c] = "open"
    /\ Move(c, "writing", "selecting")
    /\ LET m == writing[c] IN
        /\ last' = [last EXCEPT ![c] = [@ EXCEPT ![m[1]] = m[2]]]
        /\ pending' = [pending EXCEPT ![c] = @ \ {m}]
    /\ writing' = [writing EXCEPT ![c] = Note]
    /\ UNCHANGED <<clients, reader, closed, conn, overdue, send, hub>>

\* A write that fails ends the loop.
WriteFails(c) ==
    /\ conn[c] # "open"
    /\ Move(c, "writing", "closing")
    /\ CallClose(c)
    /\ writing' = [writing EXCEPT ![c] = Note]
    /\ UNCHANGED <<clients, reader, conn, overdue, send, last, hub>>

WriterClosed(c) ==
    /\ conn[c] = "closed"
    /\ Move(c, "closing", "leaving")
    /\ UNCHANGED <<clients, reader, closed, conn, overdue, hub, line>>

\* The deferred unregister.
Unregister(c) ==
    /\ LockFree
    /\ Move(c, "leaving", "gone")
    /\ clients' = clients \ {c}
    /\ UNCHANGED <<reader, closed, conn, overdue, hub, line>>

-----------------------------------------------------------------------------
(* The read loop *)

ReadPong(c) ==
    /\ reader[c] = "reading"
    /\ conn[c] = "open"
    /\ overdue' = [overdue EXCEPT ![c] = FALSE]
    /\ UNCHANGED <<clients, handler, reader, closed, conn, hub, line>>

\* Read fails, and the deferred close is the last thing the loop does.
ReadFails(c) ==
    /\ reader[c] = "reading"
    /\ conn[c] # "open"
    /\ reader' = [reader EXCEPT ![c] = "stopped"]
    /\ CallClose(c)
    /\ UNCHANGED <<clients, handler, conn, overdue, send, writing, last, hub>>

-----------------------------------------------------------------------------
(* Publish *)

\* Publish takes the read lock; without clients it has no effect.
BeginPublish(p) ==
    /\ todo[p] = {}
    /\ count[p] < MaxEvents
    /\ count' = [count EXCEPT ![p] = @ + 1]
    /\ todo' = [todo EXCEPT ![p] = clients]
    /\ pending' = [c \in Clients |->
                      IF c \in clients /\ ~closed[c]
                      THEN pending[c] \cup {<<p, count[p] + 1>>}
                      ELSE pending[c]]
    /\ UNCHANGED <<clients, handler, reader, closed, conn, overdue, asking,
                   stale, closing, send, writing, last>>

\* Altered: the first client with a full queue ends the round.
PublishToStopsAtFull(p, c) ==
    /\ c \in todo[p]
    /\ todo' = [todo EXCEPT ![p] = IF Len(send[c]) < QueueSize THEN @ \ {c}
                                   ELSE {}]
    /\ Enqueue(c, <<p, count[p]>>)
    /\ UNCHANGED <<clients, handler, reader, closed, conn, overdue, writing,
                   last, count, asking, stale, closing>>

\* Altered: Publish waits for room in the queue.
PublishToBlocking(p, c) ==
    /\ c \in todo[p]
    /\ Len(send[c]) < QueueSize
    /\ todo' = [todo EXCEPT ![p] = @ \ {c}]
    /\ Enqueue(c, <<p, count[p]>>)
    /\ UNCHANGED <<clients, handler, reader, closed, conn, overdue, writing,
                   last, count, asking, stale, closing>>

\* The next client, in the order of Go's maps, which is any.
PublishTo(p, c) ==
    /\ c \in todo[p]
    /\ todo' = [todo EXCEPT ![p] = @ \ {c}]
    /\ Enqueue(c, <<p, count[p]>>)
    /\ UNCHANGED <<clients, handler, reader, closed, conn, overdue, writing,
                   last, count, asking, stale, closing>>

-----------------------------------------------------------------------------
(* The heartbeat *)

\* A tick, with the last round done.
BeginCheck ==
    /\ asking = {}
    /\ stale = {}
    /\ closing = None
    /\ asking' = clients
    /\ UNCHANGED <<clients, handler, reader, closed, conn, overdue, count, todo,
                   stale, closing, line>>

Ping(c) ==
    /\ c \in asking
    /\ ~overdue[c]
    /\ asking' = asking \ {c}
    /\ Enqueue(c, Note)
    /\ UNCHANGED <<clients, handler, reader, closed, conn, overdue, writing,
                   last, count, todo, stale, closing>>

FindStale(c) ==
    /\ c \in asking
    /\ overdue[c]
    /\ asking' = asking \ {c}
    /\ stale' = stale \cup {c}
    /\ UNCHANGED <<clients, handler, reader, closed, conn, overdue, count, todo,
                   closing, line>>

\* The lock is released first; the stale clients are closed one by one.
CloseStale(c) ==
    /\ asking = {}
    /\ closing = None
    /\ c \in stale
    /\ stale' = stale \ {c}
    /\ closing' = c
    /\ CallClose(c)
    /\ UNCHANGED <<clients, handler, reader, conn, overdue, send, writing, last,
                   count, todo, asking>>

StaleClosed ==
    /\ closing # None
    /\ conn[closing] = "closed"
    /\ closing' = None
    /\ UNCHANGED <<clients, handler, reader, closed, conn, overdue, count, todo,
                   asking, stale, line>>

-----------------------------------------------------------------------------
(* The peer, the network and time (external) *)

PeerGone(c) ==
    /\ c \in Breaking
    /\ handler[c] # "new"
    /\ conn[c] = "open"
    /\ conn' = [conn EXCEPT ![c] = "broken"]
    /\ UNCHANGED <<clients, handler, reader, closed, overdue, hub, line>>

BecomeOverdue(c) ==
    /\ c \in clients \cap Silent
    /\ ~overdue[c]
    /\ overdue' = [overdue EXCEPT ![c] = TRUE]
    /\ UNCHANGED <<clients, handler, reader, closed, conn, hub, line>>

-----------------------------------------------------------------------------

HandlerSteps(c) ==
    Greet(c) \/ Take(c) \/ SeeClosed(c) \/ WriteFails(c) \/ WriterClosed(c)

HeartbeatSteps ==
    \/ BeginCheck
    \/ \E c \in Clients : Ping(c) \/ FindStale(c) \/ CloseStale(c)
    \/ StaleClosed

Next ==
    \/ \E c \in Clients :
        \/ Register(c) \/ HandlerSteps(c) \/ Unregister(c) \/ Written(c)
        \/ ReadPong(c) \/ ReadFails(c) \/ FinishClose(c)
        \/ PeerGone(c) \/ BecomeOverdue(c)
    \/ \E p \in Publishers :
        BeginPublish(p) \/ \E c \in Clients : PublishTo(p, c)
    \/ HeartbeatSteps

Spec == Init /\ [][Next]_vars

\* A goroutine that can go on does, a write ends if the peer reads, and a
\* writer gets its turn at an RWMutex.  Reads fail and connections close once.
Fairness ==
    /\ \A c \in Clients :
        /\ WF_vars(HandlerSteps(c) \/ (c \notin Silent /\ Written(c)))
        /\ SF_vars(Unregister(c))
        /\ WF_vars(ReadFails(c) \/ FinishClose(c))
    /\ \A p \in Publishers : WF_vars(\E c \in Clients : PublishTo(p, c))
    /\ WF_vars(HeartbeatSteps)

FairSpec == Spec /\ Fairness

-----------------------------------------------------------------------------
(* Properties *)

\* e was published before f, as far as their publishers say.
Older(e, f) == e[1] = Hub \/ e[1] # f[1] \/ e[2] < f[2]

\* The events of one publisher reach a client in their order and never twice,
\* whatever is dropped in between and however publishers, the heartbeat and the
\* write loop meet at its queue (events.go:228).
InOrder ==
    \A c \in Clients :
        /\ \A i, j \in DOMAIN send[c] : i < j => Older(send[c][i], send[c][j])
        /\ \A i \in DOMAIN send[c] : Older(writing[c], send[c][i])
        /\ \A p \in Publishers :
            /\ Older(<<p, last[c][p]>>, writing[c])
            /\ \A i \in DOMAIN send[c] : Older(<<p, last[c][p]>>, send[c][i])

\* Publish reaches "every currently connected client" (events.go:123): an event
\* published while a client was registered is written to its peer, under way,
\* or was dropped for its own full queue, until the connection ends.  Another
\* client that is full or closing takes nothing from it.
NothingLost ==
    \A c \in Clients :
        \A e \in pending[c] :
            \/ e = writing[c]
            \/ \E i \in DOMAIN send[c] : send[c][i] = e
            \/ c \in todo[e[1]] /\ e[2] = count[e[1]]

\* "A client that can't keep up gets a dropped message, never a stalled hub"
\* (events.go:76): every Publish returns, peers that do not read, clients that
\* are being closed and a heartbeat that waits notwithstanding.
PublishReturns == \A p \in Publishers : todo[p] # {} ~> todo[p] = {}

\* A client that sends no pong, or whose connection breaks, is closed and
\* unregistered, also while a write to it does not return (events.go:136).
DeadClientsLeave ==
    \A c \in Clients :
        c \in clients /\ (overdue[c] \/ conn[c] # "open") ~>
            c \notin clients \/ ~(overdue[c] \/ conn[c] # "open")
===============================================================================
