-------------------------- MODULE InputControlProofs --------------------------
(***************************************************************************)
(* Proofs about InputControl, for any number of connections and any queue  *)
(* size: the types, that control has one owner and is handed over to one   *)
(* successor, that who is closed was told why, once, that who was told has *)
(* lost control, and that the loops of a connection end together.          *)
(***************************************************************************)
EXTENDS InputControl, TLAPS, SequenceTheorems

OwnInv == TypeOK /\ OneOwner /\ OwnerPresent

-----------------------------------------------------------------------------

\* A queue stays within its limit whatever is enqueued.
LEMMA EnqueueBounded ==
    ASSUME TypeOK, NEW c \in Conns, NEW msg \in Messages, Enqueue(c, msg)
    PROVE  /\ send' \in [Conns -> Seq(Messages)]
           /\ \A d \in Conns : Len(send'[d]) <= QueueSize
<1> USE QueueAssumption
<1>1. send \in [Conns -> Seq(Messages)] /\ Len(send[c]) \in Nat
      /\ \A d \in Conns : Len(send[d]) <= QueueSize
  <2>1. send \in [Conns -> Seq(Messages)]
    BY DEF TypeOK
  <2> QED
    BY <2>1, LenProperties DEF TypeOK
<1>2. CASE Len(send[c]) < QueueSize
  <2>1. send' = [send EXCEPT ![c] = Append(@, msg)]
    BY <1>2 DEF Enqueue
  <2>2. Append(send[c], msg) \in Seq(Messages)
        /\ Len(Append(send[c], msg)) = Len(send[c]) + 1
    BY <1>1, AppendProperties
  <2> QED
    BY <1>1, <1>2, <2>1, <2>2
<1>3. CASE ~ (Len(send[c]) < QueueSize)
  BY <1>1, <1>3 DEF Enqueue
<1> QED
  BY <1>2, <1>3

\* Taking a message off a queue keeps it a queue; what is delivered is one.
LEMMA DequeueBounded ==
    ASSUME TypeOK, NEW c \in Conns, send[c] # <<>>,
           send' = [send EXCEPT ![c] = Tail(@)], Deliver(c)
    PROVE  /\ send' \in [Conns -> Seq(Messages)]
           /\ \A d \in Conns : Len(send'[d]) <= QueueSize
           /\ delivered' \in [Conns -> Seq(Messages)]
<1>1. send \in [Conns -> Seq(Messages)] /\ delivered \in [Conns -> Seq(Messages)]
      /\ \A d \in Conns : Len(send[d]) <= QueueSize
  BY DEF TypeOK
<1>2. /\ Tail(send[c]) \in Seq(Messages) /\ Head(send[c]) \in Messages
      /\ Len(Tail(send[c])) = Len(send[c]) - 1 /\ Len(send[c]) \in Nat
  BY <1>1, HeadTailProperties, LenProperties
<1>3. send' \in [Conns -> Seq(Messages)]
  BY <1>1, <1>2
<1>4. \A d \in Conns : Len(send'[d]) <= QueueSize
  <2>1. Len(send'[c]) <= QueueSize
    BY <1>1, <1>2, QueueAssumption
  <2> QED
    BY <1>1, <2>1
<1>5. Append(delivered[c], Head(send[c])) \in Seq(Messages)
  BY <1>1, <1>2, AppendProperties
<1>6. delivered' \in [Conns -> Seq(Messages)]
  BY <1>1, <1>5 DEF Deliver
<1> QED
  BY <1>3, <1>4, <1>6

LEMMA OwnInit == Init => OwnInv
<1> SUFFICES ASSUME Init PROVE OwnInv
  OBVIOUS
<1> USE ConnsAssumption, QueueAssumption DEF Init
<1>1. <<>> \in Seq(Messages) /\ Len(<<>>) = 0
  OBVIOUS
<1>2. TypeOK
  BY <1>1 DEF TypeOK, HandlerPc
<1>3. OneOwner /\ OwnerPresent
  BY DEF OneOwner, OwnerPresent
<1> QED
  BY <1>2, <1>3 DEF OwnInv

LEMMA TypeNext == ASSUME TypeOK, Next PROVE TypeOK'
<1> USE DEF wire, Move, HandlerPc
<1>1. PICK c \in Conns :
        \/ TakeControl(c) \/ HandlerSteps(c) \/ ReadBadInput(c)
        \/ WriterSteps(c) \/ PeerGone(c)
  BY DEF Next
<1>2. CASE TakeControl(c)
  BY <1>2 DEF TakeControl, TypeOK
<1>3. CASE TellEvicted(c)
  <2>1. CASE evicted[c] = None
    BY <1>3, <2>1 DEF TellEvicted, TypeOK
  <2>2. CASE evicted[c] # None
    <3>1. evicted[c] \in Conns
      BY <2>2 DEF TypeOK
    <3>2. /\ send' \in [Conns -> Seq(Messages)]
          /\ \A d \in Conns : Len(send'[d]) <= QueueSize
      BY <1>3, <2>2, <3>1, EnqueueBounded DEF TellEvicted, Messages
    <3>3. dropped' \subseteq Conns
      BY <1>3, <2>2, <3>1 DEF TellEvicted, TypeOK
    <3> QED
      BY <1>3, <3>2, <3>3 DEF TellEvicted, TypeOK
  <2> QED
    BY <2>1, <2>2
<1>4. CASE SpawnWriter(c)
  BY <1>4 DEF SpawnWriter, TypeOK
<1>5. CASE CloseEvicted(c)
  BY <1>5 DEF CloseEvicted, TypeOK
<1>6. CASE Grant(c)
  <2>1. /\ send' \in [Conns -> Seq(Messages)]
        /\ \A d \in Conns : Len(send'[d]) <= QueueSize
    BY <1>6, EnqueueBounded DEF Grant, Messages
  <2> QED
    BY <1>6, <2>1 DEF Grant, TypeOK
<1>7. CASE ReadEnds(c) \/ Release(c)
  BY <1>7 DEF ReadEnds, Release, TypeOK
<1>8. CASE ReadBadInput(c)
  <2>1. /\ send' \in [Conns -> Seq(Messages)]
        /\ \A d \in Conns : Len(send'[d]) <= QueueSize
    BY <1>8, EnqueueBounded DEF ReadBadInput, Messages
  <2> QED
    BY <1>8, <2>1 DEF ReadBadInput, TypeOK
<1>9. CASE Write(c)
  <2>1. /\ send' \in [Conns -> Seq(Messages)]
        /\ \A d \in Conns : Len(send'[d]) <= QueueSize
        /\ delivered' \in [Conns -> Seq(Messages)]
    BY <1>9, DequeueBounded DEF Write
  <2> QED
    BY <1>9, <2>1 DEF Write, TypeOK
<1>10. CASE SeeClosed(c)
  BY <1>10 DEF SeeClosed, TypeOK
<1>11. CASE Drain(c)
  <2>1. /\ send' \in [Conns -> Seq(Messages)]
        /\ \A d \in Conns : Len(send'[d]) <= QueueSize
        /\ delivered' \in [Conns -> Seq(Messages)]
    BY <1>11, DequeueBounded DEF Drain
  <2> QED
    BY <1>11, <2>1 DEF Drain, TypeOK
<1>12. CASE CloseConn(c)
  BY <1>12 DEF CloseConn, TypeOK
<1>13. CASE PeerGone(c)
  BY <1>13 DEF PeerGone, TypeOK
<1> QED
  BY <1>1, <1>2, <1>3, <1>4, <1>5, <1>6, <1>7, <1>8, <1>9, <1>10, <1>11,
     <1>12, <1>13
  DEF HandlerSteps, WriterSteps

\* A step that moves no handler past a point where ownership matters, and
\* closes controllers but opens none, keeps the owner.
LEMMA OwnerKept ==
    ASSUME OwnInv, UNCHANGED <<current, evicted, handler>>,
           \A c \in Conns : closed[c] => closed'[c]
    PROVE  OneOwner' /\ OwnerPresent'
BY DEF OwnInv, OneOwner, OwnerPresent, BeingEvicted

LEMMA OwnerNext == ASSUME OwnInv, Next PROVE OneOwner' /\ OwnerPresent'
<1> USE DEF wire, Move
<1>0. /\ current \in Conns \cup {None} /\ None \notin Conns
      /\ handler \in [Conns -> HandlerPc]
      /\ evicted \in [Conns -> Conns \cup {None}]
      /\ closed \in [Conns -> BOOLEAN]
  BY ConnsAssumption DEF OwnInv, TypeOK
<1>1. PICK c \in Conns :
        \/ TakeControl(c) \/ HandlerSteps(c) \/ ReadBadInput(c)
        \/ WriterSteps(c) \/ PeerGone(c)
  BY DEF Next
<1>2. CASE TakeControl(c)
  <2>1. /\ current' = c /\ handler[c] = "new" /\ handler'[c] = "taking"
        /\ evicted'[c] = current /\ closed' = closed
        /\ \A d \in Conns \ {c} : handler'[d] = handler[d]
                                  /\ evicted'[d] = evicted[d]
    BY <1>0, <1>2 DEF TakeControl
  <2>2. ASSUME NEW d \in Conns, d # c, ~closed[d],
               handler[d] \notin {"new", "leaving", "gone"}
        PROVE  BeingEvicted(d)'
    <3>1. CASE current = d
      BY <2>1, <3>1 DEF BeingEvicted
    <3>2. CASE BeingEvicted(d)
      <4>1. PICK e \in Conns : evicted[e] = d
                               /\ handler[e] \in {"taking", "told", "spawned"}
        BY <3>2 DEF BeingEvicted
      <4>2. e # c
        BY <2>1, <4>1
      <4> QED
        BY <2>1, <4>1, <4>2 DEF BeingEvicted
    <3> QED
      BY <2>2, <3>1, <3>2 DEF OwnInv, OneOwner
  <2>3. OneOwner'
    BY <2>1, <2>2 DEF OneOwner
  <2> QED
    BY <2>1, <2>3 DEF OwnerPresent
<1>3. CASE TellEvicted(c) \/ SpawnWriter(c)
  <2>1. /\ UNCHANGED <<current, evicted, closed>>
        /\ handler[c] \in {"taking", "told"}
        /\ handler'[c] \in {"told", "spawned"}
        /\ \A d \in Conns \ {c} : handler'[d] = handler[d]
    BY <1>0, <1>3 DEF TellEvicted, SpawnWriter
  <2>2. \A d \in Conns : BeingEvicted(d) => BeingEvicted(d)'
    BY <2>1 DEF BeingEvicted
  <2> QED
    BY <1>0, <2>1, <2>2 DEF OwnInv, OneOwner, OwnerPresent
<1>4. CASE CloseEvicted(c)
  <2>1. /\ UNCHANGED <<current, evicted>>
        /\ handler[c] = "spawned" /\ handler'[c] = "granting"
        /\ \A d \in Conns \ {c} : handler'[d] = handler[d]
        /\ \A d \in Conns : closed'[d] = (closed[d] \/ d = evicted[c])
    BY <1>0, <1>4 DEF CloseEvicted
  <2>2. \A d \in Conns : BeingEvicted(d) => BeingEvicted(d)' \/ closed'[d]
    BY <2>1 DEF BeingEvicted
  <2> QED
    BY <1>0, <2>1, <2>2 DEF OwnInv, OneOwner, OwnerPresent
<1>5. CASE Grant(c)
  <2>1. /\ UNCHANGED <<current, evicted, closed>>
        /\ handler[c] = "granting" /\ handler'[c] = "reading"
        /\ \A d \in Conns \ {c} : handler'[d] = handler[d]
    BY <1>0, <1>5 DEF Grant
  <2>2. \A d \in Conns : BeingEvicted(d) => BeingEvicted(d)'
    BY <2>1 DEF BeingEvicted
  <2> QED
    BY <1>0, <2>1, <2>2 DEF OwnInv, OneOwner, OwnerPresent
<1>6. CASE ReadEnds(c)
  <2>1. /\ UNCHANGED <<current, evicted>>
        /\ handler[c] = "reading" /\ handler'[c] = "leaving"
        /\ \A d \in Conns \ {c} : handler'[d] = handler[d]
                                  /\ closed'[d] = closed[d]
    BY <1>0, <1>6 DEF ReadEnds
  <2>2. \A d \in Conns : BeingEvicted(d) => BeingEvicted(d)'
    BY <2>1 DEF BeingEvicted
  <2> QED
    BY <1>0, <2>1, <2>2 DEF OwnInv, OneOwner, OwnerPresent
<1>7. CASE Release(c)
  <2>1. /\ UNCHANGED <<evicted, closed>>
        /\ current' = IF current = c THEN None ELSE current
        /\ handler[c] = "leaving" /\ handler'[c] = "gone"
        /\ \A d \in Conns \ {c} : handler'[d] = handler[d]
    BY <1>0, <1>7 DEF Release
  <2>2. \A d \in Conns : BeingEvicted(d) => BeingEvicted(d)'
    BY <2>1 DEF BeingEvicted
  <2> QED
    BY <1>0, <2>1, <2>2 DEF OwnInv, OneOwner, OwnerPresent
<1>8. CASE ReadBadInput(c)
  BY <1>8, OwnerKept DEF ReadBadInput
<1>9. CASE WriterSteps(c)
  <2>1. /\ UNCHANGED <<current, evicted, handler>>
        /\ \A d \in Conns : closed[d] => closed'[d]
    BY <1>0, <1>9 DEF WriterSteps, Write, SeeClosed, Drain, CloseConn
  <2> QED
    BY <2>1, OwnerKept
<1>10. CASE PeerGone(c)
  BY <1>10, OwnerKept DEF PeerGone
<1> QED
  BY <1>1, <1>2, <1>3, <1>4, <1>5, <1>6, <1>7, <1>8, <1>9, <1>10
  DEF HandlerSteps

LEMMA OwnStutter == ASSUME OwnInv, UNCHANGED vars PROVE OwnInv'
<1>1. TypeOK'
  BY DEF OwnInv, TypeOK, vars
<1> QED
  BY <1>1, OwnerKept DEF OwnInv, vars

-----------------------------------------------------------------------------

\* The Manager, both goroutines of every connection and the queues keep their
\* types; no queue grows beyond its size.
THEOREM InputTypeCorrect == Spec => []TypeOK
<1>1. Init => TypeOK
  BY OwnInit DEF OwnInv
<1>2. TypeOK /\ [Next]_vars => TypeOK'
  <2>1. ASSUME TypeOK, UNCHANGED vars PROVE TypeOK'
    BY <2>1 DEF TypeOK, vars
  <2> QED
    BY TypeNext, <2>1
<1> QED
  BY <1>1, <1>2, PTL DEF Spec

\* Control has one owner, which is there; everybody else was told to end.
THEOREM ControlHasOneOwner == Spec => [](OneOwner /\ OwnerPresent)
<1>1. OwnInv /\ [Next]_vars => OwnInv'
  BY TypeNext, OwnerNext, OwnStutter DEF OwnInv
<1>2. OwnInv => OneOwner /\ OwnerPresent
  BY DEF OwnInv
<1> QED
  BY OwnInit, <1>1, <1>2, PTL DEF Spec

-----------------------------------------------------------------------------
(* Nobody is closed without a word *)

\* c found its queue full, or control_taken is on its way or has arrived.
Told(c) ==
    c \in dropped \/ Has(send[c], "control_taken") \/ Has(delivered[c], "control_taken")

\* The handler of another connection has told c already.
Addressed(c) ==
    \E d \in Conns : evicted[d] = c /\ handler[d] \in {"told", "spawned"}

\* While the connection is up, its channel is closed only after the message
\* was queued; the write loop closes the connection only after the channel.
ToldInv ==
    \A c \in Conns :
        /\ conn[c] = "open" /\ (closed[c] \/ Addressed(c)) => Told(c)
        /\ writer[c] = "draining" => closed[c]
        /\ conn[c] = "closed" => c \in dropped \/ Has(delivered[c], "control_taken")

LEMMA HasAppend ==
    ASSUME NEW seq \in Seq(Messages), NEW msg \in Messages, NEW other \in Messages
    PROVE  /\ Has(seq, other) => Has(Append(seq, msg), other)
           /\ Has(Append(seq, msg), msg)
<1>1. /\ Len(seq) \in Nat /\ DOMAIN seq = 1..Len(seq)
      /\ DOMAIN Append(seq, msg) = 1..(Len(seq) + 1)
      /\ Append(seq, msg)[Len(seq) + 1] = msg
      /\ \A i \in 1..Len(seq) : Append(seq, msg)[i] = seq[i]
  BY AppendProperties, LenProperties
<1>2. Has(Append(seq, msg), msg)
  BY <1>1 DEF Has
<1>3. Has(seq, other) => Has(Append(seq, msg), other)
  BY <1>1 DEF Has
<1> QED
  BY <1>2, <1>3

LEMMA HasTail ==
    ASSUME NEW seq \in Seq(Messages), seq # <<>>, NEW msg \in Messages, Has(seq, msg)
    PROVE  Head(seq) = msg \/ Has(Tail(seq), msg)
<1>1. /\ Len(seq) \in Nat \ {0} /\ DOMAIN seq = 1..Len(seq) /\ Head(seq) = seq[1]
      /\ DOMAIN Tail(seq) = 1..(Len(seq) - 1)
      /\ \A i \in 1..(Len(seq) - 1) : Tail(seq)[i] = seq[i + 1]
  BY HeadTailProperties, LenProperties, EmptySeq
<1>2. PICK i \in 1..Len(seq) : seq[i] = msg
  BY <1>1 DEF Has
<1>3. CASE i = 1
  BY <1>1, <1>2, <1>3
<1>4. CASE i # 1
  <2>1. i - 1 \in 1..(Len(seq) - 1) /\ Tail(seq)[i - 1] = msg
    BY <1>1, <1>2, <1>4
  <2> QED
    BY <1>1, <2>1 DEF Has
<1> QED
  BY <1>3, <1>4

\* Nothing is taken from what a connection was told.
LEMMA EnqueueKeepsTold ==
    ASSUME TypeOK, NEW c \in Conns, NEW msg \in Messages, Enqueue(c, msg),
           delivered' = delivered, dropped \subseteq dropped', NEW d \in Conns
    PROVE  Told(d) => Told(d)'
<1>1. send[d] \in Seq(Messages) /\ send[c] \in Seq(Messages) /\ "control_taken" \in Messages
      /\ send \in [Conns -> Seq(Messages)]
  BY DEF TypeOK, Messages
<1>2. Has(send[d], "control_taken") => Has(send'[d], "control_taken")
  BY <1>1, HasAppend DEF Enqueue
<1> QED
  BY <1>2 DEF Told

\* A message that is taken off the queue of an open connection arrives.
LEMMA DequeueKeepsTold ==
    ASSUME TypeOK, NEW c \in Conns, send[c] # <<>>,
           send' = [send EXCEPT ![c] = Tail(@)], Deliver(c), dropped' = dropped,
           NEW d \in Conns
    PROVE  /\ conn[d] = "open" /\ Told(d) => Told(d)'
           /\ Has(delivered[d], "control_taken") => Has(delivered'[d], "control_taken")
<1>1. /\ send \in [Conns -> Seq(Messages)] /\ delivered \in [Conns -> Seq(Messages)]
      /\ "control_taken" \in Messages /\ "control_taken" # "error"
      /\ Head(send[c]) \in Messages
  BY HeadTailProperties DEF TypeOK, Messages
<1>2. Has(delivered[d], "control_taken") => Has(delivered'[d], "control_taken")
  BY <1>1, HasAppend DEF Deliver
<1>3. CASE d = c
  <2>1. ASSUME conn[c] = "open", Has(send[c], "control_taken")
        PROVE  Has(send'[c], "control_taken") \/ Has(delivered'[c], "control_taken")
    <3>1. CASE Head(send[c]) = "control_taken"
      <4>1. delivered'[c] = Append(delivered[c], "control_taken")
        BY <1>1, <2>1, <3>1 DEF Deliver
      <4> QED
        BY <1>1, <4>1, HasAppend
    <3>2. CASE Has(Tail(send[c]), "control_taken")
      BY <1>1, <3>2
    <3> QED
      BY <1>1, <2>1, <3>1, <3>2, HasTail
  <2> QED
    BY <1>2, <1>3, <2>1 DEF Told
<1>4. CASE d # c
  BY <1>1, <1>2, <1>4 DEF Told
<1> QED
  BY <1>2, <1>3, <1>4

LEMMA ToldNext == ASSUME TypeOK, ToldInv, [Next]_vars PROVE ToldInv'
<1> USE DEF wire, Move
<1>0. /\ None \notin Conns
      /\ handler \in [Conns -> HandlerPc]
      /\ evicted \in [Conns -> Conns \cup {None}]
      /\ closed \in [Conns -> BOOLEAN]
      /\ writer \in [Conns -> {"none", "running", "draining", "stopped"}]
      /\ conn \in [Conns -> {"open", "broken", "closed"}]
      /\ send \in [Conns -> Seq(Messages)]
  BY ConnsAssumption DEF TypeOK
<1>1. ASSUME NEW c \in Conns, TakeControl(c) PROVE ToldInv'
  <2>1. /\ UNCHANGED <<closed, writer, send, conn, delivered, dropped>>
        /\ handler[c] = "new" /\ handler'[c] = "taking"
        /\ \A d \in Conns \ {c} : handler'[d] = handler[d] /\ evicted'[d] = evicted[d]
    BY <1>0, <1>1 DEF TakeControl
  <2>2. \A d \in Conns : Addressed(d)' => Addressed(d)
    BY <2>1 DEF Addressed
  <2> QED
    BY <2>1, <2>2 DEF ToldInv, Told
<1>2. ASSUME NEW c \in Conns, TellEvicted(c) PROVE ToldInv'
  <2>1. /\ UNCHANGED <<evicted, closed, writer, conn, delivered>>
        /\ handler'[c] = "told" /\ dropped \subseteq dropped'
        /\ \A d \in Conns \ {c} : handler'[d] = handler[d]
    BY <1>0, <1>2 DEF TellEvicted
  <2>2. \A d \in Conns : Told(d) => Told(d)'
    <3>1. CASE evicted[c] = None
      BY <1>2, <3>1 DEF TellEvicted, Told
    <3>2. CASE evicted[c] # None
      BY <1>0, <1>2, <2>1, <3>2, EnqueueKeepsTold DEF TellEvicted, Messages
    <3> QED
      BY <3>1, <3>2
  <2>3. ASSUME NEW d \in Conns, evicted[c] = d PROVE Told(d)'
    <3>1. CASE Len(send[d]) < QueueSize
      <4>1. send'[d] = Append(send[d], "control_taken")
        BY <1>0, <1>2, <2>3, <3>1 DEF TellEvicted, Enqueue
      <4> QED
        BY <1>0, <4>1, HasAppend DEF Told, Messages
    <3>2. CASE ~ (Len(send[d]) < QueueSize)
      BY <1>0, <1>2, <2>3, <3>2 DEF TellEvicted, Told
    <3> QED
      BY <3>1, <3>2
  <2>4. \A d \in Conns : Addressed(d)' => Addressed(d) \/ evicted[c] = d
    BY <2>1 DEF Addressed
  <2> QED
    BY <2>1, <2>2, <2>3, <2>4 DEF ToldInv
<1>3. ASSUME NEW c \in Conns, SpawnWriter(c) PROVE ToldInv'
  <2>1. /\ UNCHANGED <<evicted, closed, send, conn, delivered, dropped>>
        /\ handler[c] = "told"
        /\ \A d \in Conns \ {c} : handler'[d] = handler[d] /\ writer'[d] = writer[d]
        /\ writer'[c] = "running"
    BY <1>0, <1>3 DEF SpawnWriter
  <2>2. \A d \in Conns : Addressed(d)' => Addressed(d)
    BY <2>1 DEF Addressed
  <2> QED
    BY <2>1, <2>2 DEF ToldInv, Told
<1>4. ASSUME NEW c \in Conns, CloseEvicted(c) PROVE ToldInv'
  <2>1. /\ UNCHANGED <<evicted, writer, send, conn, delivered, dropped>>
        /\ handler[c] = "spawned" /\ handler'[c] = "granting"
        /\ \A d \in Conns \ {c} : handler'[d] = handler[d]
        /\ \A d \in Conns : closed'[d] = (closed[d] \/ d = evicted[c])
    BY <1>0, <1>4 DEF CloseEvicted
  <2>2. \A d \in Conns : (closed'[d] => closed[d] \/ Addressed(d))
                         /\ (Addressed(d)' => Addressed(d))
    BY <2>1 DEF Addressed
  <2> QED
    BY <2>1, <2>2 DEF ToldInv, Told
<1>5. ASSUME NEW c \in Conns, Grant(c) \/ ReadBadInput(c) PROVE ToldInv'
  <2>1. /\ UNCHANGED <<evicted, closed, writer, conn, delivered, dropped>>
        /\ \A d \in Conns : handler'[d] \in {"told", "spawned"} => handler'[d] = handler[d]
    BY <1>0, <1>5 DEF Grant, ReadBadInput
  <2>2. \A d \in Conns : Addressed(d)' => Addressed(d)
    BY <2>1 DEF Addressed
  <2>3. \A d \in Conns : Told(d) => Told(d)'
    BY <1>5, <2>1, EnqueueKeepsTold DEF Grant, ReadBadInput, Messages
  <2> QED
    BY <2>1, <2>2, <2>3 DEF ToldInv
<1>6. ASSUME NEW c \in Conns, ReadEnds(c) \/ Release(c) PROVE ToldInv'
  <2>1. /\ UNCHANGED <<evicted, writer, send, conn, delivered, dropped>>
        /\ \A d \in Conns : handler'[d] \in {"told", "spawned"} => handler'[d] = handler[d]
        /\ \A d \in Conns : closed'[d] => closed[d] \/ conn[d] # "open"
        /\ \A d \in Conns : closed[d] => closed'[d]
    BY <1>0, <1>6 DEF ReadEnds, Release
  <2>2. \A d \in Conns : Addressed(d)' => Addressed(d)
    BY <2>1 DEF Addressed
  <2> QED
    BY <2>1, <2>2 DEF ToldInv, Told
<1>7. ASSUME NEW c \in Conns, Write(c) \/ Drain(c) PROVE ToldInv'
  <2>1. /\ UNCHANGED <<evicted, handler, conn, dropped>>
        /\ send[c] # <<>> /\ send' = [send EXCEPT ![c] = Tail(@)] /\ Deliver(c)
        /\ \A d \in Conns : closed'[d] => closed[d] \/ conn[d] # "open"
        /\ \A d \in Conns : closed[d] => closed'[d]
        /\ \A d \in Conns : writer'[d] = "draining" => writer[d] = "draining"
    BY <1>0, <1>7 DEF Write, Drain
  <2>2. \A d \in Conns : Addressed(d)' <=> Addressed(d)
    BY <2>1 DEF Addressed
  <2>3. \A d \in Conns :
          /\ conn[d] = "open" /\ Told(d) => Told(d)'
          /\ Has(delivered[d], "control_taken") => Has(delivered'[d], "control_taken")
    BY <2>1, DequeueKeepsTold
  <2> QED
    BY <2>1, <2>2, <2>3 DEF ToldInv
<1>8. ASSUME NEW c \in Conns, SeeClosed(c) PROVE ToldInv'
  <2>1. /\ UNCHANGED <<evicted, handler, closed, send, conn, delivered, dropped>>
        /\ closed[c] /\ \A d \in Conns \ {c} : writer'[d] = writer[d]
    BY <1>0, <1>8 DEF SeeClosed
  <2> QED
    BY <2>1 DEF ToldInv, Told, Addressed
<1>9. ASSUME NEW c \in Conns, CloseConn(c) PROVE ToldInv'
  <2>1. /\ UNCHANGED <<evicted, handler, closed, send, delivered, dropped>>
        /\ writer[c] = "draining" /\ send[c] = <<>>
        /\ \A d \in Conns : writer'[d] = "draining" => writer[d] = "draining"
        /\ \A d \in Conns \ {c} : conn'[d] = conn[d]
        /\ conn'[c] = IF conn[c] = "open" THEN "closed" ELSE conn[c]
    BY <1>0, <1>9 DEF CloseConn
  <2>2. ~Has(send[c], "control_taken")
    BY <2>1 DEF Has
  <2>3. conn[c] = "open" => c \in dropped \/ Has(delivered[c], "control_taken")
    BY <2>1, <2>2 DEF ToldInv, Told
  <2> QED
    BY <2>1, <2>3 DEF ToldInv, Told, Addressed
<1>10. ASSUME NEW c \in Conns, PeerGone(c) PROVE ToldInv'
  <2>1. /\ UNCHANGED <<evicted, handler, closed, writer, send, delivered, dropped>>
        /\ \A d \in Conns \ {c} : conn'[d] = conn[d]
        /\ conn'[c] = "broken"
    BY <1>0, <1>10 DEF PeerGone
  <2> QED
    BY <2>1 DEF ToldInv, Told, Addressed
<1>11. CASE UNCHANGED vars
  BY <1>11 DEF vars, ToldInv, Told, Addressed
<1> QED
  BY <1>1, <1>2, <1>3, <1>4, <1>5, <1>6, <1>7, <1>8, <1>9, <1>10, <1>11
  DEF Next, HandlerSteps, WriterSteps

\* The close signal never overtakes control_taken, however the write loop's
\* select decides: whom the server closed was told, or had a full queue.
THEOREM ClosedConnectionsWereTold == Spec => []ClosedWasTold
<1>1. Init => ToldInv
  BY DEF Init, ToldInv, Addressed
<1>2. TypeOK /\ ToldInv /\ [Next]_vars => ToldInv'
  BY ToldNext
<1>3. ToldInv => ClosedWasTold
  BY DEF ToldInv, ClosedWasTold, Has
<1> QED
  BY InputTypeCorrect, <1>1, <1>2, <1>3, PTL DEF Spec

-----------------------------------------------------------------------------
(* Nobody is told a thing that is not so *)

\* c was told that control is gone, or is about to be.
Lost(c) == Told(c) \/ \E d \in Conns : evicted[d] = c

LostInv == \A c \in Conns : Lost(c) => current # c /\ handler[c] # "new"

LEMMA HasAfterAppend ==
    ASSUME NEW seq \in Seq(Messages), NEW msg \in Messages, NEW other \in Messages,
           Has(Append(seq, msg), other)
    PROVE  Has(seq, other) \/ other = msg
<1>1. /\ Len(seq) \in Nat /\ DOMAIN seq = 1..Len(seq)
      /\ DOMAIN Append(seq, msg) = 1..(Len(seq) + 1)
      /\ Append(seq, msg)[Len(seq) + 1] = msg
      /\ \A i \in 1..Len(seq) : Append(seq, msg)[i] = seq[i]
  BY AppendProperties, LenProperties
<1> QED
  BY <1>1 DEF Has

LEMMA HasAfterTail ==
    ASSUME NEW seq \in Seq(Messages), seq # <<>>, NEW msg \in Messages
    PROVE  (Has(Tail(seq), msg) => Has(seq, msg)) /\ Has(seq, Head(seq))
<1>1. /\ Len(seq) \in Nat \ {0} /\ DOMAIN seq = 1..Len(seq) /\ Head(seq) = seq[1]
      /\ DOMAIN Tail(seq) = 1..(Len(seq) - 1)
      /\ \A i \in 1..(Len(seq) - 1) : Tail(seq)[i] = seq[i + 1]
  BY HeadTailProperties, LenProperties, EmptySeq
<1>2. \A i \in 1..(Len(seq) - 1) : i + 1 \in 1..Len(seq)
  BY <1>1
<1> QED
  BY <1>1, <1>2 DEF Has

\* Other messages than control_taken, and those that are taken off a queue,
\* tell nobody anything new.
LEMMA NothingNewEnqueued ==
    ASSUME TypeOK, NEW c \in Conns, NEW msg \in Messages, msg # "control_taken",
           Enqueue(c, msg), UNCHANGED <<delivered, dropped>>, NEW d \in Conns, Told(d)'
    PROVE  Told(d)
<1>1. send \in [Conns -> Seq(Messages)] /\ "control_taken" \in Messages
  BY DEF TypeOK, Messages
<1>2. Has(send'[d], "control_taken") => Has(send[d], "control_taken")
  BY <1>1, HasAfterAppend DEF Enqueue
<1> QED
  BY <1>2 DEF Told

LEMMA NothingNewDequeued ==
    ASSUME TypeOK, NEW c \in Conns, send[c] # <<>>,
           send' = [send EXCEPT ![c] = Tail(@)], Deliver(c), dropped' = dropped,
           NEW d \in Conns, Told(d)'
    PROVE  Told(d)
<1>1. /\ send \in [Conns -> Seq(Messages)] /\ delivered \in [Conns -> Seq(Messages)]
      /\ "control_taken" \in Messages /\ Head(send[c]) \in Messages
  BY HeadTailProperties DEF TypeOK, Messages
<1>2. Has(send'[d], "control_taken") => Has(send[d], "control_taken")
  BY <1>1, HasAfterTail
<1>3. ASSUME Has(delivered'[d], "control_taken"), ~Has(delivered[d], "control_taken")
      PROVE  Has(send[d], "control_taken")
  <2>1. d = c /\ delivered'[d] = Append(delivered[d], Head(send[d]))
    BY <1>1, <1>3 DEF Deliver
  <2>2. Head(send[d]) = "control_taken"
    BY <1>1, <1>3, <2>1, HasAfterAppend
  <2> QED
    BY <1>1, <2>1, <2>2, HasAfterTail
<1> QED
  BY <1>2, <1>3 DEF Told

LEMMA LostNext == ASSUME OwnInv, LostInv, [Next]_vars PROVE LostInv'
<1> USE DEF wire, Move
<1>0. /\ TypeOK /\ None \notin Conns /\ handler \in [Conns -> HandlerPc]
      /\ current \in Conns \cup {None}
      /\ evicted \in [Conns -> Conns \cup {None}]
      /\ send \in [Conns -> Seq(Messages)]
  BY ConnsAssumption DEF OwnInv, TypeOK
<1>1. ASSUME NEW c \in Conns, TakeControl(c) PROVE LostInv'
  <2>1. /\ UNCHANGED <<send, delivered, dropped>>
        /\ handler[c] = "new" /\ handler'[c] = "taking"
        /\ current' = c /\ evicted'[c] = current
        /\ \A d \in Conns \ {c} : handler'[d] = handler[d] /\ evicted'[d] = evicted[d]
    BY <1>0, <1>1 DEF TakeControl
  <2>2. ~Lost(c) /\ current # c
    BY <1>0, <2>1 DEF LostInv, OwnInv, OwnerPresent
  <2>3. ASSUME NEW d \in Conns, Lost(d)' PROVE Lost(d) \/ d = current
    BY <2>1, <2>3 DEF Lost, Told
  <2>4. current \in Conns => handler[current] # "new"
    BY <1>0 DEF OwnInv, OwnerPresent
  <2> QED
    BY <2>1, <2>2, <2>3, <2>4 DEF LostInv
<1>2. ASSUME current' = current \/ current' \notin Conns, UNCHANGED evicted,
             \A d \in Conns : handler'[d] = "new" => handler[d] = "new",
             \A d \in Conns : Told(d)' => Lost(d)
      PROVE  LostInv'
  BY <1>2 DEF LostInv, Lost
<1>3. ASSUME NEW c \in Conns, TellEvicted(c) PROVE LostInv'
  <2>1. UNCHANGED <<current, evicted, delivered>> /\ handler'[c] = "told"
        /\ \A d \in Conns \ {c} : handler'[d] = handler[d]
    BY <1>0, <1>3 DEF TellEvicted
  <2>2. ASSUME NEW d \in Conns, Told(d)', evicted[c] # d PROVE Told(d)
    <3>1. send'[d] = send[d] /\ (d \in dropped' => d \in dropped)
      BY <1>0, <1>3, <2>2 DEF TellEvicted, Enqueue
    <3> QED
      BY <2>1, <2>2, <3>1 DEF Told
  <2>3. \A d \in Conns : Told(d)' => Lost(d)
    BY <2>2 DEF Lost
  <2> QED
    BY <1>2, <2>1, <2>3
<1>4. ASSUME NEW c \in Conns, Grant(c) \/ ReadBadInput(c) PROVE LostInv'
  <2>1. UNCHANGED <<current, evicted, delivered, dropped>>
        /\ \A d \in Conns : handler'[d] = "new" => handler[d] = "new"
    BY <1>0, <1>4 DEF Grant, ReadBadInput
  <2>2. PICK msg \in Messages : msg # "control_taken" /\ Enqueue(c, msg)
    BY <1>4 DEF Grant, ReadBadInput, Messages
  <2>3. \A d \in Conns : Told(d)' => Lost(d)
    BY <1>0, <2>1, <2>2, NothingNewEnqueued DEF Lost
  <2> QED
    BY <1>2, <2>1, <2>3
<1>5. ASSUME NEW c \in Conns, Write(c) \/ Drain(c) PROVE LostInv'
  <2>1. UNCHANGED <<current, evicted, handler, dropped>>
        /\ send[c] # <<>> /\ send' = [send EXCEPT ![c] = Tail(@)] /\ Deliver(c)
    BY <1>5 DEF Write, Drain
  <2>2. \A d \in Conns : Told(d)' => Lost(d)
    BY <1>0, <2>1, NothingNewDequeued DEF Lost
  <2> QED
    BY <1>2, <2>1, <2>2
<1>6. ASSUME NEW c \in Conns,
             \/ SpawnWriter(c) \/ CloseEvicted(c) \/ ReadEnds(c) \/ Release(c)
             \/ SeeClosed(c) \/ CloseConn(c) \/ PeerGone(c)
      PROVE  LostInv'
  <2>1. UNCHANGED <<evicted, send, delivered, dropped>>
        /\ current' \in {current, None}
        /\ \A d \in Conns : handler'[d] = "new" => handler[d] = "new"
    BY <1>0, <1>6 DEF SpawnWriter, CloseEvicted, ReadEnds, Release, SeeClosed,
                      CloseConn, PeerGone
  <2>2. \A d \in Conns : Told(d)' => Lost(d)
    BY <2>1 DEF Told, Lost
  <2> QED
    BY <1>0, <1>2, <2>1, <2>2
<1>7. CASE UNCHANGED vars
  BY <1>7 DEF vars, LostInv, Lost, Told
<1> QED
  BY <1>1, <1>3, <1>4, <1>5, <1>6, <1>7 DEF Next, HandlerSteps, WriterSteps

\* control_taken is sent without the lock and may wait in a queue, and still
\* never finds its addressee in control.
THEOREM NotificationsAreTrue == Spec => []TakenIsTrue
<1>1. Init => LostInv
  BY ConnsAssumption DEF Init, LostInv, Lost, Told, Has
<1>2. OwnInv /\ [Next]_vars => OwnInv'
  BY TypeNext, OwnerNext, OwnStutter DEF OwnInv
<1>3. OwnInv /\ LostInv /\ [Next]_vars => LostInv'
  BY LostNext
<1>4. LostInv => TakenIsTrue
  BY DEF LostInv, Lost, Told, TakenIsTrue
<1> QED
  BY OwnInit, <1>1, <1>2, <1>3, <1>4, PTL DEF Spec
-----------------------------------------------------------------------------
(* Control goes from hand to hand *)

\* No two connections take control from the same one.
EvictedOnce ==
    \A d, e \in Conns : evicted[d] = evicted[e] /\ evicted[d] # None => d = e

\* A connection that has not ended loses control to a takeover only.
LostByTakeover ==
    \A c \in Conns :
        handler[c] \notin {"new", "leaving", "gone"} /\ current # c =>
            \E d \in Conns : evicted[d] = c

\* No loop of a connection stops while the connection is open, where the other
\* one could wait for ever, nor without its channel closed.
LoopsEnd ==
    \A c \in Conns :
        /\ writer[c] = "none" <=> handler[c] \in {"new", "taking", "told"}
        /\ writer[c] = "draining" => closed[c]
        /\ writer[c] = "stopped" \/ handler[c] \in {"leaving", "gone"} =>
               closed[c] /\ conn[c] # "open"

\* Whoever is told that control was taken is told so once.
Once(seq) ==
    \A i, j \in DOMAIN seq :
        seq[i] = "control_taken" /\ seq[j] = "control_taken" => i = j

ToldOnce ==
    \A c \in Conns :
        /\ Once(send[c]) /\ Once(delivered[c])
        /\ ~ (Has(send[c], "control_taken") /\ Has(delivered[c], "control_taken"))
\* Who has not begun has taken nothing.
FreshInv == \A c \in Conns : handler[c] = "new" => evicted[c] = None

HandInv == EvictedOnce /\ LostByTakeover /\ LoopsEnd /\ FreshInv

LEMMA HandNext ==
    ASSUME OwnInv, LostInv, HandInv, Next
    PROVE  EvictedOnce' /\ LostByTakeover' /\ FreshInv'
<1> USE DEF wire, Move, HandInv
<1>0. /\ current \in Conns \cup {None} /\ None \notin Conns
      /\ handler \in [Conns -> HandlerPc]
      /\ evicted \in [Conns -> Conns \cup {None}]
  BY ConnsAssumption DEF OwnInv, TypeOK
<1>1. ASSUME NEW c \in Conns, TakeControl(c)
      PROVE  EvictedOnce' /\ LostByTakeover' /\ FreshInv'
  <2>1. /\ handler[c] = "new" /\ handler'[c] = "taking" /\ evicted[c] = None
        /\ current' = c /\ evicted'[c] = current
        /\ \A d \in Conns \ {c} : handler'[d] = handler[d] /\ evicted'[d] = evicted[d]
    BY <1>0, <1>1 DEF TakeControl, FreshInv
  <2>2. \A d \in Conns : evicted[d] # None => evicted[d] # current
    BY <1>0 DEF LostInv, Lost
  <2>3. EvictedOnce'
    BY <1>0, <2>1, <2>2 DEF EvictedOnce
  <2>4. LostByTakeover'
    <3> SUFFICES ASSUME NEW d \in Conns, d # c,
                        handler[d] \notin {"new", "leaving", "gone"}
                 PROVE  \E e \in Conns : evicted'[e] = d
      BY <2>1 DEF LostByTakeover
    <3>1. CASE current = d
      BY <2>1, <3>1
    <3>2. CASE current # d
      <4>1. PICK e \in Conns : evicted[e] = d
        BY <3>2 DEF LostByTakeover
      <4>2. e # c
        BY <1>0, <2>1, <4>1
      <4> QED
        BY <2>1, <4>1, <4>2
    <3> QED
      BY <3>1, <3>2
  <2> QED
    BY <2>1, <2>3, <2>4 DEF FreshInv
<1>2. ASSUME NEW c \in Conns,
             \/ TellEvicted(c) \/ SpawnWriter(c) \/ CloseEvicted(c)
             \/ Grant(c) \/ ReadEnds(c)
      PROVE  EvictedOnce' /\ LostByTakeover' /\ FreshInv'
  <2>1. /\ UNCHANGED <<current, evicted>>
        /\ handler[c] \notin {"new", "leaving", "gone"} /\ handler'[c] # "new"
        /\ \A d \in Conns \ {c} : handler'[d] = handler[d]
    BY <1>0, <1>2 DEF TellEvicted, SpawnWriter, CloseEvicted, Grant, ReadEnds
  <2> QED
    BY <2>1 DEF EvictedOnce, LostByTakeover, FreshInv
<1>3. ASSUME NEW c \in Conns, Release(c)
      PROVE  EvictedOnce' /\ LostByTakeover' /\ FreshInv'
  <2>1. /\ UNCHANGED evicted /\ handler'[c] = "gone"
        /\ current' = IF current = c THEN None ELSE current
        /\ \A d \in Conns \ {c} : handler'[d] = handler[d]
    BY <1>0, <1>3 DEF Release
  <2> QED
    BY <1>0, <2>1 DEF EvictedOnce, LostByTakeover, FreshInv
<1>4. ASSUME NEW c \in Conns, ReadBadInput(c) \/ WriterSteps(c) \/ PeerGone(c)
      PROVE  EvictedOnce' /\ LostByTakeover' /\ FreshInv'
  <2>1. UNCHANGED <<current, evicted, handler>>
    BY <1>4 DEF ReadBadInput, WriterSteps, Write, SeeClosed, Drain, CloseConn,
                PeerGone
  <2> QED
    BY <2>1 DEF EvictedOnce, LostByTakeover, FreshInv
<1> QED
  BY <1>1, <1>2, <1>3, <1>4 DEF Next, HandlerSteps

LEMMA LoopsNext == ASSUME TypeOK, LoopsEnd, Next PROVE LoopsEnd'
<1> USE DEF wire, Move, LoopsEnd
<1>0. /\ handler \in [Conns -> HandlerPc]
      /\ closed \in [Conns -> BOOLEAN]
      /\ writer \in [Conns -> {"none", "running", "draining", "stopped"}]
      /\ conn \in [Conns -> {"open", "broken", "closed"}]
  BY DEF TypeOK
<1>1. ASSUME NEW c \in Conns, TakeControl(c) \/ TellEvicted(c) \/ Grant(c)
      PROVE  LoopsEnd'
  BY <1>0, <1>1 DEF TakeControl, TellEvicted, Grant
<1>2. ASSUME NEW c \in Conns, SpawnWriter(c) \/ CloseEvicted(c) PROVE LoopsEnd'
  BY <1>0, <1>2 DEF SpawnWriter, CloseEvicted
<1>3. ASSUME NEW c \in Conns, ReadEnds(c) \/ Release(c) \/ ReadBadInput(c)
      PROVE  LoopsEnd'
  BY <1>0, <1>3 DEF ReadEnds, Release, ReadBadInput
<1>4. ASSUME NEW c \in Conns, Write(c) \/ Drain(c) PROVE LoopsEnd'
  BY <1>0, <1>4 DEF Write, Drain
<1>5. ASSUME NEW c \in Conns, SeeClosed(c) \/ CloseConn(c) \/ PeerGone(c)
      PROVE  LoopsEnd'
  BY <1>0, <1>5 DEF SeeClosed, CloseConn, PeerGone
<1> QED
  BY <1>1, <1>2, <1>3, <1>4, <1>5 DEF Next, HandlerSteps, WriterSteps

LEMMA HandInvAlways == Spec => [](OwnInv /\ LostInv /\ HandInv)
<1>1. Init => LostInv
  BY ConnsAssumption DEF Init, LostInv, Lost, Told, Has
<1>2. Init => HandInv
  BY DEF Init, HandInv, EvictedOnce, LostByTakeover, LoopsEnd, FreshInv
<1>3. OwnInv /\ [Next]_vars => OwnInv'
  BY TypeNext, OwnerNext, OwnStutter DEF OwnInv
<1>4. OwnInv /\ LostInv /\ [Next]_vars => LostInv'
  BY LostNext
<1>5. OwnInv /\ LostInv /\ HandInv /\ [Next]_vars => HandInv'
  <2>1. HandInv /\ UNCHANGED vars => HandInv'
    BY DEF HandInv, EvictedOnce, LostByTakeover, LoopsEnd, FreshInv, vars
  <2>2. OwnInv /\ LostInv /\ HandInv /\ Next => HandInv'
    BY HandNext, LoopsNext DEF HandInv, OwnInv
  <2> QED
    BY <2>1, <2>2
<1> QED
  BY OwnInit, <1>1, <1>2, <1>3, <1>4, <1>5, PTL DEF Spec

\* takeControl hands control from one connection to the next: nobody takes it
\* from a connection that has lost it already, and nobody who has not left
\* loses it otherwise.
THEOREM ControlIsHandedOver == Spec => [](EvictedOnce /\ LostByTakeover)
<1>1. HandInv => EvictedOnce /\ LostByTakeover
  BY DEF HandInv
<1> QED
  BY HandInvAlways, <1>1, PTL

\* readLoop and writeLoop end together: none of them returns while the other
\* may go on with an open connection, which is what EvictedStops rests on.
THEOREM LoopsEndTogether == Spec => []LoopsEnd
<1>1. HandInv => LoopsEnd
  BY DEF HandInv
<1> QED
  BY HandInvAlways, <1>1, PTL
-----------------------------------------------------------------------------
(* Nobody is told twice *)

\* control_taken was sent by the one connection that took over, which has gone
\* on since.
SaidInv ==
    \A c \in Conns :
        Has(send[c], "control_taken") \/ Has(delivered[c], "control_taken") =>
            \E d \in Conns : evicted[d] = c /\ handler[d] \notin {"new", "taking"}

LEMMA OnceAppend ==
    ASSUME NEW seq \in Seq(Messages), NEW msg \in Messages, Once(seq),
           msg # "control_taken" \/ ~Has(seq, "control_taken")
    PROVE  Once(Append(seq, msg))
<1>1. /\ Len(seq) \in Nat /\ DOMAIN seq = 1..Len(seq)
      /\ DOMAIN Append(seq, msg) = 1..(Len(seq) + 1)
      /\ Append(seq, msg)[Len(seq) + 1] = msg
      /\ \A i \in 1..Len(seq) : Append(seq, msg)[i] = seq[i]
  BY AppendProperties, LenProperties
<1> SUFFICES ASSUME NEW i \in 1..(Len(seq) + 1), NEW j \in 1..(Len(seq) + 1),
                    Append(seq, msg)[i] = "control_taken",
                    Append(seq, msg)[j] = "control_taken"
             PROVE  i = j
  BY <1>1 DEF Once
<1>2. CASE i \in 1..Len(seq) /\ j \in 1..Len(seq)
  BY <1>1, <1>2 DEF Once
<1>3. CASE i = Len(seq) + 1 /\ j = Len(seq) + 1
  BY <1>3
<1>4. CASE \/ i = Len(seq) + 1 /\ j \in 1..Len(seq)
           \/ j = Len(seq) + 1 /\ i \in 1..Len(seq)
  BY <1>1, <1>4 DEF Has
<1> QED
  BY <1>1, <1>2, <1>3, <1>4

LEMMA OnceTail ==
    ASSUME NEW seq \in Seq(Messages), seq # <<>>, Once(seq)
    PROVE  /\ Once(Tail(seq))
           /\ Head(seq) = "control_taken" => ~Has(Tail(seq), "control_taken")
<1>1. /\ Len(seq) \in Nat \ {0} /\ DOMAIN seq = 1..Len(seq) /\ Head(seq) = seq[1]
      /\ DOMAIN Tail(seq) = 1..(Len(seq) - 1)
      /\ \A i \in 1..(Len(seq) - 1) : Tail(seq)[i] = seq[i + 1]
  BY HeadTailProperties, LenProperties, EmptySeq
<1>2. \A i \in 1..(Len(seq) - 1) : i + 1 \in 1..Len(seq) /\ i + 1 # 1 /\ i \in Nat
  BY <1>1
<1>3. Once(Tail(seq))
  <2> SUFFICES ASSUME NEW i \in 1..(Len(seq) - 1), NEW j \in 1..(Len(seq) - 1),
                      seq[i + 1] = "control_taken", seq[j + 1] = "control_taken"
               PROVE  i = j
    BY <1>1 DEF Once
  <2>1. i + 1 = j + 1
    BY <1>1, <1>2 DEF Once
  <2> QED
    BY <1>2, <2>1
<1>4. ASSUME Head(seq) = "control_taken", NEW i \in 1..(Len(seq) - 1)
      PROVE  Tail(seq)[i] # "control_taken"
  BY <1>1, <1>2, <1>4 DEF Once
<1> QED
  BY <1>1, <1>3, <1>4 DEF Has

\* A queue that gets another message, or its first control_taken, stays as it
\* should be.
LEMMA OnceEnqueued ==
    ASSUME TypeOK, ToldOnce, NEW c \in Conns, NEW msg \in Messages,
           Enqueue(c, msg), delivered' = delivered,
           \/ msg # "control_taken"
           \/ ~Has(send[c], "control_taken") /\ ~Has(delivered[c], "control_taken")
    PROVE  ToldOnce'
<1>1. send \in [Conns -> Seq(Messages)] /\ "control_taken" \in Messages
  BY DEF TypeOK, Messages
<1>2. Once(send'[c])
  BY <1>1, OnceAppend DEF Enqueue, ToldOnce
<1>3. Has(send'[c], "control_taken") =>
          Has(send[c], "control_taken") \/ msg = "control_taken"
  BY <1>1, HasAfterAppend DEF Enqueue
<1>4. \A d \in Conns \ {c} : send'[d] = send[d]
  BY <1>1 DEF Enqueue
<1> QED
  BY <1>2, <1>3, <1>4 DEF ToldOnce

LEMMA OnceDequeued ==
    ASSUME TypeOK, ToldOnce, NEW c \in Conns, send[c] # <<>>,
           send' = [send EXCEPT ![c] = Tail(@)], Deliver(c)
    PROVE  ToldOnce'
<1>1. /\ send \in [Conns -> Seq(Messages)] /\ delivered \in [Conns -> Seq(Messages)]
      /\ "control_taken" \in Messages /\ Head(send[c]) \in Messages
      /\ send'[c] = Tail(send[c])
      /\ \A d \in Conns \ {c} : send'[d] = send[d] /\ delivered'[d] = delivered[d]
  BY HeadTailProperties DEF TypeOK, Messages, Deliver
<1>2. /\ Once(Tail(send[c]))
      /\ Head(send[c]) = "control_taken" => ~Has(Tail(send[c]), "control_taken")
  BY <1>1, OnceTail DEF ToldOnce
<1>3. /\ Has(Tail(send[c]), "control_taken") => Has(send[c], "control_taken")
      /\ Has(send[c], Head(send[c]))
  BY <1>1, HasAfterTail
<1>4. CASE delivered'[c] = delivered[c]
  BY <1>1, <1>2, <1>3, <1>4 DEF ToldOnce
<1>5. CASE delivered'[c] = Append(delivered[c], Head(send[c]))
  <2>1. Head(send[c]) = "control_taken" => ~Has(delivered[c], "control_taken")
    BY <1>3 DEF ToldOnce
  <2>2. Once(delivered'[c])
    BY <1>1, <1>5, <2>1, OnceAppend DEF ToldOnce
  <2>3. Has(delivered'[c], "control_taken") =>
            Has(delivered[c], "control_taken") \/ Head(send[c]) = "control_taken"
    BY <1>1, <1>5, HasAfterAppend
  <2>4. ~ (Has(send'[c], "control_taken") /\ Has(delivered'[c], "control_taken"))
    BY <1>1, <1>2, <1>3, <2>3 DEF ToldOnce
  <2> QED
    BY <1>1, <1>2, <2>2, <2>4 DEF ToldOnce
<1> QED
  BY <1>1, <1>4, <1>5 DEF Deliver

LEMMA OnceNext ==
    ASSUME TypeOK, EvictedOnce, FreshInv, SaidInv, ToldOnce, Next
    PROVE  SaidInv' /\ ToldOnce'
<1> USE DEF wire, Move
<1>0. /\ None \notin Conns /\ handler \in [Conns -> HandlerPc]
      /\ evicted \in [Conns -> Conns \cup {None}]
      /\ send \in [Conns -> Seq(Messages)] /\ delivered \in [Conns -> Seq(Messages)]
  BY ConnsAssumption DEF TypeOK
<1>1. ASSUME NEW c \in Conns, TakeControl(c) PROVE SaidInv' /\ ToldOnce'
  <2>1. /\ UNCHANGED <<send, delivered>> /\ evicted[c] = None
        /\ \A d \in Conns \ {c} : handler'[d] = handler[d] /\ evicted'[d] = evicted[d]
    BY <1>0, <1>1 DEF TakeControl, FreshInv
  <2>2. \A d \in Conns : evicted[d] \in Conns => d # c
    BY <1>0, <2>1
  <2> QED
    BY <2>1, <2>2 DEF SaidInv, ToldOnce
<1>2. ASSUME NEW c \in Conns, TellEvicted(c) PROVE SaidInv' /\ ToldOnce'
  <2>1. /\ UNCHANGED <<evicted, delivered>>
        /\ handler[c] = "taking" /\ handler'[c] = "told"
        /\ \A d \in Conns \ {c} : handler'[d] = handler[d]
    BY <1>0, <1>2 DEF TellEvicted
  <2>2. CASE evicted[c] = None
    <3>1. send' = send
      BY <1>2, <2>2 DEF TellEvicted
    <3> QED
      BY <2>1, <3>1 DEF SaidInv, ToldOnce
  <2>3. CASE evicted[c] \in Conns
    <3> DEFINE e == evicted[c]
    <3>1. Enqueue(e, "control_taken") /\ "control_taken" \in Messages
      BY <1>0, <1>2, <2>3 DEF TellEvicted, Messages
    <3>2. ~Has(send[e], "control_taken") /\ ~Has(delivered[e], "control_taken")
      BY <1>0, <2>1, <2>3 DEF SaidInv, EvictedOnce
    <3>3. ToldOnce'
      BY <2>1, <2>3, <3>1, <3>2, OnceEnqueued
    <3>4. \A d \in Conns \ {e} : send'[d] = send[d]
      BY <1>0, <3>1 DEF Enqueue
    <3>5. SaidInv'
      BY <2>1, <2>3, <3>4 DEF SaidInv
    <3> QED
      BY <3>3, <3>5
  <2> QED
    BY <1>0, <2>2, <2>3
<1>3. ASSUME NEW c \in Conns, Grant(c) \/ ReadBadInput(c)
      PROVE  SaidInv' /\ ToldOnce'
  <2>1. /\ UNCHANGED <<evicted, delivered>>
        /\ \A d \in Conns : handler[d] \notin {"new", "taking"} =>
                            handler'[d] \notin {"new", "taking"}
    BY <1>0, <1>3 DEF Grant, ReadBadInput
  <2>2. PICK msg \in Messages : msg # "control_taken" /\ Enqueue(c, msg)
    BY <1>3 DEF Grant, ReadBadInput, Messages
  <2>3. ToldOnce'
    BY <2>1, <2>2, OnceEnqueued
  <2>4. ASSUME NEW d \in Conns
        PROVE  Has(send'[d], "control_taken") => Has(send[d], "control_taken")
    BY <1>0, <2>2, HasAfterAppend DEF Enqueue, Messages
  <2> QED
    BY <2>1, <2>3, <2>4 DEF SaidInv
<1>4. ASSUME NEW c \in Conns, Write(c) \/ Drain(c) PROVE SaidInv' /\ ToldOnce'
  <2>1. UNCHANGED <<evicted, handler>>
        /\ send[c] # <<>> /\ send' = [send EXCEPT ![c] = Tail(@)] /\ Deliver(c)
    BY <1>4 DEF Write, Drain
  <2>2. ToldOnce'
    BY <2>1, OnceDequeued
  <2>3. ASSUME NEW d \in Conns,
               Has(send'[d], "control_taken") \/ Has(delivered'[d], "control_taken")
        PROVE  Has(send[d], "control_taken") \/ Has(delivered[d], "control_taken")
    <3>1. Head(send[c]) \in Messages /\ "control_taken" \in Messages
      BY <1>0, <2>1, HeadTailProperties DEF Messages
    <3>2. Has(send'[d], "control_taken") => Has(send[d], "control_taken")
      BY <1>0, <2>1, <3>1, HasAfterTail
    <3>3. Has(delivered'[d], "control_taken") =>
            \/ Has(delivered[d], "control_taken")
            \/ d = c /\ Head(send[c]) = "control_taken"
      BY <1>0, <2>1, <3>1, HasAfterAppend DEF Deliver
    <3>4. Has(send[c], Head(send[c]))
      BY <1>0, <2>1, <3>1, HasAfterTail
    <3> QED
      BY <2>3, <3>2, <3>3, <3>4
  <2> QED
    BY <2>1, <2>2, <2>3 DEF SaidInv
<1>5. ASSUME NEW c \in Conns,
             \/ SpawnWriter(c) \/ CloseEvicted(c) \/ ReadEnds(c) \/ Release(c)
             \/ SeeClosed(c) \/ CloseConn(c) \/ PeerGone(c)
      PROVE  SaidInv' /\ ToldOnce'
  <2>1. /\ UNCHANGED <<evicted, send, delivered>>
        /\ \A d \in Conns : handler[d] \notin {"new", "taking"} =>
                            handler'[d] \notin {"new", "taking"}
    BY <1>0, <1>5 DEF SpawnWriter, CloseEvicted, ReadEnds, Release, SeeClosed,
                      CloseConn, PeerGone
  <2> QED
    BY <2>1 DEF SaidInv, ToldOnce
<1> QED
  BY <1>1, <1>2, <1>3, <1>4, <1>5 DEF Next, HandlerSteps, WriterSteps

\* The eviction is announced once: the peer of an evicted connection finds one
\* control_taken at most in all it is ever sent (handleInput sends it to the
\* connection that takeControl returned, which nobody gets twice).
THEOREM EvictionIsToldOnce == Spec => []ToldOnce
<1>1. Init => SaidInv /\ ToldOnce
  BY DEF Init, SaidInv, ToldOnce, Once, Has
<1>2. OwnInv /\ HandInv /\ SaidInv /\ ToldOnce /\ [Next]_vars =>
          SaidInv' /\ ToldOnce'
  <2>1. SaidInv /\ ToldOnce /\ UNCHANGED vars => SaidInv' /\ ToldOnce'
    BY DEF SaidInv, ToldOnce, vars
  <2> QED
    BY <2>1, OnceNext DEF OwnInv, HandInv
<1> QED
  BY HandInvAlways, <1>1, <1>2, PTL DEF Spec
=============================================================================
