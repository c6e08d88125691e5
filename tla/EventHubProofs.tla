----------------------------- MODULE EventHubProofs -----------------------------
(***************************************************************************)
(* Proofs about EventHub, for any number of clients, publishers, events    *)
(* and every queue size. What a client is sent forms a line: what its peer *)
(* got last, what is being written, and the queue. The operators below     *)
(* speak of one line, with the queue s, the message w and the record l of  *)
(* last events, so that the lemmas about it need no state. The last        *)
(* section is about the connections: who is registered, who closes, and    *)
(* who may drop an event.                                                  *)
(***************************************************************************)
EXTENDS EventHub, TLAPS

Lasts == [Publishers \cup {Hub} -> 0..MaxEvents]

\* The line is in order: one conjunct of InOrder.
LineOrdered(s, w, l) ==
    /\ \A i, j \in DOMAIN s : i < j => Older(s[i], s[j])
    /\ \A i \in DOMAIN s : Older(w, s[i])
    /\ \A p \in Publishers :
        /\ Older(<<p, l[p]>>, w)
        /\ \A i \in DOMAIN s : Older(<<p, l[p]>>, s[i])

\* Every event of p in the line has a number below n.
LineBelow(s, w, l, p, n) ==
    /\ l[p] < n
    /\ w[1] = p => w[2] < n
    /\ \A i \in DOMAIN s : s[i][1] = p => s[i][2] < n

LEMMA MessageForm ==
    ASSUME NEW m \in Messages
    PROVE  /\ m[1] \in Publishers \cup {Hub}
           /\ m[2] \in 0..MaxEvents
           /\ m[1] = Hub => m = Note
           /\ m # Note => m \in Events /\ m[1] \in Publishers
           /\ m = <<m[1], m[2]>>
  BY PublishersAssumption, BoundsAssumption DEF Messages, Events, Note

LEMMA NoteIsMessage == Note \in Messages /\ Note \notin Events /\ Note[1] = Hub
  BY PublishersAssumption DEF Messages, Events, Note

\* A message newer than the whole line can be appended to it.
LEMMA AppendOrdered ==
    ASSUME NEW s \in Seq(Messages), NEW w \in Messages, NEW l \in Lasts,
           NEW m \in Messages, LineOrdered(s, w, l),
           m[1] # Hub => LineBelow(s, w, l, m[1], m[2])
    PROVE  LineOrdered(Append(s, m), w, l)
<1> DEFINE t == Append(s, m)
<1>1. /\ DOMAIN t = 1..(Len(s) + 1)
      /\ \A i \in DOMAIN s : t[i] = s[i] /\ s[i] \in Messages
      /\ t[Len(s) + 1] = m
      /\ DOMAIN s = 1..Len(s)
      /\ Len(s) \in Nat
  OBVIOUS
<1>2. \A i \in DOMAIN s : Older(s[i], m)
  BY <1>1, MessageForm, NoteIsMessage DEF LineBelow, Older
<1>3. Older(w, m)
  BY MessageForm, NoteIsMessage DEF LineBelow, Older
<1>4. \A p \in Publishers : Older(<<p, l[p]>>, m)
  BY MessageForm, NoteIsMessage DEF LineBelow, Older
<1>5. \A i \in DOMAIN t : i \in DOMAIN s \/ i = Len(s) + 1
  BY <1>1
<1>6. \A i, j \in DOMAIN t : i < j => Older(t[i], t[j])
  <2> SUFFICES ASSUME NEW i \in DOMAIN t, NEW j \in DOMAIN t, i < j
               PROVE  Older(t[i], t[j])
    OBVIOUS
  <2>1. i \in DOMAIN s
    BY <1>1
  <2>2. CASE j \in DOMAIN s
    BY <1>1, <2>1, <2>2 DEF LineOrdered
  <2>3. CASE j = Len(s) + 1
    BY <1>1, <1>2, <2>1, <2>3
  <2> QED BY <1>5, <2>2, <2>3
<1>7. \A i \in DOMAIN t : Older(w, t[i])
  BY <1>1, <1>3, <1>5 DEF LineOrdered
<1>8. \A p \in Publishers : \A i \in DOMAIN t : Older(<<p, l[p]>>, t[i])
  BY <1>1, <1>4, <1>5 DEF LineOrdered
<1> QED BY <1>6, <1>7, <1>8 DEF LineOrdered

LEMMA AppendBelow ==
    ASSUME NEW s \in Seq(Messages), NEW w, NEW l, NEW m \in Messages, NEW p,
           NEW n, LineBelow(s, w, l, p, n), m[1] = p => m[2] < n
    PROVE  LineBelow(Append(s, m), w, l, p, n)
<1> DEFINE t == Append(s, m)
<1>1. \A i \in DOMAIN t : IF i \in DOMAIN s THEN t[i] = s[i] ELSE t[i] = m
  OBVIOUS
<1> QED BY <1>1 DEF LineBelow

\* The head of the queue can be taken when nothing is being written.
LEMMA TakeOrdered ==
    ASSUME NEW s \in Seq(Messages), s # <<>>, NEW l \in Lasts,
           LineOrdered(s, Note, l)
    PROVE  LineOrdered(Tail(s), Head(s), l)
<1>1. /\ \A i \in DOMAIN Tail(s) : i + 1 \in DOMAIN s /\ Tail(s)[i] = s[i + 1]
      /\ Head(s) = s[1] /\ 1 \in DOMAIN s
      /\ DOMAIN Tail(s) \subseteq Nat \ {0}
  OBVIOUS
<1>2. \A i, j \in DOMAIN Tail(s) : i < j => Older(Tail(s)[i], Tail(s)[j])
  BY <1>1 DEF LineOrdered
<1>3. \A i \in DOMAIN Tail(s) : Older(Head(s), Tail(s)[i])
  BY <1>1 DEF LineOrdered
<1>4. \A p \in Publishers :
        /\ Older(<<p, l[p]>>, Head(s))
        /\ \A i \in DOMAIN Tail(s) : Older(<<p, l[p]>>, Tail(s)[i])
  BY <1>1 DEF LineOrdered
<1> QED BY <1>2, <1>3, <1>4 DEF LineOrdered

LEMMA TakeBelow ==
    ASSUME NEW s \in Seq(Messages), s # <<>>, NEW l, NEW p, NEW n,
           LineBelow(s, Note, l, p, n)
    PROVE  LineBelow(Tail(s), Head(s), l, p, n)
<1>1. /\ \A i \in DOMAIN Tail(s) : i + 1 \in DOMAIN s /\ Tail(s)[i] = s[i + 1]
      /\ Head(s) = s[1] /\ 1 \in DOMAIN s
  OBVIOUS
<1> QED BY <1>1 DEF LineBelow

\* What is written becomes the last event of its publisher.
LEMMA WrittenOrdered ==
    ASSUME NEW s \in Seq(Messages), NEW w \in Messages, NEW l \in Lasts,
           LineOrdered(s, w, l)
    PROVE  LineOrdered(s, Note, [l EXCEPT ![w[1]] = w[2]])
<1> DEFINE k == [l EXCEPT ![w[1]] = w[2]]
<1>1. \A p \in Publishers : k[p] = l[p] \/ (w[1] = p /\ k[p] = w[2])
  BY DEF Lasts
<1>2. \A i \in DOMAIN s : s[i] \in Messages
  OBVIOUS
<1>3. \A p \in Publishers : \A i \in DOMAIN s : Older(<<p, k[p]>>, s[i])
  BY <1>1, <1>2, PublishersAssumption DEF LineOrdered, Older
<1>4. \A p \in Publishers : Older(<<p, k[p]>>, Note)
  BY PublishersAssumption DEF Older, Note
<1>5. \A i \in DOMAIN s : Older(Note, s[i])
  BY DEF Older, Note
<1> QED BY <1>3, <1>4, <1>5 DEF LineOrdered

LEMMA WrittenBelow ==
    ASSUME NEW s, NEW w, NEW l \in Lasts, NEW p \in Publishers, NEW n,
           LineBelow(s, w, l, p, n)
    PROVE  LineBelow(s, Note, [l EXCEPT ![w[1]] = w[2]], p, n)
  BY PublishersAssumption DEF LineBelow, Lasts, Note

\* Nothing is in disorder because a write is given up.
LEMMA GivenUp ==
    ASSUME NEW s, NEW w, NEW l
    PROVE  /\ LineOrdered(s, w, l) => LineOrdered(s, Note, l)
           /\ \A n : \A p \in Publishers :
                LineBelow(s, w, l, p, n) => LineBelow(s, Note, l, p, n)
  BY PublishersAssumption DEF LineOrdered, LineBelow, Older, Note

-----------------------------------------------------------------------------
(* Types *)

LEMMA EnqueueTyped ==
    ASSUME TypeOK, NEW c \in Clients, NEW m \in Messages, Enqueue(c, m)
    PROVE  /\ send' \in [Clients -> Seq(Messages)]
           /\ \A d \in Clients : Len(send'[d]) <= QueueSize
           /\ pending' \in [Clients -> SUBSET Events]
<1> USE BoundsAssumption
<1>1. /\ send \in [Clients -> Seq(Messages)]
      /\ pending \in [Clients -> SUBSET Events]
      /\ \A d \in Clients : Len(send[d]) <= QueueSize
  BY DEF TypeOK
<1>2. /\ Append(send[c], m) \in Seq(Messages)
      /\ Len(Append(send[c], m)) = Len(send[c]) + 1
      /\ Len(send[c]) \in Nat
  BY <1>1
<1>3. CASE Len(send[c]) < QueueSize
  <2>1. send' = [send EXCEPT ![c] = Append(@, m)] /\ pending' = pending
    BY <1>3 DEF Enqueue
  <2>2. Len(send[c]) + 1 <= QueueSize
    BY <1>2, <1>3
  <2> QED BY <1>1, <1>2, <2>1, <2>2
<1>4. CASE ~(Len(send[c]) < QueueSize)
  BY <1>1, <1>4 DEF Enqueue
<1> QED BY <1>3, <1>4

LEMMA CloseTyped ==
    ASSUME TypeOK, NEW c \in Clients, CallClose(c)
    PROVE  /\ closed' \in [Clients -> BOOLEAN]
           /\ pending' \in [Clients -> SUBSET Events]
  BY DEF TypeOK, CallClose

LEMMA InitTyped == Init => TypeOK
  BY BoundsAssumption, NoteIsMessage DEF Init, TypeOK, HandlerPc

\* Whoever is publishing has counted the event.
Counted == \A p \in Publishers : todo[p] # {} => count[p] > 0

\* The steps of a connection that leave the queues alone.
LEMMA QuietTyped ==
    ASSUME TypeOK, NEW c \in Clients,
           \/ Register(c) \/ SeeClosed(c) \/ WriterClosed(c) \/ Unregister(c)
           \/ FinishClose(c) \/ ReadPong(c) \/ FindStale(c) \/ PeerGone(c)
           \/ BecomeOverdue(c)
    PROVE  TypeOK'
<1> USE DEF TypeOK, Move, HandlerPc, hub, line
<1>1. CASE Register(c) BY <1>1 DEF Register
<1>2. CASE SeeClosed(c) BY <1>2 DEF SeeClosed
<1>3. CASE WriterClosed(c) BY <1>3 DEF WriterClosed
<1>4. CASE Unregister(c) BY <1>4 DEF Unregister
<1>5. CASE FinishClose(c) BY <1>5 DEF FinishClose
<1>6. CASE ReadPong(c) BY <1>6 DEF ReadPong
<1>7. CASE FindStale(c) BY <1>7 DEF FindStale
<1>8. CASE PeerGone(c) BY <1>8 DEF PeerGone
<1>9. CASE BecomeOverdue(c) BY <1>9 DEF BecomeOverdue
<1> QED BY <1>1, <1>2, <1>3, <1>4, <1>5, <1>6, <1>7, <1>8, <1>9

LEMMA TypeStep == TypeOK /\ Counted /\ [Next]_vars => TypeOK'
<1> SUFFICES ASSUME TypeOK, Counted, [Next]_vars PROVE TypeOK'
  OBVIOUS
<1>1. CASE UNCHANGED vars
  BY <1>1 DEF TypeOK, vars, hub, line
<1>2. ASSUME NEW c \in Clients, Greet(c) PROVE TypeOK'
  <2>1. Enqueue(c, Note)
    BY <1>2 DEF Greet
  <2> QED BY <1>2, <2>1, EnqueueTyped, NoteIsMessage
          DEF Greet, TypeOK, Move, HandlerPc, hub
<1>3. ASSUME NEW c \in Clients, Take(c) PROVE TypeOK'
  <2>1. /\ send[c] \in Seq(Messages) /\ send[c] # <<>>
        /\ Len(send[c]) <= QueueSize
    BY <1>3 DEF Take, TypeOK
  <2>2. /\ Head(send[c]) \in Messages /\ Tail(send[c]) \in Seq(Messages)
        /\ Len(Tail(send[c])) <= QueueSize
    BY <2>1, BoundsAssumption
  <2>3. /\ send' = [send EXCEPT ![c] = Tail(@)]
        /\ writing' = [writing EXCEPT ![c] = Head(send[c])]
    BY <1>3 DEF Take
  <2>4. /\ send' \in [Clients -> Seq(Messages)]
        /\ \A d \in Clients : Len(send'[d]) <= QueueSize
        /\ writing' \in [Clients -> Messages]
    BY <2>2, <2>3 DEF TypeOK
  <2> QED BY <1>3, <2>4 DEF Take, TypeOK, Move, HandlerPc, hub
<1>4. ASSUME NEW c \in Clients, Written(c) PROVE TypeOK'
  <2>1. /\ last[c] \in Lasts /\ writing[c] \in Messages
        /\ last \in [Clients -> Lasts]
    BY DEF TypeOK, Lasts
  <2>2. [last[c] EXCEPT ![writing[c][1]] = writing[c][2]] \in Lasts
    BY <2>1, MessageForm DEF Lasts
  <2>3. last' = [last EXCEPT ![c] = [@ EXCEPT ![writing[c][1]] = writing[c][2]]]
    BY <1>4 DEF Written
  <2>4. last' \in [Clients -> Lasts]
    BY <2>1, <2>2, <2>3
  <2>5. /\ pending' \in [Clients -> SUBSET Events]
        /\ writing' \in [Clients -> Messages]
    BY <1>4, NoteIsMessage DEF Written, TypeOK
  <2> QED BY <1>4, <2>4, <2>5 DEF Written, TypeOK, Move, HandlerPc, hub, Lasts
<1>5. ASSUME NEW c \in Clients, WriteFails(c) PROVE TypeOK'
  <2>1. CallClose(c)
    BY <1>5 DEF WriteFails
  <2> QED BY <1>5, <2>1, CloseTyped, NoteIsMessage
          DEF WriteFails, TypeOK, Move, HandlerPc, hub
<1>6. ASSUME NEW c \in Clients, ReadFails(c) PROVE TypeOK'
  <2>1. CallClose(c)
    BY <1>6 DEF ReadFails
  <2> QED BY <1>6, <2>1, CloseTyped DEF ReadFails, TypeOK, hub
<1>7. ASSUME NEW c \in Clients, CloseStale(c) PROVE TypeOK'
  <2>1. CallClose(c)
    BY <1>7 DEF CloseStale
  <2> QED BY <1>7, <2>1, CloseTyped DEF CloseStale, TypeOK
<1>8. ASSUME NEW c \in Clients, Ping(c) PROVE TypeOK'
  <2>1. Enqueue(c, Note)
    BY <1>8 DEF Ping
  <2> QED BY <1>8, <2>1, EnqueueTyped, NoteIsMessage DEF Ping, TypeOK
<1>9. ASSUME NEW p \in Publishers, BeginPublish(p) PROVE TypeOK'
  <2>1. count' \in [Publishers -> 0..MaxEvents]
    BY <1>9, BoundsAssumption DEF BeginPublish, TypeOK
  <2>2. <<p, count[p] + 1>> \in Events
    BY <1>9, BoundsAssumption DEF BeginPublish, TypeOK, Events
  <2>3. pending' \in [Clients -> SUBSET Events]
    BY <1>9, <2>2 DEF BeginPublish, TypeOK
  <2> QED BY <1>9, <2>1, <2>3 DEF BeginPublish, TypeOK, line
<1>10. ASSUME NEW p \in Publishers, NEW c \in Clients, PublishTo(p, c)
       PROVE  TypeOK'
  <2>1. Enqueue(c, <<p, count[p]>>)
    BY <1>10 DEF PublishTo
  <2>2. count[p] > 0 /\ count[p] \in 0..MaxEvents
    BY <1>10 DEF PublishTo, Counted, TypeOK
  <2>3. count[p] \in 1..MaxEvents
    BY <2>2, BoundsAssumption
  <2>4. <<p, count[p]>> \in Messages
    BY <2>3 DEF Messages, Events
  <2> QED BY <1>10, <2>1, <2>4, EnqueueTyped DEF PublishTo, TypeOK
<1>11. ASSUME BeginCheck \/ StaleClosed PROVE TypeOK'
  BY <1>11 DEF BeginCheck, StaleClosed, TypeOK, line
<1>12. ASSUME NEW c \in Clients,
              \/ Register(c) \/ SeeClosed(c) \/ WriterClosed(c)
              \/ Unregister(c) \/ FinishClose(c) \/ ReadPong(c)
              \/ FindStale(c) \/ PeerGone(c) \/ BecomeOverdue(c)
       PROVE  TypeOK'
  BY <1>12, QuietTyped
<1> QED BY <1>1, <1>2, <1>3, <1>4, <1>5, <1>6, <1>7, <1>8, <1>9, <1>10,
           <1>11, <1>12 DEF Next, HandlerSteps, HeartbeatSteps

LEMMA CountedStep == TypeOK /\ Counted /\ [Next]_vars => Counted'
<1> SUFFICES ASSUME TypeOK, Counted, [Next]_vars PROVE Counted'
  OBVIOUS
<1>1. CASE UNCHANGED <<count, todo>>
  BY <1>1 DEF Counted
<1>2. ASSUME NEW p \in Publishers, BeginPublish(p) PROVE Counted'
  BY <1>2, BoundsAssumption DEF BeginPublish, Counted, TypeOK
<1>3. ASSUME NEW p \in Publishers, NEW c \in Clients, PublishTo(p, c)
      PROVE  Counted'
  BY <1>3 DEF PublishTo, Counted, TypeOK
<1>4. ASSUME NEW c \in Clients,
             \/ Register(c) \/ HandlerSteps(c) \/ Unregister(c) \/ Written(c)
             \/ ReadPong(c) \/ ReadFails(c) \/ FinishClose(c)
             \/ PeerGone(c) \/ BecomeOverdue(c)
      PROVE  UNCHANGED <<count, todo>>
  BY <1>4 DEF Register, HandlerSteps, Greet, Take, SeeClosed, WriteFails,
     WriterClosed, Unregister, Written, ReadPong, ReadFails, FinishClose,
     PeerGone, BecomeOverdue, hub
<1>5. ASSUME HeartbeatSteps PROVE UNCHANGED <<count, todo>>
  BY <1>5 DEF HeartbeatSteps, BeginCheck, Ping, FindStale, CloseStale,
     StaleClosed
<1>6. CASE UNCHANGED vars
  BY <1>1, <1>6 DEF vars, hub
<1> QED BY <1>1, <1>2, <1>3, <1>4, <1>5, <1>6 DEF Next

\* The types of the connections, of their queues, which never exceed their
\* size, and of the Hub.
THEOREM HubTypeCorrect == Spec => []TypeOK
<1>1. Init => TypeOK /\ Counted
  BY InitTyped DEF Init, Counted
<1>2. TypeOK /\ Counted /\ [Next]_vars => (TypeOK /\ Counted)'
  BY TypeStep, CountedStep
<1> QED BY <1>1, <1>2, PTL DEF Spec

-----------------------------------------------------------------------------
(* Order *)

\* Nothing is being written outside of conn.Write.
Idle == \A c \in Clients : handler[c] # "writing" => writing[c] = Note

\* All that a client was sent is in order and has been published, and what
\* Publish has still to queue for it is newer.
Line(c) ==
    /\ LineOrdered(send[c], writing[c], last[c])
    /\ \A p \in Publishers :
        /\ LineBelow(send[c], writing[c], last[c], p, count[p] + 1)
        /\ c \in todo[p] => LineBelow(send[c], writing[c], last[c], p, count[p])

Lines == \A c \in Clients : Line(c)

OrderInv == TypeOK /\ Counted /\ Idle /\ Lines

LEMMA IdleStep == TypeOK /\ Idle /\ [Next]_vars => Idle'
<1> SUFFICES ASSUME TypeOK, Idle, [Next]_vars PROVE Idle'
  OBVIOUS
<1> USE DEF TypeOK, Idle, Move, hub, line
<1>1. CASE UNCHANGED <<handler, writing>>
  BY <1>1
<1>2. ASSUME NEW c \in Clients, Register(c) \/ Unregister(c) PROVE Idle'
  <2>1. CASE Register(c) BY <2>1 DEF Register
  <2>2. CASE Unregister(c) BY <2>2 DEF Unregister
  <2> QED BY <1>2, <2>1, <2>2
<1>3. ASSUME NEW c \in Clients, Greet(c) PROVE Idle'
  BY <1>3 DEF Greet
<1>11. ASSUME NEW c \in Clients, SeeClosed(c) \/ WriterClosed(c) PROVE Idle'
  <2>1. CASE SeeClosed(c) BY <2>1 DEF SeeClosed
  <2>2. CASE WriterClosed(c) BY <2>2 DEF WriterClosed
  <2> QED BY <1>11, <2>1, <2>2
<1>4. ASSUME NEW c \in Clients, Take(c) PROVE Idle'
  BY <1>4 DEF Take
<1>5. ASSUME NEW c \in Clients, Written(c) \/ WriteFails(c) PROVE Idle'
  <2>1. writing' = [writing EXCEPT ![c] = Note]
    BY <1>5 DEF Written, WriteFails
  <2>2. \A d \in Clients : d # c => handler'[d] = handler[d]
    BY <1>5 DEF Written, WriteFails
  <2> QED BY <2>1, <2>2
<1>6. ASSUME NEW c \in Clients,
             \/ ReadPong(c) \/ ReadFails(c) \/ FinishClose(c)
             \/ PeerGone(c) \/ BecomeOverdue(c)
      PROVE  UNCHANGED <<handler, writing>>
  BY <1>6 DEF ReadPong, ReadFails, FinishClose, PeerGone, BecomeOverdue
<1>7. ASSUME NEW p \in Publishers, NEW c \in Clients,
             BeginPublish(p) \/ PublishTo(p, c)
      PROVE  UNCHANGED <<handler, writing>>
  BY <1>7 DEF BeginPublish, PublishTo
<1>8. ASSUME NEW p \in Publishers, BeginPublish(p)
      PROVE  UNCHANGED <<handler, writing>>
  BY <1>8 DEF BeginPublish
<1>9. ASSUME HeartbeatSteps PROVE UNCHANGED <<handler, writing>>
  BY <1>9 DEF HeartbeatSteps, BeginCheck, Ping, FindStale, CloseStale,
     StaleClosed
<1>10. CASE UNCHANGED vars
  BY <1>1, <1>10 DEF vars
<1> QED BY <1>1, <1>2, <1>3, <1>4, <1>5, <1>6, <1>7, <1>8, <1>9, <1>10,
           <1>11 DEF Next, HandlerSteps

\* A line that is left alone stays in order.
LEMMA LinesKept ==
    ASSUME Lines, NEW c \in Clients, UNCHANGED <<count, send[c], writing[c], last[c]>>,
           \A p \in Publishers : c \in todo'[p] => c \in todo[p]
    PROVE  Line(c)'
  BY DEF Lines, Line, LineOrdered, LineBelow

\* What is queued for a client is a note, or the event that its publisher has
\* come to: it goes behind all that was sent.
LEMMA EnqueueLines ==
    ASSUME TypeOK, Lines, NEW c \in Clients, NEW m \in Messages, Enqueue(c, m),
           UNCHANGED <<writing, last, count>>,
           \A p \in Publishers : todo'[p] \subseteq todo[p],
           m # Note => /\ m[2] = count[m[1]]
                       /\ c \in todo[m[1]]
                       /\ c \notin todo'[m[1]]
    PROVE  Lines'
<1>1. /\ send[c] \in Seq(Messages) /\ writing[c] \in Messages
      /\ last[c] \in Lasts /\ send \in [Clients -> Seq(Messages)]
  BY DEF TypeOK, Lasts
<1>5. \A p \in Publishers : count[p] \in Nat
  BY BoundsAssumption DEF TypeOK
<1>2. SUFFICES ASSUME NEW d \in Clients PROVE Line(d)'
  BY DEF Lines
<1>3. CASE send'[d] = send[d]
  BY <1>3, LinesKept
<1>4. CASE send'[d] # send[d]
  <2>1. d = c /\ send'[c] = Append(send[c], m)
    BY <1>1, <1>4 DEF Enqueue
  <2>2. m[1] # Hub => LineBelow(send[c], writing[c], last[c], m[1], m[2])
    BY MessageForm, NoteIsMessage DEF Lines, Line
  <2>3. LineOrdered(send'[c], writing[c], last[c])
    BY <1>1, <2>1, <2>2, AppendOrdered DEF Lines, Line
  <2>4. ASSUME NEW p \in Publishers
        PROVE  LineBelow(send'[c], writing[c], last[c], p, count[p] + 1)
    <3>1. m[1] = p => m[2] < count[p] + 1
      BY <1>5, PublishersAssumption, NoteIsMessage
    <3> QED BY <1>1, <2>1, <3>1, AppendBelow DEF Lines, Line
  <2>5. ASSUME NEW p \in Publishers, c \in todo'[p]
        PROVE  LineBelow(send'[c], writing[c], last[c], p, count[p])
    <3>1. m[1] # p
      BY <2>5, PublishersAssumption, NoteIsMessage
    <3>2. LineBelow(send[c], writing[c], last[c], p, count[p])
      BY <2>5 DEF Lines, Line
    <3> QED BY <1>1, <2>1, <3>1, <3>2, AppendBelow
  <2> QED BY <2>1, <2>3, <2>4, <2>5 DEF Line, LineOrdered, LineBelow
<1> QED BY <1>3, <1>4

LEMMA LinesStep == OrderInv /\ [Next]_vars => Lines'
<1> SUFFICES ASSUME OrderInv, [Next]_vars PROVE Lines'
  OBVIOUS
<1> USE DEF OrderInv
<1>0. /\ \A c \in Clients : /\ send[c] \in Seq(Messages)
                            /\ writing[c] \in Messages
                            /\ last[c] \in Lasts
      /\ send \in [Clients -> Seq(Messages)]
      /\ writing \in [Clients -> Messages]
      /\ last \in [Clients -> Lasts]
  BY DEF TypeOK, Lasts
<1>1. CASE UNCHANGED <<send, writing, last, count, todo>>
  BY <1>1 DEF Lines, Line, LineOrdered, LineBelow
<1>2. ASSUME NEW c \in Clients, Greet(c) \/ Ping(c) PROVE Lines'
  <2>1. Enqueue(c, Note) /\ UNCHANGED <<writing, last, count, todo>>
    BY <1>2 DEF Greet, Ping, hub
  <2> QED BY <2>1, EnqueueLines, NoteIsMessage
<1>3. ASSUME NEW p \in Publishers, NEW c \in Clients, PublishTo(p, c)
      PROVE  Lines'
  <2> DEFINE m == <<p, count[p]>>
  <2>1. /\ Enqueue(c, m) /\ UNCHANGED <<writing, last, count>>
        /\ c \in todo[p] /\ todo' = [todo EXCEPT ![p] = @ \ {c}]
    BY <1>3 DEF PublishTo
  <2>2. \A q \in Publishers : todo'[q] \subseteq todo[q]
    BY <2>1 DEF TypeOK
  <2>3. c \notin todo'[p]
    BY <2>1 DEF TypeOK
  <2>4. count[p] > 0 /\ count[p] \in 0..MaxEvents
    BY <2>1 DEF Counted, TypeOK
  <2>5. count[p] \in 1..MaxEvents
    BY <2>4, BoundsAssumption
  <2>6. m \in Messages
    BY <2>5 DEF Messages, Events
  <2>7. m[1] = p /\ m[2] = count[p]
    OBVIOUS
  <2>8. m # Note => /\ m[2] = count[m[1]] /\ c \in todo[m[1]]
                    /\ c \notin todo'[m[1]]
    BY <2>1, <2>3, <2>7
  <2> HIDE DEF m
  <2> QED BY <2>1, <2>2, <2>6, <2>8, EnqueueLines
<1>4. ASSUME NEW c \in Clients, Take(c) PROVE Lines'
  <2>1. /\ send[c] # <<>> /\ writing[c] = Note
        /\ send' = [send EXCEPT ![c] = Tail(@)]
        /\ writing' = [writing EXCEPT ![c] = Head(send[c])]
        /\ UNCHANGED <<last, count, todo>>
    BY <1>4 DEF Take, Move, Idle, hub
  <2>2. LineOrdered(Tail(send[c]), Head(send[c]), last[c])
    BY <1>0, <2>1, TakeOrdered DEF Lines, Line
  <2>3. \A p \in Publishers :
          /\ LineBelow(Tail(send[c]), Head(send[c]), last[c], p, count[p] + 1)
          /\ c \in todo[p] =>
              LineBelow(Tail(send[c]), Head(send[c]), last[c], p, count[p])
    BY <1>0, <2>1, TakeBelow DEF Lines, Line
  <2>4. send'[c] = Tail(send[c]) /\ writing'[c] = Head(send[c])
    BY <1>0, <2>1
  <2>5. \A d \in Clients : d # c => UNCHANGED <<send[d], writing[d], last[d]>>
    BY <1>0, <2>1
  <2>6. Line(c)'
    BY <2>1, <2>2, <2>3, <2>4 DEF Line, LineOrdered, LineBelow
  <2> QED BY <2>1, <2>5, <2>6, LinesKept DEF Lines
<1>5. ASSUME NEW c \in Clients, Written(c) PROVE Lines'
  <2> DEFINE k == [last[c] EXCEPT ![writing[c][1]] = writing[c][2]]
  <2>1. /\ last' = [last EXCEPT ![c] = k]
        /\ writing' = [writing EXCEPT ![c] = Note]
        /\ UNCHANGED <<send, count, todo>>
    BY <1>5 DEF Written, hub
  <2>2. LineOrdered(send[c], Note, k)
    BY <1>0, WrittenOrdered DEF Lines, Line
  <2>3. \A p \in Publishers :
          /\ LineBelow(send[c], Note, k, p, count[p] + 1)
          /\ c \in todo[p] => LineBelow(send[c], Note, k, p, count[p])
    BY <1>0, WrittenBelow DEF Lines, Line
  <2>4. last'[c] = k /\ writing'[c] = Note
    BY <1>0, <2>1
  <2>5. \A d \in Clients : d # c => UNCHANGED <<send[d], writing[d], last[d]>>
    BY <1>0, <2>1
  <2> HIDE DEF k
  <2>6. Line(c)'
    BY <2>1, <2>2, <2>3, <2>4 DEF Line, LineOrdered, LineBelow
  <2> QED BY <2>1, <2>5, <2>6, LinesKept DEF Lines
<1>6. ASSUME NEW c \in Clients, WriteFails(c) PROVE Lines'
  <2>1. /\ writing' = [writing EXCEPT ![c] = Note]
        /\ UNCHANGED <<send, last, count, todo>>
    BY <1>6 DEF WriteFails, hub
  <2>2. /\ LineOrdered(send[c], Note, last[c])
        /\ \A p \in Publishers :
            /\ LineBelow(send[c], Note, last[c], p, count[p] + 1)
            /\ c \in todo[p] => LineBelow(send[c], Note, last[c], p, count[p])
    BY GivenUp DEF Lines, Line
  <2>3. writing'[c] = Note
    BY <1>0, <2>1
  <2>4. \A d \in Clients : d # c => UNCHANGED <<send[d], writing[d], last[d]>>
    BY <1>0, <2>1
  <2>5. Line(c)'
    BY <2>1, <2>2, <2>3 DEF Line, LineOrdered, LineBelow
  <2> QED BY <2>1, <2>4, <2>5, LinesKept DEF Lines
<1>7. ASSUME NEW p \in Publishers, BeginPublish(p) PROVE Lines'
  <2>1. /\ todo[p] = {} /\ count' = [count EXCEPT ![p] = @ + 1]
        /\ todo' = [todo EXCEPT ![p] = clients]
        /\ UNCHANGED <<send, writing, last>>
    BY <1>7 DEF BeginPublish
  <2>2. count'[p] = count[p] + 1 /\ count[p] \in Nat
    BY <2>1, BoundsAssumption DEF TypeOK
  <2>3. \A q \in Publishers : q # p => UNCHANGED <<count[q], todo[q]>>
    BY <2>1 DEF TypeOK
  <2>4. ASSUME NEW c \in Clients
        PROVE  /\ LineBelow(send[c], writing[c], last[c], p, count[p] + 1)'
               /\ LineBelow(send[c], writing[c], last[c], p, count[p])'
    <3>1. LineBelow(send[c], writing[c], last[c], p, count[p] + 1)
      BY DEF Lines, Line
    <3>2. /\ \A i \in DOMAIN send[c] : send[c][i][2] \in Nat
          /\ writing[c][2] \in Nat /\ last[c][p] \in Nat
      BY <1>0, MessageForm, BoundsAssumption DEF Lasts
    <3> QED BY <2>1, <2>2, <3>1, <3>2 DEF LineBelow
  <2>5. ASSUME NEW c \in Clients, NEW q \in Publishers, q # p
        PROVE  /\ LineBelow(send[c], writing[c], last[c], q, count[q] + 1)'
               /\ c \in todo'[q] =>
                   LineBelow(send[c], writing[c], last[c], q, count[q])'
    BY <2>1, <2>3, <2>5 DEF Lines, Line, LineBelow
  <2> QED BY <2>1, <2>4, <2>5 DEF Lines, Line, LineOrdered
<1>8. ASSUME NEW c \in Clients,
             \/ Register(c) \/ SeeClosed(c) \/ WriterClosed(c)
             \/ Unregister(c) \/ FinishClose(c) \/ ReadPong(c) \/ ReadFails(c)
             \/ FindStale(c) \/ PeerGone(c) \/ BecomeOverdue(c)
             \/ CloseStale(c)
      PROVE  UNCHANGED <<send, writing, last, count, todo>>
  BY <1>8 DEF Register, SeeClosed, WriterClosed, Unregister, FinishClose,
     ReadPong, ReadFails, FindStale, PeerGone, BecomeOverdue, CloseStale, hub,
     line
<1>9. ASSUME BeginCheck \/ StaleClosed \/ UNCHANGED vars
      PROVE  UNCHANGED <<send, writing, last, count, todo>>
  BY <1>9 DEF BeginCheck, StaleClosed, vars, hub, line
<1> QED BY <1>1, <1>2, <1>3, <1>4, <1>5, <1>6, <1>7, <1>8, <1>9
        DEF Next, HandlerSteps, HeartbeatSteps

LEMMA InitOrdered == Init => OrderInv
<1> SUFFICES ASSUME Init PROVE OrderInv
  OBVIOUS
<1>1. Counted /\ Idle
  BY DEF Init, Counted, Idle
<1>2. ASSUME NEW c \in Clients PROVE Line(c)
  <2>1. /\ send[c] = <<>> /\ writing[c] = Note
        /\ \A p \in Publishers : /\ last[c][p] = 0 /\ count[p] = 0
                                /\ todo[p] = {}
    BY <1>2 DEF Init
  <2>2. DOMAIN send[c] = {}
    BY <2>1
  <2> QED BY <2>1, <2>2, PublishersAssumption
          DEF Line, LineOrdered, LineBelow, Older, Note
<1> QED BY <1>1, <1>2, InitTyped DEF OrderInv, Lines

LEMMA OrderStep == OrderInv /\ [Next]_vars => OrderInv'
  BY TypeStep, CountedStep, IdleStep, LinesStep DEF OrderInv

\* Nobody ever sees the events of one publisher out of order or twice,
\* for any number of clients and publishers.
THEOREM EventsInOrder == Spec => []InOrder
<1>1. OrderInv => InOrder
  BY DEF OrderInv, Lines, Line, LineOrdered, InOrder
<1> QED BY <1>1, InitOrdered, OrderStep, PTL DEF Spec

-----------------------------------------------------------------------------
(* Nothing is lost *)

OnItsWay(c, e) ==
    \/ e = writing[c]
    \/ \E i \in DOMAIN send[c] : send[c][i] = e
    \/ c \in todo[e[1]] /\ e[2] = count[e[1]]

\* Enqueue queues its message or takes it from what is pending.
LEMMA EnqueueKeeps ==
    ASSUME TypeOK, NothingLost, NEW c \in Clients, NEW m \in Messages,
           Enqueue(c, m), UNCHANGED <<writing, count>>,
           \A d \in Clients, p \in Publishers :
               d \in todo[p] => d \in todo'[p] \/ (d = c /\ m = <<p, count[p]>>)
    PROVE  NothingLost'
<1>1. SUFFICES ASSUME NEW d \in Clients, NEW e \in pending'[d]
               PROVE  OnItsWay(d, e)'
  BY DEF NothingLost, OnItsWay
<1>2. /\ send \in [Clients -> Seq(Messages)] /\ send[c] \in Seq(Messages)
      /\ pending \in [Clients -> SUBSET Events]
  BY DEF TypeOK
<1>3. e \in pending[d] /\ (e = m /\ d = c => send'[c] = Append(send[c], m))
  BY <1>1, <1>2 DEF Enqueue
<1>4. e \in Events /\ OnItsWay(d, e)
  BY <1>2, <1>3 DEF NothingLost, OnItsWay
<1>5. e[1] \in Publishers /\ e = <<e[1], e[2]>>
  BY <1>4 DEF Events
<1>6. \A i \in DOMAIN send[d] : i \in DOMAIN send'[d] /\ send'[d][i] = send[d][i]
  <2>1. \A i \in DOMAIN send[c] : /\ i \in DOMAIN Append(send[c], m)
                                  /\ Append(send[c], m)[i] = send[c][i]
    BY <1>2
  <2> QED BY <1>2, <2>1 DEF Enqueue
<1>7. CASE e = m /\ d = c
  <2>1. /\ Len(send[c]) + 1 \in DOMAIN Append(send[c], m)
        /\ Append(send[c], m)[Len(send[c]) + 1] = m
    BY <1>2
  <2> QED BY <1>3, <1>7, <2>1 DEF OnItsWay
<1>8. CASE ~(e = m /\ d = c)
  BY <1>4, <1>5, <1>6, <1>8 DEF OnItsWay
<1> QED BY <1>7, <1>8

LEMMA LossStep == OrderInv /\ NothingLost /\ [Next]_vars => NothingLost'
<1> SUFFICES ASSUME OrderInv, NothingLost, [Next]_vars PROVE NothingLost'
  OBVIOUS
<1> USE DEF OrderInv
<1>0. /\ send \in [Clients -> Seq(Messages)]
      /\ writing \in [Clients -> Messages]
      /\ pending \in [Clients -> SUBSET Events]
  BY DEF TypeOK
<1>1. CASE UNCHANGED <<send, writing, pending, count, todo>>
  BY <1>1 DEF NothingLost
<1>2. ASSUME NEW c \in Clients, Greet(c) \/ Ping(c) PROVE NothingLost'
  <2>1. Enqueue(c, Note) /\ UNCHANGED <<writing, count, todo>>
    BY <1>2 DEF Greet, Ping, hub
  <2> QED BY <2>1, EnqueueKeeps, NoteIsMessage
<1>3. ASSUME NEW p \in Publishers, NEW c \in Clients, PublishTo(p, c)
      PROVE  NothingLost'
  <2> DEFINE m == <<p, count[p]>>
  <2>1. /\ Enqueue(c, m) /\ UNCHANGED <<writing, count>>
        /\ c \in todo[p] /\ todo' = [todo EXCEPT ![p] = @ \ {c}]
    BY <1>3 DEF PublishTo
  <2>2. count[p] > 0 /\ count[p] \in 0..MaxEvents
    BY <2>1 DEF Counted, TypeOK
  <2>3. count[p] \in 1..MaxEvents
    BY <2>2, BoundsAssumption
  <2>4. m \in Messages
    BY <2>3 DEF Messages, Events
  <2>5. \A d \in Clients, q \in Publishers :
          d \in todo[q] => d \in todo'[q] \/ (d = c /\ m = <<q, count[q]>>)
    BY <2>1 DEF TypeOK
  <2> HIDE DEF m
  <2> QED BY <2>1, <2>4, <2>5, EnqueueKeeps
<1>4. ASSUME NEW c \in Clients, Take(c) PROVE NothingLost'
  <2>1. /\ send[c] # <<>> /\ writing[c] = Note
        /\ send' = [send EXCEPT ![c] = Tail(@)]
        /\ writing' = [writing EXCEPT ![c] = Head(send[c])]
        /\ UNCHANGED <<pending, count, todo>>
    BY <1>4 DEF Take, Move, Idle, hub
  <2>2. \A i \in DOMAIN send[c] :
          \/ send[c][i] = Head(send[c])
          \/ /\ i - 1 \in DOMAIN Tail(send[c])
             /\ Tail(send[c])[i - 1] = send[c][i]
    BY <1>0, <2>1
  <2>3. send'[c] = Tail(send[c]) /\ writing'[c] = Head(send[c])
    BY <1>0, <2>1
  <2>4. \A d \in Clients : d # c => UNCHANGED <<send[d], writing[d]>>
    BY <1>0, <2>1
  <2>5. ASSUME NEW d \in Clients, NEW e \in pending[d] PROVE OnItsWay(d, e)'
    <3>1. OnItsWay(d, e) /\ e \in Events
      BY <1>0 DEF NothingLost, OnItsWay
    <3>2. CASE d = c
      <4>1. e # Note
        BY <3>1, NoteIsMessage
      <4>2. CASE \E i \in DOMAIN send[c] : send[c][i] = e
        BY <2>2, <2>3, <3>2, <4>2 DEF OnItsWay
      <4>3. CASE c \in todo[e[1]] /\ e[2] = count[e[1]]
        BY <2>1, <3>2, <4>3 DEF OnItsWay
      <4> QED BY <2>1, <3>1, <3>2, <4>1, <4>2, <4>3 DEF OnItsWay
    <3>3. CASE d # c
      BY <2>1, <2>4, <3>1, <3>3 DEF OnItsWay
    <3> QED BY <3>2, <3>3
  <2> QED BY <2>1, <2>5 DEF NothingLost, OnItsWay
<1>5. ASSUME NEW c \in Clients, Written(c) PROVE NothingLost'
  <2>1. /\ pending' = [pending EXCEPT ![c] = @ \ {writing[c]}]
        /\ writing' = [writing EXCEPT ![c] = Note]
        /\ UNCHANGED <<send, count, todo>>
    BY <1>5 DEF Written, hub
  <2>2. ASSUME NEW d \in Clients, NEW e \in pending'[d] PROVE OnItsWay(d, e)'
    <3>1. e \in pending[d] /\ (d = c => e # writing[c])
      BY <1>0, <2>1, <2>2
    <3>2. OnItsWay(d, e)
      BY <3>1 DEF NothingLost, OnItsWay
    <3>3. d # c => writing'[d] = writing[d]
      BY <1>0, <2>1
    <3> QED BY <2>1, <3>1, <3>2, <3>3 DEF OnItsWay
  <2> QED BY <2>2 DEF NothingLost, OnItsWay
<1>6. ASSUME NEW c \in Clients, ReadFails(c) \/ WriteFails(c) \/ CloseStale(c)
      PROVE  NothingLost'
  <2>1. /\ pending' = [pending EXCEPT ![c] = {}]
        /\ UNCHANGED <<send, count, todo>>
    BY <1>6 DEF ReadFails, WriteFails, CloseStale, CallClose, hub
  <2>2. \A d \in Clients : d # c => writing'[d] = writing[d]
    BY <1>0, <1>6 DEF ReadFails, WriteFails, CloseStale
  <2>3. ASSUME NEW d \in Clients, NEW e \in pending'[d] PROVE OnItsWay(d, e)'
    <3>1. d # c /\ e \in pending[d]
      BY <1>0, <2>1, <2>3
    <3>2. OnItsWay(d, e)
      BY <3>1 DEF NothingLost, OnItsWay
    <3> QED BY <2>1, <2>2, <3>1, <3>2 DEF OnItsWay
  <2> QED BY <2>3 DEF NothingLost, OnItsWay
<1>7. ASSUME NEW p \in Publishers, BeginPublish(p) PROVE NothingLost'
  <2>1. /\ todo[p] = {} /\ count' = [count EXCEPT ![p] = @ + 1]
        /\ todo' = [todo EXCEPT ![p] = clients]
        /\ pending' = [c \in Clients |->
                          IF c \in clients /\ ~closed[c]
                          THEN pending[c] \cup {<<p, count[p] + 1>>}
                          ELSE pending[c]]
        /\ UNCHANGED <<send, writing>>
    BY <1>7 DEF BeginPublish
  <2>2. /\ count'[p] = count[p] + 1 /\ todo'[p] = clients
        /\ \A q \in Publishers : q # p => UNCHANGED <<count[q], todo[q]>>
    BY <2>1 DEF TypeOK
  <2>3. ASSUME NEW d \in Clients, NEW e \in pending'[d] PROVE OnItsWay(d, e)'
    <3>1. CASE e \in pending[d]
      <4>1. OnItsWay(d, e) /\ e[1] \in Publishers
        BY <1>0, <3>1 DEF NothingLost, OnItsWay, Events
      <4> QED BY <2>1, <2>2, <4>1 DEF OnItsWay
    <3>2. CASE e \notin pending[d]
      <4>1. d \in clients /\ e = <<p, count[p] + 1>>
        BY <2>1, <2>3, <3>2
      <4> QED BY <2>2, <4>1 DEF OnItsWay
    <3> QED BY <3>1, <3>2
  <2> QED BY <2>3 DEF NothingLost, OnItsWay
<1>8. ASSUME NEW c \in Clients,
             \/ Register(c) \/ SeeClosed(c) \/ WriterClosed(c)
             \/ Unregister(c) \/ FinishClose(c) \/ ReadPong(c)
             \/ FindStale(c) \/ PeerGone(c) \/ BecomeOverdue(c)
      PROVE  UNCHANGED <<send, writing, pending, count, todo>>
  BY <1>8 DEF Register, SeeClosed, WriterClosed, Unregister, FinishClose,
     ReadPong, FindStale, PeerGone, BecomeOverdue, hub, line
<1>9. ASSUME BeginCheck \/ StaleClosed \/ UNCHANGED vars
      PROVE  UNCHANGED <<send, writing, pending, count, todo>>
  BY <1>9 DEF BeginCheck, StaleClosed, vars, hub, line
<1> QED BY <1>1, <1>2, <1>3, <1>4, <1>5, <1>6, <1>7, <1>8, <1>9
        DEF Next, HandlerSteps, HeartbeatSteps

\* Publish misses nobody: an event is queued, written or dropped for the full
\* queue of its client until the connection ends, for any number of clients,
\* publishers and events.
THEOREM NoEventIsLost == Spec => []NothingLost
<1>1. Init => OrderInv /\ NothingLost
  BY InitOrdered DEF Init, NothingLost
<1>2. OrderInv /\ NothingLost /\ [Next]_vars => (OrderInv /\ NothingLost)'
  BY LossStep, OrderStep
<1> QED BY <1>1, <1>2, PTL DEF Spec
-----------------------------------------------------------------------------
(* Connections *)

\* The hub knows the connections whose handlers run, no others.
Registered ==
    \A c \in Clients : c \in clients <=> handler[c] \notin {"new", "gone"}

\* A round under the read lock meets only registered clients.
RoundsInside ==
    asking \subseteq clients /\ \A p \in Publishers : todo[p] \subseteq clients

\* Whoever has come to the end of a connection has found it closed or closes
\* it: no handler leaves, and no read loop stops, beside a connection that
\* nobody closes.
EndsClosed ==
    \A c \in Clients :
        \/ handler[c] \in {"closing", "leaving", "gone"}
        \/ reader[c] = "stopped" \/ closing = c \/ conn[c] = "closed"
        => closed[c]

\* A closed channel without a closed connection is the doing of a goroutine
\* that is still closing the connection, so that closeOnce ends.
ClosersRun ==
    \A c \in Clients :
        closed[c] /\ conn[c] # "closed" =>
            reader[c] = "stopped" \/ handler[c] = "closing" \/ closing = c

\* The read loop, which notices a connection that breaks, runs from the end
\* of the registration on until it closes the connection itself; before the
\* registration nobody closes it.
LoopsRun ==
    \A c \in Clients :
        /\ reader[c] = "none" <=> handler[c] \in {"new", "registered"}
        /\ closed[c] \/ c \in stale => handler[c] # "new"

ConnectionInv ==
    Registered /\ RoundsInside /\ EndsClosed /\ ClosersRun /\ LoopsRun

\* An event leaves what is pending for a client by being written to it, with
\* the end of its connection, or for want of room in its own queue.
DropsAreOwn ==
    [][\A c \in Clients : \A e \in pending[c] \ pending'[c] :
          \/ e = writing[c] /\ last'[c][e[1]] = e[2]
          \/ closed'[c]
          \/ Len(send[c]) = QueueSize]_vars
LEMMA ConnectionNext == ASSUME TypeOK, ConnectionInv, Next PROVE ConnectionInv'
<1> USE DEF ConnectionInv, Move, CallClose, hub, line
<1> USE DEF Registered, RoundsInside, EndsClosed, ClosersRun, LoopsRun
<1>0. /\ clients \subseteq Clients
      /\ handler \in [Clients -> HandlerPc]
      /\ reader \in [Clients -> {"none", "reading", "stopped"}]
      /\ closed \in [Clients -> BOOLEAN]
      /\ conn \in [Clients -> {"open", "broken", "closed"}]
      /\ todo \in [Publishers -> SUBSET Clients]
  BY DEF TypeOK
<1>1. ASSUME NEW c \in Clients, Register(c) \/ Unregister(c)
      PROVE  ConnectionInv'
  <2>1. asking = {} /\ \A p \in Publishers : todo[p] = {}
    BY <1>0, <1>1 DEF Register, Unregister, LockFree
  <2> QED BY <1>0, <1>1, <2>1 DEF Register, Unregister
<1>2. ASSUME NEW c \in Clients, Greet(c) \/ Take(c) \/ SeeClosed(c) \/ Written(c)
      PROVE  ConnectionInv'
  BY <1>0, <1>2 DEF Greet, Take, SeeClosed, Written
<1>3. ASSUME NEW c \in Clients, WriteFails(c) \/ WriterClosed(c)
      PROVE  ConnectionInv'
  BY <1>0, <1>3 DEF WriteFails, WriterClosed
<1>4. ASSUME NEW c \in Clients, ReadPong(c) \/ ReadFails(c) \/ FinishClose(c)
      PROVE  ConnectionInv'
  BY <1>0, <1>4 DEF ReadPong, ReadFails, FinishClose
<1>5. ASSUME NEW c \in Clients, PeerGone(c) \/ BecomeOverdue(c)
      PROVE  ConnectionInv'
  BY <1>0, <1>5 DEF PeerGone, BecomeOverdue
<1>6. ASSUME NEW p \in Publishers, BeginPublish(p) PROVE ConnectionInv'
  BY <1>0, <1>6 DEF BeginPublish
<1>7. ASSUME NEW p \in Publishers, NEW c \in Clients, PublishTo(p, c)
      PROVE  ConnectionInv'
  BY <1>0, <1>7 DEF PublishTo
<1>8. CASE BeginCheck \/ StaleClosed
  BY <1>0, <1>8, ClientsAssumption DEF BeginCheck, StaleClosed
<1>9. ASSUME NEW c \in Clients, Ping(c) \/ FindStale(c) \/ CloseStale(c)
      PROVE  ConnectionInv'
  BY <1>0, <1>9, ClientsAssumption DEF Ping, FindStale, CloseStale
<1> QED BY <1>1, <1>2, <1>3, <1>4, <1>5, <1>6, <1>7, <1>8, <1>9
        DEF Next, HandlerSteps, HeartbeatSteps

LEMMA ConnectionsKept == Spec => [](TypeOK /\ ConnectionInv)
<1>1. Init => ConnectionInv
  BY ClientsAssumption DEF Init, ConnectionInv, Registered, RoundsInside,
     EndsClosed, ClosersRun, LoopsRun
<1>2. TypeOK /\ ConnectionInv /\ [Next]_vars => ConnectionInv'
  <2>1. ConnectionInv /\ UNCHANGED vars => ConnectionInv'
    BY DEF ConnectionInv, Registered, RoundsInside, EndsClosed, ClosersRun,
       LoopsRun, vars, hub
  <2> QED BY <2>1, ConnectionNext
<1> QED BY <1>1, <1>2, HubTypeCorrect, PTL DEF Spec

\* Register and unregister keep Hub.clients what it should be, however they
\* meet Publish and checkHeartbeats, which reach registered clients only.
THEOREM HubKnowsItsClients == Spec => [](Registered /\ RoundsInside)
<1>1. ConnectionInv => Registered /\ RoundsInside
  BY DEF ConnectionInv
<1> QED BY <1>1, ConnectionsKept, PTL

\* Both loops and the heartbeat may call close at the same time: a handler
\* leaves a closed connection only, and closeOnce is never left half done by
\* all who came to it.
THEOREM ConnectionsEndClosed == Spec => [](EndsClosed /\ ClosersRun /\ LoopsRun)
<1>1. ConnectionInv => EndsClosed /\ ClosersRun /\ LoopsRun
  BY DEF ConnectionInv
<1> QED BY <1>1, ConnectionsKept, PTL

\* What a client does not get is its own doing: an event is dropped for a full
\* queue of its own or with the end of its own connection, and no client that
\* is slow, broken or closing takes an event from another.
THEOREM NobodyElseDrops == Spec => DropsAreOwn
<1> DEFINE Own(c, e) == \/ e = writing[c] /\ last'[c][e[1]] = e[2]
                        \/ closed'[c]
                        \/ Len(send[c]) = QueueSize
<1>1. ASSUME TypeOK, Next, NEW c \in Clients, NEW e \in pending[c],
             e \notin pending'[c]
      PROVE  Own(c, e)
  <2> USE <1>1 DEF TypeOK, hub, line
  <2>1. ASSUME NEW d \in Clients, NEW m, Enqueue(d, m) PROVE Own(c, e)
    <3>1. Len(send[c]) \in Nat /\ Len(send[c]) <= QueueSize
      OBVIOUS
    <3>2. c = d /\ ~ (Len(send[d]) < QueueSize)
      BY <2>1 DEF Enqueue
    <3> QED BY <3>1, <3>2, BoundsAssumption
  <2>2. ASSUME NEW d \in Clients, CallClose(d) PROVE Own(c, e)
    BY <2>2 DEF CallClose
  <2>3. ASSUME NEW d \in Clients, Written(d) PROVE Own(c, e)
    <3>1. c = d /\ e = writing[c] /\ e \in Events
      BY <2>3 DEF Written
    <3>2. last'[c] = [last[c] EXCEPT ![e[1]] = e[2]] /\ e[1] \in Publishers
      BY <2>3, <3>1 DEF Written, Events
    <3> QED BY <3>1, <3>2
  <2>4. ASSUME NEW p \in Publishers, BeginPublish(p) PROVE Own(c, e)
    BY <2>4 DEF BeginPublish
  <2>5. CASE UNCHANGED pending
    BY <2>5
  <2> QED BY <2>1, <2>2, <2>3, <2>4, <2>5
          DEF Next, HandlerSteps, HeartbeatSteps, Register, Greet, Take,
              SeeClosed, WriteFails, WriterClosed, Unregister, ReadPong,
              ReadFails, FinishClose, PeerGone, BecomeOverdue, PublishTo,
              BeginCheck, Ping, FindStale, CloseStale, StaleClosed
<1>2. TypeOK /\ [Next]_vars =>
        [\A c \in Clients : \A e \in pending[c] \ pending'[c] : Own(c, e)]_vars
  BY <1>1
<1> QED BY <1>2, HubTypeCorrect, PTL DEF Spec, DropsAreOwn
===============================================================================
