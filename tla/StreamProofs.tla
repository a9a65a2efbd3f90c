---------------------------- MODULE StreamProofs ----------------------------
(***************************************************************************)
(* The streams of the transport layers: no payload is delivered twice, and *)
(* the acceptor's sockets deliver each client's payloads in their order.   *)
(* StreamInv is inductive; the steps of one socket that neither send nor   *)
(* deliver a payload keep it for the same reason, stated by SocketStep.    *)
(* ConfirmInv adds what acknowledgements are of; with both, the transport  *)
(* layers implement Stream.  OrderInv is about the order of all messages   *)
(* between one client and the acceptor, if their links keep it: then both  *)
(* directions are ordered and both ends' confirmations tell the truth.     *)
(***************************************************************************)
EXTENDS TransportProofs, SequenceLemmas

Unnumbered == {"not_connected", "waiting_for_submit"}

\* Whether the members of socket s but m_incoming may go from b to t when no
\* payload is sent.
MembersStep(s, b, t) ==
    /\ t.remote_address = b.remote_address
    /\ t.local_port = b.local_port
    /\ b.last_received <= t.last_received
    /\ \/ t.send_task.buf = <<>>
       \/ t.send_task.buf = b.send_task.buf /\ t.send_task.id = b.send_task.id
    /\ s \in Slot => /\ t.remote_port = b.remote_port
                     /\ t.state \notin {"waiting_for_submit", "connection_timeout"}
                     /\ t.send_task.has => t.send_task.type # "connection_request"
    /\ s \in Client => /\ t.state \in Unnumbered => b.state \in Unnumbered
                       /\ \/ b.state \in Unnumbered
                          \/ b.last_outgoing <= t.last_outgoing
                       /\ t.last_outgoing <= MaxOutgoing[s] + 1
                       /\ t.state \notin {"closed", "connection_timeout"} =>
                            t.last_outgoing <= MaxOutgoing[s]

SocketStep(s, b, t) == t.incoming = b.incoming /\ MembersStep(s, b, t)

-----------------------------------------------------------------------------
(* Numbers *)

LEMMA IdsAreNumbers ==
  /\ \A n \in Id : n \in Nat
  /\ \A a, b, c \in Id : a <= b /\ b <= c => a <= c
  /\ \A a, b, c \in Id : a <= b /\ b < c => a < c
  /\ \A a, b \in Id : a <= b => ~ b < a
  /\ \A a, b \in Id : a < b => a <= b
<1>1. \A n \in Id : n \in Nat
  BY SocketAssumption DEF Id
<1> QED
  BY <1>1

\* Within the bound, a client's next id is one more.
LEMMA NextOutgoing ==
  ASSUME NEW s \in Sock, NEW n \in Id, n <= MaxOutgoing[s]
  PROVE  Wrap(n + 1) = n + 1 /\ n + 1 <= MaxOutgoing[s] + 1 /\ n < n + 1
<1>1. n \in Nat /\ MaxOutgoing[s] \in Nat /\ IdMod \in Nat \ {0}
  BY IdsAreNumbers, TransportAssumption, SocketAssumption
<1>2. n + 1 < IdMod
  BY <1>1, NoWrapAssumption
<1>3. (n + 1) % IdMod = n + 1
  BY <1>1, <1>2, SMT
<1> QED
  BY <1>1, <1>3 DEF Wrap

LEMMA Outgoing ==
  \A s \in Sock : MaxOutgoing[s] \in Nat /\ 0 <= MaxOutgoing[s] /\ 1 <= MaxOutgoing[s] + 1
  BY TransportAssumption

-----------------------------------------------------------------------------
(* The operators of Socket *)

LEMMA CreateSendTaskFields ==
  ASSUME NEW s \in SocketType, NEW ack, NEW type, NEW buf, NEW random
  PROVE  LET t == CreateSendTask(s, ack, type, buf, random)
             request == type = "connection_request"
             next == Wrap(s.last_outgoing + 1)
         IN  /\ t.remote_address = s.remote_address
             /\ t.local_port = s.local_port
             /\ t.remote_port = s.remote_port
             /\ t.state = s.state
             /\ t.incoming = s.incoming
             /\ t.last_received = s.last_received
             /\ t.send_task.buf = buf
             /\ t.send_task.type = type
             /\ t.send_task.id = (IF request THEN random ELSE next)
             /\ t.last_outgoing = (IF request THEN s.last_outgoing ELSE next)
  BY DEF CreateSendTask, SocketType

LEMMA AcknowledgeFields ==
  ASSUME NEW s \in SocketType, NEW h
  PROVE  LET t == Acknowledge(s, h)
         IN  /\ t.remote_address = s.remote_address
             /\ t.local_port = s.local_port
             /\ t.remote_port = s.remote_port
             /\ t.state = s.state
             /\ t.incoming = s.incoming
             /\ t.last_received = s.last_received
             /\ t.last_outgoing = s.last_outgoing
             /\ t.send_task = s.send_task \/ t.send_task = NoSendTask
  BY DEF Acknowledge, SocketType

LEMMA PrepareAckFields ==
  ASSUME NEW s \in SocketType, NEW id
  PROVE  LET t == PrepareAck(s, id)
         IN  /\ t.remote_address = s.remote_address
             /\ t.local_port = s.local_port
             /\ t.remote_port = s.remote_port
             /\ t.state = s.state
             /\ t.incoming = s.incoming
             /\ t.last_received = s.last_received
             /\ t.last_outgoing = s.last_outgoing
             /\ t.send_task = s.send_task
  BY DEF PrepareAck, SocketType

\* What IdentityInv and ClientIdsInv say of one socket's own members.
Proper(s, b) ==
    /\ s \in Slot => /\ b.state \notin {"waiting_for_submit", "connection_timeout"}
                     /\ b.send_task.has => b.send_task.type # "connection_request"
    /\ s \in Client => /\ b.last_outgoing <= MaxOutgoing[s] + 1
                       /\ b.state \notin {"closed", "connection_timeout"} =>
                            b.last_outgoing <= MaxOutgoing[s]

LEMMA SameStep ==
  ASSUME NEW s \in Sock, NEW b \in SocketType, NEW t \in SocketType, Proper(s, b),
         t.remote_address = b.remote_address, t.local_port = b.local_port,
         t.remote_port = b.remote_port, t.incoming = b.incoming,
         t.last_received = b.last_received, t.last_outgoing = b.last_outgoing,
         t.send_task = b.send_task \/ t.send_task = NoSendTask,
         t.state = b.state
  PROVE  SocketStep(s, b, t)
<1>1. b.last_received \in Id /\ b.last_outgoing \in Id
  BY DEF SocketType
<1>2. b.last_received <= b.last_received /\ b.last_outgoing <= b.last_outgoing
  BY <1>1, IdsAreNumbers
<1>3. NoSendTask.buf = <<>> /\ NoSendTask.has = FALSE
  BY DEF NoSendTask
<1> QED
  BY <1>2, <1>3 DEF SocketStep, MembersStep, Proper

LEMMA ConnectStep ==
  ASSUME NEW s \in Client, NEW b \in SocketType, NEW random,
         b.state = "not_connected"
  PROVE  SocketStep(s, b, Connect(b, random))
<1> DEFINE z == [b EXCEPT !.last_outgoing = 0]
           u == CreateSendTask(z, 0, "connection_request", <<>>, random)
           t == Connect(b, random)
<1>1. z \in SocketType
  BY ZeroOne DEF SocketType
<1>3. /\ z.remote_address = b.remote_address /\ z.local_port = b.local_port
      /\ z.incoming = b.incoming /\ z.last_received = b.last_received
      /\ z.last_outgoing = 0
  BY DEF SocketType
<1>4. /\ t.remote_address = u.remote_address /\ t.local_port = u.local_port
      /\ t.incoming = u.incoming /\ t.last_received = u.last_received
      /\ t.send_task = u.send_task /\ t.last_outgoing = u.last_outgoing
      /\ t.state = "waiting_for_submit"
  BY DEF Connect, CreateSendTask, SocketType
<1> HIDE DEF z
<1>2. /\ u.remote_address = z.remote_address /\ u.local_port = z.local_port
      /\ u.incoming = z.incoming /\ u.last_received = z.last_received
      /\ u.send_task.buf = <<>> /\ u.last_outgoing = z.last_outgoing
  BY <1>1, CreateSendTaskFields
<1> HIDE DEF u, t
<1>5. b.last_received <= b.last_received
  BY IdsAreNumbers DEF SocketType
<1>6. s \notin Slot /\ MaxOutgoing[s] \in Nat
  BY Apart, Outgoing
<1>7. 0 <= MaxOutgoing[s] + 1 /\ 0 <= MaxOutgoing[s]
  BY <1>6
<1>9. SocketStep(s, b, t)
  BY <1>2, <1>3, <1>4, <1>5, <1>6, <1>7 DEF SocketStep, MembersStep, Unnumbered
<1> QED
  BY <1>9 DEF t

\* A message other than a connection request, with a new task and no payload.
LEMMA NewTaskStep ==
  ASSUME NEW s \in Sock, NEW b \in SocketType, Proper(s, b),
         NEW a \in SocketType, NEW ack, NEW type, type # "connection_request", NEW random,
         a.remote_address = b.remote_address, a.local_port = b.local_port,
         a.remote_port = b.remote_port, a.incoming = b.incoming,
         a.last_received = b.last_received, a.last_outgoing = b.last_outgoing,
         s \in Client => b.last_outgoing <= MaxOutgoing[s],
         NEW t \in SocketType,
         LET u == CreateSendTask(a, ack, type, <<>>, random)
         IN  /\ t.remote_address = u.remote_address /\ t.local_port = u.local_port
             /\ t.remote_port = u.remote_port /\ t.incoming = u.incoming
             /\ t.last_outgoing = u.last_outgoing /\ t.send_task = u.send_task,
         b.last_received <= t.last_received,
         \/ t.state = "closed"
         \/ /\ t.state = "connected" /\ b.state = "connected"
            /\ s \in Client => b.last_outgoing < MaxOutgoing[s]
  PROVE  SocketStep(s, b, t)
<1> DEFINE u == CreateSendTask(a, ack, type, <<>>, random)
<1>1. /\ u.remote_address = a.remote_address /\ u.local_port = a.local_port
      /\ u.remote_port = a.remote_port /\ u.incoming = a.incoming
      /\ u.send_task.buf = <<>> /\ u.send_task.type = type
      /\ u.last_outgoing = Wrap(a.last_outgoing + 1)
  BY CreateSendTaskFields
<1>2. b.last_outgoing \in Id /\ MaxOutgoing[s] \in Nat /\ b.last_outgoing \in Nat
  BY Outgoing, IdsAreNumbers DEF SocketType
<1>3. s \in Client => /\ t.last_outgoing = b.last_outgoing + 1
                     /\ t.last_outgoing <= MaxOutgoing[s] + 1
  BY <1>1, <1>2, NextOutgoing
<1>4. s \in Client => b.last_outgoing <= t.last_outgoing
  BY <1>2, <1>3
<1>5. s \in Client /\ t.state # "closed" => t.last_outgoing <= MaxOutgoing[s]
  BY <1>2, <1>3
<1>6. t.state \notin Unnumbered \cup {"connection_timeout"}
  BY DEF Unnumbered
<1>7. t.send_task.buf = <<>> /\ t.send_task.type # "connection_request"
  BY <1>1
<1>8. /\ t.remote_address = b.remote_address /\ t.local_port = b.local_port
      /\ t.remote_port = b.remote_port /\ t.incoming = b.incoming
  BY <1>1
<1> HIDE DEF u
<1> QED
  BY <1>3, <1>4, <1>5, <1>6, <1>7, <1>8 DEF SocketStep, MembersStep, Unnumbered

LEMMA SendEmptyStep ==
  ASSUME NEW s \in Sock, NEW b \in SocketType, Proper(s, b), MaySend(b),
         b.last_outgoing < MaxOutgoing[s]
  PROVE  SocketStep(s, b, Send(b, <<>>))
<1> DEFINE t == Send(b, <<>>)
<1>1. t \in SocketType
  BY SendType, EmptyBuffer
<1>2. t = CreateSendTask(b, 0, "data_transfer", <<>>, 0) /\ b.state = "connected"
  BY DEF Send, MaySend
<1>3. t.state = b.state /\ t.last_received = b.last_received
  BY <1>2, CreateSendTaskFields
<1>4. b.last_received <= t.last_received /\ b.last_outgoing <= MaxOutgoing[s]
  BY <1>3, IdsAreNumbers, Outgoing DEF SocketType
<1> HIDE DEF t
<1>9. SocketStep(s, b, t)
  BY <1>1, <1>2, <1>3, <1>4, NewTaskStep
<1> QED
  BY <1>9 DEF t

LEMMA CloseStep ==
  ASSUME NEW s \in Sock, NEW b \in SocketType, Proper(s, b),
         b.last_outgoing < MaxOutgoing[s]
  PROVE  SocketStep(s, b, Close(b))
<1> DEFINE u == CreateSendTask(b, 0, "connection_close", <<>>, 0)
           t == Close(b)
<1>1. t \in SocketType
  BY CloseType
<1>2. u.last_received = b.last_received
  BY CreateSendTaskFields
<1>3. /\ t.remote_address = u.remote_address /\ t.local_port = u.local_port
      /\ t.remote_port = u.remote_port /\ t.incoming = u.incoming
      /\ t.last_outgoing = u.last_outgoing /\ t.send_task = u.send_task
      /\ t.last_received = u.last_received /\ t.state = "closed"
  BY DEF Close, CreateSendTask, SocketType
<1>4. b.last_received <= t.last_received /\ b.last_outgoing <= MaxOutgoing[s]
  BY <1>2, <1>3, IdsAreNumbers, Outgoing DEF SocketType
<1> HIDE DEF t
<1>9. SocketStep(s, b, t)
  BY <1>1, <1>3, <1>4, NewTaskStep
<1> QED
  BY <1>9 DEF t

LEMMA DropIfTimeoutStep ==
  ASSUME NEW s \in Sock, NEW b \in SocketType, Proper(s, b), NEW expired
  PROVE  SocketStep(s, b, DropIfTimeout(b, expired))
<1> DEFINE t == DropIfTimeout(b, expired)
<1>1. /\ t.remote_address = b.remote_address /\ t.local_port = b.local_port
      /\ t.remote_port = b.remote_port /\ t.incoming = b.incoming
      /\ t.last_received = b.last_received /\ t.last_outgoing = b.last_outgoing
      /\ t.send_task = b.send_task \/ t.send_task = NoSendTask
      /\ \/ t.state = b.state
         \/ /\ t.state = "connection_timeout"
            /\ b.send_task.has /\ b.send_task.type = "connection_request"
  BY DEF DropIfTimeout, SocketType
<1>2. b.last_received <= b.last_received /\ b.last_outgoing <= b.last_outgoing
  BY IdsAreNumbers DEF SocketType
<1>3. NoSendTask.buf = <<>> /\ NoSendTask.has = FALSE
  BY DEF NoSendTask
<1> HIDE DEF t
<1>9. SocketStep(s, b, t)
  BY <1>1, <1>2, <1>3 DEF SocketStep, MembersStep, Proper, Unnumbered
<1> QED
  BY <1>9 DEF t

LEMMA TransmittedStep ==
  ASSUME NEW s \in Sock, NEW b \in SocketType, Proper(s, b)
  PROVE  SocketStep(s, b, Transmitted(b))
<1> DEFINE t == Transmitted(b)
<1>1. b.send_task \in SendTask
  BY DEF SocketType
<1>2. /\ t.remote_address = b.remote_address /\ t.local_port = b.local_port
      /\ t.remote_port = b.remote_port /\ t.incoming = b.incoming
      /\ t.last_received = b.last_received /\ t.last_outgoing = b.last_outgoing
      /\ t.state = b.state
      /\ t.send_task = [b.send_task EXCEPT !.ack = IF b.ack_task.has THEN b.ack_task.id ELSE @]
  BY DEF Transmitted, SocketType
<1>3. /\ t.send_task.buf = b.send_task.buf /\ t.send_task.id = b.send_task.id
      /\ t.send_task.has = b.send_task.has /\ t.send_task.type = b.send_task.type
  BY <1>1, <1>2 DEF SendTask
<1>4. b.last_received <= b.last_received /\ b.last_outgoing <= b.last_outgoing
  BY IdsAreNumbers DEF SocketType
<1> HIDE DEF t
<1>9. SocketStep(s, b, t)
  BY <1>2, <1>3, <1>4 DEF SocketStep, MembersStep, Proper
<1> QED
  BY <1>9 DEF t

LEMMA SubmitAgainStep ==
  ASSUME NEW s \in Slot, NEW b \in SocketType, NEW id \in Id
  PROVE  SocketStep(s, b, SendConnectionSubmit(b, id))
<1> DEFINE p == [PrepareAck(b, id) EXCEPT !.last_outgoing = 0]
           u == CreateSendTask(p, 0, "connection_submit", <<>>, 0)
           t == SendConnectionSubmit(b, id)
<1>1. p \in SocketType
  BY PrepareAckType, ZeroOne DEF SocketType
<1>2. /\ p.remote_address = b.remote_address /\ p.local_port = b.local_port
      /\ p.remote_port = b.remote_port /\ p.incoming = b.incoming
      /\ p.last_received = b.last_received
  BY DEF PrepareAck, SocketType
<1> HIDE DEF p
<1>3. /\ u.remote_address = p.remote_address /\ u.local_port = p.local_port
      /\ u.remote_port = p.remote_port /\ u.incoming = p.incoming
      /\ u.last_received = p.last_received
      /\ u.send_task.buf = <<>> /\ u.send_task.type = "connection_submit"
  BY <1>1, CreateSendTaskFields
<1>4. u \in SocketType
  BY <1>1, CreateSendTaskType, EmptyBuffer, ZeroOne DEF MessageType
<1>8. t = [u EXCEPT !.state = "connected"]
  BY DEF p, SendConnectionSubmit
<1> HIDE DEF u, t
<1>5. /\ t.remote_address = u.remote_address /\ t.local_port = u.local_port
      /\ t.remote_port = u.remote_port /\ t.incoming = u.incoming
      /\ t.last_received = u.last_received /\ t.send_task = u.send_task
      /\ t.state = "connected"
  BY <1>4, <1>8 DEF SocketType
<1>6. b.last_received <= b.last_received
  BY IdsAreNumbers DEF SocketType
<1>7. s \notin Client
  BY Apart
<1>9. SocketStep(s, b, t)
  BY <1>2, <1>3, <1>5, <1>6, <1>7 DEF SocketStep, MembersStep
<1> QED
  BY <1>9 DEF t

\* A message that is not new, or that is not for the stream.
LEMMA ReceiveDataStep ==
  ASSUME NEW s \in Sock, NEW b \in SocketType, Proper(s, b), NEW a \in SocketType,
         SocketStep(s, b, a), a.last_received = b.last_received, a.state = b.state,
         NEW h \in Message, b.last_received <= h.id
  PROVE  LET t == ReceiveData(a, h)
         IN  /\ MembersStep(s, b, t)
             /\ t.incoming = b.incoming \/ t.incoming = b.incoming \o h.buf
             /\ t.last_received = h.id
<1> DEFINE q == IF Len(a.incoming) < QueueMax THEN a.incoming \o h.buf ELSE a.incoming
           p == PrepareAck(a, h.id)
           pushed == IF h.buf = <<>> THEN a ELSE [p EXCEPT !.incoming = q]
           n == Wrap(pushed.missed + h.id - (a.last_received + 1))
           t == [pushed EXCEPT !.missed = n, !.last_received = h.id]
<1>1. p \in SocketType /\ h.id \in Id
  BY PrepareAckType DEF Message
<1>2. /\ p.remote_address = a.remote_address /\ p.local_port = a.local_port
      /\ p.remote_port = a.remote_port /\ p.incoming = a.incoming
      /\ p.last_outgoing = a.last_outgoing /\ p.send_task = a.send_task
      /\ p.state = a.state
  BY PrepareAckFields
<1>3. ReceiveData(a, h) = t
  BY DEF ReceiveData, PrepareAck, SocketType
<1> HIDE DEF n, p, q
<1>4. /\ pushed.remote_address = a.remote_address /\ pushed.local_port = a.local_port
      /\ pushed.remote_port = a.remote_port
      /\ pushed.incoming = a.incoming \/ pushed.incoming = q
      /\ pushed.last_outgoing = a.last_outgoing /\ pushed.send_task = a.send_task
      /\ pushed.state = a.state
  BY <1>1, <1>2 DEF SocketType
<1>5. DOMAIN pushed = DOMAIN a
  BY <1>1 DEF SocketType
<1> HIDE DEF pushed
<1>6. /\ t.remote_address = pushed.remote_address /\ t.local_port = pushed.local_port
      /\ t.remote_port = pushed.remote_port /\ t.incoming = pushed.incoming
      /\ t.last_outgoing = pushed.last_outgoing /\ t.send_task = pushed.send_task
      /\ t.state = pushed.state /\ t.last_received = h.id
  BY <1>5 DEF SocketType
<1>7. q = a.incoming \/ q = a.incoming \o h.buf
  BY DEF q
<1> HIDE DEF t
<1>8. MembersStep(s, b, t)
  BY <1>4, <1>6 DEF SocketStep, MembersStep
<1>9. t.incoming = b.incoming \/ t.incoming = b.incoming \o h.buf
  BY <1>4, <1>6, <1>7 DEF SocketStep
<1> QED
  BY <1>3, <1>6, <1>8, <1>9

\* What receive() does to the members: it queues nothing, or new data.
LEMMA ReceiveStep ==
  ASSUME NEW s \in Sock, NEW b \in SocketType, Proper(s, b), NEW h \in Message,
         h.type # "connection_request",
         h.type = "connection_submit" => b.state \in {"waiting_for_submit", "connected"},
         h.type = "connection_close_submit" => b.state = "closed",
         h.type \in {"data_transfer", "connection_close"} => b.state = "connected"
  PROVE  LET t == Receive(b, h)
         IN  \/ SocketStep(s, b, t)
             \/ /\ MembersStep(s, b, t)
                /\ t.incoming = b.incoming \o h.buf
                /\ h.type = "data_transfer"
                /\ b.last_received < h.id
                /\ t.last_received = h.id
<1> DEFINE a == Acknowledge(b, h)
           t == Receive(b, h)
<1>1. a \in SocketType
  BY AcknowledgeType
<1>2. /\ a.remote_address = b.remote_address /\ a.local_port = b.local_port
      /\ a.remote_port = b.remote_port /\ a.incoming = b.incoming
      /\ a.last_received = b.last_received /\ a.last_outgoing = b.last_outgoing
      /\ a.send_task = b.send_task \/ a.send_task = NoSendTask
      /\ a.state = b.state
  BY AcknowledgeFields
<1>3. h.id \in Id /\ h.sport \in Port /\ h.type \in MessageType
  BY DEF Message
<1>4. CASE b.state = "connection_timeout"
  BY <1>3, <1>4 DEF MessageType
<1>5. CASE b.state # "connection_timeout" /\ IsDuplicate(b, h)
  <2>1. t = PrepareAck(a, h.id)
    BY <1>5 DEF Receive
  <2>2. t \in SocketType
    BY <1>1, <1>3, <2>1, PrepareAckType
  <2>3. /\ t.remote_address = b.remote_address /\ t.local_port = b.local_port
        /\ t.remote_port = b.remote_port /\ t.incoming = b.incoming
        /\ t.last_received = b.last_received /\ t.last_outgoing = b.last_outgoing
        /\ t.send_task = b.send_task \/ t.send_task = NoSendTask
        /\ t.state = b.state
    BY <1>1, <1>2, <2>1, PrepareAckFields
  <2> HIDE DEF t, a
  <2>4. SocketStep(s, b, t)
    BY <2>2, <2>3, SameStep
  <2> QED
    BY <2>4 DEF t
<1>6. CASE b.state # "connection_timeout" /\ ~ IsDuplicate(b, h)
  <2>1. b.last_received < h.id /\ b.last_received <= h.id
    <3>1. b.last_received \in Nat /\ h.id \in Nat /\ ~ (h.id <= b.last_received)
      BY <1>3, <1>6, IdsAreNumbers DEF IsDuplicate, SocketType
    <3> QED
      BY <3>1
  <2>2. t = ReceiveNew(a, h)
    BY <1>6 DEF Receive
  <2> HIDE DEF a
  <2>3. CASE h.type = "connection_close_submit"
    <3>1. t = [a EXCEPT !.send_task = NoSendTask, !.ack_task.has = FALSE,
                        !.unconfirmed = Wrap(@ + IdMod - 1)]
      BY <1>2, <2>2, <2>3 DEF ReceiveNew, ReceiveWhenClosed
    <3>2. t \in SocketType
      BY ReceiveType
    <3>3. /\ t.remote_address = a.remote_address /\ t.local_port = a.local_port
          /\ t.remote_port = a.remote_port /\ t.incoming = a.incoming
          /\ t.last_received = a.last_received /\ t.last_outgoing = a.last_outgoing
          /\ t.send_task = NoSendTask /\ t.state = a.state
      BY <1>1, <3>1 DEF SocketType
    <3> HIDE DEF t
    <3>4. SocketStep(s, b, t)
      BY <1>2, <3>2, <3>3, SameStep
    <3> QED
      BY <3>4 DEF t
  <2>4. CASE h.type = "connection_submit"
    <3>1. t = ReceiveSubmit(a, h)
      BY <1>2, <2>2, <2>4 DEF ReceiveNew
    <3>2. CASE b.state = "waiting_for_submit"
      <4> DEFINE p == PrepareAck(a, h.id)
      <4>1. t = [p EXCEPT !.remote_port = h.sport, !.state = "connected",
                          !.send_task = NoSendTask, !.last_received = h.id]
        BY <1>2, <3>1, <3>2 DEF ReceiveSubmit
      <4>2. p \in SocketType
        BY <1>1, <1>3, PrepareAckType
      <4>3. /\ p.remote_address = a.remote_address /\ p.local_port = a.local_port
            /\ p.incoming = a.incoming /\ p.last_outgoing = a.last_outgoing
        BY <1>1, PrepareAckFields
      <4> HIDE DEF p, t
      <4>4. /\ t.remote_address = p.remote_address /\ t.local_port = p.local_port
            /\ t.incoming = p.incoming /\ t.last_outgoing = p.last_outgoing
            /\ t.send_task = NoSendTask /\ t.last_received = h.id
            /\ t.state = "connected"
        BY <4>1, <4>2 DEF SocketType
      <4>5. NoSendTask.buf = <<>> /\ s \notin Slot
        BY <3>2 DEF NoSendTask, Proper
      <4>6. SocketStep(s, b, t)
        BY <1>2, <2>1, <3>2, <4>3, <4>4, <4>5
           DEF SocketStep, MembersStep, Proper, Unnumbered
      <4> QED
        BY <4>6 DEF t
    <3>3. CASE b.state # "waiting_for_submit"
      <4>1. t = a
        BY <1>2, <3>1, <3>3 DEF ReceiveSubmit
      <4>2. SocketStep(s, b, a)
        BY <1>1, <1>2, SameStep
      <4> QED
        BY <4>1, <4>2
    <3> QED
      BY <3>2, <3>3
  <2>5. CASE h.type = "connection_close"
    <3> DEFINE c == [a EXCEPT !.state = "closed"]
               u == CreateSendTask(c, 0, "connection_close_submit", <<>>, 0)
    <3>1. t = [u EXCEPT !.last_received = h.id] /\ b.state = "connected"
      BY <1>2, <2>2, <2>5 DEF ReceiveNew, ReceiveClose
    <3>2. c \in SocketType
      BY <1>1 DEF SocketType, State
    <3>3. /\ c.remote_address = a.remote_address /\ c.local_port = a.local_port
          /\ c.remote_port = a.remote_port /\ c.incoming = a.incoming
          /\ c.last_received = a.last_received /\ c.last_outgoing = a.last_outgoing
          /\ c.state = "closed"
      BY <1>1 DEF SocketType
    <3> HIDE DEF c
    <3>4. u \in SocketType /\ u.state = c.state
      BY <3>2, CreateSendTaskType, CreateSendTaskFields, EmptyBuffer, ZeroOne DEF MessageType
    <3>5. t \in SocketType
      BY ReceiveType
    <3> HIDE DEF t, u
    <3>6. /\ t.remote_address = u.remote_address /\ t.local_port = u.local_port
          /\ t.remote_port = u.remote_port /\ t.incoming = u.incoming
          /\ t.last_outgoing = u.last_outgoing /\ t.send_task = u.send_task
          /\ t.last_received = h.id /\ t.state = u.state
      BY <3>1, <3>4 DEF SocketType
    <3>7. SocketStep(s, b, t)
      <4>1. s \in Client => b.last_outgoing <= MaxOutgoing[s]
        BY <3>1 DEF Proper
      <4>2. /\ b.last_received <= t.last_received /\ t.state = "closed"
            /\ "connection_close_submit" # "connection_request"
        BY <2>1, <3>3, <3>4, <3>6
      <4> QED
        BY <1>2, <3>2, <3>3, <3>5, <3>6, <4>1, <4>2, NewTaskStep DEF u
    <3> QED
      BY <3>7 DEF t
  <2>6. CASE h.type = "data_transfer"
    <3>1. t = ReceiveData(a, h)
      BY <1>2, <2>2, <2>6 DEF ReceiveNew
    <3>2. SocketStep(s, b, a)
      BY <1>1, <1>2, SameStep
    <3>3. /\ MembersStep(s, b, t)
          /\ t.incoming = b.incoming \/ t.incoming = b.incoming \o h.buf
          /\ t.last_received = h.id
      BY <1>1, <1>2, <2>1, <3>1, <3>2, ReceiveDataStep
    <3> HIDE DEF t
    <3>4. \/ SocketStep(s, b, t)
          \/ /\ MembersStep(s, b, t)
             /\ t.incoming = b.incoming \o h.buf
             /\ h.type = "data_transfer"
             /\ b.last_received < h.id
             /\ t.last_received = h.id
      BY <2>1, <2>6, <3>3 DEF SocketStep
    <3> QED
      BY <3>4 DEF t
  <2> QED
    BY <1>3, <2>3, <2>4, <2>5, <2>6 DEF MessageType
<1> QED
  BY <1>4, <1>5, <1>6

-----------------------------------------------------------------------------
(* Sequences *)

LEMMA SingleBuffer ==
  ASSUME NEW buf \in Buffer, buf # <<>>
  PROVE  \E p \in Payload : buf = <<p>>
<1>1. buf \in Seq(Payload) /\ Len(buf) <= 1
  BY DEF Buffer
<1>4. Len(buf) \in Nat \ {0}
  <2>1. \A q \in Seq(Payload) : q # <<>> => Len(q) \in Nat \ {0}
    BY EmptySeq, Zenon
  <2> QED
    BY <1>1, <2>1
<1>5. Len(buf) = 1
  <2>1. \A n \in Nat \ {0} : n <= 1 => n = 1
    OBVIOUS
  <2> QED
    BY <1>1, <1>4, <2>1, Zenon
<1>2. Len(buf) = 1 /\ buf[1] \in Payload
  BY <1>1, <1>5, ElementOfSeq
<1>3. buf = <<buf[1]>>
  BY <1>1, <1>2
<1> QED
  BY <1>2, <1>3

LEMMA ConcatSingle ==
  ASSUME NEW S, NEW q \in Seq(S), NEW r \in Seq(S), NEW p \in S
  PROVE  /\ q \o (r \o <<p>>) = (q \o r) \o <<p>>
         /\ Len((q \o r) \o <<p>>) = Len(q \o r) + 1
         /\ \A i \in 1 .. Len(q \o r) : ((q \o r) \o <<p>>)[i] = (q \o r)[i]
         /\ ((q \o r) \o <<p>>)[Len(q \o r) + 1] = p
<1>1. <<p>> \in Seq(S) /\ Len(<<p>>) = 1 /\ <<p>>[1] = p
  OBVIOUS
<1>2. q \o (r \o <<p>>) = (q \o r) \o <<p>>
  BY <1>1, ConcatAssociative
<1>3. q \o r \in Seq(S) /\ Len(q \o r) \in Nat
  BY ConcatProperties, LenProperties
<1> DEFINE d == q \o r
<1> HIDE DEF d
<1>4. d \in Seq(S) /\ Len(d) \in Nat
  BY <1>3 DEF d
<1>5. /\ Len(d \o <<p>>) = Len(d) + 1
      /\ \A i \in 1 .. Len(d) + 1 :
           (d \o <<p>>)[i] = IF i <= Len(d) THEN d[i] ELSE <<p>>[i - Len(d)]
  BY <1>1, <1>4, ConcatProperties
<1>6. /\ \A i \in 1 .. Len(d) : (d \o <<p>>)[i] = d[i]
      /\ (d \o <<p>>)[Len(d) + 1] = p
  BY <1>1, <1>4, <1>5
<1> QED
  BY <1>2, <1>5, <1>6 DEF d

LEMMA ConcatPayload ==
  \A q, r \in Seq(Payload) : \A p \in Payload :
     q \o (r \o <<p>>) = (q \o r) \o <<p>>
<1> DEFINE S == Payload
<1> SUFFICES ASSUME NEW q \in Seq(S), NEW r \in Seq(S), NEW p \in S
             PROVE  q \o (r \o <<p>>) = (q \o r) \o <<p>>
  OBVIOUS
<1> HIDE DEF S
<1> QED
  BY ConcatSingle

\* Taking a message off a link leaves messages that were there.
LEMMA TakeMessages ==
  ASSUME net \in [Link -> Seq(Message)], MessagesNumbered,
         NEW l \in Link, NEW i, i \in Arriving(l), Take(l, i), UNCHANGED sent
  PROVE  MessagesNumbered'
<1>1. i \in DOMAIN net[l] /\ net[l] \in Seq(Message)
  BY DEF Arriving
<1>2. /\ WithoutPlace(net[l], i) \in Seq(Message)
      /\ Len(WithoutPlace(net[l], i)) = Len(net[l]) - 1
      /\ \A j \in 1 .. Len(net[l]) - 1 :
           WithoutPlace(net[l], i)[j] = IF j < i THEN net[l][j] ELSE net[l][j + 1]
  BY <1>1, WithoutPlaceProperties
<1>3. \A j \in DOMAIN WithoutPlace(net[l], i) :
        \E k \in DOMAIN net[l] : WithoutPlace(net[l], i)[j] = net[l][k]
  <2> TAKE j \in DOMAIN WithoutPlace(net[l], i)
  <2>1. j \in 1 .. Len(net[l]) - 1 /\ DOMAIN net[l] = 1 .. Len(net[l]) /\ Len(net[l]) \in Nat
    BY <1>1, <1>2
  <2>2. j \in DOMAIN net[l] /\ j + 1 \in DOMAIN net[l]
    BY <2>1
  <2> QED
    BY <1>2, <2>1, <2>2
<1>4. \A k \in Link : \A j \in DOMAIN net'[k] : \E n \in DOMAIN net[k] : net'[k][j] = net[k][n]
  BY <1>3 DEF Take
<1> QED
  BY <1>4 DEF MessagesNumbered, MessageNumbered, Numbered

LEMMA PutMessages ==
  ASSUME net \in [Link -> Seq(Message)], MessagesNumbered,
         NEW l, NEW m \in Message, Put(l, m), MessageNumbered(l, m), UNCHANGED sent
  PROVE  MessagesNumbered'
<1>1. CASE l \notin Link
  <2>1. net' = net
    BY <1>1 DEF Put
  <2> QED
    BY <2>1 DEF MessagesNumbered, MessageNumbered, Numbered
<1>2. CASE l \in Link
  <2>1. \A j \in DOMAIN Append(net[l], m) :
          \/ Append(net[l], m)[j] = m
          \/ j \in DOMAIN net[l] /\ Append(net[l], m)[j] = net[l][j]
    BY <1>2, AppendProperties
  <2>2. \A k \in Link : \A j \in DOMAIN net'[k] :
          \/ k = l /\ net'[k][j] = m
          \/ j \in DOMAIN net[k] /\ net'[k][j] = net[k][j]
    BY <1>2, <2>1 DEF Put
  <2> QED
    BY <2>2 DEF MessagesNumbered, MessageNumbered, Numbered
<1> QED
  BY <1>1, <1>2

-----------------------------------------------------------------------------
(* What a socket has delivered *)

\* Nothing delivered, and no number taken back.
LEMMA DeliveredKept ==
  ASSUME TypeOK, TypeOK', ReceivedInv, AtMostOnce, AcceptorStreamsInOrder,
         \A p \in Payload : p[2] \in DOMAIN sent[p[1]] =>
            p[2] \in DOMAIN sent'[p[1]] /\ sent'[p[1]][p[2]] = sent[p[1]][p[2]],
         \A x \in Sock : Delivered(x)' = Delivered(x),
         \A x \in Sock :
            \/ Delivered(x) = <<>>
            \/ /\ sock[x].last_received <= sock'[x].last_received
               /\ x \in Slot => /\ sock'[x].remote_address = sock[x].remote_address
                                /\ sock'[x].remote_port = sock[x].remote_port
  PROVE  ReceivedInv' /\ AtMostOnce' /\ AcceptorStreamsInOrder'
<1>1. \A x \in Sock : \A i \in DOMAIN Delivered(x) : Delivered(x)[i] \in Payload
  <2>1. \A x \in Sock : Delivered(x) \in Seq(Payload)
    BY ConcatProperties DEF TypeOK, SocketType, Delivered
  <2> QED
    BY <2>1
<1>2. /\ \A x \in Sock : sock[x].last_received \in Id /\ sock'[x].last_received \in Id
      /\ \A x \in Sock : \A n \in DOMAIN sent[x] : sent[x][n] \in Id
      /\ \A p \in Payload : p[1] \in Sock
  BY DEF TypeOK, SocketType, Payload
<1>3. ReceivedInv'
  <2> SUFFICES ASSUME NEW x \in Sock, NEW i \in DOMAIN Delivered(x)
               PROVE  LET p == Delivered(x)[i]
                      IN  /\ p[2] \in DOMAIN sent'[p[1]]
                          /\ sent'[p[1]][p[2]] <= sock'[x].last_received
                          /\ x \in Slot => /\ p[1] \in Client
                                           /\ ClientNode[p[1]] = sock'[x].remote_address
                                           /\ ClientPort[p[1]] = sock'[x].remote_port
    BY DEF ReceivedInv
  <2> DEFINE p == Delivered(x)[i]
  <2>1. /\ p[2] \in DOMAIN sent[p[1]]
        /\ sent[p[1]][p[2]] <= sock[x].last_received
        /\ x \in Slot => /\ p[1] \in Client
                         /\ ClientNode[p[1]] = sock[x].remote_address
                         /\ ClientPort[p[1]] = sock[x].remote_port
    BY DEF ReceivedInv
  <2>2. p \in Payload /\ Delivered(x) # <<>>
    BY <1>1
  <2>3. p[2] \in DOMAIN sent'[p[1]] /\ sent'[p[1]][p[2]] = sent[p[1]][p[2]]
    BY <2>1, <2>2
  <2>4. sent[p[1]][p[2]] \in Id
    BY <1>2, <2>1, <2>2
  <2>5. sent[p[1]][p[2]] <= sock'[x].last_received
    BY <1>2, <2>1, <2>2, <2>4, IdsAreNumbers
  <2> QED
    BY <2>1, <2>2, <2>3, <2>5
<1>4. AtMostOnce' /\ AcceptorStreamsInOrder'
  <2>1. \A x \in Slot : x \in Sock
    BY Apart
  <2> QED
    BY <2>1 DEF AtMostOnce, AcceptorStreamsInOrder, InOrder
<1> QED
  BY <1>3, <1>4

\* One payload delivered: its number is above all numbers delivered before.
LEMMA DeliveredMore ==
  ASSUME TypeOK, TypeOK', ClientIdsInv, ReceivedInv, AtMostOnce, AcceptorStreamsInOrder,
         NEW s \in Sock, NEW p \in Payload, UNCHANGED sent,
         Delivered(s)' = Delivered(s) \o <<p>>,
         \A x \in Sock \ {s} : Delivered(x)' = Delivered(x) /\ sock'[x] = sock[x],
         Numbered(p, sock'[s].last_received),
         sock[s].last_received < sock'[s].last_received,
         s \in Slot => /\ sock'[s].remote_address = sock[s].remote_address
                      /\ sock'[s].remote_port = sock[s].remote_port
                      /\ p[1] \in Client
                      /\ ClientNode[p[1]] = sock[s].remote_address
                      /\ ClientPort[p[1]] = sock[s].remote_port
  PROVE  ReceivedInv' /\ AtMostOnce' /\ AcceptorStreamsInOrder'
<1> DEFINE D == Delivered(s)
           E == D \o <<p>>
           n == Len(D) + 1
           low == sock[s].last_received
           high == sock'[s].last_received
<1>1. /\ D \in Seq(Payload) /\ Len(D) \in Nat /\ DOMAIN D = 1 .. Len(D)
      /\ \A i \in DOMAIN D : D[i] \in Payload
  <2>1. D \in Seq(Payload)
    BY ConcatProperties DEF TypeOK, SocketType, Delivered
  <2> QED
    BY <2>1
<1>2. /\ DOMAIN E = 1 .. n
      /\ \A i \in DOMAIN D : E[i] = D[i]
      /\ E[n] = p
  <2> HIDE DEF D
  <2>1. <<p>> \in Seq(Payload) /\ Len(<<p>>) = 1 /\ <<p>>[1] = p
    OBVIOUS
  <2>2. /\ E \in Seq(Payload) /\ Len(E) = n
        /\ \A i \in 1 .. n : E[i] = IF i <= Len(D) THEN D[i] ELSE <<p>>[i - Len(D)]
    BY <1>1, <2>1, ConcatProperties
  <2> QED
    BY <1>1, <2>1, <2>2
<1>3. /\ low \in Id /\ high \in Id
      /\ \A x \in Sock : \A k \in DOMAIN sent[x] : sent[x][k] \in Id
      /\ \A q \in Payload : q[1] \in Sock /\ q[2] \in Nat \ {0}
  <2>1. sock \in [Sock -> SocketType] /\ sock' \in [Sock -> SocketType]
    BY DEF TypeOK
  <2>2. low \in Id /\ high \in Id
    BY <2>1 DEF SocketType
  <2>3. \A x \in Sock : sent[x] \in Seq(Id)
    BY DEF TypeOK
  <2>4. \A x \in Sock : \A k \in DOMAIN sent[x] : sent[x][k] \in Id
    BY <2>3
  <2> QED
    BY <2>2, <2>4 DEF Payload
<1>4. \A i \in DOMAIN D :
        /\ D[i][2] \in DOMAIN sent[D[i][1]]
        /\ sent[D[i][1]][D[i][2]] \in Id
        /\ sent[D[i][1]][D[i][2]] <= low
        /\ s \in Slot => /\ D[i][1] \in Client
                         /\ ClientNode[D[i][1]] = sock[s].remote_address
                         /\ ClientPort[D[i][1]] = sock[s].remote_port
  BY <1>1, <1>3 DEF ReceivedInv
<1>5. p[2] \in DOMAIN sent[p[1]] /\ sent[p[1]][p[2]] = high
  BY DEF Numbered
<1>6. \A i \in DOMAIN D : sent[D[i][1]][D[i][2]] < high /\ sent[D[i][1]][D[i][2]] <= high
  <2>1. \A k \in Id : k <= low => k < high /\ k <= high
    BY <1>3, IdsAreNumbers
  <2> QED
    BY <1>4, <2>1
<1>7. \A k \in Id : ~ k < k /\ k <= k
  BY IdsAreNumbers
<1>8. \A i \in DOMAIN D : D[i] # p
  BY <1>3, <1>5, <1>6, <1>7
<1>9. ASSUME s \in Slot, NEW i \in DOMAIN D
      PROVE  D[i][1] = p[1] /\ D[i][2] < p[2]
  <2> DEFINE q == D[i]
  <2>1. q \in Payload /\ q[1] \in Client /\ p[1] \in Client /\ q[1] = p[1]
    BY <1>1, <1>4, <1>9, TransportAssumption
  <2>2. q[2] \in DOMAIN sent[p[1]] /\ sent[p[1]][q[2]] < high
    BY <1>4, <1>6, <2>1
  <2>3. q[2] # p[2]
    BY <1>3, <1>5, <1>7, <2>2
  <2>4. ~ p[2] < q[2]
    <3>1. ASSUME p[2] < q[2] PROVE high < sent[p[1]][q[2]]
      BY <1>5, <2>1, <2>2, <3>1 DEF ClientIdsInv
    <3>2. sent[p[1]][q[2]] \in Id
      BY <1>3, <2>2
    <3>3. \A j, k \in Id : j < k => ~ k < j
      BY IdsAreNumbers
    <3> QED
      BY <1>3, <2>2, <3>1, <3>2, <3>3
  <2>5. \A j, k \in Nat \ {0} : j # k /\ ~ k < j => j < k
    OBVIOUS
  <2> QED
    BY <1>3, <2>1, <2>3, <2>4, <2>5
<1> HIDE DEF D, E, n, low, high
<1>10. ReceivedInv'
  <2> SUFFICES ASSUME NEW x \in Sock, NEW i \in DOMAIN Delivered(x)'
               PROVE  LET q == Delivered(x)'[i]
                      IN  /\ q[2] \in DOMAIN sent[q[1]]
                          /\ sent[q[1]][q[2]] <= sock'[x].last_received
                          /\ x \in Slot => /\ q[1] \in Client
                                           /\ ClientNode[q[1]] = sock'[x].remote_address
                                           /\ ClientPort[q[1]] = sock'[x].remote_port
    BY DEF ReceivedInv
  <2>1. CASE x # s
    BY <2>1 DEF ReceivedInv
  <2>2. CASE x = s
    <3>1. Delivered(x)' = E /\ sock'[x].last_received = high
      BY <2>2 DEF D, E, high
    <3>2. i \in DOMAIN D \/ i = n
      BY <1>1, <1>2, <3>1 DEF n
    <3>3. CASE i \in DOMAIN D
      BY <1>2, <1>4, <1>6, <2>2, <3>1, <3>3
    <3>4. CASE i = n
      BY <1>2, <1>3, <1>5, <1>7, <2>2, <3>1, <3>4
    <3> QED
      BY <3>2, <3>3, <3>4
  <2> QED
    BY <2>1, <2>2
<1>11. AtMostOnce'
  <2> SUFFICES ASSUME NEW x \in Sock,
                      NEW i \in DOMAIN Delivered(x)', NEW j \in DOMAIN Delivered(x)',
                      Delivered(x)'[i] = Delivered(x)'[j]
               PROVE  i = j
    BY DEF AtMostOnce
  <2>1. CASE x # s
    BY <2>1 DEF AtMostOnce
  <2>2. CASE x = s
    <3>1. Delivered(x)' = E
      BY <2>2 DEF D, E
    <3>2. (i \in DOMAIN D \/ i = n) /\ (j \in DOMAIN D \/ j = n)
      BY <1>1, <1>2, <3>1 DEF n
    <3>3. \A k, m \in DOMAIN D : D[k] = D[m] => k = m
      BY DEF AtMostOnce, D
    <3> QED
      BY <1>2, <1>8, <3>1, <3>2, <3>3
  <2> QED
    BY <2>1, <2>2
<1>12. AcceptorStreamsInOrder'
  <2> SUFFICES ASSUME NEW x \in Slot,
                      NEW i \in DOMAIN Delivered(x)', NEW j \in DOMAIN Delivered(x)', i < j
               PROVE  /\ Delivered(x)'[i][1] = Delivered(x)'[j][1]
                      /\ Delivered(x)'[i][2] < Delivered(x)'[j][2]
    BY DEF AcceptorStreamsInOrder, InOrder
  <2>1. x \in Sock
    BY Apart
  <2>2. CASE x # s
    BY <2>1, <2>2 DEF AcceptorStreamsInOrder, InOrder
  <2>3. CASE x = s
    <3>1. Delivered(x)' = E
      BY <2>3 DEF D, E
    <3>2. i \in DOMAIN D /\ (j \in DOMAIN D \/ j = n)
      BY <1>1, <1>2, <3>1 DEF n
    <3>3. j \in DOMAIN D => D[i][1] = D[j][1] /\ D[i][2] < D[j][2]
      BY <2>3, <3>2 DEF AcceptorStreamsInOrder, InOrder, D
    <3> QED
      BY <1>2, <1>9, <2>3, <3>1, <3>2, <3>3
  <2> QED
    BY <2>2, <2>3
<1> QED
  BY <1>10, <1>11, <1>12

-----------------------------------------------------------------------------
(* Steps of one socket *)

LEMMA MembersKept ==
  ASSUME StreamInv, NEW s \in Sock, s \in m_sockets,
         NEW t \in SocketType, sock' = [sock EXCEPT ![s] = t],
         MembersStep(s, sock[s], t), UNCHANGED <<sent, taken, m_sockets>>
  PROVE  IdentityInv' /\ ClientIdsInv' /\ TasksNumbered'
<1> USE DEF StreamInv
<1>1. /\ sock \in [Sock -> SocketType]
      /\ \A x \in Sock : sock'[x] = IF x = s THEN t ELSE sock[x]
      /\ \A c \in Client : c \in Sock
      /\ \A x \in Slot : x \in Sock
  BY Apart DEF TypeOK
<1>2. IdentityInv'
  <2>1. \A c \in Client : /\ sock'[c].remote_address = Server
                         /\ sock'[c].local_port = ClientPort[c]
    BY <1>1 DEF IdentityInv, MembersStep
  <2>2. ASSUME NEW x \in Slot
        PROVE  /\ sock'[x].state \notin {"waiting_for_submit", "connection_timeout"}
               /\ sock'[x].send_task.has => sock'[x].send_task.type # "connection_request"
    BY <1>1 DEF IdentityInv, MembersStep
  <2>3. \A x \in Slot : sock'[x].local_port = 0 => x \in FreeSlots
    BY <1>1 DEF FreeSlots, MembersStep
  <2>4. ASSUME NEW x \in Slot, sock'[x].local_port = 0
        PROVE  x \notin m_sockets' /\ taken'[x] = <<>> /\ sock'[x].incoming = <<>>
    <3>1. x \in FreeSlots
      BY <2>3, <2>4
    <3>2. x \notin m_sockets /\ taken[x] = <<>> /\ sock[x].incoming = <<>>
      BY <3>1 DEF IdentityInv
    <3> QED
      BY <1>1, <3>2
  <2>5. FreeSlots' = {x \in Slot : sock'[x].local_port = 0}
    BY DEF FreeSlots
  <2> QED
    BY <2>1, <2>2, <2>4, <2>5 DEF IdentityInv
<1>3. ClientIdsInv'
  <2> SUFFICES ASSUME NEW c \in Client
               PROVE  /\ sock'[c].state \in Unnumbered => sent[c] = <<>>
                      /\ sock'[c].last_outgoing <= MaxOutgoing[c] + 1
                      /\ sock'[c].state \notin {"closed", "connection_timeout"} =>
                            sock'[c].last_outgoing <= MaxOutgoing[c]
                      /\ \A i \in DOMAIN sent[c] : sent[c][i] <= sock'[c].last_outgoing
                      /\ \A i, j \in DOMAIN sent[c] : i < j => sent[c][i] < sent[c][j]
    BY DEF ClientIdsInv, Unnumbered
  <2>1. CASE c # s
    BY <1>1, <2>1 DEF ClientIdsInv, Unnumbered
  <2>2. CASE c = s
    <3>1. sock'[c] = t
      BY <1>1, <2>2
    <3>2. /\ t.state \in Unnumbered => sent[c] = <<>>
          /\ t.last_outgoing <= MaxOutgoing[c] + 1
          /\ t.state \notin {"closed", "connection_timeout"} =>
                t.last_outgoing <= MaxOutgoing[c]
          /\ \A i, j \in DOMAIN sent[c] : i < j => sent[c][i] < sent[c][j]
      BY <2>2 DEF ClientIdsInv, MembersStep, Unnumbered
    <3>3. ASSUME NEW i \in DOMAIN sent[c]
          PROVE  sent[c][i] <= t.last_outgoing
      <4>1. sock[c].state \notin Unnumbered
        BY <2>2 DEF ClientIdsInv, Unnumbered
      <4>2. sent[c][i] <= sock[c].last_outgoing /\ sock[c].last_outgoing <= t.last_outgoing
        BY <2>2, <4>1 DEF ClientIdsInv, MembersStep
      <4>3. sent[c] \in Seq(Id) /\ sock[c] \in SocketType
        BY <1>1 DEF TypeOK
      <4>4. /\ sent[c][i] \in Id /\ sock[c].last_outgoing \in Id
            /\ t.last_outgoing \in Id
        BY <4>3 DEF SocketType
      <4> QED
        BY <4>2, <4>4, IdsAreNumbers
    <3> QED
      BY <3>1, <3>2, <3>3
  <2> QED
    BY <2>1, <2>2
<1>4. TasksNumbered'
  <2> SUFFICES ASSUME NEW x \in Sock PROVE TaskNumbered(x)'
    BY DEF TasksNumbered
  <2>1. TaskNumbered(x)
    BY DEF TasksNumbered
  <2>2. \/ sock'[x].send_task.buf = <<>>
        \/ /\ sock'[x].send_task.buf = sock[x].send_task.buf
           /\ sock'[x].send_task.id = sock[x].send_task.id
    BY <1>1 DEF MembersStep
  <2>3. CASE sock'[x].send_task.buf = <<>>
    BY <2>3 DEF TaskNumbered
  <2>4. CASE /\ sock'[x].send_task.buf = sock[x].send_task.buf
             /\ sock'[x].send_task.id = sock[x].send_task.id
    BY <2>1, <2>4 DEF TaskNumbered, Numbered
  <2> QED
    BY <2>2, <2>3, <2>4
<1> QED
  BY <1>2, <1>3, <1>4

LEMMA SocketStepKeeps ==
  ASSUME StreamInv, TypeOK', NEW s \in Sock, s \in m_sockets,
         NEW t \in SocketType, sock' = [sock EXCEPT ![s] = t],
         SocketStep(s, sock[s], t), UNCHANGED <<sent, taken, m_sockets>>,
         MessagesNumbered'
  PROVE  StreamInv'
<1> USE DEF StreamInv
<1>1. MembersStep(s, sock[s], t) /\ t.incoming = sock[s].incoming
  BY DEF SocketStep
<1>2. IdentityInv' /\ ClientIdsInv' /\ TasksNumbered'
  BY <1>1, MembersKept
<1>3. /\ \A x \in Sock : sock'[x] = IF x = s THEN t ELSE sock[x]
      /\ \A x \in Sock : sock[x].last_received \in Id
  BY DEF TypeOK, SocketType
<1>4. \A x \in Sock : Delivered(x)' = Delivered(x)
  BY <1>1, <1>3 DEF Delivered
<1>5. \A x \in Sock :
        /\ sock[x].last_received <= sock'[x].last_received
        /\ x \in Slot => /\ sock'[x].remote_address = sock[x].remote_address
                         /\ sock'[x].remote_port = sock[x].remote_port
  BY <1>1, <1>3, IdsAreNumbers DEF MembersStep
<1>6. \A p \in Payload : p[2] \in DOMAIN sent[p[1]] =>
        p[2] \in DOMAIN sent'[p[1]] /\ sent'[p[1]][p[2]] = sent[p[1]][p[2]]
  OBVIOUS
<1>7. ReceivedInv' /\ AtMostOnce' /\ AcceptorStreamsInOrder'
  BY <1>4, <1>5, <1>6, DeliveredKept
<1> QED
  BY <1>2, <1>7

LEMMA InvIsProper ==
  ASSUME StreamInv, NEW s \in Sock
  PROVE  sock[s] \in SocketType /\ Proper(s, sock[s])
  BY DEF StreamInv, TypeOK, Proper, IdentityInv, ClientIdsInv

LEMMA SameNetwork ==
  ASSUME MessagesNumbered, UNCHANGED <<net, sent>>
  PROVE  MessagesNumbered'
  BY DEF MessagesNumbered, MessageNumbered, Numbered

LEMMA TransmitKeeps ==
  ASSUME StreamInv, TypeOK', NEW s \in Sock, Transmit(s)
  PROVE  StreamInv'
<1> USE DEF StreamInv
<1> DEFINE b == sock[s]
           t == Transmitted(b)
           h == TaskHeader(t)
<1>1. b \in SocketType /\ Proper(s, b) /\ t \in SocketType /\ h \in Message
  BY InvIsProper, TransmittedType
<1>2. SocketStep(s, b, t)
  BY <1>1, TransmittedStep
<1>3. /\ h.buf = b.send_task.buf /\ h.id = b.send_task.id /\ h.sport = b.local_port
  <2>1. /\ t.local_port = b.local_port
        /\ t.send_task = [b.send_task EXCEPT !.ack = IF b.ack_task.has THEN b.ack_task.id ELSE @]
    BY <1>1 DEF Transmitted, SocketType
  <2>2. b.send_task \in SendTask
    BY <1>1 DEF SocketType
  <2>3. t.send_task.buf = b.send_task.buf /\ t.send_task.id = b.send_task.id
    BY <2>1, <2>2 DEF SendTask
  <2> QED
    BY <2>1, <2>3 DEF TaskHeader
<1>4. MessageNumbered(LinkOf(s), h)
  <2>1. TaskNumbered(s)
    BY DEF TasksNumbered
  <2>2. LinkOf(s)[1] = Address(s)
    BY DEF LinkOf
  <2>3. s \in Client => b.local_port = ClientPort[s]
    BY DEF IdentityInv
  <2> HIDE DEF h
  <2> QED
    BY <1>3, <2>1, <2>2, <2>3 DEF MessageNumbered, TaskNumbered
<1>5. /\ s \in m_sockets /\ sock' = [sock EXCEPT ![s] = t] /\ Put(LinkOf(s), h)
      /\ UNCHANGED <<m_sockets, sent, taken>>
  BY DEF Transmit, histories
<1>6. MessagesNumbered'
  BY <1>1, <1>4, <1>5, PutMessages DEF TypeOK
<1> HIDE DEF t, h
<1> QED
  BY <1>1, <1>2, <1>5, <1>6, SocketStepKeeps DEF t

LEMMA ForceAckKeeps ==
  ASSUME StreamInv, TypeOK', NEW s \in Sock, NEW expired \in BOOLEAN, ForceAck(s, expired)
  PROVE  StreamInv'
<1> USE DEF StreamInv
<1> DEFINE b == sock[s]
           d == DropIfTimeout(b, expired)
           t == [d EXCEPT !.ack_task.sent = TRUE]
           h == ForceAckHeader(d)
<1>1. b \in SocketType /\ Proper(s, b)
  BY InvIsProper
<1>2. d \in SocketType /\ SocketStep(s, b, d)
  BY <1>1, DropIfTimeoutType, DropIfTimeoutStep
<1>3. t \in SocketType /\ h \in Message
  BY <1>2, ForceAckType
<1>4. /\ s \in m_sockets /\ sock' = [sock EXCEPT ![s] = t] /\ Put(LinkOf(s), h)
      /\ UNCHANGED <<m_sockets, sent, taken>>
  BY DEF ForceAck, histories
<1>5. h.buf = <<>>
  BY DEF ForceAckHeader
<1> HIDE DEF d
<1>6. /\ t.remote_address = d.remote_address /\ t.local_port = d.local_port
      /\ t.remote_port = d.remote_port /\ t.incoming = d.incoming
      /\ t.last_received = d.last_received /\ t.last_outgoing = d.last_outgoing
      /\ t.send_task = d.send_task /\ t.state = d.state
  BY <1>2 DEF SocketType
<1> HIDE DEF t, h
<1>7. SocketStep(s, b, t)
  BY <1>2, <1>6 DEF SocketStep, MembersStep
<1>8. MessageNumbered(LinkOf(s), h)
  BY <1>5 DEF MessageNumbered
<1>9. MessagesNumbered'
  BY <1>3, <1>4, <1>8, PutMessages DEF TypeOK
<1> QED
  BY <1>3, <1>4, <1>7, <1>9, SocketStepKeeps

LEMMA AcceptAgainKeeps ==
  ASSUME StreamInv, TypeOK', NEW l \in Link, NEW i, AcceptAgain(l, i)
  PROVE  StreamInv'
<1> USE DEF StreamInv
<1> DEFINE r == net[l][i].id
           s == cache.map[r]
           t == SendConnectionSubmit(sock[s], r)
<1>1. net[l][i] \in Message /\ i \in Arriving(l) /\ Take(l, i)
  BY TakeType DEF AcceptAgain, TypeOK
<1>2. r \in Id /\ s \in Slot /\ s \in Sock /\ s \in m_sockets
  BY <1>1, Apart DEF Message, AcceptAgain, IsCache, TypeOK
<1>3. sock[s] \in SocketType
  BY <1>2 DEF TypeOK
<1>4. t \in SocketType /\ SocketStep(s, sock[s], t)
  BY <1>2, <1>3, SendConnectionSubmitType, SubmitAgainStep
<1>5. sock' = [sock EXCEPT ![s] = t] /\ UNCHANGED <<m_sockets, sent, taken>>
  BY DEF AcceptAgain, histories
<1>6. MessagesNumbered'
  BY <1>1, <1>5, TakeMessages DEF TypeOK
<1> HIDE DEF s, t
<1> QED
  BY <1>2, <1>4, <1>5, <1>6, SocketStepKeeps

LEMMA ReceiveMessageKeeps ==
  ASSUME StreamInv, TypeOK', NEW l \in Link, NEW i, NEW s \in Sock,
         ReceiveMessage(l, i, s)
  PROVE  StreamInv'
<1> USE DEF StreamInv
<1> DEFINE m == net[l][i]
           b == sock[s]
           t == Receive(b, m)
<1>1. m \in Message /\ i \in Arriving(l) /\ i \in DOMAIN net[l] /\ Take(l, i)
  BY TakeType DEF ReceiveMessage, TypeOK
<1>2. b \in SocketType /\ Proper(s, b) /\ t \in SocketType
  BY <1>1, InvIsProper, ReceiveType
<1>3. /\ sock' = [sock EXCEPT ![s] = t] /\ UNCHANGED <<m_sockets, sent, taken>>
      /\ Recipient(l, m, s)
  BY DEF ReceiveMessage
<1>4. /\ s \in m_sockets /\ Address(s) = l[2] /\ b.remote_address = l[1]
      /\ m.type # "connection_request"
      /\ m.type = "connection_submit" => b.state \in {"waiting_for_submit", "connected"}
      /\ m.type = "connection_close_submit" => b.state = "closed"
      /\ m.type \in {"data_transfer", "connection_close"} =>
           b.state = "connected" /\ b.remote_port = m.sport
  <2>1. m.type \in MessageType
    BY <1>1 DEF Message
  <2> HIDE DEF m
  <2> QED
    BY <1>3, <2>1 DEF Recipient, MessageType, ForSubmit, ForCloseSubmit, ForData
<1>5. MessagesNumbered' /\ MessageNumbered(l, m)
  BY <1>1, <1>3, TakeMessages DEF TypeOK, MessagesNumbered
<1>6. \/ SocketStep(s, b, t)
      \/ /\ MembersStep(s, b, t)
         /\ t.incoming = b.incoming \o m.buf
         /\ m.type = "data_transfer"
         /\ b.last_received < m.id
         /\ t.last_received = m.id
  BY <1>1, <1>2, <1>4, ReceiveStep
<1> HIDE DEF t, m
<1>7. CASE SocketStep(s, b, t)
  BY <1>2, <1>3, <1>4, <1>5, <1>7, SocketStepKeeps
<1>8. CASE /\ MembersStep(s, b, t)
           /\ t.incoming = b.incoming \o m.buf
           /\ m.type = "data_transfer"
           /\ b.last_received < m.id
           /\ t.last_received = m.id
  <2>1. m.buf \in Buffer /\ b.incoming \in Seq(Payload) /\ taken[s] \in Seq(Payload)
    BY <1>1, <1>2 DEF Message, SocketType, TypeOK
  <2>2. CASE m.buf = <<>>
    <3>1. SocketStep(s, b, t)
      BY <1>8, <2>1, <2>2, ConcatEmptySeq DEF SocketStep
    <3> QED
      BY <1>2, <1>3, <1>4, <1>5, <3>1, SocketStepKeeps
  <2>3. CASE m.buf # <<>>
    <3>1. PICK p \in Payload : m.buf = <<p>>
      BY <2>1, <2>3, SingleBuffer
    <3>2. IdentityInv' /\ ClientIdsInv' /\ TasksNumbered'
      BY <1>2, <1>3, <1>4, <1>8, MembersKept
    <3>3. \A x \in Sock : sock'[x] = IF x = s THEN t ELSE sock[x]
      BY <1>3 DEF TypeOK
    <3>4. Delivered(s)' = Delivered(s) \o <<p>>
      <4>1. taken'[s] = taken[s] /\ sock'[s].incoming = b.incoming \o <<p>>
        BY <1>3, <1>8, <3>1, <3>3
      <4>2. taken[s] \o (b.incoming \o <<p>>) = (taken[s] \o b.incoming) \o <<p>>
        BY <2>1, ConcatPayload, Zenon
      <4> QED
        BY <4>1, <4>2 DEF Delivered
    <3>5. \A x \in Sock \ {s} : Delivered(x)' = Delivered(x) /\ sock'[x] = sock[x]
      BY <1>3, <3>3 DEF Delivered
    <3>6. /\ Numbered(p, m.id)
          /\ l[1] = Address(p[1])
          /\ p[1] \in Client => m.sport = ClientPort[p[1]]
      <4>1. 1 \in DOMAIN m.buf /\ m.buf[1] = p
        BY <3>1
      <4> QED
        BY <1>5, <4>1 DEF MessageNumbered
    <3>7. s \in Slot => /\ p[1] \in Client
                       /\ ClientNode[p[1]] = b.remote_address
                       /\ ClientPort[p[1]] = b.remote_port
      <4>1. p[1] \in Sock /\ l[1] # l[2]
        BY DEF Payload, Link
      <4>2. s \in Slot => Address(s) = Server
        BY Apart DEF Address
      <4>3. s \in Slot => p[1] \in Client
        BY <1>4, <3>6, <4>1, <4>2, Apart DEF Address
      <4> QED
        BY <1>4, <1>8, <3>6, <4>3 DEF Address
    <3>8. /\ Numbered(p, sock'[s].last_received)
          /\ sock[s].last_received < sock'[s].last_received
          /\ s \in Slot => /\ sock'[s].remote_address = sock[s].remote_address
                           /\ sock'[s].remote_port = sock[s].remote_port
      BY <1>8, <3>3, <3>6 DEF MembersStep
    <3>9. ReceivedInv' /\ AtMostOnce' /\ AcceptorStreamsInOrder'
      BY <1>3, <3>4, <3>5, <3>7, <3>8, DeliveredMore
    <3> QED
      BY <1>5, <3>2, <3>9
  <2> QED
    BY <2>2, <2>3
<1> QED
  BY <1>6, <1>7, <1>8

LEMMA CallSendKeeps ==
  ASSUME StreamInv, TypeOK', NEW s \in Sock, CallSend(s)
  PROVE  StreamInv'
<1> USE DEF StreamInv
<1> DEFINE b == sock[s]
           n == Len(sent[s]) + 1
           id == Wrap(b.last_outgoing + 1)
           t == Send(b, <<<<s, n>>>>)
<1>1. /\ b \in SocketType /\ Proper(s, b) /\ b.state = "connected"
      /\ b.last_outgoing \in Id /\ b.last_outgoing <= MaxOutgoing[s]
      /\ b.last_outgoing < MaxOutgoing[s]
  <2>1. b \in SocketType /\ Proper(s, b)
    BY InvIsProper
  <2>2. b.last_outgoing \in Id /\ b.last_outgoing < MaxOutgoing[s]
    BY <2>1 DEF CallSend, SocketType
  <2>3. b.last_outgoing <= MaxOutgoing[s]
    BY <2>2, Outgoing, IdsAreNumbers
  <2> QED
    BY <2>1, <2>2, <2>3 DEF CallSend, MaySend
<1>2. /\ t.remote_address = b.remote_address /\ t.local_port = b.local_port
      /\ t.remote_port = b.remote_port /\ t.state = b.state
      /\ t.incoming = b.incoming /\ t.last_received = b.last_received
      /\ t.send_task.buf = <<<<s, n>>>> /\ t.send_task.type = "data_transfer"
      /\ t.send_task.id = id /\ t.last_outgoing = id
  BY <1>1, CreateSendTaskFields DEF Send
<1>3. /\ sock' = [sock EXCEPT ![s] = t]
      /\ sent' = [sent EXCEPT ![s] = Append(@, id)]
      /\ UNCHANGED <<m_sockets, net, taken>>
  BY DEF CallSend
<1> HIDE DEF t
<1>4. /\ \A x \in Sock : sock'[x] = IF x = s THEN t ELSE sock[x]
      /\ \A x \in Sock : sent'[x] = IF x = s THEN Append(sent[s], id) ELSE sent[x]
  BY <1>3 DEF TypeOK
<1>5. /\ sent[s] \in Seq(Id) /\ Len(sent[s]) \in Nat
      /\ DOMAIN sent[s] = 1 .. Len(sent[s])
      /\ id \in Id
  BY <1>1, WrapIds, LenProperties DEF TypeOK
<1>6. /\ DOMAIN Append(sent[s], id) = 1 .. n
      /\ \A i \in DOMAIN sent[s] : Append(sent[s], id)[i] = sent[s][i]
      /\ Append(sent[s], id)[n] = id
      /\ \A i \in 1 .. n : i \in DOMAIN sent[s] \/ i = n
      /\ \A i \in DOMAIN sent[s] : i \in 1 .. n /\ i # n /\ ~ n < i
      /\ n \in 1 .. n /\ ~ n < n
  <2>1. \A k \in Nat : /\ \A i \in 1 .. k + 1 : i \in 1 .. k \/ i = k + 1
                      /\ \A i \in 1 .. k : i \in 1 .. k + 1 /\ i # k + 1 /\ ~ k + 1 < i
                      /\ k + 1 \in 1 .. k + 1 /\ ~ k + 1 < k + 1
    OBVIOUS
  <2>2. /\ Append(sent[s], id) \in Seq(Id)
        /\ Len(Append(sent[s], id)) = Len(sent[s]) + 1
        /\ \A i \in 1 .. Len(sent[s]) : Append(sent[s], id)[i] = sent[s][i]
        /\ Append(sent[s], id)[Len(sent[s]) + 1] = id
    BY <1>5, AppendProperties
  <2>3. DOMAIN Append(sent[s], id) = 1 .. n
    BY <2>2, LenProperties
  <2> QED
    BY <1>5, <2>1, <2>2, <2>3
<1> HIDE DEF n, id
<1>7. \A p \in Payload : p[2] \in DOMAIN sent[p[1]] =>
        p[2] \in DOMAIN sent'[p[1]] /\ sent'[p[1]][p[2]] = sent[p[1]][p[2]]
  <2>1. \A p \in Payload : p[1] \in Sock
    BY DEF Payload
  <2> SUFFICES ASSUME NEW p \in Payload, p[2] \in DOMAIN sent[p[1]]
               PROVE  p[2] \in DOMAIN sent'[p[1]] /\ sent'[p[1]][p[2]] = sent[p[1]][p[2]]
    OBVIOUS
  <2>2. CASE p[1] # s
    BY <1>4, <2>1, <2>2
  <2>3. CASE p[1] = s
    <3>1. sent'[p[1]] = Append(sent[s], id) /\ p[2] \in DOMAIN sent[s]
      BY <1>4, <2>3
    <3>2. p[2] \in DOMAIN Append(sent[s], id) /\ Append(sent[s], id)[p[2]] = sent[s][p[2]]
      BY <1>6, <3>1
    <3> QED
      BY <2>3, <3>1, <3>2
  <2> QED
    BY <2>2, <2>3
<1>8. \A p \in Payload : \A k : Numbered(p, k) => Numbered(p, k)'
  BY <1>7 DEF Numbered
<1>9. IdentityInv'
  <2>1. \A x \in Slot : sock'[x].local_port = sock[x].local_port
    BY <1>2, <1>4, Apart
  <2>2. FreeSlots' = FreeSlots
    BY <2>1 DEF FreeSlots
  <2> QED
    BY <1>1, <1>2, <1>3, <1>4, <2>2, Apart DEF IdentityInv
<1>10. ClientIdsInv'
  <2> SUFFICES ASSUME NEW c \in Client
               PROVE  /\ sock'[c].state \in {"not_connected", "waiting_for_submit"} =>
                           sent'[c] = <<>>
                      /\ sock'[c].last_outgoing <= MaxOutgoing[c] + 1
                      /\ sock'[c].state \notin {"closed", "connection_timeout"} =>
                            sock'[c].last_outgoing <= MaxOutgoing[c]
                      /\ \A i \in DOMAIN sent'[c] : sent'[c][i] <= sock'[c].last_outgoing
                      /\ \A i, j \in DOMAIN sent'[c] : i < j => sent'[c][i] < sent'[c][j]
    BY DEF ClientIdsInv
  <2>1. c \in Sock
    BY Apart
  <2>2. CASE c # s
    BY <1>4, <2>1, <2>2 DEF ClientIdsInv
  <2>3. CASE c = s
    <3>1. /\ id = b.last_outgoing + 1 /\ id <= MaxOutgoing[c] + 1
          /\ b.last_outgoing < id
      BY <1>1, <2>3, NextOutgoing DEF id
    <3>2. id <= MaxOutgoing[c]
      BY <1>1, <2>3, <3>1, Outgoing, IdsAreNumbers
    <3>3. \A i \in DOMAIN sent[c] : /\ sent[c][i] \in Id
                                   /\ sent[c][i] <= b.last_outgoing
                                   /\ sent[c][i] < id /\ sent[c][i] <= id
      <4>1. \A k \in Id : k <= b.last_outgoing => k < id /\ k <= id
        BY <1>1, <1>5, <3>1, IdsAreNumbers
      <4>2. \A i \in DOMAIN sent[c] : sent[c][i] \in Id
        BY <1>5, <2>3
      <4>3. \A i \in DOMAIN sent[c] : sent[c][i] <= b.last_outgoing
        BY <2>3 DEF ClientIdsInv
      <4> QED
        BY <4>1, <4>2, <4>3
    <3>4. id <= id
      BY <1>5, IdsAreNumbers
    <3>5. sock'[c] = t /\ sent'[c] = Append(sent[s], id)
      BY <1>4, <2>3
    <3>6. \A i \in DOMAIN sent'[c] : sent'[c][i] <= t.last_outgoing
      BY <1>2, <1>6, <2>3, <3>3, <3>4, <3>5
    <3>7. \A i, j \in DOMAIN sent[c] : i < j => sent[c][i] < sent[c][j]
      BY DEF ClientIdsInv
    <3>8. \A i, j \in DOMAIN sent'[c] : i < j => sent'[c][i] < sent'[c][j]
      BY <1>6, <2>3, <3>3, <3>5, <3>7
    <3>9. t.state = "connected" /\ t.last_outgoing = id
      BY <1>1, <1>2
    <3> QED
      BY <3>1, <3>2, <3>5, <3>6, <3>8, <3>9
  <2> QED
    BY <2>2, <2>3
<1>11. TasksNumbered'
  <2> SUFFICES ASSUME NEW x \in Sock PROVE TaskNumbered(x)'
    BY DEF TasksNumbered
  <2>1. CASE x # s
    <3>1. sock'[x] = sock[x] /\ sock[x].send_task.buf \in Seq(Payload)
      BY <1>4, <2>1 DEF TypeOK, SocketType, SendTask, Buffer
    <3>2. \A k \in DOMAIN sock[x].send_task.buf : sock[x].send_task.buf[k] \in Payload
      BY <3>1
    <3>3. TaskNumbered(x)
      BY DEF TasksNumbered
    <3> QED
      BY <1>8, <3>1, <3>2, <3>3 DEF TaskNumbered
  <2>2. CASE x = s
    <3>1. sock'[x].send_task.buf = <<<<s, n>>>> /\ sock'[x].send_task.id = id
      BY <1>2, <1>4, <2>2
    <3>2. sent'[s] = Append(sent[s], id)
      BY <1>4
    <3>3. \A k \in DOMAIN <<<<s, n>>>> : <<<<s, n>>>>[k] = <<s, n>>
      OBVIOUS
    <3>4. n \in DOMAIN sent'[s] /\ sent'[s][n] = id
      BY <1>6, <3>2
    <3>5. <<s, n>>[1] = s /\ <<s, n>>[2] = n
      OBVIOUS
    <3> QED
      BY <2>2, <3>1, <3>3, <3>4, <3>5 DEF TaskNumbered, Numbered
  <2> QED
    BY <2>1, <2>2
<1>12. MessagesNumbered'
  <2> SUFFICES ASSUME NEW l \in Link, NEW i \in DOMAIN net[l]
               PROVE  MessageNumbered(l, net[l][i])'
    BY <1>3 DEF MessagesNumbered
  <2> DEFINE m == net[l][i]
  <2>0. net[l] \in Seq(Message) /\ m \in Message
    BY DEF TypeOK
  <2>1. m.buf \in Seq(Payload)
    BY <2>0 DEF Message, Buffer
  <2>2. \A k \in DOMAIN m.buf : m.buf[k] \in Payload
    BY <2>1
  <2>3. MessageNumbered(l, m) /\ net' = net
    BY <1>3 DEF MessagesNumbered
  <2> QED
    BY <1>8, <2>2, <2>3 DEF MessageNumbered
<1>13. ReceivedInv' /\ AtMostOnce' /\ AcceptorStreamsInOrder'
  <2>1. \A x \in Sock : Delivered(x)' = Delivered(x)
    BY <1>2, <1>3, <1>4 DEF Delivered
  <2>2. \A x \in Sock : /\ sock'[x].last_received = sock[x].last_received
                       /\ sock'[x].remote_address = sock[x].remote_address
                       /\ sock'[x].remote_port = sock[x].remote_port
    BY <1>2, <1>4
  <2>3. \A x \in Sock : sock[x].last_received <= sock'[x].last_received
    BY <2>2, IdsAreNumbers DEF TypeOK, SocketType
  <2> QED
    BY <1>7, <2>1, <2>2, <2>3, DeliveredKept
<1> QED
  BY <1>9, <1>10, <1>11, <1>12, <1>13

LEMMA CallGetReceivedKeeps ==
  ASSUME StreamInv, TypeOK', NEW s \in Sock, CallGetReceived(s)
  PROVE  StreamInv'
<1> USE DEF StreamInv
<1> DEFINE b == sock[s]
           t == [b EXCEPT !.incoming = Tail(@)]
<1>1. /\ b \in SocketType /\ taken[s] \in Seq(Payload)
      /\ b.incoming \in Seq(Payload) /\ b.incoming # <<>>
  BY DEF TypeOK, SocketType, CallGetReceived
<1>2. /\ t.remote_address = b.remote_address /\ t.local_port = b.local_port
      /\ t.remote_port = b.remote_port /\ t.state = b.state
      /\ t.last_received = b.last_received /\ t.last_outgoing = b.last_outgoing
      /\ t.send_task = b.send_task
      /\ t.incoming = Tail(b.incoming)
  BY <1>1 DEF SocketType
<1>3. /\ sock' = [sock EXCEPT ![s] = t]
      /\ taken' = [taken EXCEPT ![s] = Append(@, Head(b.incoming))]
      /\ s \in m_sockets
      /\ UNCHANGED <<m_sockets, net, sent>>
  BY DEF CallGetReceived
<1> HIDE DEF t
<1>4. /\ \A x \in Sock : sock'[x] = IF x = s THEN t ELSE sock[x]
      /\ \A x \in Sock : taken'[x] = IF x = s THEN Append(taken[s], Head(b.incoming))
                                              ELSE taken[x]
  BY <1>3 DEF TypeOK
<1>5. \A x \in Sock : /\ sock'[x].remote_address = sock[x].remote_address
                     /\ sock'[x].local_port = sock[x].local_port
                     /\ sock'[x].remote_port = sock[x].remote_port
                     /\ sock'[x].state = sock[x].state
                     /\ sock'[x].last_received = sock[x].last_received
                     /\ sock'[x].last_outgoing = sock[x].last_outgoing
                     /\ sock'[x].send_task = sock[x].send_task
  BY <1>2, <1>4
<1>6. IdentityInv'
  <2>1. FreeSlots' = FreeSlots
    BY <1>5, Apart DEF FreeSlots
  <2>2. \A x \in FreeSlots : x # s /\ x \in Sock
    BY <1>3, Apart DEF IdentityInv, FreeSlots
  <2> QED
    BY <1>3, <1>4, <1>5, <2>1, <2>2, Apart DEF IdentityInv
<1>7. ClientIdsInv'
  BY <1>3, <1>5, Apart DEF ClientIdsInv
<1>8. TasksNumbered'
  BY <1>3, <1>5 DEF TasksNumbered, TaskNumbered, Numbered
<1>9. MessagesNumbered'
  BY <1>3, SameNetwork
<1>10. ReceivedInv' /\ AtMostOnce' /\ AcceptorStreamsInOrder'
  <2>1. \A x \in Sock : Delivered(x)' = Delivered(x)
    <3> SUFFICES ASSUME NEW x \in Sock PROVE Delivered(x)' = Delivered(x)
      OBVIOUS
    <3>1. CASE x # s
      BY <1>4, <3>1 DEF Delivered
    <3>2. CASE x = s
      <4>1. Append(taken[s], Head(b.incoming)) \o Tail(b.incoming) = taken[s] \o b.incoming
        BY <1>1, MoveHead
      <4>2. /\ sock'[x].incoming = Tail(b.incoming)
            /\ taken'[x] = Append(taken[s], Head(b.incoming))
        BY <1>2, <1>4, <3>2
      <4> QED
        BY <3>2, <4>1, <4>2 DEF Delivered
    <3> QED
      BY <3>1, <3>2
  <2>2. \A x \in Sock : sock[x].last_received <= sock'[x].last_received
    BY <1>5, IdsAreNumbers DEF TypeOK, SocketType
  <2>3. \A p \in Payload : p[2] \in DOMAIN sent[p[1]] =>
          p[2] \in DOMAIN sent'[p[1]] /\ sent'[p[1]][p[2]] = sent[p[1]][p[2]]
    BY <1>3
  <2> QED
    BY <1>5, <2>1, <2>2, <2>3, DeliveredKept
<1> QED
  BY <1>6, <1>7, <1>8, <1>9, <1>10

LEMMA AcceptNewKeeps ==
  ASSUME StreamInv, TypeOK', NEW l \in Link, NEW i, NEW s \in Slot,
         NEW port \in AcceptPorts, AcceptNew(l, i, s, port)
  PROVE  StreamInv'
<1> USE DEF StreamInv
<1> DEFINE m == net[l][i]
           new == NewSocket(l[1], port, m.sport, sock[s].ack_task)
           p == [PrepareAck(new, m.id) EXCEPT !.last_outgoing = 0]
           u == CreateSendTask(p, 0, "connection_submit", <<>>, 0)
           t == SendConnectionSubmit(new, m.id)
<1>1. /\ m \in Message /\ i \in Arriving(l) /\ Take(l, i)
      /\ s \in FreeSlots /\ s \in Sock /\ s \notin Client
  BY TakeType, Apart DEF AcceptNew, TypeOK
<1>2. new \in SocketType
  <2>1. sock[s].ack_task \in AckTask
    BY <1>1 DEF TypeOK, SocketType
  <2>2. l[1] \in Node /\ port \in Port /\ m.sport \in Port
    BY <1>1 DEF Link, Port, Message
  <2> QED
    BY <2>1, <2>2, NewSocketType
<1>3. p \in SocketType
  BY <1>1, <1>2, PrepareAckType, ZeroOne DEF SocketType, Message
<1>4. p.local_port = port /\ p.incoming = <<>>
  BY DEF PrepareAck, NewSocket
<1> HIDE DEF p
<1>5. /\ u.local_port = p.local_port /\ u.incoming = p.incoming
      /\ u.send_task.buf = <<>> /\ u.send_task.type = "connection_submit"
      /\ u \in SocketType
  BY <1>3, CreateSendTaskFields, CreateSendTaskType, EmptyBuffer, ZeroOne DEF MessageType
<1>6. t = [u EXCEPT !.state = "connected"]
  BY DEF p, SendConnectionSubmit
<1>7. /\ sock' = [sock EXCEPT ![s] = t] /\ m_sockets' = m_sockets \cup {s}
      /\ UNCHANGED <<sent, taken>>
  BY DEF AcceptNew, histories
<1> HIDE DEF u, t
<1>8. /\ t.local_port = port /\ t.incoming = <<>> /\ t.send_task.buf = <<>>
      /\ t.send_task.type = "connection_submit" /\ t.state = "connected"
  BY <1>4, <1>5, <1>6 DEF SocketType
<1>9. /\ \A x \in Sock : sock'[x] = IF x = s THEN t ELSE sock[x]
      /\ taken[s] = <<>> /\ sock[s].incoming = <<>>
      /\ port # 0
  BY <1>1, <1>7, TransportAssumption DEF TypeOK, IdentityInv
<1>10. IdentityInv'
  <2>1. FreeSlots' = FreeSlots \ {s}
    BY <1>8, <1>9, Apart DEF FreeSlots
  <2> QED
    BY <1>1, <1>7, <1>8, <1>9, <2>1, Apart DEF IdentityInv
<1>11. ClientIdsInv'
  BY <1>1, <1>7, <1>9, Apart DEF ClientIdsInv
<1>12. TasksNumbered'
  BY <1>7, <1>8, <1>9 DEF TasksNumbered, TaskNumbered, Numbered
<1>13. MessagesNumbered'
  BY <1>1, <1>7, TakeMessages DEF TypeOK
<1>14. ReceivedInv' /\ AtMostOnce' /\ AcceptorStreamsInOrder'
  <2>1. \A x \in Sock : Delivered(x)' = Delivered(x)
    BY <1>7, <1>8, <1>9 DEF Delivered
  <2>2. Delivered(s) = <<>>
    BY <1>9, ConcatEmptySeq DEF Delivered
  <2>3. \A x \in Sock : sock[x].last_received <= sock[x].last_received
    BY IdsAreNumbers DEF TypeOK, SocketType
  <2>4. \A x \in Sock : Delivered(x) = <<>> \/ sock'[x] = sock[x]
    BY <1>9, <2>2
  <2>5. \A q \in Payload : q[2] \in DOMAIN sent[q[1]] =>
          q[2] \in DOMAIN sent'[q[1]] /\ sent'[q[1]][q[2]] = sent[q[1]][q[2]]
    BY <1>7
  <2> QED
    BY <2>1, <2>3, <2>4, <2>5, DeliveredKept
<1> QED
  BY <1>10, <1>11, <1>12, <1>13, <1>14

-----------------------------------------------------------------------------
(* The invariant *)

LEMMA SameStreams ==
  ASSUME StreamInv, TypeOK', UNCHANGED <<sock, sent, taken>>,
         m_sockets' \subseteq m_sockets, MessagesNumbered'
  PROVE  StreamInv'
<1> USE DEF StreamInv
<1>1. IdentityInv'
  BY DEF IdentityInv, FreeSlots
<1>2. ClientIdsInv'
  BY DEF ClientIdsInv
<1>3. TasksNumbered'
  BY DEF TasksNumbered, TaskNumbered, Numbered
<1>4. \A x \in Sock : Delivered(x)' = Delivered(x)
  BY DEF Delivered
<1>5. ReceivedInv'
  BY <1>4 DEF ReceivedInv
<1>6. AtMostOnce' /\ AcceptorStreamsInOrder'
  BY <1>4, Apart DEF AtMostOnce, AcceptorStreamsInOrder, InOrder
<1> QED
  BY <1>1, <1>2, <1>3, <1>5, <1>6

LEMMA InitStream == Init => StreamInv
<1> SUFFICES ASSUME Init PROVE StreamInv
  OBVIOUS
<1>1. TypeOK
  BY InitType
<1>2. /\ \A c \in Client : c \in Sock /\ sock[c].remote_address = Server
                          /\ sock[c].local_port = ClientPort[c]
      /\ \A s \in Slot : s \in Sock /\ s \notin Client /\ sock[s].local_port = 0
      /\ \A s \in Sock : /\ sock[s].state = "not_connected"
                          /\ sock[s].send_task = NoSendTask
                          /\ sock[s].incoming = <<>>
                          /\ sock[s].last_outgoing = 0
  <2>1. PICK storage \in [Client -> Garbage] :
          sock = [s \in Sock |->
                    IF s \in Client
                    THEN NewSocket(Server, ClientPort[s], ListenPort, storage[s])
                    ELSE NewSocket(Server, 0, 0, NoAckTask(0, FALSE))]
    BY DEF Init
  <2>2. \A remote, lport, rport, a :
          LET b == NewSocket(remote, lport, rport, a)
          IN  /\ b.remote_address = remote /\ b.local_port = lport
              /\ b.state = "not_connected" /\ b.send_task = NoSendTask
              /\ b.incoming = <<>> /\ b.last_outgoing = 0
    BY DEF NewSocket
  <2>3. \A c \in Client : c \in Sock
    BY Apart
  <2>4. \A s \in Slot : s \in Sock /\ s \notin Client
    BY Apart
  <2>5. \A s \in Sock : s \in Client =>
          sock[s] = NewSocket(Server, ClientPort[s], ListenPort, storage[s])
    BY <2>1
  <2>6. \A s \in Sock : s \notin Client =>
          sock[s] = NewSocket(Server, 0, 0, NoAckTask(0, FALSE))
    BY <2>1
  <2>7. \A c \in Client : sock[c].remote_address = Server /\ sock[c].local_port = ClientPort[c]
    BY <2>2, <2>3, <2>5
  <2> DEFINE blank == NewSocket(Server, 0, 0, NoAckTask(0, FALSE))
  <2>10. /\ blank.local_port = 0 /\ blank.state = "not_connected"
         /\ blank.send_task = NoSendTask /\ blank.incoming = <<>>
         /\ blank.last_outgoing = 0
    BY DEF NewSocket
  <2> HIDE DEF blank
  <2>11. \A s \in Sock : s \notin Client => sock[s] = blank
    BY <2>6 DEF blank
  <2>8. \A s \in Slot : sock[s].local_port = 0
    BY <2>4, <2>10, <2>11
  <2>9. ASSUME NEW s \in Sock
        PROVE  /\ sock[s].state = "not_connected" /\ sock[s].send_task = NoSendTask
               /\ sock[s].incoming = <<>> /\ sock[s].last_outgoing = 0
    <3>1. CASE s \in Client
      BY <2>2, <2>5, <3>1
    <3>2. CASE s \notin Client
      BY <2>10, <2>11, <3>2
    <3> QED
      BY <3>1, <3>2
  <2> QED
    BY <2>3, <2>4, <2>7, <2>8, <2>9
<1>3. /\ m_sockets = Client /\ \A l \in Link : net[l] = <<>>
      /\ \A s \in Sock : sent[s] = <<>> /\ taken[s] = <<>>
  BY DEF Init
<1>4. NoSendTask.buf = <<>> /\ NoSendTask.has = FALSE
  BY DEF NoSendTask
<1>5. \A s \in Sock : Delivered(s) = <<>>
  BY <1>2, <1>3, ConcatEmptySeq DEF Delivered
<1>6. IdentityInv
  BY <1>2, <1>3, <1>4 DEF IdentityInv, FreeSlots
<1>7. ClientIdsInv
  BY <1>2, <1>3, Outgoing DEF ClientIdsInv
<1>8. TasksNumbered /\ MessagesNumbered
  BY <1>2, <1>3, <1>4 DEF TasksNumbered, TaskNumbered, MessagesNumbered
<1>9. ReceivedInv /\ AtMostOnce /\ AcceptorStreamsInOrder
  BY <1>2, <1>5 DEF ReceivedInv, AtMostOnce, AcceptorStreamsInOrder, InOrder
<1> QED
  BY <1>1, <1>6, <1>7, <1>8, <1>9 DEF StreamInv

LEMMA NextStream == StreamInv /\ [Next]_vars => StreamInv'
<1> SUFFICES ASSUME StreamInv, [Next]_vars PROVE StreamInv'
  OBVIOUS
<1>1. TypeOK /\ MessagesNumbered /\ net \in [Link -> Seq(Message)]
  BY DEF StreamInv, TypeOK
<1>2. TypeOK'
  BY <1>1, NextType
<1>3. ASSUME NEW c \in Client, CallConnect(c) PROVE StreamInv'
  <2>1. PICK r \in RequestIds : sock' = [sock EXCEPT ![c] = Connect(@, r)]
    BY <1>3 DEF CallConnect
  <2>2. sock[c] \in SocketType /\ c \in Sock /\ r \in Id
    BY <1>1, Apart, TransportAssumption DEF TypeOK
  <2>3. Connect(sock[c], r) \in SocketType /\ SocketStep(c, sock[c], Connect(sock[c], r))
    BY <1>3, <2>2, ConnectType, ConnectStep DEF CallConnect
  <2>4. /\ c \in m_sockets
        /\ UNCHANGED <<m_sockets, net, sent, taken>>
    BY <1>3 DEF CallConnect, histories
  <2>5. MessagesNumbered'
    BY <1>1, <2>4, SameNetwork
  <2> QED
    BY <1>2, <2>1, <2>2, <2>3, <2>4, <2>5, SocketStepKeeps
<1>4. ASSUME NEW s \in Sock, CallSend(s) PROVE StreamInv'
  BY <1>2, <1>4, CallSendKeeps
<1>5. ASSUME NEW s \in Sock, CallSendEmpty(s) PROVE StreamInv'
  <2>1. sock[s] \in SocketType /\ Proper(s, sock[s])
    BY InvIsProper
  <2>2. /\ Send(sock[s], <<>>) \in SocketType
        /\ SocketStep(s, sock[s], Send(sock[s], <<>>))
    BY <1>5, <2>1, SendType, EmptyBuffer, SendEmptyStep DEF CallSendEmpty
  <2>3. /\ s \in m_sockets /\ sock' = [sock EXCEPT ![s] = Send(@, <<>>)]
        /\ UNCHANGED <<m_sockets, net, sent, taken>>
    BY <1>5 DEF CallSendEmpty, histories
  <2>4. MessagesNumbered'
    BY <1>1, <2>3, SameNetwork
  <2> QED
    BY <1>2, <2>2, <2>3, <2>4, SocketStepKeeps
<1>6. ASSUME NEW s \in Sock, CallGetReceived(s) PROVE StreamInv'
  BY <1>2, <1>6, CallGetReceivedKeeps
<1>7. ASSUME NEW s \in Sock, CallClose(s) PROVE StreamInv'
  <2>1. sock[s] \in SocketType /\ Proper(s, sock[s])
    BY InvIsProper
  <2>2. Close(sock[s]) \in SocketType /\ SocketStep(s, sock[s], Close(sock[s]))
    BY <1>7, <2>1, CloseType, CloseStep DEF CallClose
  <2>3. /\ s \in m_sockets /\ sock' = [sock EXCEPT ![s] = Close(@)]
        /\ UNCHANGED <<m_sockets, net, sent, taken>>
    BY <1>7 DEF CallClose, histories
  <2>4. MessagesNumbered'
    BY <1>1, <2>3, SameNetwork
  <2> QED
    BY <1>2, <2>2, <2>3, <2>4, SocketStepKeeps
<1>8. ASSUME NEW s \in Sock, Destroy(s) PROVE StreamInv'
  <2>1. /\ UNCHANGED <<sock, net, sent, taken>> /\ m_sockets' \subseteq m_sockets
    BY <1>8 DEF Destroy, histories
  <2>2. MessagesNumbered'
    BY <1>1, <2>1, SameNetwork
  <2> QED
    BY <1>2, <2>1, <2>2, SameStreams
<1>9. ASSUME NEW s \in Sock, Transmit(s) PROVE StreamInv'
  BY <1>2, <1>9, TransmitKeeps
<1>10. ASSUME NEW s \in Sock, Expire(s) PROVE StreamInv'
  <2>1. sock[s] \in SocketType /\ Proper(s, sock[s])
    BY InvIsProper
  <2>2. /\ DropIfTimeout(sock[s], TRUE) \in SocketType
        /\ SocketStep(s, sock[s], DropIfTimeout(sock[s], TRUE))
    BY <2>1, DropIfTimeoutType, DropIfTimeoutStep
  <2>3. /\ s \in m_sockets /\ sock' = [sock EXCEPT ![s] = DropIfTimeout(@, TRUE)]
        /\ UNCHANGED <<m_sockets, net, sent, taken>>
    BY <1>10 DEF Expire, histories
  <2>4. MessagesNumbered'
    BY <1>1, <2>3, SameNetwork
  <2> QED
    BY <1>2, <2>2, <2>3, <2>4, SocketStepKeeps
<1>11. ASSUME NEW s \in Sock, NEW expired \in BOOLEAN, ForceAck(s, expired) PROVE StreamInv'
  BY <1>2, <1>11, ForceAckKeeps
<1>12. ASSUME NEW l \in Link, NEW i, NEW s \in Sock, ReceiveMessage(l, i, s)
       PROVE  StreamInv'
  BY <1>2, <1>12, ReceiveMessageKeeps
<1>13. ASSUME NEW l \in Link, NEW i, AcceptAgain(l, i) PROVE StreamInv'
  BY <1>2, <1>13, AcceptAgainKeeps
<1>14. ASSUME NEW l \in Link, NEW i, NEW s \in Slot, NEW port \in AcceptPorts,
              AcceptNew(l, i, s, port)
       PROVE  StreamInv'
  BY <1>2, <1>14, AcceptNewKeeps
<1>15. ASSUME NEW l \in Link, NEW i, Discard(l, i) \/ Lose(l, i) PROVE StreamInv'
  <2>1. /\ i \in Arriving(l) /\ Take(l, i)
        /\ UNCHANGED <<sock, m_sockets, sent, taken>>
    BY <1>15 DEF Discard, Lose, histories
  <2>2. MessagesNumbered'
    BY <1>1, <2>1, TakeMessages
  <2> QED
    BY <1>2, <2>1, <2>2, SameStreams
<1>16. CASE UNCHANGED vars
  <2>1. UNCHANGED <<sock, m_sockets, net, sent, taken>>
    BY <1>16 DEF vars
  <2>2. MessagesNumbered'
    BY <1>1, <2>1, SameNetwork
  <2> QED
    BY <1>2, <2>1, <2>2, SameStreams
<1> QED
  BY <1>3, <1>4, <1>5, <1>6, <1>7, <1>8, <1>9, <1>10, <1>11, <1>12, <1>13, <1>14,
     <1>15, <1>16
     DEF Next, Application, ServeOutgoing, ServeIncoming

\* Each payload travels under the id its sender gave it, the ids of a client
\* increase, and no socket has received an id above m_last_received_message_id.
THEOREM StreamInvariant == Spec => []StreamInv
  BY InitStream, NextStream, PTL DEF Spec

\* receive() never queues for the application a payload it has queued before,
\* however the network delays, reorders or loses the copies pick_outgoing makes.
THEOREM NeverTwice == Spec => []AtMostOnce
<1>1. StreamInv => AtMostOnce
  BY DEF StreamInv
<1> QED
  BY <1>1, StreamInvariant, PTL

\* A socket the acceptor created queues the payloads of one client, in the order
\* of that client's calls of send(), on any network.
THEOREM AcceptorInOrder == Spec => []AcceptorStreamsInOrder
<1>1. StreamInv => AcceptorStreamsInOrder
  BY DEF StreamInv
<1> QED
  BY <1>1, StreamInvariant, PTL

-----------------------------------------------------------------------------
(* What a step does to the streams *)

SameDelivered == \A x \in Sock : Delivered(x)' = Delivered(x)

StreamStays == SameDelivered /\ UNCHANGED <<sent, confirmed, overflowed>>

StreamSends(s) == CallSend(s) /\ SameDelivered /\ UNCHANGED <<confirmed, overflowed>>

\* Socket s handles message m: it queues its payload, has no room for it, or does
\* not look at it.
Brings(s, m) ==
    \/ Delivered(s)' = Delivered(s) /\ overflowed' = overflowed
    \/ \E p \in Payload : /\ m.buf = <<p>>
                          /\ Delivered(s)' = Append(Delivered(s), p)
                          /\ overflowed' = overflowed
    \/ \E p \in Payload : /\ m.buf = <<p>>
                          /\ Delivered(s)' = Delivered(s)
                          /\ overflowed' = overflowed \cup {p}

StreamHears(l, m, s) ==
    /\ MessageNumbered(l, m)
    /\ Recipient(l, m, s)
    /\ sent' = sent
    /\ \A x \in Sock \ {s} : Delivered(x)' = Delivered(x)
    /\ Brings(s, m)
    /\ Delivered(s)' # Delivered(s) => sock[s].last_received < m.id
    /\ sock'[s].last_received # sock[s].last_received =>
         \A p \in Payload : m.buf = <<p>> => p \in Reached'
    /\ confirmed' = IF AckMatches(sock[s], m)
                    THEN confirmed \cup BufferItems(sock[s].send_task.buf)
                    ELSE confirmed

LEMMA DeliveredType ==
  ASSUME TypeOK, NEW s \in Sock
  PROVE  Delivered(s) \in Seq(Payload) /\ BufferItems(Delivered(s)) \subseteq Payload
<1>1. Delivered(s) \in Seq(Payload)
  BY ConcatProperties DEF TypeOK, SocketType, Delivered
<1>2. \A i \in DOMAIN Delivered(s) : Delivered(s)[i] \in Payload
  BY <1>1, ElementOfSeq
<1> QED
  BY <1>1, <1>2 DEF BufferItems

LEMMA AppendedItems ==
  ASSUME NEW q \in Seq(Payload), NEW p \in Payload
  PROVE  /\ BufferItems(Append(q, p)) = BufferItems(q) \cup {p}
         /\ Append(q, p) # q
<1>1. /\ DOMAIN q = 1 .. Len(q) /\ Len(q) \in Nat
      /\ DOMAIN Append(q, p) = 1 .. Len(q) + 1
      /\ \A i \in 1 .. Len(q) : Append(q, p)[i] = q[i]
      /\ Append(q, p)[Len(q) + 1] = p
  OBVIOUS
<1> HIDE DEF Append
<1>2. DOMAIN Append(q, p) = DOMAIN q \cup {Len(q) + 1} /\ Len(q) + 1 \notin DOMAIN q
  BY <1>1
<1>3. \A i \in DOMAIN q : Append(q, p)[i] = q[i]
  BY <1>1
<1>4. BufferItems(Append(q, p)) = BufferItems(q) \cup {p}
  BY <1>1, <1>2, <1>3, Zenon DEF BufferItems
<1> QED
  BY <1>2, <1>4

LEMMA ReachedByHearing ==
  ASSUME TypeOK, TypeOK', NEW l, NEW m, NEW s \in Sock,
         \A x \in Sock \ {s} : Delivered(x)' = Delivered(x), Brings(s, m)
  PROVE  Reached \subseteq Reached'
<1>1. overflowed \subseteq overflowed'
  BY DEF Brings
<1>2. \A x \in Sock : DeliveredItems(x) \subseteq DeliveredItems(x)'
  <2> SUFFICES ASSUME NEW x \in Sock PROVE DeliveredItems(x) \subseteq DeliveredItems(x)'
    OBVIOUS
  <2>1. CASE Delivered(x)' = Delivered(x)
    BY <2>1 DEF DeliveredItems
  <2>2. CASE x = s /\ \E p \in Payload : Delivered(s)' = Append(Delivered(s), p)
    <3>1. PICK p \in Payload : Delivered(s)' = Append(Delivered(s), p)
      BY <2>2
    <3>2. BufferItems(Append(Delivered(s), p)) = BufferItems(Delivered(s)) \cup {p}
      BY DeliveredType, AppendedItems
    <3> QED
      BY <2>2, <3>1, <3>2 DEF DeliveredItems
  <2> QED
    BY <2>1, <2>2 DEF Brings
<1> QED
  BY <1>1, <1>2 DEF Reached

LEMMA HearStream ==
  ASSUME StreamInv, TypeOK', NEW l \in Link, NEW i, NEW s \in Sock, ReceiveMessage(l, i, s)
  PROVE  StreamHears(l, net[l][i], s)
<1> DEFINE m == net[l][i]
           b == sock[s]
           t == Receive(b, m)
<1>1. /\ m \in Message /\ i \in DOMAIN net[l]
      /\ b \in SocketType /\ Proper(s, b) /\ MessageNumbered(l, m)
  BY TakeType, InvIsProper DEF ReceiveMessage, StreamInv, TypeOK, MessagesNumbered
<1>2. /\ sock' = [sock EXCEPT ![s] = t] /\ sent' = sent /\ taken' = taken
      /\ Recipient(l, m, s)
      /\ confirmed' = IF AckMatches(b, m)
                      THEN confirmed \cup BufferItems(b.send_task.buf) ELSE confirmed
      /\ overflowed' = IF t.last_received # b.last_received /\ t.incoming = b.incoming
                       THEN overflowed \cup BufferItems(m.buf) ELSE overflowed
  BY DEF ReceiveMessage
<1>3. m.type \in MessageType /\ m.buf \in Buffer
  BY <1>1 DEF Message
<1> HIDE DEF m
<1>4. /\ m.type # "connection_request"
      /\ m.type = "connection_submit" => b.state \in {"waiting_for_submit", "connected"}
      /\ m.type = "connection_close_submit" => b.state = "closed"
      /\ m.type \in {"data_transfer", "connection_close"} => b.state = "connected"
  BY <1>2, <1>3 DEF Recipient, MessageType, ForSubmit, ForCloseSubmit, ForData
<1>5. \/ t.incoming = b.incoming
      \/ t.incoming = b.incoming \o m.buf /\ b.last_received < m.id
  BY <1>1, <1>4, ReceiveStep DEF SocketStep
<1> HIDE DEF t
<1>6. /\ sock'[s] = t /\ \A x \in Sock \ {s} : Delivered(x)' = Delivered(x)
      /\ taken[s] \in Seq(Payload) /\ b.incoming \in Seq(Payload)
  BY <1>1, <1>2 DEF StreamInv, TypeOK, SocketType, Delivered
<1>7. Brings(s, m) /\ (t.last_received # b.last_received =>
                         \A p \in Payload : m.buf = <<p>> => p \in Reached')
  <2>1. CASE m.buf = <<>>
    <3>1. t.incoming = b.incoming
      BY <1>5, <1>6, <2>1, ConcatEmptySeq
    <3>2. BufferItems(m.buf) = {}
      BY <2>1 DEF BufferItems
    <3>3. Delivered(s)' = Delivered(s) /\ overflowed' = overflowed
      BY <1>2, <1>6, <3>1, <3>2 DEF Delivered
    <3>4. \A p : <<p>> # <<>>
      OBVIOUS
    <3> QED
      BY <2>1, <3>3, <3>4 DEF Brings
  <2>2. CASE m.buf # <<>>
    <3>1. PICK p \in Payload : m.buf = <<p>>
      BY <1>3, <2>2, SingleBuffer
    <3>2. BufferItems(m.buf) = {p} /\ \A q : m.buf = <<q>> => q = p
      BY <3>1 DEF BufferItems
    <3>3. CASE t.incoming = b.incoming
      <4>1. Delivered(s)' = Delivered(s)
        BY <1>2, <1>6, <3>3 DEF Delivered
      <4>2. overflowed' = (IF t.last_received # b.last_received
                           THEN overflowed \cup {p} ELSE overflowed)
        BY <1>2, <3>2, <3>3
      <4>3. Brings(s, m)
        BY <3>1, <4>1, <4>2 DEF Brings
      <4> QED
        BY <3>2, <4>2, <4>3 DEF Reached
    <3>4. CASE t.incoming # b.incoming
      <4>1. t.incoming = b.incoming \o <<p>>
        BY <1>5, <3>1, <3>4
      <4>2. taken[s] \o (b.incoming \o <<p>>) = (taken[s] \o b.incoming) \o <<p>>
        BY <1>6, ConcatPayload, Zenon
      <4>3. Delivered(s) \in Seq(Payload) /\ Delivered(s) \o <<p>> = Append(Delivered(s), p)
        BY DeliveredType, AppendIsConcat DEF StreamInv
      <4>4. Delivered(s)' = Append(Delivered(s), p)
        BY <1>2, <1>6, <4>1, <4>2, <4>3 DEF Delivered
      <4>5. overflowed' = overflowed
        BY <1>2, <3>4
      <4>6. p \in DeliveredItems(s)'
        BY <4>3, <4>4, AppendedItems DEF DeliveredItems
      <4>7. Brings(s, m)
        BY <3>1, <4>4, <4>5 DEF Brings
      <4> QED
        BY <3>2, <4>6, <4>7 DEF Reached
    <3> QED
      BY <3>3, <3>4
  <2> QED
    BY <2>1, <2>2
<1>8. Delivered(s)' # Delivered(s) => b.last_received < m.id
  BY <1>2, <1>5, <1>6 DEF Delivered
<1> QED
  BY <1>1, <1>2, <1>6, <1>7, <1>8 DEF StreamHears, m

\* A step of one socket that leaves its queue alone.
LEMMA SameQueue ==
  ASSUME TypeOK, NEW s \in Sock, NEW t, sock' = [sock EXCEPT ![s] = t],
         t.incoming = sock[s].incoming, taken' = taken
  PROVE  SameDelivered
  BY DEF SameDelivered, Delivered, TypeOK

LEMMA StreamForms ==
  ASSUME StreamInv, [Next]_vars
  PROVE  \/ StreamStays
         \/ \E s \in Sock : StreamSends(s)
         \/ \E l \in Link : \E i \in DOMAIN net[l], s \in Sock : StreamHears(l, net[l][i], s)
<1> DEFINE Goal == \/ StreamStays
                   \/ \E s \in Sock : StreamSends(s)
                   \/ \E l \in Link : \E i \in DOMAIN net[l], s \in Sock :
                         StreamHears(l, net[l][i], s)
<1>1. TypeOK /\ TypeOK' /\ StreamInv'
  BY NextStream DEF StreamInv
<1>2. ASSUME NEW s \in Sock PROVE sock[s] \in SocketType /\ Proper(s, sock[s])
  BY InvIsProper
<1>3. ASSUME UNCHANGED vars \/ \E s \in Sock : Destroy(s) PROVE StreamStays
  BY <1>3 DEF vars, Destroy, histories, StreamStays, SameDelivered, Delivered
<1>4. ASSUME NEW l \in Link, NEW i, Discard(l, i) \/ Lose(l, i) PROVE StreamStays
  BY <1>4 DEF Discard, Lose, histories, StreamStays, SameDelivered, Delivered
<1>5. ASSUME NEW c \in Client, CallConnect(c) PROVE StreamStays
  <2>1. c \in Sock /\ sock[c].state = "not_connected"
    BY <1>5, Apart DEF CallConnect
  <2>2. PICK r \in RequestIds : sock' = [sock EXCEPT ![c] = Connect(sock[c], r)]
    BY <1>5 DEF CallConnect
  <2>3. Connect(sock[c], r).incoming = sock[c].incoming
    BY <1>2, <2>1, ConnectStep, TransportAssumption DEF SocketStep
  <2> QED
    BY <1>1, <1>5, <2>1, <2>2, <2>3, SameQueue DEF CallConnect, histories, StreamStays
<1>6. ASSUME NEW s \in Sock, CallSend(s) PROVE StreamSends(s)
  <2>1. sock' = [sock EXCEPT ![s] = Send(sock[s], <<<<s, Len(sent[s]) + 1>>>>)]
        /\ UNCHANGED <<taken, confirmed, overflowed>>
    BY <1>6 DEF CallSend
  <2>2. Send(sock[s], <<<<s, Len(sent[s]) + 1>>>>).incoming = sock[s].incoming
    BY <1>2, CreateSendTaskFields DEF Send
  <2>3. SameDelivered
    BY <1>1, <2>1, <2>2, SameQueue
  <2> QED
    BY <1>6, <2>1, <2>3 DEF StreamSends
<1>7. ASSUME NEW s \in Sock, CallSendEmpty(s) PROVE StreamStays
  <2>1. sock' = [sock EXCEPT ![s] = Send(sock[s], <<>>)]
        /\ UNCHANGED <<sent, taken, confirmed, overflowed>>
    BY <1>7 DEF CallSendEmpty, histories
  <2>2. Send(sock[s], <<>>).incoming = sock[s].incoming
    BY <1>2, CreateSendTaskFields DEF Send
  <2> QED
    BY <1>1, <2>1, <2>2, SameQueue DEF StreamStays
<1>8. ASSUME NEW s \in Sock, CallGetReceived(s) PROVE StreamStays
  <2>1. /\ sock' = [sock EXCEPT ![s].incoming = Tail(@)] /\ sock[s].incoming # <<>>
        /\ taken' = [taken EXCEPT ![s] = Append(@, Head(sock[s].incoming))]
        /\ UNCHANGED <<sent, confirmed, overflowed>>
    BY <1>8 DEF CallGetReceived
  <2>2. sock[s].incoming \in Seq(Payload) /\ taken[s] \in Seq(Payload)
    BY <1>1, <1>2 DEF TypeOK, SocketType
  <2>3. Append(taken[s], Head(sock[s].incoming)) \o Tail(sock[s].incoming)
        = taken[s] \o sock[s].incoming
    BY <2>1, <2>2, MoveHead
  <2>4. /\ sock'[s].incoming = Tail(sock[s].incoming)
        /\ taken'[s] = Append(taken[s], Head(sock[s].incoming))
        /\ \A x \in Sock \ {s} : sock'[x] = sock[x] /\ taken'[x] = taken[x]
    BY <1>1, <1>2, <2>1 DEF TypeOK, SocketType
  <2>5. \A x \in Sock : Delivered(x)' = Delivered(x)
    BY <2>3, <2>4 DEF Delivered
  <2> QED
    BY <2>1, <2>5 DEF StreamStays, SameDelivered
<1>9. ASSUME NEW s \in Sock, CallClose(s) PROVE StreamStays
  <2>1. sock' = [sock EXCEPT ![s] = Close(sock[s])] /\ MayClose(sock[s])
        /\ UNCHANGED <<sent, taken, confirmed, overflowed>>
        /\ sock[s].last_outgoing < MaxOutgoing[s]
    BY <1>9 DEF CallClose, histories
  <2>2. Close(sock[s]).incoming = sock[s].incoming
    BY <1>2, <2>1, CloseStep DEF SocketStep
  <2> QED
    BY <1>1, <2>1, <2>2, SameQueue DEF StreamStays
<1>10. ASSUME NEW s \in Sock, Transmit(s) PROVE StreamStays
  <2>1. sock' = [sock EXCEPT ![s] = Transmitted(sock[s])]
        /\ UNCHANGED <<sent, taken, confirmed, overflowed>>
    BY <1>10 DEF Transmit, histories
  <2>2. Transmitted(sock[s]).incoming = sock[s].incoming
    BY <1>2 DEF Transmitted, SocketType
  <2> QED
    BY <1>1, <2>1, <2>2, SameQueue DEF StreamStays
<1>11. ASSUME NEW s \in Sock, Expire(s) PROVE StreamStays
  <2>1. sock' = [sock EXCEPT ![s] = DropIfTimeout(sock[s], TRUE)]
        /\ UNCHANGED <<sent, taken, confirmed, overflowed>>
    BY <1>11 DEF Expire, histories
  <2>2. DropIfTimeout(sock[s], TRUE).incoming = sock[s].incoming
    BY <1>2 DEF DropIfTimeout, SocketType
  <2> QED
    BY <1>1, <2>1, <2>2, SameQueue DEF StreamStays
<1>12. ASSUME NEW s \in Sock, NEW expired \in BOOLEAN, ForceAck(s, expired) PROVE StreamStays
  <2> DEFINE d == DropIfTimeout(sock[s], expired)
  <2>1. sock' = [sock EXCEPT ![s] = [d EXCEPT !.ack_task.sent = TRUE]]
        /\ UNCHANGED <<sent, taken, confirmed, overflowed>>
    BY <1>12 DEF ForceAck, histories
  <2>2. d \in SocketType /\ d.incoming = sock[s].incoming
    BY <1>2, DropIfTimeoutType DEF DropIfTimeout, SocketType
  <2> HIDE DEF d
  <2>3. [d EXCEPT !.ack_task.sent = TRUE].incoming = sock[s].incoming
    BY <2>2 DEF SocketType
  <2> QED
    BY <1>1, <2>1, <2>3, SameQueue DEF StreamStays
<1>13. ASSUME NEW l \in Link, NEW i, NEW s \in Sock, ReceiveMessage(l, i, s)
       PROVE  Goal
  <2>1. StreamHears(l, net[l][i], s) /\ i \in DOMAIN net[l]
    BY <1>1, <1>13, HearStream, TakeType DEF ReceiveMessage, TypeOK
  <2> QED
    BY <2>1
<1>14. ASSUME NEW l \in Link, NEW i, AcceptAgain(l, i) PROVE StreamStays
  <2>1. PICK s \in Slot, r \in Id :
               /\ sock' = [sock EXCEPT ![s] = SendConnectionSubmit(sock[s], r)]
               /\ UNCHANGED <<sent, taken, confirmed, overflowed>>
    <3>1. net[l][i] \in Message
      BY <1>1, <1>14, TakeType DEF AcceptAgain, TypeOK
    <3>2. net[l][i].id \in Id /\ cache.map[net[l][i].id] \in Slot
      BY <1>1, <1>14, <3>1 DEF Message, AcceptAgain, IsCache, TypeOK
    <3> QED
      BY <1>14, <3>2 DEF AcceptAgain, histories
  <2>2. s \in Sock /\ SendConnectionSubmit(sock[s], r).incoming = sock[s].incoming
    BY <1>2, SubmitAgainStep, Apart DEF SocketStep
  <2> QED
    BY <1>1, <2>1, <2>2, SameQueue DEF StreamStays
<1>15. ASSUME NEW l \in Link, NEW i, NEW s \in Slot, NEW port \in AcceptPorts,
              AcceptNew(l, i, s, port)
       PROVE  StreamStays
  <2>1. s \in FreeSlots /\ UNCHANGED <<sent, taken, confirmed, overflowed>>
    BY <1>15 DEF AcceptNew, histories
  <2>2. PICK u : /\ sock' = [sock EXCEPT ![s] = SendConnectionSubmit(u, net[l][i].id)]
                 /\ u = NewSocket(l[1], port, net[l][i].sport, sock[s].ack_task)
    BY <1>15 DEF AcceptNew
  <2>3. SendConnectionSubmit(u, net[l][i].id).incoming = <<>>
    BY <2>2 DEF SendConnectionSubmit, CreateSendTask, PrepareAck, NewSocket
  <2>4. s \in Sock /\ sock[s].incoming = <<>>
    BY <2>1, Apart DEF StreamInv, IdentityInv
  <2> QED
    BY <1>1, <2>1, <2>2, <2>3, <2>4, SameQueue DEF StreamStays
<1> QED
  BY <1>3, <1>4, <1>5, <1>6, <1>7, <1>8, <1>9, <1>10, <1>11, <1>12, <1>13, <1>14, <1>15
     DEF Next, Application, ServeOutgoing, ServeIncoming

LEMMA ReachedStep == StreamInv /\ [Next]_vars => Reached \subseteq Reached'
<1> SUFFICES ASSUME StreamInv, [Next]_vars PROVE Reached \subseteq Reached'
  OBVIOUS
<1>1. TypeOK /\ TypeOK'
  BY NextStream DEF StreamInv
<1>2. CASE SameDelivered /\ overflowed' = overflowed
  BY <1>2 DEF SameDelivered, Reached, DeliveredItems
<1>3. ASSUME NEW l \in Link, NEW i \in DOMAIN net[l], NEW s \in Sock,
             StreamHears(l, net[l][i], s)
      PROVE  Reached \subseteq Reached'
  BY <1>1, <1>3, ReachedByHearing DEF StreamHears
<1> QED
  BY <1>2, <1>3, StreamForms DEF StreamStays, StreamSends

-----------------------------------------------------------------------------
(* What a client has numbered *)

\* The ids a client has given stay, and those it adds are higher.
NumbersKept(c) ==
    /\ sock[c].last_outgoing <= sock'[c].last_outgoing
    /\ \A j \in DOMAIN sent'[c] :
          \/ j \in DOMAIN sent[c] /\ sent'[c][j] = sent[c][j]
          \/ sock[c].last_outgoing < sent'[c][j]

LEMMA SentSteps ==
  ASSUME StreamInv, [Next]_vars, NEW c \in Sock
  PROVE  CallSend(c) \/ sent'[c] = sent[c]
<1>1. ASSUME NEW s \in Sock, CallSend(s) PROVE CallSend(c) \/ sent'[c] = sent[c]
  BY <1>1 DEF CallSend, StreamInv, TypeOK
<1>2. sent' = sent \/ \E s \in Sock : CallSend(s)
  BY StreamForms DEF StreamStays, StreamSends, StreamHears
<1> QED
  BY <1>1, <1>2

\* The data that send() accepts, its id and its task.
LEMMA SendNumbers ==
  ASSUME StreamInv, NEW c \in Sock, CallSend(c)
  PROVE  /\ sock'[c].last_outgoing = sock[c].last_outgoing + 1
         /\ sock'[c].state = "connected"
         /\ sock'[c].send_task.type = "data_transfer"
         /\ sock'[c].send_task.id = sock[c].last_outgoing + 1
         /\ sock'[c].send_task.buf = <<<<c, Len(sent[c]) + 1>>>>
         /\ \A j \in DOMAIN sent'[c] :
               \/ j \in DOMAIN sent[c] /\ sent'[c][j] = sent[c][j]
               \/ j = Len(sent[c]) + 1 /\ sent'[c][j] = sock[c].last_outgoing + 1
         /\ sock[c].last_outgoing + 1 \in 1 .. MaxOutgoing[c]
<1> DEFINE n == sock[c].last_outgoing
           t == Send(sock[c], <<<<c, Len(sent[c]) + 1>>>>)
<1>1. /\ c \in Sock /\ sock[c] \in SocketType /\ n \in Id /\ n < MaxOutgoing[c]
      /\ sock[c].state = "connected" /\ sock' = [sock EXCEPT ![c] = t]
      /\ sent' = [sent EXCEPT ![c] = Append(@, Wrap(n + 1))]
      /\ sent[c] \in Seq(Id) /\ sock \in [Sock -> SocketType] /\ sent \in [Sock -> Seq(Id)]
  BY DEF CallSend, MaySend, StreamInv, TypeOK, SocketType
<1>2. n \in Nat /\ MaxOutgoing[c] \in Nat
  BY <1>1, IdsAreNumbers, Outgoing
<1>3. Wrap(n + 1) = n + 1
  <2>1. n <= MaxOutgoing[c]
    BY <1>1, <1>2
  <2> QED
    BY <1>1, <2>1, NextOutgoing
<1>4. /\ t.last_outgoing = n + 1 /\ t.state = "connected"
      /\ t.send_task.type = "data_transfer" /\ t.send_task.id = n + 1
      /\ t.send_task.buf = <<<<c, Len(sent[c]) + 1>>>>
  BY <1>1, <1>3, CreateSendTaskFields DEF Send
<1>5. sock'[c] = t /\ sent'[c] = Append(sent[c], n + 1)
  BY <1>1, <1>3
<1>6. n + 1 \in 1 .. MaxOutgoing[c]
  BY <1>1, <1>2
<1>7. n + 1 \in Id
  BY <1>3, <1>2, WrapType
<1> HIDE DEF n, t
<1>8. \A j \in DOMAIN Append(sent[c], n + 1) :
         \/ j \in DOMAIN sent[c] /\ Append(sent[c], n + 1)[j] = sent[c][j]
         \/ j = Len(sent[c]) + 1 /\ Append(sent[c], n + 1)[j] = n + 1
  BY <1>1, <1>7
<1> QED
  BY <1>4, <1>5, <1>6, <1>8 DEF n

LEMMA OutgoingStep ==
  ASSUME StreamInv, ConfirmInv, [Next]_vars, NEW c \in Client
  PROVE  sock[c].last_outgoing <= sock'[c].last_outgoing
<1> USE Apart
<1>1. /\ TypeOK /\ sock[c] \in SocketType /\ sock[c].last_outgoing \in Id
      /\ sock[c].last_outgoing \in Nat /\ MaxOutgoing[c] \in Nat
  BY IdsAreNumbers, Outgoing DEF StreamInv, TypeOK, SocketType
<1>2. sock[c].last_outgoing <= MaxOutgoing[c] =>
        sock[c].last_outgoing <= Wrap(sock[c].last_outgoing + 1)
  BY <1>1, NextOutgoing
<1>3. sock'[c].last_outgoing = sock[c].last_outgoing =>
        sock[c].last_outgoing <= sock'[c].last_outgoing
  BY <1>1
<1>4. CASE sock'[c] = sock[c]
  BY <1>3, <1>4
<1>5. CASE sock'[c] # sock[c]
  <2>1. \/ StepCalls(c) \/ \E m \in Message : StepPicks(c, m)
        \/ \E l \in Link : \E i \in DOMAIN net[l] : StepHears(l, i, c)
    BY <1>1, <1>5, ChangeForms DEF StepAnswers, StepAccepts
  <2>2. CASE Connects(sock[c], sock'[c])
    <3>1. sock[c].last_outgoing = 0 /\ sock'[c].last_outgoing = 0
      BY <2>2 DEF Connects, ConfirmInv, ClientTaskInv, Unanswered
    <3> QED
      BY <1>3, <3>1
  <2>3. CASE Rests(sock[c], sock'[c]) \/ Expires(sock[c], sock'[c])
    BY <1>3, <2>3 DEF Rests, Expires
  <2>4. CASE /\ Sends(sock[c], sock'[c]) \/ Closes(sock[c], sock'[c])
             /\ sock[c].last_outgoing < MaxOutgoing[c]
    <3>1. sock'[c].last_outgoing = Wrap(sock[c].last_outgoing + 1)
      BY <2>4 DEF Sends, Closes
    <3>2. sock[c].last_outgoing <= MaxOutgoing[c]
      BY <1>1, <2>4
    <3> QED
      BY <1>2, <3>1, <3>2
  <2>5. ASSUME NEW l \in Link, NEW i \in DOMAIN net[l], StepHears(l, i, c)
        PROVE  sock[c].last_outgoing <= sock'[c].last_outgoing
    <3>1. PICK h : h = net[l][i]
      OBVIOUS
    <3>2. Hears(sock[c], h, sock'[c])
      BY <2>5, <3>1 DEF StepHears
    <3>3. CASE HearsClose(sock[c], h, sock'[c])
      <4>1. /\ sock'[c].last_outgoing = Wrap(sock[c].last_outgoing + 1)
            /\ sock[c].last_outgoing <= MaxOutgoing[c]
        BY <3>3 DEF HearsClose, StreamInv, ClientIdsInv
      <4> QED
        BY <1>2, <4>1
    <3> QED
      BY <1>3, <3>2, <3>3 DEF Hears, HearsAgain, HearsSubmit, HearsSubmitLate,
                              HearsCloseSubmit, HearsData
  <2> QED
    BY <2>1, <2>2, <2>3, <2>4, <2>5 DEF StepCalls, StepPicks
<1> QED
  BY <1>4, <1>5

LEMMA NumbersStep ==
  ASSUME StreamInv, ConfirmInv, [Next]_vars, NEW c \in Client
  PROVE  NumbersKept(c)
<1>1. sock[c].last_outgoing \in Nat /\ c \in Sock
  BY Apart, IdsAreNumbers DEF StreamInv, TypeOK, SocketType
<1>2. CASE CallSend(c)
  <2>1. sock[c].last_outgoing < sock[c].last_outgoing + 1
    BY <1>1
  <2> QED
    BY <1>1, <1>2, <2>1, SendNumbers, OutgoingStep DEF NumbersKept
<1>3. CASE sent'[c] = sent[c]
  BY <1>3, OutgoingStep DEF NumbersKept
<1> QED
  BY <1>1, <1>2, <1>3, SentSteps

LEMMA Numbers ==
  ASSUME StreamInv, NEW c \in Sock
  PROVE  /\ sock[c] \in SocketType
         /\ sock[c].last_outgoing \in Nat
         /\ sock[c].last_received \in Nat
         /\ \A j \in DOMAIN sent[c] : sent[c][j] \in Nat
<1>1. sock[c] \in SocketType /\ sent[c] \in Seq(Id)
  BY DEF StreamInv, TypeOK
<1>2. sock[c].last_outgoing \in Id /\ sock[c].last_received \in Id
  BY <1>1 DEF SocketType
<1>3. \A j \in DOMAIN sent[c] : sent[c][j] \in Id
  BY <1>1, ElementOfSeq
<1> QED
  BY <1>1, <1>2, <1>3, IdsAreNumbers

LEMMA CarriesKept ==
  ASSUME StreamInv, StreamInv', NEW c \in Client, NumbersKept(c), NEW m, Carries(c, m),
         m.id \in Nat, m.id <= sock[c].last_outgoing
  PROVE  Carries(c, m)'
<1>1. c \in Sock
  BY Apart
<1> SUFFICES ASSUME NEW j \in DOMAIN sent'[c], sent'[c][j] = m.id
             PROVE  m.type = "data_transfer" /\ m.buf = <<<<c, j>>>>
  BY DEF Carries
<1>2. ~ sock[c].last_outgoing < m.id
  BY <1>1, Numbers
<1>3. j \in DOMAIN sent[c] /\ sent[c][j] = m.id
  BY <1>2 DEF NumbersKept
<1> QED
  BY <1>3 DEF Carries

LEMMA ArrivedKept ==
  ASSUME StreamInv, NEW c \in Client, NumbersKept(c), Reached \subseteq Reached',
         NEW n \in Nat, n <= sock[c].last_outgoing, ArrivedUpTo(c, n)
  PROVE  ArrivedUpTo(c, n)'
<1>1. c \in Sock
  BY Apart
<1> SUFFICES ASSUME NEW j \in DOMAIN sent'[c], sent'[c][j] = n
             PROVE  <<c, j>> \in Reached'
  BY DEF ArrivedUpTo
<1>2. ~ sock[c].last_outgoing < n
  BY <1>1, Numbers
<1>3. j \in DOMAIN sent[c] /\ sent[c][j] = n
  BY <1>2 DEF NumbersKept
<1> QED
  BY <1>3 DEF ArrivedUpTo

LEMMA HarmlessKept ==
  ASSUME StreamInv, StreamInv', NEW c \in Client, NumbersKept(c), Reached \subseteq Reached',
         NEW n \in Nat, HarmlessAck(c, n)
  PROVE  HarmlessAck(c, n)'
<1>1. c \in Sock /\ sock[c].last_outgoing \in Nat /\ sock'[c].last_outgoing \in Nat
  <2>1. c \in Sock
    BY Apart
  <2>2. sock'[c] \in SocketType
    BY <2>1 DEF StreamInv, TypeOK
  <2> QED
    BY <2>1, <2>2, Numbers, IdsAreNumbers DEF SocketType
<1>2. CASE n \in RequestIds
  BY <1>2 DEF HarmlessAck
<1>3. CASE n <= sock[c].last_outgoing /\ (n = sock[c].last_outgoing => ArrivedUpTo(c, n))
  <2>1. sock[c].last_outgoing <= sock'[c].last_outgoing
    BY DEF NumbersKept
  <2>2. n <= sock'[c].last_outgoing
        /\ (n = sock'[c].last_outgoing => n = sock[c].last_outgoing)
    BY <1>1, <1>3, <2>1
  <2>3. n = sock'[c].last_outgoing => ArrivedUpTo(c, n)'
    BY <1>3, <2>2, ArrivedKept
  <2> QED
    BY <2>2, <2>3 DEF HarmlessAck
<1> QED
  BY <1>2, <1>3 DEF HarmlessAck

\* Nothing of a client has the number 0.
LEMMA ZeroHarmless ==
  ASSUME StreamInv, NEW c \in Client, ClientTaskInv(c)
  PROVE  /\ 0 <= sock[c].last_outgoing /\ HarmlessAck(c, 0) /\ ArrivedUpTo(c, 0)
         /\ \A m : m.id = 0 => Carries(c, m)
<1>1. c \in Sock /\ MaxOutgoing[c] \in Nat
  BY Apart, Outgoing
<1>2. 0 <= sock[c].last_outgoing
  BY <1>1, Numbers
<1>3. \A j \in DOMAIN sent[c] : sent[c][j] # 0
  BY <1>1 DEF ClientTaskInv
<1> QED
  BY <1>2, <1>3 DEF HarmlessAck, ArrivedUpTo, Carries

-----------------------------------------------------------------------------
(* Confirmations *)

LEMMA ClientTaskStep ==
  ASSUME StreamInv, StreamInv', ConfirmInv, [Next]_vars, NEW c \in Client
  PROVE  ClientTaskInv(c)'
<1> USE Apart
<1>1. /\ c \in Sock /\ TypeOK /\ ClientTaskInv(c) /\ NumbersKept(c)
      /\ sock[c].last_outgoing \in Nat
      /\ sock[c].send_task.id \in Nat
      /\ sock'[c].state \in Unanswered => sock[c].state \in Unanswered
  <2>1. TypeOK /\ sock[c].last_outgoing \in Nat /\ sock[c].send_task.id \in Id
    BY Numbers DEF StreamInv, SocketType, SendTask
  <2> QED
    BY <2>1, NumbersStep, UnansweredBefore, IdsAreNumbers DEF ConfirmInv
<1>2. CASE CallSend(c)
  <2>1. \A j \in DOMAIN sent'[c] : sent'[c][j] \in 1 .. MaxOutgoing[c]
    BY <1>1, <1>2, SendNumbers DEF ClientTaskInv
  <2>2. Carries(c, sock[c].send_task)'
    <3> SUFFICES ASSUME NEW j \in DOMAIN sent'[c], sent'[c][j] = sock'[c].send_task.id
                 PROVE  sock'[c].send_task.type = "data_transfer"
                        /\ sock'[c].send_task.buf = <<<<c, j>>>>
      BY DEF Carries
    <3>1. \/ j \in DOMAIN sent[c] /\ sent'[c][j] = sent[c][j]
          \/ j = Len(sent[c]) + 1
      BY <1>2, SendNumbers
    <3>2. j \in DOMAIN sent[c] => sent[c][j] <= sock[c].last_outgoing /\ sent[c][j] \in Nat
      BY <1>1, Numbers DEF StreamInv, ClientIdsInv
    <3>3. sent'[c][j] = sock[c].last_outgoing + 1
      BY <1>2, SendNumbers
    <3>4. ~ (j \in DOMAIN sent[c] /\ sent'[c][j] = sent[c][j])
      BY <1>1, <3>2, <3>3
    <3> QED
      BY <1>2, <3>1, <3>4, SendNumbers
  <2> QED
    BY <1>2, <2>1, <2>2, SendNumbers DEF ClientTaskInv, Unanswered
<1>3. CASE sent'[c] = sent[c] /\ ~ CallSend(c)
  <2>1. \A j \in DOMAIN sent'[c] : sent'[c][j] \in 1 .. MaxOutgoing[c]
    BY <1>1, <1>3 DEF ClientTaskInv
  <2>2. \A j \in DOMAIN sent'[c] : sent'[c][j] # sock[c].last_outgoing + 1
    <3>1. \A j \in DOMAIN sent[c] : sent[c][j] <= sock[c].last_outgoing /\ sent[c][j] \in Nat
      BY <1>1, Numbers DEF StreamInv, ClientIdsInv
    <3> QED
      BY <1>1, <1>3, <3>1
  <2>3. ASSUME sock'[c].last_outgoing = sock[c].last_outgoing,
               \/ ~ sock'[c].send_task.has
               \/ /\ sock'[c].send_task.has = sock[c].send_task.has
                  /\ sock'[c].send_task.type = sock[c].send_task.type
                  /\ sock'[c].send_task.id = sock[c].send_task.id
                  /\ sock'[c].send_task.buf = sock[c].send_task.buf
        PROVE  ClientTaskInv(c)'
    <3>1. Carries(c, sock[c].send_task) /\ sock'[c].send_task.id = sock[c].send_task.id
          /\ sock'[c].send_task.type = sock[c].send_task.type
          /\ sock'[c].send_task.buf = sock[c].send_task.buf
          => Carries(c, sock[c].send_task)'
      BY <1>3 DEF Carries
    <3> QED
      BY <1>1, <2>1, <2>3, <3>1 DEF ClientTaskInv
  <2>4. ASSUME sock'[c].last_outgoing = Wrap(sock[c].last_outgoing + 1),
               sock[c].last_outgoing <= MaxOutgoing[c],
               sock'[c].send_task.id = Wrap(sock[c].last_outgoing + 1),
               sock'[c].send_task.type # "connection_request",
               sock'[c].state \notin Unanswered
        PROVE  ClientTaskInv(c)'
    <3>1. Wrap(sock[c].last_outgoing + 1) = sock[c].last_outgoing + 1
      BY <1>1, <2>4, NextOutgoing DEF TypeOK, SocketType
    <3>2. Carries(c, sock[c].send_task)'
      BY <2>2, <2>4, <3>1 DEF Carries
    <3> QED
      BY <2>1, <2>4, <3>2 DEF ClientTaskInv
  <2>5. CASE sock'[c] = sock[c]
    BY <2>3, <2>5
  <2>6. CASE Connects(sock[c], sock'[c])
    BY <2>1, <2>6 DEF Connects, NewTask, ClientTaskInv
  <2>7. CASE Rests(sock[c], sock'[c]) \/ Expires(sock[c], sock'[c])
    <3>1. sock'[c].last_outgoing = sock[c].last_outgoing
      BY <2>7 DEF Rests, Expires
    <3>2. CASE Rests(sock[c], sock'[c])
      <4>1. sock[c].send_task \in SendTask
        BY <1>1 DEF TypeOK, SocketType
      <4>2. PICK a : sock'[c].send_task = [sock[c].send_task EXCEPT !.ack = a]
        BY <3>2 DEF Rests
      <4>3. /\ sock'[c].send_task.has = sock[c].send_task.has
            /\ sock'[c].send_task.type = sock[c].send_task.type
            /\ sock'[c].send_task.id = sock[c].send_task.id
            /\ sock'[c].send_task.buf = sock[c].send_task.buf
        BY <4>1, <4>2 DEF SendTask
      <4> QED
        BY <2>3, <3>1, <4>3
    <3>3. CASE Expires(sock[c], sock'[c])
      BY <2>3, <3>1, <3>3 DEF Expires, NoSendTask
    <3> QED
      BY <2>7, <3>2, <3>3
  <2>8. CASE /\ Sends(sock[c], sock'[c]) \/ Closes(sock[c], sock'[c])
             /\ sock[c].last_outgoing < MaxOutgoing[c]
    <3>1. sock[c].last_outgoing <= MaxOutgoing[c]
      BY <1>1, <2>8, Outgoing
    <3> QED
      BY <2>4, <2>8, <3>1 DEF Sends, Closes, NewTask, Unanswered
  <2>9. ASSUME NEW l \in Link, NEW i \in DOMAIN net[l], StepHears(l, i, c)
        PROVE  ClientTaskInv(c)'
    <3>1. PICK h : h = net[l][i]
      OBVIOUS
    <3>2. Hears(sock[c], h, sock'[c])
      BY <2>9, <3>1 DEF StepHears
    <3>3. CASE HearsClose(sock[c], h, sock'[c])
      <4>1. sock[c].last_outgoing <= MaxOutgoing[c]
        BY <3>3 DEF HearsClose, StreamInv, ClientIdsInv
      <4> QED
        BY <2>4, <3>3, <4>1 DEF HearsClose, NewTask, Unanswered
    <3>4. CASE ~ HearsClose(sock[c], h, sock'[c])
      <4>1. sock'[c].last_outgoing = sock[c].last_outgoing
        BY <3>2, <3>4 DEF Hears, HearsAgain, HearsSubmit, HearsSubmitLate,
                          HearsCloseSubmit, HearsData
      <4>2. sock'[c].send_task \in {NoSendTask, LeftTask(sock[c], h)}
        BY <3>2, <3>4 DEF Hears, HearsAgain, HearsSubmit, HearsSubmitLate,
                          HearsCloseSubmit, HearsData
      <4>3. ~ sock'[c].send_task.has \/ sock'[c].send_task = sock[c].send_task
        <5>1. NoSendTask.has = FALSE
          BY DEF NoSendTask
        <5>2. LeftTask(sock[c], h) = sock[c].send_task \/ LeftTask(sock[c], h).has = FALSE
          BY LeftTaskIs
        <5>3. sock'[c].send_task = NoSendTask \/ sock'[c].send_task = LeftTask(sock[c], h)
          BY <4>2
        <5> QED
          BY <5>1, <5>2, <5>3
      <4> QED
        BY <2>3, <4>1, <4>3
    <3> QED
      BY <3>3, <3>4
  <2> QED
    BY <1>1, <2>5, <2>6, <2>7, <2>8, <2>9, ChangeForms
       DEF StepCalls, StepPicks, StepAnswers, StepAccepts
<1> QED
  BY <1>1, <1>2, <1>3, SentSteps

\* What PeerInv says of the members of a socket whose other end is c.
PeerOK(c, received, ack, has, taskAck) ==
    /\ received <= sock[c].last_outgoing
    /\ ArrivedUpTo(c, received)
    /\ HarmlessAck(c, ack)
    /\ has => HarmlessAck(c, taskAck)

LEMMA PeerKept ==
  ASSUME StreamInv, StreamInv', ConfirmInv, [Next]_vars, NEW c \in Client,
         NEW received \in Nat, NEW ack \in Nat, NEW has, NEW taskAck \in Nat,
         PeerOK(c, received, ack, has, taskAck)
  PROVE  PeerOK(c, received, ack, has, taskAck)'
<1>1. NumbersKept(c) /\ Reached \subseteq Reached'
  BY NumbersStep, ReachedStep
<1>2. received <= sock'[c].last_outgoing
  <2>1. sock[c].last_outgoing \in Nat /\ sock'[c].last_outgoing \in Nat
    <3>1. sock'[c] \in SocketType
      BY Apart DEF StreamInv, TypeOK
    <3> QED
      BY <3>1, Apart, Numbers, IdsAreNumbers DEF SocketType
  <2> QED
    BY <1>1, <2>1 DEF NumbersKept, PeerOK
<1>3. ArrivedUpTo(c, received)'
  BY <1>1, ArrivedKept DEF PeerOK
<1>4. HarmlessAck(c, ack)' /\ (has => HarmlessAck(c, taskAck)')
  BY <1>1, HarmlessKept DEF PeerOK
<1> QED
  BY <1>2, <1>3, <1>4 DEF PeerOK

\* The message that a socket of the acceptor takes for a new one brings it the
\* payload with its number, if there is one.
LEMMA ReceivedArrives ==
  ASSUME StreamInv, StreamInv', ConfirmInv, [Next]_vars, NEW c \in Client, NEW p \in Slot,
         Serves(p, c), NEW l \in Link, NEW i \in DOMAIN net[l], NEW m, m = net[l][i],
         StepHears(l, i, p), sock[p].last_received < m.id, sock'[p].last_received = m.id,
         m.type \in {"data_transfer", "connection_close"}
  PROVE  m.id <= sock'[c].last_outgoing /\ ArrivedUpTo(c, m.id)'
<1> USE Apart
<1>1. m \in Message /\ Recipient(l, m, p) /\ m.id \in Nat
  BY IdsAreNumbers DEF StepHears, Message
<1>2. l[1] = ClientNode[c] /\ m.sport = ClientPort[c]
  BY <1>1 DEF Recipient, ForData, Serves
<1>3. m.id <= sock[c].last_outgoing /\ Carries(c, m)
  BY <1>2 DEF ConfirmInv, FromClientInv
<1>4. NumbersKept(c) /\ StreamHears(l, m, p)
  BY NumbersStep, HearStream DEF StepHears, StreamInv
<1>5. c \in Sock /\ sock[c].last_outgoing \in Nat /\ sock'[c].last_outgoing \in Nat
  <2>1. sock'[c] \in SocketType
    BY DEF StreamInv, TypeOK
  <2> QED
    BY <2>1, Numbers, IdsAreNumbers DEF SocketType
<1>6. m.id <= sock'[c].last_outgoing
  BY <1>1, <1>3, <1>4, <1>5 DEF NumbersKept
<1>7. ASSUME NEW j \in DOMAIN sent'[c], sent'[c][j] = m.id PROVE <<c, j>> \in Reached'
  <2>1. sent' = sent
    BY <1>4 DEF StreamHears
  <2>2. m.buf = <<<<c, j>>>>
    BY <1>3, <1>7, <2>1 DEF Carries
  <2>3. <<c, j>> \in Payload
    <3>1. m.buf \in Buffer /\ m.buf # <<>>
      BY <1>1, <2>2 DEF Message
    <3>2. PICK q \in Payload : m.buf = <<q>>
      BY <3>1, SingleBuffer
    <3> QED
      BY <2>2, <3>2
  <2>4. sock'[p].last_received # sock[p].last_received
    <3>1. sock[p].last_received \in Nat
      BY Numbers
    <3> QED
      BY <1>1, <3>1
  <2> QED
    BY <1>4, <2>2, <2>3, <2>4 DEF StreamHears
<1> QED
  BY <1>6, <1>7 DEF ArrivedUpTo

LEMMA PeerHears ==
  ASSUME StreamInv, StreamInv', ConfirmInv, [Next]_vars, NEW c \in Client, NEW p \in Slot,
         Serves(p, c), NEW l \in Link, NEW i \in DOMAIN net[l], StepHears(l, i, p)
  PROVE  PeerInv(p, c)'
<1> USE Apart
<1>1. PICK m : m = net[l][i]
  OBVIOUS
<1>2. PICK b : b = sock[p]
  OBVIOUS
<1>3. PICK t : t = sock'[p]
  OBVIOUS
<1>4. /\ b \in SocketType /\ m \in Message /\ Hears(b, m, t)
      /\ b.state # "waiting_for_submit"
  BY <1>1, <1>2, <1>3 DEF StepHears, StreamInv, TypeOK, IdentityInv
<1>5. /\ b.last_received \in Nat /\ b.ack_task.id \in Nat /\ b.send_task.ack \in Nat
      /\ m.id \in Nat /\ sock[c].last_outgoing \in Nat
  BY <1>4, Numbers, IdsAreNumbers DEF SocketType, AckTask, SendTask, Message
<1>6. PeerOK(c, b.last_received, b.ack_task.id, b.send_task.has, b.send_task.ack)
  BY <1>2 DEF ConfirmInv, PeerInv, PeerOK
<1>7. HarmlessAck(c, 0)
  BY ZeroHarmless DEF ConfirmInv
<1> SUFFICES PeerOK(c, t.last_received, t.ack_task.id, t.send_task.has, t.send_task.ack)'
  BY <1>3 DEF PeerInv, PeerOK
<1>8. ASSUME t.last_received = b.last_received,
             t.ack_task.id = b.ack_task.id
               \/ (t.ack_task.id = m.id /\ m.id <= b.last_received),
             t.send_task = b.send_task \/ ~ t.send_task.has
      PROVE  PeerOK(c, t.last_received, t.ack_task.id, t.send_task.has, t.send_task.ack)'
  <2>1. m.id <= b.last_received => HarmlessAck(c, m.id)
    <3> SUFFICES ASSUME m.id <= b.last_received
                 PROVE  /\ m.id <= sock[c].last_outgoing
                        /\ m.id = sock[c].last_outgoing => m.id = b.last_received
      BY <1>6 DEF HarmlessAck, PeerOK
    <3>1. b.last_received <= sock[c].last_outgoing
      BY <1>6 DEF PeerOK
    <3> QED
      BY <1>5, <3>1
  <2>2. PeerOK(c, b.last_received, t.ack_task.id, b.send_task.has, b.send_task.ack)
    BY <1>6, <1>8, <2>1 DEF PeerOK
  <2>3. t.ack_task.id \in Nat
    BY <1>5, <1>8
  <2>4. PeerOK(c, b.last_received, t.ack_task.id, b.send_task.has, b.send_task.ack)'
    BY <1>5, <2>2, <2>3, PeerKept
  <2> QED
    BY <1>8, <2>4 DEF PeerOK
<1>9. ASSUME b.last_received < m.id, t.last_received = m.id,
             m.type \in {"data_transfer", "connection_close"},
             t.ack_task.id = b.ack_task.id \/ t.ack_task.id = m.id,
             t.send_task = b.send_task \/ ~ t.send_task.has \/ t.send_task.ack = 0
      PROVE  PeerOK(c, t.last_received, t.ack_task.id, t.send_task.has, t.send_task.ack)'
  <2>1. m.id <= sock'[c].last_outgoing /\ ArrivedUpTo(c, m.id)'
    BY <1>1, <1>2, <1>3, <1>9, ReceivedArrives
  <2>2. HarmlessAck(c, m.id)'
    BY <2>1 DEF HarmlessAck
  <2>3. PeerOK(c, b.last_received, b.ack_task.id, b.send_task.has, b.send_task.ack)'
    BY <1>5, <1>6, PeerKept
  <2>4. HarmlessAck(c, 0)'
    BY <1>7, HarmlessKept, NumbersStep, ReachedStep
  <2> QED
    BY <1>9, <2>1, <2>2, <2>3, <2>4 DEF PeerOK
<1>10. ~ HearsSubmit(b, m, t)
  BY <1>4 DEF HearsSubmit
<1>11. CASE HearsAgain(b, m, t) \/ HearsSubmitLate(b, m, t) \/ HearsCloseSubmit(b, m, t)
  <2>1. /\ t.last_received = b.last_received
        /\ \/ t.ack_task.id = b.ack_task.id
           \/ t.ack_task.id = m.id /\ m.id <= b.last_received
    <3>1. CASE HearsAgain(b, m, t)
      BY <3>1 DEF HearsAgain, Acks
    <3>2. CASE HearsSubmitLate(b, m, t) \/ HearsCloseSubmit(b, m, t)
      BY <3>2 DEF HearsSubmitLate, HearsCloseSubmit
    <3> QED
      BY <1>11, <3>1, <3>2
  <2>2. t.send_task = LeftTask(b, m) \/ t.send_task = NoSendTask
    BY <1>11 DEF HearsAgain, HearsSubmitLate, HearsCloseSubmit
  <2>3. t.send_task = b.send_task \/ ~ t.send_task.has
    BY <2>2 DEF LeftTask, NoSendTask
  <2> QED
    BY <1>8, <2>1, <2>3
<1>12. CASE HearsClose(b, m, t)
  BY <1>9, <1>12 DEF HearsClose, NewTask
<1>13. CASE HearsData(b, m, t)
  <2>1. t.ack_task.id = b.ack_task.id \/ t.ack_task.id = m.id
    BY <1>13 DEF HearsData, Acks
  <2>2. t.send_task = b.send_task \/ ~ t.send_task.has
    BY <1>13 DEF HearsData, LeftTask, NoSendTask
  <2> QED
    BY <1>9, <1>13, <2>1, <2>2 DEF HearsData
<1> QED
  BY <1>4, <1>10, <1>11, <1>12, <1>13 DEF Hears

LEMMA PeerStep ==
  ASSUME StreamInv, StreamInv', ConfirmInv, [Next]_vars, NEW c \in Client, NEW p \in Slot,
         ClientTaskInv(c)'
  PROVE  PeerInv(p, c)'
<1> USE Apart
<1> SUFFICES ASSUME Serves(p, c)' PROVE PeerInv(p, c)'
  BY DEF PeerInv
<1>1. PICK b : b = sock[p]
  OBVIOUS
<1>2. PICK t : t = sock'[p]
  OBVIOUS
<1>3. /\ b \in SocketType /\ TypeOK
      /\ b.last_received \in Nat /\ b.ack_task.id \in Nat /\ b.send_task.ack \in Nat
  BY <1>1, Numbers, IdsAreNumbers DEF StreamInv, TypeOK, SocketType, AckTask, SendTask
<1>4. /\ HarmlessAck(c, 0)' /\ HarmlessAck(c, 0) /\ ArrivedUpTo(c, 0)'
      /\ 0 <= sock'[c].last_outgoing
  <2>1. HarmlessAck(c, 0)
    BY ZeroHarmless DEF ConfirmInv
  <2>2. HarmlessAck(c, 0)'
    BY <2>1, HarmlessKept, NumbersStep, ReachedStep
  <2>3. c \in Sock /\ sock'[c] \in SocketType /\ MaxOutgoing[c] \in Nat
    BY Outgoing DEF StreamInv, TypeOK
  <2>4. 0 <= sock'[c].last_outgoing
    BY <2>3, IdsAreNumbers DEF SocketType
  <2>5. \A j \in DOMAIN sent'[c] : sent'[c][j] # 0
    BY <2>3 DEF ClientTaskInv
  <2>6. ArrivedUpTo(c, 0)'
    BY <2>5 DEF ArrivedUpTo
  <2> QED
    BY <2>1, <2>2, <2>4, <2>6
<1>5. ASSUME b.remote_address = ClientNode[c], b.remote_port = ClientPort[c],
             b.local_port # 0
      PROVE  /\ Serves(p, c)
             /\ PeerOK(c, b.last_received, b.ack_task.id, b.send_task.has, b.send_task.ack)'
             /\ PeerOK(c, b.last_received, b.ack_task.id, FALSE, 0)'
  <2>1. Serves(p, c)
    BY <1>1, <1>5 DEF Serves, FreeSlots
  <2>2. PeerOK(c, b.last_received, b.ack_task.id, b.send_task.has, b.send_task.ack)
    BY <1>1, <2>1 DEF ConfirmInv, PeerInv, PeerOK
  <2>3. PeerOK(c, b.last_received, b.ack_task.id, b.send_task.has, b.send_task.ack)'
    BY <1>3, <2>2, PeerKept
  <2> QED
    BY <2>1, <2>3 DEF PeerOK
<1>6. /\ t.remote_address = ClientNode[c] /\ t.remote_port = ClientPort[c]
      /\ t.local_port # 0
  BY <1>2 DEF Serves, FreeSlots
<1>7. ASSUME PeerOK(c, t.last_received, t.ack_task.id, t.send_task.has, t.send_task.ack)'
      PROVE  PeerInv(p, c)'
  BY <1>2, <1>7 DEF PeerInv, PeerOK
<1>8. CASE t = b
  BY <1>5, <1>6, <1>7, <1>8
<1>9. ASSUME Rests(b, t) PROVE PeerInv(p, c)'
  <2>1. Same(b, t) /\ t.send_task.ack \in {b.send_task.ack, b.ack_task.id}
        /\ t.send_task = [b.send_task EXCEPT !.ack = t.send_task.ack]
    BY <1>9 DEF Rests
  <2>2. t.send_task.has = b.send_task.has
    BY <1>3, <2>1 DEF SocketType, SendTask
  <2>3. PeerOK(c, b.last_received, b.ack_task.id, b.send_task.has, b.send_task.ack)'
    BY <1>5, <1>6, <2>1 DEF Same
  <2>4. PeerOK(c, b.last_received, b.ack_task.id, b.send_task.has, t.send_task.ack)'
    BY <2>1, <2>3 DEF PeerOK
  <2>5. t.last_received = b.last_received /\ t.ack_task.id = b.ack_task.id
    BY <2>1 DEF Same
  <2> QED
    BY <1>7, <2>2, <2>4, <2>5
<1>10. ASSUME Same(b, t), ~ t.send_task.has \/ t.send_task.ack = 0 PROVE PeerInv(p, c)'
  <2>1. PeerOK(c, b.last_received, b.ack_task.id, FALSE, 0)'
    BY <1>5, <1>6, <1>10 DEF Same
  <2>2. PeerOK(c, b.last_received, b.ack_task.id, t.send_task.has, t.send_task.ack)'
    BY <1>4, <1>10, <2>1 DEF PeerOK
  <2>3. t.last_received = b.last_received /\ t.ack_task.id = b.ack_task.id
    BY <1>10 DEF Same
  <2> QED
    BY <1>7, <2>2, <2>3
<1>11. CASE StepCalls(p) \/ \E m \in Message : StepPicks(p, m)
  <2>1. \/ Rests(b, t) \/ Expires(b, t) \/ Sends(b, t) \/ Closes(b, t)
    BY <1>1, <1>2, <1>11 DEF StepCalls, StepPicks
  <2>2. Expires(b, t) => Same(b, t) /\ ~ t.send_task.has
    BY DEF Expires, NoSendTask
  <2>3. Sends(b, t) \/ Closes(b, t) => Same(b, t) /\ t.send_task.ack = 0
    BY DEF Sends, Closes, NewTask
  <2> QED
    BY <1>9, <1>10, <2>1, <2>2, <2>3
<1>12. ASSUME NEW l \in Link, NEW i \in DOMAIN net[l], StepHears(l, i, p)
       PROVE  PeerInv(p, c)'
  <2>1. Ends(b, t) /\ Hears(b, net[l][i], t) /\ b.state # "waiting_for_submit"
    BY <1>1, <1>2, <1>12 DEF StepHears, StreamInv, IdentityInv
  <2>2. EndsKept(b, t)
    BY <2>1 DEF EndsKept, Hears, HearsAgain, HearsSubmit, HearsSubmitLate,
                HearsCloseSubmit, HearsClose, HearsData
  <2>3. Serves(p, c)
    BY <1>5, <1>6, <2>2 DEF EndsKept, Ends
  <2> QED
    BY <1>12, <2>3, PeerHears
<1>13. ASSUME NEW r \in RequestIds, NEW u, Submits(u, t, r),
              PeerOK(c, u.last_received, 0, FALSE, 0)'
       PROVE  PeerInv(p, c)'
  <2>1. /\ t.last_received = u.last_received /\ t.ack_task.id = r /\ t.send_task.ack = 0
    BY <1>13 DEF Submits, NewTask
  <2>2. HarmlessAck(c, r)'
    BY DEF HarmlessAck
  <2>3. PeerOK(c, u.last_received, r, t.send_task.has, 0)'
    BY <1>4, <1>13, <2>2 DEF PeerOK
  <2> QED
    BY <1>7, <2>1, <2>3
<1>14. ASSUME NEW l \in Link, NEW i \in DOMAIN net[l], StepAnswers(l, i, p)
       PROVE  PeerInv(p, c)'
  <2>1. PICK r : r = net[l][i].id
    OBVIOUS
  <2>2. Submits(b, t, r) /\ r \in RequestIds
    BY <1>1, <1>2, <1>14, <2>1 DEF StepAnswers, AsksAcceptor, ConfirmInv
  <2>3. PeerOK(c, b.last_received, b.ack_task.id, FALSE, 0)'
    BY <1>5, <1>6, <2>2 DEF Submits
  <2>4. PeerOK(c, b.last_received, 0, FALSE, 0)'
    BY <1>4, <2>3 DEF PeerOK
  <2> QED
    BY <1>13, <2>2, <2>4
<1>15. ASSUME NEW l \in Link, NEW i \in DOMAIN net[l], NEW port \in AcceptPorts,
              StepAccepts(l, i, p, port)
       PROVE  PeerInv(p, c)'
  <2>1. PICK r, u : /\ r = net[l][i].id
                    /\ u = NewSocket(l[1], port, net[l][i].sport, sock[p].ack_task)
    OBVIOUS
  <2>2. Submits(u, t, r) /\ r \in RequestIds
    BY <1>2, <1>15, <2>1 DEF StepAccepts, AsksAcceptor, ConfirmInv
  <2>3. u.last_received = 0
    BY <2>1 DEF NewSocket
  <2>4. PeerOK(c, u.last_received, 0, FALSE, 0)'
    BY <1>4, <2>3 DEF PeerOK
  <2> QED
    BY <1>13, <2>2, <2>4
<1> QED
  BY <1>1, <1>2, <1>3, <1>8, <1>11, <1>12, <1>14, <1>15, ChangeForms

LEMMA FromClientStep ==
  ASSUME StreamInv, StreamInv', ConnectionInv, ConfirmInv, [Next]_vars,
         NEW c \in Client, NEW l \in Link, NEW m \in Message,
         \/ \E i \in DOMAIN net[l] : m = net[l][i]
         \/ \E s \in Sock : l = LinkOf(s) /\ StepPicks(s, m)
  PROVE  FromClientInv(c, l, m)'
<1> USE Apart
<1> SUFFICES ASSUME l[1] = ClientNode[c], m.sport = ClientPort[c],
                    m.type # "connection_request"
             PROVE  m.id <= sock'[c].last_outgoing /\ Carries(c, m)'
  BY DEF FromClientInv
<1>1. /\ m.id \in Nat /\ sock[c].last_outgoing \in Nat /\ sock'[c].last_outgoing \in Nat
      /\ sock[c].send_task.id \in Nat
  <2>1. sock'[c] \in SocketType /\ sock[c] \in SocketType
    BY DEF StreamInv, TypeOK
  <2> QED
    BY <2>1, IdsAreNumbers DEF SocketType, Message, SendTask
<1>2. m.id <= sock[c].last_outgoing /\ Carries(c, m)
  <2>1. CASE \E i \in DOMAIN net[l] : m = net[l][i]
    BY <2>1 DEF ConfirmInv, FromClientInv
  <2>2. ASSUME NEW s \in Sock, l = LinkOf(s), StepPicks(s, m)
        PROVE  m.id <= sock[c].last_outgoing /\ Carries(c, m)
    <3>1. m.sport = sock[s].local_port /\ (IsTask(sock[s], m) \/ IsForceAck(sock[s], m))
      BY <2>2 DEF StepPicks, IsTask, IsForceAck
    <3>2. s \in Client
      <4>1. ClientNode[c] # Server /\ l[1] = Address(s)
        BY <2>2, TransportAssumption DEF LinkOf
      <4> QED
        BY <4>1 DEF Address
    <3>3. ClientNode[s] = ClientNode[c] /\ ClientPort[s] = ClientPort[c]
      BY <2>2, <3>1, <3>2 DEF LinkOf, Address, ConnectionInv, IdentityInv
    <3>4. s = c
      BY <3>2, <3>3, TransportAssumption
    <3>5. CASE IsTask(sock[s], m)
      <4>1. /\ sock[c].send_task.has /\ m.type = sock[c].send_task.type
            /\ m.id = sock[c].send_task.id /\ m.buf = sock[c].send_task.buf
        BY <3>4, <3>5 DEF IsTask
      <4>2. sock[c].send_task.id = sock[c].last_outgoing /\ Carries(c, sock[c].send_task)
        BY <4>1 DEF ConfirmInv, ClientTaskInv
      <4> QED
        BY <1>1, <4>1, <4>2 DEF Carries
    <3>6. CASE IsForceAck(sock[s], m)
      BY <3>6, ZeroHarmless DEF IsForceAck, ConfirmInv
    <3> QED
      BY <3>1, <3>5, <3>6
  <2> QED
    BY <2>1, <2>2
<1>3. NumbersKept(c)
  BY NumbersStep
<1>4. m.id <= sock'[c].last_outgoing
  BY <1>1, <1>2, <1>3 DEF NumbersKept
<1> QED
  BY <1>1, <1>2, <1>3, <1>4, CarriesKept

LEMMA ToClientStep ==
  ASSUME StreamInv, StreamInv', ConnectionInv, ConfirmInv, [Next]_vars,
         NEW c \in Client, NEW l \in Link, NEW m \in Message,
         \/ \E i \in DOMAIN net[l] : m = net[l][i]
         \/ \E s \in Sock : l = LinkOf(s) /\ StepPicks(s, m)
  PROVE  ToClientInv(c, l, m)'
<1> USE Apart
<1> SUFFICES ASSUME l[2] = ClientNode[c], m.dport = ClientPort[c]
             PROVE  HarmlessAck(c, m.ack)'
  BY DEF ToClientInv
<1>1. HarmlessAck(c, m.ack)
  <2>1. CASE \E i \in DOMAIN net[l] : m = net[l][i]
    BY <2>1 DEF ConfirmInv, ToClientInv
  <2>2. ASSUME NEW s \in Sock, l = LinkOf(s), StepPicks(s, m)
        PROVE  HarmlessAck(c, m.ack)
    <3>1. /\ IsTask(sock[s], m) \/ IsForceAck(sock[s], m)
          /\ s \in m_sockets /\ sock[s].remote_address = ClientNode[c]
      BY <2>2 DEF StepPicks, OnlySocket, LinkOf
    <3>2. s \in Slot /\ s \notin FreeSlots
      BY <3>1, TransportAssumption DEF ConnectionInv, IdentityInv
    <3>3. m.dport = sock[s].remote_port
      BY <3>1, <3>2 DEF IsTask, IsForceAck, ConnectionInv, TasksAddressed
    <3>4. Serves(s, c)
      BY <3>1, <3>2, <3>3 DEF Serves
    <3>5. HarmlessAck(c, sock[s].ack_task.id)
          /\ (sock[s].send_task.has => HarmlessAck(c, sock[s].send_task.ack))
      BY <3>2, <3>4 DEF ConfirmInv, PeerInv
    <3> QED
      BY <3>1, <3>5 DEF IsTask, IsForceAck
  <2> QED
    BY <2>1, <2>2
<1>2. m.ack \in Nat
  BY IdsAreNumbers DEF Message
<1> QED
  BY <1>1, <1>2, NumbersStep, ReachedStep, HarmlessKept

LEMMA RequestIdsStep ==
  ASSUME StreamInv, ConfirmInv, NEW l \in Link, NEW m, m.type = "connection_request",
         \/ \E i \in DOMAIN net[l] : m = net[l][i]
         \/ \E s \in Sock : l = LinkOf(s) /\ StepPicks(s, m)
  PROVE  m.id \in RequestIds
<1> USE Apart
<1>1. CASE \E i \in DOMAIN net[l] : m = net[l][i]
  BY <1>1 DEF ConfirmInv
<1>2. ASSUME NEW s \in Sock, StepPicks(s, m) PROVE m.id \in RequestIds
  <2>1. IsTask(sock[s], m)
    BY <1>2 DEF StepPicks, IsForceAck
  <2>2. s \in Client
    BY <2>1 DEF IsTask, StreamInv, IdentityInv
  <2> QED
    BY <2>1, <2>2 DEF IsTask, ConfirmInv, ClientTaskInv
<1> QED
  BY <1>1, <1>2

LEMMA ConfirmStep ==
  ASSUME StreamInv, ConnectionInv, ConfirmInv, [Next]_vars
  PROVE  ConfirmInv'
<1>1. StreamInv' /\ TypeOK /\ TypeOK'
  BY NextStream DEF StreamInv
<1>2. \A c \in Client : ClientTaskInv(c)'
  BY <1>1, ClientTaskStep
<1>3. \A c \in Client : \A p \in Slot : PeerInv(p, c)'
  BY <1>1, <1>2, PeerStep
<1>4. ASSUME NEW l \in Link, NEW i \in DOMAIN net'[l]
      PROVE  /\ \A c \in Client : (FromClientInv(c, l, net[l][i]) /\ ToClientInv(c, l, net[l][i]))'
             /\ net'[l][i].type = "connection_request" => net'[l][i].id \in RequestIds
  <2>1. PICK m : m = net'[l][i]
    OBVIOUS
  <2>2. m \in Message
    BY <1>1, <2>1, ElementOfSeq DEF TypeOK
  <2>3. \/ \E k \in DOMAIN net[l] : m = net[l][k]
        \/ \E s \in Sock : l = LinkOf(s) /\ StepPicks(s, m)
    BY <1>1, <2>1, WasThereOrPicked
  <2>4. \A c \in Client : FromClientInv(c, l, m)' /\ ToClientInv(c, l, m)'
    BY <1>1, <2>2, <2>3, FromClientStep, ToClientStep
  <2>5. m.type = "connection_request" => m.id \in RequestIds
    BY <2>3, RequestIdsStep
  <2> QED
    BY <2>1, <2>4, <2>5
<1> QED
  BY <1>2, <1>3, <1>4 DEF ConfirmInv

LEMMA ConfirmInit == Init => ConfirmInv
<1> SUFFICES ASSUME Init PROVE ConfirmInv
  OBVIOUS
<1> USE Apart
<1>1. \A l \in Link : net[l] = <<>>
  BY DEF Init
<1>2. \A c \in Client : sent[c] = <<>> /\ DOMAIN sent[c] = {}
  BY DEF Init
<1>3. \A c \in Client : /\ sock[c].send_task.has = FALSE
                        /\ sock[c].last_outgoing = 0
  BY DEF Init, NewSocket, NoSendTask
<1>4. \A c \in Client : ClientTaskInv(c)
  BY <1>2, <1>3 DEF ClientTaskInv
<1>5. \A c \in Client, p \in Slot : ~ Serves(p, c)
  BY InitSockets DEF Serves, FreeSlots
<1> QED
  BY <1>1, <1>4, <1>5 DEF ConfirmInv, PeerInv

\* Whatever the network does, what acknowledges the data of a client comes from a
\* socket of the acceptor that received it, or is the acknowledgement of a request.
THEOREM ConfirmInvariant == Spec => []ConfirmInv
<1>1. StreamInv /\ ConnectionInv /\ ConfirmInv /\ [Next]_vars => ConfirmInv'
  BY ConfirmStep
<1> QED
  BY <1>1, ConfirmInit, StreamInvariant, ConnectionInvariant, PTL DEF Spec

-----------------------------------------------------------------------------
(* The sockets keep the promises of Stream. *)

\* The streams as Stream sees them.
Offered == [s \in Sock |-> Len(sent[s])]
Received == [s \in Sock |-> Delivered(s)]

LEMMA ArrivedIsReached == AnyStream!Arrived = Reached
<1>1. \A s \in Sock : {Received[s][i] : i \in DOMAIN Received[s]} = DeliveredItems(s)
  BY DEF Received, DeliveredItems, BufferItems
<1> QED
  BY <1>1 DEF AnyStream!Arrived, Reached, Received

LEMMA InitAnyStream == Init => AnyStream!Init
<1> SUFFICES ASSUME Init PROVE AnyStream!Init
  OBVIOUS
<1>1. ASSUME NEW s \in Sock PROVE Delivered(s) = <<>> /\ Len(sent[s]) = 0
  <2>1. taken[s] = <<>> /\ sock[s].incoming = <<>> /\ sent[s] = <<>>
    BY <1>1, InitSockets DEF Init
  <2> QED
    BY <2>1, ConcatEmptySeq, EmptySeq DEF Delivered
<1> QED
  BY <1>1 DEF AnyStream!Init, Init

\* A payload that a message brings is the next of the stream, or had no room.
LEMMA BringsNext ==
  ASSUME StreamInv, StreamInv', NEW l \in Link, NEW m, NEW s \in Sock, StreamHears(l, m, s)
  PROVE  \/ \E r, x \in Sock : \E n \in 1 .. Offered[x] : AnyStream!Deliver(r, x, n)
         \/ \E x \in Sock : \E n \in 1 .. Offered[x] : AnyStream!Refuse(x, n)
         \/ AnyStream!Nothing
<1>1. CASE Delivered(s)' = Delivered(s) /\ overflowed' = overflowed
  <2>1. Received' = Received
    BY <1>1 DEF StreamHears, Received
  <2> QED
    BY <1>1, <2>1 DEF AnyStream!Nothing, Received
<1>2. ASSUME NEW p \in Payload, m.buf = <<p>>
      PROVE  p[1] \in Sock /\ p[2] \in 1 .. Offered[p[1]] /\ p = <<p[1], p[2]>>
  <2>1. p[1] \in Sock /\ p = <<p[1], p[2]>>
    BY DEF Payload
  <2>2. p[2] \in DOMAIN sent[p[1]]
    <3>1. MessageNumbered(l, m) /\ 1 \in DOMAIN m.buf /\ m.buf[1] = p
      BY <1>2 DEF StreamHears
    <3> QED
      BY <3>1 DEF MessageNumbered, Numbered
  <2>3. sent[p[1]] \in Seq(Id)
    BY <2>1 DEF StreamInv, TypeOK
  <2> QED
    BY <2>1, <2>2, <2>3 DEF Offered
<1>3. ASSUME NEW p \in Payload, m.buf = <<p>>, Delivered(s)' = Append(Delivered(s), p),
             overflowed' = overflowed
      PROVE  AnyStream!Deliver(s, p[1], p[2])
  <2>1. PICK q : q = Delivered(s)
    OBVIOUS
  <2>2. /\ Delivered(s) \in Seq(Payload) /\ q \in Seq(Payload)
        /\ p[1] \in Sock /\ p[2] \in 1 .. Offered[p[1]] /\ p = <<p[1], p[2]>>
    BY <1>2, <1>3, <2>1, DeliveredType DEF StreamInv
  <2>3. /\ Len(q) + 1 \in DOMAIN Append(q, p) /\ Append(q, p)[Len(q) + 1] = p
        /\ \A i \in DOMAIN q : /\ i \in DOMAIN Append(q, p) /\ Append(q, p)[i] = q[i]
                               /\ i < Len(q) + 1
    BY <2>2
  <2>4. Delivered(s)' = Append(q, p)
    BY <1>3, <2>1
  <2> HIDE DEF Append
  <2>5. \A i \in DOMAIN q : i < Len(q) + 1 => i # Len(q) + 1
    BY <2>2
  <2>6. ASSUME NEW i \in DOMAIN q
        PROVE  q[i] # p /\ (s \in Slot => q[i][1] = p[1] /\ q[i][2] < p[2])
    <3>1. q[i] # p
      BY <2>3, <2>4, <2>5 DEF StreamInv, AtMostOnce
    <3>2. s \in Slot => q[i][1] = p[1] /\ q[i][2] < p[2]
      BY <2>3, <2>4 DEF StreamInv, AcceptorStreamsInOrder, InOrder
    <3> QED
      BY <3>1, <3>2
  <2>7. Received[s] = q
    BY <2>1 DEF Received
  <2>8. AnyStream!IsNext(s, p[1], p[2])
    BY <2>2, <2>6, <2>7 DEF AnyStream!IsNext, Received
  <2>9. Received' = [Received EXCEPT ![s] = Append(@, <<p[1], p[2]>>)]
    BY <2>1, <2>2, <2>4 DEF StreamHears, Received
  <2> QED
    BY <1>3, <2>2, <2>8, <2>9 DEF AnyStream!Deliver, Received, Offered
<1>4. ASSUME NEW p \in Payload, m.buf = <<p>>, Delivered(s)' = Delivered(s),
             overflowed' = overflowed \cup {p}
      PROVE  AnyStream!Refuse(p[1], p[2])
  <2>1. Received' = Received
    BY <1>4 DEF StreamHears, Received
  <2>2. p[2] \in 1 .. Offered[p[1]] /\ overflowed' = overflowed \cup {<<p[1], p[2]>>}
    BY <1>2, <1>4
  <2> QED
    BY <2>1, <2>2 DEF AnyStream!Refuse, Received, Offered
<1>5. \/ Delivered(s)' = Delivered(s) /\ overflowed' = overflowed
      \/ \E p \in Payload : /\ m.buf = <<p>>
                            /\ \/ /\ Delivered(s)' = Append(Delivered(s), p)
                                  /\ overflowed' = overflowed
                               \/ /\ Delivered(s)' = Delivered(s)
                                  /\ overflowed' = overflowed \cup {p}
  BY DEF StreamHears, Brings
<1> QED
  BY <1>1, <1>2, <1>3, <1>4, <1>5

\* What an acknowledgement confirms has arrived, if the sender's data cannot have the
\* id of a request.
LEMMA ConfirmedArrived ==
  ASSUME StreamInv, ConfirmInv, NEW c \in NumberedApart, NEW l \in Link,
         NEW i \in DOMAIN net[l], Recipient(l, net[l][i], c), AckMatches(sock[c], net[l][i]),
         NEW n, sock[c].send_task.buf = <<<<c, n>>>>
  PROVE  <<c, n>> \in Reached
<1>1. PICK m : m = net[l][i]
  OBVIOUS
<1>2. c \in Client /\ c \in Sock /\ RequestIds \cap 1 .. MaxOutgoing[c] = {}
  BY Apart DEF NumberedApart
<1>3. l[2] = ClientNode[c] /\ m.dport = ClientPort[c]
  BY <1>1, <1>2 DEF Recipient, Address, StreamInv, IdentityInv
<1>4. sock[c].send_task.has /\ m.ack = sock[c].send_task.id
  BY <1>1 DEF AckMatches
<1>5. HarmlessAck(c, m.ack) /\ ClientTaskInv(c)
  BY <1>1, <1>2, <1>3 DEF ConfirmInv, ToClientInv
<1>6. n \in DOMAIN sent[c] /\ sent[c][n] = m.ack
  <2>1. TaskNumbered(c) /\ 1 \in DOMAIN sock[c].send_task.buf
        /\ sock[c].send_task.buf[1] = <<c, n>>
    BY <1>2 DEF StreamInv, TasksNumbered
  <2> QED
    BY <1>4, <2>1 DEF TaskNumbered, Numbered
<1>7. m.ack \notin RequestIds
  BY <1>2, <1>5, <1>6 DEF ClientTaskInv
<1>8. m.ack = sock[c].last_outgoing
  <2>1. <<<<c, n>>>> # <<>>
    OBVIOUS
  <2> QED
    BY <1>4, <1>5, <2>1 DEF ClientTaskInv
<1>9. ArrivedUpTo(c, m.ack)
  BY <1>5, <1>7, <1>8 DEF HarmlessAck
<1> QED
  BY <1>6, <1>9 DEF ArrivedUpTo

LEMMA ConfirmsArrived ==
  ASSUME StreamInv, ConfirmInv, NEW l \in Link, NEW i \in DOMAIN net[l],
         NEW s \in Sock, StreamHears(l, net[l][i], s)
  PROVE  \/ \E x \in Sock : \E n \in 1 .. Offered[x] : AnyStream!Confirm(x, n)
         \/ UNCHANGED confirmed
<1>1. sock[s].send_task.buf \in Buffer /\ Recipient(l, net[l][i], s)
  BY DEF StreamHears, StreamInv, TypeOK, SocketType, SendTask
<1>2. CASE ~ AckMatches(sock[s], net[l][i])
  BY <1>2 DEF StreamHears
<1>3. CASE AckMatches(sock[s], net[l][i])
  <2>1. confirmed' = confirmed \cup BufferItems(sock[s].send_task.buf)
    BY <1>3 DEF StreamHears
  <2>2. CASE sock[s].send_task.buf = <<>>
    BY <2>1, <2>2 DEF BufferItems
  <2>3. CASE sock[s].send_task.buf # <<>>
    <3>1. PICK p \in Payload : sock[s].send_task.buf = <<p>>
      BY <1>1, <2>3, SingleBuffer
    <3>2. p[1] = s /\ p[2] \in DOMAIN sent[s] /\ p = <<p[1], p[2]>>
      <4>1. TaskNumbered(s) /\ 1 \in DOMAIN sock[s].send_task.buf
            /\ sock[s].send_task.buf[1] = p
        BY <3>1 DEF StreamInv, TasksNumbered
      <4> QED
        BY <4>1 DEF TaskNumbered, Numbered, Payload
    <3>3. p[2] \in 1 .. Offered[s]
      BY <3>2 DEF StreamInv, TypeOK, Offered
    <3>4. s \in NumberedApart => <<s, p[2]>> \in AnyStream!Arrived
      BY <1>1, <1>3, <3>1, <3>2, ConfirmedArrived, ArrivedIsReached
    <3>5. confirmed' = confirmed \cup {<<s, p[2]>>}
      BY <2>1, <3>1, <3>2 DEF BufferItems
    <3>6. AnyStream!Confirm(s, p[2])
      BY <3>4, <3>5 DEF AnyStream!Confirm
    <3> QED
      BY <3>3, <3>6
  <2> QED
    BY <2>2, <2>3
<1> QED
  BY <1>2, <1>3

LEMMA NextAnyStream ==
  ASSUME StreamInv, StreamInv', ConfirmInv, [Next]_vars
  PROVE  [AnyStream!Next]_AnyStream!vars
<1>1. CASE StreamStays
  <2>1. Received' = Received /\ Offered' = Offered
    BY <1>1 DEF StreamStays, SameDelivered, Received, Offered
  <2> QED
    BY <1>1, <2>1 DEF AnyStream!vars, StreamStays, Received, Offered
<1>2. ASSUME NEW s \in Sock, StreamSends(s) PROVE AnyStream!Next
  <2>1. Received' = Received
    BY <1>2 DEF StreamSends, SameDelivered, Received
  <2>2. sent' = [sent EXCEPT ![s] = Append(@, Wrap(sock[s].last_outgoing + 1))]
        /\ sent \in [Sock -> Seq(Id)] /\ Wrap(sock[s].last_outgoing + 1) \in Id
    <3>1. sock[s].last_outgoing \in Nat
      BY Numbers
    <3> QED
      BY <1>2, <3>1, WrapType DEF StreamSends, CallSend, StreamInv, TypeOK
  <2>3. Len(Append(sent[s], Wrap(sock[s].last_outgoing + 1))) = Len(sent[s]) + 1
    BY <2>2
  <2>4. Offered' = [Offered EXCEPT ![s] = @ + 1]
    BY <2>2, <2>3 DEF Offered
  <2>5. AnyStream!Offer(s)
    BY <1>2, <2>1, <2>4 DEF AnyStream!Offer, StreamSends, Received, Offered
  <2> QED
    BY <2>5 DEF AnyStream!Next
<1>3. ASSUME NEW l \in Link, NEW i \in DOMAIN net[l], NEW s \in Sock,
             StreamHears(l, net[l][i], s)
      PROVE  AnyStream!Next
  <2>1. Offered' = Offered
    BY <1>3 DEF StreamHears, Offered
  <2> QED
    BY <1>3, <2>1, BringsNext, ConfirmsArrived
       DEF AnyStream!Next, AnyStream!Arrive, Offered
<1> QED
  BY <1>1, <1>2, <1>3, StreamForms

\* On any network, the sockets implement streams: at most once everywhere, in order
\* from a client to the acceptor, and with confirmations that tell the truth to every
\* client whose data cannot have the id of a connection request.
THEOREM AnyStreamImplemented == Spec => ImplementsAnyStream
<1>1. /\ StreamInv /\ StreamInv' /\ ConfirmInv /\ [Next]_vars
      => [AnyStream!Next]_AnyStream!vars
  BY NextAnyStream
<1> QED
  BY <1>1, InitAnyStream, StreamInvariant, ConfirmInvariant, PTL
     DEF Spec, ImplementsAnyStream, AnyStream!Spec

-----------------------------------------------------------------------------
(* One client, and links that keep the order *)

\* The invariants proved before, which those of this part rest on.
Known ==
    /\ StreamInv
    /\ ConnectionInv
    /\ ConfirmInv
    /\ CloseInv
    /\ RequestInv
    /\ OneSocketPerRequest

\* A step between two states of which all this is known.
OrderStep == OrderlyApart /\ Known /\ Known' /\ OrderInv /\ [Next]_vars

LEMMA TwoLinks ==
  ASSUME OneClient, NEW c \in Client
  PROVE  /\ Link = {ToServer(c), ToClient(c)}
         /\ ToServer(c)[1] = ClientNode[c] /\ ToServer(c)[2] = Server
         /\ ToClient(c)[1] = Server /\ ToClient(c)[2] = ClientNode[c]
         /\ ClientNode[c] # Server
         /\ ToServer(c) # ToClient(c)
<1>1. Node = {Server, ClientNode[c]} /\ ClientNode[c] # Server
  BY TransportAssumption DEF Node, OneClient
<1>2. Link = {ToServer(c), ToClient(c)}
  <2>1. ASSUME NEW l \in Link PROVE l \in {ToServer(c), ToClient(c)}
    <3>1. l = <<l[1], l[2]>> /\ l[1] \in Node /\ l[2] \in Node /\ l[1] # l[2]
      BY DEF Link
    <3> QED
      BY <1>1, <3>1 DEF ToServer, ToClient
  <2>2. ToServer(c) \in Link /\ ToClient(c) \in Link
    BY <1>1 DEF Link, ToServer, ToClient
  <2> QED
    BY <2>1, <2>2
<1> QED
  BY <1>1, <1>2 DEF ToServer, ToClient

\* Every used slot is at the other end of the client, which has asked for it, and only
\* one of them is registered.
LEMMA UsedSlotServes ==
  ASSUME OneClient, Known, NEW c \in Client, NEW p \in Slot, p \notin FreeSlots
  PROVE  Serves(p, c) /\ Asked(c)
<1>1. PICK d \in Client : Asked(d) /\ Serves(p, d)
  BY DEF Known, RequestInv, RequestsOf
<1> QED
  BY <1>1 DEF OneClient

LEMMA RegisteredServes ==
  ASSUME OneClient, Known, NEW c \in Client, NEW p \in Slot, p \in m_sockets
  PROVE  /\ p \in Sock /\ p \notin FreeSlots
         /\ Serves(p, c) /\ Asked(c)
         /\ \A q \in Slot : q \in m_sockets => q = p
<1>1. p \in Sock /\ \A q \in Slot : q \in m_sockets => q \notin FreeSlots
  BY Apart DEF Known, StreamInv, IdentityInv
<1>2. \A q \in Slot : q \in m_sockets => Serves(q, c) /\ Asked(c)
  BY <1>1, UsedSlotServes
<1> QED
  BY <1>1, <1>2 DEF Serves, Known, OneSocketPerRequest

LEMMA NextNumbers ==
  ASSUME TypeOK', NEW s \in Sock
  PROVE  /\ sock'[s] \in SocketType
         /\ sock'[s].last_outgoing \in Nat
         /\ sock'[s].last_received \in Nat
         /\ \A j \in DOMAIN sent'[s] : sent'[s][j] \in Nat
<1>1. sock'[s] \in SocketType /\ sent'[s] \in Seq(Id)
  BY DEF TypeOK
<1>2. sock'[s].last_outgoing \in Id /\ sock'[s].last_received \in Id
  BY <1>1 DEF SocketType
<1>3. \A j \in DOMAIN sent'[s] : sent'[s][j] \in Id
  BY <1>1, ElementOfSeq
<1> QED
  BY <1>1, <1>2, <1>3, IdsAreNumbers

LEMMA AckNumbers ==
  ASSUME TypeOK, NEW s \in Sock
  PROVE  /\ sock[s].ack_task.id \in Nat
         /\ sock[s].send_task.id \in Nat
         /\ sock[s].send_task.ack \in Nat
         /\ sock[s].send_task \in SendTask
         /\ sock[s].send_task.buf \in Buffer
<1>1. sock[s] \in SocketType
  BY DEF TypeOK
<1>2. /\ sock[s].ack_task.id \in Id
      /\ sock[s].send_task.id \in Id
      /\ sock[s].send_task.ack \in Id
  BY <1>1 DEF SocketType, AckTask, SendTask
<1>3. sock[s].send_task \in SendTask /\ sock[s].send_task.buf \in Buffer
  BY <1>1 DEF SocketType, SendTask
<1> QED
  BY <1>2, <1>3, IdsAreNumbers

LEMMA KnownTypes ==
  ASSUME Known
  PROVE  TypeOK /\ StreamInv /\ \A l \in Link : net[l] \in Seq(Message)
  BY DEF Known, StreamInv, TypeOK

\* Only the first message of a link is handled.
LEMMA FirstArrives ==
  ASSUME OrderStep, NEW l \in Link, NEW i, i \in Arriving(l)
  PROVE  i = 1 /\ 1 \in DOMAIN net[l]
  BY DEF OrderStep, OrderlyApart, Orderly, Arriving

\* When a message from the client reaches a socket of the acceptor, no request is left.
LEMMA SlotHears ==
  ASSUME OrderStep, NEW c \in Client, NEW p \in Slot,
         NEW l \in Link, NEW i \in DOMAIN net[l], StepHears(l, i, p)
  PROVE  /\ l = ToServer(c) /\ i = 1
         /\ AllAsked
         /\ ToServerOrder(net[l][1])
         /\ net[l][1].type # "connection_close_submit" => ClientGot(c, net[l][1].ack)
<1>1. i = 1 /\ p \in m_sockets
  BY FirstArrives DEF StepHears, ReceiveMessage, OnlySocket
<1>2. OneClient /\ Known /\ p \notin FreeSlots
  BY <1>1, RegisteredServes DEF OrderStep, OrderlyApart, Orderly
<1>3. l[2] = Server
  BY Apart DEF StepHears, Recipient, Address
<1>4. l = ToServer(c)
  BY <1>2, <1>3, TwoLinks
<1>5. LateOrder(c, l, 1) /\ ToServerOrder(net[l][1])
  BY <1>1, <1>4 DEF OrderStep, OrderInv
<1>6. AfterRequest(l, 1) /\ net[l][1].type # "connection_request"
  BY <1>1, <1>2 DEF AfterRequest, UsedSlots, StepHears, MayHear
<1>7. /\ sock[c].state \notin Unanswered
      /\ \A k \in DOMAIN net[l] : 1 < k => net[l][k].type # "connection_request"
      /\ net[l][1].type # "connection_close_submit" => ClientGot(c, net[l][1].ack)
  BY <1>5, <1>6 DEF LateOrder
<1>8. ASSUME NEW k \in Link, NEW j \in DOMAIN net[k], net[k][j].type = "connection_request"
      PROVE  FALSE
  <2>1. k[1] # Server
    BY <1>2, <1>8 DEF Known, CloseInv, ClosingMessage
  <2>2. k = l
    BY <1>2, <1>4, <2>1, TwoLinks
  <2>3. j \in Nat \ {0}
    BY <1>2, KnownTypes
  <2>4. j = 1 \/ 1 < j
    BY <2>3
  <2> QED
    BY <1>6, <1>7, <1>8, <2>2, <2>4
<1>9. AllAsked
  BY <1>2, <1>7, <1>8 DEF AllAsked, OneClient
<1> QED
  BY <1>1, <1>4, <1>5, <1>7, <1>9

LEMMA ClientHears ==
  ASSUME OrderStep, NEW c \in Client,
         NEW l \in Link, NEW i \in DOMAIN net[l], StepHears(l, i, c)
  PROVE  l = ToClient(c) /\ i = 1 /\ ToClientOrder(c, net[l][1])
<1>1. i = 1 /\ OneClient /\ Known
  BY FirstArrives DEF StepHears, ReceiveMessage, OrderStep, OrderlyApart, Orderly
<1>2. l[2] = ClientNode[c]
  BY DEF StepHears, Recipient, Address
<1>3. l = ToClient(c)
  BY <1>1, <1>2, TwoLinks
<1> QED
  BY <1>1, <1>3 DEF OrderStep, OrderInv

-----------------------------------------------------------------------------
(* What a step does to a socket of the acceptor *)

\* An answer to a request, for the first time or again: no message has come before.
Resubmits(t) ==
    /\ ~ AllAsked
    /\ \E r \in RequestIds : \E u : /\ Submits(u, t, r)
                                    /\ u.last_received = 0
                                    /\ u.missed = 0

LEMMA AskedAcceptor ==
  ASSUME OrderStep, NEW l, NEW i, AsksAcceptor(l, i)
  PROVE  ~ AllAsked /\ net[l][i].id \in RequestIds
  BY DEF AsksAcceptor, AllAsked, OrderStep, Known, ConfirmInv

LEMMA AcceptsResubmits ==
  ASSUME OrderStep, NEW p \in Slot, NEW l, NEW i, NEW port, StepAccepts(l, i, p, port)
  PROVE  p \in m_sockets' /\ Resubmits(sock'[p])
<1>1. ~ AllAsked /\ net[l][i].id \in RequestIds /\ p \in m_sockets'
  BY AskedAcceptor DEF StepAccepts
<1>2. PICK r, u : r = net[l][i].id
                  /\ u = NewSocket(l[1], port, net[l][i].sport, sock[p].ack_task)
  OBVIOUS
<1>3. u.last_received = 0 /\ u.missed = 0
  BY <1>2 DEF NewSocket
<1> QED
  BY <1>1, <1>2, <1>3 DEF StepAccepts, Resubmits

LEMMA SlotForms ==
  ASSUME OrderStep, NEW c \in Client, NEW p \in Slot
  PROVE  \/ sock'[p] = sock[p]
         \/ /\ p \in m_sockets /\ p \in m_sockets'
            /\ \/ Rests(sock[p], sock'[p])
               \/ /\ Sends(sock[p], sock'[p])
                  /\ sock'[p].last_outgoing = sock[p].last_outgoing + 1
               \/ Closes(sock[p], sock'[p])
               \/ AllAsked /\ \E l \in Link : \E i \in DOMAIN net[l] : StepHears(l, i, p)
         \/ p \in m_sockets' /\ Resubmits(sock'[p])
<1>1. p \in Sock /\ TypeOK /\ [Next]_vars /\ "expire" \notin Calls
  BY Apart, KnownTypes DEF OrderStep, OrderlyApart, Orderly
<1>2. CASE StepCalls(p)
  <2>1. p \in m_sockets /\ p \in m_sockets'
    BY <1>2 DEF StepCalls, OnlySocket
  <2>2. CASE Sends(sock[p], sock'[p]) /\ sock[p].last_outgoing < MaxOutgoing[p]
    <3>1. sock[p].last_outgoing \in Id /\ sock[p].last_outgoing \in Nat
      BY <1>1, IdsAreNumbers DEF TypeOK, SocketType
    <3>2. sock[p].last_outgoing <= MaxOutgoing[p]
      BY <1>1, <2>2, <3>1, Outgoing
    <3>3. Wrap(sock[p].last_outgoing + 1) = sock[p].last_outgoing + 1
      BY <1>1, <3>1, <3>2, NextOutgoing
    <3> QED
      BY <2>1, <2>2, <3>3 DEF Sends
  <2> QED
    BY <1>1, <1>2, <2>1, <2>2, Apart DEF StepCalls, Expires
<1>3. ASSUME NEW m \in Message, StepPicks(p, m)
      PROVE  p \in m_sockets /\ p \in m_sockets' /\ Rests(sock[p], sock'[p])
  BY <1>1, <1>3 DEF StepPicks, Expires, OnlySocket
<1>4. ASSUME NEW l \in Link, NEW i \in DOMAIN net[l], StepHears(l, i, p)
      PROVE  p \in m_sockets /\ p \in m_sockets' /\ AllAsked
  BY <1>4, SlotHears DEF StepHears, OnlySocket
<1>5. ASSUME NEW l \in Link, NEW i \in DOMAIN net[l], StepAnswers(l, i, p)
      PROVE  p \in m_sockets' /\ Resubmits(sock'[p])
  <2>1. ~ AllAsked /\ net[l][i].id \in RequestIds /\ p \in m_sockets'
    BY <1>5, AskedAcceptor DEF StepAnswers, OnlySocket
  <2>2. sock[p].last_received = 0 /\ sock[p].missed = 0
    BY <1>1, <2>1 DEF OrderStep, OrderInv, SlotOrder
  <2> QED
    BY <1>5, <2>1, <2>2 DEF StepAnswers, Resubmits
<1>6. ASSUME NEW l \in Link, NEW i \in DOMAIN net[l], NEW port \in AcceptPorts,
             StepAccepts(l, i, p, port)
      PROVE  p \in m_sockets' /\ Resubmits(sock'[p])
  BY <1>6, AcceptsResubmits
<1> QED
  BY <1>1, <1>2, <1>3, <1>4, <1>5, <1>6, ChangeForms

LEMMA RestsTask ==
  ASSUME NEW b \in SocketType, NEW t, Rests(b, t)
  PROVE  /\ t.send_task.has = b.send_task.has
         /\ t.send_task.type = b.send_task.type
         /\ t.send_task.id = b.send_task.id
         /\ t.send_task.buf = b.send_task.buf
         /\ t.send_task.ack \in {b.send_task.ack, b.ack_task.id}
         /\ t.state = b.state
         /\ t.last_outgoing = b.last_outgoing
         /\ t.last_received = b.last_received
         /\ t.ack_task.id = b.ack_task.id
         /\ t.missed = b.missed
<1>1. b.send_task \in SendTask
  BY DEF SocketType
<1>2. PICK a : t.send_task = [b.send_task EXCEPT !.ack = a]
  BY DEF Rests
<1>3. /\ t.send_task.has = b.send_task.has
      /\ t.send_task.type = b.send_task.type
      /\ t.send_task.id = b.send_task.id
      /\ t.send_task.buf = b.send_task.buf
  BY <1>1, <1>2 DEF SendTask
<1> QED
  BY <1>3 DEF Rests, Same

LEMMA NewTaskFields ==
  ASSUME NEW b, NEW t, NEW type, NEW id, NewTask(b, t, type, id)
  PROVE  /\ t.send_task.has = TRUE
         /\ t.send_task.type = type
         /\ t.send_task.id = id
         /\ t.send_task.ack = 0
<1>1. PICK z, buf : /\ z = t.send_task
                    /\ z = [has |-> TRUE, type |-> type, id |-> id, ack |-> 0,
                            dport |-> b.remote_port, buf |-> buf]
  BY DEF NewTask
<1> QED
  BY <1>1

\* The tasks that calls of the application make.
LEMMA CallTasks ==
  ASSUME NEW b, NEW t
  PROVE  /\ Connects(b, t) => t.send_task.has /\ t.send_task.type = "connection_request"
         /\ Sends(b, t) => /\ t.send_task.has /\ t.send_task.type = "data_transfer"
                           /\ t.send_task.id = t.last_outgoing /\ t.send_task.ack = 0
         /\ Closes(b, t) => /\ t.send_task.has /\ t.send_task.type = "connection_close"
                            /\ t.send_task.id = t.last_outgoing /\ t.send_task.ack = 0
<1>1. ASSUME Connects(b, t) PROVE t.send_task.has /\ t.send_task.type = "connection_request"
  <2>1. PICK r \in RequestIds : NewTask(b, t, "connection_request", r)
    BY <1>1 DEF Connects
  <2> QED
    BY <2>1, NewTaskFields
<1>2. ASSUME Sends(b, t)
      PROVE  /\ t.send_task.has /\ t.send_task.type = "data_transfer"
             /\ t.send_task.id = t.last_outgoing /\ t.send_task.ack = 0
  <2>1. PICK z, n, buf :
           /\ z = t.send_task /\ n = t.last_outgoing
           /\ z = [has |-> TRUE, type |-> "data_transfer", id |-> n, ack |-> 0,
                   dport |-> b.remote_port, buf |-> buf]
    BY <1>2 DEF Sends, NewTask
  <2> QED
    BY <2>1
<1>3. ASSUME Closes(b, t)
      PROVE  /\ t.send_task.has /\ t.send_task.type = "connection_close"
             /\ t.send_task.id = t.last_outgoing /\ t.send_task.ack = 0
  <2>1. PICK z, n, buf :
           /\ z = t.send_task /\ n = t.last_outgoing
           /\ z = [has |-> TRUE, type |-> "connection_close", id |-> n, ack |-> 0,
                   dport |-> b.remote_port, buf |-> buf]
    BY <1>3 DEF Closes, NewTask
  <2> QED
    BY <2>1
<1> QED
  BY <1>1, <1>2, <1>3

LEMMA WrapOne == Wrap(1) = 1 /\ Wrap(0) = 0
  BY SocketAssumption, SMT DEF Wrap

LEMMA ResubmitsFields ==
  ASSUME NEW t, Resubmits(t)
  PROVE  /\ HasTask(t, {"connection_submit"})
         /\ t.send_task.id = 1
         /\ t.send_task.ack = 0
         /\ t.send_task.buf = <<>>
         /\ t.send_task.type = "connection_submit"
         /\ t.ack_task.id \in RequestIds
         /\ t.state = "connected"
         /\ t.last_outgoing = 1
         /\ t.last_received = 0
         /\ t.missed = 0
         /\ ~ AllAsked
<1>0. PICK r \in RequestIds :
         \E u : Submits(u, t, r) /\ u.last_received = 0 /\ u.missed = 0
  BY DEF Resubmits
<1>1. PICK u : Submits(u, t, r) /\ u.last_received = 0 /\ u.missed = 0
  BY <1>0
<1>2. NewTask(u, t, "connection_submit", Wrap(1))
  BY <1>1 DEF Submits
<1>3. t.ack_task.id = r
  BY <1>1 DEF Submits
<1>4. /\ t.send_task.has = TRUE
      /\ t.send_task.type = "connection_submit"
      /\ t.send_task.id = 1
      /\ t.send_task.ack = 0
  BY <1>2, NewTaskFields, WrapOne
<1>5. HasTask(t, {"connection_submit"})
  BY <1>4 DEF HasTask
<1> QED
  BY <1>1, <1>3, <1>4, <1>5, WrapOne DEF Submits, Resubmits

\* What a socket hears changes m_last_received_message_id by a new message only.
LEMMA HearsReceived ==
  ASSUME NEW b, NEW h, NEW t, Hears(b, h, t)
  PROVE  /\ \/ t.last_received = b.last_received
            \/ b.last_received < h.id /\ t.last_received = h.id
         /\ t.state = "connected" =>
              /\ b.state \in {"connected", "waiting_for_submit"}
              /\ t.last_outgoing = b.last_outgoing
<1>1. CASE HearsAgain(b, h, t) \/ HearsSubmitLate(b, h, t)
  BY <1>1 DEF HearsAgain, HearsSubmitLate
<1>2. CASE HearsSubmit(b, h, t) \/ HearsData(b, h, t)
  BY <1>2 DEF HearsSubmit, HearsData
<1>3. CASE HearsCloseSubmit(b, h, t)
  BY <1>3 DEF HearsCloseSubmit
<1>4. CASE HearsClose(b, h, t)
  BY <1>4 DEF HearsClose
<1> QED
  BY <1>1, <1>2, <1>3, <1>4 DEF Hears

LEMMA Joins ==
  ASSUME OrderStep, NEW p \in Slot, p \in m_sockets', p \notin m_sockets
  PROVE  Resubmits(sock'[p])
<1>1. ASSUME NEW l \in Link, NEW i \in DOMAIN net[l], NEW s \in Slot,
             NEW port \in AcceptPorts, StepAccepts(l, i, s, port)
      PROVE  Resubmits(sock'[p])
  <2>1. p = s
    BY <1>1 DEF StepAccepts
  <2> QED
    BY <1>1, <2>1, AcceptsResubmits
<1>2. TypeOK /\ [Next]_vars
  BY KnownTypes DEF OrderStep
<1> QED
  BY <1>1, <1>2, StepForms
     DEF StepStays, StepCalls, StepPicks, StepHears, StepAnswers

LEMMA SlotSent ==
  ASSUME OrderStep, NEW c \in Client, NEW p \in Slot
  PROVE  \/ sent'[p] = sent[p]
         \/ CallSend(p) /\ Live(p) /\ ~ Busy(sock[p]) /\ AllAsked
<1>1. p \in Sock /\ StreamInv /\ [Next]_vars /\ SlotOrder(c, p)
  BY Apart DEF OrderStep, Known, OrderInv
<1>2. ASSUME CallSend(p) PROVE Live(p) /\ ~ Busy(sock[p]) /\ AllAsked
  <2>1. Live(p) /\ ~ Busy(sock[p])
    BY <1>2 DEF CallSend, MaySend, Live
  <2> QED
    BY <1>1, <2>1 DEF SlotOrder, SlotConnected, HasTask, Busy
<1> QED
  BY <1>1, <1>2, SentSteps

LEMMA Early ==
  ASSUME OrderStep, NEW c \in Client, NEW p \in Slot, ~ AllAsked
  PROVE  /\ sent[p] = <<>> /\ sent'[p] = <<>>
         /\ sock'[p].last_received = 0
         /\ Live(p)' => /\ HasTask(sock'[p], {"connection_submit"})
                        /\ sock'[p].last_outgoing = 1
<1>1. SlotOrder(c, p) /\ p \in Sock /\ TypeOK /\ sock[p] \in SocketType
  BY Apart, KnownTypes DEF OrderStep, OrderInv, TypeOK
<1>2. sent[p] = <<>> /\ sock[p].last_received = 0
  BY <1>1 DEF SlotOrder
<1>3. sent'[p] = <<>>
  BY <1>2, SlotSent
<1>4. Live(p) => HasTask(sock[p], {"connection_submit"}) /\ sock[p].last_outgoing = 1
  BY <1>1 DEF SlotOrder, SlotConnected
<1>5. CASE sock'[p] = sock[p]
  <2>1. CASE p \in m_sockets' /\ p \notin m_sockets
    BY <1>2, <1>3, <2>1, Joins, ResubmitsFields
  <2> QED
    BY <1>2, <1>3, <1>4, <1>5, <2>1 DEF Live
<1>6. CASE p \in m_sockets /\ Rests(sock[p], sock'[p])
  BY <1>1, <1>2, <1>3, <1>4, <1>6, RestsTask DEF Live, HasTask
<1>7. CASE p \in m_sockets /\ Sends(sock[p], sock'[p])
  BY <1>4, <1>7 DEF Sends, Live, HasTask
<1>8. CASE p \in m_sockets /\ Closes(sock[p], sock'[p])
  BY <1>2, <1>3, <1>8 DEF Closes, Same, Live
<1>9. CASE Resubmits(sock'[p])
  BY <1>2, <1>3, <1>9, ResubmitsFields
<1> QED
  BY <1>5, <1>6, <1>7, <1>8, <1>9, SlotForms

\* A socket that may send after a step could send before it, or has just been
\* created or answered its request again.
LEMMA LiveSlot ==
  ASSUME OrderStep, NEW c \in Client, NEW p \in Slot, Live(p)'
  PROVE  \/ /\ Live(p)
            /\ sock[p].last_outgoing <= sock'[p].last_outgoing
            /\ sock[p].last_received <= sock'[p].last_received
         \/ ~ AllAsked /\ ~ Live(p)
<1>1. /\ SlotOrder(c, p) /\ p \in Sock /\ TypeOK /\ sock[p] \in SocketType
      /\ sock[p].state # "waiting_for_submit" /\ StreamInv
  BY Apart, KnownTypes DEF OrderStep, OrderInv, TypeOK, StreamInv, IdentityInv
<1>2. sock[p].last_outgoing \in Nat /\ sock[p].last_received \in Nat
  BY <1>1, Numbers
<1>3. sock[p].last_outgoing <= sock[p].last_outgoing + 1
      /\ sock[p].last_outgoing <= sock[p].last_outgoing
      /\ sock[p].last_received <= sock[p].last_received
  BY <1>2
<1>4. CASE sock'[p] = sock[p]
  <2>1. p \in m_sockets \/ ~ AllAsked
    BY Joins DEF Resubmits, Live
  <2> QED
    BY <1>3, <1>4, <2>1 DEF Live
<1>5. CASE p \in m_sockets /\ Rests(sock[p], sock'[p])
  BY <1>1, <1>3, <1>5, RestsTask DEF Live
<1>6. CASE /\ p \in m_sockets /\ Sends(sock[p], sock'[p])
           /\ sock'[p].last_outgoing = sock[p].last_outgoing + 1
  BY <1>3, <1>6 DEF Sends, Same, Live
<1>7. CASE Closes(sock[p], sock'[p])
  BY <1>7 DEF Closes, Live
<1>8. ASSUME p \in m_sockets, NEW l \in Link, NEW i \in DOMAIN net[l], StepHears(l, i, p)
      PROVE  /\ Live(p)
             /\ sock[p].last_outgoing <= sock'[p].last_outgoing
             /\ sock[p].last_received <= sock'[p].last_received
  <2>1. PICK h : h = net[l][i]
    OBVIOUS
  <2>2. Hears(sock[p], h, sock'[p]) /\ h.id \in Nat
    BY <1>8, <2>1, IdsAreNumbers DEF StepHears, Message
  <2>3. /\ \/ sock'[p].last_received = sock[p].last_received
           \/ sock[p].last_received < h.id /\ sock'[p].last_received = h.id
        /\ sock[p].state = "connected"
        /\ sock'[p].last_outgoing = sock[p].last_outgoing
    BY <1>1, <2>2, HearsReceived DEF Live
  <2> QED
    BY <1>2, <1>3, <1>8, <2>2, <2>3 DEF Live
<1>9. CASE Resubmits(sock'[p])
  <2>1. ~ AllAsked /\ sock'[p].last_outgoing = 1 /\ sock'[p].last_received = 0
    BY <1>9, ResubmitsFields
  <2>2. Live(p) => sock[p].last_outgoing = 1 /\ sock[p].last_received = 0
    BY <1>1, <2>1 DEF SlotOrder, SlotConnected
  <2> QED
    BY <1>3, <2>1, <2>2
<1> QED
  BY <1>4, <1>5, <1>6, <1>7, <1>8, <1>9, SlotForms

-----------------------------------------------------------------------------
(* What a socket hears, when data come without gaps *)

HearsAcked(b, h, t) ==
    \/ t.ack_task.id = b.ack_task.id
    \/ t.ack_task.id = h.id /\ h.id <= t.last_received

\* A connected socket hears anything but a close.
Continues(b, h, t) ==
    /\ b.state = "connected" /\ t.state = "connected"
    /\ h.type # "connection_close_submit"
    /\ t.last_outgoing = b.last_outgoing
    /\ t.send_task = LeftTask(b, h)
    /\ HearsAcked(b, h, t)
    /\ \/ t.last_received = b.last_received
       \/ /\ h.type = "data_transfer"
          /\ h.id = b.last_received + 1
          /\ t.last_received = h.id

Starts(b, h, t) ==
    /\ b.state = "waiting_for_submit" /\ t.state = "connected"
    /\ h.type = "connection_submit"
    /\ t.last_outgoing = b.last_outgoing
    /\ t.send_task = NoSendTask
    /\ t.ack_task.id = h.id
    /\ t.last_received = h.id

Finishes(b, h, t) ==
    /\ t.state = "closed"
    /\ \/ /\ b.state = "connected"
          /\ t.send_task.type = "connection_close_submit"
          /\ t.send_task.ack = 0
          /\ t.send_task.buf = <<>>
          /\ t.ack_task.id = b.ack_task.id
       \/ /\ b.state = "closed"
          /\ h.type = "connection_close_submit"
          /\ t.send_task = NoSendTask \/ t.send_task = b.send_task
          /\ HearsAcked(b, h, t)

LEMMA HearsForms ==
  ASSUME NEW b, NEW h, NEW t, Hears(b, h, t), MayHear(b, h),
         b.last_received \in Nat, h.id \in Nat, b.missed = 0,
         b.state \in {"not_connected", "waiting_for_submit"} => b.last_received < h.id,
         /\ b.state = "connected" /\ h.type = "data_transfer" /\ b.last_received < h.id
         => h.id = b.last_received + 1,
         b.state \in State, h.type \in MessageType
  PROVE  /\ t.missed = 0
         /\ Continues(b, h, t) \/ Starts(b, h, t) \/ Finishes(b, h, t)
<1>1. ASSUME NEW x, NEW y, x = [has |-> TRUE, id |-> y, sent |-> FALSE]
      PROVE  x.id = y
  BY <1>1
<1>2. Acks(t, h) => t.ack_task.id = h.id
  BY <1>1 DEF Acks
<1>3. CASE HearsAgain(b, h, t)
  <2>1. ~ (b.last_received < h.id)
    BY <1>3 DEF HearsAgain
  <2>2. /\ b.state \in {"connected", "closed", "connection_timeout"}
        /\ HearsAcked(b, h, t) /\ t.state = b.state /\ t.missed = 0
        /\ t.send_task = LeftTask(b, h)
        /\ t.last_outgoing = b.last_outgoing /\ t.last_received = b.last_received
    BY <1>2, <1>3, <2>1 DEF HearsAgain, HearsAcked, State
  <2>3. b.state # "connection_timeout"
        /\ (b.state = "connected" => h.type # "connection_close_submit")
        /\ (b.state = "closed" => h.type = "connection_close_submit")
    BY DEF MayHear, MessageType
  <2>4. t.send_task = NoSendTask \/ t.send_task = b.send_task
    BY <2>2 DEF LeftTask
  <2> QED
    BY <2>2, <2>3, <2>4 DEF Continues, Finishes
<1>4. CASE HearsSubmit(b, h, t)
  BY <1>2, <1>4 DEF HearsSubmit, Starts
<1>5. CASE HearsSubmitLate(b, h, t)
  BY <1>5 DEF HearsSubmitLate, Continues, HearsAcked
<1>6. CASE HearsCloseSubmit(b, h, t)
  BY <1>6 DEF HearsCloseSubmit, Finishes, HearsAcked
<1>7. CASE HearsClose(b, h, t)
  <2>1. PICK z, n, buf :
           /\ z = t.send_task
           /\ z = [has |-> TRUE, type |-> "connection_close_submit", id |-> n, ack |-> 0,
                   dport |-> b.remote_port, buf |-> buf]
    BY <1>7 DEF HearsClose, NewTask
  <2>2. t.send_task.type = "connection_close_submit" /\ t.send_task.ack = 0
    BY <2>1
  <2> QED
    BY <1>7, <2>2 DEF HearsClose, Finishes
<1>8. CASE HearsData(b, h, t)
  <2>1. h.id = b.last_received + 1
    BY <1>8 DEF HearsData
  <2>2. 0 + h.id - (b.last_received + 1) = 0 /\ h.id <= h.id
    BY <2>1
  <2>3. t.missed = 0
    BY <1>8, <2>2, WrapOne DEF HearsData
  <2>4. HearsAcked(b, h, t)
    BY <1>2, <1>8, <2>2 DEF HearsData, HearsAcked
  <2> QED
    BY <1>8, <2>1, <2>3, <2>4 DEF HearsData, Continues
<1> QED
  BY <1>3, <1>4, <1>5, <1>6, <1>7, <1>8 DEF Hears

LEMMA ClientHearsForms ==
  ASSUME OrderStep, NEW c \in Client, NEW l \in Link, NEW i \in DOMAIN net[l],
         StepHears(l, i, c), NEW m, m = net[l][i]
  PROVE  /\ l = ToClient(c) /\ m \in Message /\ m.id \in Nat /\ m.ack \in Nat
         /\ ToClientOrder(c, m)
         /\ sock'[c].missed = 0
         /\ \/ Continues(sock[c], m, sock'[c])
            \/ Starts(sock[c], m, sock'[c]) /\ m.id = 1 /\ ~ AllAsked
            \/ Finishes(sock[c], m, sock'[c]) /\ (m.type = "connection_close_submit" => AllAsked)
<1>1. /\ c \in Sock /\ StreamInv /\ ConnectionInv /\ CloseInv /\ ClientOrder(c)
      /\ sock[c].missed = 0 /\ Orderly
  BY Apart DEF OrderStep, Known, OrderInv, OrderlyApart
<1>2. /\ m \in Message /\ MayHear(sock[c], m) /\ Hears(sock[c], m, sock'[c])
      /\ l = ToClient(c) /\ ToClientOrder(c, m)
  BY ClientHears DEF StepHears
<1>3. m.id \in Nat /\ m.ack \in Nat /\ m.type \in MessageType
  BY <1>2, IdsAreNumbers DEF Message
<1>4. sock[c].last_received \in Nat /\ sock[c].state \in State
  BY <1>1, Numbers DEF SocketType
<1>5. sock[c].state # "not_connected"
  BY <1>2, <1>3 DEF MayHear, MessageType
<1>6. sock[c].state = "waiting_for_submit" =>
        m.type = "connection_submit" /\ m.id = 1 /\ sock[c].last_received = 0 /\ ~ AllAsked
  BY <1>1, <1>2, <1>3 DEF MayHear, MessageType, ToClientOrder, ClientOrder, Unanswered, AllAsked
<1>7. sock[c].state = "waiting_for_submit" => sock[c].last_received < m.id
  BY <1>6
<1>8. /\ sock[c].state = "connected" /\ m.type = "data_transfer"
      /\ sock[c].last_received < m.id
      => m.id = sock[c].last_received + 1
  <2>1. sock[c].state = "connected" /\ m.type = "data_transfer" =>
          m.id <= sock[c].last_received + 1
    BY <1>2 DEF ToClientOrder
  <2> QED
    BY <1>3, <1>4, <2>1
<1>9. /\ sock'[c].missed = 0
      /\ \/ Continues(sock[c], m, sock'[c])
         \/ Starts(sock[c], m, sock'[c])
         \/ Finishes(sock[c], m, sock'[c])
  BY <1>1, <1>2, <1>3, <1>4, <1>5, <1>7, <1>8, HearsForms
<1>10. Starts(sock[c], m, sock'[c]) => m.id = 1 /\ ~ AllAsked
  BY <1>6 DEF Starts
<1>11. m.type = "connection_close_submit" => AllAsked
  BY <1>1, CloseSubmitAsked
<1> QED
  BY <1>2, <1>3, <1>9, <1>10, <1>11

LEMMA SlotHearsForms ==
  ASSUME OrderStep, NEW c \in Client, NEW p \in Slot, NEW l \in Link, NEW i \in DOMAIN net[l],
         StepHears(l, i, p), NEW m, m = net[l][i]
  PROVE  /\ l = ToServer(c) /\ m \in Message /\ m.id \in Nat /\ m.ack \in Nat
         /\ AllAsked
         /\ p \in m_sockets
         /\ m.type # "connection_close_submit" => ClientGot(c, m.ack)
         /\ sock'[p].missed = 0
         /\ Continues(sock[p], m, sock'[p]) \/ Finishes(sock[p], m, sock'[p])
<1>1. /\ p \in Sock /\ StreamInv /\ sock[p].missed = 0
      /\ sock[p].state # "waiting_for_submit"
  BY Apart DEF OrderStep, Known, OrderInv, StreamInv, IdentityInv
<1>2. /\ m \in Message /\ MayHear(sock[p], m) /\ Hears(sock[p], m, sock'[p])
      /\ p \in m_sockets
      /\ l = ToServer(c) /\ AllAsked /\ ToServerOrder(m)
      /\ m.type # "connection_close_submit" => ClientGot(c, m.ack)
  BY SlotHears DEF StepHears, OnlySocket
<1>3. m.id \in Nat /\ m.ack \in Nat /\ m.type \in MessageType
  BY <1>2, IdsAreNumbers DEF Message
<1>4. sock[p].last_received \in Nat /\ sock[p].state \in State
  BY <1>1, Numbers DEF SocketType
<1>5. sock[p].state # "not_connected"
  BY <1>2, <1>3 DEF MayHear, MessageType
<1>6. /\ sock[p].state = "connected" /\ m.type = "data_transfer"
      /\ sock[p].last_received < m.id
      => m.id = sock[p].last_received + 1
  <2>1. sock[p].state = "connected" /\ m.type = "data_transfer" =>
          m.id <= sock[p].last_received + 1
    BY <1>2 DEF ToServerOrder, Live
  <2> QED
    BY <1>3, <1>4, <2>1
<1>7. /\ sock'[p].missed = 0
      /\ \/ Continues(sock[p], m, sock'[p])
         \/ Starts(sock[p], m, sock'[p])
         \/ Finishes(sock[p], m, sock'[p])
  BY <1>1, <1>2, <1>3, <1>4, <1>5, <1>6, HearsForms
<1> QED
  BY <1>1, <1>2, <1>3, <1>7 DEF Starts

LEMMA ClientForms ==
  ASSUME OrderStep, NEW c \in Client
  PROVE  \/ sock'[c] = sock[c]
         \/ Connects(sock[c], sock'[c])
         \/ Rests(sock[c], sock'[c])
         \/ /\ Sends(sock[c], sock'[c])
            /\ sock'[c].last_outgoing = sock[c].last_outgoing + 1
         \/ Closes(sock[c], sock'[c])
         \/ \E l \in Link : \E i \in DOMAIN net[l] : StepHears(l, i, c)
<1> USE Apart
<1>1. c \in Sock /\ TypeOK /\ [Next]_vars /\ "expire" \notin Calls
  BY KnownTypes DEF OrderStep, OrderlyApart, Orderly
<1>2. CASE Sends(sock[c], sock'[c]) /\ sock[c].last_outgoing < MaxOutgoing[c]
  <2>1. sock[c].last_outgoing \in Id /\ sock[c].last_outgoing \in Nat
    BY <1>1, IdsAreNumbers DEF TypeOK, SocketType
  <2>2. sock[c].last_outgoing <= MaxOutgoing[c]
    BY <1>1, <1>2, <2>1, Outgoing
  <2>3. Wrap(sock[c].last_outgoing + 1) = sock[c].last_outgoing + 1
    BY <1>1, <2>1, <2>2, NextOutgoing
  <2> QED
    BY <1>2, <2>3 DEF Sends
<1>3. ASSUME NEW m \in Message, StepPicks(c, m)
      PROVE  Rests(sock[c], sock'[c])
  BY <1>1, <1>3 DEF StepPicks, Expires
<1> QED
  BY <1>1, <1>2, <1>3, ChangeForms DEF StepCalls, Expires, StepAnswers, StepAccepts

\* The numbers and the state of a client, which go on from those before the step or
\* start with the answer to its request.
LEMMA ClientNumbers ==
  ASSUME OrderStep, NEW c \in Client, sock'[c].state = "connected"
  PROVE  \/ /\ sock[c].state = "connected"
            /\ sock[c].last_received <= sock'[c].last_received
         \/ /\ ~ AllAsked /\ sock[c].state # "connected"
            /\ sock'[c].last_received = 1
            /\ sock'[c].last_outgoing = 0
            /\ ~ Busy(sock'[c])
            /\ sock'[c].ack_task.id = 1
<1>1. /\ c \in Sock /\ StreamInv /\ ConfirmInv
  BY Apart DEF OrderStep, Known
<1>2. sock[c].last_received \in Nat /\ sock[c] \in SocketType
  BY <1>1, Numbers
<1>3. sock[c].last_received <= sock[c].last_received
      /\ sock[c].last_received <= sock[c].last_received + 1
  BY <1>2
<1>4. CASE sock'[c] = sock[c]
  BY <1>3, <1>4
<1>5. CASE \/ Connects(sock[c], sock'[c]) \/ Rests(sock[c], sock'[c])
           \/ Sends(sock[c], sock'[c]) \/ Closes(sock[c], sock'[c])
  BY <1>3, <1>5 DEF Connects, Rests, Sends, Closes, Same
<1>6. ASSUME NEW l \in Link, NEW i \in DOMAIN net[l], StepHears(l, i, c)
      PROVE  \/ /\ sock[c].state = "connected"
                /\ sock[c].last_received <= sock'[c].last_received
             \/ /\ ~ AllAsked /\ sock[c].state # "connected"
                /\ sock'[c].last_received = 1
                /\ sock'[c].last_outgoing = 0
                /\ ~ Busy(sock'[c])
                /\ sock'[c].ack_task.id = 1
  <2>1. PICK m : m = net[l][i]
    OBVIOUS
  <2>2. \/ Continues(sock[c], m, sock'[c])
        \/ Starts(sock[c], m, sock'[c]) /\ m.id = 1 /\ ~ AllAsked
    BY <1>6, <2>1, ClientHearsForms DEF Finishes
  <2>3. CASE Continues(sock[c], m, sock'[c])
    BY <1>3, <2>3 DEF Continues
  <2>4. CASE Starts(sock[c], m, sock'[c]) /\ m.id = 1 /\ ~ AllAsked
    <3>1. sock[c].last_outgoing = 0
      BY <1>1, <2>4 DEF Starts, ConfirmInv, ClientTaskInv, Unanswered
    <3> QED
      BY <2>4, <3>1 DEF Starts, Busy, NoSendTask
  <2> QED
    BY <2>2, <2>3, <2>4
<1> QED
  BY <1>4, <1>5, <1>6, ClientForms

-----------------------------------------------------------------------------
(* What the acknowledgements and the messages promise stays true *)

LEMMA OrderKnown ==
  ASSUME OrderStep
  PROVE  /\ StreamInv /\ StreamInv' /\ ConfirmInv /\ ConfirmInv' /\ CloseInv
         /\ ConnectionInv /\ TypeOK /\ TypeOK' /\ [Next]_vars
         /\ Reached \subseteq Reached'
         /\ AllAsked => AllAsked'
  BY ReachedStep, AllAskedKept DEF OrderStep, Known, StreamInv

LEMMA AllReachedKept ==
  ASSUME OrderStep, NEW p \in Sock, NEW n \in Nat, AllReached(p, n),
         CallSend(p) => n <= sock[p].last_outgoing
  PROVE  AllReached(p, n)'
<1> SUFFICES ASSUME NEW j \in DOMAIN sent'[p], sent'[p][j] <= n
             PROVE  <<p, j>> \in Reached'
  BY DEF AllReached
<1>1. StreamInv /\ Reached \subseteq Reached' /\ [Next]_vars /\ sock[p].last_outgoing \in Nat
  BY OrderKnown, Numbers
<1>2. CASE CallSend(p)
  <2>1. \/ j \in DOMAIN sent[p] /\ sent'[p][j] = sent[p][j]
        \/ sent'[p][j] = sock[p].last_outgoing + 1
    BY <1>1, <1>2, SendNumbers
  <2>2. n <= sock[p].last_outgoing
    BY <1>2
  <2>3. sent'[p][j] # sock[p].last_outgoing + 1
    BY <1>1, <2>2
  <2> QED
    BY <1>1, <2>1, <2>3 DEF AllReached
<1>3. CASE sent'[p] = sent[p]
  BY <1>1, <1>3 DEF AllReached
<1> QED
  BY <1>1, <1>2, <1>3, SentSteps

\* Nothing of a socket that has sent nothing is missing.
LEMMA NothingMissing ==
  ASSUME NEW p, sent[p] = <<>> PROVE \A n : AllReached(p, n)
  BY DEF AllReached

LEMMA NothingMissingNext ==
  ASSUME NEW p, sent'[p] = <<>> PROVE \A n : AllReached(p, n)'
  BY DEF AllReached

LEMMA SlotReachedKept ==
  ASSUME OrderStep, NEW c \in Client, NEW p \in Slot, NEW n \in Nat, AllReached(p, n),
         Live(p) => n <= sock[p].last_outgoing
  PROVE  AllReached(p, n)'
  BY SlotSent, AllReachedKept, Apart, OrderKnown DEF CallSend, MaySend, Live

LEMMA ClientGotKept ==
  ASSUME OrderStep, NEW c \in Client, NEW a \in Nat, ClientGot(c, a)
  PROVE  ClientGot(c, a)'
<1>1. c \in Sock /\ StreamInv /\ (AllAsked => AllAsked') /\ TypeOK'
  BY Apart, OrderKnown
<1>2. ~ AllAsked' => a <= 1
  BY <1>1 DEF ClientGot
<1>3. ASSUME sock'[c].state = "connected" PROVE a <= sock'[c].last_received
  <2>1. sock[c].last_received \in Nat /\ sock'[c].last_received \in Nat
    BY <1>1, Numbers, NextNumbers
  <2>2. CASE sock[c].state = "connected" /\ sock[c].last_received <= sock'[c].last_received
    <3>1. a <= sock[c].last_received
      BY <2>2 DEF ClientGot
    <3> QED
      BY <2>1, <2>2, <3>1
  <2>3. CASE ~ AllAsked /\ sock'[c].last_received = 1
    BY <2>3 DEF ClientGot
  <2> QED
    BY <1>3, <2>2, <2>3, ClientNumbers
<1>4. ASSUME NEW p \in Slot, Live(p)'
      PROVE  a <= sock'[p].last_outgoing /\ AllReached(p, a)'
  <2>1. sock[p].last_outgoing \in Nat /\ sock'[p].last_outgoing \in Nat
    BY <1>1, Numbers, NextNumbers, Apart
  <2>2. CASE Live(p) /\ sock[p].last_outgoing <= sock'[p].last_outgoing
    <3>1. a <= sock[p].last_outgoing /\ AllReached(p, a)
      BY <2>2 DEF ClientGot
    <3>2. AllReached(p, a)'
      BY <3>1, SlotReachedKept
    <3> QED
      BY <2>1, <2>2, <3>1, <3>2
  <2>3. CASE ~ AllAsked
    <3>1. sent'[p] = <<>> /\ sock'[p].last_outgoing = 1
      BY <1>4, <2>3, Early
    <3>2. AllReached(p, a)'
      BY <3>1, NothingMissingNext
    <3> QED
      BY <2>3, <3>1, <3>2 DEF ClientGot
  <2> QED
    BY <1>4, <2>2, <2>3, LiveSlot
<1> QED
  BY <1>2, <1>3, <1>4 DEF ClientGot

LEMMA SlotGotKept ==
  ASSUME OrderStep, NEW c \in Client, NEW a \in Nat, SlotGot(a)
  PROVE  SlotGot(a)'
<1>1. StreamInv /\ (AllAsked => AllAsked') /\ TypeOK'
  BY OrderKnown
<1>2. ASSUME AllAsked, NEW p \in Slot, Live(p)',
             \A x \in Slot : Live(x) => a <= sock[x].last_received
      PROVE  a <= sock'[p].last_received
  <2>1. sock[p].last_received \in Nat /\ sock'[p].last_received \in Nat
    BY <1>1, Numbers, NextNumbers, Apart
  <2>2. a <= sock[p].last_received /\ sock[p].last_received <= sock'[p].last_received
    BY <1>2, LiveSlot
  <2> QED
    BY <2>1, <2>2
<1> QED
  BY <1>1, <1>2 DEF SlotGot

LEMMA ToServerKept ==
  ASSUME OrderStep, NEW c \in Client, NEW m, m.id \in Nat, ToServerOrder(m)
  PROVE  ToServerOrder(m)'
<1>1. StreamInv /\ (AllAsked => AllAsked') /\ TypeOK'
  BY OrderKnown
<1>2. ASSUME m.type = "data_transfer", NEW p \in Slot, Live(p)'
      PROVE  m.id <= sock'[p].last_received + 1
  <2>1. sock[p].last_received \in Nat /\ sock'[p].last_received \in Nat
    BY <1>1, Numbers, NextNumbers, Apart
  <2>2. CASE Live(p) /\ sock[p].last_received <= sock'[p].last_received
    <3>1. m.id <= sock[p].last_received + 1
      BY <1>2, <2>2 DEF ToServerOrder
    <3> QED
      BY <2>1, <2>2, <3>1
  <2>3. CASE ~ AllAsked
    <3>1. sock'[p].last_received = 0 /\ m.id <= 1
      BY <1>2, <2>3, Early DEF ToServerOrder
    <3> QED
      BY <3>1
  <2> QED
    BY <1>2, <2>2, <2>3, LiveSlot
<1> QED
  BY <1>1, <1>2 DEF ToServerOrder

LEMMA DataOfKept ==
  ASSUME OrderStep, NEW c \in Client, NEW p \in Slot, NEW m, m.id \in Nat, DataOf(p, m),
         Live(p) => m.id <= sock[p].last_outgoing
  PROVE  DataOf(p, m)'
<1> SUFFICES ASSUME NEW j \in DOMAIN sent'[p], sent'[p][j] = m.id
             PROVE  m.buf = <<<<p, j>>>>
  BY DEF DataOf
<1>1. StreamInv /\ p \in Sock
  BY OrderKnown, Apart
<1>2. CASE CallSend(p) /\ Live(p)
  <2>1. \/ j \in DOMAIN sent[p] /\ sent'[p][j] = sent[p][j]
        \/ sent'[p][j] = sock[p].last_outgoing + 1
    BY <1>1, <1>2, SendNumbers
  <2>2. sent'[p][j] # sock[p].last_outgoing + 1
    <3>1. sock[p].last_outgoing \in Nat /\ m.id <= sock[p].last_outgoing
      BY <1>1, <1>2, Numbers
    <3> QED
      BY <3>1
  <2> QED
    BY <2>1, <2>2 DEF DataOf
<1>3. CASE sent'[p] = sent[p]
  BY <1>3 DEF DataOf
<1> QED
  BY <1>2, <1>3, SlotSent

LEMMA ToClientKept ==
  ASSUME OrderStep, NEW c \in Client, NEW m, m.id \in Nat, m.ack \in Nat,
         ToClientOrder(c, m), m.type = "connection_close_submit" => AllAsked
  PROVE  ToClientOrder(c, m)'
<1>1. StreamInv /\ (AllAsked => AllAsked') /\ TypeOK' /\ c \in Sock
  BY OrderKnown, Apart
<1>2. ASSUME m.type = "connection_close_submit", NEW p \in Slot PROVE ~ Live(p)'
  BY <1>2, LiveSlot DEF ToClientOrder
<1>3. m.type # "connection_close_submit" => SlotGot(m.ack)'
  BY SlotGotKept DEF ToClientOrder
<1>4. ASSUME m.type = "data_transfer", NEW p \in Slot PROVE DataOf(p, m)'
  BY <1>4, DataOfKept DEF ToClientOrder
<1>5. ASSUME m.type = "data_transfer", sock'[c].state = "connected"
      PROVE  m.id <= sock'[c].last_received + 1
  <2>1. sock[c].last_received \in Nat /\ sock'[c].last_received \in Nat
    BY <1>1, Numbers, NextNumbers
  <2>2. CASE sock[c].state = "connected" /\ sock[c].last_received <= sock'[c].last_received
    <3>1. m.id <= sock[c].last_received + 1
      BY <1>5, <2>2 DEF ToClientOrder
    <3> QED
      BY <2>1, <2>2, <3>1
  <2>3. CASE ~ AllAsked
    <3>1. m.id = 0
      BY <1>5, <2>3 DEF ToClientOrder
    <3> QED
      BY <2>1, <3>1
  <2> QED
    BY <1>5, <2>2, <2>3, ClientNumbers
<1>6. ASSUME m.type = "data_transfer", NEW p \in Slot, Live(p)'
      PROVE  m.id <= sock'[p].last_outgoing
  <2>1. sock[p].last_outgoing \in Nat /\ sock'[p].last_outgoing \in Nat
    BY <1>1, Numbers, NextNumbers, Apart
  <2>2. CASE Live(p) /\ sock[p].last_outgoing <= sock'[p].last_outgoing
    <3>1. m.id <= sock[p].last_outgoing
      BY <1>6, <2>2 DEF ToClientOrder
    <3> QED
      BY <2>1, <2>2, <3>1
  <2>3. CASE ~ AllAsked
    <3>1. m.id = 0
      BY <1>6, <2>3 DEF ToClientOrder
    <3> QED
      BY <2>1, <3>1
  <2> QED
    BY <1>6, <2>2, <2>3, LiveSlot
<1>7. m.type = "data_transfer" /\ ~ AllAsked' => m.id = 0
  BY <1>1 DEF ToClientOrder
<1>8. m.type = "connection_submit" => m.id = 1
  BY DEF ToClientOrder
<1> QED
  BY <1>2, <1>3, <1>4, <1>5, <1>6, <1>7, <1>8 DEF ToClientOrder

-----------------------------------------------------------------------------
(* The messages on their way *)

LEMMA PicksForms ==
  ASSUME OrderStep, NEW s \in Sock, NEW m, StepPicks(s, m)
  PROVE  /\ Rests(sock[s], sock'[s]) /\ s \in m_sockets
         /\ \/ IsForceAck(sock[s], m) /\ ~ Busy(sock[s])
            \/ /\ IsTask(sock[s], m) /\ Busy(sock[s]) /\ HasTask(sock[s], {m.type})
               /\ m.ack \in {sock[s].ack_task.id, sock[s].send_task.ack}
<1>1. "expire" \notin Calls
  BY DEF OrderStep, OrderlyApart, Orderly
<1> QED
  BY <1>1 DEF StepPicks, OnlySocket, Expires, IsTask, HasTask, Busy

LEMMA SlotPicks ==
  ASSUME OrderStep, NEW c \in Client, NEW p \in Slot, NEW m \in Message, StepPicks(p, m)
  PROVE  /\ ToClientOrder(c, m)
         /\ m.type = "connection_close_submit" => AllAsked
<1>1. /\ SlotOrder(c, p) /\ p \in Sock /\ OneClient /\ Known /\ StreamInv /\ CloseInv
      /\ p \in m_sockets
  BY PicksForms, Apart DEF OrderStep, OrderInv, OrderlyApart, Orderly, Known
<1>2. \A x \in Slot : Live(x) => x = p
  BY <1>1, RegisteredServes DEF Live
<1>3. SlotGot(sock[p].ack_task.id) /\ (Busy(sock[p]) => SlotGot(sock[p].send_task.ack))
  BY <1>1 DEF SlotOrder, SlotAcks, Busy
<1>4. CASE IsForceAck(sock[p], m)
  <2>1. m.id = 0 /\ m.type = "data_transfer" /\ m.ack = sock[p].ack_task.id
    BY <1>4 DEF IsForceAck
  <2>2. ASSUME NEW x \in Slot PROVE DataOf(x, m) /\ 0 <= sock[x].last_outgoing
    <3>1. SlotIds(x) /\ x \in Sock
      BY Apart DEF OrderStep, OrderInv, SlotOrder
    <3>2. \A j \in DOMAIN sent[x] : sent[x][j] # 0
      BY <3>1 DEF SlotIds
    <3> QED
      BY <1>1, <2>1, <3>1, <3>2, Numbers DEF DataOf
  <2>3. 0 <= sock[c].last_received + 1
    BY <1>1, Numbers, Apart
  <2> QED
    BY <1>3, <2>1, <2>2, <2>3 DEF ToClientOrder
<1>5. CASE /\ IsTask(sock[p], m) /\ Busy(sock[p]) /\ HasTask(sock[p], {m.type})
           /\ m.ack \in {sock[p].ack_task.id, sock[p].send_task.ack}
  <2>1. /\ m.type = sock[p].send_task.type /\ m.id = sock[p].send_task.id
        /\ m.buf = sock[p].send_task.buf
    BY <1>5 DEF IsTask
  <2>2. SlotTask(sock[p]) /\ SlotConnected(c, p)
    BY <1>1 DEF SlotOrder
  <2>3. m.type = "connection_submit" => m.id = 1
    BY <1>5, <2>1, <2>2 DEF SlotTask, HasTask
  <2>4. m.type = "connection_close_submit" => sock[p].state = "closed" /\ AllAsked
    BY <1>1, <1>5 DEF CloseInv, SlotCloses, HasTask
  <2>5. m.type = "connection_close_submit" => \A x \in Slot : ~ Live(x)
    BY <1>2, <2>4 DEF Live
  <2>6. SlotGot(m.ack)
    BY <1>3, <1>5
  <2>7. ASSUME m.type = "data_transfer"
        PROVE  /\ \A x \in Slot : DataOf(x, m)
               /\ sock[c].state = "connected" => m.id <= sock[c].last_received + 1
               /\ \A x \in Slot : Live(x) => m.id <= sock[x].last_outgoing
               /\ AllAsked
    <3>1. HasTask(sock[p], {"data_transfer"}) /\ Live(p)
      BY <1>1, <1>5, <2>1, <2>2, <2>7 DEF SlotTask, HasTask, Live
    <3>2. /\ m.id = sock[p].last_outgoing
          /\ \A x \in Slot \ {p} : sent[x] = <<>>
          /\ DataOf(p, sock[p].send_task)
          /\ sock[c].state = "connected" =>
               sock[c].last_received \in {sock[p].last_outgoing - 1, sock[p].last_outgoing}
          /\ ~ AllAsked => HasTask(sock[p], {"connection_submit"})
      BY <1>5, <2>1, <2>2, <3>1 DEF SlotConnected
    <3>3. ASSUME NEW x \in Slot PROVE DataOf(x, m)
      BY <2>1, <3>2 DEF DataOf
    <3>4. sock[p].last_outgoing \in Nat
      BY <1>1, Numbers
    <3>5. sock[c].state = "connected" => m.id <= sock[c].last_received + 1
      BY <3>2, <3>4
    <3>6. AllAsked
      BY <3>1, <3>2 DEF HasTask
    <3> QED
      BY <1>2, <3>2, <3>3, <3>4, <3>5, <3>6
  <2> QED
    BY <2>3, <2>4, <2>5, <2>6, <2>7 DEF ToClientOrder
<1> QED
  BY <1>4, <1>5, PicksForms, Apart, <1>1 DEF IsForceAck

LEMMA ClientPicks ==
  ASSUME OrderStep, NEW c \in Client, NEW m \in Message, StepPicks(c, m)
  PROVE  /\ ToServerOrder(m)
         /\ Asked(c) /\ m.type # "connection_request" =>
              /\ sock[c].state \notin Unanswered
              /\ m.type # "connection_close_submit" => ClientGot(c, m.ack)
<1>1. /\ ClientOrder(c) /\ ClientTaskInv(c) /\ c \in Sock /\ StreamInv
  BY Apart DEF OrderStep, OrderInv, Known, ConfirmInv
<1>2. CASE IsForceAck(sock[c], m) /\ ~ Busy(sock[c])
  <2>1. m.id = 0 /\ m.type = "data_transfer" /\ m.ack = sock[c].ack_task.id
    BY <1>2 DEF IsForceAck
  <2>2. \A p \in Slot : 0 <= sock[p].last_received + 1
    BY <1>1, Numbers, Apart
  <2>3. ToServerOrder(m)
    BY <2>1, <2>2 DEF ToServerOrder
  <2>4. Asked(c) => sock[c].state \notin Unanswered
    BY <1>1, <1>2 DEF ClientOrder, HasTask, Busy, Asked, Unanswered
  <2> QED
    BY <1>1, <2>1, <2>3, <2>4 DEF ClientOrder, ClientAcks
<1>3. CASE /\ IsTask(sock[c], m) /\ Busy(sock[c]) /\ HasTask(sock[c], {m.type})
           /\ m.ack \in {sock[c].ack_task.id, sock[c].send_task.ack}
  <2>1. m.type = sock[c].send_task.type /\ m.id = sock[c].send_task.id
    BY <1>3 DEF IsTask
  <2>2. ASSUME m.type = "data_transfer" PROVE ToServerOrder(m)
    <3>1. sock[c].state = "connected" /\ m.id = sock[c].last_outgoing
      BY <1>1, <1>3, <2>1, <2>2 DEF ClientOrder, HasTask, ClientTaskInv
    <3>2. \A p \in Slot : Live(p) => m.id <= sock[p].last_received + 1
      BY <1>1, <1>3, <3>1 DEF ClientOrder, ClientConnected
    <3>3. ~ AllAsked => m.id <= 1
      BY <1>1, <1>3, <3>1 DEF ClientOrder, ClientConnected
    <3> QED
      BY <3>2, <3>3 DEF ToServerOrder
  <2>3. ToServerOrder(m)
    BY <2>2 DEF ToServerOrder
  <2>4. Asked(c) /\ m.type # "connection_request" => sock[c].state \notin Unanswered
    BY <1>1, <1>3, <2>1 DEF ClientOrder, HasTask, Asked, Unanswered
  <2>5. /\ sock[c].state \notin Unanswered
        /\ m.type # "connection_close_submit"
        => ClientGot(c, m.ack)
    BY <1>1, <1>3, <2>1 DEF ClientOrder, ClientAcks, Busy
  <2> QED
    BY <2>3, <2>4, <2>5
<1> QED
  BY <1>1, <1>2, <1>3, PicksForms

\* Each link has one sender.
LEMMA LinkSenders ==
  ASSUME OrderStep, NEW c \in Client, NEW s \in Sock, NEW m, StepPicks(s, m)
  PROVE  /\ LinkOf(s) = ToClient(c) => s \in Slot
         /\ LinkOf(s) = ToServer(c) => s = c
<1>1. OneClient /\ ClientNode[c] # Server /\ \A d \in Client : d = c
  BY TwoLinks DEF OrderStep, OrderlyApart, Orderly, OneClient
<1> QED
  BY <1>1, Apart DEF LinkOf, Address, ToClient, ToServer

LEMMA ToClientMessages ==
  ASSUME OrderStep, NEW c \in Client, NEW i \in DOMAIN net'[ToClient(c)]
  PROVE  ToClientOrder(c, net[ToClient(c)][i])'
<1>1. PICK m : m = net'[ToClient(c)][i]
  OBVIOUS
<1>2. ToClient(c) \in Link /\ ToClient(c)[1] = Server
  BY TwoLinks DEF OrderStep, OrderlyApart, Orderly
<1>3. m \in Message /\ m.id \in Nat /\ m.ack \in Nat
  <2>1. m \in Message
    BY <1>1, <1>2, OrderKnown DEF TypeOK
  <2> QED
    BY <2>1, IdsAreNumbers DEF Message
<1>4. ToClientOrder(c, m) /\ (m.type = "connection_close_submit" => AllAsked)
  <2>1. ASSUME NEW k \in DOMAIN net[ToClient(c)], m = net[ToClient(c)][k]
        PROVE  ToClientOrder(c, m) /\ (m.type = "connection_close_submit" => AllAsked)
    BY <1>2, <2>1, OrderKnown DEF OrderStep, OrderInv, CloseInv, ClosingMessage, Closing
  <2>2. ASSUME NEW s \in Sock, ToClient(c) = LinkOf(s), StepPicks(s, m)
        PROVE  ToClientOrder(c, m) /\ (m.type = "connection_close_submit" => AllAsked)
    BY <1>3, <2>2, LinkSenders, SlotPicks
  <2> QED
    BY <1>1, <1>2, <2>1, <2>2, OrderKnown, WasThereOrPicked
<1>5. ToClientOrder(c, m)'
  BY <1>3, <1>4, ToClientKept
<1> QED
  BY <1>1, <1>5

LEMMA ToServerMessages ==
  ASSUME OrderStep, NEW c \in Client, NEW i \in DOMAIN net'[ToServer(c)]
  PROVE  ToServerOrder(net[ToServer(c)][i])'
<1>1. PICK m : m = net'[ToServer(c)][i]
  OBVIOUS
<1>2. ToServer(c) \in Link /\ c \in Sock
  BY TwoLinks, Apart DEF OrderStep, OrderlyApart, Orderly
<1>3. m \in Message /\ m.id \in Nat
  <2>1. m \in Message
    BY <1>1, <1>2, OrderKnown DEF TypeOK
  <2> QED
    BY <2>1, IdsAreNumbers DEF Message
<1>4. ToServerOrder(m)
  <2>1. ASSUME NEW k \in DOMAIN net[ToServer(c)], m = net[ToServer(c)][k]
        PROVE  ToServerOrder(m)
    BY <2>1 DEF OrderStep, OrderInv
  <2>2. ASSUME NEW s \in Sock, ToServer(c) = LinkOf(s), StepPicks(s, m)
        PROVE  ToServerOrder(m)
    BY <1>3, <2>2, LinkSenders, ClientPicks
  <2> QED
    BY <1>1, <1>2, <2>1, <2>2, OrderKnown, WasThereOrPicked
<1>5. ToServerOrder(m)'
  BY <1>3, <1>4, ToServerKept
<1> QED
  BY <1>1, <1>5

\* The first d messages of link l were taken from it.
Shifted(l, d) ==
    \A j \in DOMAIN net'[l] : j + d \in DOMAIN net[l] /\ net'[l][j] = net[l][j + d]

\* Message m was put behind the others.
Longer(l, m) ==
    /\ DOMAIN net'[l] = 1 .. Len(net[l]) + 1
    /\ DOMAIN net[l] = 1 .. Len(net[l])
    /\ \A j \in DOMAIN net[l] : net'[l][j] = net[l][j]
    /\ net'[l][Len(net[l]) + 1] = m

LEMMA SameShifts ==
  ASSUME TypeOK, NEW l \in Link, net'[l] = net[l] PROVE Shifted(l, 0)
<1>1. net[l] \in Seq(Message)
  BY DEF TypeOK
<1>2. \A j \in DOMAIN net[l] : j + 0 = j
  BY <1>1
<1> QED
  BY <1>2 DEF Shifted

LEMMA TakeShifts ==
  ASSUME TypeOK, NEW l \in Link, 1 \in DOMAIN net[l], Take(l, 1) PROVE Shifted(l, 1)
<1>1. net[l] \in Seq(Message) /\ net \in [Link -> Seq(Message)]
  BY DEF TypeOK
<1>2. net'[l] = WithoutPlace(net[l], 1)
  BY <1>1 DEF Take
<1>3. /\ net'[l] \in Seq(Message)
      /\ Len(net'[l]) = Len(net[l]) - 1
      /\ \A x \in 1 .. Len(net[l]) - 1 :
           net'[l][x] = IF x < 1 THEN net[l][x] ELSE net[l][x + 1]
  BY <1>1, <1>2, WithoutPlaceProperties
<1>4. DOMAIN net'[l] = 1 .. Len(net[l]) - 1 /\ DOMAIN net[l] = 1 .. Len(net[l])
      /\ Len(net[l]) \in Nat
  BY <1>1, <1>3
<1> QED
  BY <1>3, <1>4 DEF Shifted

LEMMA PutLonger ==
  ASSUME TypeOK, NEW l \in Link, NEW m \in Message, Put(l, m) PROVE Longer(l, m)
<1>1. net[l] \in Seq(Message) /\ net'[l] = Append(net[l], m)
  BY DEF TypeOK, Put
<1> QED
  BY <1>1 DEF Longer

LEMMA LinkShifts ==
  ASSUME OrderStep, NEW l \in Link
  PROVE  \/ Shifted(l, 0)
         \/ Shifted(l, 1)
         \/ \E s \in Sock, m \in Message : l = LinkOf(s) /\ StepPicks(s, m) /\ Longer(l, m)
<1>1. TypeOK /\ net \in [Link -> Seq(Message)]
  BY OrderKnown DEF TypeOK
<1>2. ASSUME NEW k \in Link, NEW i \in Arriving(k), Take(k, i)
      PROVE  Shifted(l, 0) \/ Shifted(l, 1)
  <2>1. i = 1 /\ 1 \in DOMAIN net[k]
    BY FirstArrives
  <2>2. CASE l = k
    BY <1>1, <1>2, <2>1, <2>2, TakeShifts
  <2>3. CASE l # k
    <3>1. net'[l] = net[l]
      BY <1>1, <1>2, <2>3 DEF Take
    <3> QED
      BY <1>1, <3>1, SameShifts
  <2> QED
    BY <2>2, <2>3
<1>3. ASSUME NEW s \in Sock, NEW m \in Message, StepPicks(s, m)
      PROVE  Shifted(l, 0) \/ (l = LinkOf(s) /\ Longer(l, m))
  <2>1. CASE l = LinkOf(s)
    BY <1>1, <1>3, <2>1, PutLonger DEF StepPicks
  <2>2. CASE l # LinkOf(s)
    <3>1. net'[l] = net[l]
      BY <1>1, <1>3, <2>2 DEF StepPicks, Put
    <3> QED
      BY <1>1, <3>1, SameShifts
  <2> QED
    BY <2>1, <2>2
<1>4. net' = net => Shifted(l, 0)
  BY <1>1, SameShifts
<1> QED
  BY <1>1, <1>2, <1>3, <1>4, OrderKnown, LinkForms

\* The acceptor gets its first socket when it handles the first message of the link.
LEMMA FirstSlot ==
  ASSUME OrderStep, NEW c \in Client, UsedSlots = {}, UsedSlots' # {}
  PROVE  /\ net[ToServer(c)][1].type = "connection_request"
         /\ Shifted(ToServer(c), 1)
<1>1. PICK p \in Slot : p \in FreeSlots /\ p \notin FreeSlots'
  BY DEF UsedSlots, FreeSlots
<1>2. p \notin m_sockets /\ p \in Sock
  BY <1>1, Apart, OrderKnown DEF StreamInv, IdentityInv
<1>3. sock'[p] # sock[p]
  BY <1>1 DEF FreeSlots
<1>4. PICK l \in Link : \E i \in DOMAIN net[l], port \in AcceptPorts :
                           StepAccepts(l, i, p, port)
  BY <1>2, <1>3, OrderKnown, ChangeForms
     DEF StepCalls, StepPicks, StepHears, StepAnswers, OnlySocket
<1>5. PICK i \in DOMAIN net[l] : \E port \in AcceptPorts : StepAccepts(l, i, p, port)
  BY <1>4
<1>6. AsksAcceptor(l, i)
  BY <1>5 DEF StepAccepts
<1>7. i = 1 /\ 1 \in DOMAIN net[l] /\ l[2] = Server
  BY <1>6, FirstArrives DEF AsksAcceptor
<1>8. l = ToServer(c)
  BY <1>7, TwoLinks DEF OrderStep, OrderlyApart, Orderly
<1> QED
  BY <1>6, <1>7, <1>8, TakeShifts, OrderKnown DEF AsksAcceptor

\* What LateOrder says of message j of the link after a step.
Late(c, l, j) ==
    /\ sock'[c].state \notin Unanswered
    /\ \A k \in DOMAIN net'[l] : j < k => net'[l][k].type # "connection_request"
    /\ net'[l][j].type # "connection_close_submit" => ClientGot(c, net[l][j].ack)'

\* Message j after the step was message o before it.
LEMMA LateOld ==
  ASSUME OrderStep, NEW c \in Client, NEW l, l = ToServer(c),
         NEW j \in DOMAIN net'[l], NEW o \in DOMAIN net[l], net'[l][j] = net[l][o],
         net'[l][j].type # "connection_request", AfterRequest(l, o),
         \A k \in DOMAIN net'[l] : j < k =>
            \/ \E n \in DOMAIN net[l] : o < n /\ net'[l][k] = net[l][n]
            \/ \E s \in Sock : StepPicks(s, net'[l][k])
  PROVE  Late(c, l, j)
<1>1. LateOrder(c, l, o)
  BY DEF OrderStep, OrderInv
<1>2. /\ sock[c].state \notin Unanswered
      /\ \A k \in DOMAIN net[l] : o < k => net[l][k].type # "connection_request"
      /\ net[l][o].type # "connection_close_submit" => ClientGot(c, net[l][o].ack)
  BY <1>1 DEF LateOrder
<1>3. sock'[c].state \notin Unanswered
  BY <1>2, OrderKnown, UnansweredBefore
<1>4. ASSUME NEW k \in DOMAIN net'[l], j < k, net'[l][k].type = "connection_request"
      PROVE  FALSE
  <2>1. PICK s \in Sock : StepPicks(s, net'[l][k])
    BY <1>2, <1>4
  <2>2. s \in Client /\ sock[s].state = "waiting_for_submit"
    BY <1>4, <2>1, OrderKnown, PicksRequest
  <2>3. s = c
    BY <2>2 DEF OrderStep, OrderlyApart, Orderly, OneClient
  <2> QED
    BY <1>2, <2>2, <2>3 DEF Unanswered
<1>5. ASSUME net'[l][j].type # "connection_close_submit" PROVE ClientGot(c, net[l][j].ack)'
  <2>1. PICK a : a = net[l][o].ack
    OBVIOUS
  <2>2. l \in Link /\ net[l][o] \in Message
    BY TwoLinks, OrderKnown DEF OrderStep, OrderlyApart, Orderly, TypeOK
  <2>3. a \in Nat
    BY <2>1, <2>2, IdsAreNumbers DEF Message
  <2>4. ClientGot(c, a)'
    BY <1>2, <1>5, <2>1, <2>3, ClientGotKept
  <2> QED
    BY <2>1, <2>4
<1> QED
  BY <1>3, <1>4, <1>5 DEF Late

\* Message j was picked in the step, by the client.
LEMMA LateNew ==
  ASSUME OrderStep, NEW c \in Client, NEW l, l = ToServer(c),
         NEW m \in Message, Longer(l, m), NEW s \in Sock, l = LinkOf(s), StepPicks(s, m),
         m.type # "connection_request",
         NEW j, j = Len(net[l]) + 1, AfterRequest(l, j)'
  PROVE  Late(c, l, j)
<1>1. s = c /\ l \in Link
  BY LinkSenders, TwoLinks DEF OrderStep, OrderlyApart, Orderly
<1>2. /\ DOMAIN net'[l] = 1 .. j /\ net'[l][j] = m /\ j \in Nat
  <2>1. Len(net[l]) \in Nat
    BY <1>1, OrderKnown DEF TypeOK
  <2> QED
    BY <2>1 DEF Longer
<1>3. sock'[c].state = sock[c].state
  BY <1>1, PicksForms DEF Rests
<1>4. Asked(c)
  <2>1. RequestInv' /\ (UsedSlots' # {} \/ \E i \in 1 .. j - 1 :
                                             net'[l][i].type = "connection_request")
    BY DEF OrderStep, Known, AfterRequest
  <2>2. PICK f : RequestsOf(f)'
    BY <2>1 DEF RequestInv
  <2>3. CASE UsedSlots' # {}
    <3>1. PICK p \in Slot : p \notin FreeSlots'
      BY <2>3 DEF UsedSlots
    <3>2. PICK d \in Client : sock'[d].state # "not_connected"
      BY <2>2, <3>1 DEF RequestsOf, Asked
    <3> QED
      BY <1>3, <3>2 DEF Asked, OrderStep, OrderlyApart, Orderly, OneClient
  <2>4. CASE \E i \in 1 .. j - 1 : net'[l][i].type = "connection_request"
    <3>1. PICK i \in DOMAIN net'[l] : net'[l][i].type = "connection_request"
      BY <1>2, <2>4
    <3>2. PICK d \in Client : sock'[d].state # "not_connected"
      BY <1>1, <2>2, <3>1 DEF RequestsOf, RequestFrom, Asked
    <3> QED
      BY <1>3, <3>2 DEF Asked, OrderStep, OrderlyApart, Orderly, OneClient
  <2> QED
    BY <2>1, <2>3, <2>4
<1>5. /\ sock[c].state \notin Unanswered
      /\ m.type # "connection_close_submit" => ClientGot(c, m.ack)
  BY <1>1, <1>4, ClientPicks
<1>6. m.type # "connection_close_submit" => ClientGot(c, m.ack)'
  <2>1. m.ack \in Nat
    BY IdsAreNumbers DEF Message
  <2> QED
    BY <1>5, <2>1, ClientGotKept
<1>7. \A k \in DOMAIN net'[l] : ~ (j < k)
  BY <1>2
<1>8. net'[l][j].type # "connection_close_submit" => ClientGot(c, net[l][j].ack)'
  BY <1>2, <1>6
<1> QED
  BY <1>3, <1>5, <1>7, <1>8 DEF Late

LEMMA LateMessages ==
  ASSUME OrderStep, NEW c \in Client, NEW j \in DOMAIN net'[ToServer(c)]
  PROVE  LateOrder(c, ToServer(c), j)'
<1>1. PICK l : l = ToServer(c)
  OBVIOUS
<1>2. l \in Link /\ net[l] \in Seq(Message) /\ net'[l] \in Seq(Message)
  BY <1>1, TwoLinks, OrderKnown DEF OrderStep, OrderlyApart, Orderly, TypeOK
<1>3. j \in DOMAIN net'[l] /\ j \in Nat \ {0} /\ j \in 1 .. Len(net'[l])
  BY <1>1, <1>2
<1> SUFFICES ASSUME AfterRequest(l, j)', net'[l][j].type # "connection_request"
             PROVE  Late(c, l, j)
  BY <1>1 DEF LateOrder, Late
<1>4. UsedSlots' # {} \/ \E i \in 1 .. j - 1 : net'[l][i].type = "connection_request"
  BY DEF AfterRequest
<1>5. ASSUME NEW d \in {0, 1}, Shifted(l, d),
             UsedSlots = {} /\ UsedSlots' # {} =>
                d = 1 /\ net[l][1].type = "connection_request"
      PROVE  Late(c, l, j)
  <2>1. j + d \in DOMAIN net[l] /\ net'[l][j] = net[l][j + d]
    BY <1>3, <1>5 DEF Shifted
  <2>2. AfterRequest(l, j + d)
    <3>1. CASE UsedSlots # {}
      BY <3>1 DEF AfterRequest
    <3>2. CASE UsedSlots = {} /\ UsedSlots' # {}
      <4>1. 1 \in 1 .. (j + d) - 1
        BY <1>3, <1>5, <3>2
      <4> QED
        BY <1>5, <3>2, <4>1 DEF AfterRequest
    <3>3. CASE \E i \in 1 .. j - 1 : net'[l][i].type = "connection_request"
      <4>1. PICK i \in 1 .. j - 1 : net'[l][i].type = "connection_request"
        BY <3>3
      <4>2. i \in DOMAIN net'[l] /\ i + d \in 1 .. (j + d) - 1
        BY <1>2, <1>3, <4>1
      <4>3. net[l][i + d].type = "connection_request"
        BY <1>5, <4>1, <4>2 DEF Shifted
      <4> QED
        BY <4>2, <4>3 DEF AfterRequest
    <3> QED
      BY <1>4, <3>1, <3>2, <3>3
  <2>3. ASSUME NEW k \in DOMAIN net'[l], j < k
        PROVE  \E n \in DOMAIN net[l] : j + d < n /\ net'[l][k] = net[l][n]
    <3>1. k \in Nat /\ j + d < k + d
      BY <1>2, <1>3, <2>3
    <3>2. k + d \in DOMAIN net[l] /\ net'[l][k] = net[l][k + d]
      BY <1>5 DEF Shifted
    <3> QED
      BY <3>1, <3>2
  <2> QED
    BY <1>1, <1>3, <2>1, <2>2, <2>3, LateOld
<1>6. ASSUME NEW s \in Sock, NEW m \in Message, l = LinkOf(s), StepPicks(s, m), Longer(l, m),
             ~ (UsedSlots = {} /\ UsedSlots' # {})
      PROVE  Late(c, l, j)
  <2>1. Len(net[l]) \in Nat
    BY <1>2
  <2>2. CASE j = Len(net[l]) + 1
    BY <1>1, <1>6, <2>2, LateNew DEF Longer
  <2>3. CASE j # Len(net[l]) + 1
    <3>1. j \in DOMAIN net[l] /\ net'[l][j] = net[l][j]
      BY <1>3, <1>6, <2>1, <2>3 DEF Longer
    <3>2. AfterRequest(l, j)
      <4>1. \A i \in 1 .. j - 1 : i \in DOMAIN net[l] /\ net'[l][i] = net[l][i]
        BY <1>3, <1>6, <2>1, <3>1 DEF Longer
      <4> QED
        BY <1>4, <1>6, <4>1 DEF AfterRequest
    <3>3. ASSUME NEW k \in DOMAIN net'[l], j < k
          PROVE  \/ \E n \in DOMAIN net[l] : j < n /\ net'[l][k] = net[l][n]
                 \/ \E x \in Sock : StepPicks(x, net'[l][k])
      <4>1. k = Len(net[l]) + 1 \/ k \in DOMAIN net[l]
        BY <1>6, <2>1 DEF Longer
      <4>2. CASE k = Len(net[l]) + 1
        BY <1>6, <4>2 DEF Longer
      <4>3. CASE k \in DOMAIN net[l]
        BY <1>6, <3>3, <4>3 DEF Longer
      <4> QED
        BY <4>1, <4>2, <4>3
    <3> QED
      BY <1>1, <1>3, <3>1, <3>2, <3>3, LateOld
  <2> QED
    BY <2>2, <2>3
<1>7. UsedSlots = {} /\ UsedSlots' # {} =>
        net[l][1].type = "connection_request" /\ Shifted(l, 1)
  BY <1>1, FirstSlot
<1> QED
  BY <1>2, <1>5, <1>6, <1>7, LinkShifts

-----------------------------------------------------------------------------
(* The client *)

LEMMA RegisteredServesNext ==
  ASSUME OrderStep, NEW c \in Client, NEW p \in Slot, p \in m_sockets'
  PROVE  p \notin FreeSlots' /\ Serves(p, c)'
<1>1. p \notin FreeSlots'
  BY DEF OrderStep, Known, StreamInv, IdentityInv
<1>2. PICK d \in Client : Serves(p, d)'
  BY <1>1 DEF OrderStep, Known, RequestInv, RequestsOf
<1>3. d = c
  BY DEF OrderStep, OrderlyApart, Orderly, OneClient
<1> QED
  BY <1>1, <1>2, <1>3

\* What the socket of the acceptor has received was numbered by the client.
LEMMA PeerBound ==
  ASSUME OrderStep, NEW c \in Client, NEW p \in Slot
  PROVE  /\ p \in m_sockets => /\ sock[p].last_received <= sock[c].last_outgoing
                               /\ Serves(p, c)
         /\ p \in m_sockets' => sock'[p].last_received <= sock'[c].last_outgoing
<1>1. p \in m_sockets => Serves(p, c)
  BY RegisteredServes DEF OrderStep, OrderlyApart, Orderly
<1>2. p \in m_sockets' => Serves(p, c)'
  BY RegisteredServesNext
<1>3. PeerInv(p, c) /\ PeerInv(p, c)'
  BY DEF OrderStep, Known, ConfirmInv
<1> QED
  BY <1>1, <1>2, <1>3 DEF PeerInv

\* What acknowledges the task of a connected client comes from the socket that has
\* received all that the client has numbered.
LEMMA ClientAcked ==
  ASSUME OrderStep, NEW c \in Client, NEW m, ToClientOrder(c, m),
         m.type # "connection_close_submit", sock[c].state = "connected",
         AckMatches(sock[c], m)
  PROVE  /\ AllAsked
         /\ \A p \in Slot : Live(p) => sock[c].last_outgoing = sock[p].last_received
<1>1. /\ c \in Sock /\ StreamInv /\ ClientTaskInv(c) /\ ClientCloses(sock[c])
      /\ ClientConnected(c) /\ RequestIds \cap 1 .. MaxOutgoing[c] = {}
  BY Apart DEF OrderStep, OrderInv, Known, ConfirmInv, CloseInv, ClientOrder, OrderlyApart,
               NumberedApart
<1>2. Busy(sock[c]) /\ m.ack = sock[c].send_task.id
  BY DEF AckMatches, Busy
<1>3. sock[c].send_task.type # "connection_request"
  BY <1>1, <1>2 DEF ClientCloses, HasTask, Busy
<1>4. m.ack = sock[c].last_outgoing
  BY <1>1, <1>2, <1>3 DEF ClientTaskInv, Busy
<1>5. 1 <= m.ack /\ m.ack \in Nat
  BY <1>1, <1>2, <1>4, Numbers DEF ClientConnected
<1>6. m.ack <= MaxOutgoing[c] /\ MaxOutgoing[c] \in Nat
  BY <1>1, <1>4, Outgoing DEF StreamInv, ClientIdsInv
<1>7. m.ack \notin RequestIds \cup {0}
  <2>1. m.ack \in 1 .. MaxOutgoing[c] /\ m.ack # 0
    BY <1>5, <1>6
  <2> QED
    BY <1>1, <2>1
<1>8. AllAsked /\ \A p \in Slot : Live(p) => m.ack <= sock[p].last_received
  BY <1>7 DEF ToClientOrder, SlotGot
<1>9. ASSUME NEW p \in Slot, Live(p) PROVE m.ack = sock[p].last_received
  <2>1. sock[p].last_received <= m.ack /\ m.ack <= sock[p].last_received
    BY <1>4, <1>8, <1>9, PeerBound DEF Live
  <2>2. sock[p].last_received \in Nat
    BY <1>1, Numbers, Apart
  <2> QED
    BY <1>5, <2>1, <2>2
<1> QED
  BY <1>4, <1>8, <1>9

ClientRests(c) ==
    /\ sock[c].state = "connected"
    /\ sock'[c].last_outgoing = sock[c].last_outgoing
    /\ sock'[c].last_received = sock[c].last_received
    /\ Busy(sock'[c]) <=> Busy(sock[c])

ClientSends(c) ==
    /\ sock[c].state = "connected"
    /\ sock'[c].last_outgoing = sock[c].last_outgoing + 1
    /\ sock'[c].last_received = sock[c].last_received
    /\ ~ Busy(sock[c]) /\ Busy(sock'[c])

ClientContinues(c) ==
    \E l \in Link : \E i \in DOMAIN net[l] :
       StepHears(l, i, c) /\ Continues(sock[c], net[l][i], sock'[c])

ClientStarts(c) ==
    /\ ~ AllAsked
    /\ sock[c].state = "waiting_for_submit"
    /\ sock'[c].last_received = 1
    /\ sock'[c].last_outgoing = 0
    /\ ~ Busy(sock'[c])
    /\ sock'[c].ack_task.id = 1

LEMMA ClientGoesOn ==
  ASSUME OrderStep, NEW c \in Client, sock'[c].state = "connected"
  PROVE  ClientRests(c) \/ ClientSends(c) \/ ClientContinues(c) \/ ClientStarts(c)
<1>1. c \in Sock /\ sock[c] \in SocketType /\ ClientTaskInv(c)
  BY Apart, OrderKnown DEF TypeOK, ConfirmInv
<1>2. CASE sock'[c] = sock[c]
  BY <1>2 DEF ClientRests
<1>3. CASE Rests(sock[c], sock'[c])
  BY <1>1, <1>3, RestsTask DEF ClientRests, Busy
<1>4. CASE Sends(sock[c], sock'[c]) /\ sock'[c].last_outgoing = sock[c].last_outgoing + 1
  <2>1. sock'[c].send_task.has
    BY <1>4, NewTaskFields DEF Sends
  <2> QED
    BY <1>4, <2>1 DEF Sends, Same, ClientSends, Busy
<1>5. ~ Connects(sock[c], sock'[c]) /\ ~ Closes(sock[c], sock'[c])
  BY DEF Connects, Closes
<1>6. ASSUME NEW l \in Link, NEW i \in DOMAIN net[l], StepHears(l, i, c)
      PROVE  ClientContinues(c) \/ ClientStarts(c)
  <2>1. PICK m : m = net[l][i]
    OBVIOUS
  <2>2. \/ Continues(sock[c], m, sock'[c])
        \/ Starts(sock[c], m, sock'[c]) /\ m.id = 1 /\ ~ AllAsked
    BY <1>6, <2>1, ClientHearsForms DEF Finishes
  <2>3. CASE Continues(sock[c], m, sock'[c])
    BY <1>6, <2>1, <2>3 DEF ClientContinues
  <2>4. CASE Starts(sock[c], m, sock'[c]) /\ m.id = 1 /\ ~ AllAsked
    BY <1>1, <2>4 DEF Starts, ClientTaskInv, Unanswered, ClientStarts, Busy, NoSendTask
  <2> QED
    BY <2>2, <2>3, <2>4
<1> QED
  BY <1>2, <1>3, <1>4, <1>5, <1>6, ClientForms

\* What a client hears while it is connected: an acknowledgement, the next data.
LEMMA ClientHearsOn ==
  ASSUME OrderStep, NEW c \in Client, ClientContinues(c)
  PROVE  /\ sock[c].state = "connected"
         /\ sock'[c].last_outgoing = sock[c].last_outgoing
         /\ \/ Busy(sock'[c]) <=> Busy(sock[c])
            \/ /\ ~ Busy(sock'[c])
               /\ AllAsked
               /\ \A p \in Slot : Live(p) => sock[c].last_outgoing = sock[p].last_received
         /\ \/ sock'[c].last_received = sock[c].last_received
            \/ /\ AllAsked
               /\ sock'[c].last_received = sock[c].last_received + 1
               /\ \A p \in Slot :
                     /\ sent'[p] = sent[p]
                     /\ Live(p) => sock'[c].last_received <= sock[p].last_outgoing
                     /\ AllReached(p, sock[c].last_received) =>
                          AllReached(p, sock[c].last_received)'
<1>1. PICK l \in Link : \E i \in DOMAIN net[l] :
         StepHears(l, i, c) /\ Continues(sock[c], net[l][i], sock'[c])
  BY DEF ClientContinues
<1>2. PICK i \in DOMAIN net[l] :
         StepHears(l, i, c) /\ Continues(sock[c], net[l][i], sock'[c])
  BY <1>1
<1>3. PICK m : m = net[l][i]
  OBVIOUS
<1>4. /\ Continues(sock[c], m, sock'[c]) /\ ToClientOrder(c, m) /\ m.id \in Nat
      /\ m \in Message /\ c \in Sock /\ sock[c].last_received \in Nat
  BY <1>2, <1>3, ClientHearsForms, Apart, OrderKnown, Numbers
<1>5. \/ Busy(sock'[c]) <=> Busy(sock[c])
      \/ /\ ~ Busy(sock'[c])
         /\ AllAsked
         /\ \A p \in Slot : Live(p) => sock[c].last_outgoing = sock[p].last_received
  <2>1. CASE AckMatches(sock[c], m)
    BY <1>4, <2>1, ClientAcked DEF Continues, LeftTask, NoSendTask, Busy
  <2>2. CASE ~ AckMatches(sock[c], m)
    BY <1>4, <2>2 DEF Continues, LeftTask, Busy
  <2> QED
    BY <2>1, <2>2
<1>6. CASE sock'[c].last_received = sock[c].last_received
  BY <1>4, <1>5, <1>6 DEF Continues
<1>7. CASE /\ m.type = "data_transfer"
           /\ m.id = sock[c].last_received + 1
           /\ sock'[c].last_received = m.id
  <2>1. m.id # 0 /\ m.id # sock[c].last_received
    BY <1>4, <1>7
  <2>2. AllAsked /\ \A p \in Slot : DataOf(p, m)
                                    /\ (Live(p) => m.id <= sock[p].last_outgoing)
    BY <1>4, <1>7, <2>1 DEF ToClientOrder
  <2>3. sent' = sent /\ \A q \in Payload : m.buf = <<q>> => q \in Reached'
    <3>1. ReceiveMessage(l, i, c) /\ c \in Sock
      BY <1>2, <1>4 DEF StepHears
    <3>2. StreamHears(l, m, c)
      BY <1>3, <3>1, OrderKnown, HearStream
    <3> QED
      BY <1>7, <2>1, <3>2 DEF StreamHears
  <2>4. ASSUME NEW p \in Slot, AllReached(p, sock[c].last_received),
               NEW j \in DOMAIN sent'[p], sent'[p][j] <= m.id
        PROVE  <<p, j>> \in Reached'
    <3>1. p \in Sock /\ sent[p][j] \in Nat /\ j \in DOMAIN sent[p]
      BY <2>3, <2>4, Apart, Numbers, OrderKnown
    <3>2. CASE sent[p][j] <= sock[c].last_received
      BY <2>4, <3>1, <3>2, OrderKnown DEF AllReached
    <3>3. CASE sent[p][j] = m.id
      <4>1. m.buf = <<<<p, j>>>>
        BY <2>2, <3>1, <3>3 DEF DataOf
      <4>2. <<p, j>> \in Payload
        BY <3>1, OrderKnown DEF Payload, TypeOK
      <4> QED
        BY <2>3, <4>1, <4>2
    <3>4. sent[p][j] <= m.id
      BY <2>3, <2>4
    <3> QED
      BY <1>4, <1>7, <3>1, <3>2, <3>3, <3>4
  <2>5. ASSUME NEW p \in Slot, AllReached(p, sock[c].last_received)
        PROVE  AllReached(p, sock[c].last_received)'
    BY <1>7, <2>4, <2>5 DEF AllReached
  <2> QED
    BY <1>4, <1>5, <1>7, <2>2, <2>3, <2>5 DEF Continues
<1> QED
  BY <1>4, <1>6, <1>7 DEF Continues

\* What the client knows of the numbers of the socket at its other end.
LEMMA ClientPeer ==
  ASSUME OrderStep, NEW c \in Client, NEW p \in Slot, sock'[c].state = "connected", Live(p)'
  PROVE  IF Busy(sock'[c]) THEN sock'[c].last_outgoing <= sock'[p].last_received + 1
                           ELSE sock'[c].last_outgoing = sock'[p].last_received
<1>1. /\ StreamInv /\ TypeOK' /\ c \in Sock /\ p \in Sock /\ ClientConnected(c)
  BY Apart, OrderKnown DEF OrderStep, OrderInv, ClientOrder
<1>2. PICK L, LL, R, RR : /\ L = sock[c].last_outgoing /\ LL = sock'[c].last_outgoing
                          /\ R = sock[p].last_received /\ RR = sock'[p].last_received
  OBVIOUS
<1>3. L \in Nat /\ LL \in Nat /\ R \in Nat /\ RR \in Nat
  BY <1>1, <1>2, Numbers, NextNumbers
<1>4. RR <= LL
  BY <1>2, PeerBound DEF Live
<1> SUFFICES IF Busy(sock'[c]) THEN LL <= RR + 1 ELSE LL = RR
  BY <1>2
<1>5. CASE ~ AllAsked
  <2>1. RR = 0
    BY <1>2, <1>5, Early
  <2>2. sock[c].state = "connected" => L = IF Busy(sock[c]) THEN 1 ELSE 0
    BY <1>1, <1>2, <1>5 DEF ClientConnected
  <2>3. CASE ClientRests(c)
    BY <1>2, <2>1, <2>2, <2>3 DEF ClientRests
  <2>4. CASE ClientSends(c)
    BY <1>2, <2>1, <2>2, <2>4 DEF ClientSends
  <2>5. CASE ClientContinues(c)
    <3>1. /\ sock[c].state = "connected" /\ LL = L
          /\ Busy(sock'[c]) <=> Busy(sock[c])
      BY <1>2, <1>5, <2>5, ClientHearsOn
    <3> QED
      BY <2>1, <2>2, <3>1
  <2>6. CASE ClientStarts(c)
    BY <1>2, <2>1, <2>6 DEF ClientStarts
  <2> QED
    BY <2>3, <2>4, <2>5, <2>6, ClientGoesOn
<1>6. CASE Live(p) /\ R <= RR
  <2>1. sock[c].state = "connected" => IF Busy(sock[c]) THEN L <= R + 1 ELSE L = R
    BY <1>1, <1>2, <1>6 DEF ClientConnected
  <2>2. CASE ClientRests(c)
    BY <1>2, <1>3, <1>4, <1>6, <2>1, <2>2 DEF ClientRests
  <2>3. CASE ClientSends(c)
    BY <1>2, <1>3, <1>4, <1>6, <2>1, <2>3 DEF ClientSends
  <2>4. CASE ClientContinues(c)
    <3>1. /\ sock[c].state = "connected" /\ LL = L
          /\ \/ Busy(sock'[c]) <=> Busy(sock[c])
             \/ ~ Busy(sock'[c]) /\ L = R
      BY <1>2, <1>6, <2>4, ClientHearsOn
    <3> QED
      BY <1>3, <1>4, <1>6, <2>1, <3>1
  <2>5. CASE ClientStarts(c)
    BY <1>2, <1>5, <2>5 DEF ClientStarts
  <2> QED
    BY <2>2, <2>3, <2>4, <2>5, ClientGoesOn
<1> QED
  BY <1>2, <1>5, <1>6, LiveSlot

LEMMA ClientConnectedNext ==
  ASSUME OrderStep, NEW c \in Client
  PROVE  ClientConnected(c)'
<1> SUFFICES ASSUME sock'[c].state = "connected" PROVE ClientConnected(c)'
  BY DEF ClientConnected
<1>1. /\ StreamInv /\ c \in Sock /\ ClientConnected(c)
      /\ sock[c].last_outgoing \in Nat /\ sock[c].last_received \in Nat
      /\ AllAsked => AllAsked'
  BY Apart, OrderKnown, Numbers DEF OrderStep, OrderInv, ClientOrder
<1>2. /\ Busy(sock'[c]) => 1 <= sock'[c].last_outgoing
      /\ ~ AllAsked' => /\ sock'[c].last_received = 1
                        /\ sock'[c].last_outgoing = IF Busy(sock'[c]) THEN 1 ELSE 0
  <2>1. sock[c].state = "connected" =>
          /\ Busy(sock[c]) => 1 <= sock[c].last_outgoing
          /\ ~ AllAsked => /\ sock[c].last_received = 1
                           /\ sock[c].last_outgoing = IF Busy(sock[c]) THEN 1 ELSE 0
    BY <1>1 DEF ClientConnected
  <2>2. CASE ClientRests(c)
    BY <1>1, <2>1, <2>2 DEF ClientRests
  <2>3. CASE ClientSends(c)
    BY <1>1, <2>1, <2>3 DEF ClientSends
  <2>4. CASE ClientContinues(c)
    <3>1. /\ sock[c].state = "connected"
          /\ sock'[c].last_outgoing = sock[c].last_outgoing
          /\ (Busy(sock'[c]) <=> Busy(sock[c])) \/ (~ Busy(sock'[c]) /\ AllAsked)
          /\ sock'[c].last_received = sock[c].last_received \/ AllAsked
      BY <2>4, ClientHearsOn
    <3> QED
      BY <1>1, <2>1, <3>1
  <2>5. CASE ClientStarts(c)
    BY <1>1, <2>5 DEF ClientStarts
  <2> QED
    BY <2>2, <2>3, <2>4, <2>5, ClientGoesOn
<1>3. ASSUME NEW p \in Slot PROVE AllReached(p, sock[c].last_received)'
  <2>1. CASE ClientStarts(c)
    <3>1. sent'[p] = <<>>
      BY <2>1, Early DEF ClientStarts
    <3> QED
      BY <3>1, NothingMissingNext
  <2>2. ASSUME sock[c].state = "connected"
        PROVE  /\ AllReached(p, sock[c].last_received)
               /\ Live(p) => sock[c].last_received <= sock[p].last_outgoing
    <3>1. SlotConnected(c, p) /\ p \in Sock /\ sock[p].last_outgoing \in Nat
      BY <1>1, Apart, Numbers DEF OrderStep, OrderInv, SlotOrder
    <3>2. Live(p) => sock[c].last_received
                       \in {sock[p].last_outgoing - 1, sock[p].last_outgoing}
      BY <2>2, <3>1 DEF SlotConnected
    <3> QED
      BY <1>1, <2>2, <3>1, <3>2 DEF ClientConnected
  <2>3. ASSUME sock[c].state = "connected",
               sock'[c].last_received = sock[c].last_received
        PROVE  AllReached(p, sock[c].last_received)'
    <3>1. PICK n \in Nat : n = sock[c].last_received
      BY <1>1
    <3>2. AllReached(p, n)'
      BY <2>2, <2>3, <3>1, SlotReachedKept
    <3> QED
      BY <2>3, <3>1, <3>2 DEF AllReached
  <2>4. CASE ClientContinues(c) /\ sock'[c].last_received # sock[c].last_received
    BY <2>2, <2>4, ClientHearsOn
  <2> QED
    BY <2>1, <2>3, <2>4, ClientGoesOn, ClientHearsOn DEF ClientRests, ClientSends
<1> QED
  BY <1>2, <1>3, ClientPeer DEF ClientConnected

-----------------------------------------------------------------------------
(* The socket at the other end of the client *)

SlotRests(p) ==
    /\ sock'[p].last_outgoing = sock[p].last_outgoing
    /\ Busy(sock'[p]) <=> Busy(sock[p])

SlotSends(p) ==
    /\ sock'[p].last_outgoing = sock[p].last_outgoing + 1
    /\ ~ Busy(sock[p]) /\ Busy(sock'[p])

SlotAcked(c, p) ==
    /\ sock'[p].last_outgoing = sock[p].last_outgoing
    /\ ~ Busy(sock'[p])
    /\ sock[c].state = "connected" => sock[p].last_outgoing <= sock[c].last_received

LEMMA SlotGoesOn ==
  ASSUME OrderStep, NEW c \in Client, NEW p \in Slot, AllAsked, Live(p)'
  PROVE  Live(p) /\ (SlotRests(p) \/ SlotSends(p) \/ SlotAcked(c, p))
<1>1. Live(p) /\ SlotConnected(c, p) /\ p \in Sock /\ sock[p] \in SocketType
  BY LiveSlot, Apart, OrderKnown DEF OrderStep, OrderInv, SlotOrder, TypeOK
<1>2. CASE sock'[p] = sock[p]
  BY <1>1, <1>2 DEF SlotRests
<1>3. CASE Rests(sock[p], sock'[p])
  BY <1>1, <1>3, RestsTask DEF SlotRests, Busy
<1>4. CASE Sends(sock[p], sock'[p]) /\ sock'[p].last_outgoing = sock[p].last_outgoing + 1
  <2>1. sock'[p].send_task.has
    BY <1>4, NewTaskFields DEF Sends
  <2> QED
    BY <1>1, <1>4, <2>1 DEF Sends, SlotSends, Busy
<1>5. ~ Closes(sock[p], sock'[p])
  BY DEF Closes, Live
<1>6. ASSUME NEW l \in Link, NEW i \in DOMAIN net[l], StepHears(l, i, p)
      PROVE  SlotRests(p) \/ SlotAcked(c, p)
  <2>1. PICK m : m = net[l][i]
    OBVIOUS
  <2>2. Continues(sock[p], m, sock'[p]) /\ ClientGot(c, m.ack)
    BY <1>6, <2>1, SlotHearsForms DEF Finishes, Live, Continues
  <2>3. CASE AckMatches(sock[p], m)
    <3>1. Busy(sock[p]) /\ m.ack = sock[p].last_outgoing
      BY <1>1, <2>3 DEF AckMatches, Busy, SlotConnected
    <3>2. ~ Busy(sock'[p]) /\ sock'[p].last_outgoing = sock[p].last_outgoing
      BY <2>2, <2>3 DEF Continues, LeftTask, NoSendTask, Busy
    <3> QED
      BY <2>2, <3>1, <3>2 DEF ClientGot, SlotAcked
  <2>4. CASE ~ AckMatches(sock[p], m)
    BY <2>2, <2>4 DEF Continues, LeftTask, Busy, SlotRests
  <2> QED
    BY <2>3, <2>4
<1>7. ~ Resubmits(sock'[p])
  BY DEF Resubmits
<1> QED
  BY <1>1, <1>2, <1>3, <1>4, <1>5, <1>6, <1>7, SlotForms

LEMMA ClientReceives ==
  ASSUME OrderStep, NEW c \in Client, NEW p \in Slot, AllAsked, Live(p),
         sock'[c].state = "connected"
  PROVE  /\ sock[c].state = "connected"
         /\ \/ sock'[c].last_received = sock[c].last_received
            \/ /\ sock'[c].last_received = sock[c].last_received + 1
               /\ sock'[c].last_received <= sock[p].last_outgoing
<1>1. ~ ClientStarts(c)
  BY DEF ClientStarts
<1> QED
  BY <1>1, ClientGoesOn, ClientHearsOn DEF ClientRests, ClientSends

LEMMA SlotPeer ==
  ASSUME OrderStep, NEW c \in Client, NEW p \in Slot, sock'[c].state = "connected", Live(p)'
  PROVE  IF Busy(sock'[p])
         THEN sock'[c].last_received \in {sock'[p].last_outgoing - 1, sock'[p].last_outgoing}
         ELSE sock'[c].last_received = sock'[p].last_outgoing
<1>1. /\ StreamInv /\ TypeOK' /\ c \in Sock /\ p \in Sock /\ SlotConnected(c, p)
      /\ ClientConnected(c)
  BY Apart, OrderKnown DEF OrderStep, OrderInv, ClientOrder, SlotOrder
<1>2. PICK L, LL, R, RR : /\ L = sock[p].last_outgoing /\ LL = sock'[p].last_outgoing
                          /\ R = sock[c].last_received /\ RR = sock'[c].last_received
  OBVIOUS
<1>3. L \in Nat /\ LL \in Nat /\ R \in Nat /\ RR \in Nat
  BY <1>1, <1>2, Numbers, NextNumbers
<1> SUFFICES IF Busy(sock'[p]) THEN RR \in {LL - 1, LL} ELSE RR = LL
  BY <1>2
<1>4. CASE ~ AllAsked
  <2>1. LL = 1 /\ Busy(sock'[p])
    BY <1>2, <1>4, Early DEF HasTask, Busy
  <2>2. RR = 1
    <3>1. sock[c].state = "connected" => R = 1
      BY <1>1, <1>2, <1>4 DEF ClientConnected
    <3> QED
      BY <1>2, <1>4, <3>1, ClientGoesOn, ClientHearsOn
         DEF ClientRests, ClientSends, ClientStarts
  <2> QED
    BY <2>1, <2>2
<1>5. CASE AllAsked
  <2>1. Live(p) /\ (SlotRests(p) \/ SlotSends(p) \/ SlotAcked(c, p))
    BY <1>5, SlotGoesOn
  <2>2. sock[c].state = "connected" /\ (RR = R \/ (RR = R + 1 /\ RR <= L))
    BY <1>2, <1>5, <2>1, ClientReceives
  <2>3. IF Busy(sock[p]) THEN R \in {L - 1, L} ELSE R = L
    BY <1>1, <1>2, <2>1, <2>2 DEF SlotConnected
  <2>4. CASE SlotRests(p)
    <3>1. LL = L /\ (Busy(sock'[p]) <=> Busy(sock[p]))
      BY <1>2, <2>4 DEF SlotRests
    <3> QED
      BY <1>3, <2>2, <2>3, <3>1
  <2>5. CASE SlotSends(p)
    <3>1. LL = L + 1 /\ ~ Busy(sock[p]) /\ Busy(sock'[p])
      BY <1>2, <2>5 DEF SlotSends
    <3> QED
      BY <1>3, <2>2, <2>3, <3>1
  <2>6. CASE SlotAcked(c, p)
    <3>1. LL = L /\ ~ Busy(sock'[p]) /\ L <= R
      BY <1>2, <2>2, <2>6 DEF SlotAcked
    <3>2. R <= L
      BY <1>3, <2>3
    <3> QED
      BY <1>3, <2>2, <3>1, <3>2
  <2> QED
    BY <2>1, <2>4, <2>5, <2>6
<1> QED
  BY <1>4, <1>5

-----------------------------------------------------------------------------
(* The tasks and acknowledgements of the client *)

LEMMA ClientGotNext ==
  ASSUME OrderStep, NEW c \in Client, sock'[c].state = "connected",
         NEW a \in Nat, a <= sock'[c].last_received
  PROVE  ClientGot(c, a)'
<1>1. /\ StreamInv /\ TypeOK' /\ c \in Sock /\ sock'[c].last_received \in Nat
  BY Apart, OrderKnown, NextNumbers
<1>2. /\ ~ AllAsked' => sock'[c].last_received = 1
      /\ \A p \in Slot : AllReached(p, sock[c].last_received)'
  BY ClientConnectedNext DEF ClientConnected
<1>3. ~ AllAsked' => a <= 1
  BY <1>2
<1>4. ASSUME NEW p \in Slot, Live(p)'
      PROVE  a <= sock'[p].last_outgoing /\ AllReached(p, a)'
  <2>1. p \in Sock /\ sock'[p].last_outgoing \in Nat
        /\ \A j \in DOMAIN sent'[p] : sent'[p][j] \in Nat
    BY <1>1, Apart, NextNumbers
  <2>2. sock'[c].last_received <= sock'[p].last_outgoing
    <3>1. sock'[c].last_received \in {sock'[p].last_outgoing - 1, sock'[p].last_outgoing}
      BY <1>4, SlotPeer
    <3> QED
      BY <2>1, <3>1
  <2>3. a <= sock'[p].last_outgoing
    BY <1>1, <2>1, <2>2
  <2>4. ASSUME NEW j \in DOMAIN sent'[p], sent'[p][j] <= a
        PROVE  <<p, j>> \in Reached'
    <3>1. sent'[p][j] <= sock'[c].last_received
      BY <1>1, <2>1, <2>4
    <3> QED
      BY <1>2, <3>1 DEF AllReached
  <2>5. AllReached(p, a)'
    BY <2>4 DEF AllReached
  <2> QED
    BY <2>3, <2>5
<1> QED
  BY <1>3, <1>4 DEF ClientGot

LEMMA ClientGotZero ==
  ASSUME OrderStep, NEW c \in Client PROVE ClientGot(c, 0)
<1>1. StreamInv /\ c \in Sock /\ 0 <= sock[c].last_received
  BY OrderKnown, Apart, Numbers
<1>2. ASSUME NEW p \in Slot PROVE 0 <= sock[p].last_outgoing /\ AllReached(p, 0)
  <2>1. p \in Sock /\ \A j \in DOMAIN sent[p] : 1 <= sent[p][j] /\ sent[p][j] \in Nat
    BY <1>1, Apart, Numbers DEF OrderStep, OrderInv, SlotOrder, SlotIds
  <2> QED
    BY <1>1, <2>1, Numbers DEF AllReached
<1> QED
  BY <1>1, <1>2 DEF ClientGot

\* What the client acknowledges after a step.
ClientAcksNext(c) ==
    /\ ClientGot(c, sock[c].ack_task.id)'
    /\ sock'[c].send_task.has /\ sock'[c].send_task.type # "connection_close_submit" =>
         ClientGot(c, sock[c].send_task.ack)'

LEMMA GotAck ==
  ASSUME OrderStep, NEW c \in Client, NEW a \in Nat, ClientGot(c, a), a = sock'[c].ack_task.id
  PROVE  ClientGot(c, sock[c].ack_task.id)'
<1>1. ClientGot(c, a)'
  BY ClientGotKept
<1> QED
  BY <1>1

LEMMA GotTask ==
  ASSUME OrderStep, NEW c \in Client, NEW a \in Nat, ClientGot(c, a), a = sock'[c].send_task.ack
  PROVE  ClientGot(c, sock[c].send_task.ack)'
<1>1. ClientGot(c, a)'
  BY ClientGotKept
<1> QED
  BY <1>1

LEMMA ClientAcksNextIs ==
  ASSUME OrderStep, NEW c \in Client, sock'[c].state \notin Unanswered
  PROVE  ClientAcksNext(c)
<1>1. /\ StreamInv /\ TypeOK /\ TypeOK' /\ c \in Sock /\ ClientAcks(c) /\ sock[c] \in SocketType
      /\ sock[c].ack_task.id \in Nat /\ sock[c].send_task.ack \in Nat
      /\ ClientGot(c, 0)
  BY Apart, OrderKnown, AckNumbers, ClientGotZero DEF OrderStep, OrderInv, ClientOrder, TypeOK
<1>2. ASSUME sock[c].state \notin Unanswered
      PROVE  /\ ClientGot(c, sock[c].ack_task.id)
             /\ sock[c].send_task.has /\ sock[c].send_task.type # "connection_close_submit" =>
                  ClientGot(c, sock[c].send_task.ack)
  BY <1>1, <1>2 DEF ClientAcks
<1>3. CASE sock'[c] = sock[c]
  BY <1>1, <1>2, <1>3, GotAck, GotTask DEF ClientAcksNext
<1>4. ~ Connects(sock[c], sock'[c])
  BY DEF Connects, Unanswered
<1>5. CASE Rests(sock[c], sock'[c])
  <2>1. /\ sock'[c].send_task.has = sock[c].send_task.has
        /\ sock'[c].send_task.type = sock[c].send_task.type
        /\ sock'[c].send_task.ack \in {sock[c].send_task.ack, sock[c].ack_task.id}
        /\ sock'[c].state = sock[c].state
        /\ sock'[c].ack_task.id = sock[c].ack_task.id
    BY <1>1, <1>5, RestsTask
  <2> QED
    BY <1>1, <1>2, <2>1, GotAck, GotTask DEF ClientAcksNext
<1>6. CASE Sends(sock[c], sock'[c]) \/ Closes(sock[c], sock'[c])
  <2>1. sock'[c].send_task.ack = 0
    BY <1>6, CallTasks
  <2>2. sock[c].state \notin Unanswered /\ sock'[c].ack_task.id = sock[c].ack_task.id
    BY <1>6 DEF Sends, Closes, Same, Unanswered
  <2> QED
    BY <1>1, <1>2, <2>1, <2>2, GotAck, GotTask DEF ClientAcksNext
<1>7. ASSUME NEW l \in Link, NEW i \in DOMAIN net[l], StepHears(l, i, c)
      PROVE  ClientAcksNext(c)
  <2>1. PICK m : m = net[l][i]
    OBVIOUS
  <2>2. /\ m.id \in Nat /\ ToClientOrder(c, m)
        /\ \/ Continues(sock[c], m, sock'[c])
           \/ Starts(sock[c], m, sock'[c]) /\ m.id = 1 /\ ~ AllAsked
           \/ Finishes(sock[c], m, sock'[c]) /\ (m.type = "connection_close_submit" => AllAsked)
    BY <1>7, <2>1, ClientHearsForms
  <2>3. ASSUME m.id <= sock'[c].last_received, sock'[c].state = "connected",
               sock'[c].ack_task.id = m.id
        PROVE  ClientGot(c, sock[c].ack_task.id)'
    <3>1. ClientGot(c, m.id)'
      BY <2>2, <2>3, ClientGotNext
    <3> QED
      BY <2>3, <3>1
  <2>4. CASE Continues(sock[c], m, sock'[c])
    <3>1. /\ sock[c].state \notin Unanswered /\ sock'[c].state = "connected"
          /\ sock'[c].send_task = LeftTask(sock[c], m)
          /\ HearsAcked(sock[c], m, sock'[c])
      BY <2>4 DEF Continues, Unanswered
    <3>2. ClientGot(c, sock[c].ack_task.id)'
      BY <1>1, <1>2, <2>3, <3>1, GotAck DEF HearsAcked
    <3>3. ~ sock'[c].send_task.has \/ sock'[c].send_task = sock[c].send_task
      BY <3>1 DEF LeftTask, NoSendTask
    <3> QED
      BY <1>1, <1>2, <3>1, <3>2, <3>3, GotTask DEF ClientAcksNext
  <2>5. CASE Starts(sock[c], m, sock'[c])
    <3>1. /\ sock'[c].state = "connected" /\ ~ sock'[c].send_task.has
          /\ sock'[c].ack_task.id = m.id /\ sock'[c].last_received = m.id
      BY <2>5 DEF Starts, NoSendTask
    <3>2. m.id <= m.id
      BY <2>2
    <3> QED
      BY <2>3, <3>1, <3>2 DEF ClientAcksNext
  <2>6. CASE Finishes(sock[c], m, sock'[c]) /\ (m.type = "connection_close_submit" => AllAsked)
    <3>1. sock[c].state \notin Unanswered /\ sock'[c].state = "closed"
      BY <2>6 DEF Finishes, Unanswered
    <3>2. \/ sock'[c].ack_task.id = sock[c].ack_task.id
          \/ m.type = "connection_close_submit" /\ sock'[c].ack_task.id = m.id
      BY <2>6 DEF Finishes, HearsAcked
    <3>3. ASSUME m.type = "connection_close_submit", sock'[c].ack_task.id = m.id
          PROVE  ClientGot(c, sock[c].ack_task.id)'
      <4>1. AllAsked /\ AllAsked' /\ \A p \in Slot : ~ Live(p)
        BY <2>2, <2>6, <3>3, OrderKnown DEF ToClientOrder
      <4>2. \A p \in Slot : ~ Live(p)'
        BY <4>1, LiveSlot
      <4> QED
        BY <3>1, <4>1, <4>2 DEF ClientGot
    <3>4. ClientGot(c, sock[c].ack_task.id)'
      BY <1>1, <1>2, <3>1, <3>2, <3>3, GotAck
    <3>5. \/ sock'[c].send_task.type = "connection_close_submit"
          \/ ~ sock'[c].send_task.has
          \/ sock'[c].send_task = sock[c].send_task
      BY <2>6 DEF Finishes, NoSendTask
    <3> QED
      BY <1>1, <1>2, <3>1, <3>4, <3>5, GotTask DEF ClientAcksNext
  <2> QED
    BY <2>2, <2>4, <2>5, <2>6
<1> QED
  BY <1>3, <1>4, <1>5, <1>6, <1>7, ClientForms

LEMMA ClientAcksStep ==
  ASSUME OrderStep, NEW c \in Client PROVE ClientAcks(c)'
  BY ClientAcksNextIs DEF ClientAcks, ClientAcksNext

LEMMA ClientTasksNext ==
  ASSUME OrderStep, NEW c \in Client
  PROVE  /\ sock'[c].state = "waiting_for_submit" => HasTask(sock'[c], {"connection_request"})
         /\ HasTask(sock'[c], {"data_transfer"}) => sock'[c].state = "connected"
         /\ sock'[c].state \in Unanswered => sock'[c].last_received = 0
<1>1. /\ TypeOK /\ c \in Sock /\ sock[c] \in SocketType /\ ClientOrder(c)
  BY Apart, OrderKnown DEF OrderStep, OrderInv, TypeOK
<1>2. /\ sock[c].state = "waiting_for_submit" => HasTask(sock[c], {"connection_request"})
      /\ HasTask(sock[c], {"data_transfer"}) => sock[c].state = "connected"
      /\ sock[c].state \in Unanswered => sock[c].last_received = 0
  BY <1>1 DEF ClientOrder
<1>3. CASE sock'[c] = sock[c]
  BY <1>2, <1>3
<1>4. CASE Connects(sock[c], sock'[c])
  <2>1. sock'[c].send_task.has = TRUE /\ sock'[c].send_task.type = "connection_request"
    BY <1>4, CallTasks
  <2>2. sock'[c].last_received = 0
    BY <1>2, <1>4 DEF Connects, Same, Unanswered
  <2> QED
    BY <1>4, <2>1, <2>2 DEF Connects, HasTask, Unanswered
<1>5. CASE Rests(sock[c], sock'[c])
  BY <1>1, <1>2, <1>5, RestsTask DEF HasTask
<1>6. CASE Sends(sock[c], sock'[c])
  BY <1>6 DEF Sends, Unanswered
<1>7. CASE Closes(sock[c], sock'[c])
  <2>1. sock'[c].send_task.type = "connection_close" /\ sock'[c].state = "closed"
    BY <1>7, CallTasks DEF Closes
  <2> QED
    BY <2>1 DEF HasTask, Unanswered
<1>8. ASSUME NEW l \in Link, NEW i \in DOMAIN net[l], StepHears(l, i, c)
      PROVE  /\ sock'[c].state \notin Unanswered
             /\ HasTask(sock'[c], {"data_transfer"}) => sock'[c].state = "connected"
  <2>1. PICK m : m = net[l][i]
    OBVIOUS
  <2>2. \/ Continues(sock[c], m, sock'[c])
        \/ Starts(sock[c], m, sock'[c])
        \/ Finishes(sock[c], m, sock'[c])
    BY <1>8, <2>1, ClientHearsForms
  <2>3. sock'[c].state = "connected" \/ Finishes(sock[c], m, sock'[c])
    BY <2>2 DEF Continues, Starts
  <2>4. CASE Finishes(sock[c], m, sock'[c])
    BY <1>2, <2>4 DEF Finishes, HasTask, NoSendTask, Unanswered
  <2> QED
    BY <2>3, <2>4 DEF Unanswered
<1> QED
  BY <1>3, <1>4, <1>5, <1>6, <1>7, <1>8, ClientForms DEF Unanswered

-----------------------------------------------------------------------------
(* The stream to the client *)

\* A payload that comes later than another was numbered later by the same socket.
LEMMA LaterPayload ==
  ASSUME OrderStep, NEW c \in Client, NEW p \in Payload, NEW q \in Payload,
         p[1] \in Slot, q[1] \in Slot,
         p[2] \in DOMAIN sent[p[1]], q[2] \in DOMAIN sent[q[1]],
         sent[q[1]][q[2]] < sent[p[1]][p[2]]
  PROVE  q[1] = p[1] /\ q[2] < p[2]
<1>1. /\ SlotIds(p[1]) /\ SlotIds(q[1])
      /\ StreamInv /\ p[1] \in Sock /\ q[1] \in Sock
  BY Apart, OrderKnown DEF OrderStep, OrderInv, SlotOrder
<1>2. sent[p[1]] # <<>> /\ sent[q[1]] # <<>>
  <2>1. \A s : s = <<>> => DOMAIN s = {}
    OBVIOUS
  <2> QED
    BY <2>1
<1>3. q[1] = p[1]
  BY <1>1, <1>2 DEF SlotIds
<1>4. PICK n : n = sent[p[1]]
  OBVIOUS
<1>5. /\ n \in Seq(Id) /\ p[2] \in DOMAIN n /\ q[2] \in DOMAIN n /\ n[q[2]] < n[p[2]]
      /\ \A i, j \in DOMAIN n : i < j => n[i] < n[j]
      /\ \A i \in DOMAIN n : n[i] \in Nat
  BY <1>1, <1>3, <1>4, Numbers DEF StreamInv, TypeOK, SlotIds
<1>6. p[2] \in Nat /\ q[2] \in Nat /\ n[p[2]] \in Nat /\ n[q[2]] \in Nat
  BY <1>5
<1>7. ~ (n[p[2]] < n[q[2]]) /\ p[2] # q[2]
  BY <1>5, <1>6
<1>8. ~ (p[2] < q[2])
  BY <1>5, <1>7
<1>9. q[2] < p[2]
  BY <1>6, <1>7, <1>8
<1> QED
  BY <1>3, <1>9

LEMMA ClientStreamKept ==
  ASSUME OrderStep, NEW c \in Client, Delivered(c)' = Delivered(c)
  PROVE  /\ \A i \in DOMAIN Delivered(c)' : Delivered(c)'[i][1] \in Slot
         /\ InOrder(c)'
<1>1. ClientOrder(c)
  BY DEF OrderStep, OrderInv
<1>2. InOrder(c)'
  BY <1>1 DEF ClientOrder, InOrder
<1> QED
  BY <1>1, <1>2 DEF ClientOrder

LEMMA ClientStreamGrows ==
  ASSUME OrderStep, NEW c \in Client, NEW l \in Link, NEW m, StreamHears(l, m, c),
         m.id \in Nat, NEW p \in Payload, m.buf = <<p>>,
         Delivered(c)' = Append(Delivered(c), p)
  PROVE  /\ \A i \in DOMAIN Delivered(c)' : Delivered(c)'[i][1] \in Slot
         /\ InOrder(c)'
<1>1. PICK q : q = Delivered(c)
  OBVIOUS
<1>2. /\ StreamInv /\ ClientOrder(c) /\ c \in Sock /\ ReceivedInv
      /\ q \in Seq(Payload) /\ sock[c].last_received \in Nat
  BY <1>1, Apart, OrderKnown, Numbers, DeliveredType DEF OrderStep, OrderInv, StreamInv
<1>3. Delivered(c)' # Delivered(c) /\ Append(q, p) # q
  BY <1>1, <1>2, AppendedItems
<1>4. sock[c].last_received < m.id
  BY <1>3 DEF StreamHears
<1>5. /\ p[1] \in Slot /\ p[2] \in DOMAIN sent[p[1]] /\ sent[p[1]][p[2]] = m.id
  <2>1. MessageNumbered(l, m) /\ Recipient(l, m, c) /\ 1 \in DOMAIN m.buf /\ m.buf[1] = p
    BY DEF StreamHears
  <2>2. l[2] = ClientNode[c]
    BY <2>1 DEF Recipient, Address
  <2>3. l[1] = Server /\ ClientNode[c] # Server /\ \A d \in Client : d = c
    BY <2>2, TwoLinks DEF OrderStep, OrderlyApart, Orderly, OneClient
  <2>4. Numbered(p, m.id) /\ l[1] = Address(p[1]) /\ p[1] \in Sock
    BY <2>1 DEF MessageNumbered, Payload
  <2>5. p[1] \in Slot
    BY <2>3, <2>4, Apart DEF Address
  <2> QED
    BY <2>4, <2>5 DEF Numbered
<1>6. ASSUME NEW i \in DOMAIN q
      PROVE  q[i] \in Payload /\ q[i][1] \in Slot /\ q[i][1] = p[1] /\ q[i][2] < p[2]
  <2>1. q[i] \in Payload /\ q[i][1] \in Slot
    BY <1>1, <1>2, ElementOfSeq DEF ClientOrder
  <2>2. q[i][2] \in DOMAIN sent[q[i][1]]
        /\ sent[q[i][1]][q[i][2]] <= sock[c].last_received
    BY <1>1, <1>2 DEF ReceivedInv
  <2>3. sent[q[i][1]][q[i][2]] \in Nat
    BY <1>2, <2>1, <2>2, Numbers, Apart
  <2>4. sent[q[i][1]][q[i][2]] < sent[p[1]][p[2]]
    BY <1>2, <1>4, <1>5, <2>2, <2>3
  <2> QED
    BY <1>5, <2>1, <2>2, <2>4, LaterPayload
<1>7. /\ DOMAIN q = 1 .. Len(q) /\ Len(q) \in Nat
      /\ DOMAIN Append(q, p) = 1 .. Len(q) + 1
      /\ \A i \in 1 .. Len(q) : Append(q, p)[i] = q[i]
      /\ Append(q, p)[Len(q) + 1] = p
  BY <1>2
<1>8. PICK a : a = Append(q, p)
  OBVIOUS
<1>9. Delivered(c)' = a
  BY <1>1, <1>8
<1>10. /\ DOMAIN a = 1 .. Len(q) + 1 /\ a[Len(q) + 1] = p
       /\ \A i \in DOMAIN q : a[i] = q[i]
       /\ \A i \in DOMAIN a : i \in DOMAIN q \/ i = Len(q) + 1
       /\ \A i, j \in DOMAIN a : i < j => i \in DOMAIN q
  BY <1>7, <1>8
<1>11. \A i, j \in DOMAIN q : i < j => q[i][1] = q[j][1] /\ q[i][2] < q[j][2]
  BY <1>1, <1>2 DEF ClientOrder, InOrder
<1>12. ASSUME NEW i \in DOMAIN a, NEW j \in DOMAIN a, i < j
       PROVE  a[i][1] = a[j][1] /\ a[i][2] < a[j][2]
  BY <1>6, <1>10, <1>11, <1>12
<1>13. \A i \in DOMAIN a : a[i][1] \in Slot
  BY <1>5, <1>6, <1>10
<1>14. InOrder(c)'
  BY <1>9, <1>12 DEF InOrder
<1> QED
  BY <1>9, <1>13, <1>14

LEMMA ClientStreamNext ==
  ASSUME OrderStep, NEW c \in Client
  PROVE  /\ \A i \in DOMAIN Delivered(c)' : Delivered(c)'[i][1] \in Slot
         /\ InOrder(c)'
<1>1. c \in Sock /\ StreamInv /\ [Next]_vars
  BY Apart, OrderKnown
<1>2. CASE SameDelivered
  BY <1>1, <1>2, ClientStreamKept DEF SameDelivered
<1>3. ASSUME NEW l \in Link, NEW i \in DOMAIN net[l], NEW s \in Sock,
             StreamHears(l, net[l][i], s)
      PROVE  /\ \A k \in DOMAIN Delivered(c)' : Delivered(c)'[k][1] \in Slot
             /\ InOrder(c)'
  <2>1. CASE Delivered(c)' = Delivered(c)
    BY <2>1, ClientStreamKept
  <2>2. CASE Delivered(c)' # Delivered(c)
    <3>1. s = c
      BY <1>1, <1>3, <2>2 DEF StreamHears
    <3>2. PICK m : m = net[l][i]
      OBVIOUS
    <3>3. m \in Message
      BY <3>2, OrderKnown, ElementOfSeq DEF TypeOK
    <3>4. m.id \in Nat
      BY <3>3, IdsAreNumbers DEF Message
    <3>5. StreamHears(l, m, c)
      BY <1>3, <3>1, <3>2
    <3>6. PICK p \in Payload : m.buf = <<p>> /\ Delivered(c)' = Append(Delivered(c), p)
      BY <2>2, <3>5 DEF StreamHears, Brings
    <3> QED
      BY <3>4, <3>5, <3>6, ClientStreamGrows
  <2> QED
    BY <2>1, <2>2
<1> QED
  BY <1>1, <1>2, <1>3, StreamForms DEF StreamStays, StreamSends

LEMMA ClientOrderStep ==
  ASSUME OrderStep, NEW c \in Client PROVE ClientOrder(c)'
  BY ClientTasksNext, ClientAcksStep, ClientConnectedNext, ClientStreamNext DEF ClientOrder

-----------------------------------------------------------------------------
(* The sockets of the acceptor *)

LEMMA SlotTasksNext ==
  ASSUME OrderStep, NEW c \in Client, NEW p \in Slot
  PROVE  /\ p \in FreeSlots' => sock'[p].state = "not_connected"
         /\ SlotTask(sock'[p])
<1>1. /\ StreamInv /\ SlotOrder(c, p) /\ p \in Sock /\ sock[p] \in SocketType
      /\ SlotTask(sock[p])
      /\ p \in m_sockets' => p \notin FreeSlots'
      /\ p \in FreeSlots => sock[p].state = "not_connected"
  BY Apart, OrderKnown DEF OrderStep, OrderInv, SlotOrder, StreamInv, IdentityInv, TypeOK
<1>2. CASE sock'[p] = sock[p]
  BY <1>1, <1>2 DEF FreeSlots
<1>3. CASE p \in m_sockets' /\ Rests(sock[p], sock'[p])
  BY <1>1, <1>3, RestsTask DEF SlotTask, HasTask
<1>4. CASE p \in m_sockets' /\ Sends(sock[p], sock'[p])
  BY <1>1, <1>4, CallTasks DEF SlotTask, HasTask, Sends
<1>5. CASE p \in m_sockets' /\ Closes(sock[p], sock'[p])
  BY <1>1, <1>5, CallTasks DEF SlotTask, HasTask, Closes
<1>6. ASSUME p \in m_sockets', NEW l \in Link, NEW i \in DOMAIN net[l], StepHears(l, i, p)
      PROVE  SlotTask(sock'[p])
  <2>1. PICK m : m = net[l][i]
    OBVIOUS
  <2>2. Continues(sock[p], m, sock'[p]) \/ Finishes(sock[p], m, sock'[p])
    BY <1>6, <2>1, SlotHearsForms
  <2>3. CASE Continues(sock[p], m, sock'[p])
    BY <1>1, <2>3 DEF Continues, LeftTask, NoSendTask, SlotTask, HasTask
  <2>4. CASE Finishes(sock[p], m, sock'[p])
    BY <1>1, <2>4 DEF Finishes, NoSendTask, SlotTask, HasTask
  <2> QED
    BY <2>2, <2>3, <2>4
<1>7. CASE p \in m_sockets' /\ Resubmits(sock'[p])
  BY <1>1, <1>7, ResubmitsFields DEF SlotTask, HasTask
<1> QED
  BY <1>1, <1>2, <1>3, <1>4, <1>5, <1>6, <1>7, SlotForms

\* One socket of the acceptor at most numbers data in a step, the registered one.
LEMMA SlotsSent ==
  ASSUME OrderStep, NEW c \in Client, NEW p \in Slot, Live(p)
  PROVE  \A x \in Slot \ {p} : sent[x] = <<>> /\ sent'[x] = <<>>
<1>1. \A x \in Slot : Live(x) => x = p
  BY RegisteredServes DEF OrderStep, OrderlyApart, Orderly, Live
<1>2. \A x \in Slot \ {p} : sent[x] = <<>>
  BY DEF OrderStep, OrderInv, SlotOrder, SlotConnected
<1> QED
  BY <1>1, <1>2, SlotSent

LEMMA SlotNumbersNext ==
  ASSUME OrderStep, NEW c \in Client, NEW p \in Slot
  PROVE  /\ Live(p) => \A j \in DOMAIN sent'[p] :
                          \/ j \in DOMAIN sent[p] /\ sent'[p][j] = sent[p][j]
                             /\ sent[p][j] <= sock[p].last_outgoing
                          \/ /\ CallSend(p)
                             /\ j = Len(sent[p]) + 1
                             /\ sent'[p][j] = sock[p].last_outgoing + 1
         /\ SlotIds(p)'
<1>1. /\ StreamInv /\ SlotOrder(c, p) /\ SlotIds(p) /\ p \in Sock
      /\ sent[p] \in Seq(Id) /\ sock[p].last_outgoing \in Nat
      /\ \A j \in DOMAIN sent[p] : sent[p][j] \in Nat
  BY Apart, OrderKnown, Numbers DEF OrderStep, OrderInv, SlotOrder, StreamInv, TypeOK
<1>2. Live(p) => \A j \in DOMAIN sent[p] : sent[p][j] <= sock[p].last_outgoing
  BY <1>1 DEF SlotOrder, SlotConnected
<1>3. ASSUME Live(p), NEW j \in DOMAIN sent'[p]
      PROVE  \/ j \in DOMAIN sent[p] /\ sent'[p][j] = sent[p][j]
                /\ sent[p][j] <= sock[p].last_outgoing
             \/ /\ CallSend(p)
                /\ j = Len(sent[p]) + 1
                /\ sent'[p][j] = sock[p].last_outgoing + 1
  BY <1>1, <1>2, <1>3, SlotSent, SendNumbers
<1>4. \A j \in DOMAIN sent'[p] : 1 <= sent'[p][j]
  <2>1. \A j \in DOMAIN sent[p] : 1 <= sent[p][j]
    BY <1>1 DEF SlotIds
  <2>2. 1 <= sock[p].last_outgoing + 1
    BY <1>1
  <2> QED
    BY <1>3, <2>1, <2>2, SlotSent
<1>5. ASSUME NEW i \in DOMAIN sent'[p], NEW j \in DOMAIN sent'[p], i < j
      PROVE  sent'[p][i] < sent'[p][j]
  <2>1. \A x, y \in DOMAIN sent[p] : x < y => sent[p][x] < sent[p][y]
    BY <1>1 DEF SlotIds
  <2>2. CASE sent'[p] = sent[p]
    BY <1>5, <2>1, <2>2
  <2>3. CASE Live(p)
    <3>1. i \in DOMAIN sent[p] => i \in Nat /\ i <= Len(sent[p])
      BY <1>1
    <3>2. j \in DOMAIN sent[p] => j \in Nat /\ j <= Len(sent[p])
      BY <1>1
    <3>3. Len(sent[p]) \in Nat
      BY <1>1
    <3>4. i # Len(sent[p]) + 1
      BY <1>3, <1>5, <2>3, <3>2, <3>3
    <3>5. i \in DOMAIN sent[p] /\ sent'[p][i] = sent[p][i]
          /\ sent[p][i] <= sock[p].last_outgoing
      BY <1>3, <2>3, <3>4
    <3>6. CASE j \in DOMAIN sent[p] /\ sent'[p][j] = sent[p][j]
      BY <1>5, <2>1, <3>5, <3>6
    <3>7. CASE sent'[p][j] = sock[p].last_outgoing + 1
      BY <1>1, <3>5, <3>7
    <3> QED
      BY <1>3, <2>3, <3>6, <3>7
  <2> QED
    BY <2>2, <2>3, SlotSent
<1>6. ASSUME NEW x \in Slot, sent'[p] # <<>>, sent'[x] # <<>> PROVE p = x
  <2>1. CASE Live(p)
    BY <1>6, <2>1, SlotsSent
  <2>2. CASE Live(x)
    BY <1>6, <2>2, SlotsSent
  <2>3. CASE sent'[p] = sent[p] /\ sent'[x] = sent[x]
    BY <1>1, <1>6, <2>3 DEF SlotIds
  <2> QED
    BY <2>1, <2>2, <2>3, SlotSent
<1>7. SlotIds(p)'
  BY <1>4, <1>5, <1>6 DEF SlotIds
<1> QED
  BY <1>3, <1>7

LEMMA SlotReceivedNext ==
  ASSUME OrderStep, NEW c \in Client, NEW p \in Slot, sock'[p].state = "connected"
  PROVE  AllReached(c, sock[p].last_received)'
<1>1. /\ StreamInv /\ StreamInv' /\ ConfirmInv /\ ConfirmInv' /\ [Next]_vars
      /\ SlotOrder(c, p) /\ p \in Sock /\ c \in Sock
      /\ sock[p] \in SocketType /\ sock[p].last_received \in Nat
      /\ \A j \in DOMAIN sent'[c] : sent'[c][j] \in Nat
  BY Apart, OrderKnown, Numbers, NextNumbers DEF OrderStep, OrderInv
<1>2. ASSUME sock[p].state = "connected"
      PROVE  /\ AllReached(c, sock[p].last_received)
             /\ sock[p].last_received <= sock[c].last_outgoing
             /\ Serves(p, c)
  <2>1. p \notin FreeSlots
    BY <1>1, <1>2 DEF OrderStep, OrderInv
  <2>2. Serves(p, c)
    BY <2>1, UsedSlotServes DEF OrderStep, OrderlyApart, Orderly
  <2> QED
    BY <1>1, <1>2, <2>2 DEF SlotOrder, ConfirmInv, PeerInv
<1>3. PICK R : R = sock[p].last_received
  OBVIOUS
<1>4. sock[p].state = "connected" => AllReached(c, R)'
  BY <1>1, <1>2, <1>3, AllReachedKept
<1>5. ASSUME sock[p].state = "connected", sock'[p].last_received = sock[p].last_received
      PROVE  AllReached(c, sock[p].last_received)'
  BY <1>3, <1>4, <1>5
<1>6. CASE sock'[p] = sock[p]
  BY <1>5, <1>6
<1>7. CASE Rests(sock[p], sock'[p]) \/ Sends(sock[p], sock'[p]) \/ Closes(sock[p], sock'[p])
  BY <1>5, <1>7 DEF Rests, Sends, Closes, Same
<1>8. ASSUME NEW l \in Link, NEW i \in DOMAIN net[l], StepHears(l, i, p)
      PROVE  AllReached(c, sock[p].last_received)'
  <2>1. PICK m : m = net[l][i]
    OBVIOUS
  <2>2. Continues(sock[p], m, sock'[p]) /\ m.id \in Nat
    BY <1>8, <2>1, SlotHearsForms DEF Finishes
  <2>3. CASE sock'[p].last_received = sock[p].last_received
    BY <1>5, <2>2, <2>3 DEF Continues
  <2>4. CASE /\ m.type = "data_transfer" /\ m.id = R + 1
             /\ sock'[p].last_received = m.id
    <3>1. sock[p].last_received < m.id /\ sock[p].state = "connected"
      BY <1>1, <1>3, <2>2, <2>4 DEF Continues
    <3>2. ArrivedUpTo(c, m.id)'
      BY <1>1, <1>2, <1>8, <2>1, <2>4, <3>1, ReceivedArrives
    <3>3. ASSUME NEW j \in DOMAIN sent'[c], sent'[c][j] <= m.id PROVE <<c, j>> \in Reached'
      <4>1. sent'[c][j] = m.id \/ sent'[c][j] <= R
        BY <1>1, <1>3, <2>4, <3>3
      <4> QED
        BY <1>4, <3>1, <3>2, <4>1 DEF AllReached, ArrivedUpTo
    <3> QED
      BY <2>4, <3>3 DEF AllReached
  <2> QED
    BY <1>3, <2>2, <2>3, <2>4 DEF Continues
<1>9. CASE Resubmits(sock'[p])
  <2>1. sock'[p].last_received = 0
    BY <1>9, ResubmitsFields
  <2>2. \A j \in DOMAIN sent'[c] : ~ (sent'[c][j] <= 0)
    <3>1. ClientTaskInv(c)'
      BY <1>1 DEF ConfirmInv
    <3> QED
      BY <3>1 DEF ClientTaskInv
  <2> QED
    BY <2>1, <2>2 DEF AllReached
<1> QED
  BY <1>6, <1>7, <1>8, <1>9, SlotForms

\* What socket p acknowledges after a step.
LEMMA SlotAckGot ==
  ASSUME OrderStep, NEW c \in Client, NEW p \in Slot, NEW a \in Nat, SlotGot(a),
         a = sock'[p].ack_task.id
  PROVE  SlotGot(sock[p].ack_task.id)'
<1>1. SlotGot(a)'
  BY SlotGotKept
<1> QED
  BY <1>1

LEMMA SlotTaskGot ==
  ASSUME OrderStep, NEW c \in Client, NEW p \in Slot, NEW a \in Nat, SlotGot(a),
         a = sock'[p].send_task.ack
  PROVE  SlotGot(sock[p].send_task.ack)'
<1>1. SlotGot(a)'
  BY SlotGotKept
<1> QED
  BY <1>1

LEMMA SlotAcksNext ==
  ASSUME OrderStep, NEW c \in Client, NEW p \in Slot
  PROVE  SlotAcks(p)'
<1> SUFFICES ASSUME p \in m_sockets'
             PROVE  /\ SlotGot(sock[p].ack_task.id)'
                    /\ sock'[p].send_task.has => SlotGot(sock[p].send_task.ack)'
  BY DEF SlotAcks
<1>1. /\ TypeOK /\ SlotAcks(p) /\ p \in Sock /\ sock[p] \in SocketType
      /\ sock[p].ack_task.id \in Nat /\ sock[p].send_task.ack \in Nat
      /\ SlotGot(0) /\ OneClient /\ Known
  BY Apart, OrderKnown, AckNumbers
     DEF OrderStep, OrderInv, SlotOrder, TypeOK, SlotGot, OrderlyApart, Orderly
<1>2. ASSUME p \in m_sockets
      PROVE  /\ SlotGot(sock[p].ack_task.id)
             /\ sock[p].send_task.has => SlotGot(sock[p].send_task.ack)
  BY <1>1, <1>2 DEF SlotAcks
<1>3. CASE p \in m_sockets /\ sock'[p] = sock[p]
  BY <1>1, <1>2, <1>3, SlotAckGot, SlotTaskGot
<1>4. CASE p \in m_sockets /\ Rests(sock[p], sock'[p])
  <2>1. /\ sock'[p].send_task.has = sock[p].send_task.has
        /\ sock'[p].send_task.ack \in {sock[p].send_task.ack, sock[p].ack_task.id}
        /\ sock'[p].ack_task.id = sock[p].ack_task.id
    BY <1>1, <1>4, RestsTask
  <2> QED
    BY <1>1, <1>2, <1>4, <2>1, SlotAckGot, SlotTaskGot
<1>5. CASE p \in m_sockets /\ (Sends(sock[p], sock'[p]) \/ Closes(sock[p], sock'[p]))
  <2>1. sock'[p].send_task.ack = 0
    BY <1>5, CallTasks
  <2>2. sock'[p].ack_task.id = sock[p].ack_task.id
    BY <1>5 DEF Sends, Closes, Same
  <2> QED
    BY <1>1, <1>2, <1>5, <2>1, <2>2, SlotAckGot, SlotTaskGot
<1>6. ASSUME p \in m_sockets, NEW l \in Link, NEW i \in DOMAIN net[l], StepHears(l, i, p)
      PROVE  /\ SlotGot(sock[p].ack_task.id)'
             /\ sock'[p].send_task.has => SlotGot(sock[p].send_task.ack)'
  <2>1. PICK m : m = net[l][i]
    OBVIOUS
  <2>2. /\ m.id \in Nat /\ AllAsked'
        /\ Continues(sock[p], m, sock'[p]) \/ Finishes(sock[p], m, sock'[p])
    BY <1>6, <2>1, SlotHearsForms, OrderKnown
  <2>3. \A x \in Slot : Live(x)' => x = p
    <3>1. m_sockets' = m_sockets
      BY <1>6 DEF StepHears
    <3> QED
      BY <1>1, <1>6, <3>1, RegisteredServes DEF Live
  <2>4. HearsAcked(sock[p], m, sock'[p]) \/ sock'[p].ack_task.id = sock[p].ack_task.id
    BY <2>2 DEF Continues, Finishes
  <2>5. ASSUME sock'[p].ack_task.id = m.id, m.id <= sock'[p].last_received
        PROVE  SlotGot(sock[p].ack_task.id)'
    BY <2>2, <2>3, <2>5 DEF SlotGot
  <2>6. SlotGot(sock[p].ack_task.id)'
    BY <1>1, <1>2, <1>6, <2>4, <2>5, SlotAckGot DEF HearsAcked
  <2>7. \/ ~ sock'[p].send_task.has
        \/ sock'[p].send_task = sock[p].send_task
        \/ sock'[p].send_task.ack = 0
    BY <2>2 DEF Continues, LeftTask, NoSendTask, Finishes
  <2> QED
    BY <1>1, <1>2, <1>6, <2>6, <2>7, SlotTaskGot
<1>7. CASE Resubmits(sock'[p])
  <2>1. sock'[p].send_task.ack = 0 /\ sock'[p].ack_task.id \in RequestIds
    BY <1>7, ResubmitsFields
  <2>2. SlotGot(sock[p].ack_task.id)' /\ SlotGot(sock[p].send_task.ack)'
    BY <2>1 DEF SlotGot
  <2> QED
    BY <2>2
<1>8. p \in m_sockets \/ Resubmits(sock'[p])
  BY Joins
<1> QED
  BY <1>3, <1>4, <1>5, <1>6, <1>7, <1>8, SlotForms

\* The task of the registered socket, when no request is left.
LEMMA SlotTaskForms ==
  ASSUME OrderStep, NEW c \in Client, NEW p \in Slot, AllAsked, Live(p)'
  PROVE  \/ ~ Busy(sock'[p])
         \/ /\ Busy(sock[p])
            /\ sock'[p].send_task.type = sock[p].send_task.type
            /\ sock'[p].send_task.id = sock[p].send_task.id
            /\ sock'[p].send_task.buf = sock[p].send_task.buf
            /\ sock'[p].last_outgoing = sock[p].last_outgoing
         \/ /\ sock'[p].send_task.id = sock[p].last_outgoing + 1
            /\ sock'[p].last_outgoing = sock[p].last_outgoing + 1
<1>1. p \in Sock /\ sock[p] \in SocketType
  BY Apart, OrderKnown DEF TypeOK
<1>2. CASE sock'[p] = sock[p]
  BY <1>2
<1>3. CASE Rests(sock[p], sock'[p])
  BY <1>1, <1>3, RestsTask DEF Busy
<1>4. CASE Sends(sock[p], sock'[p]) /\ sock'[p].last_outgoing = sock[p].last_outgoing + 1
  BY <1>4, CallTasks
<1>5. ~ Closes(sock[p], sock'[p])
  BY DEF Closes, Live
<1>6. ASSUME NEW l \in Link, NEW i \in DOMAIN net[l], StepHears(l, i, p)
      PROVE  \/ ~ Busy(sock'[p])
             \/ /\ sock'[p].send_task = sock[p].send_task
                /\ sock'[p].last_outgoing = sock[p].last_outgoing
  <2>1. PICK m : m = net[l][i]
    OBVIOUS
  <2>2. Continues(sock[p], m, sock'[p])
    BY <1>6, <2>1, SlotHearsForms DEF Finishes, Live
  <2> QED
    BY <2>2 DEF Continues, LeftTask, NoSendTask, Busy
<1>7. ~ Resubmits(sock'[p])
  BY DEF Resubmits
<1> QED
  BY <1>2, <1>3, <1>4, <1>5, <1>6, <1>7, SlotForms DEF Busy

LEMMA SlotTaskNumbered ==
  ASSUME OrderStep, NEW c \in Client, NEW p \in Slot, Live(p)', Busy(sock'[p])
  PROVE  sock'[p].send_task.id = sock'[p].last_outgoing /\ 1 <= sock'[p].last_outgoing
<1>1. /\ StreamInv /\ SlotConnected(c, p) /\ p \in Sock /\ sock[p].last_outgoing \in Nat
      /\ SlotTask(sock'[p])
  BY Apart, OrderKnown, Numbers, SlotTasksNext DEF OrderStep, OrderInv, SlotOrder
<1>2. CASE ~ AllAsked
  <2>1. HasTask(sock'[p], {"connection_submit"}) /\ sock'[p].last_outgoing = 1
    BY <1>2, Early
  <2> QED
    BY <1>1, <2>1 DEF SlotTask
<1>3. CASE AllAsked
  <2>1. Live(p)
    BY <1>3, LiveSlot
  <2>2. Busy(sock[p]) =>
          sock[p].send_task.id = sock[p].last_outgoing /\ 1 <= sock[p].last_outgoing
    BY <1>1, <2>1 DEF SlotConnected
  <2> QED
    BY <1>1, <1>3, <2>2, SlotTaskForms
<1> QED
  BY <1>2, <1>3

LEMMA SlotTaskData ==
  ASSUME OrderStep, NEW c \in Client, NEW p \in Slot, Live(p)',
         HasTask(sock'[p], {"data_transfer"})
  PROVE  DataOf(p, sock[p].send_task)'
<1>1. /\ StreamInv /\ SlotConnected(c, p) /\ p \in Sock /\ sock[p].last_outgoing \in Nat
      /\ sock[p].send_task.id \in Nat
  BY Apart, OrderKnown, Numbers, AckNumbers DEF OrderStep, OrderInv, SlotOrder
<1>2. AllAsked /\ Live(p)
  BY Early, LiveSlot DEF HasTask
<1>3. CASE /\ Busy(sock[p])
           /\ sock'[p].send_task.type = sock[p].send_task.type
           /\ sock'[p].send_task.id = sock[p].send_task.id
           /\ sock'[p].send_task.buf = sock[p].send_task.buf
  <2>1. PICK t : t = sock[p].send_task
    OBVIOUS
  <2>2. DataOf(p, t) /\ t.id = sock[p].last_outgoing
    BY <1>1, <1>2, <1>3, <2>1 DEF SlotConnected, HasTask, Busy
  <2>3. DataOf(p, t)'
    <3>1. t.id \in Nat /\ t.id <= sock[p].last_outgoing
      BY <1>1, <2>1, <2>2
    <3> QED
      BY <2>2, <3>1, DataOfKept
  <2> QED
    BY <1>3, <2>1, <2>3 DEF DataOf
<1>4. CASE /\ sock'[p].send_task.id = sock[p].last_outgoing + 1
           /\ sock'[p].last_outgoing = sock[p].last_outgoing + 1
  <2> SUFFICES ASSUME NEW j \in DOMAIN sent'[p], sent'[p][j] = sock'[p].send_task.id
               PROVE  sock'[p].send_task.buf = <<<<p, j>>>>
    BY DEF DataOf
  <2>1. ~ (sent'[p][j] <= sock[p].last_outgoing)
    BY <1>1, <1>4
  <2>2. CallSend(p) /\ j = Len(sent[p]) + 1
    BY <1>2, <2>1, SlotNumbersNext
  <2> QED
    BY <1>1, <2>2, SendNumbers
<1> QED
  BY <1>2, <1>3, <1>4, SlotTaskForms DEF HasTask, Busy

LEMMA SlotConnectedNext ==
  ASSUME OrderStep, NEW c \in Client, NEW p \in Slot PROVE SlotConnected(c, p)'
<1> SUFFICES ASSUME Live(p)' PROVE SlotConnected(c, p)'
  BY DEF SlotConnected
<1>1. /\ StreamInv /\ TypeOK' /\ p \in Sock
      /\ sock[p].last_outgoing \in Nat /\ sock'[p].last_outgoing \in Nat
      /\ \A j \in DOMAIN sent[p] : sent[p][j] \in Nat
      /\ AllAsked => AllAsked'
  BY Apart, OrderKnown, Numbers, NextNumbers
<1>2. \A x \in Slot \ {p} : sent'[x] = <<>>
  BY Early, LiveSlot, SlotsSent
<1>3. ASSUME NEW j \in DOMAIN sent'[p] PROVE sent'[p][j] <= sock'[p].last_outgoing
  <2>1. AllAsked /\ Live(p) /\ sock[p].last_outgoing <= sock'[p].last_outgoing
    <3>1. \A q : q = <<>> => DOMAIN q = {}
      OBVIOUS
    <3> QED
      BY <1>3, <3>1, Early, LiveSlot
  <2>2. CASE /\ j \in DOMAIN sent[p] /\ sent'[p][j] = sent[p][j]
             /\ sent[p][j] <= sock[p].last_outgoing
    BY <1>1, <2>1, <2>2
  <2>3. CASE CallSend(p) /\ sent'[p][j] = sock[p].last_outgoing + 1
    <3>1. sock'[p].last_outgoing = sock[p].last_outgoing + 1
      BY <1>1, <2>3, SendNumbers
    <3> QED
      BY <1>1, <2>3, <3>1
  <2> QED
    BY <2>1, <2>2, <2>3, SlotNumbersNext
<1>4. ~ AllAsked' => HasTask(sock'[p], {"connection_submit"}) /\ sock'[p].last_outgoing = 1
  BY <1>1, Early
<1> QED
  BY <1>2, <1>3, <1>4, SlotTaskNumbered, SlotTaskData, SlotPeer DEF SlotConnected

LEMMA SlotOrderStep ==
  ASSUME OrderStep, NEW c \in Client, NEW p \in Slot PROVE SlotOrder(c, p)'
<1>1. ~ AllAsked' => sent'[p] = <<>> /\ sock'[p].last_received = 0
  BY Early, OrderKnown
<1> QED
  BY <1>1, SlotTasksNext, SlotNumbersNext, SlotReceivedNext, SlotAcksNext, SlotConnectedNext
     DEF SlotOrder

-----------------------------------------------------------------------------
(* The invariant *)

LEMMA NoClientNoLink == ASSUME OneClient, Client = {} PROVE Link = {}
<1>1. Node = {Server}
  BY DEF Node
<1> QED
  BY <1>1 DEF Link

LEMMA MissedNext ==
  ASSUME OrderStep, NEW s \in Sock PROVE sock'[s].missed = 0
<1>1. sock[s].missed = 0 /\ OneClient /\ "expire" \notin Calls /\ TypeOK /\ [Next]_vars
  BY KnownTypes DEF OrderStep, OrderInv, OrderlyApart, Orderly
<1>2. CASE sock'[s] = sock[s]
  BY <1>1, <1>2
<1>3. CASE s \in Client
  <2>1. CASE \/ Connects(sock[s], sock'[s]) \/ Rests(sock[s], sock'[s])
             \/ Sends(sock[s], sock'[s]) \/ Closes(sock[s], sock'[s])
    BY <1>1, <2>1 DEF Connects, Rests, Sends, Closes, Same
  <2>2. ASSUME NEW l \in Link, NEW i \in DOMAIN net[l], StepHears(l, i, s)
        PROVE  sock'[s].missed = 0
    BY <1>3, <2>2, ClientHearsForms
  <2> QED
    BY <1>2, <1>3, <2>1, <2>2, ClientForms
<1>4. ASSUME NEW c \in Client, s \in Slot PROVE sock'[s].missed = 0
  <2>1. CASE \/ Rests(sock[s], sock'[s]) \/ Sends(sock[s], sock'[s])
             \/ Closes(sock[s], sock'[s])
    BY <1>1, <2>1 DEF Rests, Sends, Closes, Same
  <2>2. ASSUME NEW l \in Link, NEW i \in DOMAIN net[l], StepHears(l, i, s)
        PROVE  sock'[s].missed = 0
    BY <1>4, <2>2, SlotHearsForms
  <2>3. CASE Resubmits(sock'[s])
    BY <2>3, ResubmitsFields
  <2> QED
    BY <1>2, <1>4, <2>1, <2>2, <2>3, SlotForms
<1>5. CASE Client = {}
  <2>1. Link = {}
    BY <1>1, <1>5, NoClientNoLink
  <2>2. \/ sock'[s] = sock[s]
        \/ StepCalls(s)
        \/ \E m \in Message : StepPicks(s, m)
    BY <1>1, <2>1, ChangeForms
  <2> QED
    BY <1>1, <1>2, <2>2
       DEF StepCalls, StepPicks, Connects, Rests, Sends, Closes, Expires, Same
<1> QED
  BY <1>3, <1>4, <1>5, Apart

LEMMA FreeNext ==
  ASSUME OrderStep, NEW p \in Slot, p \in FreeSlots'
  PROVE  sock'[p].state = "not_connected"
<1>1. /\ p \in Sock /\ OneClient /\ TypeOK /\ [Next]_vars
      /\ p \in FreeSlots => p \notin m_sockets /\ sock[p].state = "not_connected"
  BY Apart, KnownTypes
     DEF OrderStep, OrderInv, OrderlyApart, Orderly, StreamInv, IdentityInv, Known
<1>2. ASSUME NEW c \in Client PROVE sock'[p].state = "not_connected"
  BY SlotTasksNext
<1>3. CASE Client = {}
  <2>1. Link = {}
    BY <1>1, <1>3, NoClientNoLink
  <2>2. \/ sock'[p] = sock[p]
        \/ StepCalls(p)
        \/ \E m \in Message : StepPicks(p, m)
    BY <1>1, <2>1, ChangeForms
  <2>3. CASE sock'[p] = sock[p]
    BY <1>1, <2>3 DEF FreeSlots
  <2>4. CASE p \in m_sockets /\ OnlySocket(p)
             /\ sock'[p].local_port = sock[p].local_port
    BY <1>1, <2>4 DEF FreeSlots
  <2> QED
    BY <2>2, <2>3, <2>4
       DEF StepCalls, StepPicks, OnlySocket, Connects, Rests, Sends, Closes, Expires, Same
<1> QED
  BY <1>2, <1>3

LEMMA OrderNext == ASSUME OrderStep PROVE OrderInv'
<1>1. /\ \A s \in Sock : sock'[s].missed = 0
      /\ \A p \in FreeSlots' : sock'[p].state = "not_connected"
  BY MissedNext, FreeNext DEF FreeSlots
<1>2. ASSUME NEW c \in Client
      PROVE  /\ ClientOrder(c)'
             /\ \A p \in Slot : SlotOrder(c, p)'
             /\ \A i \in DOMAIN net'[ToClient(c)] : ToClientOrder(c, net[ToClient(c)][i])'
             /\ \A i \in DOMAIN net'[ToServer(c)] :
                  /\ ToServerOrder(net[ToServer(c)][i])'
                  /\ LateOrder(c, ToServer(c), i)'
  BY <1>2, ClientOrderStep, SlotOrderStep, ToClientMessages, ToServerMessages, LateMessages
<1> QED
  BY <1>1, <1>2 DEF OrderInv

LEMMA OrderInit == ASSUME OrderlyApart, Init PROVE OrderInv
<1> USE Apart
<1>1. ASSUME NEW s \in Sock
      PROVE  sock[s].missed = 0 /\ sock[s].send_task = NoSendTask
  <2>1. PICK a : sock[s] = IF s \in Client
                           THEN NewSocket(Server, ClientPort[s], ListenPort, a)
                           ELSE NewSocket(Server, 0, 0, a)
    BY DEF Init
  <2>2. PICK port, q : sock[s] = NewSocket(Server, port, q, a)
    BY <2>1
  <2> QED
    BY <2>2 DEF NewSocket
<1>2. NoSendTask.has = FALSE /\ NoSendTask.buf = <<>> /\ \A i : i \notin DOMAIN <<>>
  BY DEF NoSendTask
<1>3. ASSUME NEW s \in Sock PROVE sent[s] = <<>> /\ Delivered(s) = <<>>
  <2>1. taken[s] = <<>> /\ sock[s].incoming = <<>> /\ sent[s] = <<>>
    BY <1>3, InitSockets DEF Init
  <2> QED
    BY <2>1, ConcatEmptySeq DEF Delivered
<1>4. \A s \in Sock : \A n : AllReached(s, n)
  BY <1>3, NothingMissing
<1>5. m_sockets = Client /\ \A l \in Link : net[l] = <<>>
  BY DEF Init
<1>6. ASSUME NEW c \in Client
      PROVE  /\ ClientOrder(c)
             /\ \A p \in Slot : SlotOrder(c, p)
             /\ \A i \in DOMAIN net[ToClient(c)] : ToClientOrder(c, net[ToClient(c)][i])
             /\ \A i \in DOMAIN net[ToServer(c)] :
                  ToServerOrder(net[ToServer(c)][i]) /\ LateOrder(c, ToServer(c), i)
  <2>1. sock[c].state = "not_connected" /\ sock[c].last_received = 0
        /\ sock[c].send_task.has = FALSE
    BY InitSockets
  <2>2. ClientOrder(c)
    BY <1>2, <1>3, <2>1
       DEF ClientOrder, ClientAcks, ClientConnected, HasTask, Unanswered, InOrder
  <2>3. ASSUME NEW p \in Slot PROVE SlotOrder(c, p)
    <3>1. /\ sock[p].state = "not_connected" /\ sock[p].last_received = 0
          /\ sock[p].send_task.has = FALSE /\ sock[p].send_task.buf = <<>>
          /\ p \notin m_sockets
      BY <1>1, <1>2, <1>5, InitSockets
    <3>2. SlotTask(sock[p]) /\ SlotAcks(p) /\ SlotConnected(c, p)
      BY <3>1 DEF SlotTask, SlotAcks, SlotConnected, HasTask, Live
    <3>3. SlotIds(p)
      BY <1>2, <1>3 DEF SlotIds
    <3> QED
      BY <1>3, <1>4, <3>1, <3>2, <3>3 DEF SlotOrder
  <2>4. net[ToClient(c)] = <<>> /\ net[ToServer(c)] = <<>>
    BY <1>5, TwoLinks DEF OrderlyApart, Orderly
  <2> QED
    BY <1>2, <2>2, <2>3, <2>4
<1>7. \A p \in FreeSlots : sock[p].state = "not_connected"
  BY InitSockets DEF FreeSlots
<1> QED
  BY <1>1, <1>6, <1>7 DEF OrderInv

LEMMA OneIsFew == ASSUME OneClient PROVE FewClients
<1>1. 1 <= CacheMax /\ 0 <= CacheMax
  BY TransportAssumption
<1>2. CASE Client = {}
  BY <1>1, <1>2, FS_EmptySet DEF FewClients
<1>3. ASSUME NEW c \in Client PROVE FewClients
  <2>1. Client = {c}
    BY DEF OneClient
  <2> QED
    BY <1>1, <2>1, FS_Singleton DEF FewClients
<1> QED
  BY <1>2, <1>3

LEMMA KnownInvariant == ASSUME OrderlyApart PROVE Spec => []Known
<1>1. StreamInv /\ ConnectionInv /\ ConfirmInv /\ CloseInv /\ RequestInv
      /\ OneSocketPerRequest => Known
  BY DEF Known
<1>2. OneClient /\ Orderly
  BY DEF OrderlyApart, Orderly
<1>3. (Spec => []CloseInv) /\ (Spec => []RequestInv) /\ (Spec => []OneSocketPerRequest)
  BY <1>2, OneIsFew, CloseInvariant, RequestInvariant, RequestHasOneSocket
<1> QED
  BY <1>1, <1>3, StreamInvariant, ConnectionInvariant, ConfirmInvariant, PTL

\* With one client and links that keep the order, each end has got what the other has
\* had acknowledged, and gets every payload in turn.
THEOREM OrderInvariant == ASSUME OrderlyApart PROVE Spec => []OrderInv
<1>1. Known /\ Known' /\ OrderInv /\ [Next]_vars => OrderInv'
  BY OrderNext DEF OrderStep
<1>2. Init => OrderInv
  BY OrderInit
<1> QED
  BY <1>1, <1>2, KnownInvariant, PTL DEF Spec

-----------------------------------------------------------------------------
(* What the order is good for *)

LEMMA ServedClient ==
  ASSUME RequestInv, NEW p \in Slot, p \notin FreeSlots
  PROVE  \E c \in Client : Serves(p, c) /\ Asked(c)
  BY DEF RequestInv, RequestsOf

\* The other end of a slot is the client, and the other end of the client is a slot.
LEMMA ReachedByPeers ==
  ASSUME OrderlyApart, Known, OrderInv, NEW s \in Sock, sock[s].state = "connected",
         NEW p \in Peers(s)
  PROVE  AllReached(p, sock[s].last_received)
<1>1. OneClient /\ IdentityInv /\ RequestInv /\ p \in Sock
  BY DEF OrderlyApart, Orderly, Known, StreamInv, Peers
<1>2. CASE s \in Client
  <2>1. ClientNode[p] # Server \/ p \notin Client
    BY TransportAssumption
  <2>2. p \in Slot
    BY <1>1, <1>2, <2>1, Apart DEF Peers, Address, IdentityInv
  <2> QED
    BY <1>2, <2>2 DEF OrderInv, ClientOrder, ClientConnected
<1>3. CASE s \in Slot
  <2>1. s \notin FreeSlots
    BY <1>3 DEF OrderInv
  <2>2. PICK c \in Client : Serves(s, c)
    BY <1>1, <1>3, <2>1, ServedClient
  <2>3. sock[s].remote_address = ClientNode[c] /\ ClientNode[c] # Server
    BY <2>2, TransportAssumption DEF Serves
  <2>4. p \in Client
    BY <2>3 DEF Peers, Address
  <2> QED
    BY <1>1, <1>3, <2>4 DEF OrderInv, SlotOrder, OneClient
<1> QED
  BY <1>2, <1>3, Apart

\* With one client and links that keep the order, nothing is missed: m_missed stays 0,
\* and of what the peer has sent so far, everything up to the last received has come.
THEOREM NothingMissed == ASSUME OrderlyApart PROVE Spec => []MissedIsLost
<1>1. Known /\ OrderInv => MissedIsLost
  <2> SUFFICES ASSUME Known, OrderInv, NEW s \in Sock, sock[s].state = "connected",
                      NEW p \in Peers(s)
               PROVE  sock[s].missed =
                        Cardinality({n \in DOMAIN sent[p] :
                                       /\ sent[p][n] <= sock[s].last_received
                                       /\ <<p, n>> \notin Reached})
    BY DEF MissedIsLost
  <2>1. {n \in DOMAIN sent[p] : /\ sent[p][n] <= sock[s].last_received
                                /\ <<p, n>> \notin Reached} = {}
    BY ReachedByPeers DEF AllReached
  <2>2. sock[s].missed = 0
    BY DEF OrderInv
  <2> QED
    BY <2>1, <2>2, FS_EmptySet
<1> QED
  BY <1>1, KnownInvariant, OrderInvariant, PTL

\* What acknowledges the data of the acceptor's socket comes from a client that got it.
LEMMA SlotConfirmed ==
  ASSUME OrderlyApart, Known, OrderInv, NEW p \in Slot, NEW l \in Link, NEW i \in DOMAIN net[l],
         Recipient(l, net[l][i], p), AckMatches(sock[p], net[l][i]),
         NEW n, sock[p].send_task.buf = <<<<p, n>>>>
  PROVE  <<p, n>> \in Reached
<1>1. PICK m : m = net[l][i]
  OBVIOUS
<1>2. /\ p \in Sock /\ OneClient /\ StreamInv /\ RequestInv /\ p \in m_sockets
      /\ p \notin FreeSlots
  BY Apart DEF OrderlyApart, Orderly, Known, StreamInv, IdentityInv, Recipient
<1>3. PICK c \in Client : Serves(p, c)
  BY <1>2, ServedClient
<1>4. l = ToServer(c) /\ m.type # "connection_request"
  <2>1. l[2] = Server /\ m.type # "connection_request"
    BY <1>1, Apart DEF Recipient, Address
  <2> QED
    BY <1>2, <2>1, TwoLinks
<1>5. Live(p)
  <2>1. <<<<p, n>>>> # <<>>
    OBVIOUS
  <2> QED
    BY <1>2, <1>3, <2>1 DEF OrderInv, SlotOrder, SlotTask, Live
<1>6. m.type # "connection_close_submit"
  BY <1>1, <1>5 DEF Recipient, ForCloseSubmit, Live
<1>7. ClientGot(c, m.ack)
  <2>1. LateOrder(c, l, i)
    BY <1>3, <1>4 DEF OrderInv
  <2>2. AfterRequest(l, i)
    BY <1>2 DEF AfterRequest, UsedSlots
  <2> QED
    BY <1>1, <1>4, <1>6, <2>1, <2>2 DEF LateOrder
<1>8. n \in DOMAIN sent[p] /\ sent[p][n] = m.ack
  <2>1. TaskNumbered(p) /\ 1 \in DOMAIN sock[p].send_task.buf
        /\ sock[p].send_task.buf[1] = <<p, n>>
    BY <1>2 DEF StreamInv, TasksNumbered
  <2> QED
    BY <1>1, <2>1 DEF TaskNumbered, Numbered, AckMatches
<1>9. sent[p][n] <= m.ack
  BY <1>2, <1>8, Numbers
<1> QED
  BY <1>5, <1>7, <1>8, <1>9 DEF ClientGot, AllReached

\* What a step confirms has been confirmed or has arrived before the step.
LEMMA ConfirmsReached ==
  ASSUME OrderlyApart, Known, OrderInv, [Next]_vars
  PROVE  confirmed' \subseteq confirmed \cup Reached
<1>1. StreamInv /\ ConfirmInv /\ NumberedApart = Client
  BY DEF Known, OrderlyApart
<1>2. ASSUME NEW l \in Link, NEW i \in DOMAIN net[l], NEW s \in Sock,
             StreamHears(l, net[l][i], s)
      PROVE  confirmed' \subseteq confirmed \cup Reached
  <2>1. CASE ~ AckMatches(sock[s], net[l][i])
    BY <1>2, <2>1 DEF StreamHears
  <2>2. CASE AckMatches(sock[s], net[l][i])
    <3>1. /\ confirmed' = confirmed \cup BufferItems(sock[s].send_task.buf)
          /\ Recipient(l, net[l][i], s)
      BY <1>2, <2>2 DEF StreamHears
    <3>2. CASE sock[s].send_task.buf = <<>>
      BY <3>1, <3>2 DEF BufferItems
    <3>3. CASE sock[s].send_task.buf # <<>>
      <4>1. sock[s].send_task.buf \in Buffer
        BY <1>1 DEF StreamInv, TypeOK, SocketType, SendTask
      <4>2. PICK q \in Payload : sock[s].send_task.buf = <<q>>
        BY <3>3, <4>1, SingleBuffer
      <4>3. q = <<s, q[2]>>
        <5>1. TaskNumbered(s) /\ 1 \in DOMAIN sock[s].send_task.buf
              /\ sock[s].send_task.buf[1] = q
          BY <1>1, <4>2 DEF StreamInv, TasksNumbered
        <5> QED
          BY <5>1 DEF TaskNumbered, Payload
      <4>4. sock[s].send_task.buf = <<<<s, q[2]>>>>
        BY <4>2, <4>3
      <4>5. <<s, q[2]>> \in Reached
        BY <1>1, <2>2, <3>1, <4>4, ConfirmedArrived, SlotConfirmed, Apart
      <4>6. BufferItems(sock[s].send_task.buf) = {q}
        BY <4>2 DEF BufferItems
      <4> QED
        BY <3>1, <4>3, <4>5, <4>6
    <3> QED
      BY <3>2, <3>3
  <2> QED
    BY <2>1, <2>2
<1> QED
  BY <1>1, <1>2, StreamForms DEF StreamStays, StreamSends

\* Then what is confirmed to either end has reached the other, or found its queue full.
THEOREM ConfirmedHasArrived == ASSUME OrderlyApart PROVE Spec => []ConfirmedReached
<1>1. Init => ConfirmedReached
  BY DEF Init, ConfirmedReached
<1>2. Known /\ Known' /\ OrderInv /\ ConfirmedReached /\ [Next]_vars => ConfirmedReached'
  <2> SUFFICES ASSUME Known, OrderInv, ConfirmedReached, [Next]_vars
               PROVE  ConfirmedReached'
    OBVIOUS
  <2>1. confirmed' \subseteq confirmed \cup Reached
    BY ConfirmsReached
  <2>2. Reached \subseteq Reached'
    BY ReachedStep DEF Known
  <2> QED
    BY <2>1, <2>2 DEF ConfirmedReached
<1> QED
  BY <1>1, <1>2, KnownInvariant, OrderInvariant, PTL DEF Spec

LEMMA AllArrivedIsReached == FifoStream!Arrived = Reached
<1>1. \A s \in Sock : {Received[s][i] : i \in DOMAIN Received[s]} = DeliveredItems(s)
  BY DEF Received, DeliveredItems, BufferItems
<1> QED
  BY <1>1 DEF FifoStream!Arrived, Reached, Received

\* A step of the streams that keeps the order and confirms what has arrived.
LEMMA DeliversInOrder ==
  ASSUME StreamInv, NEW r \in Sock, NEW x \in Sock, NEW n \in 1 .. Offered[x],
         AnyStream!Deliver(r, x, n), InOrder(r)'
  PROVE  FifoStream!Deliver(r, x, n)
<1>1. PICK q : q = Delivered(r)
  OBVIOUS
<1>2. q \in Seq(Payload) /\ Received[r] = q
  BY <1>1, DeliveredType DEF StreamInv, Received
<1>3. Delivered(r)' = Append(q, <<x, n>>)
  <2>1. Received' = [Received EXCEPT ![r] = Append(@, <<x, n>>)]
    BY DEF AnyStream!Deliver, Received
  <2> QED
    BY <1>1, <2>1 DEF Received
<1>4. ASSUME NEW i \in DOMAIN q PROVE q[i][1] = x /\ q[i][2] < n
  <2>1. /\ i \in DOMAIN Append(q, <<x, n>>) /\ Append(q, <<x, n>>)[i] = q[i]
        /\ Len(q) + 1 \in DOMAIN Append(q, <<x, n>>)
        /\ Append(q, <<x, n>>)[Len(q) + 1] = <<x, n>>
        /\ i < Len(q) + 1
    BY <1>2
  <2> HIDE DEF Append
  <2> QED
    BY <1>3, <2>1 DEF InOrder
<1>5. AnyStream!IsNext(r, x, n)
  BY DEF AnyStream!Deliver
<1>6. FifoStream!IsNext(r, x, n)
  BY <1>1, <1>2, <1>4, <1>5 DEF AnyStream!IsNext, FifoStream!IsNext, Received
<1> QED
  BY <1>6 DEF AnyStream!Deliver, FifoStream!Deliver

LEMMA NextFifoStream ==
  ASSUME OrderlyApart, Known, Known', OrderInv, OrderInv', ConfirmedReached, [Next]_vars
  PROVE  [FifoStream!Next]_FifoStream!vars
<1>1. StreamInv /\ StreamInv' /\ ConfirmInv
  BY DEF Known
<1>2. [AnyStream!Next]_AnyStream!vars
  BY <1>1, NextAnyStream
<1>3. \A r \in Sock : InOrder(r)'
  <2>1. \A r \in Client : InOrder(r)'
    BY DEF OrderInv, ClientOrder
  <2>2. \A r \in Slot : InOrder(r)'
    BY <1>1 DEF StreamInv, AcceptorStreamsInOrder
  <2> QED
    BY <2>1, <2>2, Apart
<1>4. ASSUME NEW x \in Sock, NEW n, AnyStream!Confirm(x, n)
      PROVE  FifoStream!Confirm(x, n)
  <2>1. confirmed' = confirmed \cup {<<x, n>>} /\ confirmed' \subseteq Reached
    BY <1>4, ConfirmsReached DEF AnyStream!Confirm, ConfirmedReached
  <2>2. <<x, n>> \in FifoStream!Arrived
    BY <2>1, AllArrivedIsReached
  <2> QED
    BY <2>1, <2>2 DEF FifoStream!Confirm
<1>5. CASE UNCHANGED AnyStream!vars
  BY <1>5 DEF AnyStream!vars, FifoStream!vars
<1>6. ASSUME NEW s \in Sock, AnyStream!Offer(s) PROVE FifoStream!Next
  <2>1. FifoStream!Offer(s)
    BY <1>6 DEF AnyStream!Offer, FifoStream!Offer
  <2> QED
    BY <2>1 DEF FifoStream!Next
<1>7. CASE AnyStream!Arrive
  <2>1. ASSUME NEW r \in Sock, NEW x \in Sock, NEW n \in 1 .. Offered[x],
               AnyStream!Deliver(r, x, n)
        PROVE  FifoStream!Deliver(r, x, n)
    BY <1>1, <1>3, <2>1, DeliversInOrder
  <2>2. ASSUME NEW x \in Sock, NEW n \in 1 .. Offered[x], AnyStream!Refuse(x, n)
        PROVE  FifoStream!Refuse(x, n)
    BY <2>2 DEF AnyStream!Refuse, FifoStream!Refuse
  <2>3. AnyStream!Nothing => FifoStream!Nothing
    BY DEF AnyStream!Nothing, FifoStream!Nothing
  <2> QED
    BY <1>4, <1>7, <2>1, <2>2, <2>3
       DEF AnyStream!Arrive, FifoStream!Arrive, FifoStream!Next, Offered
<1> QED
  BY <1>2, <1>5, <1>6, <1>7 DEF AnyStream!Next

\* With one client and links that keep the order, the sockets implement streams that
\* are ordered at both ends, with confirmations both ends can rely upon.
THEOREM FifoStreamImplemented == ASSUME OrderlyApart PROVE Spec => ImplementsFifoStream
<1>1. Init => FifoStream!Init
  BY InitAnyStream DEF AnyStream!Init, FifoStream!Init
<1>2. /\ Known /\ Known' /\ OrderInv /\ OrderInv' /\ ConfirmedReached /\ [Next]_vars
      => [FifoStream!Next]_FifoStream!vars
  BY NextFifoStream
<1> QED
  BY <1>1, <1>2, KnownInvariant, OrderInvariant, ConfirmedHasArrived, PTL
     DEF Spec, ImplementsFifoStream, FifoStream!Spec
=============================================================================
