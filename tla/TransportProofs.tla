--------------------------- MODULE TransportProofs ---------------------------
(***************************************************************************)
(* Type correctness of the transport layers, and their connections: whom a *)
(* client believes to be connected to, how many sockets a request makes,   *)
(* what the client counts as unconfirmed, and what a close waits for.      *)
(***************************************************************************)
EXTENDS TransportInv, CachingMapProofs

-----------------------------------------------------------------------------
(* The operators of Socket *)

LEMMA WrapType == \A n \in Int : Wrap(n) \in Id
  BY SocketAssumption, SMT DEF Wrap, Id

LEMMA WrapIds ==
  \A n \in Id : n \in Nat /\ Wrap(n + 1) \in Id /\ Wrap(n + IdMod - 1) \in Id
<1>1. IdMod \in Nat /\ \A n \in Id : n \in Nat
  BY SocketAssumption DEF Id
<1>2. \A n \in Id : n + 1 \in Int /\ n + IdMod - 1 \in Int
  BY <1>1
<1> QED
  BY <1>1, <1>2, WrapType

LEMMA ZeroOne == 0 \in Id /\ 1 \in Id
  BY SocketAssumption DEF Id

LEMMA EmptyBuffer == <<>> \in Buffer
  BY DEF Buffer

LEMMA PortZero == 0 \in Port
  BY DEF Port

LEMMA PrepareAckType ==
  ASSUME NEW s \in SocketType, NEW id \in Id
  PROVE  PrepareAck(s, id) \in SocketType
  BY DEF PrepareAck, SocketType, AckTask

LEMMA CreateSendTaskType ==
  ASSUME NEW s \in SocketType, NEW ack \in Id, NEW type \in MessageType,
         NEW buf \in Buffer, NEW random \in Id
  PROVE  CreateSendTask(s, ack, type, buf, random) \in SocketType
<1> DEFINE id == IF type = "connection_request" THEN random ELSE Wrap(s.last_outgoing + 1)
<1>1. id \in Id /\ Wrap(s.unconfirmed + 1) \in Id
  BY WrapIds DEF SocketType
<1>2. [has |-> TRUE, type |-> type, id |-> id, ack |-> ack,
       dport |-> s.remote_port, buf |-> buf] \in SendTask
  BY <1>1 DEF SendTask, SocketType
<1> QED
  BY <1>1, <1>2 DEF CreateSendTask, SocketType

LEMMA NoSendTaskType == NoSendTask \in SendTask
  BY ZeroOne, EmptyBuffer, PortZero DEF NoSendTask, SendTask, MessageType

LEMMA AcknowledgeType ==
  ASSUME NEW s \in SocketType, NEW h \in Message
  PROVE  Acknowledge(s, h) \in SocketType
<1>1. Wrap(s.unconfirmed + IdMod - 1) \in Id
  BY WrapIds DEF SocketType
<1> QED
  BY <1>1, NoSendTaskType DEF Acknowledge, SocketType

LEMMA ReceiveDataType ==
  ASSUME NEW s \in SocketType, NEW h \in Message
  PROVE  ReceiveData(s, h) \in SocketType
<1> DEFINE pushed == IF h.buf = <<>> THEN s
                     ELSE [PrepareAck(s, h.id) EXCEPT
                             !.incoming = IF Len(@) < QueueMax THEN @ \o h.buf ELSE @]
<1>1. h.id \in Id /\ h.buf \in Seq(Payload)
  BY DEF Message, Buffer
<1>2. PrepareAck(s, h.id) \in SocketType
  BY <1>1, PrepareAckType
<1>3. \A q \in Seq(Payload) : q \o h.buf \in Seq(Payload)
  BY <1>1
<1>4. pushed \in SocketType
  BY <1>2, <1>3 DEF SocketType
<1> HIDE DEF pushed
<1>5. Wrap(pushed.missed + h.id - (s.last_received + 1)) \in Id
  <2>1. pushed.missed \in Nat /\ h.id \in Nat /\ s.last_received \in Nat
    BY <1>1, <1>4, WrapIds DEF SocketType
  <2> QED
    BY <2>1, WrapType
<1>6. [pushed EXCEPT !.missed = Wrap(@ + h.id - (s.last_received + 1)),
                     !.last_received = h.id] \in SocketType
  BY <1>1, <1>4, <1>5 DEF SocketType
<1> QED
  BY <1>6 DEF ReceiveData, pushed

LEMMA ReceiveType ==
  ASSUME NEW s \in SocketType, NEW h \in Message
  PROVE  Receive(s, h) \in SocketType
<1> DEFINE a == Acknowledge(s, h)
<1>1. a \in SocketType
  BY AcknowledgeType
<1>2. h.id \in Id /\ h.sport \in Port /\ h.type \in MessageType
  BY DEF Message
<1>3. PrepareAck(a, h.id) \in SocketType
  BY <1>1, <1>2, PrepareAckType
<1> HIDE DEF a
<1>4. ReceiveWhenClosed(a, h) \in SocketType
  <2>1. Wrap(a.unconfirmed + IdMod - 1) \in Id
    BY <1>1, WrapIds DEF SocketType
  <2>2. a.send_task.id \in Id
    BY <1>1 DEF SocketType, SendTask
  <2>3. CreateSendTask(a, a.send_task.id, "connection_close_submit", <<>>, 0) \in SocketType
    BY <1>1, <2>2, CreateSendTaskType, EmptyBuffer, ZeroOne DEF MessageType
  <2>4. [a EXCEPT !.send_task = NoSendTask, !.ack_task.has = FALSE,
                  !.unconfirmed = Wrap(@ + IdMod - 1)] \in SocketType
    BY <1>1, <2>1, NoSendTaskType DEF SocketType, AckTask
  <2> QED
    BY <2>3, <2>4 DEF ReceiveWhenClosed
<1>5. ReceiveSubmit(a, h) \in SocketType
  BY <1>1, <1>2, <1>3, NoSendTaskType DEF ReceiveSubmit, SocketType, State
<1>6. ReceiveClose(a, h) \in SocketType
  <2>1. [a EXCEPT !.state = "closed"] \in SocketType
    BY <1>1 DEF SocketType, State
  <2>2. CreateSendTask([a EXCEPT !.state = "closed"], 0,
                       "connection_close_submit", <<>>, 0) \in SocketType
    BY <2>1, CreateSendTaskType, EmptyBuffer, ZeroOne DEF MessageType
  <2> QED
    BY <1>2, <2>2 DEF ReceiveClose, SocketType
<1>7. ReceiveData(a, h) \in SocketType
  BY <1>1, ReceiveDataType
<1>8. ReceiveNew(a, h) \in SocketType
  BY <1>4, <1>5, <1>6, <1>7 DEF ReceiveNew
<1> QED
  BY <1>3, <1>8 DEF Receive, a

LEMMA ConnectType ==
  ASSUME NEW s \in SocketType, NEW random \in Id
  PROVE  Connect(s, random) \in SocketType
<1>1. [s EXCEPT !.last_outgoing = 0] \in SocketType
  BY ZeroOne DEF SocketType
<1>2. CreateSendTask([s EXCEPT !.last_outgoing = 0], 0, "connection_request",
                     <<>>, random) \in SocketType
  BY <1>1, CreateSendTaskType, EmptyBuffer, ZeroOne DEF MessageType
<1> QED
  BY <1>2 DEF Connect, SocketType, State

LEMMA SendType ==
  ASSUME NEW s \in SocketType, NEW buf \in Buffer
  PROVE  Send(s, buf) \in SocketType
  BY CreateSendTaskType, ZeroOne DEF Send, MessageType

LEMMA CloseType ==
  ASSUME NEW s \in SocketType
  PROVE  Close(s) \in SocketType
<1>1. CreateSendTask(s, 0, "connection_close", <<>>, 0) \in SocketType
  BY CreateSendTaskType, EmptyBuffer, ZeroOne DEF MessageType
<1> QED
  BY <1>1 DEF Close, SocketType, State

LEMMA SendConnectionSubmitType ==
  ASSUME NEW s \in SocketType, NEW id \in Id
  PROVE  SendConnectionSubmit(s, id) \in SocketType
<1> DEFINE p == [PrepareAck(s, id) EXCEPT !.last_outgoing = 0]
<1>1. p \in SocketType
  BY PrepareAckType, ZeroOne DEF SocketType
<1>2. CreateSendTask(p, 0, "connection_submit", <<>>, 0) \in SocketType
  BY <1>1, CreateSendTaskType, EmptyBuffer, ZeroOne DEF MessageType
<1> QED
  BY <1>2 DEF SendConnectionSubmit, SocketType, State

LEMMA DropIfTimeoutType ==
  ASSUME NEW s \in SocketType, NEW expired \in BOOLEAN
  PROVE  DropIfTimeout(s, expired) \in SocketType
  BY NoSendTaskType DEF DropIfTimeout, SocketType, State

LEMMA TransmittedType ==
  ASSUME NEW s \in SocketType
  PROVE  Transmitted(s) \in SocketType /\ TaskHeader(s) \in Message
<1>1. s.send_task \in SendTask /\ s.ack_task \in AckTask /\ s.local_port \in Port
  BY DEF SocketType
<1>2. TaskHeader(s) \in Message
  BY <1>1 DEF TaskHeader, Message, SendTask
<1>3. [s.send_task EXCEPT !.ack = IF s.ack_task.has THEN s.ack_task.id ELSE @] \in SendTask
  BY <1>1 DEF SendTask, AckTask
<1>4. [s.ack_task EXCEPT !.sent = s.ack_task.has \/ @] \in AckTask
  BY <1>1 DEF AckTask
<1>5. Transmitted(s) \in SocketType
  BY <1>3, <1>4 DEF Transmitted, SocketType
<1> QED
  BY <1>2, <1>5

LEMMA ForceAckType ==
  ASSUME NEW s \in SocketType
  PROVE  [s EXCEPT !.ack_task.sent = TRUE] \in SocketType /\ ForceAckHeader(s) \in Message
<1>1. s.ack_task \in AckTask /\ s.local_port \in Port /\ s.remote_port \in Port
  BY DEF SocketType
<1>2. ForceAckHeader(s) \in Message
  BY <1>1, ZeroOne, EmptyBuffer DEF ForceAckHeader, Message, MessageType, AckTask
<1>3. [s.ack_task EXCEPT !.sent = TRUE] \in AckTask
  BY <1>1 DEF AckTask
<1> QED
  BY <1>2, <1>3 DEF SocketType

LEMMA NewSocketType ==
  ASSUME NEW remote \in Node, NEW lport \in Port, NEW rport \in Port,
         NEW storage \in AckTask
  PROVE  NewSocket(remote, lport, rport, storage) \in SocketType
  BY ZeroOne, NoSendTaskType DEF NewSocket, SocketType, State

-----------------------------------------------------------------------------
(* The network *)

LEMMA TakeType ==
  ASSUME net \in [Link -> Seq(Message)], NEW l \in Link, NEW i, i \in Arriving(l), Take(l, i)
  PROVE  net' \in [Link -> Seq(Message)] /\ net[l][i] \in Message /\ i \in DOMAIN net[l]
<1>1. i \in DOMAIN net[l] /\ net[l] \in Seq(Message)
  BY DEF Arriving
<1>2. WithoutPlace(net[l], i) \in Seq(Message) /\ net[l][i] \in Message
  BY <1>1, WithoutPlaceProperties
<1> QED
  BY <1>1, <1>2 DEF Take

LEMMA PutType ==
  ASSUME net \in [Link -> Seq(Message)], NEW l, NEW m \in Message, Put(l, m)
  PROVE  net' \in [Link -> Seq(Message)]
<1>1. CASE l \notin Link
  BY <1>1 DEF Put
<1>2. CASE l \in Link
  <2>1. Append(net[l], m) \in Seq(Message)
    BY <1>2, AppendProperties
  <2> QED
    BY <1>2, <2>1 DEF Put
<1> QED
  BY <1>1, <1>2

LEMMA BufferItemsType ==
  ASSUME NEW buf \in Buffer
  PROVE  BufferItems(buf) \subseteq Payload
<1>1. \A k \in DOMAIN buf : buf[k] \in Payload
  BY DEF Buffer
<1> QED
  BY <1>1 DEF BufferItems

-----------------------------------------------------------------------------
(* Type correctness *)

LEMMA InitType == Init => TypeOK
<1> SUFFICES ASSUME Init PROVE TypeOK
  OBVIOUS
<1>1. /\ Server \in Node /\ ListenPort \in Port
      /\ \A c \in Client : ClientPort[c] \in Port
  BY DEF Node, Port
<1>2. \A a \in StaleAcks : a \in AckTask
  <2>1. \A id \in Id, flag \in BOOLEAN : NoAckTask(id, flag) \in AckTask
    BY DEF NoAckTask, AckTask
  <2> QED
    BY <2>1, TransportAssumption
<1>3. NoAckTask(0, FALSE) \in AckTask
  BY ZeroOne DEF NoAckTask, AckTask
<1>4. sock \in [Sock -> SocketType]
  <2>1. PICK storage \in [Client -> Garbage] :
          sock = [s \in Sock |->
                    IF s \in Client
                    THEN NewSocket(Server, ClientPort[s], ListenPort, storage[s])
                    ELSE NewSocket(Server, 0, 0, NoAckTask(0, FALSE))]
    BY DEF Init
  <2>2. \A c \in Client : storage[c] \in AckTask
    BY <1>2, TransportAssumption
  <2>3. \A c \in Client :
          NewSocket(Server, ClientPort[c], ListenPort, storage[c]) \in SocketType
    BY <1>1, <2>2, NewSocketType
  <2>4. NewSocket(Server, 0, 0, NoAckTask(0, FALSE)) \in SocketType
    BY <1>1, <1>3, PortZero, NewSocketType
  <2> QED
    BY <2>1, <2>3, <2>4
<1>5. IsCache(cache, Id, Slot)
  <2>1. cache = [list |-> <<>>, map |-> <<>>]
    BY DEF Init, EmptyCache
  <2>2. cache.list = <<>> /\ cache.map = <<>> /\ DOMAIN cache.map = {}
    BY <2>1
  <2>3. cache = [list |-> cache.list, map |-> cache.map]
    BY <2>1
  <2>4. cache.list \in Seq(Id)
    BY <2>2
  <2> QED
    BY <2>2, <2>3, <2>4, Zenon DEF IsCache, Cached
<1>6. net \in [Link -> Seq(Message)] /\ m_sockets \subseteq Sock
  BY DEF Init, Sock
<1>7. sent \in [Sock -> Seq(Id)] /\ taken \in [Sock -> Seq(Payload)]
  BY DEF Init
<1>8. confirmed \subseteq Payload /\ overflowed \subseteq Payload /\ faults \in Nat
  BY DEF Init
<1> QED
  BY <1>4, <1>5, <1>6, <1>7, <1>8 DEF TypeOK

LEMMA BuffersType ==
  /\ \A s \in Sock, n \in Nat \ {0} : <<<<s, n>>>> \in Buffer
  /\ \A c \in Client : c \in Sock
  /\ \A s \in Slot : s \in Sock
<1>1. \A s \in Sock, n \in Nat \ {0} : <<s, n>> \in Payload
  BY DEF Payload
<1>2. \A p \in Payload : <<p>> \in Seq(Payload) /\ Len(<<p>>) = 1
  OBVIOUS
<1> QED
  BY <1>1, <1>2 DEF Buffer, Sock

LEMMA ReceiveMessageType ==
  ASSUME TypeOK, NEW l \in Link, NEW i, NEW s \in Sock, ReceiveMessage(l, i, s)
  PROVE  TypeOK'
<1> USE DEF TypeOK
<1> DEFINE m == net[l][i]
<1>1. m \in Message /\ net' \in [Link -> Seq(Message)]
  BY TakeType DEF ReceiveMessage
<1>2. sock[s] \in SocketType /\ sock[s].send_task.buf \in Buffer /\ m.buf \in Buffer
  BY <1>1 DEF SocketType, SendTask, Message
<1>3. Receive(sock[s], m) \in SocketType
  BY <1>1, <1>2, ReceiveType
<1>4. sock' \in [Sock -> SocketType]
  BY <1>3 DEF ReceiveMessage
<1>5. /\ BufferItems(sock[s].send_task.buf) \subseteq Payload
      /\ BufferItems(m.buf) \subseteq Payload
  BY <1>2, BufferItemsType
<1>6. confirmed' \subseteq Payload /\ overflowed' \subseteq Payload
  BY <1>5 DEF ReceiveMessage
<1>7. UNCHANGED <<m_sockets, cache, sent, taken, faults>>
  BY DEF ReceiveMessage
<1> QED
  BY <1>1, <1>4, <1>6, <1>7

LEMMA AcceptAgainType ==
  ASSUME TypeOK, NEW l \in Link, NEW i, AcceptAgain(l, i)
  PROVE  TypeOK'
<1> USE DEF TypeOK
<1> DEFINE r == net[l][i].id
           s == cache.map[r]
<1>1. net[l][i] \in Message /\ net' \in [Link -> Seq(Message)]
  BY TakeType DEF AcceptAgain
<1>2. r \in Id /\ s \in Sock
  BY <1>1, BuffersType DEF Message, AcceptAgain, IsCache
<1>3. SendConnectionSubmit(sock[s], r) \in SocketType
  BY <1>2, SendConnectionSubmitType
<1>4. sock' \in [Sock -> SocketType]
  BY <1>3 DEF AcceptAgain
<1>5. IsCache(cache', Id, Slot)
  BY GetUpdateIsCache DEF AcceptAgain
<1>6. UNCHANGED <<m_sockets, sent, taken, confirmed, overflowed, faults>>
  BY DEF AcceptAgain, histories
<1> QED
  BY <1>1, <1>4, <1>5, <1>6

LEMMA AcceptNewType ==
  ASSUME TypeOK, NEW l \in Link, NEW i, NEW s \in Slot, NEW port \in AcceptPorts,
         AcceptNew(l, i, s, port)
  PROVE  TypeOK'
<1> USE DEF TypeOK
<1> DEFINE m == net[l][i]
           new == NewSocket(l[1], port, m.sport, sock[s].ack_task)
<1>1. m \in Message /\ net' \in [Link -> Seq(Message)]
  BY TakeType DEF AcceptNew
<1>2. s \in Sock /\ sock[s].ack_task \in AckTask
  BY BuffersType DEF SocketType
<1>3. l[1] \in Node /\ port \in Port /\ m.sport \in Port /\ m.id \in Id
  BY <1>1 DEF Link, Port, Message
<1>4. new \in SocketType
  BY <1>2, <1>3, NewSocketType
<1>5. SendConnectionSubmit(new, m.id) \in SocketType
  BY <1>3, <1>4, SendConnectionSubmitType
<1>6. sock' \in [Sock -> SocketType]
  BY <1>5 DEF AcceptNew
<1>7. IsCache(cache', Id, Slot)
  <2>1. IsCache(Erase(cache, m.id), Id, Slot)
    BY EraseIsCache
  <2>2. CacheMax \in Nat \ {0}
    BY TransportAssumption
  <2>3. IsCache(PutUpdate(Erase(cache, m.id), m.id, s, CacheMax), Id, Slot)
    BY <1>3, <2>1, <2>2, PutUpdateIsCache
  <2> QED
    BY <2>3 DEF AcceptNew
<1>8. m_sockets' \subseteq Sock
  BY <1>2 DEF AcceptNew
<1>9. UNCHANGED <<sent, taken, confirmed, overflowed, faults>>
  BY DEF AcceptNew, histories
<1> QED
  BY <1>1, <1>6, <1>7, <1>8, <1>9

LEMMA CallSendType ==
  ASSUME TypeOK, NEW s \in Sock, CallSend(s)
  PROVE  TypeOK'
<1> USE DEF TypeOK
<1>1. Len(sent[s]) + 1 \in Nat \ {0}
  <2>1. sent[s] \in Seq(Id)
    OBVIOUS
  <2>2. Len(sent[s]) \in Nat
    BY <2>1, LenProperties
  <2> QED
    BY <2>2
<1>2. Send(sock[s], <<<<s, Len(sent[s]) + 1>>>>) \in SocketType
  BY <1>1, SendType, BuffersType
<1>3. sock' \in [Sock -> SocketType]
  BY <1>2 DEF CallSend
<1>4. Wrap(sock[s].last_outgoing + 1) \in Id
  <2>1. sock[s].last_outgoing \in Id
    BY DEF SocketType
  <2> QED
    BY <2>1, WrapIds
<1>5. Append(sent[s], Wrap(sock[s].last_outgoing + 1)) \in Seq(Id)
  BY <1>4, AppendProperties
<1>6. sent' \in [Sock -> Seq(Id)]
  BY <1>5 DEF CallSend
<1>7. UNCHANGED <<m_sockets, cache, net, taken, confirmed, overflowed, faults>>
  BY DEF CallSend
<1> QED
  BY <1>3, <1>6, <1>7

LEMMA CallGetReceivedType ==
  ASSUME TypeOK, NEW s \in Sock, CallGetReceived(s)
  PROVE  TypeOK'
<1> USE DEF TypeOK
<1>1. sock[s] \in SocketType /\ sock[s].incoming \in Seq(Payload) /\ sock[s].incoming # <<>>
  BY DEF SocketType, CallGetReceived
<1>2. Tail(sock[s].incoming) \in Seq(Payload) /\ Head(sock[s].incoming) \in Payload
  BY <1>1, HeadTailProperties
<1>3. [sock[s] EXCEPT !.incoming = Tail(@)] \in SocketType
  BY <1>1, <1>2 DEF SocketType
<1>4. sock' \in [Sock -> SocketType]
  BY <1>3 DEF CallGetReceived
<1>5. Append(taken[s], Head(sock[s].incoming)) \in Seq(Payload)
  BY <1>2, AppendProperties
<1>6. taken' \in [Sock -> Seq(Payload)]
  BY <1>5 DEF CallGetReceived
<1>7. UNCHANGED <<m_sockets, cache, net, sent, confirmed, overflowed, faults>>
  BY DEF CallGetReceived
<1> QED
  BY <1>4, <1>6, <1>7

LEMMA NextType == TypeOK /\ [Next]_vars => TypeOK'
<1> SUFFICES ASSUME TypeOK, [Next]_vars PROVE TypeOK'
  OBVIOUS
<1>1. ASSUME NEW c \in Client, CallConnect(c) PROVE TypeOK'
  <2>1. \A r \in RequestIds : Connect(sock[c], r) \in SocketType
    BY ConnectType, BuffersType, TransportAssumption DEF TypeOK
  <2>2. sock' \in [Sock -> SocketType]
    BY <1>1, <2>1 DEF CallConnect, TypeOK
  <2> QED
    BY <1>1, <2>2 DEF CallConnect, TypeOK, histories
<1>2. ASSUME NEW s \in Sock, CallSend(s) PROVE TypeOK'
  BY <1>2, CallSendType
<1>3. ASSUME NEW s \in Sock, CallSendEmpty(s) PROVE TypeOK'
  <2>1. Send(sock[s], <<>>) \in SocketType
    BY SendType, EmptyBuffer DEF TypeOK
  <2> QED
    BY <1>3, <2>1 DEF CallSendEmpty, TypeOK, histories
<1>4. ASSUME NEW s \in Sock, CallGetReceived(s) PROVE TypeOK'
  BY <1>4, CallGetReceivedType
<1>5. ASSUME NEW s \in Sock, CallClose(s) PROVE TypeOK'
  <2>1. Close(sock[s]) \in SocketType
    BY CloseType DEF TypeOK
  <2> QED
    BY <1>5, <2>1 DEF CallClose, TypeOK, histories
<1>6. ASSUME NEW s \in Sock, Destroy(s) PROVE TypeOK'
  <2>1. m_sockets' \subseteq Sock
    BY <1>6 DEF Destroy, TypeOK
  <2>2. UNCHANGED <<sock, cache, net, sent, taken, confirmed, overflowed, faults>>
    BY <1>6 DEF Destroy, histories
  <2> QED
    BY <2>1, <2>2 DEF TypeOK
<1>7. ASSUME NEW s \in Sock, Transmit(s) PROVE TypeOK'
  <2>1. Transmitted(sock[s]) \in SocketType /\ TaskHeader(Transmitted(sock[s])) \in Message
    BY TransmittedType DEF TypeOK
  <2>2. net' \in [Link -> Seq(Message)]
    BY <1>7, <2>1, PutType DEF Transmit, TypeOK
  <2> QED
    BY <1>7, <2>1, <2>2 DEF Transmit, TypeOK, histories
<1>8. ASSUME NEW s \in Sock, Expire(s) PROVE TypeOK'
  <2>1. DropIfTimeout(sock[s], TRUE) \in SocketType
    BY DropIfTimeoutType DEF TypeOK
  <2>2. sock' \in [Sock -> SocketType]
    BY <1>8, <2>1 DEF Expire, TypeOK
  <2>3. faults' \in Nat
    BY <1>8 DEF Expire, TypeOK, CountFault
  <2> QED
    BY <1>8, <2>2, <2>3 DEF Expire, TypeOK, histories
<1>9. ASSUME NEW s \in Sock, NEW expired \in BOOLEAN, ForceAck(s, expired) PROVE TypeOK'
  <2> DEFINE t == DropIfTimeout(sock[s], expired)
  <2>1. t \in SocketType
    BY DropIfTimeoutType DEF TypeOK
  <2>2. [t EXCEPT !.ack_task.sent = TRUE] \in SocketType /\ ForceAckHeader(t) \in Message
    BY <2>1, ForceAckType
  <2>3. net' \in [Link -> Seq(Message)]
    BY <1>9, <2>2, PutType DEF ForceAck, TypeOK
  <2>4. sock' \in [Sock -> SocketType]
    BY <1>9, <2>2 DEF ForceAck, TypeOK
  <2>5. faults' \in Nat
    BY <1>9 DEF ForceAck, TypeOK, CountFault
  <2> QED
    BY <1>9, <2>3, <2>4, <2>5 DEF ForceAck, TypeOK, histories
<1>10. ASSUME NEW l \in Link, NEW i, NEW s \in Sock, ReceiveMessage(l, i, s) PROVE TypeOK'
  BY <1>10, ReceiveMessageType
<1>11. ASSUME NEW l \in Link, NEW i, AcceptAgain(l, i) PROVE TypeOK'
  BY <1>11, AcceptAgainType
<1>12. ASSUME NEW l \in Link, NEW i, NEW s \in Slot, NEW port \in AcceptPorts,
              AcceptNew(l, i, s, port)
       PROVE  TypeOK'
  BY <1>12, AcceptNewType
<1>13. ASSUME NEW l \in Link, NEW i, Discard(l, i) PROVE TypeOK'
  <2>1. net' \in [Link -> Seq(Message)]
    BY <1>13, TakeType DEF Discard, TypeOK
  <2> QED
    BY <1>13, <2>1 DEF Discard, TypeOK, histories
<1>14. ASSUME NEW l \in Link, NEW i, Lose(l, i) PROVE TypeOK'
  <2>1. net' \in [Link -> Seq(Message)]
    BY <1>14, TakeType DEF Lose, TypeOK
  <2> QED
    BY <1>14, <2>1 DEF Lose, TypeOK, histories, CountFault
<1>15. CASE UNCHANGED vars
  BY <1>15 DEF vars, TypeOK
<1> QED
  BY <1>1, <1>2, <1>3, <1>4, <1>5, <1>6, <1>7, <1>8, <1>9, <1>10, <1>11, <1>12,
     <1>13, <1>14, <1>15
     DEF Next, Application, ServeOutgoing, ServeIncoming

\* In every reachable state every variable has its type.
THEOREM TypeCorrect == Spec => []TypeOK
  BY InitType, NextType, PTL DEF Spec

-----------------------------------------------------------------------------
(* What each operator of Socket does to each member *)

LEMMA Apart == Client \cap Slot = {} /\ Sock = Client \cup Slot
  BY TransportAssumption DEF Sock

LEMMA CreateSendTaskDoes ==
  ASSUME NEW s \in SocketType, NEW ack, NEW type, NEW buf, NEW random
  PROVE  LET t == CreateSendTask(s, ack, type, buf, random)
             request == type = "connection_request"
             next == Wrap(s.last_outgoing + 1)
         IN  /\ t.remote_address = s.remote_address
             /\ t.local_port = s.local_port
             /\ t.remote_port = s.remote_port
             /\ t.state = s.state
             /\ t.ack_task = s.ack_task
             /\ t.incoming = s.incoming
             /\ t.last_received = s.last_received
             /\ t.missed = s.missed
             /\ t.send_task = [has |-> TRUE, type |-> type,
                               id |-> IF request THEN random ELSE next, ack |-> ack,
                               dport |-> s.remote_port, buf |-> buf]
             /\ t.send_task.buf = buf
             /\ t.send_task.type = type
             /\ t.send_task.id = (IF request THEN random ELSE next)
             /\ t.last_outgoing = (IF request THEN s.last_outgoing ELSE next)
             /\ type # "connection_close_submit" => t.unconfirmed = Wrap(s.unconfirmed + 1)
  BY DEF CreateSendTask, SocketType

LEMMA AcknowledgeDoes ==
  ASSUME NEW s \in SocketType, NEW h
  PROVE  LET t == Acknowledge(s, h)
         IN  /\ t.remote_address = s.remote_address
             /\ t.local_port = s.local_port
             /\ t.remote_port = s.remote_port
             /\ t.state = s.state
             /\ t.ack_task = s.ack_task
             /\ t.incoming = s.incoming
             /\ t.last_received = s.last_received
             /\ t.missed = s.missed
             /\ t.last_outgoing = s.last_outgoing
             /\ t.send_task = s.send_task \/ t.send_task = NoSendTask
             /\ AckMatches(s, h) => /\ t.send_task = NoSendTask
                                    /\ t.unconfirmed = Wrap(s.unconfirmed + IdMod - 1)
             /\ ~ AckMatches(s, h) => t = s
  BY DEF Acknowledge, SocketType

LEMMA PrepareAckDoes ==
  ASSUME NEW s \in SocketType, NEW id
  PROVE  LET t == PrepareAck(s, id)
         IN  /\ t.remote_address = s.remote_address
             /\ t.local_port = s.local_port
             /\ t.remote_port = s.remote_port
             /\ t.state = s.state
             /\ t.ack_task = [has |-> TRUE, id |-> id, sent |-> FALSE]
             /\ t.incoming = s.incoming
             /\ t.last_received = s.last_received
             /\ t.missed = s.missed
             /\ t.last_outgoing = s.last_outgoing
             /\ t.send_task = s.send_task
             /\ t.unconfirmed = s.unconfirmed
  BY DEF PrepareAck, SocketType

-----------------------------------------------------------------------------
(* What a step does to the members of a socket *)

\* The members that calls of the application and pick_outgoing() leave alone.
Same(b, t) ==
    /\ t.remote_address = b.remote_address
    /\ t.local_port = b.local_port
    /\ t.remote_port = b.remote_port
    /\ t.last_received = b.last_received
    /\ t.ack_task.has = b.ack_task.has
    /\ t.ack_task.id = b.ack_task.id
    /\ t.missed = b.missed

\* Nothing but a queue, an acknowledgement in the task or a flag changes.
Rests(b, t) ==
    /\ Same(b, t)
    /\ t.state = b.state
    /\ t.send_task = [b.send_task EXCEPT !.ack = t.send_task.ack]
    /\ t.send_task.ack \in {b.send_task.ack, b.ack_task.id}
    /\ t.last_outgoing = b.last_outgoing
    /\ t.unconfirmed = b.unconfirmed

NewTask(b, t, type, id) ==
    t.send_task = [has |-> TRUE, type |-> type, id |-> id, ack |-> 0,
                   dport |-> b.remote_port, buf |-> t.send_task.buf]

Connects(b, t) ==
    /\ Same(b, t)
    /\ b.state = "not_connected"
    /\ t.state = "waiting_for_submit"
    /\ \E r \in RequestIds : NewTask(b, t, "connection_request", r)
    /\ t.send_task.buf = <<>>
    /\ t.last_outgoing = 0
    /\ t.unconfirmed = Wrap(b.unconfirmed + 1)

Sends(b, t) ==
    /\ Same(b, t)
    /\ b.state = "connected"
    /\ t.state = "connected"
    /\ ~ b.send_task.has
    /\ NewTask(b, t, "data_transfer", Wrap(b.last_outgoing + 1))
    /\ t.last_outgoing = Wrap(b.last_outgoing + 1)
    /\ t.unconfirmed = Wrap(b.unconfirmed + 1)

Closes(b, t) ==
    /\ Same(b, t)
    /\ b.state \in {"connected", "closed"}
    /\ t.state = "closed"
    /\ NewTask(b, t, "connection_close", Wrap(b.last_outgoing + 1))
    /\ t.send_task.buf = <<>>
    /\ t.last_outgoing = Wrap(b.last_outgoing + 1)

Expires(b, t) ==
    /\ "expire" \in Calls
    /\ Same(b, t)
    /\ b.send_task.has
    /\ t.send_task = NoSendTask
    /\ t.state = IF b.send_task.type = "connection_request"
                 THEN "connection_timeout" ELSE b.state
    /\ t.last_outgoing = b.last_outgoing
    /\ t.unconfirmed = b.unconfirmed

\* A socket of the acceptor answers request r, for the first time or again.
Submits(b, t, r) ==
    /\ t.remote_address = b.remote_address
    /\ t.local_port = b.local_port
    /\ t.remote_port = b.remote_port
    /\ t.last_received = b.last_received
    /\ t.ack_task = [has |-> TRUE, id |-> r, sent |-> FALSE]
    /\ t.missed = b.missed
    /\ t.last_outgoing = Wrap(1)
    /\ t.state = "connected"
    /\ NewTask(b, t, "connection_submit", Wrap(1))
    /\ t.send_task.buf = <<>>

LEMMA ConnectDoes ==
  ASSUME NEW b \in SocketType, b.state = "not_connected", NEW r \in RequestIds
  PROVE  Connects(b, Connect(b, r))
<1> DEFINE z == [b EXCEPT !.last_outgoing = 0]
           u == CreateSendTask(z, 0, "connection_request", <<>>, r)
           t == Connect(b, r)
<1>1. z \in SocketType
  BY ZeroOne DEF SocketType
<1>2. /\ z.remote_address = b.remote_address /\ z.local_port = b.local_port
      /\ z.remote_port = b.remote_port /\ z.ack_task = b.ack_task
      /\ z.last_received = b.last_received /\ z.missed = b.missed /\ z.last_outgoing = 0
      /\ z.unconfirmed = b.unconfirmed
  BY DEF SocketType
<1>3. /\ t.remote_address = u.remote_address /\ t.local_port = u.local_port
      /\ t.remote_port = u.remote_port /\ t.ack_task = u.ack_task
      /\ t.last_received = u.last_received /\ t.missed = u.missed
      /\ t.last_outgoing = u.last_outgoing
      /\ t.unconfirmed = u.unconfirmed /\ t.send_task = u.send_task
      /\ t.state = "waiting_for_submit"
  BY DEF Connect, CreateSendTask, SocketType
<1> HIDE DEF z
<1>4. /\ u.remote_address = z.remote_address /\ u.local_port = z.local_port
      /\ u.remote_port = z.remote_port /\ u.ack_task = z.ack_task
      /\ u.last_received = z.last_received /\ u.missed = z.missed
      /\ u.last_outgoing = z.last_outgoing
      /\ u.unconfirmed = Wrap(z.unconfirmed + 1)
      /\ u.send_task = [has |-> TRUE, type |-> "connection_request", id |-> r, ack |-> 0,
                        dport |-> z.remote_port, buf |-> <<>>]
      /\ u.send_task.buf = <<>>
  BY <1>1, CreateSendTaskDoes
<1> HIDE DEF u, t
<1>5. Connects(b, t)
  BY <1>2, <1>3, <1>4 DEF Connects, Same, NewTask
<1> QED
  BY <1>5 DEF t

LEMMA SendDoes ==
  ASSUME NEW b \in SocketType, MaySend(b), NEW buf
  PROVE  Sends(b, Send(b, buf)) /\ Send(b, buf).send_task.buf = buf
<1> DEFINE t == Send(b, buf)
<1>1. t = CreateSendTask(b, 0, "data_transfer", buf, 0)
  BY DEF Send
<1>2. /\ t.remote_address = b.remote_address /\ t.local_port = b.local_port
      /\ t.remote_port = b.remote_port /\ t.ack_task = b.ack_task
      /\ t.last_received = b.last_received /\ t.missed = b.missed
      /\ t.last_outgoing = Wrap(b.last_outgoing + 1)
      /\ t.unconfirmed = Wrap(b.unconfirmed + 1) /\ t.state = b.state
      /\ t.send_task = [has |-> TRUE, type |-> "data_transfer",
                        id |-> Wrap(b.last_outgoing + 1), ack |-> 0,
                        dport |-> b.remote_port, buf |-> buf]
      /\ t.send_task.buf = buf
  BY <1>1, CreateSendTaskDoes
<1> HIDE DEF t
<1>3. Sends(b, t) /\ t.send_task.buf = buf
  BY <1>2 DEF Sends, Same, NewTask, MaySend, Busy
<1> QED
  BY <1>3 DEF t

LEMMA CloseDoes ==
  ASSUME NEW b \in SocketType, MayClose(b)
  PROVE  Closes(b, Close(b))
<1> DEFINE u == CreateSendTask(b, 0, "connection_close", <<>>, 0)
           t == Close(b)
<1>1. /\ t.remote_address = u.remote_address /\ t.local_port = u.local_port
      /\ t.remote_port = u.remote_port /\ t.ack_task = u.ack_task
      /\ t.last_received = u.last_received /\ t.missed = u.missed
      /\ t.last_outgoing = u.last_outgoing
      /\ t.send_task = u.send_task /\ t.state = "closed"
  BY DEF Close, CreateSendTask, SocketType
<1>2. /\ u.remote_address = b.remote_address /\ u.local_port = b.local_port
      /\ u.remote_port = b.remote_port /\ u.ack_task = b.ack_task
      /\ u.last_received = b.last_received /\ u.missed = b.missed
      /\ u.last_outgoing = Wrap(b.last_outgoing + 1)
      /\ u.send_task = [has |-> TRUE, type |-> "connection_close",
                        id |-> Wrap(b.last_outgoing + 1), ack |-> 0,
                        dport |-> b.remote_port, buf |-> <<>>]
      /\ u.send_task.buf = <<>>
  BY CreateSendTaskDoes
<1> HIDE DEF u, t
<1>3. Closes(b, t)
  BY <1>1, <1>2 DEF Closes, Same, NewTask, MayClose
<1> QED
  BY <1>3 DEF t

LEMMA DropIfTimeoutDoes ==
  ASSUME NEW b \in SocketType, NEW expired \in BOOLEAN,
         expired => "expire" \in Calls /\ b.send_task.has
  PROVE  LET t == DropIfTimeout(b, expired)
         IN  (Rests(b, t) /\ t = b) \/ Expires(b, t)
<1>1. CASE ~ expired
  <2>1. DropIfTimeout(b, expired) = b
    BY <1>1 DEF DropIfTimeout
  <2>2. b.send_task = [b.send_task EXCEPT !.ack = b.send_task.ack]
    BY DEF SocketType, SendTask
  <2> QED
    BY <2>1, <2>2 DEF Rests, Same
<1>2. CASE expired
  <2> DEFINE t == DropIfTimeout(b, expired)
  <2>1. t = [b EXCEPT !.send_task = NoSendTask,
                      !.state = IF b.send_task.type = "connection_request"
                                THEN "connection_timeout" ELSE @]
    BY <1>2 DEF DropIfTimeout
  <2>2. Expires(b, t)
    BY <1>2, <2>1 DEF Expires, Same, SocketType
  <2> QED
    BY <2>2
<1> QED
  BY <1>1, <1>2

LEMMA TransmittedDoes ==
  ASSUME NEW b \in SocketType, b.send_task.has
  PROVE  LET t == Transmitted(b)
             m == TaskHeader(t)
         IN  /\ Rests(b, t)
             /\ m.type = b.send_task.type /\ m.id = b.send_task.id
             /\ m.sport = b.local_port /\ m.dport = b.send_task.dport
             /\ m.buf = b.send_task.buf
             /\ m.ack = IF b.ack_task.has THEN b.ack_task.id ELSE b.send_task.ack
<1> DEFINE t == Transmitted(b)
           ack == IF b.ack_task.has THEN b.ack_task.id ELSE b.send_task.ack
<1>1. b.send_task \in SendTask /\ b.ack_task \in AckTask
  BY DEF SocketType
<1>2. /\ t.remote_address = b.remote_address /\ t.local_port = b.local_port
      /\ t.remote_port = b.remote_port /\ t.last_received = b.last_received /\ t.missed = b.missed
      /\ t.state = b.state /\ t.last_outgoing = b.last_outgoing
      /\ t.unconfirmed = b.unconfirmed
      /\ t.send_task = [b.send_task EXCEPT !.ack = ack]
      /\ t.ack_task = [b.ack_task EXCEPT !.sent = b.ack_task.has \/ @]
  BY DEF Transmitted, SocketType
<1> HIDE DEF t
<1>3. t.ack_task.has = b.ack_task.has /\ t.ack_task.id = b.ack_task.id
  BY <1>1, <1>2 DEF AckTask
<1>4. /\ t.send_task.ack = ack /\ t.send_task.type = b.send_task.type
      /\ t.send_task.id = b.send_task.id /\ t.send_task.dport = b.send_task.dport
      /\ t.send_task.buf = b.send_task.buf
  BY <1>1, <1>2 DEF SendTask
<1>5. Rests(b, t)
  BY <1>2, <1>3, <1>4 DEF Rests, Same
<1>6. LET m == TaskHeader(t)
      IN  /\ m.type = b.send_task.type /\ m.id = b.send_task.id
          /\ m.sport = b.local_port /\ m.dport = b.send_task.dport
          /\ m.buf = b.send_task.buf /\ m.ack = ack
  BY <1>2, <1>4 DEF TaskHeader
<1> QED
  BY <1>5, <1>6 DEF t

LEMMA SubmitDoes ==
  ASSUME NEW b \in SocketType, NEW r \in Id
  PROVE  Submits(b, SendConnectionSubmit(b, r), r)
<1> DEFINE q == PrepareAck(b, r)
           p == [q EXCEPT !.last_outgoing = 0]
           u == CreateSendTask(p, 0, "connection_submit", <<>>, 0)
           t == SendConnectionSubmit(b, r)
<1>1. q \in SocketType /\ p \in SocketType
  BY PrepareAckType, ZeroOne DEF SocketType
<1>2. /\ q.remote_address = b.remote_address /\ q.local_port = b.local_port
      /\ q.remote_port = b.remote_port /\ q.last_received = b.last_received /\ q.missed = b.missed
      /\ q.ack_task = [has |-> TRUE, id |-> r, sent |-> FALSE]
  BY PrepareAckDoes
<1> HIDE DEF q
<1>3. /\ p.remote_address = b.remote_address /\ p.local_port = b.local_port
      /\ p.remote_port = b.remote_port /\ p.last_received = b.last_received /\ p.missed = b.missed
      /\ p.ack_task = [has |-> TRUE, id |-> r, sent |-> FALSE]
      /\ p.last_outgoing = 0
  BY <1>1, <1>2 DEF SocketType
<1>4. t = [u EXCEPT !.state = "connected"]
  BY DEF q, SendConnectionSubmit
<1> HIDE DEF p
<1>5. /\ u.remote_address = p.remote_address /\ u.local_port = p.local_port
      /\ u.remote_port = p.remote_port /\ u.last_received = p.last_received /\ u.missed = p.missed
      /\ u.ack_task = p.ack_task
      /\ u.last_outgoing = Wrap(p.last_outgoing + 1)
      /\ u.send_task = [has |-> TRUE, type |-> "connection_submit",
                        id |-> Wrap(p.last_outgoing + 1), ack |-> 0,
                        dport |-> p.remote_port, buf |-> <<>>]
      /\ u.send_task.buf = <<>>
  BY <1>1, CreateSendTaskDoes
<1>6. u \in SocketType
  BY <1>1, CreateSendTaskType, EmptyBuffer, ZeroOne DEF MessageType
<1> HIDE DEF u, t
<1>7. /\ t.remote_address = u.remote_address /\ t.local_port = u.local_port
      /\ t.remote_port = u.remote_port /\ t.last_received = u.last_received /\ t.missed = u.missed
      /\ t.last_outgoing = u.last_outgoing /\ t.ack_task = u.ack_task
      /\ t.send_task = u.send_task /\ t.state = "connected"
  BY <1>4, <1>6 DEF SocketType
<1>8. 0 + 1 = 1
  OBVIOUS
<1>9. Submits(b, t, r)
  BY <1>3, <1>5, <1>7, <1>8 DEF Submits, NewTask
<1> QED
  BY <1>9 DEF t

\* What is left of the send task after the acknowledgement of message h.
LeftTask(b, h) == IF AckMatches(b, h) THEN NoSendTask ELSE b.send_task
LeftCount(b, h) == IF AckMatches(b, h) THEN Wrap(b.unconfirmed + IdMod - 1) ELSE b.unconfirmed

Acks(t, h) == t.ack_task = [has |-> TRUE, id |-> h.id, sent |-> FALSE]

Ends(b, t) ==
    /\ t.remote_address = b.remote_address
    /\ t.local_port = b.local_port

\* What receive() does with each kind of message the dispatcher gives it.
HearsAgain(b, h, t) ==
    /\ h.id <= b.last_received
    /\ t.remote_port = b.remote_port
    /\ t.state = b.state
    /\ t.send_task = LeftTask(b, h)
    /\ t.unconfirmed = LeftCount(b, h)
    /\ Acks(t, h)
    /\ t.last_received = b.last_received
    /\ t.last_outgoing = b.last_outgoing
    /\ t.missed = b.missed

HearsSubmit(b, h, t) ==
    /\ b.last_received < h.id
    /\ h.type = "connection_submit"
    /\ b.state = "waiting_for_submit"
    /\ t.remote_port = h.sport
    /\ t.state = "connected"
    /\ t.send_task = NoSendTask
    /\ t.unconfirmed = LeftCount(b, h)
    /\ Acks(t, h)
    /\ t.last_received = h.id
    /\ t.last_outgoing = b.last_outgoing
    /\ t.missed = b.missed

HearsSubmitLate(b, h, t) ==
    /\ h.type = "connection_submit"
    /\ b.state = "connected"
    /\ t.remote_port = b.remote_port
    /\ t.state = b.state
    /\ t.send_task = LeftTask(b, h)
    /\ t.unconfirmed = LeftCount(b, h)
    /\ t.ack_task = b.ack_task
    /\ t.last_received = b.last_received
    /\ t.last_outgoing = b.last_outgoing
    /\ t.missed = b.missed

HearsCloseSubmit(b, h, t) ==
    /\ b.last_received < h.id
    /\ h.type = "connection_close_submit"
    /\ b.state = "closed"
    /\ t.remote_port = b.remote_port
    /\ t.state = "closed"
    /\ t.send_task = NoSendTask
    /\ t.ack_task.has = FALSE
    /\ t.ack_task.id = b.ack_task.id
    /\ t.last_received = b.last_received
    /\ t.last_outgoing = b.last_outgoing
    /\ t.missed = b.missed

HearsClose(b, h, t) ==
    /\ b.last_received < h.id
    /\ h.type = "connection_close"
    /\ b.state = "connected"
    /\ t.remote_port = b.remote_port
    /\ t.state = "closed"
    /\ NewTask(b, t, "connection_close_submit", Wrap(b.last_outgoing + 1))
    /\ t.send_task.buf = <<>>
    /\ t.ack_task = b.ack_task
    /\ t.last_received = h.id
    /\ t.last_outgoing = Wrap(b.last_outgoing + 1)
    /\ t.missed = b.missed

HearsData(b, h, t) ==
    /\ b.last_received < h.id
    /\ h.type = "data_transfer"
    /\ b.state = "connected"
    /\ t.remote_port = b.remote_port
    /\ t.state = "connected"
    /\ t.send_task = LeftTask(b, h)
    /\ t.unconfirmed = LeftCount(b, h)
    /\ Acks(t, h) \/ t.ack_task = b.ack_task
    /\ t.last_received = h.id
    /\ t.last_outgoing = b.last_outgoing
    /\ t.missed = Wrap(b.missed + h.id - (b.last_received + 1))

Hears(b, h, t) ==
    \/ HearsAgain(b, h, t)
    \/ HearsSubmit(b, h, t)
    \/ HearsSubmitLate(b, h, t)
    \/ HearsCloseSubmit(b, h, t)
    \/ HearsClose(b, h, t)
    \/ HearsData(b, h, t)

\* The states in which find_socket_for_... gives a socket messages of each type.
MayHear(b, h) ==
    /\ h.type # "connection_request"
    /\ h.type = "connection_submit" => b.state \in {"waiting_for_submit", "connected"}
    /\ h.type = "connection_close_submit" => b.state = "closed"
    /\ h.type \in {"data_transfer", "connection_close"} => b.state = "connected"

LEMMA IdNumbers == \A n \in Id : n \in Nat
  BY SocketAssumption DEF Id

LEMMA DataDoes ==
  ASSUME NEW b \in SocketType, NEW a \in SocketType, NEW h \in Message,
         b.last_received < h.id, h.type = "data_transfer", b.state = "connected",
         a.remote_address = b.remote_address, a.local_port = b.local_port,
         a.remote_port = b.remote_port, a.state = b.state,
         a.send_task = LeftTask(b, h), a.unconfirmed = LeftCount(b, h),
         a.ack_task = b.ack_task, a.last_outgoing = b.last_outgoing,
         a.missed = b.missed, a.last_received = b.last_received
  PROVE  LET t == ReceiveData(a, h) IN Ends(b, t) /\ HearsData(b, h, t)
<1> DEFINE q == IF Len(a.incoming) < QueueMax THEN a.incoming \o h.buf ELSE a.incoming
           p == PrepareAck(a, h.id)
           pushed == IF h.buf = <<>> THEN a ELSE [p EXCEPT !.incoming = q]
           n == Wrap(pushed.missed + h.id - (a.last_received + 1))
           t == [pushed EXCEPT !.missed = n, !.last_received = h.id]
<1>1. p \in SocketType /\ h.id \in Id
  BY PrepareAckType DEF Message
<1>2. /\ p.remote_address = a.remote_address /\ p.local_port = a.local_port
      /\ p.remote_port = a.remote_port /\ p.unconfirmed = a.unconfirmed
      /\ p.last_outgoing = a.last_outgoing /\ p.send_task = a.send_task
      /\ p.missed = a.missed
      /\ p.state = a.state /\ p.ack_task = [has |-> TRUE, id |-> h.id, sent |-> FALSE]
  BY PrepareAckDoes
<1>3. ReceiveData(a, h) = t
  BY DEF ReceiveData, PrepareAck, SocketType
<1> HIDE DEF n, p, q
<1>4. /\ pushed.remote_address = a.remote_address /\ pushed.local_port = a.local_port
      /\ pushed.remote_port = a.remote_port /\ pushed.unconfirmed = a.unconfirmed
      /\ pushed.last_outgoing = a.last_outgoing /\ pushed.send_task = a.send_task
      /\ pushed.state = a.state /\ pushed.missed = a.missed
      /\ Acks(pushed, h) \/ pushed.ack_task = a.ack_task
  BY <1>1, <1>2 DEF SocketType, Acks
<1>5. DOMAIN pushed = DOMAIN a
  BY <1>1 DEF SocketType
<1> HIDE DEF pushed
<1>6. /\ t.remote_address = pushed.remote_address /\ t.local_port = pushed.local_port
      /\ t.remote_port = pushed.remote_port /\ t.unconfirmed = pushed.unconfirmed
      /\ t.last_outgoing = pushed.last_outgoing /\ t.send_task = pushed.send_task
      /\ t.state = pushed.state /\ t.last_received = h.id
      /\ t.ack_task = pushed.ack_task /\ t.missed = n
  BY <1>5 DEF SocketType
<1> HIDE DEF t
<1>7. n = Wrap(b.missed + h.id - (b.last_received + 1))
  BY <1>4 DEF n
<1>8. Ends(b, t) /\ HearsData(b, h, t)
  BY <1>4, <1>6, <1>7 DEF Ends, HearsData, Acks
<1> QED
  BY <1>3, <1>8

LEMMA ReceiveDoes ==
  ASSUME NEW b \in SocketType, NEW h \in Message, MayHear(b, h)
  PROVE  LET t == Receive(b, h) IN Ends(b, t) /\ Hears(b, h, t)
<1> DEFINE a == Acknowledge(b, h)
           t == Receive(b, h)
<1>1. a \in SocketType
  BY AcknowledgeType
<1>2. /\ a.remote_address = b.remote_address /\ a.local_port = b.local_port
      /\ a.remote_port = b.remote_port /\ a.state = b.state
      /\ a.ack_task = b.ack_task
      /\ a.last_received = b.last_received /\ a.missed = b.missed
      /\ a.last_outgoing = b.last_outgoing
      /\ a.send_task = LeftTask(b, h) /\ a.unconfirmed = LeftCount(b, h)
  BY AcknowledgeDoes DEF LeftTask, LeftCount
<1>3. h.id \in Id /\ h.sport \in Port /\ h.type \in MessageType
  BY DEF Message
<1>4. b.state # "connection_timeout"
  BY <1>3 DEF MayHear, MessageType
<1>5. CASE IsDuplicate(b, h)
  <2>1. t = PrepareAck(a, h.id)
    BY <1>4, <1>5 DEF Receive
  <2> HIDE DEF t, a
  <2>2. /\ t.remote_address = a.remote_address /\ t.local_port = a.local_port
        /\ t.remote_port = a.remote_port /\ t.state = a.state /\ Acks(t, h)
        /\ t.last_received = a.last_received /\ t.missed = a.missed
        /\ t.last_outgoing = a.last_outgoing
        /\ t.send_task = a.send_task /\ t.unconfirmed = a.unconfirmed
    BY <1>1, <2>1, PrepareAckDoes DEF Acks
  <2>3. Ends(b, t) /\ HearsAgain(b, h, t)
    BY <1>2, <1>5, <2>2 DEF Ends, HearsAgain, IsDuplicate
  <2> QED
    BY <2>3 DEF t, Hears
<1>6. CASE ~ IsDuplicate(b, h)
  <2>1. b.last_received < h.id
    <3>1. b.last_received \in Nat /\ h.id \in Nat /\ ~ (h.id <= b.last_received)
      BY <1>3, <1>6, IdNumbers DEF IsDuplicate, SocketType
    <3> QED
      BY <3>1
  <2>2. t = ReceiveNew(a, h)
    BY <1>4, <1>6 DEF Receive
  <2>3. t \in SocketType
    BY ReceiveType
  <2> HIDE DEF a, t
  <2>4. CASE h.type = "connection_close_submit"
    <3>1. /\ t = [a EXCEPT !.send_task = NoSendTask, !.ack_task.has = FALSE,
                           !.unconfirmed = Wrap(@ + IdMod - 1)]
          /\ b.state = "closed"
      BY <1>2, <2>2, <2>4 DEF ReceiveNew, ReceiveWhenClosed, MayHear
    <3>2. /\ t.remote_address = a.remote_address /\ t.local_port = a.local_port
          /\ t.remote_port = a.remote_port /\ t.state = a.state
          /\ t.last_received = a.last_received /\ t.missed = a.missed
          /\ t.last_outgoing = a.last_outgoing
          /\ t.send_task = NoSendTask
          /\ t.ack_task = [a.ack_task EXCEPT !.has = FALSE]
      BY <1>1, <3>1 DEF SocketType
    <3>3. t.ack_task.has = FALSE /\ t.ack_task.id = a.ack_task.id
      BY <1>1, <3>2 DEF SocketType, AckTask
    <3>4. Ends(b, t) /\ HearsCloseSubmit(b, h, t)
      BY <1>2, <2>1, <2>4, <3>1, <3>2, <3>3 DEF Ends, HearsCloseSubmit
    <3> QED
      BY <3>4 DEF t, Hears
  <2>5. CASE h.type = "connection_submit"
    <3>1. t = ReceiveSubmit(a, h) /\ b.state \in {"waiting_for_submit", "connected"}
      BY <1>2, <2>2, <2>5 DEF ReceiveNew, MayHear
    <3>2. CASE b.state = "waiting_for_submit"
      <4> DEFINE p == PrepareAck(a, h.id)
      <4>1. t = [p EXCEPT !.remote_port = h.sport, !.state = "connected",
                          !.send_task = NoSendTask, !.last_received = h.id]
        BY <1>2, <3>1, <3>2 DEF ReceiveSubmit
      <4>2. p \in SocketType
        BY <1>1, <1>3, PrepareAckType
      <4>3. /\ p.remote_address = a.remote_address /\ p.local_port = a.local_port
            /\ Acks(p, h) /\ p.last_outgoing = a.last_outgoing
            /\ p.unconfirmed = a.unconfirmed /\ p.missed = a.missed
        BY <1>1, PrepareAckDoes DEF Acks
      <4> HIDE DEF p
      <4>4. /\ t.remote_address = p.remote_address /\ t.local_port = p.local_port
            /\ t.ack_task = p.ack_task /\ t.last_outgoing = p.last_outgoing
            /\ t.send_task = NoSendTask /\ t.last_received = h.id
            /\ t.state = "connected" /\ t.remote_port = h.sport
            /\ t.unconfirmed = p.unconfirmed /\ t.missed = p.missed
        BY <4>1, <4>2 DEF SocketType
      <4>5. Ends(b, t) /\ HearsSubmit(b, h, t)
        BY <1>2, <2>1, <2>5, <3>2, <4>3, <4>4 DEF Ends, HearsSubmit, Acks
      <4> QED
        BY <4>5 DEF t, Hears
    <3>3. CASE b.state = "connected"
      <4>1. t = a
        BY <1>2, <3>1, <3>3 DEF ReceiveSubmit
      <4>2. Ends(b, t) /\ HearsSubmitLate(b, h, t)
        BY <1>2, <2>5, <3>3, <4>1 DEF Ends, HearsSubmitLate
      <4> QED
        BY <4>2 DEF t, Hears
    <3> QED
      BY <3>1, <3>2, <3>3
  <2>6. CASE h.type = "connection_close"
    <3> DEFINE c == [a EXCEPT !.state = "closed"]
               u == CreateSendTask(c, 0, "connection_close_submit", <<>>, 0)
    <3>1. t = [u EXCEPT !.last_received = h.id] /\ b.state = "connected"
      BY <1>2, <2>2, <2>6 DEF ReceiveNew, ReceiveClose, MayHear
    <3>2. c \in SocketType
      BY <1>1 DEF SocketType, State
    <3>3. /\ c.remote_address = a.remote_address /\ c.local_port = a.local_port
          /\ c.remote_port = a.remote_port /\ c.ack_task = a.ack_task
          /\ c.missed = a.missed
          /\ c.last_outgoing = a.last_outgoing /\ c.state = "closed"
      BY <1>1 DEF SocketType
    <3> HIDE DEF c
    <3>4. u \in SocketType
      BY <3>2, CreateSendTaskType, EmptyBuffer, ZeroOne DEF MessageType
    <3>5. /\ u.remote_address = c.remote_address /\ u.local_port = c.local_port
          /\ u.remote_port = c.remote_port /\ u.ack_task = c.ack_task
          /\ u.missed = c.missed
          /\ u.last_outgoing = Wrap(c.last_outgoing + 1) /\ u.state = c.state
          /\ u.send_task = [has |-> TRUE, type |-> "connection_close_submit",
                            id |-> Wrap(c.last_outgoing + 1), ack |-> 0,
                            dport |-> c.remote_port, buf |-> <<>>]
          /\ u.send_task.buf = <<>>
      BY <3>2, CreateSendTaskDoes
    <3> HIDE DEF u
    <3>6. /\ t.remote_address = u.remote_address /\ t.local_port = u.local_port
          /\ t.remote_port = u.remote_port /\ t.ack_task = u.ack_task
          /\ t.last_outgoing = u.last_outgoing /\ t.send_task = u.send_task
          /\ t.last_received = h.id /\ t.state = u.state /\ t.missed = u.missed
      BY <3>1, <3>4 DEF SocketType
    <3>7. Ends(b, t) /\ HearsClose(b, h, t)
      BY <1>2, <2>1, <2>6, <3>1, <3>3, <3>5, <3>6 DEF Ends, HearsClose, NewTask
    <3> QED
      BY <3>7 DEF t, Hears
  <2>7. CASE h.type = "data_transfer"
    <3>1. t = ReceiveData(a, h) /\ b.state = "connected"
      BY <1>2, <2>2, <2>7 DEF ReceiveNew, MayHear
    <3>2. Ends(b, t) /\ HearsData(b, h, t)
      BY <1>1, <1>2, <2>1, <2>7, <3>1, DataDoes
    <3> QED
      BY <3>2 DEF t, Hears
  <2> QED
    BY <1>3, <2>4, <2>5, <2>6, <2>7 DEF MessageType, MayHear
<1> QED
  BY <1>5, <1>6

-----------------------------------------------------------------------------
(* What a step does, whatever action it is *)

\* The messages on their way were there before, or are the ones in new.
Carried(new) ==
    \A l \in Link : \A i \in DOMAIN net'[l] :
       \/ \E k \in DOMAIN net[l] : net'[l][i] = net[l][k]
       \/ <<l, net'[l][i]>> \in new

OnlySocket(s) ==
    /\ s \in Sock
    /\ s \in m_sockets
    /\ sock'[s] \in SocketType
    /\ \A x \in Sock \ {s} : sock'[x] = sock[x] /\ taken'[x] = taken[x]

\* No socket is called.
StepStays ==
    /\ UNCHANGED <<sock, cache, histories>>
    /\ m_sockets' \subseteq m_sockets
    /\ Carried({})

\* The application or a clock does something to socket s.
StepCalls(s) ==
    /\ OnlySocket(s)
    /\ \/ s \in Client /\ Connects(sock[s], sock'[s])
       \/ Rests(sock[s], sock'[s])
       \/ Expires(sock[s], sock'[s])
       \/ /\ Sends(sock[s], sock'[s]) \/ Closes(sock[s], sock'[s])
          /\ sock[s].last_outgoing < MaxOutgoing[s]
    /\ UNCHANGED <<m_sockets, cache, net, confirmed, overflowed>>

\* pick_outgoing() of socket s returns message m.
IsTask(b, m) ==
    /\ b.send_task.has
    /\ m.type = b.send_task.type
    /\ m.id = b.send_task.id
    /\ m.ack = IF b.ack_task.has THEN b.ack_task.id ELSE b.send_task.ack
    /\ m.sport = b.local_port
    /\ m.dport = b.send_task.dport
    /\ m.buf = b.send_task.buf

IsForceAck(b, m) ==
    /\ m.type = "data_transfer"
    /\ m.id = 0
    /\ m.ack = b.ack_task.id
    /\ m.sport = b.local_port
    /\ m.dport = b.remote_port
    /\ m.buf = <<>>

StepPicks(s, m) ==
    /\ OnlySocket(s)
    /\ \/ Rests(sock[s], sock'[s]) /\ IsTask(sock[s], m)
       \/ Rests(sock[s], sock'[s]) /\ IsForceAck(sock[s], m) /\ ~ sock[s].send_task.has
       \/ Expires(sock[s], sock'[s]) /\ IsForceAck(sock[s], m)
    /\ Put(LinkOf(s), m)
    /\ Carried({<<LinkOf(s), m>>})
    /\ UNCHANGED <<m_sockets, cache, histories>>

\* Socket s handles message i of link l.
StepHears(l, i, s) ==
    /\ ReceiveMessage(l, i, s)
    /\ OnlySocket(s)
    /\ l \in Link /\ i \in DOMAIN net[l] /\ net[l][i] \in Message
    /\ Recipient(l, net[l][i], s)
    /\ MayHear(sock[s], net[l][i])
    /\ Ends(sock[s], sock'[s])
    /\ Hears(sock[s], net[l][i], sock'[s])
    /\ Carried({})
    /\ UNCHANGED <<m_sockets, cache, sent, taken>>

\* The acceptor handles request i of link l with socket s, for the first time or again.
AsksAcceptor(l, i) ==
    /\ l \in Link /\ i \in DOMAIN net[l] /\ net[l][i] \in Message
    /\ net[l][i].type = "connection_request" /\ l[2] = Server
    /\ i \in Arriving(l) /\ Take(l, i)

StepAnswers(l, i, s) ==
    /\ OnlySocket(s)
    /\ s \in Slot
    /\ AsksAcceptor(l, i)
    /\ Submits(sock[s], sock'[s], net[l][i].id)
    /\ net[l][i].id \in Cached(cache) /\ cache.map[net[l][i].id] = s
    /\ cache' = GetUpdate(cache, net[l][i].id)
    /\ Carried({})
    /\ UNCHANGED <<m_sockets, histories>>

StepAccepts(l, i, s, port) ==
    /\ s \in Slot /\ s \in Sock /\ port \in AcceptPorts
    /\ sock'[s] \in SocketType
    /\ \A x \in Sock \ {s} : sock'[x] = sock[x]
    /\ s \in FreeSlots
    /\ AsksAcceptor(l, i)
    /\ Submits(NewSocket(l[1], port, net[l][i].sport, sock[s].ack_task), sock'[s], net[l][i].id)
    /\ net[l][i].id \in Cached(cache) => cache.map[net[l][i].id] \notin m_sockets
    /\ cache' = PutUpdate(Erase(cache, net[l][i].id), net[l][i].id, s, CacheMax)
    /\ m_sockets' = m_sockets \cup {s}
    /\ Carried({})
    /\ UNCHANGED histories

LEMMA TakeCarries ==
  ASSUME TypeOK, NEW l \in Link, NEW i, i \in Arriving(l), Take(l, i)
  PROVE  Carried({}) /\ i \in DOMAIN net[l] /\ net[l][i] \in Message
<1>1. i \in DOMAIN net[l] /\ net[l] \in Seq(Message) /\ net[l][i] \in Message
  BY TakeType DEF Arriving, TypeOK
<1>2. /\ WithoutPlace(net[l], i) \in Seq(Message)
      /\ Len(WithoutPlace(net[l], i)) = Len(net[l]) - 1
      /\ \A j \in 1 .. Len(net[l]) - 1 :
           WithoutPlace(net[l], i)[j] = IF j < i THEN net[l][j] ELSE net[l][j + 1]
  BY <1>1, WithoutPlaceProperties
<1>3. \A j \in DOMAIN WithoutPlace(net[l], i) :
        \E k \in DOMAIN net[l] : WithoutPlace(net[l], i)[j] = net[l][k]
  <2> TAKE j \in DOMAIN WithoutPlace(net[l], i)
  <2>1. j \in 1 .. Len(net[l]) - 1 /\ DOMAIN net[l] = 1 .. Len(net[l]) /\ Len(net[l]) \in Nat
    BY <1>1, <1>2
  <2>2. j \in DOMAIN net[l] /\ j + 1 \in DOMAIN net[l]
    BY <2>1
  <2> QED
    BY <1>2, <2>1, <2>2
<1>4. \A k \in Link : \A j \in DOMAIN net'[k] : \E n \in DOMAIN net[k] : net'[k][j] = net[k][n]
  BY <1>3 DEF Take, TypeOK
<1> QED
  BY <1>1, <1>4 DEF Carried

LEMMA PutCarries ==
  ASSUME TypeOK, NEW l, NEW m \in Message, Put(l, m)
  PROVE  Carried({<<l, m>>})
<1>1. CASE l \notin Link
  <2>1. net' = net
    BY <1>1 DEF Put, TypeOK
  <2> QED
    BY <2>1 DEF Carried
<1>2. CASE l \in Link
  <2>1. \A j \in DOMAIN Append(net[l], m) :
          \/ Append(net[l], m)[j] = m
          \/ j \in DOMAIN net[l] /\ Append(net[l], m)[j] = net[l][j]
    BY <1>2, AppendProperties DEF TypeOK
  <2>2. \A k \in Link : \A j \in DOMAIN net'[k] :
          \/ k = l /\ net'[k][j] = m
          \/ j \in DOMAIN net[k] /\ net'[k][j] = net[k][j]
    BY <1>2, <2>1 DEF Put, TypeOK
  <2> QED
    BY <2>2 DEF Carried
<1> QED
  BY <1>1, <1>2

LEMMA SameCarries == net' = net => Carried({})
  BY DEF Carried

LEMMA PickStep ==
  ASSUME TypeOK, TypeOK', NEW s \in Sock,
         Transmit(s) \/ \E expired \in BOOLEAN : ForceAck(s, expired)
  PROVE  \E m \in Message : StepPicks(s, m)
<1> DEFINE b == sock[s]
<1>1. b \in SocketType /\ sock' \in [Sock -> SocketType]
  BY DEF TypeOK
<1>2. CASE Transmit(s)
  <2> DEFINE t == Transmitted(b)
             m == TaskHeader(t)
  <2>1. /\ s \in m_sockets /\ b.send_task.has /\ sock' = [sock EXCEPT ![s] = t]
        /\ Put(LinkOf(s), m) /\ UNCHANGED <<m_sockets, cache, histories>>
    BY <1>2 DEF Transmit
  <2>2. Rests(b, t) /\ IsTask(b, m) /\ m \in Message
    BY <1>1, <2>1, TransmittedDoes, TransmittedType DEF IsTask
  <2>3. Carried({<<LinkOf(s), m>>})
    BY <2>1, <2>2, PutCarries
  <2> HIDE DEF t, m
  <2>4. OnlySocket(s) /\ sock'[s] = t
    BY <1>1, <2>1 DEF TypeOK, OnlySocket, histories
  <2>5. StepPicks(s, m)
    BY <2>1, <2>2, <2>3, <2>4 DEF StepPicks
  <2> QED
    BY <2>2, <2>5
<1>3. ASSUME NEW expired \in BOOLEAN, ForceAck(s, expired)
      PROVE  \E m \in Message : StepPicks(s, m)
  <2> DEFINE d == DropIfTimeout(b, expired)
             t == [d EXCEPT !.ack_task.sent = TRUE]
             m == ForceAckHeader(d)
  <2>1. /\ s \in m_sockets /\ ForceAckWaiting(d) /\ sock' = [sock EXCEPT ![s] = t]
        /\ Put(LinkOf(s), m) /\ UNCHANGED <<m_sockets, cache, histories>>
        /\ expired => "expire" \in Calls /\ b.send_task.has
    BY <1>3 DEF ForceAck
  <2>2. (Rests(b, d) /\ d = b) \/ Expires(b, d)
    BY <1>1, <2>1, DropIfTimeoutDoes
  <2>3. d \in SocketType /\ t \in SocketType /\ m \in Message /\ ~ d.send_task.has
    BY <1>1, <2>1, DropIfTimeoutType, ForceAckType DEF ForceAckWaiting
  <2>4. /\ m.type = "data_transfer" /\ m.id = 0 /\ m.ack = d.ack_task.id
        /\ m.sport = d.local_port /\ m.dport = d.remote_port /\ m.buf = <<>>
    BY DEF ForceAckHeader
  <2> HIDE DEF d, m
  <2>5. /\ t.remote_address = d.remote_address /\ t.local_port = d.local_port
        /\ t.remote_port = d.remote_port /\ t.last_received = d.last_received
        /\ t.state = d.state /\ t.last_outgoing = d.last_outgoing
        /\ t.unconfirmed = d.unconfirmed /\ t.send_task = d.send_task
        /\ t.missed = d.missed
        /\ t.ack_task = [d.ack_task EXCEPT !.sent = TRUE]
    BY <2>3 DEF SocketType
  <2>6. t.ack_task.has = d.ack_task.has /\ t.ack_task.id = d.ack_task.id
    BY <2>3, <2>5 DEF SocketType, AckTask
  <2> HIDE DEF t
  <2>7. \/ Rests(b, t) /\ ~ b.send_task.has
        \/ Expires(b, t)
    BY <2>2, <2>3, <2>5, <2>6 DEF Rests, Expires, Same
  <2>8. IsForceAck(b, m)
    BY <2>2, <2>4 DEF IsForceAck, Rests, Expires, Same
  <2>9. Carried({<<LinkOf(s), m>>})
    BY <2>1, <2>3, PutCarries
  <2>10. OnlySocket(s) /\ sock'[s] = t
    BY <1>1, <2>1 DEF TypeOK, OnlySocket, histories
  <2>11. StepPicks(s, m)
    BY <2>1, <2>7, <2>8, <2>9, <2>10 DEF StepPicks
  <2> QED
    BY <2>3, <2>11
<1> QED
  BY <1>2, <1>3

LEMMA CallStep ==
  ASSUME TypeOK, TypeOK', NEW s \in Sock,
         \/ s \in Client /\ CallConnect(s)
         \/ CallSend(s)
         \/ CallSendEmpty(s)
         \/ CallGetReceived(s)
         \/ CallClose(s)
         \/ Expire(s)
  PROVE  StepCalls(s)
<1> DEFINE b == sock[s]
           t == sock'[s]
<1>1. /\ b \in SocketType /\ t \in SocketType
      /\ sock \in [Sock -> SocketType] /\ taken \in [Sock -> Seq(Payload)]
  BY DEF TypeOK
<1>2. CASE s \in Client /\ CallConnect(s)
  <2>1. PICK r \in RequestIds : sock' = [sock EXCEPT ![s] = Connect(b, r)]
    BY <1>2 DEF CallConnect
  <2>2. Connects(b, t)
    BY <1>1, <1>2, <2>1, ConnectDoes DEF CallConnect
  <2>3. OnlySocket(s)
    BY <1>1, <1>2, <2>1 DEF CallConnect, OnlySocket, histories
  <2> QED
    BY <1>2, <2>2, <2>3 DEF StepCalls, CallConnect, histories
<1>3. CASE CallSend(s) \/ CallSendEmpty(s)
  <2>1. PICK buf : sock' = [sock EXCEPT ![s] = Send(b, buf)]
    BY <1>3 DEF CallSend, CallSendEmpty
  <2>2. MaySend(b) /\ s \in m_sockets /\ b.last_outgoing < MaxOutgoing[s]
    BY <1>3 DEF CallSend, CallSendEmpty
  <2>3. Sends(b, t)
    BY <1>1, <2>1, <2>2, SendDoes
  <2>4. UNCHANGED <<m_sockets, cache, net, taken, confirmed, overflowed>>
    BY <1>3 DEF CallSend, CallSendEmpty, histories
  <2>5. OnlySocket(s)
    BY <1>1, <2>1, <2>2, <2>4 DEF OnlySocket
  <2> QED
    BY <2>2, <2>3, <2>4, <2>5 DEF StepCalls
<1>4. CASE CallGetReceived(s)
  <2>1. t = [b EXCEPT !.incoming = Tail(@)]
    BY <1>1, <1>4 DEF CallGetReceived
  <2>2. /\ t.remote_address = b.remote_address /\ t.local_port = b.local_port
        /\ t.remote_port = b.remote_port /\ t.last_received = b.last_received
        /\ t.state = b.state /\ t.last_outgoing = b.last_outgoing
        /\ t.unconfirmed = b.unconfirmed /\ t.send_task = b.send_task
        /\ t.ack_task = b.ack_task /\ t.missed = b.missed
    BY <1>1, <2>1 DEF SocketType
  <2>3. b.send_task = [b.send_task EXCEPT !.ack = b.send_task.ack]
    BY <1>1 DEF SocketType, SendTask
  <2>4. Rests(b, t)
    BY <2>2, <2>3 DEF Rests, Same
  <2>5. OnlySocket(s)
    BY <1>1, <1>4 DEF OnlySocket, CallGetReceived
  <2> QED
    BY <1>4, <2>4, <2>5 DEF StepCalls, CallGetReceived
<1>5. CASE CallClose(s)
  <2>1. t = Close(b) /\ MayClose(b)
    BY <1>1, <1>5 DEF CallClose
  <2>2. Closes(b, t)
    BY <1>1, <2>1, CloseDoes
  <2>3. OnlySocket(s)
    BY <1>1, <1>5 DEF OnlySocket, CallClose, histories
  <2> QED
    BY <1>5, <2>2, <2>3 DEF StepCalls, CallClose, histories
<1>6. CASE Expire(s)
  <2>1. t = DropIfTimeout(b, TRUE) /\ "expire" \in Calls /\ b.send_task.has
    BY <1>1, <1>6 DEF Expire
  <2>2. Rests(b, t) \/ Expires(b, t)
    BY <1>1, <2>1, DropIfTimeoutDoes
  <2>3. OnlySocket(s)
    BY <1>1, <1>6 DEF OnlySocket, Expire, histories
  <2> QED
    BY <1>6, <2>2, <2>3 DEF StepCalls, Expire, histories
<1> QED
  BY <1>2, <1>3, <1>4, <1>5, <1>6

LEMMA HearStep ==
  ASSUME TypeOK, TypeOK', NEW l \in Link, NEW i, NEW s \in Sock, ReceiveMessage(l, i, s)
  PROVE  StepHears(l, i, s)
<1> DEFINE m == net[l][i]
           b == sock[s]
           t == Receive(b, m)
<1>1. /\ i \in Arriving(l) /\ Recipient(l, m, s) /\ sock' = [sock EXCEPT ![s] = t]
      /\ Take(l, i) /\ UNCHANGED <<m_sockets, cache, sent, taken>>
  BY DEF ReceiveMessage
<1>2. Carried({}) /\ i \in DOMAIN net[l] /\ m \in Message
  BY <1>1, TakeCarries
<1>3. b \in SocketType /\ sock' \in [Sock -> SocketType] /\ m.type \in MessageType
  BY <1>2 DEF TypeOK, Message
<1> HIDE DEF m
<1>4. MayHear(b, m) /\ s \in m_sockets
  BY <1>1, <1>3 DEF Recipient, MessageType, ForSubmit, ForCloseSubmit, ForData, MayHear
<1>5. Ends(b, t) /\ Hears(b, m, t)
  BY <1>2, <1>3, <1>4, ReceiveDoes
<1> HIDE DEF t
<1>6. OnlySocket(s) /\ sock'[s] = t
  BY <1>1, <1>3, <1>4 DEF TypeOK, OnlySocket
<1> QED
  BY <1>1, <1>2, <1>4, <1>5, <1>6 DEF StepHears, m

LEMMA AnswerStep ==
  ASSUME TypeOK, TypeOK', NEW l \in Link, NEW i, AcceptAgain(l, i)
  PROVE  \E s \in Slot : StepAnswers(l, i, s)
<1> DEFINE r == net[l][i].id
           s == cache.map[r]
           t == SendConnectionSubmit(sock[s], r)
<1>1. /\ i \in Arriving(l) /\ ForAcceptor(l, net[l][i]) /\ r \in Cached(cache)
      /\ s \in m_sockets /\ sock' = [sock EXCEPT ![s] = t]
      /\ cache' = GetUpdate(cache, r) /\ Take(l, i) /\ UNCHANGED <<m_sockets, histories>>
  BY DEF AcceptAgain
<1>2. Carried({}) /\ i \in DOMAIN net[l] /\ net[l][i] \in Message
  BY <1>1, TakeCarries
<1>3. s \in Slot /\ s \in Sock /\ r \in Id
  BY <1>1, <1>2, Apart DEF Message, IsCache, TypeOK
<1>4. Submits(sock[s], t, r)
  BY <1>3, SubmitDoes DEF TypeOK
<1> HIDE DEF r, s, t
<1>5. OnlySocket(s) /\ sock'[s] = t
  BY <1>1, <1>3 DEF TypeOK, OnlySocket, histories
<1>6. StepAnswers(l, i, s)
  BY <1>1, <1>2, <1>3, <1>4, <1>5 DEF StepAnswers, AsksAcceptor, ForAcceptor, r, s
<1> QED
  BY <1>3, <1>6

LEMMA AcceptStep ==
  ASSUME TypeOK, TypeOK', NEW l \in Link, NEW i, NEW s \in Slot, NEW port \in AcceptPorts,
         AcceptNew(l, i, s, port)
  PROVE  StepAccepts(l, i, s, port)
<1> DEFINE m == net[l][i]
           new == NewSocket(l[1], port, m.sport, sock[s].ack_task)
           t == SendConnectionSubmit(new, m.id)
<1>1. /\ i \in Arriving(l) /\ ForAcceptor(l, m) /\ s \in FreeSlots
      /\ m.id \in Cached(cache) => cache.map[m.id] \notin m_sockets
      /\ sock' = [sock EXCEPT ![s] = t]
      /\ cache' = PutUpdate(Erase(cache, m.id), m.id, s, CacheMax)
      /\ m_sockets' = m_sockets \cup {s} /\ Take(l, i) /\ UNCHANGED histories
  BY DEF AcceptNew, histories
<1>2. Carried({}) /\ i \in DOMAIN net[l] /\ m \in Message
  BY <1>1, TakeCarries
<1>3. s \in Sock /\ m.id \in Id
  BY <1>2, Apart DEF Message
<1>4. new \in SocketType
  <2>1. sock[s].ack_task \in AckTask
    BY <1>3 DEF TypeOK, SocketType
  <2>2. l[1] \in Node /\ port \in Port /\ m.sport \in Port
    BY <1>2 DEF Link, Port, Message
  <2> QED
    BY <2>1, <2>2, NewSocketType
<1>5. Submits(new, t, m.id)
  BY <1>3, <1>4, SubmitDoes
<1> HIDE DEF t
<1>6. sock'[s] = t /\ t \in SocketType /\ \A x \in Sock \ {s} : sock'[x] = sock[x]
  BY <1>1, <1>3 DEF TypeOK
<1> QED
  BY <1>1, <1>2, <1>3, <1>5, <1>6 DEF StepAccepts, AsksAcceptor, ForAcceptor

\* Every step has one of these forms.
LEMMA StepForms ==
  ASSUME TypeOK, [Next]_vars
  PROVE  /\ TypeOK'
         /\ \/ StepStays
            \/ \E s \in Sock : StepCalls(s)
            \/ \E s \in Sock, m \in Message : StepPicks(s, m)
            \/ \E l \in Link : \E i \in DOMAIN net[l], s \in Sock : StepHears(l, i, s)
            \/ \E l \in Link : \E i \in DOMAIN net[l], s \in Slot : StepAnswers(l, i, s)
            \/ \E l \in Link : \E i \in DOMAIN net[l], s \in Slot, port \in AcceptPorts :
                  StepAccepts(l, i, s, port)
<1>1. TypeOK'
  BY NextType
<1>2. ASSUME UNCHANGED vars \/ \E s \in Sock : Destroy(s) PROVE StepStays
  <2>1. UNCHANGED <<sock, cache, net, histories>> /\ m_sockets' \subseteq m_sockets
    BY <1>2 DEF vars, Destroy, histories
  <2> QED
    BY <2>1, SameCarries DEF StepStays
<1>3. ASSUME NEW l \in Link, NEW i, Discard(l, i) \/ Lose(l, i) PROVE StepStays
  <2>1. /\ i \in Arriving(l) /\ Take(l, i)
        /\ UNCHANGED <<sock, m_sockets, cache, histories>>
    BY <1>3 DEF Discard, Lose
  <2>2. Carried({})
    BY <2>1, TakeCarries
  <2> QED
    BY <2>1, <2>2 DEF StepStays
<1>4. ASSUME NEW c \in Client, CallConnect(c) PROVE \E s \in Sock : StepCalls(s)
  BY <1>1, <1>4, CallStep, Apart
<1>5. ASSUME NEW s \in Sock, \/ CallSend(s)
                             \/ CallSendEmpty(s)
                             \/ CallGetReceived(s)
                             \/ CallClose(s)
                             \/ Expire(s)
      PROVE  \E x \in Sock : StepCalls(x)
  BY <1>1, <1>5, CallStep
<1>6. ASSUME NEW s \in Sock, Transmit(s) \/ \E expired \in BOOLEAN : ForceAck(s, expired)
      PROVE  \E x \in Sock, m \in Message : StepPicks(x, m)
  BY <1>1, <1>6, PickStep
<1> QED
  BY <1>1, <1>2, <1>3, <1>4, <1>5, <1>6, HearStep, AnswerStep, AcceptStep
     DEF Next, Application, ServeOutgoing, ServeIncoming

-----------------------------------------------------------------------------
(* A client that was answered knows a socket of the acceptor *)

EndsKept(b, t) == Ends(b, t) /\ t.remote_port = b.remote_port

\* What IdentityInv and TasksAddressed say of a used socket of the acceptor.
SlotOK(b) ==
    /\ b.state \notin {"waiting_for_submit", "connection_timeout"}
    /\ b.send_task.has => /\ b.send_task.type # "connection_request"
                          /\ b.send_task.dport = b.remote_port

NoSubmitTask(b) == b.send_task.has => b.send_task.type # "connection_submit"

\* The socket p of the acceptor is at the other end of client c in state t.
Answers(p, c, t) ==
    /\ p \notin FreeSlots
    /\ sock[p].local_port = t.remote_port
    /\ sock[p].remote_address = ClientNode[c]
    /\ sock[p].remote_port = ClientPort[c]

LEMMA LeftTaskIs ==
  ASSUME NEW b, NEW h
  PROVE  LeftTask(b, h) = b.send_task \/ LeftTask(b, h).has = FALSE
  BY DEF LeftTask, NoSendTask

\* No call, message or clock takes a socket of the acceptor out of SlotOK.
LEMMA SlotKeeps ==
  ASSUME NEW b \in SocketType, NEW t, SlotOK(b),
         \/ Rests(b, t) \/ Expires(b, t) \/ Sends(b, t) \/ Closes(b, t)
         \/ \E h \in Message : MayHear(b, h) /\ Ends(b, t) /\ Hears(b, h, t)
         \/ \E r : Submits(b, t, r)
  PROVE  SlotOK(t) /\ EndsKept(b, t)
<1>1. CASE Rests(b, t)
  <2>1. t.send_task.has = b.send_task.has /\ t.send_task.type = b.send_task.type
        /\ t.send_task.dport = b.send_task.dport
    BY <1>1 DEF Rests, SocketType, SendTask
  <2> QED
    BY <1>1, <2>1 DEF Rests, Same, SlotOK, EndsKept, Ends
<1>2. CASE Expires(b, t)
  BY <1>2 DEF Expires, Same, SlotOK, EndsKept, Ends, NoSendTask
<1>3. CASE Sends(b, t) \/ Closes(b, t)
  BY <1>3 DEF Sends, Closes, Same, NewTask, SlotOK, EndsKept, Ends
<1>4. CASE \E h \in Message : MayHear(b, h) /\ Ends(b, t) /\ Hears(b, h, t)
  <2>1. PICK h \in Message : MayHear(b, h) /\ Ends(b, t) /\ Hears(b, h, t)
    BY <1>4
  <2>2. b.state # "waiting_for_submit" /\ ~ HearsSubmit(b, h, t)
    BY DEF SlotOK, HearsSubmit
  <2>3. CASE HearsClose(b, h, t)
    BY <2>1, <2>3 DEF HearsClose, NewTask, SlotOK, EndsKept, Ends
  <2>4. CASE HearsCloseSubmit(b, h, t)
    BY <2>1, <2>4 DEF HearsCloseSubmit, NoSendTask, SlotOK, EndsKept, Ends
  <2>5. CASE HearsAgain(b, h, t) \/ HearsSubmitLate(b, h, t) \/ HearsData(b, h, t)
    <3>1. t.send_task = LeftTask(b, h) /\ t.remote_port = b.remote_port /\ t.state = b.state
      BY <2>5 DEF HearsAgain, HearsSubmitLate, HearsData
    <3> QED
      BY <2>1, <3>1, LeftTaskIs DEF SlotOK, EndsKept
  <2> QED
    BY <2>1, <2>2, <2>3, <2>4, <2>5 DEF Hears
<1>5. CASE \E r : Submits(b, t, r)
  BY <1>5 DEF Submits, NewTask, SlotOK, EndsKept, Ends
<1> QED
  BY <1>1, <1>2, <1>3, <1>4, <1>5

\* A client keeps its address and port and makes no submit; it keeps the port it
\* is connected to, and learns it from the submit that connects it.
LEMMA ClientKeeps ==
  ASSUME NEW b \in SocketType, NEW t, NoSubmitTask(b),
         \/ Connects(b, t) \/ Rests(b, t) \/ Expires(b, t) \/ Sends(b, t) \/ Closes(b, t)
         \/ \E h \in Message : MayHear(b, h) /\ Ends(b, t) /\ Hears(b, h, t)
  PROVE  /\ Ends(b, t)
         /\ NoSubmitTask(t)
         /\ t.state \in {"connected", "closed"} =>
              \/ t.remote_port = b.remote_port /\ b.state \in {"connected", "closed"}
              \/ \E h \in Message : /\ MayHear(b, h) /\ Hears(b, h, t)
                                    /\ HearsSubmit(b, h, t)
<1>1. CASE Connects(b, t)
  BY <1>1 DEF Connects, Same, NewTask, Ends, NoSubmitTask
<1>2. CASE Rests(b, t)
  <2>1. t.send_task.has = b.send_task.has /\ t.send_task.type = b.send_task.type
    BY <1>2 DEF Rests, SocketType, SendTask
  <2> QED
    BY <1>2, <2>1 DEF Rests, Same, Ends, NoSubmitTask
<1>3. CASE Expires(b, t)
  BY <1>3 DEF Expires, Same, Ends, NoSubmitTask, NoSendTask
<1>4. CASE Sends(b, t) \/ Closes(b, t)
  BY <1>4 DEF Sends, Closes, Same, NewTask, Ends, NoSubmitTask
<1>5. CASE \E h \in Message : MayHear(b, h) /\ Ends(b, t) /\ Hears(b, h, t)
  <2>1. PICK h \in Message : MayHear(b, h) /\ Ends(b, t) /\ Hears(b, h, t)
    BY <1>5
  <2>2. CASE HearsSubmit(b, h, t)
    BY <2>1, <2>2 DEF HearsSubmit, NoSubmitTask, NoSendTask
  <2>3. CASE HearsClose(b, h, t)
    BY <2>1, <2>3 DEF HearsClose, NewTask, NoSubmitTask
  <2>4. CASE HearsCloseSubmit(b, h, t)
    BY <2>1, <2>4 DEF HearsCloseSubmit, NoSendTask, NoSubmitTask
  <2>5. CASE HearsAgain(b, h, t) \/ HearsSubmitLate(b, h, t) \/ HearsData(b, h, t)
    <3>1. t.send_task = LeftTask(b, h) /\ t.remote_port = b.remote_port /\ t.state = b.state
      BY <2>5 DEF HearsAgain, HearsSubmitLate, HearsData
    <3> QED
      BY <2>1, <3>1, LeftTaskIs DEF NoSubmitTask
  <2> QED
    BY <2>1, <2>2, <2>3, <2>4, <2>5 DEF Hears
<1> QED
  BY <1>1, <1>2, <1>3, <1>4, <1>5

UsedSlotsKept ==
    \A p \in Slot : p \notin FreeSlots => p \notin FreeSlots' /\ EndsKept(sock[p], sock'[p])

\* What is enough for a step that changes one socket.
LEMMA ConnectionOneSocket ==
  ASSUME ConnectionInv, TypeOK', NEW s \in Sock, NEW new, Carried(new),
         m_sockets' \subseteq m_sockets \cup {s},
         \A x \in Sock \ {s} : sock'[x] = sock[x] /\ taken'[x] = taken[x],
         s \in Slot => /\ SlotOK(sock'[s])
                       /\ sock'[s].local_port # 0
                       /\ s \notin FreeSlots => EndsKept(sock[s], sock'[s]),
         s \in Client => /\ Ends(sock[s], sock'[s])
                         /\ NoSubmitTask(sock'[s])
                         /\ sock'[s].state \in {"connected", "closed"} =>
                              \E p \in Slot : Answers(p, s, sock'[s]),
         \A n \in new : SubmitNamesPeer(n[1], n[2])
  PROVE  ConnectionInv' /\ UsedSlotsKept
<1> USE Apart
<1>1. \A c \in Client \ {s} : sock'[c] = sock[c]
  OBVIOUS
<1>2. \A p \in Slot \ {s} : sock'[p] = sock[p] /\ taken'[p] = taken[p]
                            /\ (p \in m_sockets' => p \in m_sockets)
  OBVIOUS
<1>3. \A p \in Slot : p \notin FreeSlots => p \notin FreeSlots' /\ EndsKept(sock[p], sock'[p])
  BY <1>2 DEF FreeSlots, EndsKept, Ends
<1>4. IdentityInv'
  <2>1. \A c \in Client : sock'[c].remote_address = Server /\ sock'[c].local_port = ClientPort[c]
    BY <1>1 DEF ConnectionInv, IdentityInv, Ends
  <2>2. ASSUME NEW p \in Slot
        PROVE  /\ sock'[p].state \notin {"waiting_for_submit", "connection_timeout"}
               /\ sock'[p].send_task.has => sock'[p].send_task.type # "connection_request"
               /\ p \in FreeSlots' => /\ p \notin m_sockets'
                                      /\ taken'[p] = <<>>
                                      /\ sock'[p].incoming = <<>>
    <3>1. CASE p = s
      BY <3>1 DEF SlotOK, FreeSlots
    <3>2. CASE p # s
      <4>1. p \in FreeSlots' => p \in FreeSlots
        BY <1>2, <3>2 DEF FreeSlots
      <4> QED
        BY <1>2, <3>2, <4>1 DEF ConnectionInv, IdentityInv
    <3> QED
      BY <3>1, <3>2
  <2> QED
    BY <2>1, <2>2 DEF IdentityInv
<1>5. TasksAddressed'
  <2>1. \A p \in Slot : sock'[p].send_task.has =>
                          sock'[p].send_task.dport = sock'[p].remote_port
    BY <1>2 DEF ConnectionInv, TasksAddressed, SlotOK
  <2>2. \A c \in Client : sock'[c].send_task.has =>
                            sock'[c].send_task.type # "connection_submit"
    BY <1>1 DEF ConnectionInv, TasksAddressed, NoSubmitTask
  <2> QED
    BY <2>1, <2>2 DEF TasksAddressed
<1>6. ASSUME NEW l \in Link, NEW i \in DOMAIN net'[l]
      PROVE  SubmitNamesPeer(l, net[l][i])'
  <2>1. PICK m : m = net'[l][i]
    OBVIOUS
  <2>2. SubmitNamesPeer(l, m)
    <3>1. CASE \E k \in DOMAIN net[l] : m = net[l][k]
      BY <3>1 DEF ConnectionInv
    <3>2. CASE <<l, m>> \in new
      BY <3>2
    <3> QED
      BY <1>6, <2>1, <3>1, <3>2 DEF Carried
  <2>3. SubmitNamesPeer(l, m)'
    BY <1>3, <2>2 DEF SubmitNamesPeer, EndsKept, Ends
  <2> QED
    BY <2>1, <2>3
<1>7. ASSUME NEW c \in Client, sock'[c].state \in {"connected", "closed"}
      PROVE  \E p \in Slot : p \notin FreeSlots' /\ p \in Peers(c)'
  <2>1. PICK p \in Slot : Answers(p, c, sock'[c])
    <3>1. CASE c = s
      BY <1>7, <3>1
    <3>2. CASE c # s
      <4>1. sock'[c] = sock[c]
        BY <1>1, <3>2
      <4>2. PICK p \in Slot : p \notin FreeSlots /\ p \in Peers(c)
        BY <1>7, <4>1 DEF ConnectionInv
      <4>3. sock[p].remote_address = ClientNode[c] /\ sock[p].local_port = sock[c].remote_port
            /\ sock[p].remote_port = ClientPort[c]
        BY <4>2 DEF Peers, Address, ConnectionInv, IdentityInv
      <4> QED
        BY <4>1, <4>2, <4>3 DEF Answers
    <3> QED
      BY <3>1, <3>2
  <2>2. p \notin FreeSlots' /\ EndsKept(sock[p], sock'[p]) /\ p \in Sock
    BY <1>3, <2>1 DEF Answers
  <2>3. Address(p) = Server /\ Address(c) = ClientNode[c]
    BY DEF Address
  <2>4. /\ sock'[c].remote_address = Server
        /\ sock'[c].local_port = ClientPort[c]
    BY <1>4 DEF IdentityInv
  <2>5. /\ Address(p) = sock'[c].remote_address
        /\ Address(c) = sock'[p].remote_address
        /\ sock'[p].local_port = sock'[c].remote_port
        /\ sock'[c].local_port = sock'[p].remote_port
    BY <2>1, <2>2, <2>3, <2>4 DEF Answers, EndsKept, Ends
  <2>6. p \in Peers(c)'
    BY <2>2, <2>5 DEF Peers, Address
  <2> QED
    BY <2>2, <2>6
<1>8. ConnectionInv'
  BY <1>4, <1>5, <1>6, <1>7 DEF ConnectionInv
<1> QED
  BY <1>3, <1>8 DEF UsedSlotsKept

LEMMA ConnectionStep == ConnectionInv /\ [Next]_vars => ConnectionInv' /\ UsedSlotsKept
<1> SUFFICES ASSUME ConnectionInv, [Next]_vars PROVE ConnectionInv' /\ UsedSlotsKept
  OBVIOUS
<1>1. TypeOK /\ IdentityInv /\ TasksAddressed /\ TypeOK'
  BY StepForms DEF ConnectionInv
<1> USE Apart
<1>2. ASSUME NEW s \in Sock
      PROVE  /\ sock[s] \in SocketType
             /\ s \in Slot /\ s \in m_sockets => SlotOK(sock[s]) /\ s \notin FreeSlots
             /\ s \in Client => NoSubmitTask(sock[s])
             /\ s \in Slot /\ s \notin FreeSlots => sock[s].local_port # 0
             /\ s \in Client /\ sock[s].state \in {"connected", "closed"} =>
                  \E p \in Slot : Answers(p, s, sock[s])
  <2>1. sock[s] \in SocketType
    BY <1>1 DEF TypeOK
  <2>2. s \in Slot /\ s \in m_sockets => SlotOK(sock[s]) /\ s \notin FreeSlots
    BY <1>1 DEF IdentityInv, TasksAddressed, SlotOK
  <2>3. s \in Client => NoSubmitTask(sock[s])
    BY <1>1 DEF TasksAddressed, NoSubmitTask
  <2>4. ASSUME s \in Client, sock[s].state \in {"connected", "closed"}
        PROVE  \E p \in Slot : Answers(p, s, sock[s])
    <3>1. PICK p \in Slot : p \notin FreeSlots /\ p \in Peers(s)
      BY <2>4 DEF ConnectionInv
    <3>2. sock[p].remote_address = ClientNode[s] /\ sock[p].local_port = sock[s].remote_port
          /\ sock[p].remote_port = ClientPort[s]
      BY <1>1, <2>4, <3>1 DEF Peers, Address, IdentityInv
    <3> QED
      BY <3>1, <3>2 DEF Answers
  <2> QED
    BY <2>1, <2>2, <2>3, <2>4 DEF FreeSlots
<1>3. CASE StepStays
  <2>1. \A l \in Link : \A i \in DOMAIN net'[l] : SubmitNamesPeer(l, net'[l][i])
    BY <1>3 DEF StepStays, Carried, ConnectionInv
  <2>2. sock' = sock /\ taken' = taken /\ m_sockets' \subseteq m_sockets
    BY <1>3 DEF StepStays, histories
  <2>3. FreeSlots' = FreeSlots /\ \A c \in Client : Peers(c)' = Peers(c)
    BY <2>2 DEF FreeSlots, Peers, Address
  <2>4. IdentityInv' /\ TasksAddressed'
    BY <1>1, <2>2, <2>3 DEF IdentityInv, TasksAddressed
  <2>5. ASSUME NEW l \in Link, NEW i \in DOMAIN net'[l]
        PROVE  SubmitNamesPeer(l, net[l][i])'
    <3>1. PICK m : m = net'[l][i]
      OBVIOUS
    <3>2. SubmitNamesPeer(l, m)
      BY <2>1, <2>5, <3>1
    <3>3. SubmitNamesPeer(l, m)'
      BY <2>2, <2>3, <3>2 DEF SubmitNamesPeer
    <3> QED
      BY <3>1, <3>3
  <2>6. UsedSlotsKept
    BY <2>2, <2>3 DEF UsedSlotsKept, EndsKept, Ends
  <2> QED
    BY <1>1, <2>2, <2>3, <2>4, <2>5, <2>6 DEF ConnectionInv
<1>4. ASSUME NEW s \in Sock, StepCalls(s)
      PROVE  ConnectionInv' /\ UsedSlotsKept
  <2>1. /\ OnlySocket(s) /\ m_sockets' = m_sockets /\ net' = net
        /\ \/ s \in Client /\ Connects(sock[s], sock'[s])
           \/ Rests(sock[s], sock'[s]) \/ Expires(sock[s], sock'[s])
           \/ Sends(sock[s], sock'[s]) \/ Closes(sock[s], sock'[s])
    BY <1>4 DEF StepCalls
  <2>2. s \in Slot => SlotOK(sock'[s]) /\ EndsKept(sock[s], sock'[s])
    BY <1>2, <2>1, SlotKeeps DEF OnlySocket
  <2>3. ASSUME s \in Client
        PROVE  /\ Ends(sock[s], sock'[s]) /\ NoSubmitTask(sock'[s])
               /\ sock'[s].state \in {"connected", "closed"} =>
                    \E p \in Slot : Answers(p, s, sock'[s])
    <3>1. /\ Ends(sock[s], sock'[s]) /\ NoSubmitTask(sock'[s])
          /\ sock'[s].state \in {"connected", "closed"} =>
              \/ sock'[s].remote_port = sock[s].remote_port
                 /\ sock[s].state \in {"connected", "closed"}
              \/ \E h \in Message : HearsSubmit(sock[s], h, sock'[s])
      BY <1>2, <2>1, <2>3, ClientKeeps
    <3>2. ~ \E h \in Message : HearsSubmit(sock[s], h, sock'[s])
      <4>1. \/ sock[s].state # "waiting_for_submit" \/ sock'[s].state # "connected"
        BY <2>1 DEF Connects, Rests, Expires, Sends, Closes
      <4> QED
        BY <4>1 DEF HearsSubmit
    <3> QED
      BY <1>2, <2>3, <3>1, <3>2 DEF Answers
  <2>4. Carried({})
    BY <2>1, SameCarries
  <2>5. s \in m_sockets /\ \A x \in Sock \ {s} : sock'[x] = sock[x] /\ taken'[x] = taken[x]
    BY <2>1 DEF OnlySocket
  <2>6. s \in Slot => sock'[s].local_port # 0
    BY <1>2, <2>2, <2>5 DEF EndsKept, Ends
  <2> QED
    BY <1>1, <2>1, <2>2, <2>3, <2>4, <2>5, <2>6, ConnectionOneSocket
<1>5. ASSUME NEW s \in Sock, NEW m \in Message, StepPicks(s, m)
      PROVE  ConnectionInv' /\ UsedSlotsKept
  <2>1. /\ OnlySocket(s) /\ m_sockets' = m_sockets /\ Carried({<<LinkOf(s), m>>})
        /\ Rests(sock[s], sock'[s]) \/ Expires(sock[s], sock'[s])
        /\ IsTask(sock[s], m) \/ IsForceAck(sock[s], m)
    BY <1>5 DEF StepPicks
  <2>2. s \in Slot => SlotOK(sock'[s]) /\ EndsKept(sock[s], sock'[s])
    BY <1>2, <2>1, SlotKeeps DEF OnlySocket
  <2>3. ASSUME s \in Client
        PROVE  /\ Ends(sock[s], sock'[s]) /\ NoSubmitTask(sock'[s])
               /\ sock'[s].state \in {"connected", "closed"} =>
                    \E p \in Slot : Answers(p, s, sock'[s])
    <3>1. /\ Ends(sock[s], sock'[s]) /\ NoSubmitTask(sock'[s])
          /\ sock'[s].state \in {"connected", "closed"} =>
              \/ sock'[s].remote_port = sock[s].remote_port
                 /\ sock[s].state \in {"connected", "closed"}
              \/ \E h \in Message : HearsSubmit(sock[s], h, sock'[s])
      BY <1>2, <2>1, <2>3, ClientKeeps
    <3>2. ~ \E h \in Message : HearsSubmit(sock[s], h, sock'[s])
      <4>1. \/ sock[s].state # "waiting_for_submit" \/ sock'[s].state # "connected"
        BY <2>1 DEF Rests, Expires
      <4> QED
        BY <4>1 DEF HearsSubmit
    <3> QED
      BY <1>2, <2>3, <3>1, <3>2 DEF Answers
  <2>4. SubmitNamesPeer(LinkOf(s), m)
    <3>1. CASE IsForceAck(sock[s], m)
      BY <3>1 DEF IsForceAck, SubmitNamesPeer
    <3>2. CASE IsTask(sock[s], m) /\ s \in Client
      BY <1>1, <3>2 DEF IsTask, SubmitNamesPeer, TasksAddressed
    <3>3. CASE IsTask(sock[s], m) /\ s \in Slot
      <4>1. s \notin FreeSlots /\ Address(s) = Server
        BY <1>2, <2>1, <3>3 DEF OnlySocket, Address
      <4>2. /\ LinkOf(s)[1] = Server /\ LinkOf(s)[2] = sock[s].remote_address
            /\ m.sport = sock[s].local_port /\ m.dport = sock[s].remote_port
        BY <1>1, <3>3, <4>1 DEF LinkOf, IsTask, TasksAddressed
      <4> QED
        BY <3>3, <4>1, <4>2 DEF SubmitNamesPeer
    <3> QED
      BY <2>1, <3>1, <3>2, <3>3
  <2>5. s \in m_sockets /\ \A x \in Sock \ {s} : sock'[x] = sock[x] /\ taken'[x] = taken[x]
    BY <2>1 DEF OnlySocket
  <2>6. s \in Slot => sock'[s].local_port # 0
    BY <1>2, <2>2, <2>5 DEF EndsKept, Ends
  <2>7. \A n \in {<<LinkOf(s), m>>} : SubmitNamesPeer(n[1], n[2])
    BY <2>4
  <2> QED
    BY <1>1, <2>1, <2>2, <2>3, <2>5, <2>6, <2>7, ConnectionOneSocket
<1>6. ASSUME NEW l \in Link, NEW i \in DOMAIN net[l], NEW s \in Sock, StepHears(l, i, s)
      PROVE  ConnectionInv' /\ UsedSlotsKept
  <2> DEFINE m == net[l][i]
  <2>1. /\ OnlySocket(s) /\ m_sockets' = m_sockets /\ Carried({})
        /\ m \in Message /\ Recipient(l, m, s) /\ MayHear(sock[s], m)
        /\ Ends(sock[s], sock'[s]) /\ Hears(sock[s], m, sock'[s])
    BY <1>6 DEF StepHears
  <2> HIDE DEF m
  <2>2. s \in Slot => SlotOK(sock'[s]) /\ EndsKept(sock[s], sock'[s])
    BY <1>2, <2>1, SlotKeeps DEF OnlySocket
  <2>3. ASSUME s \in Client
        PROVE  /\ Ends(sock[s], sock'[s]) /\ NoSubmitTask(sock'[s])
               /\ sock'[s].state \in {"connected", "closed"} =>
                    \E p \in Slot : Answers(p, s, sock'[s])
    <3>1. /\ Ends(sock[s], sock'[s]) /\ NoSubmitTask(sock'[s])
          /\ sock'[s].state \in {"connected", "closed"} =>
              \/ sock'[s].remote_port = sock[s].remote_port
                 /\ sock[s].state \in {"connected", "closed"}
              \/ HearsSubmit(sock[s], m, sock'[s])
      <4>1. sock'[s].state \in {"connected", "closed"} /\ ~ HearsSubmit(sock[s], m, sock'[s])
            => sock'[s].remote_port = sock[s].remote_port
               /\ sock[s].state \in {"connected", "closed"}
        BY <2>1 DEF Hears, HearsAgain, HearsSubmit, HearsSubmitLate, HearsCloseSubmit,
                    HearsClose, HearsData
      <4>2. NoSubmitTask(sock[s])
        BY <1>2, <2>3
      <4>3. NoSubmitTask(sock'[s])
        BY <1>2, <2>1, <4>2, ClientKeeps
      <4> QED
        BY <2>1, <4>1, <4>3
    <3>2. ASSUME HearsSubmit(sock[s], m, sock'[s])
          PROVE  \E p \in Slot : Answers(p, s, sock'[s])
      <4>1. m.type = "connection_submit" /\ sock'[s].remote_port = m.sport
        BY <3>2 DEF HearsSubmit
      <4>2. SubmitNamesPeer(l, m)
        BY DEF ConnectionInv, m
      <4>3. PICK p \in Slot : /\ p \notin FreeSlots /\ sock[p].local_port = m.sport
                              /\ sock[p].remote_address = l[2]
                              /\ sock[p].remote_port = m.dport
        BY <4>1, <4>2 DEF SubmitNamesPeer
      <4>4. l[2] = ClientNode[s] /\ m.dport = ClientPort[s]
        BY <1>1, <2>1, <2>3 DEF Recipient, Address, IdentityInv
      <4> QED
        BY <4>1, <4>3, <4>4 DEF Answers
    <3> QED
      BY <1>2, <2>3, <3>1, <3>2 DEF Answers
  <2>5. s \in m_sockets /\ \A x \in Sock \ {s} : sock'[x] = sock[x] /\ taken'[x] = taken[x]
    BY <2>1 DEF OnlySocket
  <2>6. s \in Slot => sock'[s].local_port # 0
    BY <1>2, <2>2, <2>5 DEF EndsKept, Ends
  <2> QED
    BY <1>1, <2>1, <2>2, <2>3, <2>5, <2>6, ConnectionOneSocket
<1>7. ASSUME NEW l \in Link, NEW i \in DOMAIN net[l], NEW s \in Slot, StepAnswers(l, i, s)
      PROVE  ConnectionInv' /\ UsedSlotsKept
  <2>1. /\ OnlySocket(s) /\ s \in Slot /\ m_sockets' = m_sockets /\ taken' = taken
        /\ Carried({}) /\ Submits(sock[s], sock'[s], net[l][i].id)
    BY <1>7 DEF StepAnswers, histories
  <2>2. SlotOK(sock'[s]) /\ EndsKept(sock[s], sock'[s])
    BY <1>2, <2>1, SlotKeeps DEF OnlySocket
  <2>3. s \notin Client
    OBVIOUS
  <2>4. s \in m_sockets /\ s \in Sock
        /\ \A x \in Sock \ {s} : sock'[x] = sock[x] /\ taken'[x] = taken[x]
    BY <2>1 DEF OnlySocket
  <2>5. sock'[s].local_port # 0
    BY <1>2, <2>2, <2>4 DEF EndsKept, Ends
  <2> QED
    BY <1>1, <2>1, <2>2, <2>3, <2>4, <2>5, ConnectionOneSocket
<1>8. ASSUME NEW l \in Link, NEW i \in DOMAIN net[l], NEW s \in Slot, NEW port \in AcceptPorts,
             StepAccepts(l, i, s, port)
      PROVE  ConnectionInv' /\ UsedSlotsKept
  <2> DEFINE new == NewSocket(l[1], port, net[l][i].sport, sock[s].ack_task)
  <2>1. /\ s \in Sock /\ s \in FreeSlots /\ taken' = taken /\ m_sockets' = m_sockets \cup {s}
        /\ \A x \in Sock \ {s} : sock'[x] = sock[x]
        /\ Carried({}) /\ Submits(new, sock'[s], net[l][i].id)
    BY <1>8 DEF StepAccepts, histories
  <2>2. new.local_port = port
    BY DEF NewSocket
  <2>3. port # 0
    BY TransportAssumption
  <2> HIDE DEF new
  <2>4. SlotOK(sock'[s]) /\ sock'[s].local_port # 0
    BY <2>1, <2>2, <2>3 DEF Submits, NewTask, SlotOK
  <2>5. s \notin Client
    OBVIOUS
  <2> QED
    BY <1>1, <2>1, <2>4, <2>5, ConnectionOneSocket
<1> QED
  BY <1>1, <1>3, <1>4, <1>5, <1>6, <1>7, <1>8, StepForms

LEMMA InitSockets ==
  ASSUME Init, NEW s \in Sock
  PROVE  /\ sock[s].state = "not_connected" /\ sock[s].send_task.has = FALSE
         /\ sock[s].incoming = <<>> /\ taken[s] = <<>>
         /\ sock[s].remote_address = Server
         /\ sock[s].last_received = 0 /\ sock[s].last_outgoing = 0
         /\ sock[s].unconfirmed = 0
         /\ s \in Client => /\ sock[s].local_port = ClientPort[s]
                            /\ sock[s].remote_port = ListenPort
         /\ s \in Slot => sock[s].local_port = 0
<1> USE Apart
<1>1. taken[s] = <<>>
  BY DEF Init
<1>2. PICK a : sock[s] = IF s \in Client
                         THEN NewSocket(Server, ClientPort[s], ListenPort, a)
                         ELSE NewSocket(Server, 0, 0, a)
  BY DEF Init
<1>3. CASE s \in Client
  <2>1. sock[s] = NewSocket(Server, ClientPort[s], ListenPort, a)
    BY <1>2, <1>3
  <2> QED
    BY <1>1, <1>3, <2>1 DEF NewSocket, NoSendTask
<1>4. CASE s \notin Client
  <2>1. sock[s] = NewSocket(Server, 0, 0, a)
    BY <1>2, <1>4
  <2> QED
    BY <1>1, <1>4, <2>1 DEF NewSocket, NoSendTask
<1> QED
  BY <1>3, <1>4

LEMMA ConnectionInit == Init => ConnectionInv
<1> SUFFICES ASSUME Init PROVE ConnectionInv
  OBVIOUS
<1> USE Apart
<1>1. TypeOK
  BY InitType
<1>2. \A c \in Client : c \in Sock
  OBVIOUS
<1>3. \A s \in Sock : /\ sock[s].state = "not_connected" /\ sock[s].send_task.has = FALSE
                      /\ sock[s].incoming = <<>> /\ taken[s] = <<>>
  BY InitSockets
<1>4. \A c \in Client : sock[c].remote_address = Server /\ sock[c].local_port = ClientPort[c]
  BY <1>2, InitSockets
<1>5. m_sockets = Client /\ \A l \in Link : net[l] = <<>>
  BY DEF Init
<1>6. IdentityInv
  BY <1>3, <1>4, <1>5 DEF IdentityInv
<1>7. TasksAddressed
  BY <1>3 DEF TasksAddressed
<1>8. \A l \in Link : \A i \in DOMAIN net[l] : SubmitNamesPeer(l, net[l][i])
  BY <1>5
<1> QED
  BY <1>1, <1>3, <1>6, <1>7, <1>8 DEF ConnectionInv

\* The acceptor's sockets keep the address and the port they were created for, and
\* a submit names a socket that was created for the client it goes to.
THEOREM ConnectionInvariant == Spec => []ConnectionInv
<1>1. Init => ConnectionInv
  BY ConnectionInit
<1>2. ConnectionInv /\ [Next]_vars => ConnectionInv'
  BY ConnectionStep
<1> QED
  BY <1>1, <1>2, PTL DEF Spec

\* A client that has been answered knows the port of a socket which the acceptor
\* created for it: dispatching submits by address and destination port is enough.
THEOREM ConnectedClientHasPeer == Spec => []ConnectedHasPeer
<1>1. ConnectionInv => ConnectedHasPeer
  BY DEF ConnectionInv, ConnectedHasPeer
<1> QED
  BY <1>1, ConnectionInvariant, PTL

-----------------------------------------------------------------------------
(* One socket for each connection request *)

\* A client that has asked stays a client that has asked, and only connect() makes
\* a connection request.
LEMMA ClientAsks ==
  ASSUME NEW b \in SocketType, NEW t,
         \/ Rests(b, t) \/ Expires(b, t) \/ Sends(b, t) \/ Closes(b, t)
         \/ \E h \in Message : MayHear(b, h) /\ Hears(b, h, t)
  PROVE  /\ b.state # "not_connected" => t.state # "not_connected"
         /\ t.send_task.has /\ t.send_task.type = "connection_request" =>
              b.send_task.has /\ b.send_task.type = "connection_request"
              /\ t.send_task.id = b.send_task.id
<1>1. CASE Rests(b, t)
  BY <1>1 DEF Rests, SocketType, SendTask
<1>2. CASE Expires(b, t)
  BY <1>2 DEF Expires, NoSendTask
<1>3. CASE Sends(b, t) \/ Closes(b, t)
  BY <1>3 DEF Sends, Closes, NewTask
<1>4. CASE \E h \in Message : MayHear(b, h) /\ Hears(b, h, t)
  <2>1. PICK h \in Message : MayHear(b, h) /\ Hears(b, h, t)
    BY <1>4
  <2>2. CASE HearsClose(b, h, t)
    BY <2>2 DEF HearsClose, NewTask
  <2>3. CASE HearsSubmit(b, h, t) \/ HearsCloseSubmit(b, h, t)
    BY <2>3 DEF HearsSubmit, HearsCloseSubmit, NoSendTask
  <2>4. CASE HearsAgain(b, h, t) \/ HearsSubmitLate(b, h, t) \/ HearsData(b, h, t)
    <3>1. t.send_task = LeftTask(b, h) /\ t.state = b.state
      BY <2>4 DEF HearsAgain, HearsSubmitLate, HearsData
    <3> QED
      BY <3>1, LeftTaskIs
  <2> QED
    BY <2>1, <2>2, <2>3, <2>4 DEF Hears
<1> QED
  BY <1>1, <1>2, <1>3, <1>4

\* A used slot is at the other end of one client.
LEMMA ServesOne ==
  ASSUME NEW p, NEW c \in Client, NEW d \in Client, Serves(p, c), Serves(p, d)
  PROVE  c = d
  BY TransportAssumption DEF Serves

LEMMA ServesKept ==
  ASSUME UsedSlotsKept, NEW p \in Slot, NEW c \in Client, p \notin FreeSlots
  PROVE  Serves(p, c)' <=> Serves(p, c)
  BY DEF UsedSlotsKept, EndsKept, Ends, Serves

\* What is enough for a step that leaves the cache and the pool of slots alone.
LEMMA RequestsKept ==
  ASSUME ConnectionInv, UsedSlotsKept, NEW f, NEW g, RequestsOf(f),
         \A c \in Client : Asked(c) => Asked(c)' /\ g[c] = f[c],
         \A c \in Client :
            sock'[c].send_task.has /\ sock'[c].send_task.type = "connection_request" =>
               Asked(c)' /\ sock'[c].send_task.id = g[c],
         NEW new, Carried(new), \A n \in new : RequestFrom(g, n[1], n[2])',
         m_sockets' \subseteq m_sockets, FreeSlots' = FreeSlots,
         Cached(cache') = Cached(cache), cache'.map = cache.map
  PROVE  RequestsOf(g)'
<1>1. ASSUME NEW l \in Link, NEW i \in DOMAIN net'[l]
      PROVE  RequestFrom(g, l, net[l][i])'
  <2>1. PICK m : m = net'[l][i]
    OBVIOUS
  <2>2. RequestFrom(g, l, m)'
    <3>1. CASE \E k \in DOMAIN net[l] : m = net[l][k]
      <4>1. RequestFrom(f, l, m)
        BY <3>1 DEF RequestsOf
      <4> QED
        BY <4>1 DEF RequestFrom
    <3>2. CASE <<l, m>> \in new
      <4>1. PICK n \in new : n = <<l, m>>
        BY <3>2
      <4>2. n[1] = l /\ n[2] = m
        BY <4>1
      <4> QED
        BY <4>2
    <3> QED
      BY <1>1, <2>1, <3>1, <3>2 DEF Carried
  <2> QED
    BY <2>1, <2>2
<1>2. ASSUME NEW r \in Cached(cache')
      PROVE  \E c \in Client : Asked(c)' /\ r = g[c] /\ Serves(cache.map[r], c)'
  <2>1. r \in Cached(cache) /\ cache'.map[r] = cache.map[r]
    OBVIOUS
  <2>2. PICK c \in Client : Asked(c) /\ r = f[c] /\ Serves(cache.map[r], c)
    BY <2>1 DEF RequestsOf
  <2>3. PICK p : p = cache.map[r]
    OBVIOUS
  <2>4. p \in Slot /\ p \notin FreeSlots
    BY <2>1, <2>2, <2>3 DEF ConnectionInv, TypeOK, IsCache, Serves
  <2>5. Serves(p, c)'
    BY <2>2, <2>3, <2>4, ServesKept
  <2> QED
    BY <2>1, <2>2, <2>3, <2>5
<1>3. ASSUME NEW s \in Slot, s \notin FreeSlots'
      PROVE  \E c \in Client : Asked(c)' /\ Serves(s, c)'
  <2>1. PICK c \in Client : Asked(c) /\ Serves(s, c)
    BY <1>3 DEF RequestsOf
  <2> QED
    BY <1>3, <2>1, ServesKept
<1> QED
  BY <1>1, <1>2, <1>3 DEF RequestsOf

LEMMA KnownSocketsKept ==
  ASSUME ConnectionInv, ConnectionInv', UsedSlotsKept, NEW f, NEW g, RequestsOf(f),
         KnownSockets(f), \A c \in Client : Asked(c) => g[c] = f[c],
         m_sockets' \subseteq m_sockets, FreeSlots' = FreeSlots,
         Cached(cache') = Cached(cache), cache'.map = cache.map
  PROVE  KnownSockets(g)'
<1> SUFFICES ASSUME NEW s \in Slot \cap m_sockets', NEW c \in Client, Serves(s, c)'
             PROVE  g[c] \in Cached(cache') /\ cache'.map[g[c]] = s
  BY DEF KnownSockets
<1>1. s \notin FreeSlots
  BY DEF ConnectionInv, IdentityInv
<1>2. Serves(s, c)
  BY <1>1, ServesKept
<1>3. PICK d \in Client : Asked(d) /\ Serves(s, d)
  BY <1>1 DEF RequestsOf
<1>4. c = d
  BY <1>2, <1>3, ServesOne
<1>5. g[c] = f[c] /\ s \in Slot \cap m_sockets
  BY <1>3, <1>4
<1> QED
  BY <1>2, <1>5 DEF KnownSockets

\* The acceptor makes socket s for the request of one client.
LEMMA AcceptedSlot ==
  ASSUME ConnectionInv, NEW f, RequestsOf(f),
         NEW l \in Link, NEW i \in DOMAIN net[l], NEW s \in Slot, NEW port \in AcceptPorts,
         StepAccepts(l, i, s, port)
  PROVE  /\ s \in FreeSlots /\ net[l][i].id \in Id
         /\ \E c \in Client : /\ Asked(c) /\ net[l][i].id = f[c] /\ Serves(s, c)'
                              /\ \A d \in Client : Serves(s, d)' => d = c
         /\ \A d \in Client : sock'[d] = sock[d] /\ (Asked(d)' <=> Asked(d))
         /\ \A p \in Slot \ {s} : /\ sock'[p] = sock[p]
                                  /\ p \in FreeSlots' <=> p \in FreeSlots
                                  /\ \A d \in Client : Serves(p, d)' <=> Serves(p, d)
         /\ sock'[s].local_port = port
         /\ sock'[s].ack_task.has /\ sock'[s].ack_task.id = net[l][i].id
<1> USE Apart
<1> DEFINE m == net[l][i]
<1>1. /\ s \in FreeSlots /\ m \in Message /\ m.type = "connection_request"
      /\ \A x \in Sock \ {s} : sock'[x] = sock[x]
  BY DEF StepAccepts, AsksAcceptor
<1>2. /\ sock'[s].remote_address = l[1] /\ sock'[s].remote_port = m.sport
      /\ sock'[s].local_port = port
      /\ sock'[s].ack_task.has /\ sock'[s].ack_task.id = m.id
  <2> DEFINE new == NewSocket(l[1], port, m.sport, sock[s].ack_task)
  <2>1. new.remote_address = l[1] /\ new.local_port = port /\ new.remote_port = m.sport
    BY DEF NewSocket
  <2>2. Submits(new, sock'[s], m.id)
    BY DEF StepAccepts
  <2> HIDE DEF new, m
  <2> QED
    BY <2>1, <2>2 DEF Submits
<1>3. PICK c \in Client : Asked(c) /\ l[1] = ClientNode[c] /\ m.sport = ClientPort[c]
                          /\ m.id = f[c]
  BY <1>1 DEF RequestsOf, RequestFrom
<1>4. m.id \in Id
  BY <1>1 DEF Message
<1> HIDE DEF m
<1>5. \A d \in Client : sock'[d] = sock[d] /\ (Asked(d)' <=> Asked(d))
  BY <1>1 DEF Asked
<1>6. \A p \in Slot \ {s} : /\ sock'[p] = sock[p]
                            /\ p \in FreeSlots' <=> p \in FreeSlots
                            /\ \A d \in Client : Serves(p, d)' <=> Serves(p, d)
  BY <1>1 DEF FreeSlots, Serves
<1>7. Serves(s, c)'
  <2>1. s \notin FreeSlots'
    BY <1>2, TransportAssumption DEF FreeSlots
  <2> QED
    BY <1>2, <1>3, <2>1 DEF Serves
<1>8. \A d \in Client : Serves(s, d)' => d = c
  BY <1>2, <1>3, TransportAssumption DEF Serves
<1>9. \E e \in Client : /\ Asked(e) /\ m.id = f[e] /\ Serves(s, e)'
                        /\ \A d \in Client : Serves(s, d)' => d = e
  BY <1>3, <1>7, <1>8
<1> QED
  BY <1>1, <1>2, <1>4, <1>5, <1>6, <1>9 DEF m

LEMMA RequestsAccept ==
  ASSUME ConnectionInv, NEW f, RequestsOf(f),
         NEW l \in Link, NEW i \in DOMAIN net[l], NEW s \in Slot, NEW port \in AcceptPorts,
         StepAccepts(l, i, s, port)
  PROVE  RequestsOf(f)'
<1> DEFINE id == net[l][i].id
           old == Erase(cache, id)
<1>1. cache' = PutUpdate(old, id, s, CacheMax) /\ Carried({})
  BY DEF StepAccepts
<1>2. PICK c \in Client : Asked(c) /\ id = f[c] /\ Serves(s, c)'
  BY AcceptedSlot
<1>3. \A d \in Client : sock'[d] = sock[d] /\ (Asked(d)' <=> Asked(d))
  BY AcceptedSlot
<1>4. s \in FreeSlots
      /\ \A p \in Slot \ {s} : /\ p \in FreeSlots' <=> p \in FreeSlots
                               /\ \A d \in Client : Serves(p, d)' <=> Serves(p, d)
  BY AcceptedSlot
<1> HIDE DEF id
<1>5. /\ Cached(cache') \subseteq Cached(cache) \cup {id}
      /\ \A k \in Cached(cache') : cache'.map[k] = IF k = id THEN s ELSE cache.map[k]
  <2>1. Cached(old) = Cached(cache) \ {id} /\ \A k \in Cached(old) : old.map[k] = cache.map[k]
    BY EraseUncaches
  <2> HIDE DEF old
  <2>2. /\ Cached(cache') \subseteq Cached(old) \cup {id}
        /\ \A k \in Cached(cache') : cache'.map[k] = IF k = id THEN s ELSE old.map[k]
    BY <1>1, <2>1, PutUpdateCaches
  <2> QED
    BY <2>1, <2>2
<1>6. ASSUME NEW d \in Client, sock'[d].send_task.has,
             sock'[d].send_task.type = "connection_request"
      PROVE  Asked(d)' /\ sock'[d].send_task.id = f[d]
  BY <1>3, <1>6 DEF RequestsOf
<1>7. ASSUME NEW k \in Link, NEW j \in DOMAIN net'[k]
      PROVE  RequestFrom(f, k, net[k][j])'
  <2>1. PICK n : n = net'[k][j]
    OBVIOUS
  <2>2. RequestFrom(f, k, n)
    BY <1>1, <2>1 DEF Carried, RequestsOf
  <2>3. RequestFrom(f, k, n)'
    BY <1>3, <2>2 DEF RequestFrom
  <2> QED
    BY <2>1, <2>3
<1>8. ASSUME NEW r \in Cached(cache')
      PROVE  \E d \in Client : Asked(d)' /\ r = f[d] /\ Serves(cache.map[r], d)'
  <2>1. PICK p : p = cache'.map[r]
    OBVIOUS
  <2>2. CASE r = id
    BY <1>2, <1>3, <1>5, <2>1, <2>2
  <2>3. CASE r # id
    <3>1. r \in Cached(cache) /\ p = cache.map[r]
      BY <1>5, <2>1, <2>3
    <3>2. PICK d \in Client : Asked(d) /\ r = f[d] /\ Serves(p, d)
      BY <3>1 DEF RequestsOf
    <3>3. p \in Slot \ {s}
      BY <1>4, <3>1, <3>2 DEF ConnectionInv, TypeOK, IsCache, Serves
    <3> QED
      BY <1>3, <1>4, <2>1, <3>2, <3>3
  <2> QED
    BY <2>2, <2>3
<1>9. ASSUME NEW p \in Slot, p \notin FreeSlots'
      PROVE  \E d \in Client : Asked(d)' /\ Serves(p, d)'
  <2>1. CASE p = s
    BY <1>2, <1>3, <2>1
  <2>2. CASE p # s
    BY <1>3, <1>4, <1>9, <2>2 DEF RequestsOf
  <2> QED
    BY <2>1, <2>2
<1> QED
  BY <1>6, <1>7, <1>8, <1>9 DEF RequestsOf

LEMMA KnownSocketsAccept ==
  ASSUME FewClients, ConnectionInv, ListsKeysOnce(cache),
         NEW f \in [Client -> Id], RequestsOf(f), KnownSockets(f),
         NEW l \in Link, NEW i \in DOMAIN net[l], NEW s \in Slot, NEW port \in AcceptPorts,
         StepAccepts(l, i, s, port)
  PROVE  KnownSockets(f)' /\ ListsKeysOnce(cache')
<1> DEFINE id == net[l][i].id
           old == Erase(cache, id)
<1>1. /\ id \in Cached(cache) => cache.map[id] \notin m_sockets
      /\ cache' = PutUpdate(old, id, s, CacheMax)
      /\ m_sockets' = m_sockets \cup {s}
  BY DEF StepAccepts
<1>2. PICK c \in Client : Asked(c) /\ id = f[c] /\ \A d \in Client : Serves(s, d)' => d = c
  BY AcceptedSlot
<1>3. id \in Id /\ IsCache(cache, Id, Slot)
  BY AcceptedSlot DEF ConnectionInv, TypeOK
<1>4. \A p \in Slot \ {s} : \A d \in Client : Serves(p, d)' <=> Serves(p, d)
  BY AcceptedSlot
<1> HIDE DEF id
<1>5. /\ IsCache(old, Id, Slot)
      /\ ListsKeysOnce(old)
      /\ Cached(old) = Cached(cache) \ {id}
      /\ \A k \in Cached(old) : old.map[k] = cache.map[k]
  BY <1>3, EraseIsCache, EraseErases, EraseUncaches
<1> HIDE DEF old
<1>6. Len(old.list) # CacheMax
  <2>1. \A k \in Cached(old) : \E x \in Client : k = f[x]
    BY <1>5 DEF RequestsOf
  <2>2. DOMAIN f = Client /\ CacheMax \in Nat /\ id \notin Cached(old)
    BY <1>5, TransportAssumption
  <2> QED
    BY <1>2, <1>5, <2>1, <2>2, PlaceLeft DEF FewClients
<1>7. /\ ListsKeysOnce(cache')
      /\ Cached(cache') = Cached(cache) \cup {id}
      /\ cache'.map[id] = s
      /\ \A k \in Cached(cache) \ {id} : cache'.map[k] = cache.map[k]
  <2>1. id \notin Cached(old)
    BY <1>5
  <2>2. /\ ListsKeysOnce(cache')
        /\ Cached(cache') = Cached(old) \cup {id}
        /\ \A k \in Cached(cache') : cache'.map[k] = IF k = id THEN s ELSE old.map[k]
    BY <1>1, <1>3, <1>5, <1>6, <2>1, PutUpdateAdds
  <2> QED
    BY <1>5, <2>2
<1>8. ASSUME NEW p \in Slot \cap m_sockets', NEW d \in Client, Serves(p, d)'
      PROVE  f[d] \in Cached(cache') /\ cache'.map[f[d]] = p
  <2>1. CASE p = s
    BY <1>2, <1>7, <1>8, <2>1
  <2>2. CASE p # s
    <3>1. p \in Slot \cap m_sockets /\ Serves(p, d)
      BY <1>1, <1>4, <1>8, <2>2
    <3>2. f[d] \in Cached(cache) /\ cache.map[f[d]] = p
      BY <3>1 DEF KnownSockets
    <3>3. f[d] # id
      BY <1>1, <3>1, <3>2
    <3> QED
      BY <1>7, <3>2, <3>3
  <2> QED
    BY <2>1, <2>2
<1> QED
  BY <1>7, <1>8 DEF KnownSockets

\* What a step does to the cache and to the pool of slots, if it is no AcceptNew.
CacheRests ==
    /\ m_sockets' \subseteq m_sockets
    /\ FreeSlots' = FreeSlots
    /\ Cached(cache') = Cached(cache)
    /\ cache'.map = cache.map
    /\ ListsKeysOnce(cache) => ListsKeysOnce(cache')

\* A step may give one client its id; the ids given before it stay.
LEMMA RequestsStep ==
  ASSUME ConnectionInv, NEW f \in [Client -> Id], RequestsOf(f), [Next]_vars
  PROVE  /\ \E g \in [Client -> Id] :
               RequestsOf(g)' /\ \A c \in Client : Asked(c) => Asked(c)' /\ g[c] = f[c]
         /\ \/ CacheRests
            \/ \E l \in Link : \E i \in DOMAIN net[l], s \in Slot, port \in AcceptPorts :
                  StepAccepts(l, i, s, port)
<1> DEFINE Kept(g) == \A c \in Client : Asked(c) => Asked(c)' /\ g[c] = f[c]
           Goal == /\ \E g \in [Client -> Id] : RequestsOf(g)' /\ Kept(g)
                   /\ \/ CacheRests
                      \/ \E l \in Link :
                            \E i \in DOMAIN net[l], s \in Slot, port \in AcceptPorts :
                               StepAccepts(l, i, s, port)
<1> USE Apart
<1>1. RequestsOf(f)
  OBVIOUS
<1>2. TypeOK /\ TypeOK' /\ IdentityInv /\ TasksAddressed
  BY StepForms DEF ConnectionInv
<1>3. UsedSlotsKept
  BY ConnectionStep
<1>4. ASSUME NEW s \in Sock
      PROVE  /\ sock[s] \in SocketType
             /\ s \in Slot /\ s \in m_sockets => SlotOK(sock[s]) /\ s \notin FreeSlots
  BY <1>2 DEF TypeOK, IdentityInv, TasksAddressed, SlotOK
\* The steps that leave the cache and the pool of slots alone, and do not connect.
<1>5. ASSUME NEW s \in Sock, OnlySocket(s), m_sockets' = m_sockets, NEW new, Carried(new),
             \/ Rests(sock[s], sock'[s]) \/ Expires(sock[s], sock'[s])
             \/ Sends(sock[s], sock'[s]) \/ Closes(sock[s], sock'[s])
             \/ \E h \in Message : MayHear(sock[s], h) /\ Hears(sock[s], h, sock'[s])
      PROVE  /\ FreeSlots' = FreeSlots
             /\ \A c \in Client : Asked(c) => Asked(c)'
             /\ \A c \in Client :
                  sock'[c].send_task.has /\ sock'[c].send_task.type = "connection_request" =>
                     Asked(c)' /\ sock'[c].send_task.id = f[c]
  <2>1. s \in m_sockets /\ \A x \in Sock \ {s} : sock'[x] = sock[x]
    BY <1>5 DEF OnlySocket
  <2>2. FreeSlots' = FreeSlots
    <3>1. \A p \in Slot \ {s} : p \in FreeSlots' <=> p \in FreeSlots
      BY <2>1 DEF FreeSlots
    <3>2. s \in Slot => s \notin FreeSlots /\ s \notin FreeSlots'
      BY <1>3, <1>4, <2>1 DEF UsedSlotsKept
    <3>3. FreeSlots' \subseteq Slot /\ FreeSlots \subseteq Slot
      BY DEF FreeSlots
    <3> QED
      BY <3>1, <3>2, <3>3
  <2>3. /\ sock[s].state # "not_connected" => sock'[s].state # "not_connected"
        /\ sock'[s].send_task.has /\ sock'[s].send_task.type = "connection_request" =>
             sock[s].send_task.has /\ sock[s].send_task.type = "connection_request"
             /\ sock'[s].send_task.id = sock[s].send_task.id
    BY <1>4, <1>5, ClientAsks
  <2>4. \A c \in Client : Asked(c) => Asked(c)'
    BY <2>1, <2>3 DEF Asked
  <2>5. ASSUME NEW c \in Client, sock'[c].send_task.has,
               sock'[c].send_task.type = "connection_request"
        PROVE  Asked(c)' /\ sock'[c].send_task.id = f[c]
    <3>1. sock[c].send_task.has /\ sock[c].send_task.type = "connection_request"
          /\ sock'[c].send_task.id = sock[c].send_task.id
      BY <2>1, <2>3, <2>5
    <3>2. Asked(c) /\ sock[c].send_task.id = f[c]
      BY <1>1, <3>1 DEF RequestsOf
    <3> QED
      BY <2>4, <3>1, <3>2
  <2> QED
    BY <2>2, <2>4, <2>5
<1>6. CASE StepStays
  <2>1. sock' = sock /\ cache' = cache /\ m_sockets' \subseteq m_sockets /\ Carried({})
    BY <1>6 DEF StepStays
  <2>2. FreeSlots' = FreeSlots /\ \A c \in Client : Asked(c)' <=> Asked(c)
    BY <2>1 DEF FreeSlots, Asked
  <2>3. \A c \in Client :
          sock'[c].send_task.has /\ sock'[c].send_task.type = "connection_request" =>
             Asked(c)' /\ sock'[c].send_task.id = f[c]
    BY <1>1, <2>1, <2>2 DEF RequestsOf
  <2>4. RequestsOf(f)'
    BY <1>1, <1>3, <2>1, <2>2, <2>3, RequestsKept
  <2> QED
    BY <1>1, <2>1, <2>2, <2>4 DEF CacheRests
<1>7. ASSUME NEW s \in Client, StepCalls(s), Connects(sock[s], sock'[s])
      PROVE  Goal
  <2>1. /\ s \in m_sockets /\ \A x \in Sock \ {s} : sock'[x] = sock[x]
        /\ m_sockets' = m_sockets /\ cache' = cache /\ net' = net
    BY <1>7 DEF StepCalls, OnlySocket
  <2>2. PICK r \in RequestIds : sock'[s].send_task.id = r
    BY <1>7 DEF Connects, NewTask
  <2> DEFINE g == [f EXCEPT ![s] = r]
  <2>3. g \in [Client -> Id] /\ g[s] = r /\ \A c \in Client \ {s} : g[c] = f[c]
    BY <2>2, TransportAssumption
  <2> HIDE DEF g
  <2>4. ~ Asked(s) /\ Asked(s)' /\ \A c \in Client \ {s} : Asked(c)' <=> Asked(c)
    BY <1>7, <2>1 DEF Asked, Connects
  <2>5. FreeSlots' = FreeSlots
    BY <2>1 DEF FreeSlots
  <2>6. ASSUME NEW c \in Client, sock'[c].send_task.has,
               sock'[c].send_task.type = "connection_request"
        PROVE  Asked(c)' /\ sock'[c].send_task.id = g[c]
    <3>1. CASE c = s
      BY <2>2, <2>3, <2>4, <3>1
    <3>2. CASE c # s
      BY <1>1, <2>1, <2>3, <2>4, <2>6, <3>2 DEF RequestsOf
    <3> QED
      BY <3>1, <3>2
  <2>7. Carried({})
    BY <2>1, SameCarries
  <2>8. RequestsOf(g)'
    BY <1>1, <1>3, <2>1, <2>3, <2>4, <2>5, <2>6, <2>7, RequestsKept
  <2> QED
    BY <2>1, <2>3, <2>4, <2>5, <2>8 DEF CacheRests
<1>8. ASSUME NEW s \in Sock, StepCalls(s), ~ (s \in Client /\ Connects(sock[s], sock'[s]))
      PROVE  Goal
  <2>1. /\ OnlySocket(s) /\ m_sockets' = m_sockets /\ cache' = cache /\ net' = net
        /\ \/ Rests(sock[s], sock'[s]) \/ Expires(sock[s], sock'[s])
           \/ Sends(sock[s], sock'[s]) \/ Closes(sock[s], sock'[s])
    BY <1>8 DEF StepCalls
  <2>2. Carried({})
    BY <2>1, SameCarries
  <2>3. /\ FreeSlots' = FreeSlots
        /\ \A c \in Client : Asked(c) => Asked(c)'
        /\ \A c \in Client :
             sock'[c].send_task.has /\ sock'[c].send_task.type = "connection_request" =>
                Asked(c)' /\ sock'[c].send_task.id = f[c]
    BY <1>5, <2>1, <2>2
  <2>4. RequestsOf(f)'
    BY <1>1, <1>3, <2>1, <2>2, <2>3, RequestsKept
  <2> QED
    BY <2>1, <2>3, <2>4 DEF CacheRests
<1>9. ASSUME NEW s \in Sock, NEW m \in Message, StepPicks(s, m)
      PROVE  Goal
  <2>1. /\ OnlySocket(s) /\ m_sockets' = m_sockets /\ cache' = cache
        /\ Carried({<<LinkOf(s), m>>})
        /\ Rests(sock[s], sock'[s]) \/ Expires(sock[s], sock'[s])
        /\ IsTask(sock[s], m) \/ IsForceAck(sock[s], m)
    BY <1>9 DEF StepPicks
  <2>2. /\ FreeSlots' = FreeSlots
        /\ \A c \in Client : Asked(c) => Asked(c)'
        /\ \A c \in Client :
             sock'[c].send_task.has /\ sock'[c].send_task.type = "connection_request" =>
                Asked(c)' /\ sock'[c].send_task.id = f[c]
    BY <1>5, <2>1
  <2>3. PICK l : l = LinkOf(s)
    OBVIOUS
  <2>4. ASSUME m.type = "connection_request"
        PROVE  \E c \in Client : /\ Asked(c)'
                                 /\ l[1] = ClientNode[c]
                                 /\ m.sport = ClientPort[c]
                                 /\ m.id = f[c]
    <3>1. IsTask(sock[s], m)
      BY <2>1, <2>4 DEF IsForceAck
    <3>2. sock[s].send_task.has /\ sock[s].send_task.type = "connection_request"
          /\ m.id = sock[s].send_task.id /\ m.sport = sock[s].local_port
      BY <2>4, <3>1 DEF IsTask
    <3>3. s \in Client
      BY <1>4, <2>1, <3>2 DEF OnlySocket, SlotOK
    <3>4. Asked(s) /\ sock[s].send_task.id = f[s]
      BY <1>1, <3>2, <3>3 DEF RequestsOf
    <3>5. l[1] = ClientNode[s] /\ sock[s].local_port = ClientPort[s]
      BY <1>2, <2>3, <3>3 DEF LinkOf, Address, IdentityInv
    <3> QED
      BY <2>2, <3>2, <3>3, <3>4, <3>5
  <2>5. RequestFrom(f, l, m)'
    BY <2>4 DEF RequestFrom
  <2>6. Carried({<<l, m>>})
    BY <2>1, <2>3
  <2>7. \A n \in {<<l, m>>} : RequestFrom(f, n[1], n[2])'
    BY <2>5
  <2>8. RequestsOf(f)'
    BY <1>1, <1>3, <2>1, <2>2, <2>6, <2>7, RequestsKept
  <2> QED
    BY <2>1, <2>2, <2>8 DEF CacheRests
<1>10. ASSUME NEW l \in Link, NEW i \in DOMAIN net[l], NEW s \in Sock, StepHears(l, i, s)
       PROVE  Goal
  <2>1. /\ OnlySocket(s) /\ m_sockets' = m_sockets /\ cache' = cache /\ Carried({})
        /\ net[l][i] \in Message /\ MayHear(sock[s], net[l][i])
        /\ Hears(sock[s], net[l][i], sock'[s])
    BY <1>10 DEF StepHears
  <2>2. /\ FreeSlots' = FreeSlots
        /\ \A c \in Client : Asked(c) => Asked(c)'
        /\ \A c \in Client :
             sock'[c].send_task.has /\ sock'[c].send_task.type = "connection_request" =>
                Asked(c)' /\ sock'[c].send_task.id = f[c]
    BY <1>5, <2>1
  <2>3. RequestsOf(f)'
    BY <1>1, <1>3, <2>1, <2>2, RequestsKept
  <2> QED
    BY <2>1, <2>2, <2>3 DEF CacheRests
<1>11. ASSUME NEW l \in Link, NEW i \in DOMAIN net[l], NEW s \in Slot, StepAnswers(l, i, s)
       PROVE  Goal
  <2> DEFINE r == net[l][i].id
  <2>1. /\ s \in m_sockets /\ \A x \in Sock \ {s} : sock'[x] = sock[x]
        /\ m_sockets' = m_sockets /\ cache' = GetUpdate(cache, r) /\ Carried({})
    BY <1>11 DEF StepAnswers, OnlySocket
  <2>2. \A c \in Client : sock'[c] = sock[c] /\ (Asked(c)' <=> Asked(c))
    BY <2>1 DEF Asked
  <2>3. FreeSlots' = FreeSlots
    <3>1. \A p \in Slot \ {s} : p \in FreeSlots' <=> p \in FreeSlots
      BY <2>1 DEF FreeSlots
    <3>2. s \notin FreeSlots /\ s \notin FreeSlots'
      BY <1>3, <1>4, <2>1 DEF UsedSlotsKept
    <3>3. FreeSlots' \subseteq Slot /\ FreeSlots \subseteq Slot
      BY DEF FreeSlots
    <3> QED
      BY <3>1, <3>2, <3>3
  <2> HIDE DEF r
  <2>4. IsCache(cache, Id, Slot)
    BY <1>2 DEF TypeOK
  <2>5. cache'.map = cache.map /\ Cached(cache') = Cached(cache)
        /\ (ListsKeysOnce(cache) => ListsKeysOnce(cache'))
    BY <2>1, <2>4, GetUpdateIsCache, GetUpdateMoves DEF Cached
  <2>6. \A c \in Client :
          sock'[c].send_task.has /\ sock'[c].send_task.type = "connection_request" =>
             Asked(c)' /\ sock'[c].send_task.id = f[c]
    BY <1>1, <2>2 DEF RequestsOf
  <2>7. RequestsOf(f)'
    BY <1>1, <1>3, <2>1, <2>2, <2>3, <2>5, <2>6, RequestsKept
  <2> QED
    BY <2>1, <2>2, <2>3, <2>5, <2>7 DEF CacheRests
<1>12. ASSUME NEW l \in Link, NEW i \in DOMAIN net[l], NEW s \in Slot, NEW port \in AcceptPorts,
              StepAccepts(l, i, s, port)
       PROVE  Goal
  <2>1. RequestsOf(f)'
    BY <1>1, <1>12, RequestsAccept
  <2>2. Kept(f)
    BY <1>1, <1>12, AcceptedSlot
  <2> QED
    BY <1>12, <2>1, <2>2
<1> QED
  BY <1>2, <1>6, <1>7, <1>8, <1>9, <1>10, <1>11, <1>12, StepForms

LEMMA RequestStep ==
  ASSUME FewClients, ConnectionInv, RequestInv, [Next]_vars
  PROVE  RequestInv'
<1>1. PICK f \in [Client -> Id] : RequestsOf(f) /\ KnownSockets(f)
  BY DEF RequestInv
<1>2. ListsKeysOnce(cache)
  BY DEF RequestInv
<1>3. UsedSlotsKept /\ ConnectionInv'
  BY ConnectionStep
<1>4. PICK g \in [Client -> Id] :
         RequestsOf(g)' /\ \A c \in Client : Asked(c) => Asked(c)' /\ g[c] = f[c]
  BY <1>1, RequestsStep
<1>5. CASE CacheRests
  <2>1. KnownSockets(g)'
    BY <1>1, <1>3, <1>4, <1>5, KnownSocketsKept DEF CacheRests
  <2> QED
    BY <1>2, <1>4, <1>5, <2>1 DEF RequestInv, CacheRests
<1>6. ASSUME NEW l \in Link, NEW i \in DOMAIN net[l], NEW s \in Slot, NEW port \in AcceptPorts,
             StepAccepts(l, i, s, port)
      PROVE  RequestInv'
  <2>1. KnownSockets(f)' /\ ListsKeysOnce(cache') /\ RequestsOf(f)'
    BY <1>1, <1>2, <1>6, KnownSocketsAccept, RequestsAccept
  <2> QED
    BY <2>1 DEF RequestInv
<1> QED
  BY <1>1, <1>5, <1>6, RequestsStep

LEMMA InitRequests ==
  ASSUME Init, NEW f
  PROVE  RequestsOf(f) /\ KnownSockets(f) /\ ListsKeysOnce(cache)
<1> USE Apart
<1>1. ASSUME NEW s \in Sock
      PROVE  /\ sock[s].send_task.has = FALSE
             /\ s \in Slot => sock[s].local_port = 0
  BY InitSockets
<1>2. m_sockets = Client /\ cache = [list |-> <<>>, map |-> <<>>]
      /\ \A l \in Link : net[l] = <<>>
  BY DEF Init, EmptyCache
<1>3. Cached(cache) = {} /\ DOMAIN cache.list = {}
  BY <1>2 DEF Cached
<1>4. FreeSlots = Slot
  BY <1>1 DEF FreeSlots
<1>5. RequestsOf(f)
  BY <1>1, <1>2, <1>3, <1>4 DEF RequestsOf
<1>6. KnownSockets(f)
  BY <1>2 DEF KnownSockets
<1>7. ListsKeysOnce(cache)
  BY <1>3 DEF ListsKeysOnce
<1> QED
  BY <1>5, <1>6, <1>7

LEMMA SomeIds == [c \in Client |-> 0] \in [Client -> Id]
  BY ZeroOne

\* With no more clients than places in its cache, the acceptor knows the socket of
\* every request that has one, and no request has two ids.
THEOREM RequestInvariant == ASSUME FewClients PROVE Spec => []RequestInv
<1>1. Init => RequestInv
  BY InitRequests, SomeIds DEF RequestInv
<1>2. ConnectionInv /\ RequestInv /\ [Next]_vars => RequestInv'
  BY RequestStep
<1> QED
  BY <1>1, <1>2, ConnectionInvariant, PTL DEF Spec

\* Copies of a connection request, however often and late they come, do not make a
\* second socket while the first one lives: for every number of clients up to the
\* size of the acceptor's cache, whatever ids their requests have.
THEOREM RequestHasOneSocket == ASSUME FewClients PROVE Spec => []OneSocketPerRequest
<1>1. ConnectionInv /\ RequestInv => OneSocketPerRequest
  <2> SUFFICES ASSUME ConnectionInv, RequestInv,
                      NEW s \in Slot \cap m_sockets, NEW t \in Slot \cap m_sockets,
                      sock[s].remote_address = sock[t].remote_address,
                      sock[s].remote_port = sock[t].remote_port
               PROVE  s = t
    BY DEF OneSocketPerRequest
  <2>1. PICK f \in [Client -> Id] : RequestsOf(f) /\ KnownSockets(f)
    BY DEF RequestInv
  <2>2. s \notin FreeSlots /\ t \notin FreeSlots
    BY DEF ConnectionInv, IdentityInv
  <2>3. PICK c \in Client : Serves(s, c)
    BY <2>1, <2>2 DEF RequestsOf
  <2>4. Serves(t, c)
    BY <2>2, <2>3 DEF Serves
  <2> QED
    BY <2>1, <2>3, <2>4 DEF KnownSockets
<1> QED
  BY <1>1, RequestInvariant, ConnectionInvariant, PTL

-----------------------------------------------------------------------------
(* The count of unconfirmed messages *)

LEMMA CountNumbers == Wrap(0 + 1) = 1 /\ Wrap(1 + IdMod - 1) = 0
<1>1. IdMod \in Nat \ {0, 1}
  BY SocketAssumption
<1>2. 1 % IdMod = 1 /\ IdMod % IdMod = 0
  BY <1>1, SMT
<1>3. 0 + 1 = 1 /\ 1 + IdMod - 1 = IdMod
  BY <1>1
<1> QED
  BY <1>2, <1>3 DEF Wrap

LEMMA LeftCounts ==
  ASSUME NEW b, NEW h, b.unconfirmed = IF Busy(b) THEN 1 ELSE 0, b.state # "connection_timeout"
  PROVE  /\ LeftCount(b, h) = IF LeftTask(b, h).has THEN 1 ELSE 0
         /\ Busy(b) /\ b.send_task.id = h.ack => LeftCount(b, h) = 0
         /\ ~ Busy(b) => LeftCount(b, h) = 0
  BY CountNumbers DEF LeftCount, LeftTask, AckMatches, Busy, NoSendTask

\* Every call, message and serving of a client keeps the count right, if no task
\* expires and the submit acknowledges the request.
LEMMA CountsTaskKept ==
  ASSUME NEW b \in SocketType, NEW t, CountsTask(b),
         \/ Connects(b, t) \/ Rests(b, t) \/ Sends(b, t) \/ Closes(b, t)
         \/ \E h \in Message :
               /\ MayHear(b, h) /\ Hears(b, h, t)
               /\ b.state = "waiting_for_submit" /\ Busy(b) => b.send_task.id = h.ack
  PROVE  CountsTask(t)
<1>1. CASE Connects(b, t)
  <2>1. b.state = "not_connected" /\ t.state = "waiting_for_submit"
        /\ t.unconfirmed = Wrap(b.unconfirmed + 1) /\ t.remote_port = b.remote_port
        /\ t.send_task.has /\ t.send_task.type = "connection_request"
    BY <1>1 DEF Connects, Same, NewTask
  <2> QED
    BY <2>1, CountNumbers DEF CountsTask, Busy, Unanswered
<1>2. CASE Rests(b, t)
  <2>1. t.send_task.has = b.send_task.has /\ t.send_task.type = b.send_task.type
    BY <1>2 DEF Rests, SocketType, SendTask
  <2> QED
    BY <1>2, <2>1 DEF Rests, Same, CountsTask, Busy
<1>3. CASE Sends(b, t)
  <2>1. b.state = "connected" /\ t.state = "connected" /\ ~ b.send_task.has
        /\ t.unconfirmed = Wrap(b.unconfirmed + 1) /\ t.send_task.has
    BY <1>3 DEF Sends, NewTask
  <2> QED
    BY <2>1, CountNumbers DEF CountsTask, Busy, Unanswered
<1>4. CASE Closes(b, t)
  BY <1>4 DEF Closes, CountsTask, Unanswered
<1>5. ASSUME NEW h \in Message, MayHear(b, h), Hears(b, h, t),
             b.state = "waiting_for_submit" /\ Busy(b) => b.send_task.id = h.ack
      PROVE  CountsTask(t)
  <2>1. CASE HearsClose(b, h, t) \/ HearsCloseSubmit(b, h, t)
    BY <2>1 DEF HearsClose, HearsCloseSubmit, CountsTask, Unanswered
  <2>2. CASE HearsSubmit(b, h, t)
    <3>1. b.state = "waiting_for_submit" /\ t.state = "connected"
          /\ t.send_task.has = FALSE /\ t.unconfirmed = LeftCount(b, h)
      BY <2>2 DEF HearsSubmit, NoSendTask
    <3>2. LeftCount(b, h) = 0
      BY <1>5, <3>1, LeftCounts DEF CountsTask
    <3> QED
      BY <3>1, <3>2 DEF CountsTask, Busy, Unanswered
  <2>3. CASE HearsAgain(b, h, t) \/ HearsSubmitLate(b, h, t) \/ HearsData(b, h, t)
    <3>1. t.send_task = LeftTask(b, h) /\ t.remote_port = b.remote_port /\ t.state = b.state
          /\ t.unconfirmed = LeftCount(b, h)
      BY <2>3 DEF HearsAgain, HearsSubmitLate, HearsData
    <3>2. b.state # "not_connected"
      BY <1>5 DEF MayHear, Message, MessageType
    <3>3. CASE b.state \in {"waiting_for_submit", "connected"}
      <4>1. t.unconfirmed = IF t.send_task.has THEN 1 ELSE 0
        BY <3>1, <3>3, LeftCounts DEF CountsTask
      <4>2. t.send_task.has => t.send_task = b.send_task
        BY <3>1, LeftTaskIs
      <4> QED
        BY <3>1, <3>2, <4>1, <4>2 DEF CountsTask, Busy
    <3>4. CASE b.state \notin {"waiting_for_submit", "connected"}
      BY <3>1, <3>2, <3>4 DEF CountsTask, Unanswered
    <3> QED
      BY <3>3, <3>4
  <2> QED
    BY <1>5, <2>1, <2>2, <2>3 DEF Hears
<1> QED
  BY <1>1, <1>2, <1>3, <1>4, <1>5

\* A socket that a step changes is the one the step is about.
LEMMA ChangeForms ==
  ASSUME TypeOK, [Next]_vars, NEW s \in Sock
  PROVE  \/ sock'[s] = sock[s]
         \/ StepCalls(s)
         \/ \E m \in Message : StepPicks(s, m)
         \/ \E l \in Link : \E i \in DOMAIN net[l] : StepHears(l, i, s)
         \/ \E l \in Link : \E i \in DOMAIN net[l] : StepAnswers(l, i, s)
         \/ \E l \in Link : \E i \in DOMAIN net[l], port \in AcceptPorts :
               StepAccepts(l, i, s, port)
<1>1. ASSUME NEW x \in Sock, StepCalls(x) PROVE StepCalls(s) \/ sock'[s] = sock[s]
  BY <1>1 DEF StepCalls, OnlySocket
<1>2. ASSUME NEW x \in Sock, NEW m \in Message, StepPicks(x, m)
      PROVE  StepPicks(s, m) \/ sock'[s] = sock[s]
  BY <1>2 DEF StepPicks, OnlySocket
<1>3. ASSUME NEW x \in Sock, NEW l \in Link, NEW i \in DOMAIN net[l], StepHears(l, i, x)
      PROVE  StepHears(l, i, s) \/ sock'[s] = sock[s]
  BY <1>3 DEF StepHears, OnlySocket
<1>4. ASSUME NEW x \in Slot, NEW l \in Link, NEW i \in DOMAIN net[l], StepAnswers(l, i, x)
      PROVE  StepAnswers(l, i, s) \/ sock'[s] = sock[s]
  BY <1>4 DEF StepAnswers, OnlySocket
<1>5. ASSUME NEW x \in Slot, NEW l \in Link, NEW i \in DOMAIN net[l],
             NEW port \in AcceptPorts, StepAccepts(l, i, x, port)
      PROVE  StepAccepts(l, i, s, port) \/ sock'[s] = sock[s]
  BY <1>5 DEF StepAccepts
<1>6. StepStays => sock'[s] = sock[s]
  BY DEF StepStays
<1> QED
  BY <1>1, <1>2, <1>3, <1>4, <1>5, <1>6, StepForms

\* No step makes a client unanswered that was answered.
LEMMA UnansweredBefore ==
  ASSUME TypeOK, [Next]_vars, NEW c \in Client, sock'[c].state \in Unanswered
  PROVE  sock[c].state \in Unanswered
<1> USE Apart
<1>1. CASE sock'[c] = sock[c]
  BY <1>1
<1>2. CASE sock'[c] # sock[c]
  <2>1. \/ StepCalls(c) \/ \E m \in Message : StepPicks(c, m)
        \/ \E l \in Link : \E i \in DOMAIN net[l] : StepHears(l, i, c)
    BY <1>2, ChangeForms DEF StepAnswers, StepAccepts
  <2>2. CASE StepCalls(c) \/ \E m \in Message : StepPicks(c, m)
    BY <2>2 DEF StepCalls, StepPicks, Connects, Rests, Expires, Sends, Closes, Unanswered
  <2>3. ASSUME NEW l \in Link, NEW i \in DOMAIN net[l], StepHears(l, i, c)
        PROVE  sock[c].state \in Unanswered
    BY <2>3 DEF StepHears, Hears, HearsAgain, HearsSubmit, HearsSubmitLate,
                HearsCloseSubmit, HearsClose, HearsData, Unanswered
  <2> QED
    BY <2>1, <2>2, <2>3
<1> QED
  BY <1>1, <1>2

LEMMA ServesAsked ==
  ASSUME NEW f, RequestsOf(f), NEW p \in Slot, NEW c \in Client, Serves(p, c)
  PROVE  Asked(c)
<1>1. PICK d \in Client : Asked(d) /\ Serves(p, d)
  BY DEF RequestsOf, Serves
<1>2. c = d
  BY <1>1, ServesOne
<1> QED
  BY <1>1, <1>2

\* A client that is waiting after a step, and has a socket at the acceptor, was
\* waiting before it.
LEMMA WaitedBefore ==
  ASSUME TypeOK, [Next]_vars, NEW f, RequestsOf(f), NEW p \in Slot, NEW c \in Client,
         Serves(p, c), sock'[c].state = "waiting_for_submit"
  PROVE  sock[c].state = "waiting_for_submit"
<1>1. Asked(c)
  BY ServesAsked
<1>2. sock[c].state \in Unanswered
  BY UnansweredBefore DEF Unanswered
<1> QED
  BY <1>1, <1>2 DEF Asked, Unanswered

LEMMA CountsTaskStep ==
  ASSUME Untimed, ConnectionInv, NEW f, RequestsOf(f), UnconfirmedOf(f), [Next]_vars,
         NEW c \in Client
  PROVE  CountsTask(sock'[c])
<1> USE Apart
<1>1. TypeOK /\ IdentityInv /\ sock[c] \in SocketType /\ CountsTask(sock[c])
  BY DEF ConnectionInv, TypeOK, UnconfirmedOf
<1>2. CASE sock'[c] = sock[c]
  BY <1>1, <1>2
<1>3. CASE sock'[c] # sock[c]
  <2>1. \/ StepCalls(c) \/ \E m \in Message : StepPicks(c, m)
        \/ \E l \in Link : \E i \in DOMAIN net[l] : StepHears(l, i, c)
    BY <1>1, <1>3, ChangeForms DEF StepAnswers, StepAccepts
  <2>2. CASE StepCalls(c) \/ \E m \in Message : StepPicks(c, m)
    <3>1. \/ Connects(sock[c], sock'[c]) \/ Rests(sock[c], sock'[c])
          \/ Sends(sock[c], sock'[c]) \/ Closes(sock[c], sock'[c])
      BY <2>2 DEF StepCalls, StepPicks, Expires, Untimed
    <3> QED
      BY <1>1, <3>1, CountsTaskKept
  <2>3. ASSUME NEW l \in Link, NEW i \in DOMAIN net[l], StepHears(l, i, c)
        PROVE  CountsTask(sock'[c])
    <3>1. PICK h : h = net[l][i]
      OBVIOUS
    <3>2. /\ h \in Message /\ MayHear(sock[c], h) /\ Hears(sock[c], h, sock'[c])
          /\ Recipient(l, h, c)
      BY <2>3, <3>1 DEF StepHears
    <3>3. ASSUME sock[c].state = "waiting_for_submit", Busy(sock[c])
          PROVE  sock[c].send_task.id = h.ack
      <4>1. h.type = "connection_submit"
        BY <3>2, <3>3 DEF MayHear, Message, MessageType
      <4>2. l[2] = ClientNode[c] /\ h.dport = ClientPort[c]
        BY <1>1, <3>2 DEF Recipient, Address, IdentityInv
      <4>3. AcknowledgesRequest(f, c, l, h)
        BY <3>1 DEF UnconfirmedOf
      <4>4. h.ack = f[c]
        BY <3>3, <4>1, <4>2, <4>3 DEF AcknowledgesRequest
      <4>5. sock[c].send_task.has /\ sock[c].send_task.type = "connection_request"
        BY <1>1, <3>3 DEF CountsTask, Busy
      <4> QED
        BY <4>4, <4>5 DEF RequestsOf
    <3> QED
      BY <1>1, <3>2, <3>3, CountsTaskKept
  <2> QED
    BY <2>1, <2>2, <2>3
<1> QED
  BY <1>2, <1>3

LEMMA PortsStep ==
  ASSUME ConnectionInv, NEW f, RequestsOf(f), [Next]_vars,
         \A s \in Slot : s \notin FreeSlots => sock[s].local_port \in AcceptPorts,
         NEW s \in Slot, s \notin FreeSlots'
  PROVE  sock'[s].local_port \in AcceptPorts
<1> USE Apart
<1>1. UsedSlotsKept
  BY ConnectionStep
<1>2. CASE s \notin FreeSlots
  BY <1>1, <1>2 DEF UsedSlotsKept, EndsKept, Ends
<1>3. CASE s \in FreeSlots
  <2>1. sock'[s] # sock[s] /\ s \notin m_sockets
    BY <1>3 DEF FreeSlots, ConnectionInv, IdentityInv
  <2>2. PICK l \in Link : \E i \in DOMAIN net[l], port \in AcceptPorts :
                             StepAccepts(l, i, s, port)
    BY <2>1, ChangeForms DEF ConnectionInv, StepCalls, StepPicks, StepHears, StepAnswers,
                             OnlySocket
  <2> QED
    BY <2>2, AcceptedSlot
<1> QED
  BY <1>2, <1>3

\* Nothing but the answer to its request reaches a socket whose client still waits.
LEMMA WaitingPeerHearsNothing ==
  ASSUME Untimed, ConnectionInv, NEW f, UnconfirmedOf(f), NEW c \in Client, NEW s \in Slot,
         sock[s].local_port \in AcceptPorts, sock[c].state = "waiting_for_submit", Serves(s, c),
         NEW l \in Link, NEW i \in DOMAIN net[l], StepHears(l, i, s)
  PROVE  FALSE
<1> USE Apart
<1>1. PICK m : m = net[l][i]
  OBVIOUS
<1>2. m \in Message /\ Recipient(l, m, s) /\ MayHear(sock[s], m)
  BY <1>1 DEF StepHears
<1>3. /\ l[2] = Server /\ l[1] = ClientNode[c] /\ sock[s].local_port = m.dport
      /\ m.type \notin {"connection_request", "connection_submit"} =>
           m.sport = ClientPort[c]
  BY <1>2 DEF Recipient, Address, Serves, ForCloseSubmit, ForData, Message, MessageType
<1>4. m.type # "connection_request"
  BY <1>2 DEF MayHear
<1>5. m.type # "connection_submit"
  <2>1. SubmitNamesPeer(l, m) /\ l[1] # l[2]
    BY <1>1 DEF ConnectionInv, Link
  <2> QED
    BY <1>3, <2>1 DEF SubmitNamesPeer
<1>6. AddressesAcceptor(c, l, m)
  BY <1>1 DEF UnconfirmedOf
<1>7. m.dport = ListenPort
  BY <1>3, <1>4, <1>5, <1>6 DEF AddressesAcceptor, Unanswered
<1> QED
  BY <1>3, <1>7 DEF Untimed

\* The socket of a waiting client goes on acknowledging the request.
LEMMA PeerAcknowledges ==
  ASSUME Untimed, ConnectionInv, NEW f, RequestsOf(f), UnconfirmedOf(f), [Next]_vars,
         \A s \in Slot : s \notin FreeSlots => sock[s].local_port \in AcceptPorts,
         NEW c \in Client, NEW s \in Slot,
         sock'[c].state = "waiting_for_submit", Serves(s, c)'
  PROVE  Asked(c) /\ sock'[s].ack_task.has /\ sock'[s].ack_task.id = f[c]
<1> USE Apart
<1>1. UsedSlotsKept /\ TypeOK
  BY ConnectionStep DEF ConnectionInv
<1>2. CASE \E l \in Link : \E i \in DOMAIN net[l], port \in AcceptPorts :
              StepAccepts(l, i, s, port)
  <2>1. PICK l \in Link : \E i \in DOMAIN net[l], port \in AcceptPorts :
                             StepAccepts(l, i, s, port)
    BY <1>2
  <2> QED
    BY <2>1, AcceptedSlot
<1>3. CASE ~ \E l \in Link : \E i \in DOMAIN net[l], port \in AcceptPorts :
                StepAccepts(l, i, s, port)
  <2>1. \/ sock'[s] = sock[s]
        \/ StepCalls(s) \/ \E m \in Message : StepPicks(s, m)
        \/ \E l \in Link : \E i \in DOMAIN net[l] : StepHears(l, i, s)
        \/ \E l \in Link : \E i \in DOMAIN net[l] : StepAnswers(l, i, s)
    BY <1>1, <1>3, ChangeForms
  <2>2. s \notin FreeSlots
    <3>1. s \in FreeSlots => s \notin m_sockets
      BY DEF ConnectionInv, IdentityInv
    <3>2. s \in FreeSlots => sock'[s] = sock[s]
      BY <2>1, <3>1 DEF StepCalls, StepPicks, StepHears, StepAnswers, OnlySocket
    <3> QED
      BY <3>2 DEF FreeSlots, Serves
  <2>3. Serves(s, c)
    BY <1>1, <2>2, ServesKept
  <2>4. Asked(c) /\ sock[c].state = "waiting_for_submit"
    BY <1>1, <2>3, ServesAsked, WaitedBefore
  <2>5. sock[s].ack_task.has /\ sock[s].ack_task.id = f[c]
    BY <2>3, <2>4 DEF UnconfirmedOf
  <2>6. CASE StepCalls(s) \/ \E m \in Message : StepPicks(s, m)
    BY <2>4, <2>5, <2>6 DEF StepCalls, StepPicks, Rests, Expires, Sends, Closes, Same
  <2>7. ~ \E l \in Link : \E i \in DOMAIN net[l] : StepHears(l, i, s)
    BY <2>2, <2>3, <2>4, WaitingPeerHearsNothing
  <2>8. ASSUME NEW l \in Link, NEW i \in DOMAIN net[l], StepAnswers(l, i, s)
        PROVE  sock'[s].ack_task.has /\ sock'[s].ack_task.id = f[c]
    <3>1. PICK r : r = net[l][i].id
      OBVIOUS
    <3>2. r \in Cached(cache) /\ cache.map[r] = s /\ Submits(sock[s], sock'[s], r)
      BY <2>8, <3>1 DEF StepAnswers
    <3>3. PICK d \in Client : r = f[d] /\ Serves(s, d)
      BY <3>2 DEF RequestsOf
    <3>4. d = c
      BY <2>3, <3>3, ServesOne
    <3> QED
      BY <3>2, <3>3, <3>4 DEF Submits
  <2> QED
    BY <2>1, <2>4, <2>5, <2>6, <2>7, <2>8
<1> QED
  BY <1>2, <1>3

LEMMA AddressesStep ==
  ASSUME ConnectionInv, NEW f, UnconfirmedOf(f), [Next]_vars,
         NEW c \in Client, NEW l \in Link, NEW m,
         \/ \E i \in DOMAIN net[l] : m = net[l][i]
         \/ \E s \in Sock : l = LinkOf(s) /\ StepPicks(s, m)
  PROVE  AddressesAcceptor(c, l, m)'
<1> USE Apart
<1> SUFFICES ASSUME sock'[c].state \in Unanswered, l[1] = ClientNode[c],
                    m.sport = ClientPort[c]
             PROVE  m.type = "connection_request" \/ m.dport = ListenPort
  BY DEF AddressesAcceptor
<1>1. sock[c].state \in Unanswered
  BY UnansweredBefore DEF ConnectionInv
<1>2. CASE \E i \in DOMAIN net[l] : m = net[l][i]
  <2>1. AddressesAcceptor(c, l, m)
    BY <1>2 DEF UnconfirmedOf
  <2> QED
    BY <1>1, <2>1 DEF AddressesAcceptor
<1>3. ASSUME NEW s \in Sock, l = LinkOf(s), StepPicks(s, m)
      PROVE  m.type = "connection_request" \/ m.dport = ListenPort
  <2>1. m.sport = sock[s].local_port /\ (IsTask(sock[s], m) \/ IsForceAck(sock[s], m))
    BY <1>3 DEF StepPicks, IsTask, IsForceAck
  <2>2. s \in Client
    <3>1. ClientNode[c] # Server /\ l[1] = Address(s)
      BY <1>3, TransportAssumption DEF LinkOf
    <3> QED
      BY <3>1 DEF Address
  <2>3. ClientNode[s] = ClientNode[c] /\ ClientPort[s] = ClientPort[c]
    BY <1>3, <2>1, <2>2 DEF LinkOf, Address, ConnectionInv, IdentityInv
  <2>4. s = c
    BY <2>2, <2>3, TransportAssumption
  <2>5. CountsTask(sock[c])
    BY DEF UnconfirmedOf
  <2> QED
    BY <1>1, <2>1, <2>4, <2>5 DEF CountsTask, Busy, IsTask, IsForceAck, Unanswered
<1> QED
  BY <1>2, <1>3

LEMMA AcknowledgesStep ==
  ASSUME ConnectionInv, NEW f, NEW g, RequestsOf(f), UnconfirmedOf(f), [Next]_vars,
         \A c \in Client : Asked(c) => g[c] = f[c],
         NEW c \in Client, NEW l \in Link, NEW m,
         \/ \E i \in DOMAIN net[l] : m = net[l][i]
         \/ \E s \in Sock : l = LinkOf(s) /\ StepPicks(s, m)
  PROVE  AcknowledgesRequest(g, c, l, m)'
<1> USE Apart
<1> SUFFICES ASSUME sock'[c].state = "waiting_for_submit", m.type = "connection_submit",
                    l[2] = ClientNode[c], m.dport = ClientPort[c]
             PROVE  m.ack = g[c]
  BY DEF AcknowledgesRequest
<1>1. TypeOK /\ TasksAddressed /\ IdentityInv
  BY DEF ConnectionInv
<1>2. CASE \E i \in DOMAIN net[l] : m = net[l][i]
  <2>1. SubmitNamesPeer(l, m) /\ AcknowledgesRequest(f, c, l, m)
    BY <1>2 DEF ConnectionInv, UnconfirmedOf
  <2>2. PICK p \in Slot : Serves(p, c)
    BY <2>1 DEF SubmitNamesPeer, Serves
  <2>3. Asked(c) /\ sock[c].state = "waiting_for_submit"
    BY <1>1, <2>2, ServesAsked, WaitedBefore
  <2> QED
    BY <2>1, <2>3 DEF AcknowledgesRequest
<1>3. ASSUME NEW s \in Sock, l = LinkOf(s), StepPicks(s, m)
      PROVE  m.ack = g[c]
  <2>1. IsTask(sock[s], m) /\ s \in m_sockets
    BY <1>3 DEF StepPicks, IsForceAck, OnlySocket
  <2>2. s \in Slot /\ s \notin FreeSlots /\ sock[s].send_task.dport = sock[s].remote_port
    BY <1>1, <2>1 DEF IsTask, TasksAddressed, IdentityInv
  <2>3. Serves(s, c)
    BY <1>3, <2>1, <2>2 DEF LinkOf, IsTask, Serves
  <2>4. Asked(c) /\ sock[c].state = "waiting_for_submit"
    BY <1>1, <2>2, <2>3, ServesAsked, WaitedBefore
  <2>5. sock[s].ack_task.has /\ sock[s].ack_task.id = f[c]
    BY <2>2, <2>3, <2>4 DEF UnconfirmedOf
  <2> QED
    BY <2>1, <2>4, <2>5 DEF IsTask
<1> QED
  BY <1>2, <1>3

\* A message that is on its way after a step was there before it, or is the one
\* that a socket just picked.
LEMMA WasThereOrPicked ==
  ASSUME TypeOK, [Next]_vars, NEW l \in Link, NEW i \in DOMAIN net'[l]
  PROVE  \/ \E k \in DOMAIN net[l] : net'[l][i] = net[l][k]
         \/ \E s \in Sock : l = LinkOf(s) /\ StepPicks(s, net'[l][i])
<1>1. CASE Carried({})
  BY <1>1 DEF Carried
<1>2. ASSUME NEW s \in Sock, NEW m \in Message, StepPicks(s, m)
      PROVE  \/ \E k \in DOMAIN net[l] : net'[l][i] = net[l][k]
             \/ l = LinkOf(s) /\ StepPicks(s, net'[l][i])
  <2>1. Carried({<<LinkOf(s), m>>})
    BY <1>2 DEF StepPicks
  <2>2. \/ \E k \in DOMAIN net[l] : net'[l][i] = net[l][k]
        \/ <<l, net'[l][i]>> \in {<<LinkOf(s), m>>}
    BY <2>1 DEF Carried
  <2>3. <<l, net'[l][i]>> \in {<<LinkOf(s), m>>} => l = LinkOf(s) /\ net'[l][i] = m
    OBVIOUS
  <2> QED
    BY <1>2, <2>2, <2>3
<1>3. ASSUME NEW s \in Sock, StepCalls(s) PROVE Carried({})
  BY <1>3, SameCarries DEF StepCalls
<1> QED
  BY <1>1, <1>2, <1>3, StepForms DEF StepStays, StepHears, StepAnswers, StepAccepts

LEMMA UnconfirmedStep ==
  ASSUME Untimed, ConnectionInv, UnconfirmedInv, [Next]_vars
  PROVE  UnconfirmedInv'
<1>1. PICK f \in [Client -> Id] : RequestsOf(f) /\ UnconfirmedOf(f)
  BY DEF UnconfirmedInv
<1>2. PICK g \in [Client -> Id] :
         RequestsOf(g)' /\ \A c \in Client : Asked(c) => g[c] = f[c]
  BY <1>1, RequestsStep
<1>3. \A s \in Slot : s \notin FreeSlots => sock[s].local_port \in AcceptPorts
  BY DEF UnconfirmedInv
<1>4. \A s \in Slot : s \notin FreeSlots' => sock'[s].local_port \in AcceptPorts
  BY <1>1, <1>3, PortsStep
<1>5. ASSUME NEW c \in Client, NEW s \in Slot,
             sock'[c].state = "waiting_for_submit", Serves(s, c)'
      PROVE  sock'[s].ack_task.has /\ sock'[s].ack_task.id = g[c]
  BY <1>1, <1>2, <1>3, <1>5, PeerAcknowledges
<1>6. ASSUME NEW c \in Client, NEW l \in Link, NEW i \in DOMAIN net'[l]
      PROVE  AddressesAcceptor(c, l, net[l][i])' /\ AcknowledgesRequest(g, c, l, net[l][i])'
  <2>1. PICK m : m = net'[l][i]
    OBVIOUS
  <2>2. \/ \E k \in DOMAIN net[l] : m = net[l][k]
        \/ \E s \in Sock : l = LinkOf(s) /\ StepPicks(s, m)
    BY <2>1, WasThereOrPicked DEF ConnectionInv
  <2>3. AddressesAcceptor(c, l, m)' /\ AcknowledgesRequest(g, c, l, m)'
    BY <1>1, <1>2, <2>2, AddressesStep, AcknowledgesStep
  <2> QED
    BY <2>1, <2>3
<1>7. \A c \in Client : CountsTask(sock'[c])
  BY <1>1, CountsTaskStep
<1>8. UnconfirmedOf(g)'
  BY <1>5, <1>6, <1>7 DEF UnconfirmedOf
<1> QED
  BY <1>2, <1>4, <1>8 DEF UnconfirmedInv

LEMMA UnconfirmedInit == Init => UnconfirmedInv
<1> SUFFICES ASSUME Init PROVE UnconfirmedInv
  OBVIOUS
<1> USE Apart
<1> DEFINE f == [c \in Client |-> 0]
<1>1. f \in [Client -> Id] /\ RequestsOf(f)
  BY SomeIds, InitRequests
<1> HIDE DEF f
<1>2. \A l \in Link : net[l] = <<>>
  BY DEF Init
<1>3. \A c \in Client : CountsTask(sock[c]) /\ sock[c].state = "not_connected"
  BY InitSockets DEF CountsTask, Busy, Unanswered
<1>4. UnconfirmedOf(f)
  BY <1>2, <1>3 DEF UnconfirmedOf
<1>5. FreeSlots = Slot
  BY InitSockets DEF FreeSlots
<1> QED
  BY <1>1, <1>4, <1>5 DEF UnconfirmedInv

\* If no task times out and no socket gets the port of the acceptor, a waiting
\* client has counted its request, every answer to it acknowledges the request, and
\* what it sends before the answer reaches no socket of the acceptor.
THEOREM UnconfirmedInvariant == ASSUME Untimed PROVE Spec => []UnconfirmedInv
<1>1. ConnectionInv /\ UnconfirmedInv /\ [Next]_vars => UnconfirmedInv'
  BY UnconfirmedStep
<1> QED
  BY <1>1, UnconfirmedInit, ConnectionInvariant, PTL DEF Spec

\* Without timeouts, unconfirmed_to_remote() of a connected client is 1 while it
\* waits for an acknowledgement and 0 otherwise, on any network and with any number
\* of clients: the submit takes back what the request counted.
THEOREM ClientCountsPending == ASSUME Untimed PROVE Spec => []ClientUnconfirmedIsPending
<1>1. UnconfirmedInv => ClientUnconfirmedIsPending
  BY DEF UnconfirmedInv, UnconfirmedOf, CountsTask, ClientUnconfirmedIsPending, Pending
<1> QED
  BY <1>1, UnconfirmedInvariant, PTL

-----------------------------------------------------------------------------
(* The order of messages *)

LEMMA LinkForms ==
  ASSUME TypeOK, [Next]_vars
  PROVE  \/ net' = net
         \/ \E l \in Link : \E i \in Arriving(l) : Take(l, i)
         \/ \E s \in Sock, m \in Message : StepPicks(s, m)
<1>1. TypeOK'
  BY NextType
<1>2. ASSUME NEW s \in Sock, ServeOutgoing(s)
      PROVE  net' = net \/ \E m \in Message : StepPicks(s, m)
  BY <1>1, <1>2, PickStep DEF ServeOutgoing, Expire
<1>3. ASSUME NEW l \in Link, NEW i, ServeIncoming(l, i) \/ Lose(l, i)
      PROVE  i \in Arriving(l) /\ Take(l, i)
  BY <1>3 DEF ServeIncoming, ReceiveMessage, AcceptAgain, AcceptNew, Discard, Lose
<1>4. Application \/ UNCHANGED vars => net' = net
  BY DEF Application, CallConnect, CallSend, CallSendEmpty, CallGetReceived, CallClose,
         Destroy, vars
<1> QED
  BY <1>2, <1>3, <1>4 DEF Next

\* Messages stay in order, and one that is picked goes behind the others.
LEMMA OrderKept ==
  ASSUME TypeOK, [Next]_vars, NEW l \in Link,
         NEW i \in DOMAIN net'[l], NEW j \in DOMAIN net'[l], i < j
  PROVE  \E a \in DOMAIN net[l] :
            /\ net'[l][i] = net[l][a]
            /\ \/ \E b \in DOMAIN net[l] : a < b /\ net'[l][j] = net[l][b]
               \/ \E s \in Sock : l = LinkOf(s) /\ StepPicks(s, net'[l][j])
<1>1. net[l] \in Seq(Message) /\ net \in [Link -> Seq(Message)]
  BY DEF TypeOK
<1>2. CASE net' = net
  BY <1>2
<1>3. ASSUME NEW k \in Link, NEW n \in Arriving(k), Take(k, n)
      PROVE  \E a, b \in DOMAIN net[l] :
                a < b /\ net'[l][i] = net[l][a] /\ net'[l][j] = net[l][b]
  <2>1. CASE k # l
    <3>1. net'[l] = net[l]
      BY <1>1, <1>3, <2>1 DEF Take
    <3> QED
      BY <3>1
  <2>2. CASE k = l
    <3>1. net'[l] = WithoutPlace(net[l], n) /\ n \in DOMAIN net[l]
      BY <1>1, <1>3, <2>2 DEF Take, Arriving
    <3>2. /\ net'[l] \in Seq(Message)
          /\ Len(net'[l]) = Len(net[l]) - 1
          /\ \A x \in 1 .. Len(net[l]) - 1 :
               net'[l][x] = IF x < n THEN net[l][x] ELSE net[l][x + 1]
      BY <1>1, <3>1, WithoutPlaceProperties
    <3>3. i \in 1 .. Len(net[l]) - 1 /\ j \in 1 .. Len(net[l]) - 1
      BY <3>2
    <3>4. n \in 1 .. Len(net[l]) /\ Len(net[l]) \in Nat /\ DOMAIN net[l] = 1 .. Len(net[l])
      BY <1>1, <3>1
    <3>5. PICK a, b : /\ a = IF i < n THEN i ELSE i + 1
                      /\ b = IF j < n THEN j ELSE j + 1
      OBVIOUS
    <3>6. a \in 1 .. Len(net[l]) /\ b \in 1 .. Len(net[l]) /\ a < b
      BY <3>3, <3>4, <3>5
    <3>7. net'[l][i] = net[l][a] /\ net'[l][j] = net[l][b]
      BY <3>2, <3>3, <3>5
    <3> QED
      BY <3>4, <3>6, <3>7
  <2> QED
    BY <2>1, <2>2
<1>4. ASSUME NEW s \in Sock, NEW m \in Message, StepPicks(s, m)
      PROVE  \E a \in DOMAIN net[l] :
                /\ net'[l][i] = net[l][a]
                /\ \/ \E b \in DOMAIN net[l] : a < b /\ net'[l][j] = net[l][b]
                   \/ l = LinkOf(s) /\ StepPicks(s, net'[l][j])
  <2>1. Put(LinkOf(s), m)
    BY <1>4 DEF StepPicks
  <2>2. CASE l # LinkOf(s)
    <3>1. net'[l] = net[l]
      BY <1>1, <2>1, <2>2 DEF Put
    <3> QED
      BY <3>1
  <2>3. CASE l = LinkOf(s)
    <3>1. net'[l] = Append(net[l], m)
      BY <1>1, <2>1, <2>3 DEF Put
    <3>2. /\ DOMAIN net'[l] = 1 .. Len(net[l]) + 1 /\ Len(net[l]) \in Nat
          /\ DOMAIN net[l] = 1 .. Len(net[l])
          /\ \A x \in 1 .. Len(net[l]) : net'[l][x] = net[l][x]
          /\ net'[l][Len(net[l]) + 1] = m
      BY <1>1, <3>1
    <3>3. i \in 1 .. Len(net[l])
      BY <3>2
    <3>4. CASE j = Len(net[l]) + 1
      BY <1>4, <2>3, <3>2, <3>3, <3>4
    <3>5. CASE j # Len(net[l]) + 1
      <4>1. j \in 1 .. Len(net[l])
        BY <3>2, <3>5
      <4> QED
        BY <3>2, <3>3, <4>1
    <3> QED
      BY <3>4, <3>5
  <2> QED
    BY <2>2, <2>3
<1> QED
  BY <1>2, <1>3, <1>4, LinkForms

-----------------------------------------------------------------------------
(* A closed socket that is idle has a closed peer *)

LEMMA PicksTask ==
  ASSUME NEW s \in Sock, NEW m, StepPicks(s, m), m.type # "data_transfer"
  PROVE  /\ IsTask(sock[s], m)
         /\ Rests(sock[s], sock'[s])
         /\ HasTask(sock[s], {m.type})
  BY DEF StepPicks, IsForceAck, IsTask, HasTask

\* Only clients request connections, and only while they wait.
LEMMA PicksRequest ==
  ASSUME ConnectionInv, CloseInv, NEW s \in Sock, NEW m, StepPicks(s, m),
         m.type = "connection_request"
  PROVE  /\ s \in Client
         /\ sock[s].state = "waiting_for_submit"
         /\ LinkOf(s)[1] = ClientNode[s]
<1> USE Apart
<1>1. HasTask(sock[s], {"connection_request"})
  BY PicksTask
<1>2. s \in Client
  BY <1>1 DEF HasTask, ConnectionInv, IdentityInv
<1>3. ClientCloses(sock[s])
  BY <1>2 DEF CloseInv
<1> QED
  BY <1>1, <1>2, <1>3 DEF ClientCloses, LinkOf, Address

LEMMA RequestsFirstKept ==
  ASSUME ConnectionInv, CloseInv, [Next]_vars, NEW l \in Link
  PROVE  RequestsFirst(l)'
<1>1. TypeOK /\ TypeOK'
  BY NextType DEF ConnectionInv
<1>2. net[l] \in Seq(Message) /\ net'[l] \in Seq(Message)
  BY <1>1 DEF TypeOK
<1>3. ASSUME NEW i \in DOMAIN net'[l], NEW j \in DOMAIN net'[l], i < j,
             net'[l][i].type \in Closing, net'[l][j].type = "connection_request"
      PROVE  FALSE
  <2>1. PICK a \in DOMAIN net[l] :
           /\ net'[l][i] = net[l][a]
           /\ \/ \E b \in DOMAIN net[l] : a < b /\ net'[l][j] = net[l][b]
              \/ \E s \in Sock : l = LinkOf(s) /\ StepPicks(s, net'[l][j])
    BY <1>1, <1>3, OrderKept
  <2>2. CASE \E b \in DOMAIN net[l] : a < b /\ net'[l][j] = net[l][b]
    <3>1. PICK b \in DOMAIN net[l] : a < b /\ net'[l][j] = net[l][b]
      BY <2>2
    <3>2. b < a
      BY <1>3, <2>1, <3>1 DEF CloseInv, RequestsFirst
    <3> QED
      BY <1>2, <3>1, <3>2
  <2>3. CASE \E s \in Sock : l = LinkOf(s) /\ StepPicks(s, net'[l][j])
    <3>1. PICK s \in Sock : l = LinkOf(s) /\ StepPicks(s, net'[l][j])
      BY <2>3
    <3>2. s \in Client /\ sock[s].state = "waiting_for_submit" /\ l[1] = ClientNode[s]
      BY <1>3, <3>1, PicksRequest
    <3>3. ClosingMessage(l, net[l][a]) /\ net[l][a].type \in Closing
      BY <1>3, <2>1 DEF CloseInv
    <3> QED
      BY <3>2, <3>3 DEF ClosingMessage, Unanswered
  <2> QED
    BY <2>1, <2>2, <2>3
<1>4. ASSUME NEW i \in DOMAIN net'[l], NEW j \in DOMAIN net'[l],
             net'[l][i].type \in Closing, net'[l][j].type = "connection_request"
      PROVE  j < i
  <2>1. i # j
    BY <1>4 DEF Closing
  <2>2. i \in Nat /\ j \in Nat
    BY <1>2
  <2> QED
    BY <1>3, <1>4, <2>1, <2>2
<1> QED
  BY <1>4 DEF RequestsFirst

LEMMA AllAskedKept ==
  ASSUME ConnectionInv, CloseInv, AllAsked, [Next]_vars
  PROVE  AllAsked'
<1>1. TypeOK
  BY DEF ConnectionInv
<1>2. \A c \in Client : sock'[c].state \notin Unanswered
  BY <1>1, UnansweredBefore DEF AllAsked
<1>3. ASSUME NEW l \in Link, NEW i \in DOMAIN net'[l]
      PROVE  net'[l][i].type # "connection_request"
  <2>1. CASE \E k \in DOMAIN net[l] : net'[l][i] = net[l][k]
    BY <2>1 DEF AllAsked
  <2>2. ASSUME NEW s \in Sock, StepPicks(s, net'[l][i])
        PROVE  net'[l][i].type # "connection_request"
    BY <2>2, PicksRequest DEF AllAsked, Unanswered
  <2> QED
    BY <1>1, <2>1, <2>2, WasThereOrPicked
<1> QED
  BY <1>2, <1>3 DEF AllAsked

\* A close that comes from a client is the first of the messages on its link, so
\* there are no requests any more.
LEMMA NoneToAsk ==
  ASSUME Orderly, ConnectionInv, CloseInv, NEW s \in Slot,
         NEW l \in Link, NEW i \in DOMAIN net[l], StepHears(l, i, s),
         net[l][i].type \in Closing
  PROVE  AllAsked
<1> USE Apart
<1>1. i = 1
  BY DEF StepHears, ReceiveMessage, Arriving, Orderly
<1>2. l[2] = Server
  BY DEF StepHears, Recipient, Address
<1>3. \A k \in Link : k = <<k[1], k[2]>> /\ k[1] \in Node /\ k[2] \in Node /\ k[1] # k[2]
  BY DEF Link
<1>4. PICK c \in Client : l[1] = ClientNode[c]
  BY <1>2, <1>3 DEF Node
<1>5. \A d \in Client : d = c
  BY DEF Orderly, OneClient
<1>6. ClosingMessage(l, net[l][i])
  BY DEF CloseInv
<1>7. sock[c].state \notin Unanswered
  BY <1>4, <1>6 DEF ClosingMessage
<1>8. ASSUME NEW k \in Link, NEW j \in DOMAIN net[k], net[k][j].type = "connection_request"
      PROVE  FALSE
  <2>1. ClosingMessage(k, net[k][j])
    BY DEF CloseInv
  <2>2. k[1] # Server
    BY <1>8, <2>1 DEF ClosingMessage
  <2>3. k[1] = ClientNode[c]
    BY <1>3, <1>5, <2>2 DEF Node
  <2>4. k[2] = Server
    BY <1>3, <1>5, <2>3 DEF Node
  <2>5. k = l
    BY <1>2, <1>3, <1>4, <2>3, <2>4
  <2>6. j < i
    BY <1>8, <2>5 DEF CloseInv, RequestsFirst
  <2>7. j \in Nat \ {0}
    BY DEF ConnectionInv, TypeOK
  <2> QED
    BY <1>1, <2>6, <2>7
<1> QED
  BY <1>5, <1>7, <1>8 DEF AllAsked

LEMMA CloseSubmitAsked ==
  ASSUME Orderly, ConnectionInv, CloseInv, NEW s \in Sock,
         NEW l \in Link, NEW i \in DOMAIN net[l], StepHears(l, i, s),
         net[l][i].type = "connection_close_submit"
  PROVE  AllAsked
<1>1. CASE s \in Slot
  BY <1>1, NoneToAsk DEF Closing
<1>2. CASE s \in Client
  <2>1. l[1] = Server
    BY <1>2 DEF StepHears, Recipient, ConnectionInv, IdentityInv
  <2>2. ClosingMessage(l, net[l][i])
    BY DEF CloseInv
  <2> QED
    BY <2>1, <2>2 DEF ClosingMessage
<1> QED
  BY <1>1, <1>2, Apart

\* Without requests, a closed socket stays closed.
LEMMA ClosedStays ==
  ASSUME Orderly, ConnectionInv, [Next]_vars, NEW x \in Sock, x \in Client \/ AllAsked,
         sock[x].state = "closed"
  PROVE  sock'[x].state = "closed" /\ EndsKept(sock[x], sock'[x])
<1> USE Apart
<1>1. CASE sock'[x] = sock[x]
  BY <1>1 DEF EndsKept, Ends
<1>2. CASE StepCalls(x) \/ \E m \in Message : StepPicks(x, m)
  BY <1>2 DEF StepCalls, StepPicks, Connects, Rests, Expires, Sends, Closes, Same, Orderly,
              EndsKept, Ends
<1>3. ASSUME NEW l \in Link, NEW i \in DOMAIN net[l], StepHears(l, i, x)
      PROVE  sock'[x].state = "closed" /\ EndsKept(sock[x], sock'[x])
  BY <1>3 DEF StepHears, Hears, HearsAgain, HearsSubmit, HearsSubmitLate,
              HearsCloseSubmit, HearsClose, HearsData, EndsKept
<1>4. ASSUME NEW l \in Link, NEW i \in DOMAIN net[l],
             \/ StepAnswers(l, i, x)
             \/ \E port \in AcceptPorts : StepAccepts(l, i, x, port)
      PROVE  FALSE
  <2>1. x \in Slot /\ net[l][i].type = "connection_request"
    BY <1>4 DEF StepAnswers, StepAccepts, AsksAcceptor
  <2> QED
    BY <2>1 DEF AllAsked
<1> QED
  BY <1>1, <1>2, <1>3, <1>4, ChangeForms DEF ConnectionInv

LEMMA NewTaskIs ==
  \A b, t, type, id : NewTask(b, t, type, id) =>
     /\ t.send_task.has = TRUE
     /\ t.send_task.type = type
     /\ t.send_task.dport = b.remote_port
<1> SUFFICES ASSUME NEW b, NEW t, NEW type, NEW id, NewTask(b, t, type, id)
             PROVE  /\ t.send_task.has = TRUE
                    /\ t.send_task.type = type
                    /\ t.send_task.dport = b.remote_port
  OBVIOUS
<1>1. PICK z, buf : /\ z = t.send_task
                    /\ z = [has |-> TRUE, type |-> type, id |-> id, ack |-> 0,
                            dport |-> b.remote_port, buf |-> buf]
  BY DEF NewTask
<1> QED
  BY <1>1

\* What the application and clocks do to the tasks that close.
LEMMA CallsClose ==
  ASSUME Orderly, NEW b \in SocketType, NEW t,
         \/ Connects(b, t) \/ Rests(b, t) \/ Expires(b, t) \/ Sends(b, t) \/ Closes(b, t)
  PROVE  /\ ClosedAndIdle(t) => ClosedAndIdle(b)
         /\ ClientCloses(b) => ClientCloses(t)
         /\ HasTask(t, {"connection_close_submit"}) =>
               t.state = b.state /\ HasTask(b, {"connection_close_submit"})
<1>1. CASE Rests(b, t)
  <2>1. t.send_task.has = b.send_task.has /\ t.send_task.type = b.send_task.type
        /\ t.send_task.dport = b.send_task.dport
    BY <1>1 DEF Rests, SocketType, SendTask
  <2> QED
    BY <1>1, <2>1 DEF Rests, Same, ClosedAndIdle, Busy, ClientCloses, HasTask
<1>2. CASE Connects(b, t)
  <2>1. t.state = "waiting_for_submit" /\ t.send_task.type = "connection_request"
    BY <1>2, NewTaskIs DEF Connects
  <2> QED
    BY <2>1 DEF ClosedAndIdle, ClientCloses, HasTask, Closing
<1>3. CASE Sends(b, t)
  <2>1. t.state = "connected" /\ t.send_task.type = "data_transfer"
    BY <1>3, NewTaskIs DEF Sends
  <2> QED
    BY <2>1 DEF ClosedAndIdle, ClientCloses, HasTask, Closing
<1>4. CASE Closes(b, t)
  <2>1. /\ t.state = "closed" /\ t.send_task.has = TRUE
        /\ t.send_task.type = "connection_close" /\ t.send_task.dport = b.remote_port
        /\ t.remote_port = b.remote_port
    BY <1>4, NewTaskIs DEF Closes, Same
  <2> QED
    BY <2>1 DEF ClosedAndIdle, Busy, ClientCloses, HasTask
<1> QED
  BY <1>1, <1>2, <1>3, <1>4 DEF Expires, Orderly

\* A closed socket becomes idle only when it gets a close submit.
LEMMA BecomesIdle ==
  ASSUME Orderly, ConnectionInv, [Next]_vars, NEW s \in Sock,
         ClosedAndIdle(sock'[s]), ~ ClosedAndIdle(sock[s])
  PROVE  \E l \in Link : \E i \in DOMAIN net[l] :
            /\ StepHears(l, i, s)
            /\ net[l][i].type = "connection_close_submit"
            /\ EndsKept(sock[s], sock'[s])
<1> USE Apart
<1>1. sock[s] \in SocketType
  BY DEF ConnectionInv, TypeOK
<1>2. ~ StepCalls(s) /\ ~ \E m \in Message : StepPicks(s, m)
  BY <1>1, CallsClose DEF StepCalls, StepPicks
<1>3. \A l \in Link : \A i \in DOMAIN net[l] :
        ~ StepAnswers(l, i, s) /\ \A port \in AcceptPorts : ~ StepAccepts(l, i, s, port)
  BY DEF StepAnswers, StepAccepts, Submits, ClosedAndIdle
<1>4. ASSUME NEW l \in Link, NEW i \in DOMAIN net[l], StepHears(l, i, s)
      PROVE  /\ net[l][i].type = "connection_close_submit"
             /\ EndsKept(sock[s], sock'[s])
  <2> DEFINE m == net[l][i]
  <2>1. m.type \in MessageType /\ MayHear(sock[s], m) /\ Ends(sock[s], sock'[s])
        /\ Hears(sock[s], m, sock'[s])
    BY <1>4 DEF StepHears, Message
  <2> HIDE DEF m
  <2>2. ~ HearsSubmit(sock[s], m, sock'[s]) /\ ~ HearsClose(sock[s], m, sock'[s])
    BY NewTaskIs DEF HearsSubmit, HearsClose, ClosedAndIdle, Busy
  <2>3. sock[s].state = "closed" /\ sock'[s].remote_port = sock[s].remote_port
    BY <2>1, <2>2 DEF Hears, HearsAgain, HearsSubmitLate, HearsCloseSubmit, HearsData,
                      ClosedAndIdle
  <2>4. m.type = "connection_close_submit"
    BY <2>1, <2>3 DEF MayHear, MessageType
  <2> QED
    BY <2>1, <2>3, <2>4 DEF EndsKept, m
<1>5. sock'[s] # sock[s]
  BY DEF ClosedAndIdle
<1> QED
  BY <1>2, <1>3, <1>4, <1>5, ChangeForms DEF ConnectionInv

LEMMA IdleAsked ==
  ASSUME Orderly, ConnectionInv, CloseInv, [Next]_vars, NEW s \in Sock,
         ClosedAndIdle(sock'[s])
  PROVE  AllAsked /\ AllAsked'
<1>1. AllAsked
  BY BecomesIdle, CloseSubmitAsked DEF CloseInv
<1> QED
  BY <1>1, AllAskedKept

LEMMA ClientClosesKept ==
  ASSUME Orderly, ConnectionInv, CloseInv, [Next]_vars, NEW c \in Client
  PROVE  ClientCloses(sock'[c])
<1> USE Apart
<1>1. sock[c] \in SocketType /\ ClientCloses(sock[c])
  BY DEF ConnectionInv, TypeOK, CloseInv
<1>2. StepCalls(c) \/ (\E m \in Message : StepPicks(c, m)) => ClientCloses(sock'[c])
  BY <1>1, CallsClose DEF StepCalls, StepPicks
<1>3. ASSUME NEW l \in Link, NEW i \in DOMAIN net[l], StepHears(l, i, c)
      PROVE  ClientCloses(sock'[c])
  <2>1. PICK m : m = net[l][i]
    OBVIOUS
  <2>2. Hears(sock[c], m, sock'[c])
    BY <1>3, <2>1 DEF StepHears
  <2>3. CASE HearsSubmit(sock[c], m, sock'[c]) \/ HearsCloseSubmit(sock[c], m, sock'[c])
    BY <2>3 DEF HearsSubmit, HearsCloseSubmit, NoSendTask, ClientCloses, HasTask
  <2>4. CASE HearsClose(sock[c], m, sock'[c])
    <3>1. /\ sock'[c].state = "closed" /\ sock'[c].send_task.type = "connection_close_submit"
          /\ sock'[c].send_task.dport = sock'[c].remote_port
      BY <2>4, NewTaskIs DEF HearsClose
    <3> QED
      BY <3>1 DEF ClientCloses, HasTask
  <2>5. CASE \/ HearsAgain(sock[c], m, sock'[c]) \/ HearsSubmitLate(sock[c], m, sock'[c])
             \/ HearsData(sock[c], m, sock'[c])
    <3>1. /\ sock'[c].send_task = LeftTask(sock[c], m)
          /\ sock'[c].state = sock[c].state /\ sock'[c].remote_port = sock[c].remote_port
      BY <2>5 DEF HearsAgain, HearsSubmitLate, HearsData
    <3> QED
      BY <1>1, <3>1, LeftTaskIs DEF ClientCloses, HasTask
  <2> QED
    BY <2>2, <2>3, <2>4, <2>5 DEF Hears
<1> QED
  BY <1>1, <1>2, <1>3, ChangeForms DEF ConnectionInv, StepAnswers, StepAccepts

LEMMA SlotClosesKept ==
  ASSUME Orderly, ConnectionInv, CloseInv, [Next]_vars, NEW s \in Slot
  PROVE  SlotCloses(sock[s])'
<1> USE Apart
<1>1. sock[s] \in SocketType /\ SlotCloses(sock[s])
  BY DEF ConnectionInv, TypeOK, CloseInv
<1>2. SUFFICES ASSUME HasTask(sock'[s], {"connection_close_submit"})
               PROVE  sock'[s].state = "closed" /\ AllAsked
  BY AllAskedKept DEF SlotCloses
<1>3. CASE /\ sock'[s].state = sock[s].state
           /\ HasTask(sock[s], {"connection_close_submit"})
  BY <1>1, <1>3 DEF SlotCloses
<1>4. StepCalls(s) \/ (\E m \in Message : StepPicks(s, m))
      => sock'[s].state = "closed" /\ AllAsked
  BY <1>1, <1>2, <1>3, CallsClose DEF StepCalls, StepPicks
<1>5. ASSUME NEW l \in Link, NEW i \in DOMAIN net[l],
             \/ StepAnswers(l, i, s)
             \/ \E port \in AcceptPorts : StepAccepts(l, i, s, port)
      PROVE  FALSE
  <2>1. sock'[s].send_task.type = "connection_submit"
    BY <1>5, NewTaskIs DEF StepAnswers, StepAccepts, Submits
  <2> QED
    BY <1>2, <2>1 DEF HasTask
<1>6. ASSUME NEW l \in Link, NEW i \in DOMAIN net[l], StepHears(l, i, s)
      PROVE  sock'[s].state = "closed" /\ AllAsked
  <2> DEFINE m == net[l][i]
  <2>1. Hears(sock[s], m, sock'[s])
    BY <1>6 DEF StepHears
  <2>2. CASE HearsClose(sock[s], m, sock'[s])
    <3>1. m.type \in Closing /\ sock'[s].state = "closed"
      BY <2>2 DEF HearsClose, Closing
    <3> QED
      BY <1>6, <3>1, NoneToAsk
  <2>3. ~ HearsSubmit(sock[s], m, sock'[s]) /\ ~ HearsCloseSubmit(sock[s], m, sock'[s])
    BY <1>2 DEF HearsSubmit, HearsCloseSubmit, NoSendTask, HasTask
  <2>4. CASE \/ HearsAgain(sock[s], m, sock'[s]) \/ HearsSubmitLate(sock[s], m, sock'[s])
             \/ HearsData(sock[s], m, sock'[s])
    <3>1. sock'[s].send_task = LeftTask(sock[s], m) /\ sock'[s].state = sock[s].state
      BY <2>4 DEF HearsAgain, HearsSubmitLate, HearsData
    <3> QED
      BY <1>2, <1>3, <3>1, LeftTaskIs DEF HasTask
  <2> QED
    BY <2>1, <2>2, <2>3, <2>4 DEF Hears
<1>7. CASE sock'[s] = sock[s]
  BY <1>2, <1>3, <1>7
<1> QED
  BY <1>4, <1>5, <1>6, <1>7, ChangeForms DEF ConnectionInv

LEMMA ClosingMessageKept ==
  ASSUME Orderly, ConnectionInv, CloseInv, [Next]_vars, NEW l \in Link, NEW m,
         ClosingMessage(l, m)
  PROVE  ClosingMessage(l, m)'
<1> USE Apart
<1>1. \A c \in Client : sock'[c].state \in Unanswered => sock[c].state \in Unanswered
  BY UnansweredBefore DEF ConnectionInv
<1>2. ASSUME m.type = "connection_close_submit"
      PROVE  /\ l[1] = Server => AllAsked'
             /\ \E x \in Sock : sock'[x].state = "closed" /\ IsSender(x, l, m)'
  <2>1. l[1] = Server => AllAsked
    BY <1>2 DEF ClosingMessage
  <2>2. PICK x \in Sock : sock[x].state = "closed" /\ IsSender(x, l, m)
    BY <1>2 DEF ClosingMessage
  <2>3. x \in Client \/ AllAsked
    BY <2>1, <2>2 DEF IsSender, LinkOf, Address
  <2>4. sock'[x].state = "closed" /\ EndsKept(sock[x], sock'[x])
    BY <2>2, <2>3, ClosedStays
  <2>5. IsSender(x, l, m)'
    BY <2>2, <2>4 DEF IsSender, LinkOf, Address, EndsKept, Ends
  <2> QED
    BY <2>1, <2>4, <2>5, AllAskedKept
<1> QED
  BY <1>1, <1>2 DEF ClosingMessage

LEMMA ClosingMessagePicked ==
  ASSUME Orderly, ConnectionInv, CloseInv, [Next]_vars, NEW s \in Sock, NEW m,
         StepPicks(s, m)
  PROVE  ClosingMessage(LinkOf(s), m)
<1> USE Apart
<1>1. LinkOf(s)[1] = Address(s) /\ Server \notin {ClientNode[c] : c \in Client}
  BY TransportAssumption DEF LinkOf
<1>2. ASSUME m.type = "connection_request"
      PROVE  LinkOf(s)[1] # Server
  BY <1>1, <1>2, PicksRequest
<1>3. ASSUME m.type \in Closing
      PROVE  HasTask(sock[s], {m.type}) /\ IsTask(sock[s], m)
  BY <1>3, PicksTask DEF Closing
<1>4. ASSUME m.type \in Closing, NEW c \in Client, ClientNode[c] = LinkOf(s)[1]
      PROVE  sock[c].state \notin Unanswered
  <2>1. s \in Client /\ s = c
    BY <1>1, <1>4 DEF Address, Orderly, OneClient
  <2>2. sock[s].state = "closed"
    BY <1>3, <1>4, <2>1 DEF CloseInv, ClientCloses, HasTask
  <2> QED
    BY <2>1, <2>2 DEF Unanswered
<1>5. ASSUME m.type = "connection_close_submit"
      PROVE  /\ LinkOf(s)[1] = Server => AllAsked
             /\ sock[s].state = "closed"
             /\ IsSender(s, LinkOf(s), m)
  <2>1. HasTask(sock[s], {"connection_close_submit"}) /\ IsTask(sock[s], m)
    BY <1>3, <1>5 DEF Closing
  <2>2. CASE s \in Client
    <3>1. sock[s].state = "closed" /\ sock[s].send_task.dport = sock[s].remote_port
      BY <2>1, <2>2 DEF CloseInv, ClientCloses, HasTask, Closing
    <3>2. LinkOf(s)[1] # Server
      BY <1>1, <2>2 DEF Address
    <3> QED
      BY <2>1, <3>1, <3>2 DEF IsTask, IsSender
  <2>3. CASE s \in Slot
    <3>1. sock[s].state = "closed" /\ AllAsked
      BY <2>1, <2>3 DEF CloseInv, SlotCloses
    <3>2. sock[s].send_task.dport = sock[s].remote_port
      BY <2>1, <2>3 DEF HasTask, ConnectionInv, TasksAddressed
    <3> QED
      BY <2>1, <3>1, <3>2 DEF IsTask, IsSender
  <2> QED
    BY <2>2, <2>3
<1> QED
  BY <1>2, <1>4, <1>5 DEF ClosingMessage

LEMMA CloseConfirmedKept ==
  ASSUME Orderly, ConnectionInv, CloseInv, [Next]_vars
  PROVE  CloseConfirmed'
<1> USE Apart
<1>1. ASSUME NEW s \in Sock, ClosedAndIdle(sock'[s])
      PROVE  \E p \in Peers(s)' : sock'[p].state = "closed"
  <2>1. AllAsked
    BY <1>1, IdleAsked
  <2>2. PICK x \in Sock : /\ sock[x].state = "closed"
                          /\ x \in Peers(s)
                          /\ EndsKept(sock[s], sock'[s])
    <3>1. CASE ClosedAndIdle(sock[s])
      <4>1. EndsKept(sock[s], sock'[s])
        BY <2>1, <3>1, ClosedStays DEF ClosedAndIdle
      <4> QED
        BY <3>1, <4>1 DEF ClosedAndIdle, CloseInv, CloseConfirmed, Peers
    <3>2. CASE ~ ClosedAndIdle(sock[s])
      <4>1. PICK l \in Link : \E i \in DOMAIN net[l] :
                /\ StepHears(l, i, s)
                /\ net[l][i].type = "connection_close_submit"
                /\ EndsKept(sock[s], sock'[s])
        BY <1>1, <3>2, BecomesIdle
      <4>2. PICK i \in DOMAIN net[l] :
                /\ StepHears(l, i, s)
                /\ net[l][i].type = "connection_close_submit"
                /\ EndsKept(sock[s], sock'[s])
        BY <4>1
      <4>3. PICK m : m = net[l][i]
        OBVIOUS
      <4>4. /\ Address(s) = l[2] /\ sock[s].remote_address = l[1]
            /\ sock[s].local_port = m.dport /\ sock[s].remote_port = m.sport
        BY <4>2, <4>3 DEF StepHears, Recipient, ForCloseSubmit
      <4>5. PICK x \in Sock : sock[x].state = "closed" /\ IsSender(x, l, m)
        BY <4>2, <4>3 DEF CloseInv, ClosingMessage
      <4>6. /\ Address(x) = l[1] /\ sock[x].remote_address = l[2]
            /\ sock[x].local_port = m.sport /\ sock[x].remote_port = m.dport
        BY <4>5 DEF IsSender, LinkOf
      <4> QED
        BY <4>2, <4>4, <4>5, <4>6 DEF Peers
    <3> QED
      BY <3>1, <3>2
  <2>3. sock'[x].state = "closed" /\ EndsKept(sock[x], sock'[x])
    BY <2>1, <2>2, ClosedStays
  <2>4. x \in Peers(s)'
    BY <2>2, <2>3 DEF Peers, Address, EndsKept, Ends
  <2> QED
    BY <2>3, <2>4
<1> QED
  BY <1>1 DEF CloseConfirmed, ClosedAndIdle

LEMMA ClosingStep ==
  ASSUME Orderly, ConnectionInv, CloseInv, [Next]_vars
  PROVE  CloseInv'
<1>1. \A c \in Client : ClientCloses(sock'[c])
  BY ClientClosesKept
<1>2. \A s \in Slot : SlotCloses(sock[s])'
  BY SlotClosesKept
<1>3. \A s \in Sock : ClosedAndIdle(sock'[s]) => AllAsked'
  BY IdleAsked
<1>4. \A l \in Link : RequestsFirst(l)'
  BY RequestsFirstKept
<1>5. ASSUME NEW l \in Link, NEW i \in DOMAIN net'[l]
      PROVE  ClosingMessage(l, net[l][i])'
  <2>1. PICK m : m = net'[l][i]
    OBVIOUS
  <2>2. \/ \E k \in DOMAIN net[l] : m = net[l][k]
        \/ \E s \in Sock : l = LinkOf(s) /\ StepPicks(s, m)
    BY <2>1, WasThereOrPicked DEF ConnectionInv
  <2>3. ClosingMessage(l, m)
    BY <2>2, ClosingMessagePicked DEF CloseInv
  <2>4. ClosingMessage(l, m)'
    BY <2>3, ClosingMessageKept
  <2> QED
    BY <2>1, <2>4
<1>6. CloseConfirmed'
  BY CloseConfirmedKept
<1> QED
  BY <1>1, <1>2, <1>3, <1>4, <1>5, <1>6 DEF CloseInv

LEMMA ClosingInit == Init => CloseInv
<1> SUFFICES ASSUME Init PROVE CloseInv
  OBVIOUS
<1> USE Apart
<1>1. \A s \in Sock : sock[s].state = "not_connected" /\ sock[s].send_task.has = FALSE
  BY InitSockets
<1>2. \A l \in Link : net[l] = <<>>
  BY DEF Init
<1>3. \A c \in Client : ClientCloses(sock[c])
  BY <1>1 DEF ClientCloses, HasTask
<1>4. \A s \in Slot : SlotCloses(sock[s])
  BY <1>1 DEF SlotCloses, HasTask
<1>5. CloseConfirmed /\ \A s \in Sock : ~ ClosedAndIdle(sock[s])
  BY <1>1 DEF CloseConfirmed, ClosedAndIdle
<1>6. \A l \in Link : RequestsFirst(l) /\ \A i \in DOMAIN net[l] : ClosingMessage(l, net[l][i])
  BY <1>2 DEF RequestsFirst
<1> QED
  BY <1>3, <1>4, <1>5, <1>6 DEF CloseInv

\* With one client, on a network that keeps the order and without timeouts, a close
\* submit is on its way only when no request will reopen the socket that sent it,
\* and only a close submit makes a closed socket idle.
THEOREM CloseInvariant == ASSUME Orderly PROVE Spec => []CloseInv
<1>1. ConnectionInv /\ CloseInv /\ [Next]_vars => CloseInv'
  BY ClosingStep
<1> QED
  BY <1>1, ClosingInit, ConnectionInvariant, PTL DEF Spec

\* So a closed socket that has nothing left to send has a closed peer, for any number
\* of sockets of the acceptor, any losses and destructions, whoever closes first.
THEOREM ClosePeerClosed == ASSUME Orderly PROVE Spec => []CloseConfirmed
<1>1. CloseInv => CloseConfirmed
  BY DEF CloseInv
<1> QED
  BY <1>1, CloseInvariant, PTL
=============================================================================
