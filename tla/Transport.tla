------------------------------ MODULE Transport ------------------------------
(***************************************************************************)
(* The transport layers of a server node and of the nodes of its clients   *)
(* (ntdcp/src/transport.cpp), over the network layer reduced to what it    *)
(* does to transport messages: it carries each one from a node to another, *)
(* in order or not, or loses it.                                           *)
(*                                                                         *)
(* The server has one Acceptor.  Every client node has Socket objects      *)
(* created towards the acceptor's port; the acceptor's sockets are taken   *)
(* from a pool of slots.  A step is one call into one socket: handling one *)
(* message of TransportLayer::serve_incoming, one pick_outgoing of         *)
(* serve_outgoing, or one call of the application.                         *)
(***************************************************************************)
EXTENDS Socket, CachingMap, FiniteSets

CONSTANTS
    Client,         \* sockets that applications connect
    Slot,           \* sockets the acceptor may create
    Server,         \* address of the acceptor's node
    ClientNode,     \* address of the node of each client
    ClientPort,     \* local port of each client
    ListenPort,     \* port of the acceptor
    AcceptPorts,    \* values random() gives for the port of a new socket
    RequestIds,     \* values random_nonzero() gives, cut to uint16_t
    StaleAcks,      \* contents of the storage of an m_ack_task without value
    Garbage,        \* the stale contents a new socket may start with
    CacheMax,       \* size of m_already_created_sockets: 10 in the code
    Calls,          \* what applications and clocks do besides connect and send
    Reorder,        \* whether the network may reorder messages
    NetCap,         \* bound: messages on their way to each node, per link
    MaxFaults,      \* bound: messages lost and tasks timed out
    MaxOutgoing     \* bound: m_last_outgoing_message_id at a call of send, close

Sock == Client \cup Slot
Node == {Server} \cup {ClientNode[c] : c \in Client}
Port == {0, ListenPort} \cup AcceptPorts \cup {ClientPort[c] : c \in Client}

\* A node has one socket on a port.
ASSUME TransportAssumption ==
    /\ Client \cap Slot = {}
    /\ ClientNode \in [Client -> Node \ {Server}]
    /\ ClientPort \in [Client -> Nat \ {0}]
    /\ \A c, d \in Client :
         ClientNode[c] = ClientNode[d] /\ ClientPort[c] = ClientPort[d] => c = d
    /\ ListenPort \in Nat \ {0}
    /\ AcceptPorts \subseteq Nat \ {0}
    /\ RequestIds \subseteq Id
    /\ Garbage \subseteq StaleAcks
    /\ \A a \in StaleAcks : \E id \in Id, sent \in BOOLEAN : a = NoAckTask(id, sent)
    /\ Calls \subseteq {"get_received", "send_empty", "close", "destroy", "expire"}
    /\ Reorder \in BOOLEAN
    /\ CacheMax \in Nat \ {0}
    /\ MaxFaults \in Nat
    /\ NetCap \in [Node -> Nat]
    /\ MaxOutgoing \in [Sock -> Nat]

VARIABLES
    sock,           \* the members of each socket
    m_sockets,      \* the sockets registered with their layers
    cache,          \* m_already_created_sockets of the acceptor
    net,            \* the messages on their way from a node to another
    sent,           \* history: ids given to the data each socket accepted
    taken,          \* history: payloads get_received() returned
    confirmed,      \* history: payloads whose transmission was acknowledged
    overflowed,     \* history: payloads a full m_incoming refused
    faults          \* history: how many messages were lost and tasks timed out

vars == <<sock, m_sockets, cache, net, sent, taken, confirmed, overflowed, faults>>
histories == <<sent, taken, confirmed, overflowed>>

Address(s) == IF s \in Client THEN ClientNode[s] ELSE Server
Link == {l \in Node \X Node : l[1] # l[2]}
LinkOf(s) == <<Address(s), sock[s].remote_address>>

\* The n-th buffer that send() took from the application of socket s.
Payload == Sock \X (Nat \ {0})

\* Slots the acceptor has not used: the port of a used one is not 0.  A slot stands for
\* one socket object, so that of a destroyed one is not used again.
FreeSlots == {s \in Slot : sock[s].local_port = 0}

-----------------------------------------------------------------------------

Init ==
    /\ \E storage \in [Client -> Garbage] :
         sock = [s \in Sock |->
                   IF s \in Client
                   THEN NewSocket(Server, ClientPort[s], ListenPort, storage[s])
                   ELSE NewSocket(Server, 0, 0, NoAckTask(0, FALSE))]
    /\ m_sockets = Client
    /\ cache = EmptyCache
    /\ net = [l \in Link |-> <<>>]
    /\ sent = [s \in Sock |-> <<>>]
    /\ taken = [s \in Sock |-> <<>>]
    /\ confirmed = {}
    /\ overflowed = {}
    /\ faults = 0

CountFault == faults < MaxFaults /\ faults' = faults + 1

-----------------------------------------------------------------------------
(* The application *)

CallConnect(c) ==
    /\ c \in m_sockets
    /\ sock[c].state = "not_connected"
    /\ \E r \in RequestIds : sock' = [sock EXCEPT ![c] = Connect(@, r)]
    /\ UNCHANGED <<m_sockets, cache, net, histories, faults>>

CallSend(s) ==
    /\ s \in m_sockets
    /\ MaySend(sock[s])
    /\ sock[s].last_outgoing < MaxOutgoing[s]
    /\ sock' = [sock EXCEPT ![s] = Send(@, <<<<s, Len(sent[s]) + 1>>>>)]
    /\ sent' = [sent EXCEPT ![s] = Append(@, Wrap(sock[s].last_outgoing + 1))]
    /\ UNCHANGED <<m_sockets, cache, net, taken, confirmed, overflowed, faults>>

\* A null or empty buffer is accepted like any other.
CallSendEmpty(s) ==
    /\ "send_empty" \in Calls
    /\ s \in m_sockets
    /\ MaySend(sock[s])
    /\ sock[s].last_outgoing < MaxOutgoing[s]
    /\ sock' = [sock EXCEPT ![s] = Send(@, <<>>)]
    /\ UNCHANGED <<m_sockets, cache, net, histories, faults>>

CallGetReceived(s) ==
    /\ "get_received" \in Calls
    /\ s \in m_sockets
    /\ sock[s].incoming # <<>>
    /\ sock' = [sock EXCEPT ![s].incoming = Tail(@)]
    /\ taken' = [taken EXCEPT ![s] = Append(@, Head(sock[s].incoming))]
    /\ UNCHANGED <<m_sockets, cache, net, sent, confirmed, overflowed, faults>>

CallClose(s) ==
    /\ "close" \in Calls
    /\ s \in m_sockets
    /\ MayClose(sock[s])
    /\ sock[s].last_outgoing < MaxOutgoing[s]
    /\ sock' = [sock EXCEPT ![s] = Close(@)]
    /\ UNCHANGED <<m_sockets, cache, net, histories, faults>>

Destroy(s) ==
    /\ "destroy" \in Calls
    /\ s \in m_sockets
    /\ m_sockets' = m_sockets \ {s}
    /\ UNCHANGED <<sock, cache, net, histories, faults>>

-----------------------------------------------------------------------------
(* pick_outgoing() of a socket, and the network's send() *)

Put(l, m) ==
    /\ Len(net[l]) < NetCap[l[2]]
    /\ net' = [net EXCEPT ![l] = Append(@, m)]

\* A send task whose timeout has passed is dropped.
Expire(s) ==
    /\ "expire" \in Calls
    /\ s \in m_sockets
    /\ sock[s].state # "connection_timeout"
    /\ sock[s].send_task.has
    /\ CountFault
    /\ sock' = [sock EXCEPT ![s] = DropIfTimeout(@, TRUE)]
    /\ UNCHANGED <<m_sockets, cache, net, histories>>

Transmit(s) ==
    /\ s \in m_sockets
    /\ sock[s].state # "connection_timeout"
    /\ sock[s].send_task.has
    /\ LET t == Transmitted(sock[s])
       IN  /\ sock' = [sock EXCEPT ![s] = t]
           /\ Put(LinkOf(s), TaskHeader(t))
    /\ UNCHANGED <<m_sockets, cache, histories, faults>>

\* Without a send task, possibly because it has just expired, the pending
\* acknowledgement goes out alone.
ForceAck(s, expired) ==
    /\ IF expired THEN "expire" \in Calls /\ sock[s].send_task.has /\ CountFault
                  ELSE UNCHANGED faults
    /\ s \in m_sockets
    /\ sock[s].state # "connection_timeout"
    /\ LET t == DropIfTimeout(sock[s], expired)
       IN  /\ ForceAckWaiting(t)
           /\ sock' = [sock EXCEPT ![s] = [t EXCEPT !.ack_task.sent = TRUE]]
           /\ Put(LinkOf(s), ForceAckHeader(t))
    /\ UNCHANGED <<m_sockets, cache, histories>>

-----------------------------------------------------------------------------
(* serve_incoming(): one message of one link *)

Arriving(l) == IF Reorder THEN DOMAIN net[l] ELSE DOMAIN net[l] \cap {1}

Take(l, i) == net' = [net EXCEPT ![l] = WithoutPlace(@, i)]

ForAcceptor(l, m) ==
    m.type = "connection_request" /\ l[2] = Server /\ m.dport = ListenPort

\* Mutant: find_socket_for_submit compares the source port like the others.
ForSubmitFromPort(s, m) ==
    sock[s].state \in {"waiting_for_submit", "connected"} /\ sock[s].remote_port = m.sport

\* find_socket_for_submit does not ask for the source port.
ForSubmit(s, m) == sock[s].state \in {"waiting_for_submit", "connected"}

ForCloseSubmit(s, m) == sock[s].state = "closed" /\ sock[s].remote_port = m.sport

ForData(s, m) == sock[s].state = "connected" /\ sock[s].remote_port = m.sport

\* Mutant: the port of the socket is compared for data only.
RecipientAnyPort(l, m, s) ==
    /\ s \in m_sockets
    /\ Address(s) = l[2]
    /\ sock[s].remote_address = l[1]
    /\ CASE m.type = "connection_request" -> FALSE
         [] m.type = "connection_submit" -> ForSubmit(s, m)
         [] m.type = "connection_close_submit" -> ForCloseSubmit(s, m)
         [] OTHER -> ForData(s, m) /\ sock[s].local_port = m.dport

\* Whether the dispatcher may give message m of link l to socket s.  m_sockets
\* is ordered by addresses in memory: any match may be the first.
Recipient(l, m, s) ==
    /\ s \in m_sockets
    /\ Address(s) = l[2]
    /\ sock[s].remote_address = l[1]
    /\ sock[s].local_port = m.dport
    /\ CASE m.type = "connection_request" -> FALSE
         [] m.type = "connection_submit" -> ForSubmit(s, m)
         [] m.type = "connection_close_submit" -> ForCloseSubmit(s, m)
         [] OTHER -> ForData(s, m)

BufferItems(buf) == {buf[k] : k \in DOMAIN buf}

ReceiveMessage(l, i, s) ==
    /\ i \in Arriving(l)
    /\ Recipient(l, net[l][i], s)
    /\ LET m == net[l][i]
           before == sock[s]
           after == Receive(before, m)
       IN  /\ sock' = [sock EXCEPT ![s] = after]
           /\ confirmed' = IF AckMatches(before, m)
                           THEN confirmed \cup BufferItems(before.send_task.buf)
                           ELSE confirmed
           /\ overflowed' = IF /\ after.last_received # before.last_received
                               /\ after.incoming = before.incoming
                            THEN overflowed \cup BufferItems(m.buf)
                            ELSE overflowed
    /\ Take(l, i)
    /\ UNCHANGED <<m_sockets, cache, sent, taken, faults>>

\* The request is a copy of one that already has a socket.
AcceptAgain(l, i) ==
    /\ i \in Arriving(l)
    /\ ForAcceptor(l, net[l][i])
    /\ LET r == net[l][i].id
       IN  /\ r \in Cached(cache)
           /\ cache.map[r] \in m_sockets
           /\ sock' = [sock EXCEPT ![cache.map[r]] = SendConnectionSubmit(@, r)]
           /\ cache' = GetUpdate(cache, r)
    /\ Take(l, i)
    /\ UNCHANGED <<m_sockets, histories, faults>>

\* Mutant: the cache of requests is not asked.
AcceptNewAlways(l, i, s, port) ==
    /\ i \in Arriving(l)
    /\ ForAcceptor(l, net[l][i])
    /\ s \in FreeSlots
    /\ LET m == net[l][i]
           new == NewSocket(l[1], port, m.sport, sock[s].ack_task)
       IN  /\ sock' = [sock EXCEPT ![s] = SendConnectionSubmit(new, m.id)]
           /\ cache' = PutUpdate(Erase(cache, m.id), m.id, s, CacheMax)
    /\ m_sockets' = m_sockets \cup {s}
    /\ Take(l, i)
    /\ UNCHANGED <<histories, faults>>

AcceptNew(l, i, s, port) ==
    /\ i \in Arriving(l)
    /\ ForAcceptor(l, net[l][i])
    /\ s \in FreeSlots
    /\ LET m == net[l][i]
           new == NewSocket(l[1], port, m.sport, sock[s].ack_task)
       IN  /\ m.id \in Cached(cache) => cache.map[m.id] \notin m_sockets
           /\ sock' = [sock EXCEPT ![s] = SendConnectionSubmit(new, m.id)]
           /\ cache' = PutUpdate(Erase(cache, m.id), m.id, s, CacheMax)
    /\ m_sockets' = m_sockets \cup {s}
    /\ Take(l, i)
    /\ UNCHANGED <<histories, faults>>

Discard(l, i) ==
    /\ i \in Arriving(l)
    /\ ~ ForAcceptor(l, net[l][i])
    /\ \A s \in Sock : ~ Recipient(l, net[l][i], s)
    /\ Take(l, i)
    /\ UNCHANGED <<sock, m_sockets, cache, histories, faults>>

\* A device that has sent a moment ago does not hear the message.
Lose(l, i) ==
    /\ i \in Arriving(l)
    /\ CountFault
    /\ Take(l, i)
    /\ UNCHANGED <<sock, m_sockets, cache, histories>>

-----------------------------------------------------------------------------

Application ==
    \/ \E c \in Client : CallConnect(c)
    \/ \E s \in Sock : \/ CallSend(s)
                       \/ CallSendEmpty(s)
                       \/ CallGetReceived(s)
                       \/ CallClose(s)
                       \/ Destroy(s)

ServeOutgoing(s) ==
    \/ Transmit(s)
    \/ Expire(s)
    \/ \E expired \in BOOLEAN : ForceAck(s, expired)

ServeIncoming(l, i) ==
    \/ \E s \in Sock : ReceiveMessage(l, i, s)
    \/ AcceptAgain(l, i)
    \/ \E s \in Slot, port \in AcceptPorts : AcceptNew(l, i, s, port)
    \/ Discard(l, i)

Next ==
    \/ Application
    \/ \E s \in Sock : ServeOutgoing(s)
    \/ \E l \in Link : \E i \in DOMAIN net[l] : ServeIncoming(l, i) \/ Lose(l, i)

Spec == Init /\ [][Next]_vars
-----------------------------------------------------------------------------
(* Fairness: every node calls serve() again and again, so a message that has *)
(* arrived is handled, and a task that is due is picked.                     *)

Fairness ==
    /\ \A s \in Sock : WF_vars(Transmit(s)) /\ WF_vars(ForceAck(s, FALSE))
    /\ \A l \in Link : WF_vars(\E i \in DOMAIN net[l] : ServeIncoming(l, i))

FairSpec == Spec /\ Fairness
=============================================================================
