---------------------------- MODULE TransportInv ----------------------------
(***************************************************************************)
(* The inductive invariants behind the properties of TransportProps.       *)
(***************************************************************************)
EXTENDS TransportProps

\* No socket numbers so many messages that its ids wrap around.
ASSUME NoWrapAssumption == \A s \in Sock : MaxOutgoing[s] + 1 < IdMod

\* The members that identify a socket's stream.  A socket of the acceptor never
\* waits for a submit, so it keeps the remote port it was created with.
IdentityInv ==
    /\ \A c \in Client : /\ sock[c].remote_address = Server
                         /\ sock[c].local_port = ClientPort[c]
    /\ \A s \in Slot : /\ sock[s].state \notin {"waiting_for_submit", "connection_timeout"}
                       /\ sock[s].send_task.has =>
                            sock[s].send_task.type # "connection_request"
                       /\ s \in FreeSlots => /\ s \notin m_sockets
                                            /\ taken[s] = <<>>
                                            /\ sock[s].incoming = <<>>

\* The ids a client gives to its data increase: nothing sets them back.
ClientIdsInv ==
    \A c \in Client :
       /\ sock[c].state \in {"not_connected", "waiting_for_submit"} => sent[c] = <<>>
       /\ sock[c].last_outgoing <= MaxOutgoing[c] + 1
       /\ sock[c].state \notin {"closed", "connection_timeout"} =>
            sock[c].last_outgoing <= MaxOutgoing[c]
       /\ \A i \in DOMAIN sent[c] : sent[c][i] <= sock[c].last_outgoing
       /\ \A i, j \in DOMAIN sent[c] : i < j => sent[c][i] < sent[c][j]

\* Payload p is the data that its sender numbered id.
Numbered(p, id) == p[2] \in DOMAIN sent[p[1]] /\ sent[p[1]][p[2]] = id

\* A payload in a task, or in a message of link l, has the number its sender gave it.
TaskNumbered(s) ==
    \A k \in DOMAIN sock[s].send_task.buf :
       /\ sock[s].send_task.buf[k][1] = s
       /\ Numbered(sock[s].send_task.buf[k], sock[s].send_task.id)

MessageNumbered(l, m) ==
    \A k \in DOMAIN m.buf :
       /\ Numbered(m.buf[k], m.id)
       /\ l[1] = Address(m.buf[k][1])
       /\ m.buf[k][1] \in Client => m.sport = ClientPort[m.buf[k][1]]

TasksNumbered == \A s \in Sock : TaskNumbered(s)

MessagesNumbered ==
    \A l \in Link : \A i \in DOMAIN net[l] : MessageNumbered(l, net[l][i])

\* What a socket has received is not above its m_last_received_message_id, and
\* what a socket of the acceptor has received is its own client's.
ReceivedInv ==
    \A s \in Sock : \A i \in DOMAIN Delivered(s) :
       LET p == Delivered(s)[i]
       IN  /\ p[2] \in DOMAIN sent[p[1]]
           /\ sent[p[1]][p[2]] <= sock[s].last_received
           /\ s \in Slot => /\ p[1] \in Client
                            /\ ClientNode[p[1]] = sock[s].remote_address
                            /\ ClientPort[p[1]] = sock[s].remote_port

StreamInv ==
    /\ TypeOK
    /\ IdentityInv
    /\ ClientIdsInv
    /\ TasksNumbered
    /\ MessagesNumbered
    /\ ReceivedInv
    /\ AtMostOnce
    /\ AcceptorStreamsInOrder
-----------------------------------------------------------------------------
(* Connections: no bound on the ids is needed for these. *)

\* A used slot whose other end is the socket of client c.
Serves(p, c) ==
    /\ p \notin FreeSlots
    /\ sock[p].remote_address = ClientNode[c]
    /\ sock[p].remote_port = ClientPort[c]

\* Every task of an acceptor's socket goes to the port of its client, and only
\* these sockets answer connection requests.
TasksAddressed ==
    /\ \A s \in Slot : sock[s].send_task.has => sock[s].send_task.dport = sock[s].remote_port
    /\ \A c \in Client : sock[c].send_task.has => sock[c].send_task.type # "connection_submit"

\* A submit on its way names the port of a socket that was created for the node
\* and the port it goes to.
SubmitNamesPeer(l, m) ==
    m.type = "connection_submit" =>
       \E p \in Slot : /\ p \notin FreeSlots
                       /\ l[1] = Server
                       /\ sock[p].local_port = m.sport
                       /\ sock[p].remote_address = l[2]
                       /\ sock[p].remote_port = m.dport

ConnectionInv ==
    /\ TypeOK
    /\ IdentityInv
    /\ TasksAddressed
    /\ \A l \in Link : \A i \in DOMAIN net[l] : SubmitNamesPeer(l, net[l][i])
    /\ \A c \in Client : sock[c].state \in {"connected", "closed"} =>
          \E p \in Slot : p \notin FreeSlots /\ p \in Peers(c)

-----------------------------------------------------------------------------
(* Requests: each client makes one, with an id of its own choice. *)

Asked(c) == sock[c].state # "not_connected"

\* f tells the id of the connection request of each client that has made one.
RequestFrom(f, l, m) ==
    m.type = "connection_request" =>
       \E c \in Client : /\ Asked(c)
                         /\ l[1] = ClientNode[c]
                         /\ m.sport = ClientPort[c]
                         /\ m.id = f[c]

RequestsOf(f) ==
    /\ \A c \in Client : sock[c].send_task.has /\ sock[c].send_task.type = "connection_request"
                         => Asked(c) /\ sock[c].send_task.id = f[c]
    /\ \A l \in Link : \A i \in DOMAIN net[l] : RequestFrom(f, l, net[l][i])
    /\ \A r \in Cached(cache) :
          \E c \in Client : Asked(c) /\ r = f[c] /\ Serves(cache.map[r], c)
    /\ \A s \in Slot : s \notin FreeSlots => \E c \in Client : Asked(c) /\ Serves(s, c)

\* The acceptor's cache forgets no request.
FewClients == IsFiniteSet(Client) /\ Cardinality(Client) <= CacheMax

KnownSockets(f) ==
    \A s \in Slot \cap m_sockets, c \in Client :
       Serves(s, c) => f[c] \in Cached(cache) /\ cache.map[f[c]] = s

RequestInv ==
    /\ ListsKeysOnce(cache)
    /\ \E f \in [Client -> Id] : RequestsOf(f) /\ KnownSockets(f)

-----------------------------------------------------------------------------
(* The count of unconfirmed messages, from connect() on *)

\* Nothing times out, and no socket is given the port of the acceptor.
Untimed == "expire" \notin Calls /\ ListenPort \notin AcceptPorts

Unanswered == {"not_connected", "waiting_for_submit"}

\* The members of a client: before the submit there is nothing to confirm but the
\* request, and afterwards what is in the task.
CountsTask(b) ==
    /\ b.state = "not_connected" => ~ Busy(b) /\ b.unconfirmed = 0
    /\ b.state \in {"waiting_for_submit", "connected"} =>
          b.unconfirmed = IF Busy(b) THEN 1 ELSE 0
    /\ b.state = "waiting_for_submit" /\ Busy(b) =>
          b.send_task.type = "connection_request"
    /\ b.state \in Unanswered => b.remote_port = ListenPort

\* Before the submit, a client sends nothing to a socket of the acceptor.
AddressesAcceptor(c, l, m) ==
    /\ sock[c].state \in Unanswered
    /\ l[1] = ClientNode[c]
    /\ m.sport = ClientPort[c]
    => m.type = "connection_request" \/ m.dport = ListenPort

\* What answers the request of a waiting client acknowledges it.
AcknowledgesRequest(f, c, l, m) ==
    /\ sock[c].state = "waiting_for_submit"
    /\ m.type = "connection_submit"
    /\ l[2] = ClientNode[c]
    /\ m.dport = ClientPort[c]
    => m.ack = f[c]

UnconfirmedOf(f) ==
    \A c \in Client :
       /\ CountsTask(sock[c])
       /\ \A s \in Slot : sock[c].state = "waiting_for_submit" /\ Serves(s, c) =>
                             sock[s].ack_task.has /\ sock[s].ack_task.id = f[c]
       /\ \A l \in Link : \A i \in DOMAIN net[l] :
             AddressesAcceptor(c, l, net[l][i]) /\ AcknowledgesRequest(f, c, l, net[l][i])

UnconfirmedInv ==
    /\ \A s \in Slot : s \notin FreeSlots => sock[s].local_port \in AcceptPorts
    /\ \E f \in [Client -> Id] : RequestsOf(f) /\ UnconfirmedOf(f)

-----------------------------------------------------------------------------
(* Confirmations: what acknowledges a client's data comes from a socket of the *)
(* acceptor that has got it.                                                   *)

\* Message or task m, if it has the number of a payload of c, is that payload.
Carries(c, m) ==
    \A j \in DOMAIN sent[c] :
       sent[c][j] = m.id => m.type = "data_transfer" /\ m.buf = <<<<c, j>>>>

ClientTaskInv(c) ==
    /\ sock[c].state \in Unanswered => sock[c].last_outgoing = 0
    /\ \A j \in DOMAIN sent[c] : sent[c][j] \in 1 .. MaxOutgoing[c]
    /\ sock[c].send_task.has =>
         IF sock[c].send_task.type = "connection_request"
         THEN sock[c].send_task.buf = <<>> /\ sock[c].send_task.id \in RequestIds
         ELSE sock[c].send_task.id = sock[c].last_outgoing /\ Carries(c, sock[c].send_task)

ArrivedUpTo(c, n) ==
    \A j \in DOMAIN sent[c] : sent[c][j] = n => <<c, j>> \in Reached

\* Acknowledging n confirms nothing of c that has not arrived.
HarmlessAck(c, n) ==
    \/ n \in RequestIds
    \/ n <= sock[c].last_outgoing /\ (n = sock[c].last_outgoing => ArrivedUpTo(c, n))

PeerInv(p, c) ==
    Serves(p, c) =>
       /\ sock[p].last_received <= sock[c].last_outgoing
       /\ ArrivedUpTo(c, sock[p].last_received)
       /\ HarmlessAck(c, sock[p].ack_task.id)
       /\ sock[p].send_task.has => HarmlessAck(c, sock[p].send_task.ack)

FromClientInv(c, l, m) ==
    /\ l[1] = ClientNode[c]
    /\ m.sport = ClientPort[c]
    /\ m.type # "connection_request"
    => m.id <= sock[c].last_outgoing /\ Carries(c, m)

ToClientInv(c, l, m) ==
    l[2] = ClientNode[c] /\ m.dport = ClientPort[c] => HarmlessAck(c, m.ack)

ConfirmInv ==
    /\ \A c \in Client :
          /\ ClientTaskInv(c)
          /\ \A p \in Slot : PeerInv(p, c)
          /\ \A l \in Link : \A i \in DOMAIN net[l] :
                FromClientInv(c, l, net[l][i]) /\ ToClientInv(c, l, net[l][i])
    /\ \A l \in Link : \A i \in DOMAIN net[l] :
          net[l][i].type = "connection_request" => net[l][i].id \in RequestIds
-----------------------------------------------------------------------------
(* Closing.  A copy of a request that comes late reopens a closed socket, so all *)
(* this is about requests that come no more.                                    *)

OneClient == \A c, d \in Client : c = d

\* Requests come before what else their client sends, and no task is given up.
Orderly == OneClient /\ ~ Reorder /\ "expire" \notin Calls

Closing == {"connection_close", "connection_close_submit"}

HasTask(b, types) == b.send_task.has /\ b.send_task.type \in types

\* Every client has its answer, and no copy of a request is left.
AllAsked ==
    /\ \A c \in Client : sock[c].state \notin Unanswered
    /\ \A l \in Link : \A i \in DOMAIN net[l] : net[l][i].type # "connection_request"

ClosedAndIdle(b) == b.state = "closed" /\ ~ Busy(b)

\* A client asks while it waits, and closes with the port it is connected to.
ClientCloses(b) ==
    /\ HasTask(b, {"connection_request"}) => b.state = "waiting_for_submit"
    /\ HasTask(b, Closing) => b.state = "closed" /\ b.send_task.dport = b.remote_port

SlotCloses(b) ==
    HasTask(b, {"connection_close_submit"}) => b.state = "closed" /\ AllAsked

RequestsFirst(l) ==
    \A i, j \in DOMAIN net[l] :
       net[l][i].type \in Closing /\ net[l][j].type = "connection_request" => j < i

\* Socket x sends messages like m over link l.
IsSender(x, l, m) ==
    /\ l = LinkOf(x)
    /\ sock[x].local_port = m.sport
    /\ sock[x].remote_port = m.dport

ClosingMessage(l, m) ==
    /\ m.type = "connection_request" => l[1] # Server
    /\ m.type \in Closing =>
          \A c \in Client : ClientNode[c] = l[1] => sock[c].state \notin Unanswered
    /\ m.type = "connection_close_submit" =>
          /\ l[1] = Server => AllAsked
          /\ \E x \in Sock : sock[x].state = "closed" /\ IsSender(x, l, m)

CloseInv ==
    /\ \A c \in Client : ClientCloses(sock[c])
    /\ \A s \in Slot : SlotCloses(sock[s])
    /\ \A s \in Sock : ClosedAndIdle(sock[s]) => AllAsked
    /\ \A l \in Link : RequestsFirst(l)
    /\ \A l \in Link : \A i \in DOMAIN net[l] : ClosingMessage(l, net[l][i])
    /\ CloseConfirmed
-----------------------------------------------------------------------------
(* Ordered streams in both directions.  No data of the client has the number of *)
(* its request, so what acknowledges the request acknowledges nothing else.     *)

OrderlyApart == Orderly /\ NumberedApart = Client

ToServer(c) == <<ClientNode[c], Server>>
ToClient(c) == <<Server, ClientNode[c]>>

UsedSlots == Slot \ FreeSlots

Live(p) == p \in m_sockets /\ sock[p].state = "connected"

AllReached(p, n) ==
    \A j \in DOMAIN sent[p] : sent[p][j] <= n => <<p, j>> \in Reached

\* Message m, if it has the number of a payload of p, brings that payload.
DataOf(p, m) == \A j \in DOMAIN sent[p] : sent[p][j] = m.id => m.buf = <<<<p, j>>>>

\* Client c has got what number a acknowledges, and all that came before it.
ClientGot(c, a) ==
    /\ ~ AllAsked => a <= 1
    /\ sock[c].state = "connected" => a <= sock[c].last_received
    /\ \A p \in Slot : Live(p) => a <= sock[p].last_outgoing /\ AllReached(p, a)

\* The acceptor's socket has got what a acknowledges: the request, or data.
SlotGot(a) ==
    \/ a \in RequestIds \cup {0}
    \/ AllAsked /\ \A p \in Slot : Live(p) => a <= sock[p].last_received

ClientAcks(c) ==
    sock[c].state \notin Unanswered =>
       /\ ClientGot(c, sock[c].ack_task.id)
       /\ sock[c].send_task.has /\ sock[c].send_task.type # "connection_close_submit" =>
            ClientGot(c, sock[c].send_task.ack)

\* Each end waits for an acknowledgement of its last message, or has had it.  Until
\* no request is left, only the first messages of both ends have been sent.
ClientConnected(c) ==
    sock[c].state = "connected" =>
       /\ Busy(sock[c]) => 1 <= sock[c].last_outgoing
       /\ \A p \in Slot : AllReached(p, sock[c].last_received)
       /\ \A p \in Slot : Live(p) =>
            IF Busy(sock[c]) THEN sock[c].last_outgoing <= sock[p].last_received + 1
                             ELSE sock[c].last_outgoing = sock[p].last_received
       /\ ~ AllAsked => /\ sock[c].last_received = 1
                        /\ sock[c].last_outgoing = IF Busy(sock[c]) THEN 1 ELSE 0

SlotConnected(c, p) ==
    Live(p) =>
       /\ \A x \in Slot \ {p} : sent[x] = <<>>
       /\ \A j \in DOMAIN sent[p] : sent[p][j] <= sock[p].last_outgoing
       /\ Busy(sock[p]) => /\ sock[p].send_task.id = sock[p].last_outgoing
                           /\ 1 <= sock[p].last_outgoing
       /\ HasTask(sock[p], {"data_transfer"}) => DataOf(p, sock[p].send_task)
       /\ sock[c].state = "connected" =>
            IF Busy(sock[p])
            THEN sock[c].last_received \in {sock[p].last_outgoing - 1, sock[p].last_outgoing}
            ELSE sock[c].last_received = sock[p].last_outgoing
       /\ ~ AllAsked => /\ HasTask(sock[p], {"connection_submit"})
                        /\ sock[p].last_outgoing = 1

ClientOrder(c) ==
    /\ sock[c].state = "waiting_for_submit" => HasTask(sock[c], {"connection_request"})
    /\ HasTask(sock[c], {"data_transfer"}) => sock[c].state = "connected"
    /\ sock[c].state \in Unanswered => sock[c].last_received = 0
    /\ ClientAcks(c)
    /\ ClientConnected(c)
    /\ \A i \in DOMAIN Delivered(c) : Delivered(c)[i][1] \in Slot
    /\ InOrder(c)

SlotAcks(p) ==
    p \in m_sockets =>
       /\ SlotGot(sock[p].ack_task.id)
       /\ sock[p].send_task.has => SlotGot(sock[p].send_task.ack)

SlotTask(b) ==
    /\ b.send_task.buf # <<>> => HasTask(b, {"data_transfer"})
    /\ HasTask(b, {"data_transfer"}) => b.state = "connected"
    /\ HasTask(b, {"connection_submit"}) => b.send_task.id = 1

SlotIds(p) ==
    /\ \A j \in DOMAIN sent[p] : 1 <= sent[p][j]
    /\ \A i, j \in DOMAIN sent[p] : i < j => sent[p][i] < sent[p][j]
    /\ \A x \in Slot : sent[p] # <<>> /\ sent[x] # <<>> => p = x

SlotOrder(c, p) ==
    /\ SlotTask(sock[p])
    /\ SlotIds(p)
    /\ sock[p].state = "connected" => AllReached(c, sock[p].last_received)
    /\ ~ AllAsked => sent[p] = <<>> /\ sock[p].last_received = 0
    /\ SlotAcks(p)
    /\ SlotConnected(c, p)

ToClientOrder(c, m) ==
    /\ m.type = "connection_submit" => m.id = 1
    /\ m.type = "connection_close_submit" => \A p \in Slot : ~ Live(p)
    /\ m.type # "connection_close_submit" => SlotGot(m.ack)
    /\ m.type = "data_transfer" =>
         /\ \A p \in Slot : DataOf(p, m)
         /\ sock[c].state = "connected" => m.id <= sock[c].last_received + 1
         /\ \A p \in Slot : Live(p) => m.id <= sock[p].last_outgoing
         /\ ~ AllAsked => m.id = 0

ToServerOrder(m) ==
    m.type = "data_transfer" =>
       /\ \A p \in Slot : Live(p) => m.id <= sock[p].last_received + 1
       /\ ~ AllAsked => m.id <= 1

\* The request came before message j of the client: the acceptor has a socket for it,
\* or will have when it has handled what is before the message.
AfterRequest(l, j) ==
    UsedSlots # {} \/ \E i \in 1 .. j - 1 : net[l][i].type = "connection_request"

LateOrder(c, l, j) ==
    AfterRequest(l, j) /\ net[l][j].type # "connection_request" =>
       /\ sock[c].state \notin Unanswered
       /\ \A k \in DOMAIN net[l] : j < k => net[l][k].type # "connection_request"
       /\ net[l][j].type # "connection_close_submit" => ClientGot(c, net[l][j].ack)

OrderInv ==
    /\ \A s \in Sock : sock[s].missed = 0
    /\ \A p \in FreeSlots : sock[p].state = "not_connected"
    /\ \A c \in Client :
         /\ ClientOrder(c)
         /\ \A p \in Slot : SlotOrder(c, p)
         /\ \A i \in DOMAIN net[ToClient(c)] : ToClientOrder(c, net[ToClient(c)][i])
         /\ \A i \in DOMAIN net[ToServer(c)] :
              ToServerOrder(net[ToServer(c)][i]) /\ LateOrder(c, ToServer(c), i)
=============================================================================
