--------------------------- MODULE TransportProps ---------------------------
(***************************************************************************)
(* What the transport layers promise, and what the comments and the tests  *)
(* of the code say they promise.                                           *)
(***************************************************************************)
EXTENDS Transport

(* Types *)

Buffer == {b \in Seq(Payload) : Len(b) <= 1}

SendTask ==
    [has : BOOLEAN, type : MessageType, id : Id, ack : Id, dport : Port, buf : Buffer]

AckTask == [has : BOOLEAN, id : Id, sent : BOOLEAN]

SocketType ==
    [remote_address : Node, local_port : Port, remote_port : Port, state : State,
     send_task : SendTask, ack_task : AckTask, incoming : Seq(Payload),
     last_received : Id, last_outgoing : Id, unconfirmed : Id, missed : Id]

Message ==
    [type : MessageType, id : Id, ack : Id, sport : Port, dport : Port, buf : Buffer]

\* Every member of every socket, every message and every history has its type:
\* ids and counters stay in the range of uint16_t, and no call on a socket of
\* the acceptor's cache reaches a socket the acceptor did not create.
TypeOK ==
    /\ sock \in [Sock -> SocketType]
    /\ m_sockets \subseteq Sock
    /\ IsCache(cache, Id, Slot)
    /\ net \in [Link -> Seq(Message)]
    /\ sent \in [Sock -> Seq(Id)]
    /\ taken \in [Sock -> Seq(Payload)]
    /\ confirmed \subseteq Payload
    /\ overflowed \subseteq Payload
    /\ faults \in Nat

-----------------------------------------------------------------------------
(* Streams *)

\* What the application of s gets from get_received(), now or later.
Delivered(s) == taken[s] \o sock[s].incoming

DeliveredItems(s) == BufferItems(Delivered(s))

\* At each socket, no payload is queued for the application twice: neither a
\* retransmission nor a copy delayed by the network gets past the comparison
\* with m_last_received_message_id.
AtMostOnce ==
    \A s \in Sock : \A i, j \in DOMAIN Delivered(s) :
       Delivered(s)[i] = Delivered(s)[j] => i = j

InOrder(s) ==
    \A i, j \in DOMAIN Delivered(s) :
       i < j => /\ Delivered(s)[i][1] = Delivered(s)[j][1]
                /\ Delivered(s)[i][2] < Delivered(s)[j][2]

\* A socket of the acceptor gets payloads of one client only, in the order the
\* client sent them, whatever the network does to the messages.
AcceptorStreamsInOrder == \A s \in Slot : InOrder(s)

Reached == overflowed \cup UNION {DeliveredItems(s) : s \in Sock}

\* The acknowledgement that makes receive() drop its send task ("our last
\* transmission is OK") is one of the payload in the task: the other end has
\* queued it, or found its queue full.
ConfirmedReached == confirmed \subseteq Reached

\* The same without the exception: what is confirmed is queued.
ConfirmedDelivered == confirmed \subseteq UNION {DeliveredItems(s) : s \in Sock}

\* On a network that keeps the order, the sockets implement ordered streams
\* with truthful confirmations in both directions.
FifoStream ==
    INSTANCE Stream WITH
        Endpoint <- Sock, Ordered <- Sock, Truthful <- Sock,
        offered <- [s \in Sock |-> Len(sent[s])],
        received <- [s \in Sock |-> Delivered(s)],
        refused <- overflowed
ImplementsFifoStream == FifoStream!Spec

\* Clients whose data cannot have the id of a connection request: what acknowledges
\* the request does not acknowledge their data.
NumberedApart == {c \in Client : RequestIds \cap 1 .. MaxOutgoing[c] = {}}

\* On any network, the streams from clients are ordered and the confirmations
\* clients get are truthful; the acceptor's sockets promise at most once.
AnyStream ==
    INSTANCE Stream WITH
        Endpoint <- Sock, Ordered <- Slot, Truthful <- NumberedApart,
        offered <- [s \in Sock |-> Len(sent[s])],
        received <- [s \in Sock |-> Delivered(s)],
        refused <- overflowed
ImplementsAnyStream == AnyStream!Spec

-----------------------------------------------------------------------------
(* Connections *)

\* The sockets at the other end of s: each has the address and port of the other.
Peers(s) ==
    {p \in Sock : /\ Address(p) = sock[s].remote_address
                  /\ Address(s) = sock[p].remote_address
                  /\ sock[p].local_port = sock[s].remote_port
                  /\ sock[s].local_port = sock[p].remote_port}

\* A client that got a submit knows the port of a socket the acceptor created
\* for it, though find_socket_for_submit looks at neither end's identity but
\* its address and the client's port.
ConnectedHasPeer ==
    \A c \in Client : sock[c].state \in {"connected", "closed"} => Peers(c) # {}

\* Copies of a connection request do not create a second socket, unless the
\* first one has been destroyed.
OneSocketPerRequest ==
    \A s, t \in Slot \cap m_sockets :
       /\ sock[s].remote_address = sock[t].remote_address
       /\ sock[s].remote_port = sock[t].remote_port
       => s = t

\* A socket that is closed and has nothing left to send has been told so by a
\* peer that is closed as well.
CloseConfirmed ==
    \A s \in Sock : sock[s].state = "closed" /\ ~ Busy(sock[s]) =>
        \E p \in Peers(s) : sock[p].state = "closed"

\* A close that a client starts takes effect at the other end.
CloseReachesPeer ==
    \A c \in Client :
        sock[c].state = "closed" ~> \A p \in Peers(c) : sock[p].state = "closed"

-----------------------------------------------------------------------------
(* Counters *)

\* While no task is given up, missed_from_remote() of a connected socket counts
\* the payloads of its peer that it will never get: there are none, and loss,
\* retransmission and empty messages do not make it count one.
MissedIsLost ==
    \A s \in Sock : sock[s].state = "connected" =>
      \A p \in Peers(s) :
        sock[s].missed =
          Cardinality({n \in DOMAIN sent[p] : /\ sent[p][n] <= sock[s].last_received
                                              /\ <<p, n>> \notin Reached})

Pending(s) == IF Busy(sock[s]) THEN 1 ELSE 0

\* While nothing has timed out, unconfirmed_to_remote() of a connected client
\* is the number of messages it waits to have acknowledged.
ClientUnconfirmedIsPending ==
    \A s \in Client : sock[s].state = "connected" => sock[s].unconfirmed = Pending(s)

-----------------------------------------------------------------------------
(* Progress *)

\* Every connection request is answered, unless it times out.
EveryRequestConnects ==
    \A c \in Client : sock[c].state = "waiting_for_submit"
                      ~> sock[c].state # "waiting_for_submit"

\* Every payload that send() took arrives.
EverySendReached ==
    \A s \in Sock : \A n \in 1 .. MaxOutgoing[s] :
        Len(sent[s]) >= n ~> <<s, n>> \in Reached

\* No socket stays busy.
EveryTaskConfirmed == \A s \in Sock : Busy(sock[s]) ~> ~ Busy(sock[s])
=============================================================================
