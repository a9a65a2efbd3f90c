----------------------------- MODULE MCTransport -----------------------------
(* Values for the constants of the transport's small instances. *)
EXTENDS TransportProps

\* Clients "c1" and "c2" live on nodes of their own, or on one node.
ApartNodes == [c \in Client |-> IF c = "c1" THEN 1 ELSE 2]
OneNode == [c \in Client |-> 1]
Ports == [c \in Client |-> IF c = "c1" THEN 31 ELSE 32]

\* The storage of an m_ack_task that never had a value: as if an acknowledgement
\* had been sent, or were still to be sent, or either.
Fresh == {NoAckTask(0, TRUE)}
Stale == {NoAckTask(0, FALSE)}
Dirty == Fresh \cup Stale

\* Messages on their way to the server and to the clients.
Capacity(server, client) == [n \in Node |-> IF n = Server THEN server ELSE client]
TwoEach == Capacity(2, 2)
TwoToServer == Capacity(2, 1)
OneEach == Capacity(1, 1)

\* Messages that a client and that a socket of the acceptor may number.
Outgoing(client, slot) == [s \in Sock |-> IF s \in Client THEN client ELSE slot]
None == Outgoing(0, 0)
ClientTwo == Outgoing(2, 0)
ClientThree == Outgoing(3, 0)
TwoThree == Outgoing(2, 3)
TwoTwo == Outgoing(2, 2)
=============================================================================
