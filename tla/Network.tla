------------------------------ MODULE Network ------------------------------
(***************************************************************************)
(* The network layers of several nodes (ntdcp/src/network.cpp) on shared   *)
(* media (ntdcp/src/virtual-device.cpp).  A package floods the network:    *)
(* every node forwards to all its other devices what it has not seen and   *)
(* what is not for itself, while the hop limit lasts.                      *)
(*                                                                         *)
(* A device is a pair of a node and a medium.  A step is one package of    *)
(* serve_incoming, one package of serve_outgoing, or one call of the       *)
(* application.  A package travels as the bytes that encode() makes of it.  *)
(* The channel layer is reduced to its contract: a package put into a ring *)
(* buffer is decoded once, in order.                                       *)
(***************************************************************************)
EXTENDS Header, CachingSet, FiniteSets

CONSTANTS
    Device,         \* which node is attached to which medium
    RetransmitBack, \* devices with the option retransmit_back
    PackageIds,     \* values random_id() gives
    Sends,          \* source, destination and hop limit applications choose
    SeenMax,        \* size of m_packages_already_received: 100 in the code
    RingMax,        \* packages the ring buffer of a device has room for
    MaxSends,       \* bound: calls of send()
    MayLose         \* bound: whether devices may be deaf, to one transmission

Node == {d[1] : d \in Device}
Medium == {d[2] : d \in Device}
Everyone == Base - 1    \* the broadcast address 0xFF
Address == Node \cup {s[2] : s \in Sends} \cup {Everyone}

ASSUME NetworkAssumption ==
    /\ Device \subseteq Nat \X Medium
    /\ RetransmitBack \subseteq Device
    /\ PackageIds \subseteq 1 .. Base * Base - 1
    /\ Sends \subseteq Node \X Nat \X Nat
    /\ {SeenMax, RingMax} \subseteq Nat \ {0}
    /\ MaxSends \in Nat /\ MayLose \in BOOLEAN

VARIABLES
    m_incoming,     \* packages for the application of each node
    m_outgoing,     \* packages that wait for each device
    ring,           \* packages in the ring buffer of each device
    seen,           \* m_packages_already_received of each node
    taken,          \* history: packages incoming() returned at each node
    sends,          \* history: the packages applications sent
    forgotten,      \* history: ids the cache of each node has forgotten
    lost            \* history: whether some device did not get a transmission

vars == <<m_incoming, m_outgoing, ring, seen, taken, sends, forgotten, lost>>

Init ==
    /\ m_incoming = [n \in Node |-> <<>>]
    /\ m_outgoing = [d \in Device |-> <<>>]
    /\ ring = [d \in Device |-> <<>>]
    /\ seen = [n \in Node |-> <<>>]
    /\ taken = [n \in Node |-> <<>>]
    /\ sends = <<>>
    /\ forgotten = [n \in Node |-> {}]
    /\ lost = FALSE

AddressAcceptable(n, destination) == destination \in {n, Everyone}

\* m_packages_already_received.check_update(id) of node n.
Check(n, id) ==
    /\ seen' = [seen EXCEPT ![n] = CheckUpdate(@, id, SeenMax)]
    /\ forgotten' = IF Forgets(seen[n], id, SeenMax)
                    THEN [forgotten EXCEPT ![n] = @ \cup {Head(seen[n])}]
                    ELSE forgotten

PushIncoming(n, p) == m_incoming' = [m_incoming EXCEPT ![n] = Append(@, p)]

\* p waits at every device in ds.
PushOutgoing(ds, p) ==
    m_outgoing' = [d \in Device |-> IF d \in ds THEN Append(m_outgoing[d], p)
                                                ELSE m_outgoing[d]]

DevicesOf(n) == {d \in Device : d[1] = n}

\* What incoming() returns of a package.
Received(p) == [source |-> p.source, id |-> p.id, data |-> p.data]

-----------------------------------------------------------------------------
(* The application *)

\* The package of the k-th call of send(); its data is <<k>>.
Submitted(s, id, k) ==
    [source |-> s[1], destination |-> s[2], id |-> id, hop_limit |-> s[3], data |-> <<k>>]

\* A package for the node itself does not get into its cache.
Send(s, id) ==
    /\ Len(sends) < MaxSends
    /\ LET p == Submitted(s, id, Len(sends) + 1)
           n == p.source
       IN  /\ sends' = Append(sends, p)
           /\ IF AddressAcceptable(n, p.destination) THEN PushIncoming(n, Received(p))
                                                     ELSE UNCHANGED m_incoming
           /\ IF p.destination = n
              THEN UNCHANGED <<m_outgoing, seen, forgotten>>
              ELSE Check(n, id) /\ PushOutgoing(DevicesOf(n), Encode(p, p.data))
    /\ UNCHANGED <<ring, taken, lost>>

Incoming(n) ==
    /\ m_incoming[n] # <<>>
    /\ taken' = [taken EXCEPT ![n] = Append(@, Head(m_incoming[n]))]
    /\ m_incoming' = [m_incoming EXCEPT ![n] = Tail(@)]
    /\ UNCHANGED <<m_outgoing, ring, seen, sends, forgotten, lost>>

-----------------------------------------------------------------------------
(* serve() *)

\* Devices of node n that retransmit() sends to what came from device d.
ForwardTo(d) ==
    {e \in DevicesOf(d[1]) : e = d => d \in RetransmitBack}

\* Mutant: the last hop is not used.
RetransmitLastHopUnused(d, p) ==
    IF p.hop_limit <= 1 THEN UNCHANGED m_outgoing
    ELSE PushOutgoing(ForwardTo(d), Encode([p EXCEPT !.hop_limit = @ - 1], p.data))

Retransmit(d, p) ==
    IF p.hop_limit = 0 THEN UNCHANGED m_outgoing
    ELSE PushOutgoing(ForwardTo(d), Encode([p EXCEPT !.hop_limit = @ - 1], p.data))

\* Mutant: a package for the node itself is taken without asking the cache.
HandleTakesFirst(d, p) ==
    LET n == d[1]
    IN  /\ Check(n, p.id)
        /\ IF AddressAcceptable(n, p.destination)
           THEN PushIncoming(n, Received(p)) /\ UNCHANGED m_outgoing
           ELSE IF Holds(seen[n], p.id) THEN UNCHANGED <<m_incoming, m_outgoing>>
           ELSE Retransmit(d, p) /\ UNCHANGED m_incoming

\* What a node does with a package that came from its device d.
Handle(d, p) ==
    LET n == d[1]
    IN  /\ Check(n, p.id)
        /\ IF Holds(seen[n], p.id) THEN UNCHANGED <<m_incoming, m_outgoing>>
           ELSE IF AddressAcceptable(n, p.destination)
           THEN PushIncoming(n, Received(p)) /\ UNCHANGED m_outgoing
           ELSE Retransmit(d, p) /\ UNCHANGED m_incoming

\* One package of the ring buffer of device d.
ServeIncoming(d) ==
    /\ ring[d] # <<>>
    /\ ring' = [ring EXCEPT ![d] = Tail(@)]
    /\ IF Decodes(Head(ring[d]))
       THEN \E p \in {Decode(Head(ring[d]))} : Handle(d, p)
       ELSE UNCHANGED <<m_incoming, m_outgoing, seen, forgotten>>
    /\ UNCHANGED <<taken, sends, lost>>

\* TransmissionMedium::send offers the frame to the other devices of the medium.
Hearers(d) == {e \in Device : e[2] = d[2] /\ e # d}

HasRoom(e) == Len(ring[e]) < RingMax

\* Mutant: what was sent stays in the queue.
ServeOutgoingResends(d, deaf) ==
    /\ m_outgoing[d] # <<>>
    /\ deaf # {} => MayLose /\ ~ lost
    /\ LET got == {e \in Hearers(d) \ deaf : HasRoom(e)}
       IN  /\ ring' = [e \in Device |-> IF e \in got THEN Append(ring[e], Head(m_outgoing[d]))
                                                     ELSE ring[e]]
           /\ lost' = (lost \/ got # Hearers(d))
    /\ UNCHANGED <<m_incoming, m_outgoing, seen, taken, sends, forgotten>>

\* Device d is not busy and sends its next package.  Some devices may be deaf to
\* it: their own last transmission is less than tx_to_rx_time ago, or the medium
\* is broken.  A ring buffer without room refuses the frame.
ServeOutgoing(d, deaf) ==
    /\ m_outgoing[d] # <<>>
    /\ deaf # {} => MayLose /\ ~ lost
    /\ LET got == {e \in Hearers(d) \ deaf : HasRoom(e)}
       IN  /\ ring' = [e \in Device |-> IF e \in got THEN Append(ring[e], Head(m_outgoing[d]))
                                                     ELSE ring[e]]
           /\ lost' = (lost \/ got # Hearers(d))
    /\ m_outgoing' = [m_outgoing EXCEPT ![d] = Tail(@)]
    /\ UNCHANGED <<m_incoming, seen, taken, sends, forgotten>>

-----------------------------------------------------------------------------

Next ==
    \/ \E s \in Sends, id \in PackageIds : Send(s, id)
    \/ \E n \in Node : Incoming(n)
    \/ \E d \in Device : \/ ServeIncoming(d)
                         \/ \E deaf \in SUBSET Hearers(d) : ServeOutgoing(d, deaf)

Spec == Init /\ [][Next]_vars

\* serve() is called again and again and devices do not stay busy for ever.
Fairness ==
    WF_vars(\E d \in Device : \/ ServeIncoming(d)
                              \/ \E deaf \in SUBSET Hearers(d) : ServeOutgoing(d, deaf))

FairSpec == Spec /\ Fairness
=============================================================================
