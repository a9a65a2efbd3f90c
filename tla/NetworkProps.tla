---------------------------- MODULE NetworkProps ----------------------------
(***************************************************************************)
(* What the network layers promise.                                        *)
(***************************************************************************)
EXTENDS Network

Data == Seq(Nat)

Sent ==
    [source : Node, destination : Address, id : PackageIds, hop_limit : Nat, data : Data]

Package == [source : Node, id : PackageIds, data : Data]

TypeOK ==
    /\ m_incoming \in [Node -> Seq(Package)]
    /\ m_outgoing \in [Device -> Seq(Seq(Nat))]
    /\ ring \in [Device -> Seq(Seq(Nat))]
    /\ seen \in [Node -> Seq(PackageIds)]
    /\ \A n \in Node : Len(seen[n]) <= SeenMax
    /\ taken \in [Node -> Seq(Package)]
    /\ sends \in Seq(Sent)
    /\ forgotten \in [Node -> SUBSET PackageIds]
    /\ lost \in BOOLEAN

Delivered(n) == taken[n] \o m_incoming[n]

\* A package reaches the application of a node once, by whatever ways its copies
\* come and though its own sender hears them, unless the node has forgotten its id.
DeliveredOnce ==
    \A n \in Node : \A i, j \in DOMAIN Delivered(n) :
       Delivered(n)[i].data = Delivered(n)[j].data =>
          i = j \/ Delivered(n)[i].id \in forgotten[n]

\* Every copy that waits for a node is decoded to the source, destination, id and
\* data it was sent with, and a hop limit no larger.
HeaderIntact ==
    \A d \in Device : \A i \in DOMAIN ring[d] : \E k \in DOMAIN sends :
       LET p == Decode(ring[d][i])
       IN  /\ p = [sends[k] EXCEPT !.hop_limit = p.hop_limit]
           /\ p.hop_limit <= sends[k].hop_limit

\* The nodes implement the delivery of packages.
NetworkDelivery ==
    INSTANCE Delivery WITH
        Ids <- PackageIds,
        Submission <- {Submitted(s, id, k) : s \in Sends, id \in PackageIds, k \in 1 .. MaxSends},
        delivered <- [n \in Node |-> Delivered(n)]
ImplementsDelivery == NetworkDelivery!Spec

Quiet == \A d \in Device : m_outgoing[d] = <<>> /\ ring[d] = <<>>

Neighbours(n) == {e[1] : e \in UNION {Hearers(d) : d \in DevicesOf(n)}}

\* The nodes that the k-th package sent is sure to reach when nothing is lost.
\* Broadcasts are not forwarded.  A first copy may come the long way round and
\* make a node discard the one with hops left, so the limit must allow for the
\* longest way without a loop.
Targets(k) ==
    LET p == sends[k]
    IN  IF p.destination = Everyone THEN {p.source} \cup Neighbours(p.source)
        ELSE IF p.destination = p.source \/ p.hop_limit + 2 >= Cardinality(Node)
        THEN Node \cap {p.destination}
        ELSE {}

IdIsUnique(k) == \A j \in DOMAIN sends : sends[j].id = sends[k].id => j = k

\* When flooding has ended and no transmission was lost, every package with an
\* id of its own has been delivered: no node kept back a copy that mattered.
FloodingReaches ==
    Quiet /\ ~ lost =>
       \A k \in DOMAIN sends : IdIsUnique(k) =>
          \A n \in Targets(k) : \E i \in DOMAIN Delivered(n) : Delivered(n)[i] = Received(sends[k])

\* Flooding ends, though packages can run in circles and drive each other's ids
\* out of the caches: in the end every queue and buffer is empty.
FloodingEnds == <>[](Len(sends) = MaxSends => Quiet)
=============================================================================
