----------------------------- MODULE NetworkInv -----------------------------
(***************************************************************************)
(* The inductive invariant behind DeliveredOnce and ImplementsDelivery.    *)
(***************************************************************************)
EXTENDS NetworkProps

\* The codec carries the addresses and hop limits in use: addresses have four
\* bytes, the highest bit of the fourth not set.
ASSUME CarriedAssumption ==
    /\ \A a \in Address : a < (Base \div 2) * Base * Base * Base
    /\ \A s \in Sends : s[3] < HopEscape

\* A frame on its way is the encoding of a package that was sent, with no more
\* hops left, and none of a package for its own sender.
Travels(frame) ==
    \E k \in DOMAIN sends :
       LET h == Decode(frame).hop_limit
       IN  /\ h \in 0 .. sends[k].hop_limit
           /\ frame = Encode([sends[k] EXCEPT !.hop_limit = h], sends[k].data)
           /\ sends[k].destination # sends[k].source

Checked(n, id) == Holds(seen[n], id) \/ id \in forgotten[n]

\* A node has checked the id of what it took, unless it is its own package for itself.
Arrived(n, p) ==
    \E k \in DOMAIN sends :
       /\ p = Received(sends[k])
       /\ AddressAcceptable(n, sends[k].destination)
       /\ Checked(n, p.id) \/ sends[k].destination = sends[k].source

\* The data tell the packages apart, and the flag byte has room for their hop limits.
Numbered == \A k \in DOMAIN sends : sends[k].data = <<k>> /\ sends[k].hop_limit < HopEscape

NetworkInv ==
    /\ TypeOK
    /\ Numbered
    /\ \A d \in Device : \A i \in DOMAIN ring[d] : Travels(ring[d][i])
    /\ \A d \in Device : \A i \in DOMAIN m_outgoing[d] : Travels(m_outgoing[d][i])
    /\ \A n \in Node : \A i \in DOMAIN Delivered(n) : Arrived(n, Delivered(n)[i])
    /\ DeliveredOnce
-----------------------------------------------------------------------------
(* Flooding: a package with an id of its own gets as far as its hop limit allows. *)

\* The frames of the package and of its copies.
Copies(k) == {b \in Seq(Nat) : Decode(b).id = sends[k].id}

\* The nodes that one of them has come to.
Knowing(k) == {n \in Node : Checked(n, sends[k].id)}

\* The copies that have lost a hop for each node that knows the package, at most.
Lasting(k) ==
    LET limit == sends[k].hop_limit
    IN  {b \in Copies(k) : Decode(b).hop_limit \in limit + 1 - Cardinality(Knowing(k)) .. limit}

Has(S, queue) == \E i \in DOMAIN queue : queue[i] \in S

\* The first element of S in the queue is one of T.
FirstIn(S, T, queue) ==
    \A i \in DOMAIN queue :
       queue[i] \in S /\ (\A j \in 1 .. i - 1 : queue[j] \notin S) => queue[i] \in T

\* The node of device e got the package from device d, or will get it.
GetsFrom(k, d, e) ==
    e[1] \in Knowing(k) \/ Has(Copies(k), ring[e]) \/ Has(Copies(k), m_outgoing[d])

\* Who sends a copy knows the package; all who listen to a medium hear it at once.
CopiesHeard(k) ==
    /\ \A d \in Device : Has(Copies(k), m_outgoing[d]) => d[1] \in Knowing(k)
    /\ \A d, e \in Device :
          d[2] = e[2] /\ e[1] \notin Knowing(k) /\ Has(Copies(k), ring[d])
             => Has(Copies(k), ring[e])

SourceSpreads(k) ==
    sends[k].destination # sends[k].source =>
       /\ sends[k].source \in Knowing(k)
       /\ \A d \in DevicesOf(sends[k].source) : \A e \in Hearers(d) : GetsFrom(k, d, e)

\* A package for one node that it has not got to, though the hop limit allows for the
\* nodes it did get to, spreads from each of them.
Spreads(k) ==
    /\ sends[k].destination \notin Knowing(k) \cup {sends[k].source, Everyone}
    /\ Cardinality(Knowing(k)) <= sends[k].hop_limit + 1
    => \A d \in Device :
          /\ d[1] \notin Knowing(k) => FirstIn(Copies(k), Lasting(k), ring[d])
          /\ \A e \in Hearers(d) : e[1] \notin Knowing(k) =>
                /\ \/ Has(Copies(k), ring[e])
                   \/ FirstIn(Copies(k), Lasting(k), m_outgoing[d])
                /\ d[1] \in Knowing(k) => GetsFrom(k, d, e)

Flooding(k) == ~ lost => CopiesHeard(k) /\ SourceSpreads(k) /\ Spreads(k)

\* A node that knows a package for it has got it.
Taken(k) ==
    \A n \in Knowing(k) \cup {sends[k].source} :
       AddressAcceptable(n, sends[k].destination) =>
          Has({Received(sends[k])}, Delivered(n))

CheckedWasSent ==
    \A n \in Node : \A id \in PackageIds :
       Checked(n, id) =>
          \E k \in DOMAIN sends : sends[k].id = id /\ sends[k].destination # sends[k].source

FloodInv ==
    /\ CheckedWasSent
    /\ \A k \in DOMAIN sends : IdIsUnique(k) => Taken(k) /\ Flooding(k)

\* Media lead out of every set of nodes that leaves out some of them.
Connected ==
    /\ IsFiniteSet(Node)
    /\ \A some \in SUBSET Node : some \notin {{}, Node} =>
          \E d \in Device : \E e \in Hearers(d) : d[1] \in some /\ e[1] \notin some
=============================================================================
