------------------------------ MODULE Delivery ------------------------------
(***************************************************************************)
(* What a network of NetworkLayers promises to its applications, whatever  *)
(* its topology: a package goes to the node it is addressed to or, if it   *)
(* is for everyone, to any, with the source, id and data it was sent with; *)
(* a node gets it once, until it has forgotten the id.                     *)
(***************************************************************************)
EXTENDS Naturals, Sequences

CONSTANTS Node, Everyone, Ids, Submission

VARIABLES
    sends,          \* what applications sent
    delivered,      \* what each node has for its application, or gave to it
    forgotten       \* ids that a node may take for new ones

vars == <<sends, delivered, forgotten>>

Init ==
    /\ sends = <<>>
    /\ delivered = [n \in Node |-> <<>>]
    /\ forgotten = [n \in Node |-> {}]

IsFor(n, s) == s.destination \in {n, Everyone}

Received(s) == [source |-> s.source, id |-> s.id, data |-> s.data]

Give(n, s) == delivered' = [delivered EXCEPT ![n] = Append(@, Received(s))]

Forget ==
    /\ forgotten' \in [Node -> SUBSET Ids]
    /\ \A n \in Node : forgotten[n] \subseteq forgotten'[n]

Send(s) ==
    /\ sends' = Append(sends, s)
    /\ IF IsFor(s.source, s) THEN Give(s.source, s) ELSE UNCHANGED delivered
    /\ Forget

Deliver(n, s) ==
    /\ IsFor(n, s)
    /\ Give(n, s)
    /\ \A i \in DOMAIN delivered[n] :
          delivered[n][i] = Received(s) => s.id \in forgotten[n]
    /\ Forget
    /\ UNCHANGED sends

Next ==
    \/ Forget /\ UNCHANGED <<sends, delivered>>
    \/ \E n \in Node, k \in DOMAIN sends : Deliver(n, sends[k])
    \/ \E s \in Submission : Send(s)

Spec == Init /\ [][Next]_vars
=============================================================================
