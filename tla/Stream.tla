-------------------------------- MODULE Stream --------------------------------
(***************************************************************************)
(* What connected sockets promise their applications, with no messages, no *)
(* ids and no retransmissions: each endpoint offers a sequence of          *)
(* payloads; a receiver gets some of them, none twice; a receiver with an  *)
(* ordered stream gets them from one sender in the order it offered them;  *)
(* and a sender is told that a payload is through only when it is.         *)
(***************************************************************************)
EXTENDS Naturals, Sequences

CONSTANTS
    Endpoint,
    Ordered,        \* receivers whose stream is in order and of one sender
    Truthful        \* senders whose confirmations can be relied upon

VARIABLES
    offered,        \* how many payloads each sender has offered
    received,       \* what each receiver got, <<sender, number>> each
    refused,        \* payloads that arrived at a receiver without room
    confirmed       \* payloads their senders hold for arrived

vars == <<offered, received, refused, confirmed>>

Arrived == refused \cup UNION {{received[r][i] : i \in DOMAIN received[r]} : r \in Endpoint}

Init ==
    /\ offered = [e \in Endpoint |-> 0]
    /\ received = [e \in Endpoint |-> <<>>]
    /\ refused = {}
    /\ confirmed = {}

Offer(s) ==
    /\ offered' = [offered EXCEPT ![s] = @ + 1]
    /\ UNCHANGED <<received, refused, confirmed>>

IsNext(r, s, n) ==
    \A i \in DOMAIN received[r] :
       /\ received[r][i] # <<s, n>>
       /\ r \in Ordered => received[r][i][1] = s /\ received[r][i][2] < n

Deliver(r, s, n) ==
    /\ n \in 1 .. offered[s]
    /\ IsNext(r, s, n)
    /\ received' = [received EXCEPT ![r] = Append(@, <<s, n>>)]
    /\ UNCHANGED refused

Refuse(s, n) ==
    /\ n \in 1 .. offered[s]
    /\ refused' = refused \cup {<<s, n>>}
    /\ UNCHANGED received

Nothing == UNCHANGED <<received, refused>>

\* The message that brings a payload may confirm one of the other direction.
Confirm(s, n) ==
    /\ s \in Truthful => <<s, n>> \in Arrived
    /\ confirmed' = confirmed \cup {<<s, n>>}

Arrive ==
    /\ \/ \E r, s \in Endpoint : \E n \in 1 .. offered[s] : Deliver(r, s, n)
       \/ \E s \in Endpoint : \E n \in 1 .. offered[s] : Refuse(s, n)
       \/ Nothing
    /\ \/ \E s \in Endpoint : \E n \in 1 .. offered[s] : Confirm(s, n)
       \/ UNCHANGED confirmed
    /\ UNCHANGED offered

Next == Arrive \/ \E s \in Endpoint : Offer(s)

Spec == Init /\ [][Next]_vars
=============================================================================
