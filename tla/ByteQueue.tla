------------------------------ MODULE ByteQueue ------------------------------
(***************************************************************************)
(* A bounded queue of bytes: blocks are put in whole or not at all, and    *)
(* bytes come out in the order they went in.                               *)
(***************************************************************************)
EXTENDS Integers, Sequences

CONSTANTS
    Byte,
    Capacity,
    Block,      \* the blocks of bytes that callers put
    Request     \* the sizes that callers ask Get for

VARIABLES
    queue,
    result      \* what the last call returned: whether it succeeded, and bytes

vars == <<queue, result>>

Returned(ok, bytes) == result' = [ok |-> ok, bytes |-> bytes]

Front(n) == SubSeq(queue, 1, n)
Behind(n) == SubSeq(queue, n + 1, Len(queue))

Init == queue = <<>> /\ result = [ok |-> TRUE, bytes |-> <<>>]

Put(data) ==
    LET fits == Len(queue) + Len(data) <= Capacity
    IN  /\ Returned(fits, <<>>)
        /\ queue' = IF fits THEN queue \o data ELSE queue

Get(n) ==
    /\ Returned(n <= Len(queue), IF n <= Len(queue) THEN Front(n) ELSE <<>>)
    /\ UNCHANGED queue

Extract(n) ==
    /\ Returned(TRUE, Front(n))
    /\ queue' = Behind(n)

Skip(n) ==
    /\ queue' = Behind(n)
    /\ UNCHANGED result

At(pos) ==
    /\ Returned(TRUE, <<queue[pos + 1]>>)
    /\ UNCHANGED queue

Clear ==
    /\ queue' = <<>>
    /\ UNCHANGED result

Next ==
    \/ \E data \in Block : Put(data)
    \/ \E n \in Request : Get(n)
    \/ \E n \in 0 .. Len(queue) : Extract(n) \/ Skip(n)
    \/ \E pos \in 0 .. Len(queue) - 1 : At(pos)
    \/ Clear

Spec == Init /\ [][Next]_vars
=============================================================================
