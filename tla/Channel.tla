------------------------------ MODULE Channel ------------------------------
(***************************************************************************)
(* Class ChannelLayer (ntdcp/src/channel.cpp) on the ring buffers of the   *)
(* devices of one node: frames are found in streams of bytes by their      *)
(* headers and checksums, whatever noise is around them.  NetworkLayer::   *)
(* serve_incoming has one ChannelLayer decode all its devices in turn.  A  *)
(* step is the arrival of a block of bytes, one call of decode_single, or  *)
(* the turn of a device with an empty buffer.                              *)
(*                                                                         *)
(* A header is abstracted to its first byte: Header says which bytes begin *)
(* one, and what size and checksum it holds.  A checksum is the body that  *)
(* it fits, so different bodies have different ones.                       *)
(***************************************************************************)
EXTENDS Integers, Sequences, FiniteSets

CONSTANTS
    Devices,        \* number of devices of the node
    Byte,
    Header,         \* of some bytes: the size and checksum in the header they begin
    HeaderSize,     \* sizeof(ChannelHeader): 8 in the code
    Block,          \* blocks of bytes that devices receive
    RingMax,        \* capacity of a ring buffer
    MaxStream       \* bound: bytes that a device receives

ASSUME ChannelAssumption ==
    /\ Devices \in Nat \ {0}
    /\ DOMAIN Header \subseteq Byte
    /\ Header \in [DOMAIN Header -> [size : Nat, checksum : Seq(Byte)]]
    /\ HeaderSize \in Nat \ {0}
    /\ Block \subseteq Seq(Byte)
    /\ {RingMax, MaxStream} \subseteq Nat

Device == 1 .. Devices

VARIABLES
    buffer,                 \* the bytes that wait in the ring buffer of each device
    m_decoding_instances,   \* headers found, whose bodies begin at body_begin
    m_header_search_pos,
    turn,                   \* the device that serve_incoming is at
    decoding,               \* whether decode() is in its loop
    stream,                 \* history: all bytes that got into each ring buffer
    frames,                 \* history: the frames decoded, and where in stream
    settled                 \* history: decode() is done with all that has arrived

vars == <<buffer, m_decoding_instances, m_header_search_pos, turn, decoding, stream, frames,
          settled>>

Init ==
    /\ buffer = [d \in Device |-> <<>>]
    /\ m_decoding_instances = <<>>
    /\ m_header_search_pos = 0
    /\ turn = 1
    /\ decoding = FALSE
    /\ stream = [d \in Device |-> <<>>]
    /\ frames = [d \in Device |-> <<>>]
    /\ settled = [d \in Device |-> FALSE]

Skip(bytes, n) == SubSeq(bytes, n + 1, Len(bytes))

\* What is left of a list when only the elements at some places are kept.
Only(list, K) ==
    [i \in 1 .. Cardinality(K) |-> list[CHOOSE k \in K : Cardinality(K \cap 1 .. k) = i]]

-----------------------------------------------------------------------------
(* find_next_headers() *)

Limit(bytes) == Len(bytes) - HeaderSize

\* Offsets below the limit at which a header begins.
HeadersIn(bytes) == {i \in 0 .. Limit(bytes) - 1 : bytes[i + 1] \in DOMAIN Header}

FirstHeader(bytes) ==
    CHOOSE i \in HeadersIn(bytes) \cup {Limit(bytes)} : \A j \in HeadersIn(bytes) : i <= j

\* Mutant: nothing is skipped that was searched in vain.
RewoundNothing(d) == buffer[d]

\* The buffer once nothing is left of what has been searched in vain.
Rewound(d) ==
    IF m_decoding_instances # <<>> THEN buffer[d]
    ELSE LET unsearched == Skip(buffer[d], m_header_search_pos)
         IN  Skip(unsearched, FirstHeader(unsearched))

\* Mutant: the search starts again.
NewInstancesAgain(bytes, from) ==
    Only([k \in 1 .. Limit(bytes) |-> [body_begin |-> k - 1 + HeaderSize,
                                      header |-> Header[bytes[k]]]],
         {i + 1 : i \in HeadersIn(bytes)})

\* Headers at or after an offset, in order.
NewInstances(bytes, from) ==
    Only([k \in 1 .. Limit(bytes) |-> [body_begin |-> k - 1 + HeaderSize,
                                      header |-> Header[bytes[k]]]],
         {i + 1 : i \in HeadersIn(bytes) \ 0 .. from - 1})

\* Elsewhere skip() would pass the end of the ring buffer or its size()
\* - sizeof(ChannelHeader) wrap around, and what is read then is nothing received.
InRange(d) ==
    Len(buffer[d]) >= HeaderSize /\ m_decoding_instances = <<>> =>
       m_header_search_pos + HeaderSize <= Len(buffer[d])

\* What decode_single looks for frames in.
Found(d) ==
    IF Len(buffer[d]) < HeaderSize
    THEN [bytes |-> buffer[d], instances |-> m_decoding_instances,
          search |-> m_header_search_pos]
    ELSE LET bytes == Rewound(d)
             from == IF m_decoding_instances = <<>> THEN 0 ELSE m_header_search_pos
         IN  [bytes |-> bytes,
              instances |-> m_decoding_instances \o NewInstances(bytes, from),
              search |-> Limit(bytes)]

-----------------------------------------------------------------------------
(* find_sucessful_instance() *)

End(c) == c.body_begin + c.header.size

Complete(c, bytes) == End(c) <= Len(bytes)

Body(c, bytes) == SubSeq(bytes, c.body_begin + 1, End(c))

\* Mutant: the checksum is not compared.
IsFrameUnchecked(c, bytes) == Complete(c, bytes)

IsFrame(c, bytes) == Complete(c, bytes) /\ Body(c, bytes) = c.header.checksum

\* Mutant: the position of the search is left where it was.
SearchAfterStays(search, end) == search

SearchAfter(search, end) == IF search > end THEN search - end ELSE 0

\* Mutant: a decoded frame clears all candidates.
KeptAfterNone(instances, end) == <<>>

\* Candidates that remain when the buffer has lost everything before an end.
KeptAfter(instances, end) ==
    LET kept == Only(instances, {k \in DOMAIN instances : instances[k].body_begin >= end})
    IN  [k \in DOMAIN kept |-> [kept[k] EXCEPT !.body_begin = @ - end]]

Offset(d) == Len(stream[d]) - Len(buffer[d])

\* The first candidate that is a frame.
IsTaken(k, found) ==
    /\ IsFrame(found.instances[k], found.bytes)
    /\ \A j \in 1 .. k - 1 : ~ IsFrame(found.instances[j], found.bytes)

\* It is taken, with all before it.
Succeed(d, found, k) ==
    LET c == found.instances[k]
        skipped == Len(buffer[d]) - Len(found.bytes)
    IN  /\ IsTaken(k, found)
        /\ buffer' = [buffer EXCEPT ![d] = Skip(found.bytes, End(c))]
        /\ m_decoding_instances' =
             KeptAfter(SubSeq(found.instances, k + 1, Len(found.instances)), End(c))
        /\ m_header_search_pos' = SearchAfter(found.search, End(c))
        /\ frames' = [frames EXCEPT ![d] =
             Append(@, [at |-> Offset(d) + skipped + c.body_begin,
                        data |-> Body(c, found.bytes)])]
        /\ decoding' = TRUE
        /\ settled' = [settled EXCEPT ![d] = FALSE]
        /\ UNCHANGED <<turn, stream>>

NextTurn == turn' = (turn % Devices) + 1

\* Complete candidates that are no frames are forgotten, and decode() ends.
Fail(d, found) ==
    /\ \A k \in DOMAIN found.instances : ~ IsFrame(found.instances[k], found.bytes)
    /\ buffer' = [buffer EXCEPT ![d] = found.bytes]
    /\ m_decoding_instances' =
         Only(found.instances,
              {k \in DOMAIN found.instances : ~ Complete(found.instances[k], found.bytes)})
    /\ m_header_search_pos' = found.search
    /\ decoding' = FALSE
    /\ NextTurn
    /\ settled' = [settled EXCEPT ![d] = TRUE]
    /\ UNCHANGED <<stream, frames>>

\* One call of decode_single in the turn of device d.
DecodeSingle(d) ==
    /\ turn = d
    /\ decoding \/ buffer[d] # <<>>
    /\ InRange(d)
    /\ \E found \in {Found(d)} :
          (\E k \in DOMAIN found.instances : Succeed(d, found, k)) \/ Fail(d, found)

\* Nothing has come to the device.
PassBy(d) ==
    /\ turn = d
    /\ ~ decoding /\ buffer[d] = <<>>
    /\ NextTurn
    /\ UNCHANGED <<buffer, m_decoding_instances, m_header_search_pos, decoding, stream, frames,
                   settled>>

-----------------------------------------------------------------------------

\* encode() of a body, for which Header must have a byte.
Encode(data) ==
    LET first == CHOOSE b \in DOMAIN Header :
                    Header[b] = [size |-> Len(data), checksum |-> data]
        second == CHOOSE b \in Byte : b \notin DOMAIN Header
    IN  <<first>> \o [k \in 1 .. HeaderSize - 1 |-> second] \o data

\* A block that does not fit is refused whole.
Receive(d, block) ==
    /\ Len(stream[d]) + Len(block) <= MaxStream
    /\ Len(buffer[d]) + Len(block) <= RingMax
    /\ buffer' = [buffer EXCEPT ![d] = @ \o block]
    /\ stream' = [stream EXCEPT ![d] = @ \o block]
    /\ settled' = [settled EXCEPT ![d] = FALSE]
    /\ UNCHANGED <<m_decoding_instances, m_header_search_pos, turn, decoding, frames>>

Serve == \E d \in Device : DecodeSingle(d) \/ PassBy(d)

Next == Serve \/ \E d \in Device, block \in Block : Receive(d, block)

Spec == Init /\ [][Next]_vars

\* serve() is called again and again.
FairSpec == Spec /\ WF_vars(Serve)
-----------------------------------------------------------------------------
(* Properties *)

Candidate == [body_begin : Nat, header : [size : Nat, checksum : Seq(Byte)]]

\* When a node has one device, the search position leaves room for a header in its
\* buffer, so that the decoder never reads what was not received.
TypeOK ==
    /\ buffer \in [Device -> Seq(Byte)]
    /\ stream \in [Device -> Seq(Byte)]
    /\ m_decoding_instances \in Seq(Candidate)
    /\ m_header_search_pos \in Nat
    /\ Devices = 1 /\ m_header_search_pos > 0 =>
          m_header_search_pos + HeaderSize <= Len(buffer[1])
    /\ turn \in Device /\ decoding \in BOOLEAN
    /\ frames \in [Device -> Seq([at : Nat, data : Seq(Byte)])]
    /\ settled \in [Device -> BOOLEAN]

After(f) == f.at + Len(f.data)

\* Every frame decoded is in the stream behind a header with its size and
\* checksum, and the bodies of different frames do not overlap and keep their
\* order: offsets into the buffer stay right though the buffer moves under them.
FramesAreInStream ==
    \A d \in Device : \A k \in DOMAIN frames[d] :
       LET f == frames[d][k]
           head == stream[d][f.at - HeaderSize + 1]
       IN  /\ HeaderSize <= f.at /\ After(f) <= Offset(d)
           /\ f.data = SubSeq(stream[d], f.at + 1, After(f))
           /\ head \in DOMAIN Header
           /\ Header[head] = [size |-> Len(f.data), checksum |-> f.data]
           /\ \A j \in 1 .. k - 1 : After(frames[d][j]) <= f.at

\* A whole frame stands at offset h of the stream of device d, and at least one byte
\* of the stream comes after its header.
FrameAt(d, h) ==
    /\ stream[d][h + 1] \in DOMAIN Header
    /\ h + HeaderSize < Len(stream[d])
    /\ IsFrame([body_begin |-> h + HeaderSize, header |-> Header[stream[d][h + 1]]], stream[d])

\* When decode() has returned, every intact frame that arrived has been decoded,
\* or one was decoded that shares bytes with it: no noise, false header or
\* interruption hides a frame.
NoFrameMissed ==
    \A d \in Device : settled[d] =>
       \A h \in 0 .. Len(stream[d]) - 1 : FrameAt(d, h) =>
          \E k \in DOMAIN frames[d] :
             /\ frames[d][k].at - HeaderSize < h + HeaderSize + Header[stream[d][h + 1]].size
             /\ h < After(frames[d][k])

\* A full ring buffer, which refuses all that comes, gets room again, unless a
\* header waits for bytes that it has no room for.
FullBufferDrains ==
    \A d \in Device :
       Len(buffer[d]) = RingMax ~>
          \/ Len(buffer[d]) < RingMax
          \/ \E k \in DOMAIN m_decoding_instances : End(m_decoding_instances[k]) > RingMax
=============================================================================
