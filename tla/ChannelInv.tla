----------------------------- MODULE ChannelInv -----------------------------
(***************************************************************************)
(* The inductive invariant behind FramesAreInStream and NoFrameMissed, for *)
(* a node with one device.  Places are those of its stream, of which its   *)
(* ring buffer holds the end; offset is where that begins.                 *)
(***************************************************************************)
EXTENDS Channel

Bytes == stream[1]

HeaderAt(h) == h \in 0 .. Len(Bytes) - 1 /\ Bytes[h + 1] \in DOMAIN Header

EndOf(h) == h + HeaderSize + Header[Bytes[h + 1]].size

\* The ring buffer holds the end of the stream.
BufferInStream(bytes, offset) ==
    /\ offset \in Nat /\ Len(bytes) + offset = Len(Bytes)
    /\ \A i \in 1 .. Len(bytes) : bytes[i] = Bytes[offset + i]

Place(c, offset) == offset + c.body_begin - HeaderSize

\* The candidates are headers that have been searched, in order.
CandidatesInStream(instances, search, offset) ==
    /\ \A k \in DOMAIN instances :
          LET h == Place(instances[k], offset)
          IN  /\ HeaderAt(h) /\ h < offset + search
              /\ h + HeaderSize < Len(Bytes)
              /\ instances[k].header = Header[Bytes[h + 1]]
    /\ \A j, k \in DOMAIN instances :
          j < k => instances[j].body_begin < instances[k].body_begin

Waits(h, instances, offset) == \E k \in DOMAIN instances : Place(instances[k], offset) = h

\* All that has arrived of a frame at h is no frame.
IsFalse(h) ==
    /\ EndOf(h) <= Len(Bytes)
    /\ SubSeq(Bytes, h + HeaderSize + 1, EndOf(h)) # Header[Bytes[h + 1]].checksum

Overlaps(h, f) == f.at - HeaderSize < EndOf(h) /\ h < After(f)

\* A header that has been searched is a candidate, or false, or its frame has bytes of a
\* frame that was decoded.
SearchedIsKnown(instances, search, offset) ==
    \A h \in 0 .. offset + search - 1 : HeaderAt(h) =>
       \/ Waits(h, instances, offset)
       \/ IsFalse(h)
       \/ \E k \in DOMAIN frames[1] : Overlaps(h, frames[1][k])

\* Room for a header is left behind the search position.
RoomBehind(bytes, search) == search > 0 => search + HeaderSize <= Len(bytes)

DecoderInv(bytes, instances, search, offset) ==
    /\ BufferInStream(bytes, offset)
    /\ RoomBehind(bytes, search)
    /\ CandidatesInStream(instances, search, offset)
    /\ SearchedIsKnown(instances, search, offset)

\* What decode() leaves: all is searched, and candidates wait for bytes.
NothingLeft ==
    /\ \A h \in 0 .. Len(Bytes) - 1 :
          h + HeaderSize < Len(Bytes) => h < Offset(1) + m_header_search_pos
    /\ \A k \in DOMAIN m_decoding_instances : ~ Complete(m_decoding_instances[k], buffer[1])

\* The buffer, the candidates and the search position are where the stream says, all that
\* has been searched is accounted for, and frames come from the stream.
ChannelInv ==
    Devices = 1 =>
       /\ TypeOK
       /\ DecoderInv(buffer[1], m_decoding_instances, m_header_search_pos, Offset(1))
       /\ FramesAreInStream
       /\ settled[1] => NothingLeft
=============================================================================
