---------------------------- MODULE MCRingBuffer ----------------------------
(* Every block of two byte values up to one byte longer than the buffer. *)
EXTENDS RingBuffer

Blocks == UNION {[1 .. n -> Byte] : n \in 0 .. Capacity + 1}
Requests == 0 .. Capacity + 1
=============================================================================
