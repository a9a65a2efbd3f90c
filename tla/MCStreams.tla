------------------------------ MODULE MCStreams ------------------------------
(* The inductive invariant of the streams on the instances of MCTransport. *)
EXTENDS MCTransport, TransportInv
=============================================================================
