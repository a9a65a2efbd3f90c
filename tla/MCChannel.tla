----------------------------- MODULE MCChannel -----------------------------
(* Values for the constants of the channel layer's small instance. *)
EXTENDS ChannelInv, TLC

\* Headers of an empty frame, of <<0>>, and of a frame that has a frame <<0>> in it.
Headers ==
    (2 :> [size |-> 0, checksum |-> <<>>]) @@
    (3 :> [size |-> 1, checksum |-> <<0>>]) @@
    (4 :> [size |-> 3, checksum |-> <<3, 0, 0>>])

\* Any byte, and whole frames.
BytesAndFrames == {<<b>> : b \in Byte} \cup {Encode(<<0>>), Encode(<<3, 0, 0>>)}
=============================================================================
