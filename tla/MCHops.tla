------------------------------- MODULE MCHops -------------------------------
(* Two nodes, and a hop limit with a byte of its own. *)
EXTENDS NetworkProps

Pair == {<<1, "a">>, <<2, "a">>}

Far == {<<1, 2, 15>>}
=============================================================================
