----------------------------- MODULE MCNetwork -----------------------------
(* Values for the constants of the network's small instance. *)
EXTENDS NetworkInv

\* Nodes with addresses of one to four bytes in base 8, three of them in a triangle,
\* and the fourth behind the second.
Triangle ==
    {<<1, "a">>, <<8, "a">>, <<8, "b">>, <<64, "b">>, <<1, "c">>, <<64, "c">>,
     <<8, "d">>, <<512, "d">>}

\* To the far node, and to everyone.
Traffic == {<<1, 512, 2>>, <<64, Everyone, 0>>}

\* What FloodReaches asks of a network.
ASSUME TriangleConnected == Connected /\ Everyone \notin Node
=============================================================================
