----------------------------- MODULE MCPeerForward -----------------------------
(* A small instance of PeerForward for TLC.                                *)
EXTENDS PeerForward

CONSTANTS p1, p2, s1, s2

\* p2 pulls and s2 pushes, p1 and s1 are a WHIP and a WHEP client.
Publishers  == {p1, p2}
Subscribers == {s1, s2}
Cascades    == {p2, s2}
================================================================================
