------------------------- MODULE MCSessionTokens -------------------------
(* Two sessions contending for two or three sockets.                       *)
EXTENDS SessionTokens

CONSTANTS s1, s2, k1, k2, k3
Sessions == {s1, s2}
Tokens   == 1 .. 7
=============================================================================
