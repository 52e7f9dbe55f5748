---------------------------- MODULE MCPeiHelper ----------------------------
(* Requests over a midnight, sent by two processes.                        *)
EXTENDS PeiHelper, TLC

CONSTANTS r1, r2, k1, k2, k3, p1, p2
TwoAndOne == (k1 :> p1) @@ (k2 :> p1) @@ (k3 :> p2)
Lifetimes == (r1 :> 1) @@ (r2 :> 2)
=============================================================================
