--------------------------- MODULE MCPeiJourney ---------------------------
(* Two journeys of two wallets, two calls at a time, two transactions.     *)
EXTENDS PeiJourney, TLC

CONSTANTS v, w, k1, k2
Symmetric == Permutations({k1, k2}) \cup Permutations({v, w})
=============================================================================
