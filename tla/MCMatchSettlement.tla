------------------------ MODULE MCMatchSettlement ------------------------
(* Two sessions of one wallet over two reservations.                       *)
EXTENDS MatchSettlement, TLC

CONSTANTS s1, s2, c1, c2

TheSession   == {s1, s2}
TheChallenge == {c1, c2}
Symmetric    == Permutations(TheSession) \cup Permutations(TheChallenge)
=============================================================================
