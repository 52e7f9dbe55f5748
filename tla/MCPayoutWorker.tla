-------------------------- MODULE MCPayoutWorker --------------------------
(* Instances of PayoutWorker for TLC. *)
EXTENDS PayoutWorker, TLC

CONSTANTS a, b, x, y

Symmetric == Permutations(Worker) \cup Permutations(Entitlement)
=============================================================================
