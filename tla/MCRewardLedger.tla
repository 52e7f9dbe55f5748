-------------------------- MODULE MCRewardLedger --------------------------
(* Instances of RewardLedger for TLC. *)
EXTENDS RewardLedger, TLC

CONSTANTS w1, w2, e1, e2, e3

\* Two instants to a day, so a reservation can outlive its day.
TwoDays == [t \in Time |-> t \div 2]
\* The wallet-scoped override gives w2 a second attempt.
Limits  == [w \in Wallet |-> IF w = w2 THEN 2 ELSE 1]

Ids == Permutations(Entitlement)
=============================================================================
