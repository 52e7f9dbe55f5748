----------------------------- MODULE PrizeLoom -----------------------------
(***************************************************************************)
(* What the reward ledger promises about one day's Prize Loom: a prize is  *)
(* held for an attempt only while the day can still afford it, a held      *)
(* prize is returned once or becomes owed, and an owed prize can only be   *)
(* paid.  Nothing here speaks of rows, receipts, nonces or transactions.   *)
(***************************************************************************)
EXTENDS Integers, FiniteSets

CONSTANTS
  Prize,    \* prizes that may ever be handed out
  Day,      \* challenge days
  NoDay,    \* the day of a prize not yet handed out
  Value,    \* value of a prize
  Budget    \* what one day may have handed out and not got back

VARIABLES phase, day

loom == <<phase, day>>

Phase == {"free", "held", "owed", "paid", "returned"}

LoomInit ==
  /\ phase = [p \in Prize |-> "free"]
  /\ day = [p \in Prize |-> NoDay]

\* Prizes of day d that are out once those of R have been returned.
Out(d, R) == {p \in Prize \ R : phase[p] \in {"held", "owed", "paid"} /\ day[p] = d}

After(R) == [p \in Prize |-> IF p \in R THEN "returned" ELSE phase[p]]

Held == {p \in Prize : phase[p] = "held"}

\* Attempts end without a win, in any number at a time.
Return(R) == phase' = After(R) /\ UNCHANGED day

\* An attempt gets a prize the day can afford; attempts found to be over
\* return theirs first.
Hold(p, d, R) ==
  /\ phase[p] = "free"
  /\ Value * (Cardinality(Out(d, R)) + 1) <= Budget
  /\ phase' = [After(R) EXCEPT ![p] = "held"]
  /\ day' = [day EXCEPT ![p] = d]

Owe(p) ==
  /\ phase[p] = "held"
  /\ phase' = [phase EXCEPT ![p] = "owed"]
  /\ UNCHANGED day

Pay(p) ==
  /\ phase[p] = "owed"
  /\ phase' = [phase EXCEPT ![p] = "paid"]
  /\ UNCHANGED day

LoomNext ==
  \/ \E R \in SUBSET Held : Return(R)
  \/ \E R \in SUBSET Held, p \in Prize, d \in Day : Hold(p, d, R)
  \/ \E p \in Prize : Owe(p)
  \/ \E p \in Prize : Pay(p)

LoomSpec == LoomInit /\ [][LoomNext]_loom
=============================================================================
