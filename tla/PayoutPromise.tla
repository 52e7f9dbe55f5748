--------------------------- MODULE PayoutPromise ---------------------------
(***************************************************************************)
(* What the payout of an owed reward promises, told in terms of what the   *)
(* wallet receives: nothing twice, no reward booked as paid that the       *)
(* wallet does not have, no reward written off that it has or will get.    *)
(***************************************************************************)
EXTENDS Naturals

CONSTANT Reward

VARIABLES
  received,   \* transfers of the reward the wallet holds on the chain
  book        \* the ledger's verdict: "open", "paid" or "written_off"

promise == <<received, book>>

PromiseInit ==
  /\ received = [r \in Reward |-> 0]
  /\ book = [r \in Reward |-> "open"]

Open == {r \in Reward : book[r] = "open"}

\* A block transfers rewards that are neither transferred nor written off.
Transfer(R) ==
  /\ \A r \in R : received[r] = 0
  /\ received' = [r \in Reward |-> IF r \in R THEN 1 ELSE received[r]]
  /\ UNCHANGED book

\* The chain drops a tip that was not final; what is booked as paid stays.
TakeBack(R) ==
  /\ received' = [r \in Reward |-> IF r \in R THEN 0 ELSE received[r]]
  /\ UNCHANGED book

BookPaid(r) ==
  /\ book[r] = "open" /\ received[r] = 1
  /\ book' = [book EXCEPT ![r] = "paid"]
  /\ UNCHANGED received

WriteOff(r) ==
  /\ book[r] = "open" /\ received[r] = 0
  /\ book' = [book EXCEPT ![r] = "written_off"]
  /\ UNCHANGED received

PromiseNext ==
  \/ \E R \in SUBSET Open : Transfer(R) \/ TakeBack(R)
  \/ \E r \in Reward : BookPaid(r) \/ WriteOff(r)

PromiseSpec == PromiseInit /\ [][PromiseNext]_promise
=============================================================================
