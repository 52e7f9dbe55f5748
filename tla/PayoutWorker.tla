--------------------------- MODULE PayoutWorker ---------------------------
(***************************************************************************)
(* RewardPayoutWorker (server/src/reward/payout.ts) over the payout part   *)
(* of the ledger: passes of workers in several processes, each step one    *)
(* awaited database or RPC call, acting on rows read at the start of the   *)
(* pass.  Processes crash and restart; the payout lease is a session lock  *)
(* of one database connection, so it can also vanish under a running pass. *)
(* The chain is the environment: blocks, the mempool, the validity window  *)
(* and macro-block finality as the adapter relies on them.                 *)
(***************************************************************************)
EXTENDS Integers, FiniteSets, Functions

CONSTANTS
  Entitlement,     \* entitlements that reach the payout queue
  Committed,       \* rewards their day has committed, these included
  Worker,          \* server processes, one worker each
  MaxHeight,       \* bound on the chain height
  Window,          \* Policy.TRANSACTION_VALIDITY_WINDOW_BLOCKS
  MacroGap,        \* blocks from one macro block to the next
  LeaseCanDrop,    \* the lock connection may die while a pass goes on
  CanFail,         \* an included transaction may fail to execute
  CanRevert,       \* the tip may be replaced before it is final
  MaxCrashes,      \* bound on process crashes
  Nobody, NoTx     \* no lease holder, no stored transaction

ASSUME ChainAssumption ==
  /\ MaxHeight \in Nat \ {0} /\ Window \in Nat /\ MacroGap \in Nat \ {0}
  /\ LeaseCanDrop \in BOOLEAN /\ CanFail \in BOOLEAN /\ CanRevert \in BOOLEAN
  /\ MaxCrashes \in Nat
  /\ IsFiniteSet(Entitlement) /\ Committed \in Nat
  /\ Cardinality(Entitlement) <= Committed

VARIABLES
  state,      \* reward_entitlements.state
  stored,     \* signed_transaction, transaction_hash, validity_start_height
  payments,   \* times the reward was added to reward_days.paid_luna
  lease,      \* holder of pg_try_advisory_lock(1313, 1)
  pc,         \* what each worker awaits
  todo,       \* rows of the current list the worker has not handled
  cur,        \* the row it handles: id, state, tx as it last saw them
  seen,       \* head height and inclusion the worker read from the RPC
  paused,     \* RewardConfig.paused of each process
  head, mempool, included, failed,   \* the chain
  crashes

ledger == <<state, stored, payments>>
chain  == <<head, mempool, included, failed>>
local  == <<pc, todo, cur, seen>>
vars   == <<ledger, lease, local, paused, chain, crashes>>

Height == 0 .. MaxHeight
\* Signing is deterministic, so the entitlement and the height it was signed
\* at identify a transaction.
Tx == [id: Entitlement, start: Height]

PayoutState == {"queued", "signed", "broadcast_unknown", "included",
                "finalized", "manual_review"}
\* Mutant: a broadcast whose outcome is unknown is not looked at again.
Reconcilable_Known == {"signed", "included"}

Reconcilable == {"signed", "broadcast_unknown", "included"}
RowView == [id: Entitlement, state: PayoutState, tx: Tx \cup {NoTx}]

ASSUME NoneAssumption == Nobody \notin Worker /\ NoTx \notin Tx

Step == {"idle", "list_queued", "next_queued", "mark_signed", "review_unsigned",
         "list_reconcilable", "next_row", "broadcast", "mark_unknown",
         "read_head", "read_tx", "judge", "rebroadcast", "review_expired",
         "mark_included", "mark_finalized"}

TypeOK ==
  /\ state \in [Entitlement -> PayoutState]
  /\ stored \in [Entitlement -> Tx \cup {NoTx}]
  /\ payments \in [Entitlement -> Nat]
  /\ lease \in Worker \cup {Nobody}
  /\ pc \in [Worker -> Step]
  /\ todo \in [Worker -> SUBSET RowView]
  /\ cur \in [Worker -> RowView \cup {NoTx}]
  /\ seen \in [Worker -> [head: Height, at: Height]]
  /\ paused \in [Worker -> BOOLEAN]
  /\ head \in Height /\ mempool \subseteq Tx
  /\ included \in [Tx -> Height] /\ failed \subseteq Tx
  /\ crashes \in 0 .. MaxCrashes

\* No status read yet; height 0 stands for an absent transaction.
Nothing == [head |-> 0, at |-> 0]

Init ==
  /\ state = [e \in Entitlement |-> "queued"]
  /\ stored = [e \in Entitlement |-> NoTx]
  /\ payments = [e \in Entitlement |-> 0]
  /\ lease = Nobody
  /\ pc = [w \in Worker |-> "idle"]
  /\ todo = [w \in Worker |-> {}]
  /\ cur = [w \in Worker |-> NoTx]
  /\ seen = [w \in Worker |-> Nothing]
  /\ paused \in [Worker -> BOOLEAN]
  /\ head = 1 /\ mempool = {} /\ failed = {}
  /\ included = [t \in Tx |-> 0]
  /\ crashes = 0

-----------------------------------------------------------------------------
(* Steps of a pass *)

Goto(w, step) == pc' = [pc EXCEPT ![w] = step]

\* Leaving runOnce, by return or throw, gives the lease back and forgets rows.
EndPass(w) ==
  /\ Goto(w, "idle")
  /\ todo' = [todo EXCEPT ![w] = {}]
  /\ cur' = [cur EXCEPT ![w] = NoTx]
  /\ seen' = [seen EXCEPT ![w] = Nothing]
  /\ lease' = IF lease = w THEN Nobody ELSE lease

\* The store call moves the row on, finds it moved already, or throws.
Call(w, previous, next, then) ==
  LET e == cur[w].id
  IN \/ /\ state[e] \in previous \cup {next}
        /\ state' = [state EXCEPT ![e] = next]
        /\ cur' = [cur EXCEPT ![w] = [id |-> e, state |-> next, tx |-> stored[e]]]
        /\ Goto(w, then)
        /\ UNCHANGED <<todo, seen, lease>>
     \/ /\ state[e] \notin previous \cup {next}
        /\ EndPass(w)
        /\ UNCHANGED state

\* kick() and withPayoutLease: no lease, no pass.  A paused worker signs nothing.
Kick(w) ==
  /\ pc[w] = "idle"
  /\ lease = Nobody
  /\ lease' = w
  /\ Goto(w, IF paused[w] THEN "list_reconcilable" ELSE "list_queued")
  /\ UNCHANGED <<ledger, todo, cur, seen, paused, chain, crashes>>

Rows(S) == {[id |-> e, state |-> state[e], tx |-> stored[e]] :
              e \in {x \in Entitlement : state[x] \in S}}

ListQueued(w) ==
  /\ pc[w] = "list_queued"
  /\ todo' = [todo EXCEPT ![w] = Rows({"queued"})]
  /\ Goto(w, "next_queued")
  /\ UNCHANGED <<ledger, lease, cur, seen, paused, chain, crashes>>

\* The chain is long enough for a transaction signed now to become final or
\* to expire within MaxHeight; the bound only cuts off later signings.
MacroBlockAfter(h) == (h \div MacroGap + 1) * MacroGap
Room == MacroBlockAfter(head + Window) <= MaxHeight

\* adapter.prepare signs at the current height, or fails.
Prepare(w) ==
  /\ pc[w] = "next_queued"
  /\ \E r \in todo[w] :
       /\ todo' = [todo EXCEPT ![w] = @ \ {r}]
       /\ \/ /\ Room
             /\ cur' = [cur EXCEPT ![w] =
                          [r EXCEPT !.tx = [id |-> r.id, start |-> head]]]
             /\ Goto(w, "mark_signed")
          \/ /\ cur' = [cur EXCEPT ![w] = r]
             /\ Goto(w, "review_unsigned")
  /\ UNCHANGED <<ledger, lease, seen, paused, chain, crashes>>

\* Mutant: signing again replaces the stored bytes.
MarkSigned_Replaces(w) ==
  LET e == cur[w].id
  IN /\ pc[w] = "mark_signed"
     /\ state[e] \in {"queued", "signed", "broadcast_unknown"}
     /\ state' = [state EXCEPT ![e] = "signed"]
     /\ stored' = [stored EXCEPT ![e] = cur[w].tx]
     /\ Goto(w, "next_queued")
     /\ UNCHANGED <<payments, lease, todo, cur, seen, paused, chain, crashes>>

\* A row that is signed already keeps its bytes.  A row in any other state
\* throws, as a failed query or the lost reply of a commit does; the catch
\* then asks for manual review.
MarkSigned(w) ==
  LET e == cur[w].id
  IN /\ pc[w] = "mark_signed"
     /\ \/ /\ state[e] = "queued"
           /\ state' = [state EXCEPT ![e] = "signed"]
           /\ stored' = [stored EXCEPT ![e] = cur[w].tx]
           /\ Goto(w, "next_queued") \/ Goto(w, "review_unsigned")
        \/ /\ state[e] = "signed"
           /\ Goto(w, "next_queued")
           /\ UNCHANGED <<state, stored>>
        \/ Goto(w, "review_unsigned") /\ UNCHANGED <<state, stored>>
     /\ UNCHANGED <<payments, lease, todo, cur, seen, paused, chain, crashes>>

ReviewUnsigned(w) ==
  /\ pc[w] = "review_unsigned"
  /\ Call(w, {"queued", "signed", "broadcast_unknown"}, "manual_review", "next_queued")
  /\ UNCHANGED <<stored, payments, paused, chain, crashes>>

QueueDone(w) ==
  /\ pc[w] = "next_queued" /\ todo[w] = {}
  /\ Goto(w, "list_reconcilable")
  /\ UNCHANGED <<ledger, lease, todo, cur, seen, paused, chain, crashes>>

ListReconcilable(w) ==
  /\ pc[w] = "list_reconcilable"
  /\ todo' = [todo EXCEPT ![w] = Rows(Reconcilable)]
  /\ Goto(w, "next_row")
  /\ UNCHANGED <<ledger, lease, cur, seen, paused, chain, crashes>>

\* reconcile(): an unpaused worker broadcasts a signed row first.
FirstStep(w, r) ==
  IF r.state = "signed" /\ ~paused[w] THEN "broadcast" ELSE "read_head"

NextRow(w) ==
  /\ pc[w] = "next_row"
  /\ \E r \in todo[w] :
       /\ todo' = [todo EXCEPT ![w] = @ \ {r}]
       /\ cur' = [cur EXCEPT ![w] = r]
       /\ Goto(w, FirstStep(w, r))
  /\ UNCHANGED <<ledger, lease, seen, paused, chain, crashes>>

PassDone(w) ==
  /\ pc[w] = "next_row" /\ todo[w] = {}
  /\ EndPass(w)
  /\ UNCHANGED <<ledger, paused, chain, crashes>>

\* Errors are swallowed, so a lost request and a lost reply look the same.
Send(w, then) ==
  /\ mempool' = mempool \cup {cur[w].tx} \/ UNCHANGED mempool
  /\ Goto(w, then)
  /\ UNCHANGED <<ledger, lease, todo, cur, seen, paused, head, included, failed, crashes>>

Broadcast(w)   == pc[w] = "broadcast" /\ Send(w, "mark_unknown")
Rebroadcast(w) == pc[w] = "rebroadcast" /\ Send(w, "next_row")

MarkBroadcastUnknown(w) ==
  /\ pc[w] = "mark_unknown"
  /\ Call(w, {"signed"}, "broadcast_unknown", "read_head")
  /\ UNCHANGED <<stored, payments, paused, chain, crashes>>

\* status() reads the head height before it asks for the transaction; a
\* failure of either call makes safeStatus return undefined.
ReadHead(w) ==
  /\ pc[w] = "read_head"
  /\ \/ seen' = [seen EXCEPT ![w] = [head |-> head, at |-> 0]] /\ Goto(w, "read_tx")
     \/ Goto(w, "next_row") /\ UNCHANGED seen
  /\ UNCHANGED <<ledger, lease, todo, cur, paused, chain, crashes>>

\* Mutant: a failed execution counts as an inclusion.
ReadTx_IgnoresFailure(w) ==
  /\ pc[w] = "read_tx"
  /\ seen' = [seen EXCEPT ![w].at = included[cur[w].tx]]
  /\ Goto(w, "judge")
  /\ UNCHANGED <<ledger, lease, todo, cur, paused, chain, crashes>>

ReadTx(w) ==
  LET t == cur[w].tx
  IN /\ pc[w] = "read_tx"
     /\ \/ /\ t \notin failed
           /\ seen' = [seen EXCEPT ![w].at = included[t]]
           /\ Goto(w, "judge")
        \/ Goto(w, "next_row") /\ UNCHANGED seen
     /\ UNCHANGED <<ledger, lease, todo, cur, paused, chain, crashes>>

\* Mutant: one later block makes an inclusion final.
SeenFinal_NextBlock(w) == seen[w].at # 0 /\ seen[w].head > seen[w].at

SeenFinal(w) == seen[w].at # 0 /\ seen[w].head >= MacroBlockAfter(seen[w].at)

\* Mutant: compares with a height read after the transaction was looked up.
Expired_LaterHead(w) == head > cur[w].tx.start + Window

Expired(w) == seen[w].head > cur[w].tx.start + Window

\* What reconcile() does next with the status it has read.
AfterStatus(w) ==
  CASE seen[w].at = 0 /\ cur[w].state = "broadcast_unknown" ->
         IF Expired(w) THEN "review_expired"
         ELSE IF paused[w] THEN "next_row" ELSE "rebroadcast"
    [] seen[w].at # 0 /\ cur[w].state # "included" -> "mark_included"
    [] SeenFinal(w) /\ cur[w].state = "included" -> "mark_finalized"
    [] OTHER -> "next_row"

Judge(w) ==
  /\ pc[w] = "judge"
  /\ Goto(w, AfterStatus(w))
  /\ UNCHANGED <<ledger, lease, todo, cur, seen, paused, chain, crashes>>

\* Mutant: a state of the reservation, not of the payout.
ReviewExpired_AsReservation(w) ==
  /\ pc[w] = "review_expired"
  /\ Call(w, {"queued", "signed", "broadcast_unknown"}, "expired", "next_row")
  /\ UNCHANGED <<stored, payments, paused, chain, crashes>>

ReviewExpired(w) ==
  /\ pc[w] = "review_expired"
  /\ Call(w, {"queued", "signed", "broadcast_unknown"}, "manual_review", "next_row")
  /\ UNCHANGED <<stored, payments, paused, chain, crashes>>

MarkIncluded(w) ==
  /\ pc[w] = "mark_included"
  /\ Call(w, {"signed", "broadcast_unknown"}, "included",
          IF SeenFinal(w) THEN "mark_finalized" ELSE "next_row")
  /\ UNCHANGED <<stored, payments, paused, chain, crashes>>

\* The table checks paid_luna <= committed_luna.
BudgetAllows == FoldFunction(+, 0, payments) < Committed

\* Mutant: the day is updated after the transaction, and may not be.
MarkFinalized_AfterCommit(w) ==
  /\ pc[w] = "mark_finalized"
  /\ Call(w, {"included"}, "finalized", "next_row")
  /\ payments' \in {payments, [payments EXCEPT ![cur[w].id] = @ + 1]}
  /\ UNCHANGED <<stored, paused, chain, crashes>>

\* paid_luna grows whenever the transition returns, also when it found the row
\* finalized already.  The check of the table rolls both updates back.
MarkFinalized(w) ==
  /\ pc[w] = "mark_finalized"
  /\ \/ /\ BudgetAllows
        /\ Call(w, {"included"}, "finalized", "next_row")
        /\ payments' = IF state'[cur[w].id] = "finalized"
                       THEN [payments EXCEPT ![cur[w].id] = @ + 1] ELSE payments
     \/ /\ ~BudgetAllows
        /\ EndPass(w)
        /\ UNCHANGED <<state, payments>>
  /\ UNCHANGED <<stored, paused, chain, crashes>>

-----------------------------------------------------------------------------
(* Processes, lease and chain *)

\* The process dies at any await and starts again, possibly with the other
\* pause setting; its database sessions and their locks go with it.
Crash(w) ==
  /\ crashes < MaxCrashes
  /\ crashes' = crashes + 1
  /\ EndPass(w)
  /\ \E p \in BOOLEAN : paused' = [paused EXCEPT ![w] = p]
  /\ UNCHANGED <<ledger, chain>>

\* PostgreSQL frees the lock of a dead connection; the pass does not notice.
DropLease ==
  /\ LeaseCanDrop
  /\ lease # Nobody
  /\ lease' = Nobody
  /\ UNCHANGED <<ledger, local, paused, chain, crashes>>

Includable(t) == /\ t \in mempool /\ included[t] = 0
                 /\ t.start <= head + 1 /\ head + 1 <= t.start + Window

\* The next block takes any transactions of the mempool that are still valid.
Block(S) ==
  /\ head < MaxHeight
  /\ \A t \in S : Includable(t)
  /\ head' = head + 1
  /\ included' = [t \in Tx |-> IF t \in S THEN head + 1 ELSE included[t]]
  /\ failed' \in IF CanFail THEN {failed, failed \cup S} ELSE {failed}
  /\ UNCHANGED <<ledger, lease, local, paused, mempool, crashes>>

\* A tip that is not a macro block is replaced by another of the same height.
Revert ==
  /\ CanRevert
  /\ head % MacroGap # 0
  /\ \E t \in Tx : included[t] = head
  /\ included' = [t \in Tx |-> IF included[t] = head THEN 0 ELSE included[t]]
  /\ failed' = {t \in failed : included[t] # head}
  /\ UNCHANGED <<ledger, lease, local, paused, head, mempool, crashes>>

WorkerStep(w) ==
  \/ Kick(w) \/ ListQueued(w) \/ Prepare(w) \/ MarkSigned(w) \/ ReviewUnsigned(w)
  \/ QueueDone(w) \/ ListReconcilable(w) \/ NextRow(w) \/ PassDone(w)
  \/ Broadcast(w) \/ MarkBroadcastUnknown(w) \/ ReadHead(w) \/ ReadTx(w)
  \/ Judge(w) \/ Rebroadcast(w) \/ ReviewExpired(w) \/ MarkIncluded(w)
  \/ MarkFinalized(w)

Next ==
  \/ \E w \in Worker : WorkerStep(w) \/ Crash(w)
  \/ DropLease
  \/ \E S \in SUBSET mempool : Block(S)
  \/ Revert

Spec == Init /\ [][Next]_vars

\* The pass timer keeps firing and awaits end; an RPC asked again and again
\* answers in the end; the chain keeps growing.
Fairness ==
  /\ \A w \in Worker : /\ WF_vars(WorkerStep(w))
                       /\ SF_vars(ReadHead(w) /\ pc'[w] = "read_tx")
                       /\ SF_vars(ReadTx(w) /\ pc'[w] = "judge")
  /\ WF_vars(\E S \in SUBSET mempool : Block(S))

FairSpec == Spec /\ Fairness

-----------------------------------------------------------------------------
(* Properties *)

\* Over all passes, crashes and concurrent workers, at most one transaction
\* per entitlement ever leaves for the network.
OneTransaction == \A t, u \in mempool : t.id = u.id => t = u

\* A row is finalized only when its own stored transaction was executed in a
\* block that a macro block has sealed.
FinalizedIsPaid ==
  \A e \in Entitlement : state[e] = "finalized" =>
    /\ stored[e] \in mempool \ failed
    /\ included[stored[e]] # 0
    /\ head >= MacroBlockAfter(included[stored[e]])

\* A row sent to manual review was not paid and can never be paid by a
\* transaction that is already out.
ReviewedIsUnpaid ==
  \A t \in mempool : state[t.id] = "manual_review" =>
    included[t] = 0 /\ head >= t.start + Window

\* paid_luna counts every finalized reward once.
PaidOnce ==
  \A e \in Entitlement : payments[e] = IF state[e] = "finalized" THEN 1 ELSE 0

\* A process started with the kill switch neither signs nor broadcasts.
KillSwitch ==
  [][mempool' # mempool \/ stored' # stored =>
       \E w \in Worker : ~paused[w] /\ pc'[w] # pc[w]]_vars

\* With a worker that is not paused for good, every queued reward ends up
\* finalized or in manual review.
PayoutSettles ==
  <>[](\A w \in Worker : ~paused[w]) =>
    \A e \in Entitlement :
      state[e] = "queued" ~> state[e] \in {"finalized", "manual_review"}

\* An irreconcilable transaction is sent to manual review: one that was
\* included but failed to execute does not stay pending for ever.
FailedIsReviewed ==
  <>[](\A w \in Worker : ~paused[w]) =>
    \A e \in Entitlement :
      [](stored[e] \in failed => <>(state[e] = "manual_review"))

-----------------------------------------------------------------------------
(* Refinement *)

Executed(e) == {t \in Tx : t.id = e /\ included[t] # 0 /\ t \notin failed}

Verdict(s) == CASE s = "finalized"     -> "paid"
                [] s = "manual_review" -> "written_off"
                [] OTHER               -> "open"

Promise == INSTANCE PayoutPromise WITH
  Reward <- Entitlement,
  received <- [e \in Entitlement |-> Cardinality(Executed(e))],
  book <- [e \in Entitlement |-> Verdict(state[e])]

\* While the lease holds, the worker implements the promise: at most one
\* transfer, booked as paid only when the wallet has it for good, written off
\* only when it has not got it and never will.
KeepsPayoutPromise == Promise!PromiseSpec
=============================================================================
