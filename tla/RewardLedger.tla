--------------------------- MODULE RewardLedger ---------------------------
(***************************************************************************)
(* The durable reward ledger of the Daily challenge: the tables            *)
(* reward_days, reward_entitlements, reward_claims and                     *)
(* pei_admission_grants behind PostgresRewardStore                         *)
(* (server/src/reward/postgres-store.ts), together with the guards         *)
(* RewardService puts in front of it.  Every store operation is one        *)
(* SERIALIZABLE transaction that rolls back on a throw, so each is one     *)
(* atomic action whose guard is the conjunction of the conditions under    *)
(* which it commits; a refused call changes nothing.                       *)
(***************************************************************************)
EXTENDS Integers, FiniteSets

CONSTANTS
  Wallet,            \* normalized wallet addresses
  Entitlement,       \* ids of rows that may be inserted
  Receipt,           \* PEI receipts, numbered in issue order
  IdempotencyKey,    \* client claim keys
  Day,               \* UTC challenge days
  DayOf,             \* the day of each instant
  MaxTime,           \* bound on the clock
  RewardLuna,        \* fixed reward
  DailyBudgetLuna,   \* Prize Loom of one day
  AttemptLimit,      \* started attempts allowed to each wallet and day
  MaxReservations,   \* MAX_DAILY_RESERVATIONS_PER_WALLET
  ReservationTtl,    \* life of an unstarted reservation
  ClaimTtl,          \* life of a claim nonce
  PeiRequired,       \* reservations need a PEI receipt
  None               \* SQL NULL

Time == 0 .. MaxTime

ASSUME DayAssumption == MaxTime \in Nat /\ DayOf \in [Time -> Day]
ASSUME LunaAssumption ==
  /\ RewardLuna \in Nat \ {0}
  /\ DailyBudgetLuna \in Nat
  /\ RewardLuna <= DailyBudgetLuna
ASSUME LimitAssumption ==
  /\ AttemptLimit \in [Wallet -> Nat \ {0}]
  /\ MaxReservations \in Nat
  /\ ReservationTtl \in Nat /\ ClaimTtl \in Nat
  /\ PeiRequired \in BOOLEAN
ASSUME SetAssumption ==
  /\ IsFiniteSet(Entitlement)
  /\ Receipt \subseteq Nat
  /\ None \notin Entitlement /\ None \notin Receipt
  /\ None \notin Wallet /\ None \notin Day

VARIABLES
  row,            \* reward_entitlements
  committedLuna,  \* reward_days.committed_luna
  paidLuna,       \* reward_days.paid_luna
  receipts,       \* pei_admission_grants: owner and consumer of each receipt
  claims,         \* reward_claims: the entitlement bound to a key
  paused,         \* RewardConfig.paused of the running process
  now             \* wall clock

vars == <<row, committedLuna, paidLuna, receipts, claims, paused, now>>

(***************************************************************************)
(* Entitlement states, grouped by what they mean for the day's budget.     *)
(***************************************************************************)
Released == {"lost", "forfeited", "expired", "cancelled"}
Claimed  == {"queued", "signed", "broadcast_unknown", "included",
             "finalized", "manual_review"}
Liability == {"claimable"} \cup Claimed
Live      == {"reserved", "in_progress"} \cup Liability
State     == Released \cup Live

Row == [state: State \cup {"none"}, wallet: Wallet \cup {None},
        day: Day \cup {None}, attemptConsumed: BOOLEAN, attemptNumber: Nat,
        token: BOOLEAN, receipt: Receipt \cup {None},
        reservationExpiresAt: Nat, nonceExpiresAt: Nat \cup {None}]

NoRow == [state |-> "none", wallet |-> None, day |-> None,
          attemptConsumed |-> FALSE, attemptNumber |-> 0, token |-> FALSE,
          receipt |-> None, reservationExpiresAt |-> 0,
          nonceExpiresAt |-> None]

TypeOK ==
  /\ row \in [Entitlement -> Row]
  /\ committedLuna \in [Day -> Int]
  /\ paidLuna \in [Day -> Int]
  /\ receipts \in [Receipt -> [wallet: Wallet \cup {None},
                               consumedBy: Entitlement \cup {None}]]
  /\ claims \in [IdempotencyKey -> Entitlement \cup {None}]
  /\ paused \in BOOLEAN
  /\ now \in Time

Init ==
  /\ row = [e \in Entitlement |-> NoRow]
  /\ committedLuna = [d \in Day |-> 0]
  /\ paidLuna = [d \in Day |-> 0]
  /\ receipts = [r \in Receipt |-> [wallet |-> None, consumedBy |-> None]]
  /\ claims = [k \in IdempotencyKey |-> None]
  /\ paused = FALSE
  /\ now = 0

(***************************************************************************)
(* Queries over a table T, a value row may take inside a transaction.      *)
(***************************************************************************)
OfWalletDay(T, w, d) == {e \in Entitlement : T[e].wallet = w /\ T[e].day = d}
Consumed(T, w, d)    == {e \in OfWalletDay(T, w, d) : T[e].attemptConsumed}
InState(T, S)        == {e \in Entitlement : T[e].state \in S}
OfDay(E, d)          == {e \in E : row[e].day = d}

\* Mutant: a reservation does not count as an open attempt.
OpenAttempts_MatchOnly(T, w, d) ==
  OfWalletDay(T, w, d) \cap InState(T, {"in_progress"})

OpenAttempts(T, w, d) ==
  OfWalletDay(T, w, d) \cap InState(T, {"in_progress", "reserved"})

\* Mutant: cancelled and expired reservations take a number too.
NextAttempt_CountsAll(T, w, d) == Cardinality(OfWalletDay(T, w, d)) + 1

NextAttempt(T, w, d) == Cardinality(Consumed(T, w, d)) + 1

Affordable(C, d) == C[d] + RewardLuna <= DailyBudgetLuna

\* Moves the rows of E to state s; a closed reservation loses its token.
Move(E, s) ==
  [e \in Entitlement |->
     IF e \in E THEN [row[e] EXCEPT !.state = s, !.token = FALSE] ELSE row[e]]

\* The day's commitments once the rows of E have given theirs back.
GiveBack(E) ==
  [d \in Day |-> committedLuna[d] - RewardLuna * Cardinality(OfDay(E, d))]

\* Reservations the expiry sweep of this instant closes.
Due == {e \in InState(row, {"reserved"}) : row[e].reservationExpiresAt <= now}

\* Mutant: a receipt held by a reservation is offered again.
AvailableReceipts_IgnoresHolds(T, w) ==
  {r \in Receipt : receipts[r].wallet = w /\ receipts[r].consumedBy = None}

\* Receipts of w that are unconsumed and held by no reservation of T.
AvailableReceipts(T, w) ==
  {r \in Receipt :
     /\ receipts[r].wallet = w
     /\ receipts[r].consumedBy = None
     /\ \A e \in InState(T, {"reserved"}) : T[e].receipt # r}

\* The receipt a reservation of w takes: none needed, or the oldest available.
SelectReceipt(T, w, r) ==
  IF PeiRequired
  THEN r \in AvailableReceipts(T, w) /\ \A q \in AvailableReceipts(T, w) : r <= q
  ELSE r = None

-----------------------------------------------------------------------------
(* Reservation and start *)

IssuePeiReceipt(r, w) ==
  /\ PeiRequired
  /\ receipts[r].wallet = None
  /\ \A q \in Receipt : q < r => receipts[q].wallet # None
  /\ receipts' = [receipts EXCEPT ![r].wallet = w]
  /\ UNCHANGED <<row, committedLuna, paidLuna, claims, paused, now>>

\* A reservation first expires what is due; all its checks see that table.
Reserve(e, w, r) ==
  LET d == DayOf[now]
      T == Move(Due, "expired")
      C == GiveBack(Due)
  IN /\ ~paused
     /\ row[e].state = "none"
     /\ SelectReceipt(T, w, r)
     /\ Cardinality(Consumed(T, w, d)) < AttemptLimit[w]
     /\ OpenAttempts(T, w, d) = {}
     /\ Cardinality(OfWalletDay(T, w, d) \ Consumed(T, w, d)) < MaxReservations
     /\ Affordable(C, d)
     /\ row' = [T EXCEPT ![e] =
                  [NoRow EXCEPT !.state = "reserved", !.wallet = w, !.day = d,
                     !.attemptNumber = NextAttempt(T, w, d),
                     !.token = TRUE, !.receipt = r,
                     !.reservationExpiresAt = now + ReservationTtl]]
     /\ committedLuna' = [C EXCEPT ![d] = @ + RewardLuna]
     /\ UNCHANGED <<paidLuna, receipts, claims, paused, now>>

\* The receipt bound to the row is still the wallet's and unused.
ReceiptUsable(e) ==
  row[e].receipt # None =>
    /\ receipts[row[e].receipt].wallet = row[e].wallet
    /\ receipts[row[e].receipt].consumedBy = None

\* Consumes the attempt, the token and the receipt.  A due reservation is
\* refused, and the release the code starts is undone by the rollback.
Start(e) ==
  LET others == Consumed(row, row[e].wallet, row[e].day) \ {e}
  IN /\ ~paused
     /\ row[e].token
     /\ row[e].state = "reserved"
     /\ row[e].reservationExpiresAt > now
     /\ ReceiptUsable(e)
     /\ Cardinality(others) < AttemptLimit[row[e].wallet]
     /\ \A x \in others : row[x].attemptNumber # row[e].attemptNumber
     /\ row' = [row EXCEPT ![e].state = "in_progress",
                           ![e].attemptConsumed = TRUE, ![e].token = FALSE]
     /\ receipts' = [r \in Receipt |->
                       IF r = row[e].receipt
                       THEN [receipts[r] EXCEPT !.consumedBy = e]
                       ELSE receipts[r]]
     /\ UNCHANGED <<committedLuna, paidLuna, claims, paused, now>>

CancelReserved(e) ==
  /\ row[e].state = "reserved"
  /\ row' = Move({e}, "cancelled")
  /\ committedLuna' = GiveBack({e})
  /\ UNCHANGED <<paidLuna, receipts, claims, paused, now>>

ExpireReservations ==
  /\ Due # {}
  /\ row' = Move(Due, "expired")
  /\ committedLuna' = GiveBack(Due)
  /\ UNCHANGED <<paidLuna, receipts, claims, paused, now>>

-----------------------------------------------------------------------------
(* Match result and claim *)

Outcome == {"player_win", "left", "expired", "lost"}

\* Mutant: a state the table has no word for.
ResultState_Unlisted(o) == IF o = "player_win" THEN "claimable" ELSE "closed"

ResultState(o) ==
  CASE o = "player_win" -> "claimable"
    [] o = "left"       -> "forfeited"
    [] o = "expired"    -> "expired"
    [] o = "lost"       -> "lost"

\* A row that is not in progress is returned as it is: no step.
CompleteMatch(e, o) ==
  /\ row[e].state = "in_progress"
  /\ IF o = "player_win"
     THEN /\ row' = [row EXCEPT ![e].state = ResultState(o),
                                ![e].nonceExpiresAt = now + ClaimTtl]
          /\ UNCHANGED committedLuna
     ELSE /\ row' = [row EXCEPT ![e].state = ResultState(o)]
          /\ committedLuna' = GiveBack({e})
  /\ UNCHANGED <<paidLuna, receipts, claims, paused, now>>

\* status() hands a fresh nonce to the owner of a claimable reward.
RotateClaimNonce(e) ==
  /\ ~paused
  /\ row[e].state = "claimable"
  /\ row' = [row EXCEPT ![e].nonceExpiresAt = now + ClaimTtl]
  /\ UNCHANGED <<committedLuna, paidLuna, receipts, claims, paused, now>>

\* A key already bound to e returns the row, one bound elsewhere conflicts.
Claim(e, k) ==
  /\ ~paused
  /\ claims[k] = None
  /\ row[e].state = "claimable"
  /\ row[e].nonceExpiresAt # None /\ row[e].nonceExpiresAt > now
  /\ \A q \in IdempotencyKey : claims[q] # e
  /\ claims' = [claims EXCEPT ![k] = e]
  /\ row' = [row EXCEPT ![e].state = "queued", ![e].nonceExpiresAt = None]
  /\ UNCHANGED <<committedLuna, paidLuna, receipts, paused, now>>

-----------------------------------------------------------------------------
(* Payout transitions *)

\* transitionWithClient: the row moves only from an expected previous state.
Transition(e, previous, next) ==
  /\ row[e].state \in previous
  /\ row' = [row EXCEPT ![e].state = next]
  /\ UNCHANGED <<committedLuna, receipts, claims, paused, now>>

MarkSigned(e)           == Transition(e, {"queued"}, "signed") /\ UNCHANGED paidLuna
MarkBroadcastUnknown(e) == Transition(e, {"signed"}, "broadcast_unknown")
                             /\ UNCHANGED paidLuna
MarkIncluded(e)         == Transition(e, {"signed", "broadcast_unknown"}, "included")
                             /\ UNCHANGED paidLuna
\* Mutant: a reward nobody has claimed goes to review.
MarkManualReview_Unclaimed(e) ==
  Transition(e, {"claimable", "queued"}, "manual_review") /\ UNCHANGED paidLuna

MarkManualReview(e)     == Transition(e, {"queued", "signed", "broadcast_unknown"},
                                      "manual_review") /\ UNCHANGED paidLuna

\* Mutant: books the payment on the current day, not on the reward's.
MarkFinalized_Today(e) ==
  /\ Transition(e, {"included", "finalized"}, "finalized")
  /\ paidLuna' = [paidLuna EXCEPT ![DayOf[now]] = @ + RewardLuna]

\* paid_luna grows after transitionWithClient returns, and it returns without
\* an error for a row that was finalized before.
MarkFinalized(e) ==
  /\ Transition(e, {"included", "finalized"}, "finalized")
  /\ paidLuna' = [paidLuna EXCEPT ![row[e].day] = @ + RewardLuna]

-----------------------------------------------------------------------------
(* Process restart and clock *)

\* Mutant: a win waiting for its claim is forfeited as well.
Interrupted_AndClaimable == InState(row, {"in_progress", "claimable"})

Interrupted == InState(row, {"in_progress"})

\* Mutant: the forfeited rewards stay committed.
Restart_KeepsCommitment(p) ==
  /\ row' = [e \in Entitlement |->
               IF e \in Interrupted
               THEN [row[e] EXCEPT !.state = "forfeited"] ELSE row[e]]
  /\ paused' = p
  /\ UNCHANGED <<committedLuna, paidLuna, receipts, claims, now>>

\* initialize(): every match of the previous process is forfeited.  The new
\* process may run with another pause setting.
Restart(p) ==
  /\ row' = [e \in Entitlement |->
               IF e \in Interrupted
               THEN [row[e] EXCEPT !.state = "forfeited"] ELSE row[e]]
  /\ committedLuna' = GiveBack(Interrupted)
  /\ paused' = p
  /\ UNCHANGED <<paidLuna, receipts, claims, now>>

Tick ==
  /\ now < MaxTime
  /\ now' = now + 1
  /\ UNCHANGED <<row, committedLuna, paidLuna, receipts, claims, paused>>

\* One worker holds the payout lease, so it finalizes only rows it sees as
\* included; PayoutWorker models what two workers do.
Next ==
  \/ \E r \in Receipt, w \in Wallet : IssuePeiReceipt(r, w)
  \/ \E e \in Entitlement, w \in Wallet, r \in Receipt \cup {None} : Reserve(e, w, r)
  \/ \E e \in Entitlement : Start(e)
  \/ \E e \in Entitlement : CancelReserved(e)
  \/ ExpireReservations
  \/ \E e \in Entitlement, o \in Outcome : CompleteMatch(e, o)
  \/ \E e \in Entitlement : RotateClaimNonce(e)
  \/ \E e \in Entitlement, k \in IdempotencyKey : Claim(e, k)
  \/ \E e \in Entitlement : MarkSigned(e)
  \/ \E e \in Entitlement : MarkBroadcastUnknown(e)
  \/ \E e \in Entitlement : MarkIncluded(e)
  \/ \E e \in Entitlement : row[e].state = "included" /\ MarkFinalized(e)
  \/ \E e \in Entitlement : MarkManualReview(e)
  \/ \E p \in BOOLEAN : Restart(p)
  \/ Tick

Spec == Init /\ [][Next]_vars

-----------------------------------------------------------------------------
(* Safety *)

\* The commitments of a day are exactly the rewards of its reservations,
\* running matches and liabilities, and never exceed the Prize Loom: no
\* release is lost or made twice whatever order sweeps, cancels, results and
\* restarts commit in.
BudgetConserved ==
  \A d \in Day :
    /\ committedLuna[d] = RewardLuna * Cardinality(OfDay(InState(row, Live), d))
    /\ committedLuna[d] <= DailyBudgetLuna

\* What a day has paid is exactly the reward of its finalized entitlements,
\* so it stays within what the day committed.
PaidConserved ==
  \A d \in Day :
    paidLuna[d] = RewardLuna * Cardinality(OfDay(InState(row, {"finalized"}), d))

\* A wallet never has two open attempts on one day: neither two reservations,
\* nor two matches, nor one of each.
OneOpenAttempt ==
  \A e, f \in InState(row, {"reserved", "in_progress"}) :
    row[e].wallet = row[f].wallet /\ row[e].day = row[f].day => e = f

\* The consumed attempts of a wallet and day carry the numbers 1..k without a
\* gap or a repetition, and k stays within the wallet's limit.
AttemptsNumbered ==
  \A w \in Wallet, d \in Day :
    LET C == Consumed(row, w, d)
    IN /\ Cardinality(C) <= AttemptLimit[w]
       /\ {row[e].attemptNumber : e \in C} = 1 .. Cardinality(C)

\* A receipt is consumed by exactly the attempt that was started with it, and
\* no two reservations hold one receipt.
ReceiptBacksOneStart ==
  /\ \A r \in Receipt, e \in Entitlement :
       receipts[r].consumedBy = e <=> row[e].receipt = r /\ row[e].attemptConsumed
  /\ \A e \in InState(row, {"reserved"}) : ReceiptUsable(e)
  /\ \A e, f \in InState(row, {"reserved"}) :
       row[e].receipt = row[f].receipt /\ row[e].receipt # None => e = f

\* An entitlement has a claim exactly when it is queued or beyond, and only one.
ClaimsMatchPayouts ==
  /\ \A e \in Entitlement :
       row[e].state \in Claimed <=> \E k \in IdempotencyKey : claims[k] = e
  /\ \A k, q \in IdempotencyKey : claims[k] = claims[q] /\ claims[k] # None => k = q

\* Once a win is recorded the reward stays owed: no expiry, restart, day
\* change or late result takes it back.
LiabilityKept ==
  [][\A e \in Entitlement :
       row[e].state \in Liability => row'[e].state \in Liability]_vars

\* A reservation or match that gave its reward back is closed for good.
ReleaseIsFinal ==
  [][\A e \in Entitlement :
       row[e].state \in Released => row'[e] = row[e]]_vars

-----------------------------------------------------------------------------
(* Refinement *)

PhaseOf(s) ==
  CASE s = "none"                        -> "free"
    [] s \in {"reserved", "in_progress"} -> "held"
    [] s \in Liability \ {"finalized"}   -> "owed"
    [] s = "finalized"                   -> "paid"
    [] s \in Released                    -> "returned"

Loom == INSTANCE PrizeLoom WITH
  Prize <- Entitlement, NoDay <- None, Value <- RewardLuna,
  Budget <- DailyBudgetLuna,
  phase <- [e \in Entitlement |-> PhaseOf(row[e].state)],
  day <- [e \in Entitlement |-> row[e].day]

\* The ledger implements the Prize Loom: through every sweep, cancel, result,
\* restart and payout the day's prizes are handed out within the budget,
\* returned once, and never taken back when owed.
KeepsPrizeLoom == Loom!LoomSpec
=============================================================================
