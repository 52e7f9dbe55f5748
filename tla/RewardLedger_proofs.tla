------------------------ MODULE RewardLedger_proofs ------------------------
(***************************************************************************)
(* Theorems about RewardLedger for every number of wallets, entitlements,  *)
(* receipts, keys and days, every reward and budget.                       *)
(***************************************************************************)
EXTENDS RewardLedger, FiniteSetTheorems, TLAPS

(***************************************************************************)
(* Counting                                                                *)
(***************************************************************************)

\* Entitlements are finite, so every query counts a natural number of them.
LEMMA Countable ==
  ASSUME NEW E \in SUBSET Entitlement
  PROVE  IsFiniteSet(E) /\ Cardinality(E) \in Nat
BY SetAssumption, FS_Subset, FS_CardinalityType

\* What reservations give back is a whole number of Luna.
LEMMA GiveBackType ==
  ASSUME TypeOK, NEW E \in SUBSET Entitlement
  PROVE  GiveBack(E) \in [Day -> Int]
<1>1. ASSUME NEW d \in Day
      PROVE  committedLuna[d] - RewardLuna * Cardinality(OfDay(E, d)) \in Int
  <2>1. OfDay(E, d) \in SUBSET Entitlement  BY DEF OfDay
  <2>2. Cardinality(OfDay(E, d)) \in Nat  BY <2>1, Countable
  <2>3. committedLuna[d] \in Int  BY DEF TypeOK
  <2> QED  BY <2>2, <2>3, LunaAssumption
<1> QED  BY <1>1 DEF GiveBack

\* A row of the table may take any state of the state column.
LEMMA StateUpdate ==
  ASSUME NEW x \in Row, NEW s \in State
  PROVE  [x EXCEPT !.state = s] \in Row
BY DEF Row

\* A row may get a claim challenge of any expiry.
LEMMA NonceOnly ==
  ASSUME NEW x \in Row, NEW n \in Nat
  PROVE  [x EXCEPT !.nonceExpiresAt = n] \in Row
BY DEF Row

\* It may do both at once.
LEMMA NonceUpdate ==
  ASSUME NEW x \in Row, NEW s \in State, NEW n \in Nat
  PROVE  [x EXCEPT !.state = s, !.nonceExpiresAt = n] \in Row
BY DEF Row

\* It may lose its token together with its state.
LEMMA TokenUpdate ==
  ASSUME NEW x \in Row, NEW s \in State
  PROVE  [x EXCEPT !.state = s, !.token = FALSE] \in Row
BY DEF Row

\* Closing rows keeps the table well typed.
LEMMA MoveType ==
  ASSUME TypeOK, NEW E \in SUBSET Entitlement, NEW s \in State
  PROVE  Move(E, s) \in [Entitlement -> Row]
<1>1. ASSUME NEW e \in Entitlement
      PROVE  [row[e] EXCEPT !.state = s, !.token = FALSE] \in Row /\ row[e] \in Row
  <2>1. row[e] \in Row  BY DEF TypeOK
  <2> QED  BY <2>1, TokenUpdate
<1> QED  BY <1>1 DEF Move

(***************************************************************************)
(* Type correctness                                                        *)
(***************************************************************************)

LEMMA TypeInit == Init => TypeOK
<1> SUFFICES ASSUME Init PROVE TypeOK
  OBVIOUS
<1>1. NoRow \in Row  BY DEF NoRow, Row
<1>2. 0 \in Time  BY DayAssumption DEF Time
<1>3. row \in [Entitlement -> Row]  BY <1>1 DEF Init
<1>4. committedLuna \in [Day -> Int] /\ paidLuna \in [Day -> Int]  BY DEF Init
<1>5. receipts \in [Receipt -> [wallet: Wallet \cup {None},
                                consumedBy: Entitlement \cup {None}]]
  BY DEF Init
<1>6. claims \in [IdempotencyKey -> Entitlement \cup {None}]  BY DEF Init
<1> QED  BY <1>2, <1>3, <1>4, <1>5, <1>6 DEF Init, TypeOK

LEMMA TypeStep == TypeOK /\ [Next]_vars => TypeOK'
<1> SUFFICES ASSUME TypeOK, [Next]_vars PROVE TypeOK'
  OBVIOUS
<1> USE DEF TypeOK
<1>1. ASSUME NEW r \in Receipt, NEW w \in Wallet, IssuePeiReceipt(r, w) PROVE TypeOK'
  BY <1>1 DEF IssuePeiReceipt
<1>2. ASSUME NEW e \in Entitlement, NEW w \in Wallet, NEW r \in Receipt \cup {None},
             Reserve(e, w, r)
      PROVE  TypeOK'
  <2> DEFINE d == DayOf[now]
             T == Move(Due, "expired")
             C == GiveBack(Due)
             n == [NoRow EXCEPT !.state = "reserved", !.wallet = w, !.day = d,
                     !.attemptNumber = NextAttempt(T, w, d),
                     !.token = TRUE, !.receipt = r,
                     !.reservationExpiresAt = now + ReservationTtl]
  <2>1. Due \in SUBSET Entitlement  BY DEF Due, InState
  <2>2. T \in [Entitlement -> Row]  BY <2>1, MoveType DEF State, Released
  <2>3. C \in [Day -> Int]  BY <2>1, GiveBackType
  <2>4. d \in Day  BY DayAssumption
  <2>5. NextAttempt(T, w, d) \in Nat
    <3>1. Consumed(T, w, d) \in SUBSET Entitlement  BY DEF Consumed, OfWalletDay
    <3> QED  BY <3>1, Countable DEF NextAttempt
  <2>6. now + ReservationTtl \in Nat  BY DayAssumption, LimitAssumption DEF Time
  <2>7. n \in Row
    <3> HIDE DEF T, d
    <3> QED  BY <2>4, <2>5, <2>6 DEF Row, NoRow, State, Live
  <2>8. row' = [T EXCEPT ![e] = n]  BY <1>2 DEF Reserve
  <2>9. committedLuna' = [C EXCEPT ![d] = @ + RewardLuna]  BY <1>2 DEF Reserve
  <2>10. UNCHANGED <<paidLuna, receipts, claims, paused, now>>  BY <1>2 DEF Reserve
  <2> HIDE DEF T, C, d, n
  <2>11. row' \in [Entitlement -> Row]  BY <2>2, <2>7, <2>8
  <2>12. committedLuna' \in [Day -> Int]  BY <2>3, <2>4, <2>9, LunaAssumption
  <2> QED  BY <2>10, <2>11, <2>12
<1>3. ASSUME NEW e \in Entitlement, Start(e) PROVE TypeOK'
  <2>1. row' \in [Entitlement -> Row]
    BY <1>3 DEF Start, Row, State, Live
  <2>2. receipts' \in [Receipt -> [wallet: Wallet \cup {None},
                                   consumedBy: Entitlement \cup {None}]]
    BY <1>3 DEF Start
  <2> QED  BY <1>3, <2>1, <2>2 DEF Start
<1>4. ASSUME NEW e \in Entitlement, CancelReserved(e) PROVE TypeOK'
  <2>1. Move({e}, "cancelled") \in [Entitlement -> Row]
    BY MoveType DEF State, Released
  <2>2. GiveBack({e}) \in [Day -> Int]  BY GiveBackType
  <2> QED  BY <1>4, <2>1, <2>2 DEF CancelReserved
<1>5. ASSUME ExpireReservations PROVE TypeOK'
  <2>1. Due \in SUBSET Entitlement  BY DEF Due, InState
  <2>2. Move(Due, "expired") \in [Entitlement -> Row]
    BY <2>1, MoveType DEF State, Released
  <2>3. GiveBack(Due) \in [Day -> Int]  BY <2>1, GiveBackType
  <2> QED  BY <1>5, <2>2, <2>3 DEF ExpireReservations
<1>6. ASSUME NEW e \in Entitlement, NEW o \in Outcome, CompleteMatch(e, o) PROVE TypeOK'
  <2>1. ResultState(o) \in State
    BY DEF ResultState, Outcome, State, Released, Live, Liability
  <2>2. now + ClaimTtl \in Nat  BY DayAssumption, LimitAssumption DEF Time
  <2>3. row' \in [Entitlement -> Row]
    <3>1. [row[e] EXCEPT !.state = ResultState(o)] \in Row  BY <2>1, StateUpdate
    <3>2. [row[e] EXCEPT !.state = ResultState(o), !.nonceExpiresAt = now + ClaimTtl] \in Row
      BY <2>1, <2>2, NonceUpdate
    <3> QED  BY <1>6, <3>1, <3>2 DEF CompleteMatch
  <2>4. committedLuna' \in [Day -> Int]
    BY <1>6, GiveBackType DEF CompleteMatch
  <2> QED  BY <1>6, <2>3, <2>4 DEF CompleteMatch
<1>7. ASSUME NEW e \in Entitlement, RotateClaimNonce(e) PROVE TypeOK'
  <2>1. now + ClaimTtl \in Nat  BY DayAssumption, LimitAssumption DEF Time
  <2> DEFINE x == [row[e] EXCEPT !.nonceExpiresAt = now + ClaimTtl]
  <2>2. x \in Row  BY <2>1, NonceOnly
  <2>3. row' = [row EXCEPT ![e] = x]  BY <1>7 DEF RotateClaimNonce
  <2> HIDE DEF x
  <2> QED  BY <1>7, <2>2, <2>3 DEF RotateClaimNonce
<1>8. ASSUME NEW e \in Entitlement, NEW k \in IdempotencyKey, Claim(e, k) PROVE TypeOK'
  BY <1>8 DEF Claim, Row, State, Live, Liability, Claimed
<1>9. ASSUME NEW e \in Entitlement, NEW S, NEW s \in Claimed, Transition(e, S, s)
      PROVE  /\ row' \in [Entitlement -> Row]
             /\ UNCHANGED <<committedLuna, receipts, claims, paused, now>>
  <2>1. [row[e] EXCEPT !.state = s] \in Row
    BY StateUpdate DEF State, Live, Liability
  <2> QED  BY <1>9, <2>1 DEF Transition
<1>10. ASSUME NEW e \in Entitlement, MarkFinalized(e) PROVE TypeOK'
  <2>1. \A d \in Day : paidLuna[d] + RewardLuna \in Int  BY LunaAssumption
  <2>2. paidLuna' \in [Day -> Int]  BY <1>10, <2>1 DEF MarkFinalized
  <2> QED  BY <1>9, <1>10, <2>2 DEF MarkFinalized, Claimed
<1>11. ASSUME NEW e \in Entitlement,
              \/ MarkSigned(e) \/ MarkBroadcastUnknown(e) \/ MarkIncluded(e)
              \/ MarkManualReview(e)
       PROVE  TypeOK'
  <2>1. UNCHANGED paidLuna
    BY <1>11 DEF MarkSigned, MarkBroadcastUnknown, MarkIncluded, MarkManualReview
  <2> QED  BY <1>9, <1>11, <2>1
           DEF MarkSigned, MarkBroadcastUnknown, MarkIncluded, MarkManualReview, Claimed
<1>12. ASSUME NEW p \in BOOLEAN, Restart(p) PROVE TypeOK'
  <2>1. Interrupted \in SUBSET Entitlement  BY DEF Interrupted, InState
  <2>2. GiveBack(Interrupted) \in [Day -> Int]  BY <2>1, GiveBackType
  <2>3. row' \in [Entitlement -> Row]
    <3>1. \A e \in Entitlement : [row[e] EXCEPT !.state = "forfeited"] \in Row
      BY StateUpdate DEF State, Released
    <3> QED  BY <1>12, <3>1 DEF Restart
  <2> QED  BY <1>12, <2>2, <2>3 DEF Restart
<1>13. CASE Tick
  BY <1>13, DayAssumption DEF Tick, Time
<1>14. CASE UNCHANGED vars
  BY <1>14 DEF vars
<1> QED
  BY <1>1, <1>2, <1>3, <1>4, <1>5, <1>6, <1>7, <1>8, <1>10, <1>11, <1>12, <1>13, <1>14
     DEF Next

\* In every reachable state of the ledger the tables hold what their columns
\* admit, whatever operations the processes interleave.
THEOREM LedgerTyped == Spec => []TypeOK
BY TypeInit, TypeStep, PTL DEF Spec

(***************************************************************************)
(* The budget of a day                                                     *)
(***************************************************************************)

LEMMA Distribution ==
  ASSUME NEW r \in Nat, NEW l \in Nat, NEW k \in Nat
  PROVE  /\ r * (l - k) = r * l - r * k
         /\ r * (l + 1) = r * l + r
OBVIOUS

\* What is left committed once the live rows of E gave their rewards back.
LEMMA Remaining ==
  ASSUME TypeOK, BudgetConserved,
         NEW E \in SUBSET InState(row, Live), NEW d \in Day
  PROVE  /\ GiveBack(E)[d] = RewardLuna * Cardinality(OfDay(InState(row, Live) \ E, d))
         /\ GiveBack(E)[d] <= DailyBudgetLuna
<1> DEFINE L == OfDay(InState(row, Live), d)
           K == OfDay(E, d)
<1>1. L \in SUBSET Entitlement /\ K \in SUBSET Entitlement
  BY DEF OfDay, InState
<1>2. /\ IsFiniteSet(L) /\ IsFiniteSet(K)
      /\ Cardinality(L) \in Nat /\ Cardinality(K) \in Nat
  BY <1>1, Countable
<1>3. L \cap K = K /\ L \ K = OfDay(InState(row, Live) \ E, d)
  BY DEF OfDay
<1>4. Cardinality(L \ K) = Cardinality(L) - Cardinality(K)
  <2> HIDE DEF L, K
  <2>1. Cardinality(L \ K) = Cardinality(L) - Cardinality(L \cap K)
    BY ONLY <1>2, FS_Difference
  <2> QED  BY ONLY <2>1, <1>3
<1>5. committedLuna[d] = RewardLuna * Cardinality(L) /\ committedLuna[d] <= DailyBudgetLuna
  BY DEF BudgetConserved
<1>6. GiveBack(E)[d] = committedLuna[d] - RewardLuna * Cardinality(K)
  BY DEF GiveBack
<1>7. RewardLuna * (Cardinality(L) - Cardinality(K))
        = RewardLuna * Cardinality(L) - RewardLuna * Cardinality(K)
  BY <1>2, LunaAssumption, Distribution
<1>8. RewardLuna * Cardinality(K) >= 0 /\ RewardLuna * Cardinality(L) \in Int
      /\ RewardLuna * Cardinality(K) \in Int /\ DailyBudgetLuna \in Int
  BY <1>2, LunaAssumption
<1>9. RewardLuna * Cardinality(OfDay(InState(row, Live) \ E, d))
        = RewardLuna * Cardinality(L) - RewardLuna * Cardinality(K)
  BY <1>3, <1>4, <1>7
<1> HIDE DEF L, K
<1>10. GiveBack(E)[d] = RewardLuna * Cardinality(L) - RewardLuna * Cardinality(K)
  BY <1>5, <1>6
<1>11. GiveBack(E)[d] <= DailyBudgetLuna
  BY <1>5, <1>8, <1>10
<1> QED  BY <1>9, <1>10, <1>11

\* A step that neither commits nor releases keeps the balance.
LEMMA SameBalance ==
  ASSUME BudgetConserved, UNCHANGED committedLuna,
         InState(row', Live) = InState(row, Live),
         \A e \in Entitlement : row'[e].day = row[e].day
  PROVE  BudgetConserved'
<1>1. ASSUME NEW d \in Day
      PROVE  OfDay(InState(row, Live), d)' = OfDay(InState(row, Live), d)
  BY DEF OfDay, InState
<1> QED  BY <1>1 DEF BudgetConserved

\* A step that closes live rows and returns their rewards keeps the balance.
LEMMA ReleaseBalance ==
  ASSUME TypeOK, BudgetConserved, NEW E \in SUBSET InState(row, Live),
         committedLuna' = GiveBack(E),
         InState(row', Live) = InState(row, Live) \ E,
         \A e \in Entitlement : row'[e].day = row[e].day
  PROVE  BudgetConserved'
<1>1. ASSUME NEW d \in Day
      PROVE  OfDay(InState(row, Live), d)' = OfDay(InState(row, Live) \ E, d)
  BY DEF OfDay, InState
<1> QED  BY <1>1, Remaining DEF BudgetConserved

\* Moving reserved rows to a released state leaves the other live rows.
LEMMA MoveReleases ==
  ASSUME TypeOK, NEW E \in SUBSET Entitlement, NEW s \in Released
  PROVE  /\ InState(Move(E, s), Live) = InState(row, Live) \ E
         /\ \A e \in Entitlement : Move(E, s)[e].day = row[e].day
<1>1. s \notin Live  BY DEF Released, Live, Liability, Claimed
<1>2. ASSUME NEW e \in Entitlement
      PROVE  /\ Move(E, s)[e].state = IF e \in E THEN s ELSE row[e].state
             /\ Move(E, s)[e].day = row[e].day
  BY <1>2 DEF Move, TypeOK, Row
<1> QED  BY <1>1, <1>2 DEF InState

\* A row that changes its state only, between two live states.
LEMMA LiveToLive ==
  ASSUME TypeOK, BudgetConserved, UNCHANGED committedLuna,
         NEW e \in Entitlement, row[e].state \in Live, row'[e].state \in Live,
         row'[e].day = row[e].day,
         \A x \in Entitlement \ {e} : row'[x] = row[x]
  PROVE  BudgetConserved'
<1>1. InState(row', Live) = InState(row, Live)  BY DEF InState
<1>2. \A x \in Entitlement : row'[x].day = row[x].day  OBVIOUS
<1> QED  BY <1>1, <1>2, SameBalance

LEMMA ReserveBalance ==
  ASSUME TypeOK, BudgetConserved,
         NEW e \in Entitlement, NEW w \in Wallet, NEW r \in Receipt \cup {None},
         Reserve(e, w, r)
  PROVE  BudgetConserved'
<1> DEFINE c == DayOf[now]
           T == Move(Due, "expired")
           Rest == InState(row, Live) \ Due
<1>1. Due \in SUBSET InState(row, Live) /\ Due \in SUBSET Entitlement
  BY DEF Due, InState, Live
<1>2. e \notin Rest /\ Rest \in SUBSET Entitlement
  BY DEF Reserve, InState, Live, Liability, Claimed
<1>3. InState(T, Live) = Rest /\ \A x \in Entitlement : T[x].day = row[x].day
  BY <1>1, MoveReleases DEF Released
<1>4. T \in [Entitlement -> Row]  BY <1>1, MoveType DEF State, Released
<1>5. c \in Day  BY DayAssumption DEF TypeOK
<1>6. /\ \A x \in Entitlement \ {e} : row'[x] = T[x]
      /\ row'[e].state = "reserved" /\ row'[e].day = c
  <2> DEFINE n == [NoRow EXCEPT !.state = "reserved", !.wallet = w, !.day = c,
                     !.attemptNumber = NextAttempt(T, w, c),
                     !.token = TRUE, !.receipt = r,
                     !.reservationExpiresAt = now + ReservationTtl]
  <2>1. row' = [T EXCEPT ![e] = n]  BY DEF Reserve
  <2>2. n.state = "reserved" /\ n.day = c  BY DEF NoRow
  <2> HIDE DEF n, T, c
  <2> QED  BY <1>4, <2>1, <2>2
<1>7. InState(row', Live) = Rest \cup {e}
  <2>1. InState(row', Live) = {x \in Entitlement : row'[x].state \in Live}  BY DEF InState
  <2>2. Rest = {x \in Entitlement : T[x].state \in Live}  BY <1>3 DEF InState
  <2>3. "reserved" \in Live  BY DEF Live
  <2> HIDE DEF Rest, T
  <2> QED  BY <1>6, <2>1, <2>2, <2>3
<1>8. ASSUME NEW d \in Day
      PROVE  OfDay(InState(row, Live), d)' =
               IF d = c THEN OfDay(Rest, d) \cup {e} ELSE OfDay(Rest, d)
  <2>1. OfDay(InState(row, Live), d)' = {x \in Rest \cup {e} : row'[x].day = d}
    BY <1>7 DEF OfDay, InState
  <2>2. \A x \in Rest : row'[x].day = row[x].day
    <3> HIDE DEF T
    <3> QED  BY <1>2, <1>3, <1>6
  <2>3. OfDay(Rest, d) = {x \in Rest : row[x].day = d}  BY DEF OfDay
  <2> HIDE DEF Rest, T, c
  <2> QED  BY <1>6, <2>1, <2>2, <2>3
<1>9. ASSUME NEW d \in Day
      PROVE  /\ GiveBack(Due)[d] = RewardLuna * Cardinality(OfDay(Rest, d))
             /\ GiveBack(Due)[d] <= DailyBudgetLuna
  BY <1>1, Remaining
<1>10. /\ committedLuna' = [GiveBack(Due) EXCEPT ![c] = @ + RewardLuna]
       /\ GiveBack(Due)[c] + RewardLuna <= DailyBudgetLuna
  BY DEF Reserve, Affordable
<1>11. ASSUME NEW d \in Day
       PROVE  /\ committedLuna'[d] = IF d = c THEN GiveBack(Due)[d] + RewardLuna
                                     ELSE GiveBack(Due)[d]
              /\ committedLuna'[d] <= DailyBudgetLuna
  <2>1. GiveBack(Due) \in [Day -> Int]  BY <1>1, GiveBackType
  <2> HIDE DEF c
  <2> QED  BY <1>5, <1>9, <1>10, <2>1
<1>12. ASSUME NEW d \in Day
       PROVE  committedLuna'[d] = RewardLuna * Cardinality(OfDay(InState(row, Live), d)')
  <2> DEFINE S == OfDay(Rest, d)
  <2>1. S \in SUBSET Entitlement /\ e \notin S  BY <1>2 DEF OfDay
  <2>2. IsFiniteSet(S) /\ Cardinality(S) \in Nat  BY <2>1, Countable
  <2>3. Cardinality(S \cup {e}) = Cardinality(S) + 1  BY <2>1, <2>2, FS_AddElement
  <2>4. RewardLuna * (Cardinality(S) + 1) = RewardLuna * Cardinality(S) + RewardLuna
    BY <2>2, LunaAssumption, Distribution
  <2> HIDE DEF S, c, Rest
  <2>5. OfDay(InState(row, Live), d)' = IF d = c THEN S \cup {e} ELSE S  BY <1>8 DEF S
  <2>6. GiveBack(Due)[d] = RewardLuna * Cardinality(S)  BY <1>9 DEF S
  <2> QED  BY <1>11, <2>3, <2>4, <2>5, <2>6
<1> QED
  <2>1. ASSUME NEW d \in Day
        PROVE  Cardinality(OfDay(InState(row, Live), d))'
                 = Cardinality(OfDay(InState(row, Live), d)')
    OBVIOUS
  <2> QED  BY <1>11, <1>12 DEF BudgetConserved

LEMMA BudgetInit == Init => BudgetConserved
<1> SUFFICES ASSUME Init, NEW d \in Day
             PROVE  /\ committedLuna[d] = RewardLuna * Cardinality(OfDay(InState(row, Live), d))
                    /\ committedLuna[d] <= DailyBudgetLuna
  BY DEF BudgetConserved
<1>1. InState(row, Live) = {}
  BY DEF Init, NoRow, InState, Live, Liability, Claimed
<1>2. OfDay(InState(row, Live), d) = {}  BY <1>1 DEF OfDay
<1>3. Cardinality({}) = 0  BY FS_EmptySet
<1>4. committedLuna[d] = 0  BY DEF Init
<1> QED  BY <1>2, <1>3, <1>4, LunaAssumption

LEMMA BudgetStep == TypeOK /\ BudgetConserved /\ [Next]_vars => BudgetConserved'
<1> SUFFICES ASSUME TypeOK, BudgetConserved, [Next]_vars PROVE BudgetConserved'
  OBVIOUS
<1>0. ASSUME UNCHANGED <<row, committedLuna>> PROVE BudgetConserved'
  BY <1>0, SameBalance
<1>1. ASSUME NEW r \in Receipt, NEW w \in Wallet, IssuePeiReceipt(r, w)
      PROVE  BudgetConserved'
  BY <1>0, <1>1 DEF IssuePeiReceipt
<1>2. ASSUME NEW e \in Entitlement, NEW w \in Wallet, NEW r \in Receipt \cup {None},
             Reserve(e, w, r)
      PROVE  BudgetConserved'
  BY <1>2, ReserveBalance
<1>3. ASSUME NEW e \in Entitlement, Start(e) PROVE BudgetConserved'
  <2>1. /\ row[e].state \in Live /\ row'[e].state \in Live
        /\ row'[e].day = row[e].day
        /\ \A x \in Entitlement \ {e} : row'[x] = row[x]
        /\ UNCHANGED committedLuna
    BY <1>3 DEF Start, TypeOK, Row, Live
  <2> QED  BY <2>1, LiveToLive
<1>4. ASSUME NEW e \in Entitlement, CancelReserved(e) PROVE BudgetConserved'
  <2>1. {e} \in SUBSET InState(row, Live) /\ {e} \in SUBSET Entitlement
    BY <1>4 DEF CancelReserved, InState, Live
  <2>2. row' = Move({e}, "cancelled") /\ committedLuna' = GiveBack({e})
    BY <1>4 DEF CancelReserved
  <2>3. "cancelled" \in Released  BY DEF Released
  <2> QED  BY <2>1, <2>2, <2>3, MoveReleases, ReleaseBalance
<1>5. ASSUME ExpireReservations PROVE BudgetConserved'
  <2>1. Due \in SUBSET InState(row, Live) /\ Due \in SUBSET Entitlement
    BY DEF Due, InState, Live
  <2>2. row' = Move(Due, "expired") /\ committedLuna' = GiveBack(Due)
    BY <1>5 DEF ExpireReservations
  <2>3. "expired" \in Released  BY DEF Released
  <2> QED  BY <2>1, <2>2, <2>3, MoveReleases, ReleaseBalance
<1>6. ASSUME NEW e \in Entitlement, NEW o \in Outcome, CompleteMatch(e, o)
      PROVE  BudgetConserved'
  <2>1. row[e].state \in Live  BY <1>6 DEF CompleteMatch, Live
  <2>2. CASE o = "player_win"
    <3>1. /\ row'[e].state \in Live /\ row'[e].day = row[e].day
          /\ \A x \in Entitlement \ {e} : row'[x] = row[x]
          /\ UNCHANGED committedLuna
      BY <1>6, <2>2 DEF CompleteMatch, ResultState, TypeOK, Row, Live, Liability
    <3> QED  BY <2>1, <3>1, LiveToLive
  <2>3. CASE o # "player_win"
    <3>1. ResultState(o) \notin Live
      BY <2>3 DEF ResultState, Outcome, Live, Liability, Claimed
    <3>2. /\ row' = [row EXCEPT ![e].state = ResultState(o)]
          /\ committedLuna' = GiveBack({e})
      BY <1>6, <2>3 DEF CompleteMatch
    <3>3. \A x \in Entitlement : row'[x].day = row[x].day
      BY <3>2 DEF TypeOK, Row
    <3>4. \A x \in Entitlement :
            row'[x].state = IF x = e THEN ResultState(o) ELSE row[x].state
      BY <3>2 DEF TypeOK, Row
    <3>5. InState(row', Live) = InState(row, Live) \ {e}
      BY <3>1, <3>4 DEF InState
    <3>6. {e} \in SUBSET InState(row, Live)  BY <2>1 DEF InState
    <3> QED  BY <3>2, <3>3, <3>5, <3>6, ReleaseBalance
  <2> QED  BY <2>2, <2>3
<1>7. ASSUME NEW e \in Entitlement, RotateClaimNonce(e) PROVE BudgetConserved'
  <2>1. /\ row[e].state \in Live /\ row'[e].state \in Live
        /\ row'[e].day = row[e].day
        /\ \A x \in Entitlement \ {e} : row'[x] = row[x]
        /\ UNCHANGED committedLuna
    BY <1>7 DEF RotateClaimNonce, TypeOK, Row, Live, Liability
  <2> QED  BY <2>1, LiveToLive
<1>8. ASSUME NEW e \in Entitlement, NEW k \in IdempotencyKey, Claim(e, k)
      PROVE  BudgetConserved'
  <2>1. /\ row[e].state \in Live /\ row'[e].state \in Live
        /\ row'[e].day = row[e].day
        /\ \A x \in Entitlement \ {e} : row'[x] = row[x]
        /\ UNCHANGED committedLuna
    BY <1>8 DEF Claim, TypeOK, Row, Live, Liability, Claimed
  <2> QED  BY <2>1, LiveToLive
<1>9. ASSUME NEW e \in Entitlement,
             \/ MarkSigned(e) \/ MarkBroadcastUnknown(e) \/ MarkIncluded(e)
             \/ MarkManualReview(e) \/ MarkFinalized(e)
      PROVE  BudgetConserved'
  <2>1. ASSUME NEW S \in SUBSET Claimed, NEW s \in Claimed, Transition(e, S, s)
        PROVE  BudgetConserved'
    <3>1. /\ row[e].state \in Live /\ row'[e].state \in Live
          /\ row'[e].day = row[e].day
          /\ \A x \in Entitlement \ {e} : row'[x] = row[x]
          /\ UNCHANGED committedLuna
      BY <2>1 DEF Transition, TypeOK, Row, Live, Liability
    <3> QED  BY <3>1, LiveToLive
  <2> QED  BY <1>9, <2>1
           DEF MarkSigned, MarkBroadcastUnknown, MarkIncluded, MarkManualReview,
               MarkFinalized, Claimed
<1>10. ASSUME NEW p \in BOOLEAN, Restart(p) PROVE BudgetConserved'
  <2>1. Interrupted \in SUBSET InState(row, Live)
    BY DEF Interrupted, InState, Live
  <2>2. \A x \in Entitlement :
          /\ row'[x].day = row[x].day
          /\ row'[x].state = IF x \in Interrupted THEN "forfeited" ELSE row[x].state
    BY <1>10 DEF Restart, TypeOK, Row
  <2>3. "forfeited" \notin Live  BY DEF Live, Liability, Claimed
  <2>4. InState(row', Live) = InState(row, Live) \ Interrupted
    BY <2>2, <2>3 DEF InState
  <2>5. committedLuna' = GiveBack(Interrupted)  BY <1>10 DEF Restart
  <2> QED  BY <2>1, <2>2, <2>4, <2>5, ReleaseBalance
<1>11. CASE Tick
  BY <1>0, <1>11 DEF Tick
<1>12. CASE UNCHANGED vars
  BY <1>0, <1>12 DEF vars
<1> QED
  BY <1>1, <1>2, <1>3, <1>4, <1>5, <1>6, <1>7, <1>8, <1>9, <1>10, <1>11, <1>12 DEF Next

\* The committed Luna of every day are exactly the rewards of its open
\* attempts and liabilities and never exceed the day's Prize Loom.
THEOREM BudgetHolds == Spec => []BudgetConserved
BY TypeInit, TypeStep, BudgetInit, BudgetStep, PTL DEF Spec

(***************************************************************************)
(* The life of one entitlement                                             *)
(***************************************************************************)

\* The states a row in state s may be in after one step.
After(s) ==
  {s} \cup CASE s = "none"              -> {"reserved"}
             [] s = "reserved"          -> {"in_progress", "cancelled", "expired"}
             [] s = "in_progress"       -> {"claimable", "lost", "forfeited", "expired"}
             [] s = "claimable"         -> {"queued"}
             [] s = "queued"            -> {"signed", "manual_review"}
             [] s = "signed"            -> {"broadcast_unknown", "included", "manual_review"}
             [] s = "broadcast_unknown" -> {"included", "manual_review"}
             [] s = "included"          -> {"finalized"}
             [] OTHER                   -> {}

\* A row follows its state graph, keeps its owner and day, rests when released
\* and comes into being by a reservation only.
RowStep(e) ==
  /\ row'[e].state \in After(row[e].state)
  /\ row[e].state # "none" => row'[e].wallet = row[e].wallet /\ row'[e].day = row[e].day
  /\ row[e].state \in Released => row'[e] = row[e]
  /\ row[e].state = "none" /\ row'[e].state # "none" =>
       \E w \in Wallet, r \in Receipt \cup {None} : Reserve(e, w, r)

LEMMA MoveSteps ==
  ASSUME TypeOK, NEW E \in SUBSET InState(row, {"reserved"}),
         NEW s \in {"cancelled", "expired"}, row' = Move(E, s),
         NEW x \in Entitlement
  PROVE  RowStep(x)
<1>1. CASE x \in E
  <2>1. row[x] \in Row /\ row[x].state = "reserved"
    BY <1>1 DEF InState, TypeOK
  <2>2. row'[x] = [row[x] EXCEPT !.state = s, !.token = FALSE]
    BY <1>1 DEF Move
  <2>3. row'[x].state = s /\ row'[x].wallet = row[x].wallet /\ row'[x].day = row[x].day
    BY <2>1, <2>2 DEF Row
  <2> QED  BY <2>1, <2>3 DEF RowStep, After, Released
<1>2. CASE x \notin E
  BY <1>2 DEF Move, RowStep, After
<1> QED  BY <1>1, <1>2

LEMMA RowSteps ==
  ASSUME TypeOK, [Next]_vars, NEW x \in Entitlement
  PROVE  RowStep(x)
<1>0. ASSUME row'[x] = row[x] PROVE RowStep(x)
  BY <1>0 DEF RowStep, After
<1>1. ASSUME NEW r \in Receipt, NEW w \in Wallet, IssuePeiReceipt(r, w) PROVE RowStep(x)
  BY <1>0, <1>1 DEF IssuePeiReceipt
<1>2. ASSUME NEW e \in Entitlement, NEW w \in Wallet, NEW r \in Receipt \cup {None},
             Reserve(e, w, r)
      PROVE  RowStep(x)
  <2> DEFINE T == Move(Due, "expired")
             n == [NoRow EXCEPT !.state = "reserved", !.wallet = w, !.day = DayOf[now],
                     !.attemptNumber = NextAttempt(T, w, DayOf[now]),
                     !.token = TRUE, !.receipt = r,
                     !.reservationExpiresAt = now + ReservationTtl]
  <2>1. T \in [Entitlement -> Row]
    BY MoveType DEF State, Released, Due, InState
  <2>2. row' = [T EXCEPT ![e] = n] /\ row[e].state = "none"
    BY <1>2 DEF Reserve
  <2>3. n.state = "reserved"  BY DEF NoRow
  <2>4. CASE x = e
    <3> HIDE DEF n, T
    <3>1. row'[x].state = "reserved"  BY <2>1, <2>2, <2>3, <2>4
    <3> QED  BY <1>2, <2>2, <2>4, <3>1 DEF RowStep, After, Released
  <2>5. CASE x # e /\ x \in Due
    <3> HIDE DEF n
    <3>1. row'[x] = [row[x] EXCEPT !.state = "expired", !.token = FALSE]
      BY <2>2, <2>5 DEF Move
    <3>2. row[x].state = "reserved"  BY <2>5 DEF Due, InState
    <3> QED  BY <3>1, <3>2 DEF RowStep, After, Released, TypeOK, Row
  <2>6. CASE x # e /\ x \notin Due
    <3> HIDE DEF n
    <3> QED  BY <1>0, <2>2, <2>6 DEF Move
  <2> QED  BY <2>4, <2>5, <2>6
<1>3. ASSUME NEW e \in Entitlement, Start(e) PROVE RowStep(x)
  <2>1. CASE x # e  BY <1>0, <1>3, <2>1 DEF Start, TypeOK
  <2>2. CASE x = e  BY <1>3, <2>2 DEF Start, RowStep, After, Released, TypeOK, Row
  <2> QED  BY <2>1, <2>2
<1>4. ASSUME NEW e \in Entitlement, CancelReserved(e) PROVE RowStep(x)
  BY <1>4, MoveSteps DEF CancelReserved, InState
<1>5. ASSUME ExpireReservations PROVE RowStep(x)
  BY <1>5, MoveSteps DEF ExpireReservations, Due, InState
<1>6. ASSUME NEW e \in Entitlement, NEW o \in Outcome, CompleteMatch(e, o) PROVE RowStep(x)
  <2>1. CASE x # e  BY <1>0, <1>6, <2>1 DEF CompleteMatch, TypeOK
  <2>2. CASE x = e
    <3>1. ResultState(o) \in {"claimable", "lost", "forfeited", "expired"}
      BY DEF ResultState, Outcome
    <3>2. /\ row[x].state = "in_progress" /\ row'[x].state = ResultState(o)
          /\ row'[x].wallet = row[x].wallet /\ row'[x].day = row[x].day
      BY <1>6, <2>2 DEF CompleteMatch, TypeOK, Row
    <3> QED  BY <3>1, <3>2 DEF RowStep, After, Released
  <2> QED  BY <2>1, <2>2
<1>7. ASSUME NEW e \in Entitlement, RotateClaimNonce(e) PROVE RowStep(x)
  <2>1. CASE x # e  BY <1>0, <1>7, <2>1 DEF RotateClaimNonce, TypeOK
  <2>2. CASE x = e
    BY <1>7, <2>2 DEF RotateClaimNonce, RowStep, After, Released, TypeOK, Row
  <2> QED  BY <2>1, <2>2
<1>8. ASSUME NEW e \in Entitlement, NEW k \in IdempotencyKey, Claim(e, k) PROVE RowStep(x)
  <2>1. CASE x # e  BY <1>0, <1>8, <2>1 DEF Claim, TypeOK
  <2>2. CASE x = e  BY <1>8, <2>2 DEF Claim, RowStep, After, Released, TypeOK, Row
  <2> QED  BY <2>1, <2>2
<1>9. ASSUME NEW e \in Entitlement, NEW S, NEW s, Transition(e, S, s),
             S \cap Released = {}, "none" \notin S, s \in Claimed,
             \A q \in S : s \in After(q)
      PROVE  RowStep(x)
  <2>1. CASE x # e  BY <1>0, <1>9, <2>1 DEF Transition, TypeOK
  <2>2. CASE x = e
    <3>1. /\ row[x].state \in S /\ row'[x].state = s
          /\ row'[x].wallet = row[x].wallet /\ row'[x].day = row[x].day
      BY <1>9, <2>2 DEF Transition, TypeOK, Row
    <3> QED  BY <1>9, <3>1 DEF RowStep
  <2> QED  BY <2>1, <2>2
<1>10. ASSUME NEW e \in Entitlement,
              \/ MarkSigned(e) \/ MarkBroadcastUnknown(e) \/ MarkIncluded(e)
              \/ MarkManualReview(e) \/ MarkFinalized(e)
       PROVE  RowStep(x)
  <2>1. CASE MarkSigned(e)
    BY <1>9, <2>1 DEF MarkSigned, After, Released, Claimed
  <2>2. CASE MarkBroadcastUnknown(e)
    BY <1>9, <2>2 DEF MarkBroadcastUnknown, After, Released, Claimed
  <2>3. CASE MarkIncluded(e)
    BY <1>9, <2>3 DEF MarkIncluded, After, Released, Claimed
  <2>4. CASE MarkManualReview(e)
    BY <1>9, <2>4 DEF MarkManualReview, After, Released, Claimed
  <2>5. CASE MarkFinalized(e)
    BY <1>9, <2>5 DEF MarkFinalized, After, Released, Claimed
  <2> QED  BY <1>10, <2>1, <2>2, <2>3, <2>4, <2>5
<1>11. ASSUME NEW p \in BOOLEAN, Restart(p) PROVE RowStep(x)
  <2>1. CASE x \notin Interrupted  BY <1>0, <1>11, <2>1 DEF Restart
  <2>2. CASE x \in Interrupted
    <3>1. row'[x] = [row[x] EXCEPT !.state = "forfeited"] /\ row[x].state = "in_progress"
      BY <1>11, <2>2 DEF Restart, Interrupted, InState
    <3> QED  BY <3>1 DEF RowStep, After, Released, TypeOK, Row
  <2> QED  BY <2>1, <2>2
<1>12. CASE Tick  BY <1>0, <1>12 DEF Tick
<1>13. CASE UNCHANGED vars  BY <1>0, <1>13 DEF vars
<1> QED
  BY <1>1, <1>2, <1>3, <1>4, <1>5, <1>6, <1>7, <1>8, <1>10, <1>11, <1>12, <1>13 DEF Next

\* A recorded win stays owed until it is finalized or reviewed: no step of any
\* process takes it back.
THEOREM LiabilityIsKept == Spec => LiabilityKept
<1>1. TypeOK /\ [Next]_vars =>
        [\A e \in Entitlement :
           row[e].state \in Liability => row'[e].state \in Liability]_vars
  <2> SUFFICES ASSUME TypeOK, [Next]_vars, NEW e \in Entitlement,
                      row[e].state \in Liability
               PROVE  row'[e].state \in Liability
    OBVIOUS
  <2>1. row'[e].state \in After(row[e].state)  BY RowSteps DEF RowStep
  <2> QED  BY <2>1 DEF After, Liability, Claimed
<1> QED  BY <1>1, LedgerTyped, PTL DEF Spec, LiabilityKept

\* A released entitlement is never touched again, so nothing is released twice.
THEOREM ReleaseFinal == Spec => ReleaseIsFinal
<1>1. TypeOK /\ [Next]_vars =>
        [\A e \in Entitlement :
           row[e].state \in Released => row'[e] = row[e]]_vars
  BY RowSteps DEF RowStep
<1> QED  BY <1>1, LedgerTyped, PTL DEF Spec, ReleaseIsFinal

(***************************************************************************)
(* One open attempt                                                        *)
(***************************************************************************)

Open == {"reserved", "in_progress"}

LEMMA OneOpenStep == TypeOK /\ OneOpenAttempt /\ [Next]_vars => OneOpenAttempt'
<1> SUFFICES ASSUME TypeOK, OneOpenAttempt, [Next]_vars,
                    NEW e \in Entitlement, NEW f \in Entitlement,
                    row'[e].state \in Open, row'[f].state \in Open,
                    row'[e].wallet = row'[f].wallet, row'[e].day = row'[f].day,
                    e # f
             PROVE  FALSE
  BY DEF OneOpenAttempt, InState, Open
<1>1. ASSUME NEW x \in Entitlement, row'[x].state \in Open
      PROVE  row[x].state \in Open \cup {"none"}
  <2>1. row'[x].state \in After(row[x].state) /\ row[x].state \in State \cup {"none"}
    BY RowSteps DEF RowStep, TypeOK, Row
  <2> QED
    BY <1>1, <2>1 DEF After, Open, State, Released, Live, Liability, Claimed
<1>2. ASSUME NEW x \in Entitlement, NEW y \in Entitlement, x # y,
             row'[x].state \in Open, row'[y].state \in Open,
             row'[x].wallet = row'[y].wallet, row'[x].day = row'[y].day,
             row[x].state = "none"
      PROVE  FALSE
  <2>1. PICK w \in Wallet, r \in Receipt \cup {None} : Reserve(x, w, r)
    BY <1>2, RowSteps DEF RowStep, Open
  <2> DEFINE T == Move(Due, "expired")
             n == [NoRow EXCEPT !.state = "reserved", !.wallet = w, !.day = DayOf[now],
                     !.attemptNumber = NextAttempt(T, w, DayOf[now]),
                     !.token = TRUE, !.receipt = r,
                     !.reservationExpiresAt = now + ReservationTtl]
  <2>2. T \in [Entitlement -> Row]
    BY MoveType DEF State, Released, Due, InState
  <2>3. row' = [T EXCEPT ![x] = n] /\ OpenAttempts(T, w, DayOf[now]) = {}
    BY <2>1 DEF Reserve
  <2>4. n.wallet = w /\ n.day = DayOf[now]  BY DEF NoRow
  <2> HIDE DEF T, n
  <2>5. row'[x] = n /\ row'[y] = T[y]  BY <1>2, <2>2, <2>3
  <2>6. y \in OpenAttempts(T, w, DayOf[now])
    BY <1>2, <2>4, <2>5 DEF OpenAttempts, OfWalletDay, InState, Open
  <2> QED  BY <2>3, <2>6
<1>3. row[e].state \in Open /\ row[f].state \in Open
  BY <1>1, <1>2
<1>4. /\ row'[e].wallet = row[e].wallet /\ row'[e].day = row[e].day
      /\ row'[f].wallet = row[f].wallet /\ row'[f].day = row[f].day
  BY <1>3, RowSteps DEF RowStep, Open
<1> QED  BY <1>3, <1>4 DEF OneOpenAttempt, InState, Open

\* No interleaving of reservations, starts, results, sweeps and restarts gives
\* a wallet two open attempts on one day.
THEOREM OneAttemptAtATime == Spec => []OneOpenAttempt
<1>1. Init => OneOpenAttempt
  BY DEF Init, NoRow, OneOpenAttempt, InState
<1> QED  BY <1>1, TypeInit, TypeStep, OneOpenStep, PTL DEF Spec

(***************************************************************************)
(* Payments of a day                                                       *)
(***************************************************************************)

\* A step that finalizes nothing keeps the payments.
LEMMA SamePayments ==
  ASSUME TypeOK, PaidConserved, [Next]_vars, UNCHANGED paidLuna,
         \A e \in Entitlement : row'[e].state = "finalized" => row[e].state = "finalized"
  PROVE  PaidConserved'
<1>1. ASSUME NEW e \in Entitlement
      PROVE  /\ row[e].state = "finalized" <=> row'[e].state = "finalized"
             /\ row[e].state = "finalized" => row'[e].day = row[e].day
  BY RowSteps DEF RowStep, After
<1>2. ASSUME NEW d \in Day
      PROVE  OfDay(InState(row, {"finalized"}), d)' = OfDay(InState(row, {"finalized"}), d)
  BY <1>1 DEF OfDay, InState
<1> QED  BY <1>2 DEF PaidConserved

LEMMA FinalizePayments ==
  ASSUME TypeOK, PaidConserved, NEW e \in Entitlement,
         row[e].state = "included", MarkFinalized(e)
  PROVE  PaidConserved'
<1> DEFINE c == row[e].day
<1>1. /\ row'[e].state = "finalized" /\ row'[e].day = c
      /\ \A x \in Entitlement \ {e} : row'[x] = row[x]
  BY DEF MarkFinalized, Transition, TypeOK, Row
<1>2. ASSUME NEW d \in Day
      PROVE  paidLuna'[d] = RewardLuna * Cardinality(OfDay(InState(row, {"finalized"}), d)')
  <2> DEFINE S == OfDay(InState(row, {"finalized"}), d)
  <2>1. S \in SUBSET Entitlement /\ e \notin S  BY DEF OfDay, InState
  <2>2. IsFiniteSet(S) /\ Cardinality(S) \in Nat  BY <2>1, Countable
  <2>3. Cardinality(S \cup {e}) = Cardinality(S) + 1  BY <2>1, <2>2, FS_AddElement
  <2>4. RewardLuna * (Cardinality(S) + 1) = RewardLuna * Cardinality(S) + RewardLuna
    BY <2>2, LunaAssumption, Distribution
  <2>5. paidLuna[d] = RewardLuna * Cardinality(S)  BY DEF PaidConserved
  <2>6. S' = IF d = c THEN S \cup {e} ELSE S  BY <1>1 DEF OfDay, InState
  <2>7. paidLuna'[d] = IF d = c THEN paidLuna[d] + RewardLuna ELSE paidLuna[d]
    BY DEF MarkFinalized, TypeOK
  <2>8. S' = OfDay(InState(row, {"finalized"}), d)'  OBVIOUS
  <2> HIDE DEF S, c
  <2> QED  BY <2>3, <2>4, <2>5, <2>6, <2>7, <2>8
<1> QED
  <2>1. ASSUME NEW d \in Day
        PROVE  Cardinality(OfDay(InState(row, {"finalized"}), d))'
                 = Cardinality(OfDay(InState(row, {"finalized"}), d)')
    OBVIOUS
  <2> QED  BY <1>2 DEF PaidConserved

LEMMA PaidInit == Init => PaidConserved
<1> SUFFICES ASSUME Init, NEW d \in Day
             PROVE  paidLuna[d] = RewardLuna * Cardinality(OfDay(InState(row, {"finalized"}), d))
  BY DEF PaidConserved
<1>1. OfDay(InState(row, {"finalized"}), d) = {}
  BY DEF Init, NoRow, InState, OfDay
<1>2. Cardinality({}) = 0  BY FS_EmptySet
<1>3. paidLuna[d] = 0  BY DEF Init
<1> QED  BY <1>1, <1>2, <1>3, LunaAssumption

\* Only MarkFinalized pays, and only it finalizes.
LEMMA OnlyFinalizePays ==
  ASSUME TypeOK, [Next]_vars,
         ~ \E e \in Entitlement : row[e].state = "included" /\ MarkFinalized(e)
  PROVE  /\ UNCHANGED paidLuna
         /\ \A x \in Entitlement : row'[x].state = "finalized" => row[x].state = "finalized"
<1>1. UNCHANGED paidLuna
  BY DEF Next, vars, IssuePeiReceipt, Reserve, Start, CancelReserved,
         ExpireReservations, CompleteMatch, RotateClaimNonce, Claim, MarkSigned,
         MarkBroadcastUnknown, MarkIncluded, MarkManualReview, Restart, Tick
<1>2. ASSUME NEW x \in Entitlement, row'[x].state = "finalized", row[x].state # "finalized"
      PROVE  FALSE
  <2>1. row[x].state = "included" /\ row[x].state # row'[x].state
    <3>1. row'[x].state \in After(row[x].state) /\ row[x].state \in State \cup {"none"}
      BY RowSteps DEF RowStep, TypeOK, Row
    <3> QED  BY <1>2, <3>1 DEF After, State, Released, Live, Liability, Claimed
  <2>2. ASSUME row'[x] = row[x] PROVE FALSE  BY <2>1, <2>2
  <2>3. ASSUME NEW E \in SUBSET Entitlement, NEW s \in {"expired", "cancelled"},
               E \subseteq InState(row, {"reserved"}), row' = Move(E, s)
        PROVE  FALSE
    BY <2>1, <2>2, <2>3 DEF Move, InState
  <2>4. ASSUME NEW r \in Receipt, NEW w \in Wallet, IssuePeiReceipt(r, w) PROVE FALSE
    BY <2>2, <2>4 DEF IssuePeiReceipt
  <2>5. ASSUME NEW e \in Entitlement, NEW w \in Wallet, NEW r \in Receipt \cup {None},
               Reserve(e, w, r)
        PROVE  FALSE
    <3>1. row[e].state = "none"  BY <2>5 DEF Reserve
    <3>2. x # e /\ x \notin Due  BY <2>1, <3>1 DEF Due, InState
    <3>3. row'[x] = row[x]
      <4> DEFINE T == Move(Due, "expired")
      <4>1. T \in [Entitlement -> Row]
        BY MoveType DEF State, Released, Due, InState
      <4>2. PICK n : row' = [T EXCEPT ![e] = n]  BY <2>5 DEF Reserve
      <4>3. T[x] = row[x]  BY <3>2 DEF Move
      <4> HIDE DEF T
      <4> QED  BY <3>2, <4>1, <4>2, <4>3
    <3> QED  BY <2>2, <3>3
  <2>6. ASSUME NEW e \in Entitlement, Start(e) PROVE FALSE
    BY <2>1, <2>2, <2>6 DEF Start, TypeOK
  <2>7. ASSUME NEW e \in Entitlement, CancelReserved(e) PROVE FALSE
    BY <2>3, <2>7 DEF CancelReserved, InState
  <2>8. ASSUME ExpireReservations PROVE FALSE
    BY <2>3, <2>8 DEF ExpireReservations, Due, InState
  <2>9. ASSUME NEW e \in Entitlement, NEW o \in Outcome, CompleteMatch(e, o) PROVE FALSE
    BY <2>1, <2>2, <2>9 DEF CompleteMatch, TypeOK
  <2>10. ASSUME NEW e \in Entitlement, RotateClaimNonce(e) PROVE FALSE
    BY <2>1, <2>2, <2>10 DEF RotateClaimNonce, TypeOK
  <2>11. ASSUME NEW e \in Entitlement, NEW k \in IdempotencyKey, Claim(e, k) PROVE FALSE
    BY <2>1, <2>2, <2>11 DEF Claim, TypeOK
  <2>12. ASSUME NEW e \in Entitlement, NEW S, NEW s \in Claimed \ {"finalized"},
                Transition(e, S, s)
         PROVE  FALSE
    BY <1>2, <2>1, <2>2, <2>12 DEF Transition, TypeOK, Row
  <2>13. ASSUME NEW e \in Entitlement,
                \/ MarkSigned(e) \/ MarkBroadcastUnknown(e) \/ MarkIncluded(e)
                \/ MarkManualReview(e)
         PROVE  FALSE
    BY <2>12, <2>13 DEF MarkSigned, MarkBroadcastUnknown, MarkIncluded,
                        MarkManualReview, Claimed
  <2>14. ASSUME NEW p \in BOOLEAN, Restart(p) PROVE FALSE
    BY <2>1, <2>2, <2>14 DEF Restart, Interrupted, InState
  <2>15. CASE Tick  BY <2>2, <2>15 DEF Tick
  <2>16. CASE UNCHANGED vars  BY <2>2, <2>16 DEF vars
  <2> QED
    BY <2>4, <2>5, <2>6, <2>7, <2>8, <2>9, <2>10, <2>11, <2>13, <2>14, <2>15, <2>16
       DEF Next
<1> QED  BY <1>1, <1>2

LEMMA PaidStep == TypeOK /\ PaidConserved /\ [Next]_vars => PaidConserved'
BY FinalizePayments, OnlyFinalizePays, SamePayments

\* What a day has paid is the reward of its finalized entitlements, no more
\* and no less.
THEOREM PaymentsHold == Spec => []PaidConserved
BY TypeInit, TypeStep, PaidInit, PaidStep, PTL DEF Spec

(***************************************************************************)
(* What the rows, receipts and claims say about each other: attempts are   *)
(* numbered without a gap, a receipt backs one start, and a claim stands   *)
(* behind every payout.                                                    *)
(*                                                                         *)
(* Only four operations write what these invariants relate, and the rest   *)
(* are Routine.  The number of an attempt is chosen when it is reserved    *)
(* and used when it starts; that it is still the next one then (Ready)     *)
(* rests on OneOpenAttempt: nothing of the same wallet and day can have    *)
(* started in between.                                                     *)
(***************************************************************************)

\* What a row keeps for life once it has been reserved and started.
Keeps(x) ==
  /\ row'[x].wallet = row[x].wallet /\ row'[x].day = row[x].day
  /\ row'[x].attemptNumber = row[x].attemptNumber
  /\ row'[x].attemptConsumed = row[x].attemptConsumed
  /\ row'[x].receipt = row[x].receipt

\* A row that is neither reserved, started nor claimed by the step.
Rests(x) ==
  /\ Keeps(x)
  /\ row[x].state = "none" => row'[x] = row[x]
  /\ row'[x].state \in {"none", "reserved"} => row'[x].state = row[x].state
  /\ row'[x].state \in Claimed <=> row[x].state \in Claimed

Routine ==
  /\ UNCHANGED <<receipts, claims>>
  /\ \A x \in Entitlement : Rests(x)

\* A row nobody has reserved is empty.
Blank == \A e \in InState(row, {"none"}) : row[e] = NoRow

\* A reservation is of a wallet, its attempt is not used, and its number is
\* the next one.
Ready ==
  \A e \in InState(row, {"reserved"}) :
    /\ row[e].wallet \in Wallet /\ row[e].day \in Day /\ ~row[e].attemptConsumed
    /\ row[e].attemptNumber = NextAttempt(row, row[e].wallet, row[e].day)

Inv ==
  /\ TypeOK /\ OneOpenAttempt /\ Blank /\ Ready
  /\ AttemptsNumbered /\ ReceiptBacksOneStart /\ ClaimsMatchPayouts

-----------------------------------------------------------------------------
(* The shape of a step                                                     *)

LEMMA UnchangedRests ==
  ASSUME NEW x \in Entitlement, row'[x] = row[x]
  PROVE  Rests(x)
  BY DEF Rests, Keeps

LEMMA MoveRests ==
  ASSUME TypeOK, NEW E \in SUBSET InState(row, {"reserved"}), NEW s \in {"expired", "cancelled"},
         NEW T, T = Move(E, s), NEW x \in Entitlement, row'[x] = T[x]
  PROVE  Rests(x)
<1>1. CASE x \notin E
  <2>1. row'[x] = row[x]
    BY <1>1 DEF Move
  <2> QED BY <2>1, UnchangedRests
<1>2. CASE x \in E
  <2>1. row[x] \in Row /\ row[x].state = "reserved"
    BY <1>2 DEF TypeOK, InState
  <2>2. row'[x] = [row[x] EXCEPT !.state = s, !.token = FALSE]
    BY <1>2 DEF Move
  <2> QED BY <2>1, <2>2 DEF Rests, Keeps, Row, Claimed
<1> QED BY <1>1, <1>2

\* A step that moves one row from a state to another, and writes its nonce.
LEMMA UpdateRests ==
  ASSUME TypeOK, NEW e \in Entitlement, NEW x \in Entitlement,
         row'[e].state \notin {"none", "reserved"}, row[e].state # "none",
         row'[e].state \in Claimed <=> row[e].state \in Claimed,
         Keeps(e), x # e => row'[x] = row[x]
  PROVE  Rests(x)
  BY UnchangedRests DEF Rests

LEMMA Steps ==
  ASSUME TypeOK, [Next]_vars
  PROVE  \/ \E r \in Receipt, w \in Wallet : IssuePeiReceipt(r, w)
         \/ \E e \in Entitlement, w \in Wallet, r \in Receipt \cup {None} : Reserve(e, w, r)
         \/ \E e \in Entitlement : Start(e)
         \/ \E e \in Entitlement, k \in IdempotencyKey : Claim(e, k)
         \/ Routine
<1>1. ASSUME NEW e \in Entitlement, CancelReserved(e) PROVE Routine
  BY <1>1, MoveRests DEF CancelReserved, Routine, InState
<1>2. ASSUME ExpireReservations PROVE Routine
  <2>1. Due \in SUBSET InState(row, {"reserved"})
    BY DEF Due
  <2> QED BY <1>2, <2>1, MoveRests DEF ExpireReservations, Routine
<1>3. ASSUME NEW e \in Entitlement, NEW o \in Outcome, CompleteMatch(e, o) PROVE Routine
  <2>1. ResultState(o) \in {"claimable", "lost", "forfeited", "expired"}
    BY DEF ResultState, Outcome
  <2>2. /\ Keeps(e) /\ row[e].state = "in_progress" /\ row'[e].state = ResultState(o)
        /\ \A x \in Entitlement \ {e} : row'[x] = row[x]
    BY <1>3 DEF CompleteMatch, Keeps, TypeOK, Row
  <2>3. \A x \in Entitlement : Rests(x)
    BY <2>1, <2>2, UpdateRests DEF Claimed
  <2> QED BY <1>3, <2>3 DEF CompleteMatch, Routine
<1>4. ASSUME NEW e \in Entitlement, RotateClaimNonce(e) PROVE Routine
  <2>1. /\ Keeps(e) /\ row[e].state = "claimable" /\ row'[e].state = "claimable"
        /\ \A x \in Entitlement \ {e} : row'[x] = row[x]
    BY <1>4 DEF RotateClaimNonce, Keeps, TypeOK, Row
  <2>2. \A x \in Entitlement : Rests(x)
    BY <2>1, UpdateRests DEF Claimed
  <2> QED BY <1>4, <2>2 DEF RotateClaimNonce, Routine
<1>5. ASSUME NEW e \in Entitlement, NEW S \in SUBSET Claimed, NEW s \in Claimed,
             Transition(e, S, s)
      PROVE  Routine
  <2>1. /\ Keeps(e) /\ row[e].state \in Claimed /\ row'[e].state = s
        /\ \A x \in Entitlement \ {e} : row'[x] = row[x]
    BY <1>5 DEF Transition, Keeps, TypeOK, Row
  <2>2. \A x \in Entitlement : Rests(x)
    BY <2>1, UpdateRests DEF Claimed
  <2> QED BY <1>5, <2>2 DEF Transition, Routine
<1>6. ASSUME NEW e \in Entitlement,
             \/ MarkSigned(e) \/ MarkBroadcastUnknown(e) \/ MarkIncluded(e)
             \/ MarkManualReview(e) \/ MarkFinalized(e)
      PROVE  Routine
  BY <1>5, <1>6 DEF MarkSigned, MarkBroadcastUnknown, MarkIncluded, MarkManualReview,
    MarkFinalized, Claimed
<1>7. ASSUME NEW p \in BOOLEAN, Restart(p) PROVE Routine
  <2>1. ASSUME NEW x \in Entitlement PROVE Rests(x)
    <3>1. CASE x \notin Interrupted
      BY <1>7, <3>1, UnchangedRests DEF Restart
    <3>2. CASE x \in Interrupted
      <4>1. row'[x] = [row[x] EXCEPT !.state = "forfeited"] /\ row[x].state = "in_progress"
        BY <1>7, <3>2 DEF Restart, Interrupted, InState
      <4> QED BY <4>1 DEF Rests, Keeps, Claimed, TypeOK, Row
    <3> QED BY <3>1, <3>2
  <2> QED BY <1>7, <2>1 DEF Restart, Routine
<1>8. ASSUME Tick \/ UNCHANGED vars PROVE Routine
  BY <1>8, UnchangedRests DEF Tick, vars, Routine
<1> QED BY <1>1, <1>2, <1>3, <1>4, <1>6, <1>7, <1>8 DEF Next

-----------------------------------------------------------------------------
LEMMA Starts == Init => Inv
<1> SUFFICES ASSUME Init PROVE Inv
  OBVIOUS
<1>1. TypeOK /\ OneOpenAttempt
  BY TypeInit DEF Init, NoRow, OneOpenAttempt, InState
<1>2. Blank /\ Ready
  BY DEF Init, NoRow, Blank, Ready, InState
<1>3. AttemptsNumbered
  <2> SUFFICES ASSUME NEW w \in Wallet, NEW d \in Day
               PROVE  LET C == Consumed(row, w, d)
                      IN /\ Cardinality(C) <= AttemptLimit[w]
                         /\ {row[e].attemptNumber : e \in C} = 1 .. Cardinality(C)
    BY DEF AttemptsNumbered
  <2>1. Consumed(row, w, d) = {}
    BY DEF Init, NoRow, Consumed, OfWalletDay
  <2>2. Cardinality({}) = 0 /\ AttemptLimit[w] \in Nat
    BY FS_EmptySet, LimitAssumption
  <2>3. {row[e].attemptNumber : e \in Consumed(row, w, d)} = {}
    BY <2>1
  <2>4. 1 .. 0 = {}
    OBVIOUS
  <2> QED BY <2>1, <2>2, <2>3, <2>4
<1>4. ReceiptBacksOneStart
  BY SetAssumption DEF Init, NoRow, ReceiptBacksOneStart, InState
<1>5. ClaimsMatchPayouts
  BY SetAssumption DEF Init, NoRow, ClaimsMatchPayouts, Claimed
<1> QED BY <1>1, <1>2, <1>3, <1>4, <1>5 DEF Inv

\* Where no row is reserved or started, the attempts stay what they are.
LEMMA SameAttempts ==
  ASSUME TypeOK, Ready, AttemptsNumbered, Blank,
         \A x \in Entitlement :
           /\ Keeps(x)
           /\ row'[x].state \in {"none", "reserved"} => row'[x].state = row[x].state
           /\ row[x].state = "none" => row'[x] = row[x]
  PROVE  Ready' /\ AttemptsNumbered' /\ Blank'
<1>1. \A w, d : Consumed(row', w, d) = Consumed(row, w, d)
  BY DEF Consumed, OfWalletDay, Keeps
<1>2. Ready'
  BY <1>1 DEF Ready, InState, Keeps, NextAttempt
<1>3. AttemptsNumbered'
  <2> SUFFICES ASSUME NEW w \in Wallet, NEW d \in Day
               PROVE  LET C == Consumed(row, w, d)
                      IN /\ Cardinality(C) <= AttemptLimit[w]
                         /\ {row'[e].attemptNumber : e \in C} = 1 .. Cardinality(C)
    BY <1>1 DEF AttemptsNumbered
  <2>1. Consumed(row, w, d) \subseteq Entitlement
    BY DEF Consumed, OfWalletDay
  <2>2. {row'[e].attemptNumber : e \in Consumed(row, w, d)}
          = {row[e].attemptNumber : e \in Consumed(row, w, d)}
    BY <2>1 DEF Keeps
  <2> QED BY <2>2 DEF AttemptsNumbered
<1>4. Blank'
  BY DEF Blank, InState
<1> QED BY <1>2, <1>3, <1>4

\* Where no receipt and no reservation is touched, they stay backed.
LEMMA SameReceipts ==
  ASSUME ReceiptBacksOneStart, UNCHANGED receipts,
         \A x \in Entitlement :
           Keeps(x) /\ (row'[x].state = "reserved" => row[x].state = "reserved")
  PROVE  ReceiptBacksOneStart'
  BY DEF ReceiptBacksOneStart, InState, Keeps, ReceiptUsable

LEMMA SameClaims ==
  ASSUME ClaimsMatchPayouts, UNCHANGED claims,
         \A x \in Entitlement : row'[x].state \in Claimed <=> row[x].state \in Claimed
  PROVE  ClaimsMatchPayouts'
  BY DEF ClaimsMatchPayouts

-----------------------------------------------------------------------------
(* The steps that write these records                                      *)

LEMMA IssueKeeps ==
  ASSUME Inv, NEW r \in Receipt, NEW w \in Wallet, IssuePeiReceipt(r, w)
  PROVE  Ready' /\ AttemptsNumbered' /\ Blank' /\ ReceiptBacksOneStart' /\ ClaimsMatchPayouts'
<1> USE DEF Inv
<1>1. /\ UNCHANGED <<row, claims>> /\ receipts[r].wallet = None
      /\ receipts'[r].wallet = w /\ receipts'[r].consumedBy = receipts[r].consumedBy
      /\ \A q \in Receipt \ {r} : receipts'[q] = receipts[q]
  BY DEF IssuePeiReceipt, TypeOK
<1>2. Ready' /\ AttemptsNumbered' /\ Blank'
  BY <1>1, UnchangedRests, SameAttempts DEF Rests
<1>3. ReceiptBacksOneStart'
  <2>1. \A q \in Receipt : receipts'[q].consumedBy = receipts[q].consumedBy
    BY <1>1
  <2>2. \A e \in InState(row, {"reserved"}) : row[e].receipt # r
    BY <1>1, SetAssumption DEF ReceiptBacksOneStart, ReceiptUsable, Ready, InState
  <2>3. \A e \in InState(row, {"reserved"}) : row[e].receipt \in Receipt \cup {None}
    BY DEF TypeOK, Row, InState
  <2>4. \A e \in InState(row, {"reserved"}) : ReceiptUsable(e)'
    BY <1>1, <2>2, <2>3 DEF ReceiptBacksOneStart, ReceiptUsable
  <2> QED BY <1>1, <2>1, <2>4 DEF ReceiptBacksOneStart, InState
<1>4. ClaimsMatchPayouts'
  BY <1>1, SameClaims
<1> QED BY <1>2, <1>3, <1>4

LEMMA ClaimKeeps ==
  ASSUME Inv, NEW e \in Entitlement, NEW k \in IdempotencyKey, Claim(e, k)
  PROVE  Ready' /\ AttemptsNumbered' /\ Blank' /\ ReceiptBacksOneStart' /\ ClaimsMatchPayouts'
<1> USE DEF Inv
<1>1. /\ row[e].state = "claimable" /\ row'[e].state = "queued" /\ Keeps(e)
      /\ \A x \in Entitlement \ {e} : row'[x] = row[x]
      /\ claims[k] = None /\ claims'[k] = e
      /\ \A q \in IdempotencyKey \ {k} : claims'[q] = claims[q]
      /\ \A q \in IdempotencyKey : claims[q] # e
      /\ UNCHANGED receipts
  BY DEF Claim, Keeps, TypeOK, Row
<1>2. \A x \in Entitlement :
        /\ Keeps(x)
        /\ row'[x].state \in {"none", "reserved"} => row'[x].state = row[x].state
        /\ row[x].state = "none" => row'[x] = row[x]
  BY <1>1 DEF Keeps
<1>3. Ready' /\ AttemptsNumbered' /\ Blank'
  BY <1>2, SameAttempts
<1>4. ReceiptBacksOneStart'
  BY <1>1, <1>2, SameReceipts
<1>5. ClaimsMatchPayouts'
  <2>1. \A x \in Entitlement :
          row'[x].state \in Claimed <=> \E q \in IdempotencyKey : claims'[q] = x
    <3>1. ASSUME NEW x \in Entitlement \ {e}
          PROVE  row'[x].state \in Claimed <=> \E q \in IdempotencyKey : claims'[q] = x
      <4>1. \A q \in IdempotencyKey : claims'[q] = x <=> claims[q] = x
        BY <1>1, SetAssumption
      <4> QED BY <4>1, <1>1 DEF ClaimsMatchPayouts
    <3>2. row'[e].state \in Claimed /\ claims'[k] = e
      BY <1>1 DEF Claimed
    <3> QED BY <3>1, <3>2
  <2>2. \A p, q \in IdempotencyKey : claims'[p] = claims'[q] /\ claims'[p] # None => p = q
    BY <1>1 DEF ClaimsMatchPayouts
  <2> QED BY <2>1, <2>2 DEF ClaimsMatchPayouts
<1> QED BY <1>3, <1>4, <1>5

\* The new row takes the next number and the oldest receipt nobody holds.
LEMMA ReserveKeeps ==
  ASSUME Inv, NEW e \in Entitlement, NEW w \in Wallet, NEW r \in Receipt \cup {None},
         Reserve(e, w, r)
  PROVE  Ready' /\ AttemptsNumbered' /\ Blank' /\ ReceiptBacksOneStart' /\ ClaimsMatchPayouts'
<1> USE DEF Inv
<1> DEFINE T == Move(Due, "expired")
           d == DayOf[now]
<1>1. PICK n : n = [NoRow EXCEPT !.state = "reserved", !.wallet = w, !.day = d,
                      !.attemptNumber = NextAttempt(T, w, d),
                      !.token = TRUE, !.receipt = r,
                      !.reservationExpiresAt = now + ReservationTtl]
  OBVIOUS
<1>2. /\ n.state = "reserved" /\ n.wallet = w /\ n.day = d /\ ~n.attemptConsumed
      /\ n.attemptNumber = NextAttempt(T, w, d) /\ n.receipt = r
  <2> HIDE DEF T, d
  <2> QED BY <1>1 DEF NoRow
<1>3. Due \in SUBSET InState(row, {"reserved"}) /\ Due \in SUBSET Entitlement /\ d \in Day
  BY DayAssumption DEF Due, InState, TypeOK
<1>4. T \in [Entitlement -> Row]
  BY <1>3, MoveType DEF State, Released
<1>5. row' = [T EXCEPT ![e] = n] /\ row[e].state = "none" /\ UNCHANGED <<receipts, claims>>
  BY <1>1 DEF Reserve
<1>6. e \notin Due /\ row[e] = NoRow /\ T[e] = NoRow
  BY <1>3, <1>5 DEF Blank, InState, Move
<1>7. SelectReceipt(T, w, r)
  BY DEF Reserve
<1> HIDE DEF T
<1>8. row'[e] = n /\ \A x \in Entitlement \ {e} : row'[x] = T[x] /\ Rests(x)
  <2>1. row'[e] = n /\ \A x \in Entitlement \ {e} : row'[x] = T[x]
    BY <1>4, <1>5
  <2>2. \A x \in Entitlement : row'[x] = T[x] => Rests(x)
    BY <1>3, MoveRests DEF T
  <2> QED BY <2>1, <2>2
<1>9. \A v, c : /\ Consumed(row', v, c) = Consumed(row, v, c)
                /\ Consumed(T, v, c) = Consumed(row, v, c)
  <2>1. \A x \in Entitlement : /\ T[x].wallet = row[x].wallet /\ T[x].day = row[x].day
                               /\ T[x].attemptConsumed = row[x].attemptConsumed
    BY <1>6, <1>8 DEF Rests, Keeps
  <2>2. ~row'[e].attemptConsumed /\ ~row[e].attemptConsumed
    BY <1>2, <1>6, <1>8 DEF NoRow
  <2> QED BY <2>1, <2>2, <1>8 DEF Consumed, OfWalletDay
<1>10. Blank'
  BY <1>2, <1>8 DEF Blank, InState, Rests
<1>11. Ready'
  <2>1. \A x \in Entitlement \ {e} : row'[x].state = "reserved" =>
          /\ row'[x].wallet \in Wallet /\ row'[x].day \in Day /\ ~row'[x].attemptConsumed
          /\ row'[x].attemptNumber = NextAttempt(row', row'[x].wallet, row'[x].day)
    BY <1>8, <1>9 DEF Ready, InState, Rests, Keeps, NextAttempt
  <2>2. /\ row'[e].wallet \in Wallet /\ row'[e].day \in Day /\ ~row'[e].attemptConsumed
        /\ row'[e].attemptNumber = NextAttempt(row', row'[e].wallet, row'[e].day)
    BY <1>2, <1>3, <1>8, <1>9 DEF NextAttempt
  <2> QED BY <2>1, <2>2 DEF Ready, InState
<1>12. AttemptsNumbered'
  <2> SUFFICES ASSUME NEW v \in Wallet, NEW c \in Day
               PROVE  LET C == Consumed(row, v, c)
                      IN /\ Cardinality(C) <= AttemptLimit[v]
                         /\ {row'[x].attemptNumber : x \in C} = 1 .. Cardinality(C)
    BY <1>9 DEF AttemptsNumbered
  <2>1. Consumed(row, v, c) \subseteq Entitlement \ {e}
    BY <1>6 DEF Consumed, OfWalletDay, NoRow
  <2>2. {row'[x].attemptNumber : x \in Consumed(row, v, c)}
          = {row[x].attemptNumber : x \in Consumed(row, v, c)}
    BY <2>1, <1>8 DEF Rests, Keeps
  <2> QED BY <2>2 DEF AttemptsNumbered
<1>13. ReceiptBacksOneStart'
  <2>1. ASSUME r # None
        PROVE  /\ receipts[r].wallet = w /\ receipts[r].consumedBy = None
               /\ \A x \in Entitlement \ {e} : row'[x].state = "reserved" => row'[x].receipt # r
    <3>1. r \in AvailableReceipts(T, w)
      BY <2>1, <1>7 DEF SelectReceipt
    <3> QED BY <3>1, <1>8 DEF AvailableReceipts, InState
  <2>2. \A q \in Receipt, x \in Entitlement :
          receipts[q].consumedBy = x <=> row'[x].receipt = q /\ row'[x].attemptConsumed
    <3>1. \A x \in Entitlement \ {e} :
            row'[x].receipt = row[x].receipt /\ row'[x].attemptConsumed = row[x].attemptConsumed
      BY <1>8 DEF Rests, Keeps
    <3>2. ~row'[e].attemptConsumed /\ ~row[e].attemptConsumed
      BY <1>2, <1>6, <1>8 DEF NoRow
    <3> QED BY <3>1, <3>2 DEF ReceiptBacksOneStart
  <2>3. \A x \in Entitlement \ {e} : row'[x].state = "reserved" => ReceiptUsable(x)'
    BY <1>5, <1>8 DEF ReceiptBacksOneStart, ReceiptUsable, Rests, Keeps, InState
  <2>4. ReceiptUsable(e)'
    BY <2>1, <1>2, <1>5, <1>8 DEF ReceiptUsable
  <2>5. \A x, y \in Entitlement \ {e} :
          row'[x].state = "reserved" /\ row'[y].state = "reserved"
          /\ row'[x].receipt = row'[y].receipt /\ row'[x].receipt # None => x = y
    BY <1>8 DEF ReceiptBacksOneStart, Rests, Keeps, InState
  <2>6. \A x \in Entitlement \ {e} : row'[x].state = "reserved" /\ r # None =>
          row'[x].receipt # row'[e].receipt
    BY <2>1, <1>2, <1>8
  <2>7. row'[e].receipt = r
    BY <1>2, <1>8
  <2>8. \A x, y \in InState(row', {"reserved"}) :
          row'[x].receipt = row'[y].receipt /\ row'[x].receipt # None => x = y
    BY <2>5, <2>6, <2>7 DEF InState
  <2> QED BY <2>2, <2>3, <2>4, <2>8, <1>5 DEF ReceiptBacksOneStart, InState
<1>14. ClaimsMatchPayouts'
  <2>1. row'[e].state \notin Claimed /\ row[e].state \notin Claimed
    BY <1>2, <1>5, <1>8 DEF Claimed
  <2>2. \A x \in Entitlement : row'[x].state \in Claimed <=> row[x].state \in Claimed
    BY <2>1, <1>8 DEF Rests
  <2> QED BY <2>2, <1>5, SameClaims
<1> QED BY <1>10, <1>11, <1>12, <1>13, <1>14

\* The attempt that starts is the only open one of its wallet and day, so
\* its number is the next one still.
LEMMA StartKeeps ==
  ASSUME Inv, NEW e \in Entitlement, Start(e)
  PROVE  Ready' /\ AttemptsNumbered' /\ Blank' /\ ReceiptBacksOneStart' /\ ClaimsMatchPayouts'
<1> USE DEF Inv
<1> DEFINE w == row[e].wallet
           d == row[e].day
           r == row[e].receipt
           C == Consumed(row, w, d)
<1>1. /\ row[e].state = "reserved" /\ w \in Wallet /\ d \in Day /\ ~row[e].attemptConsumed
      /\ row[e].attemptNumber = Cardinality(C) + 1
      /\ ReceiptUsable(e) /\ r \in Receipt \cup {None}
  BY DEF Start, Ready, InState, NextAttempt, TypeOK, Row
<1>2. /\ row'[e].state = "in_progress" /\ row'[e].attemptConsumed = TRUE
      /\ row'[e].wallet = w /\ row'[e].day = d /\ row'[e].receipt = r
      /\ row'[e].attemptNumber = row[e].attemptNumber
      /\ \A x \in Entitlement \ {e} : row'[x] = row[x]
      /\ UNCHANGED claims
  BY DEF Start, TypeOK, Row
<1>3. \A q \in Receipt :
        /\ receipts'[q].wallet = receipts[q].wallet
        /\ receipts'[q].consumedBy = IF q = r THEN e ELSE receipts[q].consumedBy
  BY DEF Start, TypeOK
<1>4. C \ {e} = C /\ C \in SUBSET Entitlement /\ e \notin C
  BY <1>1 DEF Consumed, OfWalletDay
<1>5. Cardinality(C) < AttemptLimit[w]
  BY <1>4 DEF Start
<1>6. /\ Consumed(row', w, d) = C \cup {e}
      /\ \A v, c : v # w \/ c # d => Consumed(row', v, c) = Consumed(row, v, c)
  BY <1>1, <1>2 DEF Consumed, OfWalletDay
<1>7. /\ IsFiniteSet(C) /\ Cardinality(C) \in Nat
      /\ Cardinality(C \cup {e}) = Cardinality(C) + 1
  BY <1>4, Countable, FS_AddElement
<1> HIDE DEF C
<1>8. Blank'
  BY <1>2 DEF Blank, InState
<1>9. Ready'
  <2> SUFFICES ASSUME NEW x \in Entitlement, row'[x].state = "reserved"
               PROVE  /\ row'[x].wallet \in Wallet /\ row'[x].day \in Day /\ ~row'[x].attemptConsumed
                      /\ row'[x].attemptNumber = NextAttempt(row', row'[x].wallet, row'[x].day)
    BY DEF Ready, InState
  <2>1. x # e /\ row'[x] = row[x]
    BY <1>2
  <2>2. row[x].wallet # w \/ row[x].day # d
    BY <2>1, <1>1 DEF OneOpenAttempt, InState
  <2> QED BY <2>1, <2>2, <1>6 DEF Ready, InState, NextAttempt
<1>10. AttemptsNumbered'
  <2>1. ASSUME NEW v \in Wallet, NEW c \in Day, v # w \/ c # d
        PROVE  LET D == Consumed(row, v, c)
               IN /\ Cardinality(D) <= AttemptLimit[v]
                  /\ {row'[x].attemptNumber : x \in D} = 1 .. Cardinality(D)
    <3>1. Consumed(row, v, c) \subseteq Entitlement \ {e}
      BY <2>1 DEF Consumed, OfWalletDay
    <3>2. {row'[x].attemptNumber : x \in Consumed(row, v, c)}
            = {row[x].attemptNumber : x \in Consumed(row, v, c)}
      BY <3>1, <1>2
    <3> QED BY <3>2 DEF AttemptsNumbered
  <2>2. /\ Cardinality(C \cup {e}) <= AttemptLimit[w]
        /\ {row'[x].attemptNumber : x \in C \cup {e}} = 1 .. Cardinality(C \cup {e})
    <3>1. Cardinality(C) + 1 <= AttemptLimit[w]
      BY <1>1, <1>5, <1>7, LimitAssumption
    <3>2. {row[x].attemptNumber : x \in C} = 1 .. Cardinality(C)
      BY <1>1 DEF AttemptsNumbered, C
    <3>3. {row'[x].attemptNumber : x \in C \cup {e}}
            = {row[x].attemptNumber : x \in C} \cup {Cardinality(C) + 1}
      BY <1>1, <1>2, <1>4
    <3>4. 1 .. (Cardinality(C) + 1) = (1 .. Cardinality(C)) \cup {Cardinality(C) + 1}
      BY <1>7
    <3> QED BY <3>1, <3>2, <3>3, <3>4, <1>7
  <2>3. ASSUME NEW v \in Wallet, NEW c \in Day
        PROVE  LET D == Consumed(row', v, c)
               IN /\ Cardinality(D) <= AttemptLimit[v]
                  /\ {row'[x].attemptNumber : x \in D} = 1 .. Cardinality(D)
    <3>1. CASE v # w \/ c # d
      <4>1. Consumed(row', v, c) = Consumed(row, v, c)
        BY <3>1, <1>6
      <4> QED BY <4>1, <3>1, <2>1
    <3>2. CASE v = w /\ c = d
      <4>1. Consumed(row', v, c) = C \cup {e}
        BY <3>2, <1>6
      <4> QED BY <4>1, <3>2, <2>2
    <3> QED BY <3>1, <3>2
  <2> QED BY <2>3 DEF AttemptsNumbered
<1>11. ReceiptBacksOneStart'
  <2>1. ASSUME NEW q \in Receipt, NEW x \in Entitlement
        PROVE  receipts'[q].consumedBy = x <=> row'[x].receipt = q /\ row'[x].attemptConsumed
    <3>1. CASE q = r
      <4>1. receipts[q].consumedBy = None
        BY <3>1, <1>1, SetAssumption DEF ReceiptUsable
      <4> QED BY <3>1, <4>1, <1>2, <1>3, SetAssumption DEF ReceiptBacksOneStart
    <3>2. CASE q # r
      BY <3>2, <1>1, <1>2, <1>3 DEF ReceiptBacksOneStart
    <3> QED BY <3>1, <3>2
  <2>2. ASSUME NEW x \in Entitlement, row'[x].state = "reserved" PROVE ReceiptUsable(x)'
    <3>1. x # e /\ row'[x] = row[x] /\ row[x].receipt \in Receipt \cup {None}
      BY <2>2, <1>2 DEF TypeOK, Row
    <3>2. row[x].receipt # None => row[x].receipt # r
      BY <3>1, <2>2, <1>1 DEF ReceiptBacksOneStart, InState
    <3> QED BY <3>1, <3>2, <2>2, <1>3 DEF ReceiptBacksOneStart, ReceiptUsable, InState
  <2>3. \A x, y \in InState(row', {"reserved"}) :
          row'[x].receipt = row'[y].receipt /\ row'[x].receipt # None => x = y
    BY <1>2 DEF ReceiptBacksOneStart, InState
  <2> QED BY <2>1, <2>2, <2>3 DEF ReceiptBacksOneStart, InState
<1>12. ClaimsMatchPayouts'
  <2>1. \A x \in Entitlement : row'[x].state \in Claimed <=> row[x].state \in Claimed
    BY <1>1, <1>2 DEF Claimed
  <2> QED BY <2>1, <1>2, SameClaims
<1> QED BY <1>8, <1>9, <1>10, <1>11, <1>12

-----------------------------------------------------------------------------
LEMMA StepKeeps ==
  ASSUME Inv, [Next]_vars
  PROVE  Inv'
<1>1. TypeOK' /\ OneOpenAttempt'
  BY TypeStep, OneOpenStep DEF Inv
<1>2. CASE Routine
  <2>1. Ready' /\ AttemptsNumbered' /\ Blank'
    BY <1>2, SameAttempts DEF Inv, Routine, Rests
  <2>2. ReceiptBacksOneStart' /\ ClaimsMatchPayouts'
    BY <1>2, SameReceipts, SameClaims DEF Inv, Routine, Rests
  <2> QED BY <1>1, <2>1, <2>2 DEF Inv
<1>3. CASE ~Routine
  BY <1>1, <1>3, Steps, IssueKeeps, ReserveKeeps, StartKeeps, ClaimKeeps DEF Inv
<1> QED BY <1>2, <1>3

LEMMA InvHolds == Spec => []Inv
BY Starts, StepKeeps, PTL DEF Spec

\* The started attempts of a wallet and day carry the numbers 1 to k, within
\* its limit, however reservations, cancels, sweeps and starts interleave.
THEOREM NumbersHaveNoGap == Spec => []AttemptsNumbered
<1>1. Inv => AttemptsNumbered
  BY DEF Inv
<1> QED BY <1>1, InvHolds, PTL

\* A PEI receipt is consumed by exactly the attempt it admitted.
THEOREM ReceiptsBackStarts == Spec => []ReceiptBacksOneStart
<1>1. Inv => ReceiptBacksOneStart
  BY DEF Inv
<1> QED BY <1>1, InvHolds, PTL

\* A reward is queued for payment by one claim, and no claim is without one.
THEOREM ClaimsAreBound == Spec => []ClaimsMatchPayouts
<1>1. Inv => ClaimsMatchPayouts
  BY DEF Inv
<1> QED BY <1>1, InvHolds, PTL

-----------------------------------------------------------------------------
(* RewardLedger implements PrizeLoom, for every value of the constants:    *)
(* each step of the ledger is a step of the Prize Loom or changes nothing  *)
(* the Prize Loom can see.                                                 *)

phase == [e \in Entitlement |-> PhaseOf(row[e].state)]
day   == [e \in Entitlement |-> row[e].day]

LEMMA Phases ==
  ASSUME NEW s \in State \cup {"none"}
  PROVE  /\ PhaseOf(s) \in {"held", "owed", "paid"} <=> s \in Live
         /\ PhaseOf(s) = "free" <=> s = "none"
         /\ PhaseOf(s) = "held" <=> s \in {"reserved", "in_progress"}
         /\ PhaseOf(s) = "owed" <=> s \in Liability \ {"finalized"}
         /\ PhaseOf(s) = "paid" <=> s = "finalized"
         /\ PhaseOf(s) = "returned" <=> s \in Released
BY DEF PhaseOf, State, Live, Released, Liability, Claimed

LEMMA PhaseValues ==
  /\ PhaseOf("none") = "free" /\ PhaseOf("expired") = "returned"
  /\ PhaseOf("reserved") = "held" /\ PhaseOf("in_progress") = "held"
  /\ PhaseOf("claimable") = "owed" /\ PhaseOf("queued") = "owed"
  /\ PhaseOf("included") = "owed" /\ PhaseOf("finalized") = "paid"
<1>1. {"none", "expired", "reserved", "in_progress", "claimable", "queued",
       "included", "finalized"} \subseteq State \cup {"none"}
  BY DEF State, Live, Released, Liability, Claimed
<1> QED  BY <1>1, Phases DEF Released, Liability, Claimed

\* Every row has a known state and the mapped variables read it.
LEMMA Mapped ==
  ASSUME TypeOK, NEW e \in Entitlement
  PROVE  /\ row[e].state \in State \cup {"none"}
         /\ phase[e] = PhaseOf(row[e].state) /\ day[e] = row[e].day
BY DEF TypeOK, Row, phase, day

\* Days only change for a row that is being reserved.
LEMMA DaysKept ==
  ASSUME TypeOK, [Next]_vars,
         \A e \in Entitlement : row[e].state = "none" => row'[e] = row[e]
  PROVE  day' = day
<1>1. \A e \in Entitlement : row'[e].day = row[e].day
  BY RowSteps DEF RowStep
<1> QED  BY <1>1 DEF day

\* A step that moves no row to another phase is invisible.
LEMMA Stutters ==
  ASSUME \A e \in Entitlement : /\ PhaseOf(row'[e].state) = PhaseOf(row[e].state)
                                /\ row'[e].day = row[e].day
  PROVE  UNCHANGED Loom!loom
BY DEF Loom!loom

\* Closing held rows is a Return.
LEMMA Returns ==
  ASSUME TypeOK, NEW E \in SUBSET InState(row, {"reserved", "in_progress"}),
         \A e \in E : row'[e].state \in Released,
         \A e \in Entitlement \ E : row'[e] = row[e],
         \A e \in Entitlement : row'[e].day = row[e].day
  PROVE  Loom!LoomNext
<1>1. E \in SUBSET Loom!Held
  BY Phases, Mapped DEF InState, Loom!Held, phase
<1>2. \A e \in E : PhaseOf(row'[e].state) = "returned"
  BY Phases DEF InState, State
<1>3. Loom!Return(E)
  BY <1>2 DEF Loom!Return, Loom!After
<1> QED  BY <1>1, <1>3 DEF Loom!LoomNext

LEMMA LoomInitially == Init => Loom!LoomInit
BY PhaseValues DEF Init, NoRow, Loom!LoomInit

LEMMA ReserveHolds ==
  ASSUME TypeOK, BudgetConserved,
         NEW e \in Entitlement, NEW w \in Wallet, NEW r \in Receipt \cup {None},
         Reserve(e, w, r)
  PROVE  Loom!LoomNext
<1> DEFINE c == DayOf[now]
           T == Move(Due, "expired")
           n == [NoRow EXCEPT !.state = "reserved", !.wallet = w, !.day = c,
                   !.attemptNumber = NextAttempt(T, w, c),
                   !.token = TRUE, !.receipt = r,
                   !.reservationExpiresAt = now + ReservationTtl]
<1>1. Due \in SUBSET InState(row, Live) /\ Due \in SUBSET Entitlement
  BY DEF Due, InState, Live
<1>2. T \in [Entitlement -> Row]  BY MoveType, <1>1 DEF State, Released
<1>3. c \in Day  BY DayAssumption DEF TypeOK
<1>4. row' = [T EXCEPT ![e] = n] /\ row[e].state = "none" /\ Affordable(GiveBack(Due), c)
  BY DEF Reserve
<1>5. n.state = "reserved" /\ n.day = c  BY DEF NoRow
<1>6. ASSUME NEW x \in Entitlement
      PROVE  /\ row'[x].state = IF x = e THEN "reserved"
                                ELSE IF x \in Due THEN "expired" ELSE row[x].state
             /\ row'[x].day = IF x = e THEN c ELSE row[x].day
  <2>1. CASE x = e
    <3> HIDE DEF T, n, c
    <3> QED  BY <1>2, <1>4, <1>5, <2>1
  <2>2. CASE x # e
    <3>1. row'[x] = T[x]
      <4> HIDE DEF T, n
      <4> QED  BY <1>2, <1>4, <2>2
    <3> HIDE DEF n
    <3> QED  BY <2>2, <3>1 DEF Move, TypeOK, Row
  <2> QED  BY <2>1, <2>2
<1>7. Due \in SUBSET Loom!Held
  BY Phases, Mapped DEF Due, InState, Loom!Held, phase
<1>8. PhaseOf(row[e].state) = "free" /\ e \notin Due
  BY <1>4, PhaseValues DEF Due, InState
<1>9. PICK R \in SUBSET Loom!Held, d \in Day : R = Due /\ d = c
  BY <1>3, <1>7
<1>10. Loom!Out(d, R) = OfDay(InState(row, Live) \ R, d)
  BY <1>1, <1>9, Phases, Mapped DEF Loom!Out, OfDay, InState, phase
<1>11. RewardLuna * (Loom!Cardinality(Loom!Out(d, R)) + 1) <= DailyBudgetLuna
  <2> DEFINE S == OfDay(InState(row, Live) \ R, d)
  <2>1. S \in SUBSET Entitlement  BY DEF OfDay, InState
  <2>2. Cardinality(S) \in Nat  BY <2>1, Countable
  <2>3. GiveBack(R)[d] = RewardLuna * Cardinality(S)  BY <1>1, <1>9, Remaining
  <2>4. RewardLuna * (Cardinality(S) + 1) = RewardLuna * Cardinality(S) + RewardLuna
    BY <2>2, LunaAssumption, Distribution
  <2>5. GiveBack(R)[d] + RewardLuna <= DailyBudgetLuna
    <3>1. GiveBack(R) = GiveBack(Due)  BY <1>9 DEF GiveBack
    <3> QED  BY <1>4, <1>9, <3>1 DEF Affordable
  <2>6. Loom!Cardinality(Loom!Out(d, R)) = Cardinality(Loom!Out(d, R))
    BY DEF Loom!Cardinality, Cardinality
  <2> HIDE DEF S
  <2>7. RewardLuna * (Cardinality(S) + 1) <= DailyBudgetLuna  BY <2>3, <2>4, <2>5
  <2> QED  BY <1>10, <2>6, <2>7 DEF S
<1> HIDE DEF T, n, c
<1>12. [x \in Entitlement |-> PhaseOf(row'[x].state)]
         = [Loom!After(R) EXCEPT ![e] = "held"]
  BY <1>6, <1>8, <1>9, PhaseValues DEF Loom!After
<1>13. [x \in Entitlement |-> row'[x].day]
         = [[x \in Entitlement |-> row[x].day] EXCEPT ![e] = d]
  BY <1>6, <1>9
<1>14. Loom!Hold(e, d, R)
  <2>1. phase[e] = "free"  BY <1>8 DEF phase
  <2>2. phase' = [Loom!After(R) EXCEPT ![e] = "held"]  BY <1>12 DEF phase
  <2>3. day' = [day EXCEPT ![e] = d]  BY <1>13 DEF day
  <2> QED  BY <1>11, <2>1, <2>2, <2>3 DEF Loom!Hold, phase, day
<1>15. \E S \in SUBSET Loom!Held, p \in Entitlement, q \in Day : Loom!Hold(p, q, S)
  BY <1>14
<1> QED  BY <1>15 DEF Loom!LoomNext

LEMMA LoomStep ==
  TypeOK /\ BudgetConserved /\ [Next]_vars => [Loom!LoomNext]_(Loom!loom)
<1> SUFFICES ASSUME TypeOK, BudgetConserved, [Next]_vars
             PROVE  Loom!LoomNext \/ UNCHANGED Loom!loom
  OBVIOUS
<1>0. ASSUME row' = row PROVE UNCHANGED Loom!loom
  BY <1>0, Stutters
<1>1. ASSUME NEW r \in Receipt, NEW w \in Wallet, IssuePeiReceipt(r, w)
      PROVE  UNCHANGED Loom!loom
  BY <1>0, <1>1 DEF IssuePeiReceipt
<1>2. ASSUME NEW e \in Entitlement, NEW w \in Wallet, NEW r \in Receipt \cup {None},
             Reserve(e, w, r)
      PROVE  Loom!LoomNext
  BY <1>2, ReserveHolds
\* A single row that stays within one phase.
<1>3. ASSUME NEW e \in Entitlement,
             \A x \in Entitlement \ {e} : row'[x] = row[x],
             PhaseOf(row'[e].state) = PhaseOf(row[e].state), row'[e].day = row[e].day
      PROVE  UNCHANGED Loom!loom
  BY <1>3, Stutters
\* A single row that changes its phase.
<1>4. ASSUME NEW e \in Entitlement, row'[e].day = row[e].day,
             \A x \in Entitlement \ {e} : row'[x] = row[x],
             \/ PhaseOf(row[e].state) = "held" /\ PhaseOf(row'[e].state) = "owed"
             \/ PhaseOf(row[e].state) = "owed" /\ PhaseOf(row'[e].state) = "paid"
      PROVE  Loom!LoomNext
  <2>1. Loom!Owe(e) \/ Loom!Pay(e)
    BY <1>4 DEF Loom!Owe, Loom!Pay
  <2> QED  BY <2>1 DEF Loom!LoomNext
<1>5. ASSUME NEW e \in Entitlement, Start(e) PROVE UNCHANGED Loom!loom
  <2>1. /\ row'[e].state = "in_progress" /\ row[e].state = "reserved"
        /\ row'[e].day = row[e].day
        /\ \A x \in Entitlement \ {e} : row'[x] = row[x]
    BY <1>5 DEF Start, TypeOK, Row
  <2>2. PhaseOf("in_progress") = PhaseOf("reserved")  BY DEF PhaseOf
  <2> QED  BY <1>3, <2>1, <2>2
<1>6. ASSUME NEW E \in SUBSET InState(row, {"reserved"}), NEW s \in {"expired", "cancelled"},
             row' = Move(E, s)
      PROVE  Loom!LoomNext
  <2>1. \A x \in Entitlement : row'[x].day = row[x].day
    BY <1>6, MoveReleases DEF Released, InState
  <2>2. /\ \A x \in E : row'[x].state \in Released
        /\ \A x \in Entitlement \ E : row'[x] = row[x]
    BY <1>6 DEF Move, InState, TypeOK, Row, Released
  <2> QED  BY <2>1, <2>2, Returns DEF InState
<1>7. ASSUME NEW e \in Entitlement, CancelReserved(e) PROVE Loom!LoomNext
  BY <1>6, <1>7 DEF CancelReserved, InState
<1>8. ASSUME ExpireReservations PROVE Loom!LoomNext
  BY <1>6, <1>8 DEF ExpireReservations, Due, InState
<1>9. ASSUME NEW e \in Entitlement, NEW o \in Outcome, CompleteMatch(e, o)
      PROVE  Loom!LoomNext
  <2>1. /\ row[e].state = "in_progress" /\ row'[e].state = ResultState(o)
        /\ \A x \in Entitlement : row'[x].day = row[x].day
        /\ \A x \in Entitlement \ {e} : row'[x] = row[x]
    BY <1>9 DEF CompleteMatch, TypeOK, Row
  <2>2. CASE o = "player_win"
    <3>1. PhaseOf(row[e].state) = "held" /\ PhaseOf(row'[e].state) = "owed"
      BY <2>1, <2>2, PhaseValues DEF ResultState
    <3> QED  BY <1>4, <2>1, <3>1
  <2>3. CASE o # "player_win"
    <3>1. ResultState(o) \in Released
      BY <2>3 DEF ResultState, Outcome, Released
    <3>2. {e} \in SUBSET InState(row, {"reserved", "in_progress"})
      BY <2>1 DEF InState
    <3> QED  BY <2>1, <3>1, <3>2, Returns
  <2> QED  BY <2>2, <2>3
<1>10. ASSUME NEW e \in Entitlement, RotateClaimNonce(e) PROVE UNCHANGED Loom!loom
  <2>1. /\ row'[e].state = row[e].state /\ row'[e].day = row[e].day
        /\ \A x \in Entitlement \ {e} : row'[x] = row[x]
    BY <1>10 DEF RotateClaimNonce, TypeOK, Row
  <2> QED  BY <1>3, <2>1
<1>11. ASSUME NEW s \in Liability \ {"finalized"}, NEW t \in Liability \ {"finalized"}
       PROVE  PhaseOf(s) = PhaseOf(t)
  <2>1. s \in State \cup {"none"} /\ t \in State \cup {"none"}
    BY DEF State, Live, Liability
  <2> QED  BY <2>1, Phases
<1>12. ASSUME NEW e \in Entitlement, NEW k \in IdempotencyKey, Claim(e, k)
       PROVE  UNCHANGED Loom!loom
  <2>1. /\ row[e].state = "claimable" /\ row'[e].state = "queued"
        /\ row'[e].day = row[e].day
        /\ \A x \in Entitlement \ {e} : row'[x] = row[x]
    BY <1>12 DEF Claim, TypeOK, Row
  <2>2. PhaseOf("claimable") = PhaseOf("queued")  BY <1>11 DEF Liability, Claimed
  <2> QED  BY <1>3, <2>1, <2>2
<1>13. ASSUME NEW e \in Entitlement, NEW S \in SUBSET (Claimed \ {"finalized"}),
              NEW s \in Claimed \ {"finalized"}, Transition(e, S, s)
       PROVE  UNCHANGED Loom!loom
  <2>1. /\ row[e].state \in S /\ row'[e].state = s /\ row'[e].day = row[e].day
        /\ \A x \in Entitlement \ {e} : row'[x] = row[x]
    BY <1>13 DEF Transition, TypeOK, Row
  <2>2. PhaseOf(row[e].state) = PhaseOf(s)  BY <1>11, <2>1 DEF Liability
  <2> QED  BY <1>3, <2>1, <2>2
<1>14. ASSUME NEW e \in Entitlement,
              \/ MarkSigned(e) \/ MarkBroadcastUnknown(e) \/ MarkIncluded(e)
              \/ MarkManualReview(e)
       PROVE  UNCHANGED Loom!loom
  BY <1>13, <1>14 DEF MarkSigned, MarkBroadcastUnknown, MarkIncluded,
                      MarkManualReview, Claimed
<1>15. ASSUME NEW e \in Entitlement, row[e].state = "included", MarkFinalized(e)
       PROVE  Loom!LoomNext
  <2>1. /\ row'[e].state = "finalized" /\ row'[e].day = row[e].day
        /\ \A x \in Entitlement \ {e} : row'[x] = row[x]
    BY <1>15 DEF MarkFinalized, Transition, TypeOK, Row
  <2> QED  BY <1>4, <1>15, <2>1, PhaseValues
<1>16. ASSUME NEW p \in BOOLEAN, Restart(p) PROVE Loom!LoomNext
  <2>1. /\ \A x \in Interrupted : row'[x].state = "forfeited"
        /\ \A x \in Entitlement \ Interrupted : row'[x] = row[x]
        /\ \A x \in Entitlement : row'[x].day = row[x].day
    BY <1>16 DEF Restart, Interrupted, InState, TypeOK, Row
  <2>2. Interrupted \in SUBSET InState(row, {"reserved", "in_progress"})
    BY DEF Interrupted, InState
  <2> QED  BY <2>1, <2>2, Returns DEF Released
<1>17. CASE Tick  BY <1>0, <1>17 DEF Tick
<1>18. CASE UNCHANGED vars  BY <1>0, <1>18 DEF vars
<1> QED
  BY <1>1, <1>2, <1>5, <1>7, <1>8, <1>9, <1>10, <1>12, <1>14, <1>15, <1>16, <1>17, <1>18
     DEF Next

\* The ledger implements the Prize Loom.
THEOREM LedgerImplementsLoom == Spec => KeepsPrizeLoom
BY LoomInitially, LoomStep, LedgerTyped, BudgetHolds, PTL
   DEF Spec, KeepsPrizeLoom, Loom!LoomSpec

=============================================================================
