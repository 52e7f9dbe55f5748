------------------------- MODULE PeiJourney_proofs -------------------------
(***************************************************************************)
(* For any wallets, calls and bounds: a receipt stands for two final       *)
(* transfers, a return is good for one receipt, and the return a player    *)
(* was asked for is the one the server keeps.                              *)
(*                                                                         *)
(* Three facts carry the argument.  A row never loses or changes the pair  *)
(* it has accepted while its journey lasts, because its first insertion    *)
(* is alone with the journey (InsertAlone).  What a call has verified      *)
(* stays verified while it waits, because only what is final counts        *)
(* (CallEvidence).  And a spend request has one journey and one parent     *)
(* wherever it is held (RowsPaired, CallTyped).                            *)
(***************************************************************************)
EXTENDS PeiJourney, FiniteSetTheorems, TLAPS

Began == [wallet: Wallet, issued: Time]
RowRecord == [earn: Tx \cup {None}, spend: SpendRequest \cup {None}]
Transaction == [journey: Journey, spend: SpendRequest \cup {None},
                wallet: Wallet, state: TxState]
CallRecord == [pc: Pc, wallet: Wallet \cup {None}, journey: Journey \cup {None},
               earn: Tx \cup {None}, spend: SpendRequest \cup {None},
               return: Tx \cup {None}]

Typed ==
  /\ now \in Time /\ nonces \in 0 .. MaxSpend
  /\ began \in [Journey -> Began \cup {None}]
  /\ row \in [Journey -> RowRecord \cup {None}]
  /\ chain \in [Tx -> Transaction \cup {None}]
  /\ call \in [Call -> CallRecord]
  /\ launched \subseteq Journey /\ asked \subseteq SpendRequest
  /\ receipts \subseteq Receipt /\ IsFiniteSet(receipts)

\* A spend request for journey j with parent t.
Pairs(s, j, t) == s \in SpendRequest /\ s.journey = j /\ s.parent = t

\* A row is of a journey that began; what it accepted is a pair.
RowsPaired ==
  \A j \in Journey : row[j] # None =>
    /\ began[j] # None
    /\ row[j].earn = None <=> row[j].spend = None
    /\ row[j].spend # None => Pairs(row[j].spend, j, row[j].earn)

\* Nobody has been asked for anything, or given a receipt, but by a journey
\* that began, and nobody pays what was not asked for.
AskedFirst ==
  /\ \A j \in launched : began[j] # None
  /\ \A s \in asked : began[s.journey] # None
  /\ \A r \in receipts : began[r.journey] # None
  /\ \A t \in Tx : chain[t] # None /\ chain[t].spend # None => chain[t].spend \in asked

\* A call works for the wallet of its journey, with the pair it was given.
CallTyped(c) ==
  /\ c.pc # "idle" => /\ c.journey \in Journey /\ c.wallet \in Wallet
                      /\ began[c.journey] # None
                      /\ began[c.journey].wallet = c.wallet
  /\ c.pc = "check_earn" => c.earn \in Tx /\ (c.spend # None => c.spend.journey = c.journey)
  /\ c.pc = "store_earn" => c.earn \in Tx /\ Pairs(c.spend, c.journey, c.earn)
  /\ c.pc \in {"check_first", "check_return", "issue"} =>
       c.earn \in Tx /\ c.return \in Tx /\ Pairs(c.spend, c.journey, c.earn)

\* What a call has verified is still so.
CallEvidence(c) ==
  /\ c.pc \in {"check_return", "issue"} => Verified(c.earn, c.journey, None, c.wallet)
  /\ c.pc = "issue" => Verified(c.return, c.journey, c.spend, c.wallet)

\* The stored pair is the one of spend request s, until its journey expires.
Honoured(s) ==
  now < Expires(s.journey) => row[s.journey] = [earn |-> s.parent, spend |-> s]

\* A call that is about to insert its row is alone with its journey.
InsertAlone ==
  \A k \in Call : call[k].pc = "insert" =>
    /\ call[k].journey \notin launched /\ row[call[k].journey] = None
    /\ \A s \in asked : s.journey # call[k].journey
    /\ \A l \in Call \ {k} : call[l].pc # "idle" => call[l].journey # call[k].journey

\* The spend request an acceptance found in the row is still there.
FoundKept ==
  \A k \in Call : call[k].pc = "check_earn" /\ call[k].spend # None => Honoured(call[k].spend)

Inv ==
  /\ Typed /\ RowsPaired /\ AskedFirst
  /\ \A k \in Call : CallTyped(call[k]) /\ CallEvidence(call[k])
  /\ InsertAlone /\ FoundKept
  /\ ReturnIsHonoured /\ ReceiptIsEarned /\ OneReceiptPerReturn

-----------------------------------------------------------------------------
\* Nothing that is there is None.
LEMMA NoneIsNothing ==
  /\ None \notin Tx /\ None \notin Journey /\ None \notin Wallet
  /\ None \notin SpendRequest /\ None \notin Began /\ None \notin Transaction
  BY JourneyAssumption, NoneAssumption DEF Tx, Journey, Began, Transaction

\* The invariant's types are those of the model.
LEMMA TypeFollows == Inv => TypeOK
<1>1. ASSUME Inv, NEW j \in Journey, row[j] # None PROVE RowOK(row[j])
  BY <1>1, NoneIsNothing DEF Inv, Typed, RowsPaired, RowRecord, RowOK
<1>2. ASSUME Inv, NEW t \in Tx, chain[t] # None PROVE TransactionOK(chain[t])
  BY <1>2 DEF Inv, Typed, AskedFirst, Transaction, TransactionOK
<1>3. ASSUME Inv, NEW k \in Call
      PROVE  call[k].pc \in Pc /\ (call[k].pc # "idle" =>
               call[k].wallet \in Wallet /\ call[k].journey \in Journey)
  BY <1>3 DEF Inv, Typed, CallRecord, CallTyped
<1> QED BY <1>1, <1>2, <1>3 DEF Inv, Typed, RowsPaired, Began, TypeOK

LEMMA Starts == Init => Inv
<1> SUFFICES ASSUME Init PROVE Inv
  OBVIOUS
<1>1. Typed
  BY JourneyAssumption, FS_EmptySet DEF Init, Typed, CallRecord, Idle, Pc, Time
<1>2. \A k \in Call : CallTyped(call[k]) /\ CallEvidence(call[k])
  BY DEF Init, Idle, CallTyped, CallEvidence
<1>3. RowsPaired /\ AskedFirst /\ InsertAlone /\ FoundKept
  BY DEF Init, Idle, RowsPaired, AskedFirst, InsertAlone, FoundKept
<1>4. ReturnIsHonoured /\ ReceiptIsEarned /\ OneReceiptPerReturn
  BY DEF Init, ReturnIsHonoured, ReceiptIsEarned, OneReceiptPerReturn
<1> QED BY <1>1, <1>2, <1>3, <1>4 DEF Inv

-----------------------------------------------------------------------------
(* begin                                                                   *)

LEMMA BeginKeeps ==
  ASSUME Inv, NEW k \in Call, NEW w \in Wallet, NEW j \in Journey, Begin(k, w, j)
  PROVE  Inv'
<1> USE NoneIsNothing DEF Inv
<1>1. Typed'
  BY DEF Typed, Begin, At, Began, CallRecord, Idle, Pc, chainVars
<1>2. \A i \in Journey : began[i] # None => began'[i] = began[i] /\ i # j
  BY DEF Begin, Typed
<1>3. /\ now' = now /\ chain' = chain /\ launched' = launched /\ asked' = asked
      /\ receipts' = receipts
      /\ began'[j] # None /\ began'[j].wallet = w
      /\ \A i \in Journey : row'[i] \in {None, row[i]}
      /\ \A l \in Call \ {k} : call'[l] = call[l]
      /\ call'[k].pc = "insert" /\ call'[k].journey = j /\ call'[k].wallet = w
  BY DEF Begin, Typed, chainVars, Began
<1>4. RowsPaired'
  BY <1>2, <1>3 DEF RowsPaired, Pairs
<1>5. AskedFirst'
  BY <1>2, <1>3 DEF AskedFirst, Typed, SpendRequest, Receipt
<1>6. \A l \in Call : CallTyped(call[l])' /\ CallEvidence(call[l])'
  BY <1>2, <1>3 DEF CallTyped, CallEvidence, Verified, Pairs
<1>7. InsertAlone'
  <2>1. /\ j \notin launched /\ row[j] = None /\ \A s \in asked : s.journey # j
        /\ \A l \in Call : call[l].pc # "idle" => call[l].journey # j
    BY DEF Begin, AskedFirst, RowsPaired, CallTyped
  <2>2. row'[j] = None
    BY <2>1, <1>3
  <2>3. \A l \in Call \ {k} : call[l].pc = "insert" =>
          row'[call[l].journey] = None /\ call[l].journey # j
    BY <2>1, <1>3 DEF InsertAlone, CallTyped
  <2> QED BY <2>1, <2>2, <2>3, <1>3 DEF InsertAlone
<1>8. ASSUME NEW s \in SpendRequest, Honoured(s), began[s.journey] # None
      PROVE  Honoured(s)'
  <2>1. s.journey \in Journey /\ began'[s.journey] = began[s.journey]
    BY <1>2, <1>8 DEF SpendRequest
  <2>2. SUFFICES ASSUME now < Expires(s.journey)
                 PROVE  row'[s.journey] = row[s.journey]
    BY <2>1, <1>3, <1>8 DEF Honoured, Expires
  <2>3. now \in Int /\ Expires(s.journey) \in Int
    BY <2>1, <1>8, JourneyAssumption DEF Typed, Began, Expires, Time
  <2> QED BY <2>1, <2>2, <2>3 DEF Begin, Expired
<1>9. FoundKept'
  <2> SUFFICES ASSUME NEW l \in Call, call'[l].pc = "check_earn", call'[l].spend # None
               PROVE  Honoured(call[l].spend)'
    BY DEF FoundKept
  <2>1. call'[l] = call[l]
    BY <1>3
  <2>2. call[l].spend \in SpendRequest /\ began[call[l].spend.journey] # None
    BY <2>1 DEF Typed, CallRecord, CallTyped
  <2> QED BY <2>1, <2>2, <1>8 DEF FoundKept, Honoured
<1>10. ReturnIsHonoured'
  BY <1>3, <1>8 DEF ReturnIsHonoured, Honoured, AskedFirst, Typed
<1>11. ReceiptIsEarned' /\ OneReceiptPerReturn'
  BY <1>2, <1>3 DEF ReceiptIsEarned, OneReceiptPerReturn, Verified, Typed, Receipt, AskedFirst
<1> QED BY <1>1, <1>4, <1>5, <1>6, <1>7, <1>9, <1>10, <1>11

LEMMA InsertKeeps ==
  ASSUME Inv, NEW k \in Call, Insert(k)
  PROVE  Inv'
<1> USE NoneIsNothing DEF Inv
<1> DEFINE j == call[k].journey
           fresh == [earn |-> None, spend |-> None]
<1>1. /\ j \in Journey /\ began[j] # None /\ row[j] = None /\ j \notin launched
      /\ \A s \in asked : s.journey # j
      /\ \A l \in Call \ {k} : call[l].pc # "idle" => call[l].journey # j
  BY DEF Insert, At, InsertAlone, CallTyped
<1>2. /\ now' = now /\ began' = began /\ chain' = chain /\ launched' = launched
      /\ asked' = asked /\ receipts' = receipts /\ nonces' = nonces
      /\ row'[j] = fresh /\ \A i \in Journey \ {j} : row'[i] = row[i]
      /\ \A l \in Call \ {k} : call'[l] = call[l]
      /\ call'[k] = [call[k] EXCEPT !.pc = "launch"]
  BY <1>1 DEF Insert, Typed, chainVars
<1>3. call'[k].pc = "launch" /\ call'[k].journey = j /\ call'[k].wallet = call[k].wallet
  BY <1>2 DEF Typed, CallRecord
<1>4. Typed'
  BY <1>1, <1>2 DEF Typed, Insert, CallRecord, Pc, RowRecord
<1>5. RowsPaired'
  BY <1>1, <1>2 DEF RowsPaired, Pairs
<1>6. AskedFirst'
  BY <1>2 DEF AskedFirst
<1>7. \A l \in Call : CallTyped(call[l])' /\ CallEvidence(call[l])'
  <2>1. CallTyped(call[k])' /\ CallEvidence(call[k])'
    BY <1>2, <1>3 DEF Insert, At, CallTyped, CallEvidence
  <2>2. \A l \in Call \ {k} : CallTyped(call[l])' /\ CallEvidence(call[l])'
    BY <1>2 DEF CallTyped, CallEvidence, Verified, Pairs
  <2> QED BY <2>1, <2>2
<1>8. InsertAlone'
  <2> SUFFICES ASSUME NEW l \in Call, call'[l].pc = "insert"
               PROVE  /\ call'[l].journey \notin launched /\ row'[call'[l].journey] = None
                      /\ \A s \in asked : s.journey # call'[l].journey
                      /\ \A m \in Call \ {l} :
                           call'[m].pc # "idle" => call'[m].journey # call'[l].journey
    BY <1>2 DEF InsertAlone
  <2>1. l # k /\ call'[l] = call[l] /\ call[l].journey \in Journey \ {j}
    BY <1>1, <1>2, <1>3 DEF CallTyped
  <2>2. /\ call[l].journey \notin launched /\ row[call[l].journey] = None
        /\ \A s \in asked : s.journey # call[l].journey
        /\ \A m \in Call \ {l} : call[m].pc # "idle" => call[m].journey # call[l].journey
    BY <2>1 DEF InsertAlone
  <2>3. row'[call[l].journey] = None
    BY <2>1, <2>2, <1>2
  <2>4. \A m \in Call \ {l} : call'[m].pc # "idle" => call'[m].journey # call[l].journey
    BY <2>1, <2>2, <1>2, <1>3
  <2> QED BY <2>1, <2>2, <2>3, <2>4
<1>9. FoundKept' /\ ReturnIsHonoured'
  <2>1. ASSUME NEW s \in SpendRequest, s.journey # j, Honoured(s) PROVE Honoured(s)'
    BY <2>1, <1>2 DEF Honoured, Expires, SpendRequest
  <2>2. \A l \in Call : call'[l].pc = "check_earn" /\ call'[l].spend # None =>
          call'[l] = call[l] /\ call[l].spend \in SpendRequest /\ call[l].spend.journey # j
    BY <1>1, <1>2, <1>3 DEF Typed, CallRecord, CallTyped
  <2>3. FoundKept'
    <3> SUFFICES ASSUME NEW l \in Call, call'[l].pc = "check_earn", call'[l].spend # None
                 PROVE  Honoured(call[l].spend)'
      BY DEF FoundKept
    <3> QED BY <2>1, <2>2 DEF FoundKept, Honoured
  <2>4. ReturnIsHonoured'
    BY <2>1, <1>1, <1>2 DEF ReturnIsHonoured, Honoured, Typed
  <2> QED BY <2>3, <2>4
<1>10. ReceiptIsEarned' /\ OneReceiptPerReturn'
  BY <1>2 DEF ReceiptIsEarned, OneReceiptPerReturn, Verified
<1> QED BY <1>4, <1>5, <1>6, <1>7, <1>8, <1>9, <1>10

-----------------------------------------------------------------------------
\* A step of call k that leaves the table, the requests, the chain and the
\* receipts as they are keeps the invariant if the call it makes is sound.
LEMMA CallMoves ==
  ASSUME Inv, NEW k \in Call, NEW c \in CallRecord,
         UNCHANGED <<now, began, row, chain, launched, asked, receipts>>,
         nonces' \in 0 .. MaxSpend,
         call' = [call EXCEPT ![k] = c],
         c.pc # "insert",
         c.pc # "idle" => \/ c.journey \in launched
                          \/ c.journey = call[k].journey /\ call[k].pc # "idle",
         c.pc = "check_earn" /\ c.spend # None => Honoured(c.spend),
         CallTyped(c), CallEvidence(c)
  PROVE  Inv'
<1> USE NoneIsNothing DEF Inv
<1>1. call'[k] = c /\ \A l \in Call \ {k} : call'[l] = call[l]
  BY DEF Typed
<1>2. Typed'
  BY DEF Typed
<1>3. RowsPaired' /\ AskedFirst'
  BY DEF RowsPaired, AskedFirst
<1>4. \A l \in Call : CallTyped(call[l])' /\ CallEvidence(call[l])'
  BY <1>1 DEF CallTyped, CallEvidence, Verified
<1>5. InsertAlone'
  BY <1>1 DEF InsertAlone
<1>6. FoundKept'
  BY <1>1 DEF FoundKept, Honoured, Expires
<1>7. ReturnIsHonoured' /\ ReceiptIsEarned' /\ OneReceiptPerReturn'
  BY DEF ReturnIsHonoured, ReceiptIsEarned, OneReceiptPerReturn, Verified, Expires
<1> QED BY <1>2, <1>3, <1>4, <1>5, <1>6, <1>7

LEMMA IdleIsSound == Idle \in CallRecord /\ Idle.pc = "idle" /\ CallTyped(Idle) /\ CallEvidence(Idle)
  BY DEF Idle, CallRecord, Pc, CallTyped, CallEvidence

LEMMA AcceptEarnKeeps ==
  ASSUME Inv, NEW k \in Call, NEW w \in Wallet, NEW j \in Journey, NEW t \in Tx,
         AcceptEarn(k, w, j, t)
  PROVE  Inv'
<1> USE NoneIsNothing
<1>1. /\ row[j] \in RowRecord /\ began[j] # None /\ began[j].wallet = w
      /\ row[j].spend # None => row[j].earn \in Tx /\ Pairs(row[j].spend, j, row[j].earn)
  BY DEF Inv, Typed, RowsPaired, RowRecord, AcceptEarn, Pending
<1>2. PICK c : c = [pc |-> "check_earn", wallet |-> w, journey |-> j, earn |-> t,
                    spend |-> row[j].spend, return |-> None]
  OBVIOUS
<1>3. c \in CallRecord /\ CallTyped(c) /\ CallEvidence(c)
  BY <1>1, <1>2 DEF CallRecord, Pc, RowRecord, CallTyped, CallEvidence, Pairs
<1>4. row[j].spend # None => row[j] = [earn |-> row[j].earn, spend |-> row[j].spend]
  BY <1>1 DEF RowRecord
<1>5. c.spend # None => Honoured(c.spend)
  BY <1>1, <1>2, <1>4 DEF Honoured, Pairs
<1>6. c.pc = "check_earn" /\ c.journey \in launched /\ nonces' \in 0 .. MaxSpend
  BY <1>2 DEF AcceptEarn, chainVars, Inv, Typed
<1>7. call' = [call EXCEPT ![k] = c]
  BY <1>2 DEF AcceptEarn
<1>8. j \in launched /\ UNCHANGED <<now, began, row, nonces, chain, launched, asked, receipts>>
  BY DEF AcceptEarn, chainVars
<1> QED BY <1>3, <1>5, <1>6, <1>7, <1>8, CallMoves

LEMMA CompleteKeeps ==
  ASSUME Inv, NEW k \in Call, NEW w \in Wallet, NEW j \in Journey, NEW t \in Tx,
         Complete(k, w, j, t)
  PROVE  Inv'
<1> USE NoneIsNothing
<1>1. /\ row[j] \in RowRecord /\ began[j] # None /\ began[j].wallet = w
      /\ row[j].earn \in Tx /\ Pairs(row[j].spend, j, row[j].earn)
  BY DEF Inv, Typed, RowsPaired, RowRecord, Complete, Pending
<1>2. PICK c : c = [pc |-> "check_first", wallet |-> w, journey |-> j,
                    earn |-> row[j].earn, spend |-> row[j].spend, return |-> t]
  OBVIOUS
<1>3. c \in CallRecord /\ CallTyped(c) /\ CallEvidence(c)
  BY <1>1, <1>2 DEF CallRecord, Pc, RowRecord, CallTyped, CallEvidence, Pairs
<1>4. call' = [call EXCEPT ![k] = c] /\ j \in launched
      /\ UNCHANGED <<now, began, row, nonces, chain, launched, asked, receipts>>
  BY <1>2 DEF Complete, chainVars
<1>5. c.pc = "check_first" /\ c.journey \in launched /\ nonces' \in 0 .. MaxSpend
  BY <1>2 DEF Complete, chainVars, Inv, Typed
<1> QED BY <1>3, <1>4, <1>5, CallMoves

LEMMA FailKeeps ==
  ASSUME Inv, NEW k \in Call, Fail(k)
  PROVE  Inv'
<1>1. call' = [call EXCEPT ![k] = Idle]
      /\ UNCHANGED <<now, began, row, nonces, chain, launched, asked, receipts>>
  BY DEF Fail, Ends, chainVars
<1> QED BY <1>1, IdleIsSound, CallMoves DEF Inv, Typed

\* The spend request is of the call's journey, names its parent, and no
\* journey has another.
LEMMA CheckEarnKeeps ==
  ASSUME Inv, NEW k \in Call, CheckEarn(k)
  PROVE  Inv'
<1> USE NoneIsNothing
<1>1. /\ call[k] \in CallRecord /\ call[k].pc = "check_earn" /\ CallTyped(call[k])
      /\ now \in Time /\ nonces \in 0 .. MaxSpend /\ nonces < MaxSpend
  BY DEF CheckEarn, At, Inv, Typed
<1>2. PICK s : s = [nonce |-> nonces + 1, journey |-> call[k].journey,
                    parent |-> call[k].earn, issued |-> now]
  OBVIOUS
<1>3. nonces + 1 \in 1 .. MaxSpend /\ nonces + 1 \in 0 .. MaxSpend
  BY <1>1, JourneyAssumption
<1>4. Pairs(s, call[k].journey, call[k].earn)
  BY <1>1, <1>2, <1>3 DEF Pairs, SpendRequest, CallTyped
<1>5. PICK c : c = [call[k] EXCEPT !.pc = "store_earn", !.spend = s]
  OBVIOUS
<1>6. /\ c.pc = "store_earn" /\ c.spend = s /\ c.journey = call[k].journey
      /\ c.earn = call[k].earn /\ c.wallet = call[k].wallet /\ c \in CallRecord
  BY <1>1, <1>4, <1>5 DEF CallRecord, Pc, Pairs
<1>7. CallTyped(c) /\ CallEvidence(c)
  BY <1>1, <1>4, <1>6 DEF CallTyped, CallEvidence
<1>8. call' = [call EXCEPT ![k] = c]
  <2>1. call' = [call EXCEPT ![k].pc = "store_earn", ![k].spend = s]
    BY <1>2 DEF CheckEarn
  <2> QED BY <2>1, <1>1, <1>5 DEF Inv, Typed
<1>9. nonces' = nonces + 1 /\ UNCHANGED <<now, began, row, chain, launched, asked, receipts>>
  BY DEF CheckEarn, chainVars
<1> QED BY <1>1, <1>3, <1>6, <1>7, <1>8, <1>9, CallMoves

LEMMA CheckFirstKeeps ==
  ASSUME Inv, NEW k \in Call, CheckFirst(k)
  PROVE  Inv'
<1> USE NoneIsNothing
<1>1. /\ call[k] \in CallRecord /\ call[k].pc = "check_first" /\ CallTyped(call[k])
      /\ Verified(call[k].earn, call[k].journey, None, call[k].wallet)
  BY DEF CheckFirst, At, Inv, Typed
<1>2. PICK c : c = [call[k] EXCEPT !.pc = "check_return"]
  OBVIOUS
<1>3. /\ c.pc = "check_return" /\ c.spend = call[k].spend /\ c.journey = call[k].journey
      /\ c.earn = call[k].earn /\ c.wallet = call[k].wallet /\ c.return = call[k].return
      /\ c \in CallRecord
  BY <1>1, <1>2 DEF CallRecord, Pc
<1>4. CallTyped(c) /\ CallEvidence(c)
  BY <1>1, <1>3 DEF CallTyped, CallEvidence
<1>5. call' = [call EXCEPT ![k] = c]
      /\ UNCHANGED <<now, began, row, nonces, chain, launched, asked, receipts>>
  BY <1>1, <1>2 DEF CheckFirst, chainVars
<1> QED BY <1>1, <1>3, <1>4, <1>5, CallMoves DEF Inv, Typed

LEMMA CheckReturnKeeps ==
  ASSUME Inv, NEW k \in Call, CheckReturn(k)
  PROVE  Inv'
<1> USE NoneIsNothing
<1>1. /\ call[k] \in CallRecord /\ call[k].pc = "check_return"
      /\ CallTyped(call[k]) /\ CallEvidence(call[k])
      /\ Verified(call[k].return, call[k].journey, call[k].spend, call[k].wallet)
  BY DEF CheckReturn, At, Inv, Typed
<1>2. PICK c : c = [call[k] EXCEPT !.pc = "issue"]
  OBVIOUS
<1>3. /\ c.pc = "issue" /\ c.spend = call[k].spend /\ c.journey = call[k].journey
      /\ c.earn = call[k].earn /\ c.wallet = call[k].wallet /\ c.return = call[k].return
      /\ c \in CallRecord
  BY <1>1, <1>2 DEF CallRecord, Pc
<1>4. CallTyped(c) /\ CallEvidence(c)
  BY <1>1, <1>3 DEF CallTyped, CallEvidence
<1>5. call' = [call EXCEPT ![k] = c]
      /\ UNCHANGED <<now, began, row, nonces, chain, launched, asked, receipts>>
  BY <1>1, <1>2 DEF CheckReturn, chainVars
<1> QED BY <1>1, <1>3, <1>4, <1>5, CallMoves DEF Inv, Typed

-----------------------------------------------------------------------------
(* The steps that change what is stored                                    *)

LEMMA LaunchKeeps ==
  ASSUME Inv, NEW k \in Call, Launch(k)
  PROVE  Inv'
<1> USE NoneIsNothing DEF Inv
<1> DEFINE j == call[k].journey
<1>1. j \in Journey /\ began[j] # None /\ row[j] # None
  BY DEF Launch, At, CallTyped
<1>2. /\ now' = now /\ began' = began /\ row' = row /\ chain' = chain
      /\ asked' = asked /\ receipts' = receipts /\ nonces' = nonces
      /\ launched' = launched \cup {j} /\ call' = [call EXCEPT ![k] = Idle]
  BY DEF Launch, Ends
<1>3. call'[k] = Idle /\ \A l \in Call \ {k} : call'[l] = call[l]
  BY <1>2 DEF Typed
<1>4. Typed'
  BY <1>1, <1>2, IdleIsSound DEF Typed
<1>5. RowsPaired' /\ AskedFirst'
  BY <1>1, <1>2 DEF RowsPaired, AskedFirst
<1>6. \A l \in Call : CallTyped(call[l])' /\ CallEvidence(call[l])'
  <2>1. \A l \in Call \ {k} : CallTyped(call[l])' /\ CallEvidence(call[l])'
    BY <1>2, <1>3 DEF CallTyped, CallEvidence, Verified
  <2>2. CallTyped(call[k])' /\ CallEvidence(call[k])'
    BY <1>3 DEF Idle, CallTyped, CallEvidence
  <2> QED BY <2>1, <2>2
<1>7. InsertAlone'
  BY <1>1, <1>2, <1>3, IdleIsSound DEF InsertAlone
<1>8. FoundKept' /\ ReturnIsHonoured'
  BY <1>2, <1>3, IdleIsSound DEF FoundKept, ReturnIsHonoured, Honoured, Expires
<1>9. ReceiptIsEarned' /\ OneReceiptPerReturn'
  BY <1>2 DEF ReceiptIsEarned, OneReceiptPerReturn, Verified
<1> QED BY <1>4, <1>5, <1>6, <1>7, <1>8, <1>9

\* Whoever is asked again is asked for what the row holds.
LEMMA CheckEarnAgainKeeps ==
  ASSUME Inv, NEW k \in Call, CheckEarnAgain(k)
  PROVE  Inv'
<1> USE NoneIsNothing DEF Inv
<1> DEFINE s == call[k].spend
<1>1. /\ s \in SpendRequest /\ s.journey \in Journey /\ s.journey = call[k].journey
      /\ began[s.journey] # None /\ Honoured(s)
      /\ \A l \in Call \ {k} : call[l].pc = "insert" => call[l].journey # s.journey
  BY DEF CheckEarnAgain, At, Typed, CallRecord, CallTyped, FoundKept, InsertAlone
<1>2. /\ now' = now /\ began' = began /\ row' = row /\ chain' = chain
      /\ launched' = launched /\ receipts' = receipts /\ nonces' = nonces
      /\ asked' = asked \cup {s} /\ call' = [call EXCEPT ![k] = Idle]
  BY DEF CheckEarnAgain, Ends, chainVars
<1>3. call'[k] = Idle /\ \A l \in Call \ {k} : call'[l] = call[l]
  BY <1>2 DEF Typed
<1>4. Typed'
  BY <1>1, <1>2, IdleIsSound DEF Typed
<1>5. RowsPaired' /\ AskedFirst'
  BY <1>1, <1>2 DEF RowsPaired, AskedFirst
<1>6. \A l \in Call : CallTyped(call[l])' /\ CallEvidence(call[l])'
  <2>1. \A l \in Call \ {k} : CallTyped(call[l])' /\ CallEvidence(call[l])'
    BY <1>2, <1>3 DEF CallTyped, CallEvidence, Verified
  <2>2. CallTyped(call[k])' /\ CallEvidence(call[k])'
    BY <1>3 DEF Idle, CallTyped, CallEvidence
  <2> QED BY <2>1, <2>2
<1>7. InsertAlone'
  BY <1>1, <1>2, <1>3, IdleIsSound DEF InsertAlone
<1>8. FoundKept' /\ ReturnIsHonoured'
  BY <1>1, <1>2, <1>3, IdleIsSound DEF FoundKept, ReturnIsHonoured, Honoured, Expires
<1>9. ReceiptIsEarned' /\ OneReceiptPerReturn'
  BY <1>2 DEF ReceiptIsEarned, OneReceiptPerReturn, Verified
<1> QED BY <1>4, <1>5, <1>6, <1>7, <1>8, <1>9

\* The first to store its pair wins, and whoever is asked is asked for the
\* pair that is stored.
LEMMA StoreEarnKeeps ==
  ASSUME Inv, NEW k \in Call, StoreEarn(k)
  PROVE  Inv'
<1> USE NoneIsNothing DEF Inv
<1> DEFINE c == call[k]
           j == c.journey
           accepted == Accepted(k)
<1>1. /\ c.pc = "store_earn" /\ c \in CallRecord /\ CallTyped(c)
      /\ j \in Journey /\ began[j] # None /\ row[j] # None /\ row[j] \in RowRecord
      /\ c.earn \in Tx /\ Pairs(c.spend, j, c.earn)
  BY DEF StoreEarn, At, Typed, CallTyped
<1>2. /\ accepted \in RowRecord /\ accepted.earn \in Tx
      /\ Pairs(accepted.spend, j, accepted.earn)
      /\ row[j].spend # None => accepted = row[j]
  BY <1>1 DEF Accepted, RowRecord, Pairs, RowsPaired
<1>3. accepted = [earn |-> accepted.earn, spend |-> accepted.spend]
  BY <1>2 DEF RowRecord
<1>4. /\ now' = now /\ began' = began /\ chain' = chain
      /\ launched' = launched /\ receipts' = receipts /\ nonces' = nonces
      /\ asked' \in {asked, asked \cup {accepted.spend}}
      /\ call' = [call EXCEPT ![k] = Idle]
      /\ row' = [row EXCEPT ![j] = accepted]
  BY DEF StoreEarn, Ends, chainVars
<1> HIDE DEF accepted
<1>5. /\ call'[k] = Idle /\ \A l \in Call \ {k} : call'[l] = call[l]
      /\ row'[j] = accepted /\ \A i \in Journey \ {j} : row'[i] = row[i]
  BY <1>1, <1>4 DEF Typed
<1>6. accepted.spend \in SpendRequest /\ accepted.spend.journey = j
      /\ accepted.spend.parent = accepted.earn
  BY <1>2 DEF Pairs
<1>7. Typed'
  BY <1>1, <1>2, <1>4, <1>6, IdleIsSound DEF Typed
<1>8. RowsPaired'
  <2>1. \A i \in Journey \ {j} : row'[i] # None =>
          /\ began[i] # None /\ (row'[i].earn = None <=> row'[i].spend = None)
          /\ row'[i].spend # None => Pairs(row'[i].spend, i, row'[i].earn)
    BY <1>5 DEF RowsPaired
  <2>2. began[j] # None /\ row'[j].earn # None /\ row'[j].spend # None
        /\ Pairs(row'[j].spend, j, row'[j].earn)
    BY <1>1, <1>2, <1>5, <1>6
  <2> QED BY <2>1, <2>2, <1>4 DEF RowsPaired, Pairs
<1>9. AskedFirst'
  BY <1>1, <1>4, <1>6 DEF AskedFirst
<1>10. \A l \in Call : CallTyped(call[l])' /\ CallEvidence(call[l])'
  <2>1. \A l \in Call \ {k} : CallTyped(call[l])' /\ CallEvidence(call[l])'
    BY <1>4, <1>5 DEF CallTyped, CallEvidence, Verified, Pairs
  <2>2. CallTyped(call[k])' /\ CallEvidence(call[k])'
    BY <1>5 DEF Idle, CallTyped, CallEvidence
  <2> QED BY <2>1, <2>2
<1>11. InsertAlone'
  <2> SUFFICES ASSUME NEW l \in Call, call'[l].pc = "insert"
               PROVE  /\ call'[l].journey \notin launched'
                      /\ row'[call'[l].journey] = None
                      /\ \A s \in asked' : s.journey # call'[l].journey
                      /\ \A m \in Call \ {l} :
                           call'[m].pc # "idle" => call'[m].journey # call'[l].journey
    BY DEF InsertAlone
  <2>1. l # k /\ call'[l] = call[l] /\ call[l].journey \in Journey
    BY <1>5, IdleIsSound DEF CallTyped
  <2>2. /\ call[l].journey \notin launched /\ row[call[l].journey] = None
        /\ \A s \in asked : s.journey # call[l].journey
        /\ call[l].journey # j
        /\ \A m \in Call \ {l} : call[m].pc # "idle" => call[m].journey # call[l].journey
    BY <2>1, <1>1 DEF InsertAlone
  <2>3. row'[call[l].journey] = None /\ \A s \in asked' : s.journey # call[l].journey
    BY <2>1, <2>2, <1>4, <1>5, <1>6
  <2>4. \A m \in Call \ {l} : call'[m].pc # "idle" => call'[m].journey # call[l].journey
    BY <2>2, <1>5, IdleIsSound
  <2> QED BY <2>1, <2>2, <2>3, <2>4, <1>4
<1>12. ASSUME NEW s \in SpendRequest, Honoured(s), began[s.journey] # None
       PROVE  Honoured(s)'
  <2>1. CASE s.journey = j
    <3> SUFFICES ASSUME now < Expires(s.journey) PROVE row'[j] = row[j]
      BY <2>1, <1>4, <1>12 DEF Honoured, Expires
    <3>1. row[j].spend = s
      BY <2>1, <1>12 DEF Honoured
    <3> QED BY <3>1, <1>2, <1>5
  <2>2. CASE s.journey # j
    BY <2>2, <1>4, <1>5, <1>12 DEF Honoured, Expires, SpendRequest
  <2> QED BY <2>1, <2>2
<1>13. FoundKept'
  <2> SUFFICES ASSUME NEW l \in Call, call'[l].pc = "check_earn", call'[l].spend # None
               PROVE  Honoured(call[l].spend)'
    BY DEF FoundKept
  <2>1. call'[l] = call[l]
    BY <1>5, IdleIsSound
  <2>2. call[l].spend \in SpendRequest /\ began[call[l].spend.journey] # None
    BY <2>1 DEF Typed, CallRecord, CallTyped
  <2> QED BY <2>1, <2>2, <1>12 DEF FoundKept, Honoured
<1>14. ReturnIsHonoured'
  <2>1. row'[j] = [earn |-> accepted.spend.parent, spend |-> accepted.spend]
    BY <1>3, <1>5, <1>6
  <2>2. \A s \in asked : Honoured(s)'
    BY <1>12 DEF ReturnIsHonoured, Honoured, AskedFirst, Typed
  <2> QED BY <2>1, <2>2, <1>4, <1>6 DEF ReturnIsHonoured, Honoured
<1>15. ReceiptIsEarned' /\ OneReceiptPerReturn'
  BY <1>4 DEF ReceiptIsEarned, OneReceiptPerReturn, Verified
<1> QED BY <1>7, <1>8, <1>9, <1>10, <1>11, <1>13, <1>14, <1>15

\* Two receipts for one return would be of one qualification.
LEMMA IssueKeeps ==
  ASSUME Inv, NEW k \in Call, Issue(k)
  PROVE  Inv'
<1> USE NoneIsNothing DEF Inv
<1> DEFINE c == call[k]
           r == NewReceipt(c)
<1>1. /\ c.pc = "issue" /\ c \in CallRecord /\ CallTyped(c) /\ CallEvidence(c)
  BY DEF Issue, At, Typed
<1>2. /\ c.journey \in Journey /\ c.wallet \in Wallet /\ began[c.journey] # None
      /\ began[c.journey].wallet = c.wallet /\ c.return \in Tx
      /\ Pairs(c.spend, c.journey, c.earn)
      /\ Verified(c.earn, c.journey, None, c.wallet)
      /\ Verified(c.return, c.journey, c.spend, c.wallet)
  BY <1>1 DEF CallTyped, CallEvidence
<1>3. Cardinality(receipts) \in Nat
  BY FS_CardinalityType DEF Typed
<1>4. /\ r \in Receipt /\ r.wallet = c.wallet /\ r.journey = c.journey
      /\ r.spend = c.spend /\ r.return = c.return
  BY <1>2, <1>3 DEF NewReceipt, Receipt, Pairs
<1>5. /\ now' = now /\ began' = began /\ row' = row /\ chain' = chain
      /\ launched' = launched /\ asked' = asked /\ nonces' = nonces
      /\ call' = [call EXCEPT ![k] = Idle]
      /\ receipts' = IF \E q \in receipts : SameQualification(q, c)
                     THEN receipts ELSE receipts \cup {r}
  BY DEF Issue, Ends, chainVars
<1> HIDE DEF r
<1>6. call'[k] = Idle /\ \A l \in Call \ {k} : call'[l] = call[l]
  BY <1>5 DEF Typed
<1>7. Typed'
  <2>1. receipts' \subseteq Receipt /\ IsFiniteSet(receipts')
    BY <1>4, <1>5, FS_AddElement DEF Typed
  <2> QED BY <2>1, <1>5, IdleIsSound DEF Typed
<1>8. RowsPaired' /\ AskedFirst'
  BY <1>2, <1>4, <1>5 DEF RowsPaired, AskedFirst
<1>9. \A l \in Call : CallTyped(call[l])' /\ CallEvidence(call[l])'
  <2>1. \A l \in Call \ {k} : CallTyped(call[l])' /\ CallEvidence(call[l])'
    BY <1>5, <1>6 DEF CallTyped, CallEvidence, Verified
  <2>2. CallTyped(call[k])' /\ CallEvidence(call[k])'
    BY <1>6 DEF Idle, CallTyped, CallEvidence
  <2> QED BY <2>1, <2>2
<1>10. InsertAlone' /\ FoundKept' /\ ReturnIsHonoured'
  BY <1>5, <1>6, IdleIsSound DEF InsertAlone, FoundKept, ReturnIsHonoured, Honoured, Expires
<1>11. ReceiptIsEarned'
  <2>1. \A q \in receipts' : q \in receipts \/ q = r
    BY <1>5
  <2>2. /\ r.wallet = began[r.journey].wallet /\ r.spend.journey = r.journey
        /\ Verified(r.spend.parent, r.journey, None, r.wallet)
        /\ Verified(r.return, r.journey, r.spend, r.wallet)
    BY <1>2, <1>4 DEF Pairs
  <2> QED BY <2>1, <2>2, <1>5 DEF ReceiptIsEarned, Verified
<1>12. OneReceiptPerReturn'
  <2>1. CASE \E q \in receipts : SameQualification(q, c)
    BY <2>1, <1>5 DEF OneReceiptPerReturn
  <2>2. CASE ~\E q \in receipts : SameQualification(q, c)
    <3>1. ASSUME NEW q \in receipts, q.return = r.return PROVE FALSE
      <4>1. Verified(c.return, q.journey, q.spend, q.wallet)
        BY <3>1, <1>4 DEF ReceiptIsEarned
      <4>2. q.journey = c.journey /\ q.spend = c.spend /\ q.wallet = c.wallet
        BY <4>1, <1>2 DEF Verified
      <4> QED BY <4>2, <3>1, <2>2, <1>4 DEF SameQualification
    <3> QED BY <2>2, <3>1, <1>5 DEF OneReceiptPerReturn
  <2> QED BY <2>1, <2>2
<1> QED BY <1>7, <1>8, <1>9, <1>10, <1>11, <1>12

-----------------------------------------------------------------------------
(* The chain and the clock                                                 *)

\* A step of the chain that undoes nothing final, and adds what was asked
\* for, keeps the invariant.
LEMMA ChainMoves ==
  ASSUME Inv, NEW t \in Tx, NEW x \in Transaction,
         UNCHANGED <<now, began, row, nonces, launched, asked, receipts, call>>,
         chain' = [chain EXCEPT ![t] = x],
         chain[t] # None => chain[t].state # "final",
         x.spend # None => x.spend \in asked
  PROVE  Inv'
<1> USE NoneIsNothing DEF Inv
<1>1. chain'[t] = x /\ \A u \in Tx \ {t} : chain'[u] = chain[u]
  BY DEF Typed
<1>2. \A u \in Tx : \A j, s, w : Verified(u, j, s, w) => Verified(u, j, s, w)'
  BY <1>1 DEF Verified
<1>3. Typed' /\ RowsPaired' /\ AskedFirst'
  BY <1>1 DEF Typed, RowsPaired, AskedFirst
<1>4. \A l \in Call : CallTyped(call[l])' /\ CallEvidence(call[l])'
  <2> SUFFICES ASSUME NEW l \in Call PROVE CallTyped(call[l])' /\ CallEvidence(call[l])'
    OBVIOUS
  <2>1. CallTyped(call[l]) /\ CallEvidence(call[l]) /\ call'[l] = call[l]
    OBVIOUS
  <2>2. CallTyped(call[l])'
    BY <2>1 DEF CallTyped
  <2>3. CallEvidence(call[l])'
    BY <2>1, <1>2 DEF CallTyped, CallEvidence
  <2> QED BY <2>2, <2>3
<1>5. InsertAlone' /\ FoundKept' /\ ReturnIsHonoured' /\ OneReceiptPerReturn'
  BY DEF InsertAlone, FoundKept, ReturnIsHonoured, Honoured, Expires, OneReceiptPerReturn
<1>6. ReceiptIsEarned'
  <2> SUFFICES ASSUME NEW r \in receipts
               PROVE  /\ r.wallet = began[r.journey].wallet
                      /\ r.spend.journey = r.journey
                      /\ Verified(r.spend.parent, r.journey, None, r.wallet)'
                      /\ Verified(r.return, r.journey, r.spend, r.wallet)'
    BY DEF ReceiptIsEarned, Verified
  <2>1. r.spend.parent \in Tx /\ r.return \in Tx
    BY DEF Typed, Receipt, SpendRequest
  <2> QED BY <2>1, <1>2 DEF ReceiptIsEarned
<1> QED BY <1>3, <1>4, <1>5, <1>6

LEMMA PayKeeps ==
  ASSUME Inv, NEW t \in Tx, NEW j \in Journey, NEW w \in Wallet,
         NEW s \in asked \cup {None}, Pay(t, j, s, w)
  PROVE  Inv'
<1> USE NoneIsNothing
<1>1. PICK x : x = [journey |-> j, spend |-> s, wallet |-> w, state |-> "pending"]
  OBVIOUS
<1>2. x \in Transaction /\ (x.spend # None => x.spend \in asked)
  BY <1>1 DEF Transaction, TxState, Inv, Typed
<1> QED BY <1>1, <1>2, ChainMoves DEF Pay

LEMMA BlockKeeps ==
  ASSUME Inv, NEW t \in Tx, Block(t)
  PROVE  Inv'
<1> USE NoneIsNothing
<1>1. chain[t] \in Transaction /\ chain[t].state # "final"
  BY DEF Block, MovesOn, Inv, Typed
<1>2. PICK to \in TxState :
        /\ chain' = [chain EXCEPT ![t].state = to]
        /\ UNCHANGED <<now, began, row, nonces, launched, asked, receipts, call>>
  BY DEF Block, MovesOn, TxState
<1>3. PICK x : x = [chain[t] EXCEPT !.state = to]
  OBVIOUS
<1>4. x \in Transaction /\ x.spend = chain[t].spend
  BY <1>1, <1>3 DEF Transaction
<1>5. x.spend # None => x.spend \in asked
  BY <1>1, <1>4 DEF Inv, AskedFirst
<1>6. chain' = [chain EXCEPT ![t] = x]
  BY <1>1, <1>2, <1>3
<1> QED BY <1>1, <1>2, <1>4, <1>5, <1>6, ChainMoves

LEMMA TickKeeps ==
  ASSUME Inv, Tick
  PROVE  Inv'
<1> USE NoneIsNothing DEF Inv
<1>1. /\ now' = now + 1 /\ began' = began /\ row' = row /\ chain' = chain
      /\ launched' = launched /\ asked' = asked /\ nonces' = nonces
      /\ call' = call /\ receipts' = receipts /\ now < MaxTime /\ now \in Time
  BY DEF Tick, chainVars, Typed
<1>2. Typed'
  BY <1>1, JourneyAssumption DEF Typed, Time
<1>3. RowsPaired' /\ AskedFirst' /\ InsertAlone' /\ OneReceiptPerReturn'
  BY <1>1 DEF RowsPaired, AskedFirst, InsertAlone, OneReceiptPerReturn
<1>4. ReceiptIsEarned' /\ \A l \in Call : CallTyped(call[l])' /\ CallEvidence(call[l])'
  BY <1>1 DEF ReceiptIsEarned, CallTyped, CallEvidence, Verified
<1>5. ASSUME NEW s \in SpendRequest, Honoured(s), began[s.journey] # None
      PROVE  Honoured(s)'
  <2>1. now \in Int /\ Expires(s.journey) \in Int
    BY <1>1, <1>5, JourneyAssumption DEF Typed, Began, Expires, Time, SpendRequest
  <2> QED BY <2>1, <1>1, <1>5 DEF Honoured, Expires
<1>6. FoundKept'
  <2> SUFFICES ASSUME NEW l \in Call, call[l].pc = "check_earn", call[l].spend # None
               PROVE  Honoured(call[l].spend)'
    BY <1>1 DEF FoundKept
  <2>1. call[l].spend \in SpendRequest /\ began[call[l].spend.journey] # None
    BY DEF Typed, CallRecord, CallTyped
  <2> QED BY <2>1, <1>1, <1>5 DEF FoundKept, Honoured
<1>7. ReturnIsHonoured'
  BY <1>1, <1>5 DEF ReturnIsHonoured, Honoured, AskedFirst, Typed
<1> QED BY <1>2, <1>3, <1>4, <1>6, <1>7

-----------------------------------------------------------------------------
LEMMA StepKeeps ==
  ASSUME Inv, [Next]_vars
  PROVE  Inv'
<1>1. CASE UNCHANGED vars
  BY <1>1 DEF vars, chainVars, Inv, Typed, RowsPaired, AskedFirst, CallTyped, CallEvidence,
    InsertAlone, FoundKept, ReturnIsHonoured, Honoured, Expires, ReceiptIsEarned,
    OneReceiptPerReturn, Verified
<1>2. ASSUME NEW k \in Call, NEW w \in Wallet, NEW j \in Journey,
             Begin(k, w, j) \/ \E t \in Tx : AcceptEarn(k, w, j, t) \/ Complete(k, w, j, t)
      PROVE  Inv'
  BY <1>2, BeginKeeps, AcceptEarnKeeps, CompleteKeeps
<1>3. ASSUME NEW k \in Call, Step(k) PROVE Inv'
  BY <1>3, InsertKeeps, LaunchKeeps, CheckEarnAgainKeeps, CheckEarnKeeps, StoreEarnKeeps,
    CheckFirstKeeps, CheckReturnKeeps, IssueKeeps, FailKeeps DEF Step
<1>4. ASSUME NEW t \in Tx, NEW j \in Journey, PayEarn(t, j) PROVE Inv'
  <2>1. began[j].wallet \in Wallet
    BY <1>4 DEF PayEarn, Inv, AskedFirst, Typed, Began
  <2> QED BY <2>1, <1>4, PayKeeps DEF PayEarn
<1>5. ASSUME NEW t \in Tx, NEW s \in asked, NEW w \in Wallet, PayReturn(t, s, w) PROVE Inv'
  <2>1. s.journey \in Journey
    BY <1>5 DEF Inv, Typed, SpendRequest
  <2> QED BY <2>1, <1>5, PayKeeps DEF PayReturn
<1>6. ASSUME NEW t \in Tx, Block(t) PROVE Inv'
  BY <1>6, BlockKeeps
<1>7. CASE Tick
  BY <1>7, TickKeeps
<1> QED BY <1>1, <1>2, <1>3, <1>4, <1>5, <1>6, <1>7 DEF Next

LEMMA InvHolds == Spec => []Inv
BY Starts, StepKeeps, PTL DEF Spec

\* Whatever the sessions, the player, the helper and the chain do, the rows,
\* requests, transactions, receipts and calls have their types, and a row
\* holds an earn proof and a spend request or neither.
THEOREM JourneysAreTyped == Spec => []TypeOK
BY InvHolds, TypeFollows, PTL

\* A receipt is issued by the server only for an earn and a return that are
\* both final on the chain, of the wallet and the journey it names.
THEOREM ReceiptsAreEarned == Spec => []ReceiptIsEarned
<1>1. Inv => ReceiptIsEarned
  BY DEF Inv
<1> QED BY <1>1, InvHolds, PTL

\* However often and wherever a journey is delivered, its return is good for
\* one receipt.
THEOREM ReturnsAreUsedOnce == Spec => []OneReceiptPerReturn
<1>1. Inv => OneReceiptPerReturn
  BY DEF Inv
<1> QED BY <1>1, InvHolds, PTL

\* The return a player was asked to pay is the one the table expects, until
\* the journey expires.
THEOREM ReturnsAreHonoured == Spec => []ReturnIsHonoured
<1>1. Inv => ReturnIsHonoured
  BY DEF Inv
<1> QED BY <1>1, InvHolds, PTL

=============================================================================
