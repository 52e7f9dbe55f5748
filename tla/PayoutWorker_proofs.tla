------------------------ MODULE PayoutWorker_proofs ------------------------
(***************************************************************************)
(* What the payout worker does to the ledger and the chain, for any        *)
(* entitlements, workers, validity window and macro-block distance, with   *)
(* processes that crash and tips that are replaced.  What rests on one     *)
(* worker at a time is proved for a payout lease that does not drop.       *)
(***************************************************************************)
EXTENDS PayoutWorker, FiniteSetTheorems, TLAPS

\* Where a worker handles a row of the queue, a row to reconcile, a status.
QueuePc == {"mark_signed", "review_unsigned"}
RowPc == {"broadcast", "mark_unknown", "read_head", "read_tx", "judge",
          "rebroadcast", "review_expired", "mark_included", "mark_finalized"}
JudgePc == {"judge", "mark_included", "mark_finalized", "review_expired"}

\* A row has bytes from its signing on, and they are its own.
Stored ==
  \A e \in Entitlement :
    /\ state[e] = "queued" => stored[e] = NoTx
    /\ state[e] \in Reconcilable \cup {"finalized"} => stored[e] # NoTx
    /\ stored[e] # NoTx => stored[e].id = e

\* The bytes a worker has read are those the row still has: it may be late,
\* but a row that has been signed once keeps its bytes.
Bytes(w) ==
  /\ \A r \in todo[w] : r.state \in Reconcilable => r.tx = stored[r.id] /\ r.tx # NoTx
  /\ pc[w] \in RowPc \cup {"next_row"} => \A r \in todo[w] : r.state \in Reconcilable
  /\ pc[w] \in RowPc \cup QueuePc => cur[w] \in RowView
  /\ pc[w] \in RowPc => cur[w].tx = stored[cur[w].id] /\ cur[w].tx # NoTx
  /\ pc[w] = "mark_signed" => cur[w].tx # NoTx /\ cur[w].tx.id = cur[w].id

\* What is on its way or in a block is what its row has stored.
Ledger ==
  /\ \A t \in mempool : stored[t.id] = t
  /\ \A t \in Tx : included[t] # 0 => t \in mempool /\ included[t] <= head
  /\ \A t \in failed : included[t] # 0

BytesInv == TypeOK /\ Stored /\ (\A w \in Worker : Bytes(w)) /\ Ledger

-----------------------------------------------------------------------------
(* What a step changes of the workers                                      *)

LocalTyped ==
  /\ pc \in [Worker -> Step]
  /\ todo \in [Worker -> SUBSET RowView]
  /\ cur \in [Worker -> RowView \cup {NoTx}]
  /\ seen \in [Worker -> [head: Height, at: Height]]

Only(w) ==
  \A v \in Worker \ {w} :
    pc'[v] = pc[v] /\ todo'[v] = todo[v] /\ cur'[v] = cur[v] /\ seen'[v] = seen[v]

LEMMA Heights == 0 \in Height /\ Height \subseteq Nat
  BY ChainAssumption DEF Height

LEMMA EndPassMoves ==
  ASSUME LocalTyped, NEW w \in Worker, EndPass(w)
  PROVE  /\ Only(w) /\ LocalTyped'
         /\ pc'[w] = "idle" /\ todo'[w] = {} /\ cur'[w] = NoTx /\ seen'[w] = Nothing
         /\ lease' = IF lease = w THEN Nobody ELSE lease
  BY Heights DEF LocalTyped, EndPass, Goto, Only, Step, Nothing

LEMMA GotoMoves ==
  ASSUME LocalTyped, NEW w \in Worker, NEW s \in Step, Goto(w, s), UNCHANGED <<todo, cur, seen>>
  PROVE  /\ Only(w) /\ LocalTyped'
         /\ pc'[w] = s /\ todo'[w] = todo[w] /\ cur'[w] = cur[w] /\ seen'[w] = seen[w]
  BY DEF LocalTyped, Goto, Only

\* A call of the ledger moves the row of w on, or ends its pass.
LEMMA CallMoves ==
  ASSUME LocalTyped, NEW w \in Worker, cur[w] \in RowView,
         NEW previous, NEW next \in PayoutState, NEW then \in Step,
         Call(w, previous, next, then),
         state \in [Entitlement -> PayoutState],
         stored \in [Entitlement -> Tx \cup {NoTx}]
  PROVE  LET e == cur[w].id IN
         /\ Only(w) /\ LocalTyped'
         /\ state' \in [Entitlement -> PayoutState]
         /\ \A x \in Entitlement \ {e} : state'[x] = state[x]
         /\ \/ /\ state[e] \in previous \cup {next} /\ state'[e] = next
               /\ cur'[w] = [id |-> e, state |-> next, tx |-> stored[e]]
               /\ pc'[w] = then /\ todo'[w] = todo[w] /\ seen'[w] = seen[w]
               /\ lease' = lease
            \/ /\ state[e] \notin previous \cup {next} /\ state' = state
               /\ EndPass(w)
<1> DEFINE e == cur[w].id
           c == [id |-> e, state |-> next, tx |-> stored[e]]
<1>1. e \in Entitlement /\ c \in RowView
  BY DEF RowView
<1>2. CASE /\ state[e] \in previous \cup {next}
           /\ state' = [state EXCEPT ![e] = next]
           /\ cur' = [cur EXCEPT ![w] = c]
           /\ Goto(w, then)
           /\ UNCHANGED <<todo, seen, lease>>
  <2> HIDE DEF c
  <2>3. /\ Only(w) /\ LocalTyped' /\ cur'[w] = c /\ pc'[w] = then
        /\ todo'[w] = todo[w] /\ seen'[w] = seen[w]
    BY <1>1, <1>2 DEF LocalTyped, Only, Goto
  <2>4. /\ state' \in [Entitlement -> PayoutState] /\ state'[e] = next
        /\ \A x \in Entitlement \ {e} : state'[x] = state[x]
    BY <1>1, <1>2
  <2> QED BY <1>2, <2>3, <2>4 DEF c
<1>3. CASE state[e] \notin previous \cup {next} /\ EndPass(w) /\ UNCHANGED state
  BY <1>3, EndPassMoves
<1> QED BY <1>2, <1>3 DEF Call

-----------------------------------------------------------------------------
(* Bytes                                                                   *)

\* Signed bytes that stay keep the rows other workers have read true.
LEMMA OthersKeepBytes ==
  ASSUME LocalTyped, NEW w, NEW v \in Worker \ {w}, Only(w), Bytes(v),
         \A x \in Entitlement : stored[x] # NoTx => stored'[x] = stored[x]
  PROVE  Bytes(v)'
<1>1. pc'[v] = pc[v] /\ todo'[v] = todo[v] /\ cur'[v] = cur[v]
  BY DEF Only
<1>2. \A r \in todo[v] : r.id \in Entitlement
  BY DEF LocalTyped, RowView
<1>3. pc[v] \in RowPc => cur[v].id \in Entitlement
  BY DEF Bytes, RowView
<1> QED BY <1>1, <1>2, <1>3 DEF Bytes

\* A step of w that leaves the tables and the chain as they are.
LEMMA QuietStep ==
  ASSUME BytesInv, NEW w \in Worker, Only(w), LocalTyped', Bytes(w)',
         UNCHANGED <<ledger, chain>>,
         lease' \in Worker \cup {Nobody}, paused' \in [Worker -> BOOLEAN],
         crashes' \in 0 .. MaxCrashes
  PROVE  BytesInv'
<1>1. /\ state' = state /\ stored' = stored /\ payments' = payments
      /\ head' = head /\ mempool' = mempool /\ included' = included /\ failed' = failed
  BY DEF ledger, chain
<1>2. TypeOK'
  BY <1>1 DEF BytesInv, TypeOK, LocalTyped
<1>3. Stored' /\ Ledger'
  BY <1>1 DEF BytesInv, Stored, Ledger
<1>4. \A v \in Worker : Bytes(v)'
  BY <1>1, OthersKeepBytes DEF BytesInv, TypeOK, LocalTyped
<1> QED BY <1>2, <1>3, <1>4 DEF BytesInv

\* A step of w that is a call of the ledger.
LEMMA CallStep ==
  ASSUME BytesInv, NEW w \in Worker, pc[w] \in RowPc \cup {"review_unsigned"},
         NEW previous, NEW next \in PayoutState \ {"queued"}, NEW then \in Step,
         Call(w, previous, next, then),
         next # "manual_review" => pc[w] \in RowPc,
         \/ then = "next_queued"
         \/ then \in RowPc \cup {"next_row"} /\ pc[w] \in RowPc,
         UNCHANGED <<stored, paused, chain, crashes>>,
         payments' \in [Entitlement -> Nat]
  PROVE  BytesInv'
<1> DEFINE e == cur[w].id
<1>a. /\ LocalTyped /\ state \in [Entitlement -> PayoutState]
      /\ stored \in [Entitlement -> Tx \cup {NoTx}]
  BY DEF BytesInv, TypeOK, LocalTyped
<1>b. Bytes(w) /\ cur[w] \in RowView
  BY DEF BytesInv, Bytes, QueuePc
<1>1. cur[w] \in RowView /\ e \in Entitlement /\ LocalTyped /\ Bytes(w)
  BY <1>a, <1>b DEF RowView
<1>2. /\ Only(w) /\ LocalTyped'
      /\ state' \in [Entitlement -> PayoutState]
      /\ \A x \in Entitlement \ {e} : state'[x] = state[x]
      /\ \/ /\ state'[e] = next
            /\ cur'[w] = [id |-> e, state |-> next, tx |-> stored[e]]
            /\ pc'[w] = then /\ todo'[w] = todo[w] /\ lease' = lease
         \/ /\ state' = state /\ EndPass(w)
  <2>1. next \in PayoutState
    OBVIOUS
  <2>2. /\ Only(w) /\ LocalTyped'
        /\ state' \in [Entitlement -> PayoutState]
        /\ \A x \in Entitlement \ {e} : state'[x] = state[x]
        /\ \/ /\ state[e] \in previous \cup {next} /\ state'[e] = next
              /\ cur'[w] = [id |-> e, state |-> next, tx |-> stored[e]]
              /\ pc'[w] = then /\ todo'[w] = todo[w] /\ seen'[w] = seen[w]
              /\ lease' = lease
           \/ /\ state[e] \notin previous \cup {next} /\ state' = state
              /\ EndPass(w)
    BY <1>a, <1>1, <2>1, CallMoves
  <2> QED BY <2>2
<1>3. EndPass(w) => pc'[w] = "idle" /\ todo'[w] = {} /\ lease' \in {lease, Nobody}
  BY <1>1, EndPassMoves
<1>4. lease' \in Worker \cup {Nobody}
  BY <1>2, <1>3 DEF BytesInv, TypeOK
<1>5. TypeOK'
  BY <1>2, <1>4 DEF BytesInv, TypeOK, LocalTyped, chain
<1>6. Stored'
  <2>1. CASE state' = state
    BY <2>1 DEF BytesInv, Stored
  <2>2. CASE state'[e] = next
    <3>1. next # "manual_review" => stored[e] # NoTx
      BY <1>1 DEF Bytes
    <3>2. next \in Reconcilable \cup {"finalized"} => stored[e] # NoTx
      BY <3>1 DEF Reconcilable
    <3> QED BY <1>1, <1>2, <2>2, <3>2 DEF BytesInv, Stored
  <2> QED BY <1>2, <2>1, <2>2
<1>7. Ledger'
  BY DEF BytesInv, Ledger, chain
<1>8. Bytes(w)'
  <2>1. CASE EndPass(w)
    BY <2>1, <1>3 DEF Bytes, RowPc, QueuePc
  <2>2. CASE /\ cur'[w] = [id |-> e, state |-> next, tx |-> stored[e]]
             /\ pc'[w] = then /\ todo'[w] = todo[w]
    <3>1. cur'[w] \in RowView /\ cur'[w].id = e /\ cur'[w].tx = stored[e]
      BY <1>1, <2>2 DEF RowView, BytesInv, TypeOK
    <3>2. CASE then = "next_queued"
      BY <1>1, <2>2, <3>2 DEF Bytes, RowPc, QueuePc
    <3>3. CASE then \in RowPc \cup {"next_row"} /\ pc[w] \in RowPc
      <4>1. stored[e] # NoTx /\ \A r \in todo[w] : r.state \in Reconcilable
        BY <1>1, <3>3 DEF Bytes
      <4>2. then # "mark_signed"
        BY <3>3 DEF RowPc
      <4> QED BY <1>1, <2>2, <3>1, <3>3, <4>1, <4>2 DEF Bytes
    <3> QED BY <3>2, <3>3
  <2> QED BY <1>2, <2>1, <2>2
<1>9. \A v \in Worker : Bytes(v)'
  BY <1>1, <1>2, <1>8, OthersKeepBytes DEF BytesInv
<1> QED BY <1>5, <1>6, <1>7, <1>9 DEF BytesInv

LEMMA BytesInit == Init => BytesInv
<1> SUFFICES ASSUME Init PROVE BytesInv
  OBVIOUS
<1>1. TypeOK
  <2>1. head = 1 /\ 1 \in Height /\ Nothing \in [head: Height, at: Height]
    BY Heights, ChainAssumption DEF Init, Height, Nothing
  <2>2. crashes \in 0 .. MaxCrashes
    BY ChainAssumption DEF Init
  <2> QED BY <2>1, <2>2, Heights DEF Init, TypeOK, PayoutState, Step
<1>2. Stored
  BY DEF Init, Stored, Reconcilable
<1>3. \A w \in Worker : Bytes(w)
  BY DEF Init, Bytes, RowPc, QueuePc
<1>4. Ledger
  BY DEF Init, Ledger
<1> QED BY <1>1, <1>2, <1>3, <1>4 DEF BytesInv

\* The workers' steps that only look, at the tables or the chain.
LEMMA LooksKeepBytes ==
  ASSUME BytesInv, NEW w \in Worker,
         \/ Kick(w) \/ ListQueued(w) \/ Prepare(w) \/ QueueDone(w) \/ ListReconcilable(w)
         \/ NextRow(w) \/ PassDone(w) \/ ReadHead(w) \/ ReadTx(w) \/ Judge(w) \/ Crash(w)
  PROVE  BytesInv'
<1>1. LocalTyped /\ Bytes(w) /\ TypeOK
  BY DEF BytesInv, TypeOK, LocalTyped
<1>2. /\ lease \in Worker \cup {Nobody} /\ paused \in [Worker -> BOOLEAN]
      /\ crashes \in 0 .. MaxCrashes /\ head \in Height
  BY <1>1 DEF TypeOK
<1>3. UNCHANGED stored => \A r \in todo[w] : r.state \in Reconcilable => r.tx = stored'[r.id] /\ r.tx # NoTx
  BY <1>1 DEF Bytes
<1> DEFINE Quiet == /\ Only(w) /\ LocalTyped' /\ Bytes(w)' /\ UNCHANGED <<ledger, chain>>
                    /\ lease' \in Worker \cup {Nobody} /\ paused' \in [Worker -> BOOLEAN]
                    /\ crashes' \in 0 .. MaxCrashes
<1>4. ASSUME PassDone(w) \/ Crash(w) PROVE Quiet
  <2>0. EndPass(w) /\ UNCHANGED <<ledger, chain>>
    BY <1>4 DEF PassDone, Crash
  <2>1. /\ Only(w) /\ LocalTyped' /\ pc'[w] = "idle" /\ todo'[w] = {}
        /\ lease' \in Worker \cup {Nobody}
    BY <1>1, <1>2, <2>0, EndPassMoves
  <2>2. Bytes(w)'
    BY <2>1 DEF Bytes, RowPc, QueuePc
  <2>3. paused' \in [Worker -> BOOLEAN] /\ crashes' \in 0 .. MaxCrashes
    BY <1>2, <1>4, ChainAssumption DEF PassDone, Crash
  <2> QED BY <2>0, <2>1, <2>2, <2>3
<1>5. ASSUME NEW s \in Step, Goto(w, s), UNCHANGED <<ledger, todo, cur, seen, paused, chain, crashes>>,
             lease' \in {lease, w},
             s \in {"list_queued", "list_reconcilable", "next_row", "rebroadcast", "read_tx",
                    "judge", "review_expired", "mark_included", "mark_finalized"},
             s \in RowPc \cup {"next_row"} => pc[w] \in RowPc
      PROVE  Quiet
  <2>1. /\ Only(w) /\ LocalTyped' /\ pc'[w] = s /\ todo'[w] = todo[w] /\ cur'[w] = cur[w]
        /\ stored' = stored
    BY <1>1, <1>5, GotoMoves DEF ledger
  <2>2. s \notin QueuePc
    BY <1>5 DEF QueuePc
  <2>3. Bytes(w)'
    BY <1>1, <1>5, <2>1, <2>2 DEF Bytes, QueuePc
  <2> QED BY <2>1, <2>3, <1>2, <1>5
<1>6. ASSUME NEW S \in SUBSET PayoutState, NEW s \in {"next_queued", "next_row"},
             todo' = [todo EXCEPT ![w] = Rows(S)], Goto(w, s),
             s = "next_row" => S = Reconcilable,
             UNCHANGED <<ledger, lease, cur, seen, paused, chain, crashes>>
      PROVE  Quiet
  <2>1. Rows(S) \in SUBSET RowView
    BY <1>1 DEF Rows, RowView, TypeOK
  <2>2. s \in Step /\ s \notin RowPc \cup QueuePc
    BY DEF Step, RowPc, QueuePc
  <2>3. /\ Only(w) /\ LocalTyped' /\ pc'[w] = s /\ todo'[w] = Rows(S) /\ stored' = stored
    BY <1>1, <1>6, <2>1, <2>2 DEF LocalTyped, Only, Goto, ledger
  <2>4. \A r \in Rows(S) : /\ r.state \in S /\ r.id \in Entitlement
                           /\ r.state = state[r.id] /\ r.tx = stored[r.id]
    BY DEF Rows
  <2>5. \A r \in Rows(S) : r.state \in Reconcilable => r.tx = stored[r.id] /\ r.tx # NoTx
    BY <2>4 DEF BytesInv, Stored
  <2>6. Bytes(w)'
    BY <1>6, <2>2, <2>3, <2>4, <2>5 DEF Bytes
  <2> QED BY <2>3, <2>6, <1>2, <1>6
<1>7. ASSUME NEW r \in todo[w], NEW c \in RowView, NEW s \in Step,
             todo' = [todo EXCEPT ![w] = @ \ {r}], cur' = [cur EXCEPT ![w] = c], Goto(w, s),
             UNCHANGED <<ledger, lease, seen, paused, chain, crashes>>,
             \/ s = "mark_signed" /\ c.tx # NoTx /\ c.tx.id = c.id
             \/ s = "review_unsigned"
             \/ s \in {"broadcast", "read_head"} /\ c = r /\ pc[w] = "next_row"
      PROVE  Quiet
  <2>1. /\ Only(w) /\ LocalTyped' /\ pc'[w] = s /\ todo'[w] = todo[w] \ {r} /\ cur'[w] = c
        /\ stored' = stored
    BY <1>1, <1>7 DEF LocalTyped, Only, Goto, ledger
  <2>2. s \in RowPc \cup {"next_row"} => pc[w] = "next_row" /\ c = r
    BY <1>7 DEF RowPc
  <2>3. s = "mark_signed" => c.tx # NoTx /\ c.tx.id = c.id
    BY <1>7
  <2>4. s \in RowPc => c.tx = stored[c.id] /\ c.tx # NoTx
    BY <1>1, <2>2 DEF Bytes
  <2>5. Bytes(w)'
    BY <1>1, <2>1, <2>2, <2>3, <2>4 DEF Bytes
  <2> QED BY <2>1, <2>5, <1>2, <1>7
<1> SUFFICES Quiet
  BY QuietStep
<1> HIDE DEF Quiet
<1>8. CASE Kick(w)
  BY <1>5, <1>8 DEF Kick, Step, RowPc
<1>9. CASE ListQueued(w)
  BY <1>6, <1>9 DEF ListQueued, PayoutState
<1>10. CASE ListReconcilable(w)
  BY <1>6, <1>10 DEF ListReconcilable, PayoutState, Reconcilable
<1>11. CASE Prepare(w)
  <2>1. PICK r \in todo[w] :
          /\ todo' = [todo EXCEPT ![w] = @ \ {r}]
          /\ \/ /\ cur' = [cur EXCEPT ![w] =
                             [r EXCEPT !.tx = [id |-> r.id, start |-> head]]]
                /\ Goto(w, "mark_signed")
             \/ /\ cur' = [cur EXCEPT ![w] = r]
                /\ Goto(w, "review_unsigned")
    BY <1>11 DEF Prepare
  <2>2. r \in RowView /\ r.id \in Entitlement
    BY <1>1, <2>1 DEF LocalTyped, RowView
  <2> DEFINE t == [id |-> r.id, start |-> head]
             c == [r EXCEPT !.tx = t]
  <2>3. t \in Tx /\ t # NoTx /\ t.id = r.id
    BY <1>2, <2>2, NoneAssumption DEF Tx
  <2>4. c \in RowView /\ c.tx = t /\ c.id = r.id
    BY <2>2, <2>3 DEF RowView
  <2>5. UNCHANGED <<ledger, lease, seen, paused, chain, crashes>>
    BY <1>11 DEF Prepare
  <2>6. CASE cur' = [cur EXCEPT ![w] = c] /\ Goto(w, "mark_signed")
    <3> HIDE DEF c, t
    <3> QED BY <1>7, <2>1, <2>3, <2>4, <2>5, <2>6 DEF Step
  <2>7. CASE cur' = [cur EXCEPT ![w] = r] /\ Goto(w, "review_unsigned")
    BY <1>7, <2>1, <2>2, <2>5, <2>7 DEF Step
  <2> QED BY <2>1, <2>6, <2>7
<1>12. CASE QueueDone(w)
  BY <1>5, <1>12 DEF QueueDone, Step, RowPc
<1>13. CASE NextRow(w)
  <2>1. PICK r \in todo[w] :
          /\ todo' = [todo EXCEPT ![w] = @ \ {r}] /\ cur' = [cur EXCEPT ![w] = r]
          /\ Goto(w, FirstStep(w, r))
    BY <1>13 DEF NextRow
  <2>2. r \in RowView /\ FirstStep(w, r) \in {"broadcast", "read_head"}
    BY <1>1, <2>1 DEF LocalTyped, FirstStep
  <2> QED BY <1>7, <1>13, <2>1, <2>2 DEF NextRow, Step
<1>14. CASE PassDone(w) \/ Crash(w)
  BY <1>4, <1>14
<1>15. ASSUME NEW a \in [head: Height, at: Height], seen' = [seen EXCEPT ![w] = a],
              NEW s \in {"read_tx", "judge"}, Goto(w, s), pc[w] \in RowPc,
              UNCHANGED <<ledger, lease, todo, cur, paused, chain, crashes>>
       PROVE  Quiet
  <2>1. s \in Step /\ s \notin QueuePc
    BY DEF Step, QueuePc
  <2>2. /\ Only(w) /\ LocalTyped' /\ pc'[w] = s /\ todo'[w] = todo[w] /\ cur'[w] = cur[w]
        /\ stored' = stored
    BY <1>1, <1>15, <2>1 DEF LocalTyped, Only, Goto, ledger
  <2>3. Bytes(w)'
    BY <1>1, <1>15, <2>1, <2>2 DEF Bytes, QueuePc
  <2> QED BY <2>2, <2>3, <1>2, <1>15 DEF Quiet
<1>16. CASE ReadHead(w)
  <2>1. pc[w] \in RowPc /\ [head |-> head, at |-> 0] \in [head: Height, at: Height]
    BY <1>2, <1>16, Heights DEF ReadHead, RowPc
  <2>2. CASE Goto(w, "next_row") /\ UNCHANGED seen
    BY <1>5, <1>16, <2>1, <2>2 DEF ReadHead, Step
  <2> QED BY <1>15, <1>16, <2>1, <2>2 DEF ReadHead
<1>17. CASE ReadTx(w)
  <2>1. pc[w] = "read_tx" /\ pc[w] \in RowPc
    BY <1>17 DEF ReadTx, RowPc
  <2>2. cur[w].tx \in Tx
    BY <1>1, <2>1 DEF Bytes, RowView
  <2> DEFINE a == [seen[w] EXCEPT !.at = included[cur[w].tx]]
  <2>3. included[cur[w].tx] \in Height /\ seen[w] \in [head: Height, at: Height]
    BY <1>1, <2>2 DEF TypeOK
  <2>4. a \in [head: Height, at: Height]
    BY <2>3
  <2>5. CASE Goto(w, "next_row") /\ UNCHANGED seen
    BY <1>5, <1>17, <2>1, <2>5 DEF ReadTx, Step
  <2>6. CASE seen' = [seen EXCEPT ![w] = a] /\ Goto(w, "judge")
    <3> HIDE DEF a
    <3> QED BY <1>15, <1>17, <2>1, <2>4, <2>6 DEF ReadTx
  <2> QED BY <1>17, <2>5, <2>6 DEF ReadTx
<1>18. CASE Judge(w)
  <2>1. /\ AfterStatus(w) \in {"next_row", "rebroadcast", "review_expired",
                               "mark_included", "mark_finalized"}
        /\ pc[w] \in RowPc
    BY <1>18 DEF AfterStatus, Judge, RowPc
  <2> QED BY <1>5, <1>18, <2>1 DEF Judge, Step
<1> QED
  BY <1>8, <1>9, <1>10, <1>11, <1>12, <1>13, <1>14, <1>16, <1>17, <1>18

\* Signing a row again leaves the bytes it has.
LEMMA SigningKeepsBytes ==
  ASSUME BytesInv, NEW w \in Worker, MarkSigned(w)
  PROVE  BytesInv' /\ \A x \in Entitlement : stored[x] # NoTx => stored'[x] = stored[x]
<1> DEFINE e == cur[w].id
<1>1. LocalTyped /\ Bytes(w) /\ TypeOK /\ Stored
  BY DEF BytesInv, TypeOK, LocalTyped
<1>2. /\ cur[w] \in RowView /\ e \in Entitlement /\ cur[w].tx \in Tx /\ cur[w].tx.id = e
      /\ cur[w].tx # NoTx
  BY <1>1 DEF MarkSigned, Bytes, QueuePc, RowView
<1>3. PICK s \in {"next_queued", "review_unsigned"} : Goto(w, s)
  BY DEF MarkSigned
<1>4. UNCHANGED <<payments, lease, todo, cur, seen, paused, chain, crashes>>
  BY DEF MarkSigned
<1>5. s \in Step /\ s \notin RowPc \cup {"next_row", "mark_signed"}
  BY DEF Step, RowPc
<1>6. /\ Only(w) /\ LocalTyped' /\ pc'[w] = s /\ todo'[w] = todo[w] /\ cur'[w] = cur[w]
  BY <1>1, <1>3, <1>4, <1>5, GotoMoves
<1>7. \/ /\ state[e] = "queued"
         /\ state' = [state EXCEPT ![e] = "signed"] /\ stored' = [stored EXCEPT ![e] = cur[w].tx]
      \/ UNCHANGED <<state, stored>>
  BY DEF MarkSigned
<1>8. \A x \in Entitlement : stored[x] # NoTx => stored'[x] = stored[x]
  BY <1>1, <1>2, <1>7 DEF Stored, TypeOK
<1>9. /\ state' \in [Entitlement -> PayoutState]
      /\ stored' \in [Entitlement -> Tx \cup {NoTx}]
      /\ Stored'
  <2>1. CASE UNCHANGED <<state, stored>>
    BY <1>1, <2>1 DEF TypeOK, Stored
  <2>2. CASE /\ state' = [state EXCEPT ![e] = "signed"]
             /\ stored' = [stored EXCEPT ![e] = cur[w].tx]
    <3>1. /\ state' \in [Entitlement -> PayoutState] /\ state'[e] = "signed"
          /\ stored' \in [Entitlement -> Tx \cup {NoTx}] /\ stored'[e] = cur[w].tx
          /\ \A x \in Entitlement \ {e} : state'[x] = state[x] /\ stored'[x] = stored[x]
      BY <1>1, <1>2, <2>2 DEF TypeOK, PayoutState
    <3> QED BY <1>1, <1>2, <3>1 DEF Stored
  <2> QED BY <1>7, <2>1, <2>2
<1>10. TypeOK'
  BY <1>1, <1>4, <1>6, <1>9 DEF TypeOK, LocalTyped, chain
<1>11. Ledger'
  <2>1. mempool' = mempool /\ included' = included /\ failed' = failed /\ head' = head
    BY <1>4 DEF chain
  <2>2. \A t \in mempool : t.id \in Entitlement /\ t # NoTx
    BY <1>1, NoneAssumption DEF TypeOK, Tx
  <2> QED BY <1>8, <2>1, <2>2 DEF BytesInv, Ledger
<1>12. Bytes(w)'
  <2>1. \A r \in todo[w] : r.id \in Entitlement
    BY <1>1 DEF LocalTyped, RowView
  <2> QED BY <1>1, <1>2, <1>5, <1>6, <1>8, <2>1 DEF Bytes
<1>13. \A v \in Worker : Bytes(v)'
  BY <1>1, <1>6, <1>8, <1>12, OthersKeepBytes DEF BytesInv
<1> QED BY <1>8, <1>9, <1>10, <1>11, <1>13 DEF BytesInv

\* Only stored bytes go out.
LEMMA SendKeepsBytes ==
  ASSUME BytesInv, NEW w \in Worker, NEW s \in {"mark_unknown", "next_row"},
         pc[w] \in RowPc, Send(w, s)
  PROVE  BytesInv'
<1> DEFINE t == cur[w].tx
<1>1. LocalTyped /\ Bytes(w) /\ TypeOK /\ Stored /\ Ledger
  BY DEF BytesInv, TypeOK, LocalTyped
<1>2. cur[w].id \in Entitlement /\ t \in Tx /\ t = stored[cur[w].id] /\ t.id = cur[w].id
  BY <1>1 DEF Bytes, RowView, Stored
<1>3. /\ mempool \subseteq mempool' /\ mempool' \subseteq mempool \cup {t}
      /\ UNCHANGED <<ledger, lease, todo, cur, seen, paused, head, included, failed, crashes>>
      /\ Goto(w, s)
  BY DEF Send
<1>4. s \in Step /\ s \notin QueuePc
  BY DEF Step, QueuePc
<1>5. /\ Only(w) /\ LocalTyped' /\ pc'[w] = s /\ todo'[w] = todo[w] /\ cur'[w] = cur[w]
      /\ stored' = stored /\ state' = state /\ payments' = payments
  BY <1>1, <1>3, <1>4, GotoMoves DEF ledger
<1>6. TypeOK'
  BY <1>1, <1>2, <1>3, <1>5 DEF TypeOK, LocalTyped
<1>7. Stored' /\ Ledger'
  BY <1>1, <1>2, <1>3, <1>5 DEF Stored, Ledger
<1>8. Bytes(w)'
  BY <1>1, <1>4, <1>5 DEF Bytes, QueuePc
<1>9. \A v \in Worker : Bytes(v)'
  BY <1>1, <1>5, <1>8, OthersKeepBytes DEF BytesInv
<1> QED BY <1>6, <1>7, <1>9 DEF BytesInv

\* Blocks take transactions of the mempool; a replaced tip gives them back.
LEMMA ChainKeepsBytes ==
  ASSUME BytesInv, (\E S \in SUBSET mempool : Block(S)) \/ Revert
  PROVE  BytesInv'
<1>1. TypeOK /\ Ledger /\ Stored /\ \A w \in Worker : Bytes(w)
  BY DEF BytesInv
<1>2. /\ UNCHANGED <<ledger, lease, local, paused, mempool, crashes>>
      /\ state' = state /\ stored' = stored /\ payments' = payments
      /\ pc' = pc /\ todo' = todo /\ cur' = cur /\ seen' = seen
  BY DEF Block, Revert, ledger, local
<1>3. Stored' /\ \A w \in Worker : Bytes(w)'
  BY <1>1, <1>2 DEF Stored, Bytes
<1>4. ASSUME NEW S \in SUBSET mempool, Block(S)
      PROVE  TypeOK' /\ Ledger'
  <2>1. /\ head' = head + 1 /\ head' \in Height /\ head \in Nat
        /\ \A t \in Tx : included'[t] = IF t \in S THEN head + 1 ELSE included[t]
        /\ included' \in [Tx -> Height] /\ failed' \subseteq failed \cup S
    BY <1>1, <1>4, ChainAssumption DEF Block, TypeOK, Height
  <2>2. S \subseteq Tx /\ failed \subseteq Tx
    BY <1>1 DEF TypeOK
  <2>3. TypeOK'
    BY <1>1, <1>2, <2>1, <2>2 DEF TypeOK
  <2>4. \A t \in Tx : included[t] \in Nat
    BY <1>1, Heights DEF TypeOK
  <2>5. Ledger'
    BY <1>1, <1>2, <2>1, <2>2, <2>4 DEF Ledger
  <2> QED BY <2>3, <2>5
<1>5. CASE Revert
  <2>1. /\ head' = head /\ included' \in [Tx -> Height]
        /\ \A t \in Tx : included'[t] = IF included[t] = head THEN 0 ELSE included[t]
        /\ failed' = {t \in failed : included[t] # head}
    BY <1>1, <1>5, Heights DEF Revert, TypeOK
  <2>2. TypeOK'
    BY <1>1, <1>2, <2>1 DEF TypeOK
  <2>3. Ledger'
    BY <1>1, <1>2, <2>1 DEF Ledger, TypeOK
  <2> QED BY <1>3, <2>2, <2>3 DEF BytesInv
<1> QED BY <1>3, <1>4, <1>5 DEF BytesInv

LEMMA BytesStep == BytesInv /\ [Next]_vars => BytesInv'
<1> SUFFICES ASSUME BytesInv, [Next]_vars PROVE BytesInv'
  OBVIOUS
<1>1. CASE UNCHANGED vars
  <2>1. /\ ledger' = ledger /\ local' = local /\ chain' = chain
        /\ lease' = lease /\ paused' = paused /\ crashes' = crashes
    BY <1>1 DEF vars
  <2>2. /\ state' = state /\ stored' = stored /\ payments' = payments
        /\ pc' = pc /\ todo' = todo /\ cur' = cur /\ seen' = seen
        /\ head' = head /\ mempool' = mempool /\ included' = included /\ failed' = failed
    BY <2>1 DEF ledger, local, chain
  <2>3. TypeOK' /\ Stored' /\ Ledger'
    BY <2>1, <2>2 DEF BytesInv, TypeOK, Stored, Ledger
  <2>4. \A w \in Worker : Bytes(w)'
    BY <2>2 DEF BytesInv, Bytes
  <2> QED BY <2>3, <2>4 DEF BytesInv
<1>2. CASE DropLease
  BY <1>2 DEF DropLease, ledger, local, chain, BytesInv, TypeOK, Stored, Bytes, Ledger
<1>3. ASSUME NEW w \in Worker, WorkerStep(w) PROVE BytesInv'
  <2>1. CASE ReviewUnsigned(w)
    BY <2>1, CallStep DEF ReviewUnsigned, PayoutState, Step, BytesInv, TypeOK
  <2>2. CASE MarkBroadcastUnknown(w)
    BY <2>2, CallStep DEF MarkBroadcastUnknown, PayoutState, Step, RowPc, BytesInv, TypeOK
  <2>3. CASE ReviewExpired(w)
    BY <2>3, CallStep DEF ReviewExpired, PayoutState, Step, RowPc, BytesInv, TypeOK
  <2>4. CASE MarkIncluded(w)
    <3> DEFINE s == IF SeenFinal(w) THEN "mark_finalized" ELSE "next_row"
    <3>1. s \in Step /\ s \in RowPc \cup {"next_row"}
      BY DEF Step, RowPc
    <3>2. Call(w, {"signed", "broadcast_unknown"}, "included", s)
      BY <2>4 DEF MarkIncluded
    <3> HIDE DEF s
    <3> QED BY <2>4, <3>1, <3>2, CallStep DEF MarkIncluded, PayoutState, RowPc, BytesInv, TypeOK
  <2>5. CASE MarkFinalized(w)
    <3>1. CASE Call(w, {"included"}, "finalized", "next_row")
               /\ payments' = IF state'[cur[w].id] = "finalized"
                              THEN [payments EXCEPT ![cur[w].id] = @ + 1] ELSE payments
      <4>1. payments' \in [Entitlement -> Nat]
        <5>1. payments \in [Entitlement -> Nat]
          BY DEF BytesInv, TypeOK
        <5>2. pc[w] \in RowPc /\ Bytes(w)
          BY <2>5 DEF MarkFinalized, RowPc, BytesInv
        <5>3. cur[w].id \in Entitlement
          BY <5>2 DEF Bytes, RowView
        <5>4. [payments EXCEPT ![cur[w].id] = @ + 1] \in [Entitlement -> Nat]
          BY <5>1, <5>3
        <5> QED BY <3>1, <5>1, <5>4
      <4> QED BY <2>5, <3>1, <4>1, CallStep DEF MarkFinalized, PayoutState, Step, RowPc
    <3>2. CASE EndPass(w) /\ UNCHANGED <<state, payments>>
      <4>1. /\ Only(w) /\ LocalTyped' /\ pc'[w] = "idle" /\ todo'[w] = {}
            /\ lease' \in {lease, Nobody} /\ LocalTyped
        BY <3>2, EndPassMoves DEF BytesInv, TypeOK, LocalTyped
      <4>2. Bytes(w)'
        BY <4>1 DEF Bytes, RowPc, QueuePc
      <4>3. UNCHANGED <<ledger, chain, paused, crashes>>
        BY <2>5, <3>2 DEF MarkFinalized, ledger
      <4> QED BY <4>1, <4>2, <4>3, QuietStep DEF BytesInv, TypeOK
    <3> QED BY <2>5, <3>1, <3>2 DEF MarkFinalized
  <2>6. CASE Broadcast(w) \/ Rebroadcast(w)
    BY <2>6, SendKeepsBytes DEF Broadcast, Rebroadcast, RowPc
  <2> QED BY <1>3, <2>1, <2>2, <2>3, <2>4, <2>5, <2>6, LooksKeepBytes, SigningKeepsBytes
          DEF WorkerStep
<1> QED BY <1>1, <1>2, <1>3, LooksKeepBytes, ChainKeepsBytes DEF Next

LEMMA BytesHold == Spec => []BytesInv
BY BytesInit, BytesStep, PTL DEF Spec

\* The ledger, the workers and the chain are well typed whatever happens.
THEOREM PayoutIsTyped == Spec => []TypeOK
<1>1. BytesInv => TypeOK
  BY DEF BytesInv
<1> QED BY <1>1, BytesHold, PTL

\* However many workers race, crash and sign again, one transaction at most
\* leaves for an entitlement, with or without the payout lease.
THEOREM OneTransactionLeaves == Spec => []OneTransaction
<1>1. BytesInv => OneTransaction
  BY DEF BytesInv, Ledger, OneTransaction
<1> QED BY <1>1, BytesHold, PTL

-----------------------------------------------------------------------------
(* What the chain was seen to say stays true                               *)

\* The height is read before the inclusion, so an inclusion that is final at
\* that height cannot be replaced, and bytes that are expired at it and were
\* not included cannot be any more.
Judged(w) ==
  /\ seen[w].head <= head
  /\ pc[w] \in JudgePc =>
       /\ SeenFinal(w) => included[cur[w].tx] = seen[w].at /\ cur[w].tx \notin failed
       /\ seen[w].at = 0 /\ Expired(w) => included[cur[w].tx] = 0
  /\ pc[w] = "mark_finalized" => SeenFinal(w)
  /\ pc[w] = "review_expired" => seen[w].at = 0 /\ Expired(w)

JudgeInv == (\A w \in Worker : Judged(w)) /\ FinalizedIsPaid

LEMMA MacroAfter ==
  ASSUME NEW h \in Nat
  PROVE  MacroBlockAfter(h) \in Nat /\ MacroBlockAfter(h) > h
  BY ChainAssumption DEF MacroBlockAfter

LEMMA NumbersTyped ==
  ASSUME BytesInv
  PROVE  /\ head \in Nat
         /\ \A w \in Worker : seen[w].head \in Nat /\ seen[w].at \in Nat
         /\ \A t \in Tx : included[t] \in Nat /\ t.start \in Nat
<1>1. /\ head \in Height /\ included \in [Tx -> Height]
      /\ seen \in [Worker -> [head: Height, at: Height]]
  BY DEF BytesInv, TypeOK
<1> QED BY <1>1, Heights DEF Tx

LEMMA PaidStays ==
  ASSUME FinalizedIsPaid, mempool \subseteq mempool', UNCHANGED <<head, included, failed>>,
         \A e \in Entitlement : state'[e] = "finalized" =>
           state[e] = "finalized" /\ stored'[e] = stored[e]
  PROVE  FinalizedIsPaid'
  BY DEF FinalizedIsPaid

LEMMA OthersJudged ==
  ASSUME NEW w, NEW v \in Worker \ {w}, Only(w), Judged(v), UNCHANGED <<head, included, failed>>
  PROVE  Judged(v)'
<1>1. pc'[v] = pc[v] /\ cur'[v] = cur[v] /\ seen'[v] = seen[v]
  BY DEF Only
<1> QED BY <1>1 DEF Judged, SeenFinal, Expired

\* A step of w that is not a judgement and finalizes nothing.
LEMMA NotJudging ==
  ASSUME JudgeInv, NEW w \in Worker, Only(w), pc'[w] \notin JudgePc, seen'[w].head <= head,
         mempool \subseteq mempool', UNCHANGED <<head, included, failed>>,
         \A e \in Entitlement : state'[e] = "finalized" =>
           state[e] = "finalized" /\ stored'[e] = stored[e]
  PROVE  JudgeInv'
<1>1. Judged(w)'
  BY DEF Judged, JudgePc
<1>2. \A v \in Worker : Judged(v)'
  BY <1>1, OthersJudged DEF JudgeInv
<1> QED BY <1>2, PaidStays DEF JudgeInv

LEMMA JudgeInit == Init => JudgeInv
<1> SUFFICES ASSUME Init PROVE JudgeInv
  OBVIOUS
<1>1. \A w \in Worker : Judged(w)
  BY DEF Init, Judged, JudgePc, Nothing
<1>2. FinalizedIsPaid
  BY DEF Init, FinalizedIsPaid
<1> QED BY <1>1, <1>2 DEF JudgeInv

LEMMA LooksKeepJudged ==
  ASSUME BytesInv, JudgeInv, NEW w \in Worker,
         \/ Kick(w) \/ ListQueued(w) \/ Prepare(w) \/ QueueDone(w) \/ ListReconcilable(w)
         \/ NextRow(w) \/ PassDone(w) \/ ReadHead(w) \/ ReadTx(w) \/ Judge(w) \/ Crash(w)
  PROVE  JudgeInv'
<1>1. LocalTyped /\ Bytes(w) /\ Judged(w)
  BY DEF BytesInv, TypeOK, LocalTyped, JudgeInv
<1>2. /\ state' = state /\ stored' = stored
      /\ head' = head /\ mempool' = mempool /\ included' = included /\ failed' = failed
  BY DEF Kick, ListQueued, Prepare, QueueDone, ListReconcilable, NextRow, PassDone,
         ReadHead, ReadTx, Judge, Crash, ledger, chain
<1>3. head \in Nat /\ seen[w].head \in Nat /\ seen[w].head <= head
  BY <1>1, NumbersTyped DEF Judged
<1>4. ASSUME Only(w), pc'[w] \notin JudgePc, seen'[w].head <= head
      PROVE  JudgeInv'
  BY <1>2, <1>4, NotJudging
<1>5. ASSUME Only(w), Judged(w)' PROVE JudgeInv'
  <2>1. \A v \in Worker : Judged(v)'
    BY <1>2, <1>5, OthersJudged DEF JudgeInv
  <2> QED BY <1>2, <2>1, PaidStays DEF JudgeInv
<1>6. ASSUME NEW s \in Step \ JudgePc, Goto(w, s), UNCHANGED seen,
             \A v \in Worker \ {w} : todo'[v] = todo[v] /\ cur'[v] = cur[v]
      PROVE  JudgeInv'
  <2>1. Only(w) /\ pc'[w] = s /\ seen'[w] = seen[w]
    BY <1>1, <1>6 DEF LocalTyped, Goto, Only
  <2> QED BY <1>3, <1>4, <2>1
<1>7. CASE \/ Kick(w) \/ ListQueued(w) \/ Prepare(w) \/ QueueDone(w) \/ ListReconcilable(w)
           \/ NextRow(w)
  <2>1. PICK s : Goto(w, s) /\ s \in Step \ JudgePc
    <3>1. {"list_queued", "list_reconcilable", "next_queued", "mark_signed", "review_unsigned",
           "next_row", "broadcast", "read_head"} \subseteq Step \ JudgePc
      BY DEF Step, JudgePc
    <3> QED BY <1>7, <3>1 DEF Kick, ListQueued, Prepare, QueueDone, ListReconcilable, NextRow, FirstStep
  <2>2. seen' = seen
    BY <1>7 DEF Kick, ListQueued, Prepare, QueueDone, ListReconcilable, NextRow
  <2>3. \A v \in Worker \ {w} : todo'[v] = todo[v] /\ cur'[v] = cur[v]
    BY <1>1, <1>7 DEF Kick, ListQueued, Prepare, QueueDone, ListReconcilable, NextRow, LocalTyped
  <2> QED BY <1>6, <2>1, <2>2, <2>3
<1>8. CASE PassDone(w) \/ Crash(w)
  <2>1. Only(w) /\ pc'[w] = "idle" /\ seen'[w] = Nothing
    BY <1>1, <1>8, EndPassMoves DEF PassDone, Crash
  <2>2. seen'[w].head <= head /\ pc'[w] \notin JudgePc
    BY <1>3, <2>1 DEF Nothing, JudgePc
  <2> QED BY <1>4, <2>1, <2>2
<1>9. CASE ReadHead(w)
  <2>1. /\ Only(w) /\ pc'[w] \in {"read_tx", "next_row"}
        /\ seen'[w].head \in {head, seen[w].head}
    BY <1>1, <1>9 DEF ReadHead, Goto, Only, LocalTyped
  <2> QED BY <1>3, <1>4, <2>1 DEF JudgePc
<1>10. CASE ReadTx(w)
  <2> DEFINE t == cur[w].tx
  <2>1. CASE Goto(w, "next_row") /\ UNCHANGED seen
    BY <1>6, <1>10, <2>1 DEF ReadTx, Step, JudgePc
  <2>2. CASE /\ t \notin failed /\ seen' = [seen EXCEPT ![w].at = included[t]]
             /\ Goto(w, "judge")
    <3>1. /\ Only(w) /\ pc'[w] = "judge" /\ cur'[w] = cur[w]
          /\ seen'[w].head = seen[w].head /\ seen'[w].at = included[t]
      BY <1>1, <1>10, <2>2 DEF ReadTx, Goto, Only, LocalTyped
    <3>2. Judged(w)'
      BY <1>2, <1>3, <2>2, <3>1 DEF Judged, JudgePc
    <3> QED BY <1>5, <3>1, <3>2
  <2> QED BY <1>10, <2>1, <2>2 DEF ReadTx
<1>11. CASE Judge(w)
  <2>1. /\ Only(w) /\ pc'[w] = AfterStatus(w) /\ cur'[w] = cur[w] /\ seen'[w] = seen[w]
        /\ pc[w] \in JudgePc
    BY <1>1, <1>11 DEF Judge, Goto, Only, LocalTyped, JudgePc
  <2>2. /\ AfterStatus(w) = "mark_finalized" => SeenFinal(w)
        /\ AfterStatus(w) = "review_expired" => seen[w].at = 0 /\ Expired(w)
    BY DEF AfterStatus
  <2>3. Judged(w)'
    BY <1>1, <1>2, <2>1, <2>2 DEF Judged, SeenFinal, Expired
  <2> QED BY <1>5, <2>1, <2>3
<1> QED BY <1>7, <1>8, <1>9, <1>10, <1>11

\* A row is finalized with its own bytes in a block that is final.
LEMMA CallsKeepJudged ==
  ASSUME BytesInv, JudgeInv, NEW w \in Worker, pc[w] \in RowPc \cup {"review_unsigned"},
         NEW previous, NEW next \in PayoutState, NEW then \in Step,
         Call(w, previous, next, then),
         then \in JudgePc => then = "mark_finalized" /\ pc[w] = "mark_included" /\ SeenFinal(w),
         next = "finalized" => pc[w] = "mark_finalized",
         UNCHANGED <<stored, chain>>
  PROVE  JudgeInv'
<1> DEFINE e == cur[w].id
<1>1. /\ LocalTyped /\ state \in [Entitlement -> PayoutState]
      /\ stored \in [Entitlement -> Tx \cup {NoTx}]
  BY DEF BytesInv, TypeOK, LocalTyped
<1>2. /\ Bytes(w) /\ Judged(w) /\ Ledger /\ cur[w] \in RowView /\ e \in Entitlement
  <2>1. Bytes(w) /\ Judged(w) /\ Ledger
    BY DEF BytesInv, JudgeInv
  <2>2. cur[w] \in RowView
    BY <2>1 DEF Bytes, QueuePc
  <2> QED BY <2>1, <2>2 DEF RowView
<1>3. /\ Only(w)
      /\ \A x \in Entitlement \ {e} : state'[x] = state[x]
      /\ \/ /\ state'[e] = next
            /\ cur'[w] = [id |-> e, state |-> next, tx |-> stored[e]]
            /\ pc'[w] = then /\ seen'[w] = seen[w]
         \/ /\ state' = state /\ EndPass(w)
  <2>1. /\ Only(w) /\ LocalTyped'
        /\ state' \in [Entitlement -> PayoutState]
        /\ \A x \in Entitlement \ {e} : state'[x] = state[x]
        /\ \/ /\ state[e] \in previous \cup {next} /\ state'[e] = next
              /\ cur'[w] = [id |-> e, state |-> next, tx |-> stored[e]]
              /\ pc'[w] = then /\ todo'[w] = todo[w] /\ seen'[w] = seen[w]
              /\ lease' = lease
           \/ /\ state[e] \notin previous \cup {next} /\ state' = state
              /\ EndPass(w)
    BY <1>1, <1>2, CallMoves
  <2> QED BY <2>1
<1>4. /\ stored' = stored /\ head' = head /\ mempool' = mempool /\ included' = included
      /\ failed' = failed /\ head \in Nat /\ seen[w].head \in Nat /\ seen[w].at \in Nat
  BY NumbersTyped DEF chain
<1>5. Judged(w)'
  <2>1. CASE EndPass(w)
    <3>1. pc'[w] = "idle" /\ seen'[w] = Nothing
      BY <1>1, <2>1, EndPassMoves
    <3> QED BY <1>4, <3>1 DEF Judged, JudgePc, Nothing
  <2>2. CASE /\ cur'[w] = [id |-> e, state |-> next, tx |-> stored[e]]
             /\ pc'[w] = then /\ seen'[w] = seen[w]
    <3>1. CASE then \notin JudgePc
      BY <1>2, <1>4, <2>2, <3>1 DEF Judged, JudgePc
    <3>2. CASE then \in JudgePc
      <4>1. /\ pc'[w] = "mark_finalized" /\ SeenFinal(w) /\ pc[w] \in JudgePc /\ pc[w] \in RowPc
        BY <2>2, <3>2 DEF JudgePc, RowPc
      <4>2. cur'[w].tx = cur[w].tx
        BY <1>2, <2>2, <4>1 DEF Bytes
      <4> QED BY <1>2, <1>4, <2>2, <4>1, <4>2 DEF Judged, SeenFinal, Expired
    <3> QED BY <3>1, <3>2
  <2> QED BY <1>3, <2>1, <2>2
<1>6. FinalizedIsPaid'
  <2>1. CASE state'[e] # "finalized" \/ state' = state
    BY <1>3, <1>4, <2>1, PaidStays DEF JudgeInv
  <2>2. CASE state'[e] = "finalized" /\ next = "finalized"
    <3>1. /\ pc[w] = "mark_finalized" /\ pc[w] \in JudgePc \cap RowPc
      BY <2>2 DEF JudgePc, RowPc
    <3>2. /\ SeenFinal(w) /\ included[cur[w].tx] = seen[w].at /\ cur[w].tx \notin failed
          /\ cur[w].tx = stored[e] /\ stored[e] \in Tx /\ seen[w].head <= head
      BY <1>1, <1>2, <3>1 DEF Judged, Bytes
    <3>3. seen[w].at # 0 /\ MacroBlockAfter(seen[w].at) <= seen[w].head
          /\ MacroBlockAfter(seen[w].at) \in Nat
      BY <1>4, <3>2, MacroAfter DEF SeenFinal
    <3>4. stored[e] \in mempool
      BY <1>2, <3>2, <3>3 DEF Ledger
    <3> QED BY <1>3, <1>4, <3>2, <3>3, <3>4 DEF JudgeInv, FinalizedIsPaid
  <2> QED BY <1>3, <2>1, <2>2
<1>7. \A v \in Worker : Judged(v)'
  BY <1>3, <1>4, <1>5, OthersJudged DEF JudgeInv
<1> QED BY <1>6, <1>7 DEF JudgeInv

\* A block includes nothing twice and nothing expired; what a replaced tip
\* drops was not final.
LEMMA ChainKeepsJudged ==
  ASSUME BytesInv, JudgeInv, (\E S \in SUBSET mempool : Block(S)) \/ Revert
  PROVE  JudgeInv'
<1>1. /\ state' = state /\ stored' = stored /\ mempool' = mempool
      /\ pc' = pc /\ cur' = cur /\ seen' = seen
  BY DEF Block, Revert, ledger, local
<1>2. /\ head \in Nat /\ \A w \in Worker : seen[w].head \in Nat /\ seen[w].at \in Nat
      /\ \A t \in Tx : included[t] \in Nat /\ t.start \in Nat
      /\ Window \in Nat
  BY NumbersTyped, ChainAssumption
<1>3. \A w \in Worker : pc[w] \in JudgePc => cur[w].tx \in Tx
  BY DEF BytesInv, Bytes, JudgePc, RowPc, RowView
<1>4. \A w \in Worker : SeenFinal(w) => seen[w].at < seen[w].head
  BY <1>2, MacroAfter DEF SeenFinal
<1>5. \A e \in Entitlement : state[e] = "finalized" =>
        /\ stored[e] \in Tx /\ stored[e] \in mempool \ failed
        /\ included[stored[e]] # 0 /\ included[stored[e]] < head
        /\ head >= MacroBlockAfter(included[stored[e]])
        /\ MacroBlockAfter(included[stored[e]]) \in Nat
  <2>1. mempool \subseteq Tx
    BY DEF BytesInv, TypeOK
  <2> QED BY <2>1, <1>2, MacroAfter DEF JudgeInv, FinalizedIsPaid
<1>6. ASSUME NEW S \in SUBSET mempool, Block(S) PROVE JudgeInv'
  <2>1. /\ head' = head + 1 /\ failed' \subseteq failed \cup S
        /\ \A t \in Tx : included'[t] = IF t \in S THEN head + 1 ELSE included[t]
        /\ \A t \in S : included[t] = 0 /\ head + 1 <= t.start + Window
    BY <1>6 DEF Block, Includable
  <2>2. ASSUME NEW w \in Worker PROVE Judged(w)'
    <3>1. seen[w].head <= head /\ seen[w].head <= head'
      BY <1>2, <2>1 DEF JudgeInv, Judged
    <3>2. ASSUME pc[w] \in JudgePc, SeenFinal(w)
          PROVE  included'[cur[w].tx] = seen[w].at /\ cur[w].tx \notin failed'
      <4>1. included[cur[w].tx] = seen[w].at /\ cur[w].tx \notin failed /\ seen[w].at # 0
        BY <3>2 DEF JudgeInv, Judged, SeenFinal
      <4> QED BY <1>3, <2>1, <3>2, <4>1
    <3>3. ASSUME pc[w] \in JudgePc, seen[w].at = 0, Expired(w)
          PROVE  included'[cur[w].tx] = 0
      <4>1. included[cur[w].tx] = 0 /\ cur[w].tx \in Tx
        BY <1>3, <3>3 DEF JudgeInv, Judged
      <4>2. cur[w].tx \notin S
        BY <1>2, <2>1, <3>1, <3>3, <4>1 DEF Expired
      <4> QED BY <2>1, <4>1, <4>2
    <3> QED BY <1>1, <3>1, <3>2, <3>3 DEF JudgeInv, Judged, SeenFinal, Expired
  <2>3. FinalizedIsPaid'
    BY <1>1, <1>2, <1>5, <2>1 DEF FinalizedIsPaid
  <2> QED BY <2>2, <2>3 DEF JudgeInv
<1>7. CASE Revert
  <2>1. /\ head' = head /\ failed' \subseteq failed
        /\ \A t \in Tx : included'[t] = IF included[t] = head THEN 0 ELSE included[t]
    BY <1>7 DEF Revert
  <2>2. ASSUME NEW w \in Worker PROVE Judged(w)'
    <3>1. seen[w].head <= head
      BY DEF JudgeInv, Judged
    <3>2. ASSUME pc[w] \in JudgePc, SeenFinal(w)
          PROVE  included'[cur[w].tx] = seen[w].at /\ cur[w].tx \notin failed'
      <4>1. included[cur[w].tx] = seen[w].at /\ cur[w].tx \notin failed /\ seen[w].at < head
        BY <1>2, <1>4, <3>1, <3>2 DEF JudgeInv, Judged
      <4> QED BY <1>2, <1>3, <2>1, <3>2, <4>1
    <3>3. ASSUME pc[w] \in JudgePc, seen[w].at = 0, Expired(w)
          PROVE  included'[cur[w].tx] = 0
      BY <1>3, <2>1, <3>3 DEF JudgeInv, Judged
    <3> QED BY <1>1, <2>1, <3>1, <3>2, <3>3 DEF JudgeInv, Judged, SeenFinal, Expired
  <2>3. FinalizedIsPaid'
    BY <1>1, <1>2, <1>5, <2>1 DEF FinalizedIsPaid
  <2> QED BY <2>2, <2>3 DEF JudgeInv
<1> QED BY <1>6, <1>7

LEMMA JudgeStep == BytesInv /\ JudgeInv /\ [Next]_vars => JudgeInv'
<1> SUFFICES ASSUME BytesInv, JudgeInv, [Next]_vars PROVE JudgeInv'
  OBVIOUS
<1>0. ASSUME UNCHANGED <<ledger, local, chain>> PROVE JudgeInv'
  <2>1. /\ state' = state /\ stored' = stored /\ pc' = pc /\ cur' = cur /\ seen' = seen
        /\ head' = head /\ mempool' = mempool /\ included' = included /\ failed' = failed
    BY <1>0 DEF ledger, local, chain
  <2> QED BY <2>1 DEF JudgeInv, Judged, SeenFinal, Expired, FinalizedIsPaid
<1>1. CASE UNCHANGED vars
  BY <1>0, <1>1 DEF vars
<1>2. CASE DropLease
  BY <1>0, <1>2 DEF DropLease
<1>3. ASSUME NEW w \in Worker, WorkerStep(w) PROVE JudgeInv'
  <2>0. LocalTyped /\ head \in Nat /\ seen[w].head \in Nat /\ seen[w].head <= head
    BY NumbersTyped DEF BytesInv, TypeOK, LocalTyped, JudgeInv, Judged
  <2>1. CASE ReviewUnsigned(w)
    BY <2>1, CallsKeepJudged DEF ReviewUnsigned, PayoutState, Step, JudgePc
  <2>2. CASE MarkBroadcastUnknown(w)
    BY <2>2, CallsKeepJudged DEF MarkBroadcastUnknown, PayoutState, Step, RowPc, JudgePc
  <2>3. CASE ReviewExpired(w)
    BY <2>3, CallsKeepJudged DEF ReviewExpired, PayoutState, Step, RowPc, JudgePc
  <2>4. CASE MarkIncluded(w)
    <3> DEFINE s == IF SeenFinal(w) THEN "mark_finalized" ELSE "next_row"
    <3>1. s \in Step /\ (s \in JudgePc => s = "mark_finalized" /\ SeenFinal(w))
      BY DEF Step, JudgePc
    <3>2. Call(w, {"signed", "broadcast_unknown"}, "included", s)
      BY <2>4 DEF MarkIncluded
    <3> HIDE DEF s
    <3> QED BY <2>4, <3>1, <3>2, CallsKeepJudged DEF MarkIncluded, PayoutState, RowPc
  <2>5. CASE MarkFinalized(w)
    <3>1. CASE Call(w, {"included"}, "finalized", "next_row")
      BY <2>5, <3>1, CallsKeepJudged DEF MarkFinalized, PayoutState, Step, RowPc, JudgePc
    <3>2. CASE EndPass(w) /\ UNCHANGED <<state, payments>>
      <4>1. Only(w) /\ pc'[w] = "idle" /\ seen'[w] = Nothing
        BY <2>0, <3>2, EndPassMoves
      <4>2. /\ seen'[w].head <= head /\ pc'[w] \notin JudgePc
            /\ UNCHANGED <<stored, head, mempool, included, failed>>
        BY <2>0, <2>5, <4>1 DEF Nothing, JudgePc, MarkFinalized, chain
      <4> QED BY <3>2, <4>1, <4>2, NotJudging
    <3> QED BY <2>5, <3>1, <3>2 DEF MarkFinalized
  <2>6. CASE Broadcast(w) \/ Rebroadcast(w)
    <3>1. PICK s \in {"mark_unknown", "next_row"} : Send(w, s)
      BY <2>6 DEF Broadcast, Rebroadcast
    <3>2. /\ Only(w) /\ pc'[w] \notin JudgePc /\ seen'[w] = seen[w]
      BY <2>0, <3>1, GotoMoves DEF Send, Step, JudgePc
    <3>3. /\ mempool \subseteq mempool' /\ UNCHANGED <<state, stored, head, included, failed>>
      BY <3>1 DEF Send, ledger
    <3> QED BY <2>0, <3>2, <3>3, NotJudging
  <2>7. CASE MarkSigned(w)
    <3>1. PICK s \in {"next_queued", "review_unsigned"} : Goto(w, s)
      BY <2>7 DEF MarkSigned
    <3>2. /\ Only(w) /\ pc'[w] \notin JudgePc /\ seen'[w] = seen[w]
      BY <2>0, <2>7, <3>1, GotoMoves DEF MarkSigned, Step, JudgePc
    <3>3. UNCHANGED <<mempool, head, included, failed>>
      BY <2>7 DEF MarkSigned, chain
    <3>4. \A e \in Entitlement : state'[e] = "finalized" => state[e] = "finalized"
      BY <2>7 DEF MarkSigned, BytesInv, TypeOK
    <3>5. \A e \in Entitlement : state[e] = "finalized" => stored'[e] = stored[e]
      BY <2>7, SigningKeepsBytes DEF BytesInv, Stored
    <3> QED BY <2>0, <3>2, <3>3, <3>4, <3>5, NotJudging
  <2> QED BY <1>3, <2>1, <2>2, <2>3, <2>4, <2>5, <2>6, <2>7, LooksKeepJudged DEF WorkerStep
<1> QED BY <1>1, <1>2, <1>3, LooksKeepJudged, ChainKeepsJudged DEF Next

LEMMA JudgeHolds == Spec => []JudgeInv
<1>1. JudgeInv /\ BytesInv /\ [Next]_vars => JudgeInv'
  BY JudgeStep
<1> QED BY <1>1, JudgeInit, BytesHold, PTL DEF Spec

\* A reward is booked as paid only with its own transaction executed in a
\* block that cannot be replaced, with or without the payout lease.
THEOREM FinalizedArePaid == Spec => []FinalizedIsPaid
<1>1. JudgeInv => FinalizedIsPaid
  BY DEF JudgeInv
<1> QED BY <1>1, JudgeHolds, PTL

-----------------------------------------------------------------------------
(* One worker at a time                                                    *)

\* A pass runs exactly under the lease.
Alone == \A w \in Worker : pc[w] # "idle" <=> lease = w

\* What a worker is about to do fits the state it knows of the row.
Phase(w) ==
  /\ pc[w] \in RowPc => cur[w].state \in Reconcilable
  /\ pc[w] \in {"broadcast", "mark_unknown"} => cur[w].state = "signed"
  /\ pc[w] \in {"rebroadcast", "review_expired"} => cur[w].state = "broadcast_unknown"
  /\ pc[w] = "mark_included" => cur[w].state \in {"signed", "broadcast_unknown"}
  /\ pc[w] = "mark_finalized" => cur[w].state = "included"

\* The rows a worker has read and not handled are what the table holds.
Current(w) ==
  /\ pc[w] \in {"next_queued", "next_row"} \cup QueuePc \cup RowPc =>
       /\ \A r \in todo[w] : state[r.id] = r.state
       /\ \A r, q \in todo[w] : r.id = q.id => r = q
  /\ pc[w] \in {"next_queued"} \cup QueuePc => \A r \in todo[w] : r.state = "queued"
  /\ pc[w] \in QueuePc \cup RowPc => \A r \in todo[w] : r.id # cur[w].id
  /\ pc[w] = "mark_signed" => state[cur[w].id] = "queued"
  /\ pc[w] = "review_unsigned" =>
       /\ state[cur[w].id] \in {"queued", "signed"}
       /\ \A t \in mempool : t.id # cur[w].id
  /\ pc[w] \in RowPc => state[cur[w].id] = cur[w].state

LeaseInv == Alone /\ (\A w \in Worker : Phase(w) /\ Current(w)) /\ ReviewedIsUnpaid /\ PaidOnce

LEMMA OthersCurrent ==
  ASSUME NEW w, NEW v \in Worker \ {w}, Only(w), Phase(v), Current(v),
         pc[v] = "idle" \/ UNCHANGED <<state, mempool>>
  PROVE  Phase(v)' /\ Current(v)'
<1>1. pc'[v] = pc[v] /\ todo'[v] = todo[v] /\ cur'[v] = cur[v]
  BY DEF Only
<1>2. Phase(v)'
  BY <1>1 DEF Phase
<1>3. CASE pc[v] = "idle"
  BY <1>1, <1>2, <1>3 DEF Current, RowPc, QueuePc
<1>4. CASE UNCHANGED <<state, mempool>>
  BY <1>1, <1>2, <1>4 DEF Current
<1> QED BY <1>3, <1>4

LEMMA WorkerKeepsLease ==
  ASSUME LeaseInv, NEW w \in Worker, Only(w),
         UNCHANGED <<state, mempool>> \/ pc[w] # "idle",
         pc'[w] # "idle" <=> lease' = w,
         \A v \in Worker \ {w} : lease' = v <=> lease = v,
         Phase(w)', Current(w)', ReviewedIsUnpaid', PaidOnce'
  PROVE  LeaseInv'
<1>1. \A v \in Worker \ {w} : pc'[v] = pc[v]
  BY DEF Only
<1>2. Alone'
  BY <1>1 DEF LeaseInv, Alone
<1>3. ASSUME NEW v \in Worker \ {w} PROVE pc[v] = "idle" \/ UNCHANGED <<state, mempool>>
  BY <1>3 DEF LeaseInv, Alone
<1>4. \A v \in Worker : Phase(v)' /\ Current(v)'
  BY <1>3, OthersCurrent DEF LeaseInv
<1> QED BY <1>2, <1>4 DEF LeaseInv

\* Where neither the tables nor the chain change, the two promises stay.
LEMMA PromisesStay ==
  ASSUME ReviewedIsUnpaid, PaidOnce, UNCHANGED <<ledger, chain>>
  PROVE  ReviewedIsUnpaid' /\ PaidOnce' /\ UNCHANGED <<state, mempool>>
<1>1. /\ state' = state /\ payments' = payments /\ head' = head
      /\ mempool' = mempool /\ included' = included
  BY DEF ledger, chain
<1> QED BY <1>1 DEF ReviewedIsUnpaid, PaidOnce

\* The end of a pass gives the lease back.
LEMMA EndKeepsLease ==
  ASSUME BytesInv, LeaseInv, NEW w \in Worker, EndPass(w), UNCHANGED <<ledger, chain>>
  PROVE  LeaseInv'
<1>1. /\ Only(w) /\ pc'[w] = "idle" /\ lease' = IF lease = w THEN Nobody ELSE lease
  BY EndPassMoves DEF BytesInv, TypeOK, LocalTyped
<1>2. lease' # w /\ \A v \in Worker \ {w} : lease' = v <=> lease = v
  BY <1>1, NoneAssumption
<1>3. Phase(w)' /\ Current(w)'
  BY <1>1 DEF Phase, Current, RowPc, QueuePc
<1> QED BY <1>1, <1>2, <1>3, WorkerKeepsLease, PromisesStay DEF LeaseInv

LEMMA LooksKeepLease ==
  ASSUME BytesInv, LeaseInv, NEW w \in Worker,
         \/ Kick(w) \/ ListQueued(w) \/ Prepare(w) \/ QueueDone(w) \/ ListReconcilable(w)
         \/ NextRow(w) \/ PassDone(w) \/ ReadHead(w) \/ ReadTx(w) \/ Judge(w) \/ Crash(w)
  PROVE  LeaseInv'
<1>1. LocalTyped /\ Bytes(w) /\ Phase(w) /\ Current(w) /\ (pc[w] # "idle" <=> lease = w)
  BY DEF BytesInv, TypeOK, LocalTyped, LeaseInv, Alone
<1>2. /\ UNCHANGED <<ledger, chain>> /\ state' = state /\ stored' = stored /\ mempool' = mempool
  BY DEF Kick, ListQueued, Prepare, QueueDone, ListReconcilable, NextRow, PassDone,
         ReadHead, ReadTx, Judge, Crash, ledger, chain
<1>3. ASSUME Only(w), pc'[w] # "idle", lease' = w, lease \in {w, Nobody}, Phase(w)', Current(w)'
      PROVE  LeaseInv'
  <2>1. \A v \in Worker \ {w} : lease' = v <=> lease = v
    BY <1>3, NoneAssumption
  <2> QED BY <1>2, <1>3, <2>1, WorkerKeepsLease, PromisesStay DEF LeaseInv
<1>4. ASSUME NEW s \in Step \ ({"idle", "next_queued", "next_row"} \cup QueuePc \cup RowPc), Goto(w, s),
             \A v \in Worker \ {w} : todo'[v] = todo[v] /\ cur'[v] = cur[v] /\ seen'[v] = seen[v],
             lease' = w, lease \in {w, Nobody}
      PROVE  LeaseInv'
  <2>1. Only(w) /\ pc'[w] = s
    BY <1>1, <1>4 DEF LocalTyped, Goto, Only
  <2>2. Phase(w)' /\ Current(w)'
    BY <1>4, <2>1 DEF Phase, Current, RowPc, QueuePc
  <2> QED BY <1>3, <1>4, <2>1, <2>2
<1>5. ASSUME NEW S \in SUBSET PayoutState, NEW s \in {"next_queued", "next_row"},
             todo' = [todo EXCEPT ![w] = Rows(S)], Goto(w, s), pc[w] # "idle",
             s = "next_queued" => S = {"queued"},
             UNCHANGED <<lease, cur, seen>>
      PROVE  LeaseInv'
  <2>1. /\ Only(w) /\ pc'[w] = s /\ todo'[w] = Rows(S) /\ s \notin RowPc \cup QueuePc
    BY <1>1, <1>5 DEF LocalTyped, Goto, Only, RowPc, QueuePc
  <2>2. \A r \in Rows(S) : /\ r.state \in S /\ state[r.id] = r.state
                           /\ r = [id |-> r.id, state |-> state[r.id], tx |-> stored[r.id]]
    BY DEF Rows
  <2>3. \A r, q \in Rows(S) : r.id = q.id => r = q
    BY <2>2
  <2>4. Phase(w)' /\ Current(w)'
    BY <1>2, <1>5, <2>1, <2>2, <2>3 DEF Phase, Current
  <2> QED BY <1>1, <1>3, <1>5, <2>1, <2>4
<1>6. ASSUME NEW s \in RowPc \cup {"next_row"}, Goto(w, s), UNCHANGED <<lease, todo, cur>>,
             \A v \in Worker \ {w} : seen'[v] = seen[v],
             pc[w] \in RowPc, Phase(w)'
      PROVE  LeaseInv'
  <2>1. /\ Only(w) /\ pc'[w] = s /\ todo'[w] = todo[w] /\ cur'[w] = cur[w] /\ pc'[w] # "idle"
        /\ s \notin QueuePc \cup {"next_queued"} /\ pc[w] # "idle"
    BY <1>1, <1>6 DEF LocalTyped, Goto, Only, RowPc, QueuePc
  <2>2. Current(w)'
    BY <1>1, <1>2, <1>6, <2>1 DEF Current, QueuePc
  <2> QED BY <1>1, <1>3, <1>6, <2>1, <2>2
<1>7. CASE Kick(w) \/ QueueDone(w)
  <2>1. PICK s \in Step \ ({"idle", "next_queued", "next_row"} \cup QueuePc \cup RowPc) : Goto(w, s)
    <3>1. {"list_queued", "list_reconcilable"} \subseteq
            Step \ ({"idle", "next_queued", "next_row"} \cup QueuePc \cup RowPc)
      BY DEF Step, QueuePc, RowPc
    <3> QED BY <1>7, <3>1 DEF Kick, QueueDone
  <2> QED BY <1>1, <1>4, <1>7, <2>1 DEF Kick, QueueDone
<1>8. CASE ListQueued(w)
  BY <1>5, <1>8 DEF ListQueued, PayoutState
<1>9. CASE ListReconcilable(w)
  BY <1>5, <1>9 DEF ListReconcilable, PayoutState, Reconcilable
<1>10. CASE Prepare(w)
  <2>1. PICK r \in todo[w], s \in QueuePc :
          /\ todo' = [todo EXCEPT ![w] = @ \ {r}] /\ Goto(w, s)
          /\ cur'[w].id = r.id /\ \A v \in Worker \ {w} : cur'[v] = cur[v]
    <3>1. PICK r \in todo[w] :
            /\ todo' = [todo EXCEPT ![w] = @ \ {r}]
            /\ \/ /\ cur' = [cur EXCEPT ![w] =
                               [r EXCEPT !.tx = [id |-> r.id, start |-> head]]]
                  /\ Goto(w, "mark_signed")
               \/ /\ cur' = [cur EXCEPT ![w] = r]
                  /\ Goto(w, "review_unsigned")
      BY <1>10 DEF Prepare
    <3>2. r \in RowView
      BY <1>1 DEF LocalTyped
    <3>3. [r EXCEPT !.tx = [id |-> r.id, start |-> head]].id = r.id
      BY <3>2 DEF RowView
    <3>4. cur'[w].id = r.id /\ \A v \in Worker \ {w} : cur'[v] = cur[v]
      <4> DEFINE c == [r EXCEPT !.tx = [id |-> r.id, start |-> head]]
      <4>1. cur' = [cur EXCEPT ![w] = c] \/ cur' = [cur EXCEPT ![w] = r]
        BY <3>1
      <4> HIDE DEF c
      <4>2. cur'[w] \in {c, r} /\ \A v \in Worker \ {w} : cur'[v] = cur[v]
        BY <1>1, <4>1 DEF LocalTyped
      <4> QED BY <3>3, <4>2 DEF c
    <3> QED BY <3>1, <3>4 DEF QueuePc
  <2>2. pc[w] = "next_queued" /\ r.state = "queued" /\ state[r.id] = "queued" /\ r.id \in Entitlement
    BY <1>1, <1>10 DEF Prepare, Current, LocalTyped, RowView
  <2>3. /\ Only(w) /\ pc'[w] = s /\ todo'[w] = todo[w] \ {r} /\ lease' = lease
        /\ s \notin RowPc \cup {"next_row", "idle"}
    BY <1>1, <1>10, <2>1 DEF Prepare, LocalTyped, Goto, Only, RowPc, QueuePc
  <2>4. \A t \in mempool : t.id # r.id
    BY <2>2, NoneAssumption DEF BytesInv, Ledger, Stored, TypeOK
  <2>5. \A q \in todo[w] \ {r} : q.id # r.id /\ state[q.id] = q.state /\ q.state = "queued"
    BY <1>1, <2>2 DEF Current
  <2>6. \A p, q \in todo[w] \ {r} : p.id = q.id => p = q
    BY <1>1, <2>2 DEF Current
  <2>7. Phase(w)' /\ Current(w)'
    BY <1>2, <2>1, <2>2, <2>3, <2>4, <2>5, <2>6 DEF Phase, Current, RowPc, QueuePc
  <2> QED BY <1>1, <1>3, <2>2, <2>3, <2>7
<1>11. CASE NextRow(w)
  <2>1. PICK r \in todo[w] :
          /\ todo' = [todo EXCEPT ![w] = @ \ {r}] /\ cur' = [cur EXCEPT ![w] = r]
          /\ Goto(w, FirstStep(w, r))
    BY <1>11 DEF NextRow
  <2>2. pc[w] = "next_row" /\ r.state \in Reconcilable /\ state[r.id] = r.state
    BY <1>1, <1>11 DEF NextRow, Current, Bytes
  <2>3. /\ Only(w) /\ pc'[w] = FirstStep(w, r) /\ todo'[w] = todo[w] \ {r} /\ cur'[w] = r
        /\ lease' = lease
    BY <1>1, <1>11, <2>1 DEF NextRow, LocalTyped, Goto, Only
  <2>4. FirstStep(w, r) \in {"broadcast", "read_head"} /\ (FirstStep(w, r) = "broadcast" => r.state = "signed")
    BY DEF FirstStep
  <2>5. \A q \in todo[w] \ {r} : q.id # r.id /\ state[q.id] = q.state
    BY <1>1, <2>2 DEF Current
  <2>6. \A p, q \in todo[w] \ {r} : p.id = q.id => p = q
    BY <1>1, <2>2 DEF Current
  <2>7. Phase(w)'
    BY <2>2, <2>3, <2>4 DEF Phase, RowPc
  <2>8. Current(w)'
    BY <1>2, <2>2, <2>3, <2>4, <2>5, <2>6 DEF Current, RowPc, QueuePc
  <2> QED BY <1>1, <1>3, <2>2, <2>3, <2>4, <2>7, <2>8
<1>12. CASE PassDone(w) \/ Crash(w)
  BY <1>2, <1>12, EndKeepsLease DEF PassDone, Crash
<1>13. CASE ReadHead(w) \/ ReadTx(w)
  <2>1. PICK s \in {"read_tx", "judge", "next_row"} : Goto(w, s)
    BY <1>13 DEF ReadHead, ReadTx
  <2>2. /\ pc[w] \in RowPc /\ UNCHANGED <<lease, todo, cur>>
        /\ \A v \in Worker \ {w} : seen'[v] = seen[v]
    BY <1>1, <1>13 DEF ReadHead, ReadTx, RowPc, LocalTyped
  <2>3. pc'[w] = s /\ cur'[w] = cur[w]
    BY <1>1, <2>1, <2>2 DEF LocalTyped, Goto
  <2>4. Phase(w)'
    BY <1>1, <2>2, <2>3 DEF Phase, RowPc
  <2> QED BY <1>6, <2>1, <2>2, <2>4 DEF RowPc
<1>14. CASE Judge(w)
  <2>1. /\ pc[w] \in RowPc /\ UNCHANGED <<lease, todo, cur, seen>> /\ Goto(w, AfterStatus(w))
    BY <1>14 DEF Judge, RowPc
  <2>2. pc'[w] = AfterStatus(w) /\ cur'[w] = cur[w] /\ cur[w].state \in Reconcilable
    BY <1>1, <2>1 DEF LocalTyped, Goto, Phase
  <2>3. /\ AfterStatus(w) \in {"next_row", "rebroadcast", "review_expired",
                               "mark_included", "mark_finalized"}
        /\ AfterStatus(w) \in {"rebroadcast", "review_expired"} => cur[w].state = "broadcast_unknown"
        /\ AfterStatus(w) = "mark_included" => cur[w].state # "included"
        /\ AfterStatus(w) = "mark_finalized" => cur[w].state = "included"
    BY DEF AfterStatus
  <2>4. Phase(w)'
    BY <2>2, <2>3 DEF Phase, Reconcilable
  <2> QED BY <1>6, <2>1, <2>3, <2>4 DEF RowPc
<1> QED BY <1>7, <1>8, <1>9, <1>10, <1>11, <1>12, <1>13, <1>14

\* A call that finds its row as the worker knows it moves it on.
LEMMA CallsKeepLease ==
  ASSUME BytesInv, LeaseInv, NEW w \in Worker, pc[w] \in RowPc \cup {"review_unsigned"},
         NEW previous, NEW next \in PayoutState, NEW then \in Step,
         Call(w, previous, next, then), state[cur[w].id] \in previous,
         \/ then = "next_queued" /\ pc[w] = "review_unsigned"
         \/ then = "next_row" /\ pc[w] \in RowPc
         \/ then = "read_head" /\ next = "broadcast_unknown" /\ pc[w] \in RowPc
         \/ then = "mark_finalized" /\ next = "included" /\ pc[w] \in RowPc,
         UNCHANGED <<stored, mempool>>, ReviewedIsUnpaid', PaidOnce'
  PROVE  LeaseInv'
<1> DEFINE e == cur[w].id
<1>1. /\ LocalTyped /\ state \in [Entitlement -> PayoutState]
      /\ stored \in [Entitlement -> Tx \cup {NoTx}]
  BY DEF BytesInv, TypeOK, LocalTyped
<1>2. Bytes(w) /\ Current(w) /\ Phase(w) /\ (pc[w] # "idle" <=> lease = w)
  BY DEF BytesInv, LeaseInv, Alone
<1>3. pc[w] # "idle" /\ lease = w /\ cur[w] \in RowView /\ e \in Entitlement
  <2>1. pc[w] # "idle" /\ cur[w] \in RowView
    BY <1>2 DEF Bytes, QueuePc, RowPc
  <2> QED BY <1>2, <2>1 DEF RowView
<1>4. /\ Only(w) /\ LocalTyped'
      /\ state' \in [Entitlement -> PayoutState]
      /\ \A x \in Entitlement \ {e} : state'[x] = state[x]
      /\ \/ /\ state[e] \in previous \cup {next} /\ state'[e] = next
            /\ cur'[w] = [id |-> e, state |-> next, tx |-> stored[e]]
            /\ pc'[w] = then /\ todo'[w] = todo[w] /\ seen'[w] = seen[w]
            /\ lease' = lease
         \/ /\ state[e] \notin previous \cup {next} /\ state' = state
            /\ EndPass(w)
  BY <1>1, <1>3, CallMoves
<1>5. /\ state'[e] = next /\ cur'[w].id = e /\ cur'[w].state = next
      /\ pc'[w] = then /\ todo'[w] = todo[w] /\ lease' = lease
  BY <1>4
<1>6. \A r \in todo[w] : r.id # e /\ state[r.id] = r.state /\ state'[r.id] = r.state
  <2>1. \A r \in todo[w] : r.id \in Entitlement
    BY <1>1 DEF LocalTyped, RowView
  <2> QED BY <1>2, <1>4, <2>1 DEF Current, QueuePc
<1>7. \A r, q \in todo[w] : r.id = q.id => r = q
  BY <1>2 DEF Current, QueuePc
<1>8. then = "next_queued" => \A r \in todo[w] : r.state = "queued"
  BY <1>2 DEF Current, QueuePc, RowPc
<1>9. Current(w)'
  BY <1>5, <1>6, <1>7, <1>8 DEF Current, QueuePc, RowPc
<1>10. Phase(w)'
  BY <1>5 DEF Phase, RowPc, Reconcilable
<1> QED BY <1>3, <1>4, <1>5, <1>9, <1>10, WorkerKeepsLease DEF Step

\* A row that is written off: nothing that is out can pay it any more.
LEMMA WrittenOff ==
  ASSUME BytesInv, ReviewedIsUnpaid, PaidOnce, NEW e \in Entitlement,
         state[e] # "finalized", state'[e] = "manual_review",
         \A x \in Entitlement \ {e} : state'[x] = state[x],
         \A t \in mempool : t.id = e => included[t] = 0 /\ head >= t.start + Window,
         UNCHANGED <<payments, mempool, included, head>>
  PROVE  ReviewedIsUnpaid' /\ PaidOnce'
<1>1. \A t \in mempool : t.id \in Entitlement
  BY DEF BytesInv, TypeOK, Tx
<1> QED BY <1>1 DEF ReviewedIsUnpaid, PaidOnce

\* A row that moves neither to review nor to paid.
LEMMA Undecided ==
  ASSUME BytesInv, ReviewedIsUnpaid, PaidOnce, NEW e \in Entitlement,
         state[e] # "finalized", state'[e] \notin {"manual_review", "finalized"},
         \A x \in Entitlement \ {e} : state'[x] = state[x],
         UNCHANGED <<payments, mempool, included, head>>
  PROVE  ReviewedIsUnpaid' /\ PaidOnce'
<1>1. \A t \in mempool : t.id \in Entitlement
  BY DEF BytesInv, TypeOK, Tx
<1> QED BY <1>1 DEF ReviewedIsUnpaid, PaidOnce

\* What a call does to the states when its row is as the worker knows it.
LEMMA MovesOn ==
  ASSUME BytesInv, NEW w \in Worker, pc[w] \in RowPc \cup {"review_unsigned"},
         NEW previous, NEW next \in PayoutState, NEW then \in Step,
         Call(w, previous, next, then), state[cur[w].id] \in previous
  PROVE  /\ cur[w].id \in Entitlement /\ state'[cur[w].id] = next
         /\ \A x \in Entitlement \ {cur[w].id} : state'[x] = state[x]
<1> DEFINE e == cur[w].id
<1>1. /\ LocalTyped /\ Bytes(w) /\ state \in [Entitlement -> PayoutState]
      /\ stored \in [Entitlement -> Tx \cup {NoTx}]
  BY DEF BytesInv, TypeOK, LocalTyped
<1>2. cur[w] \in RowView /\ e \in Entitlement
  BY <1>1 DEF Bytes, QueuePc, RowView
<1>3. /\ Only(w) /\ LocalTyped'
      /\ state' \in [Entitlement -> PayoutState]
      /\ \A x \in Entitlement \ {e} : state'[x] = state[x]
      /\ \/ /\ state[e] \in previous \cup {next} /\ state'[e] = next
            /\ cur'[w] = [id |-> e, state |-> next, tx |-> stored[e]]
            /\ pc'[w] = then /\ todo'[w] = todo[w] /\ seen'[w] = seen[w]
            /\ lease' = lease
         \/ /\ state[e] \notin previous \cup {next} /\ state' = state
            /\ EndPass(w)
  BY <1>1, <1>2, CallMoves
<1> QED BY <1>2, <1>3

LEMMA TablesKeepLease ==
  ASSUME BytesInv, JudgeInv, LeaseInv, NEW w \in Worker,
         \/ ReviewUnsigned(w) \/ MarkBroadcastUnknown(w) \/ ReviewExpired(w)
         \/ MarkIncluded(w) \/ MarkFinalized(w)
  PROVE  LeaseInv'
<1> DEFINE e == cur[w].id
<1>1. LocalTyped /\ Bytes(w) /\ Current(w) /\ Phase(w) /\ Judged(w) /\ Ledger
  BY DEF BytesInv, TypeOK, LocalTyped, LeaseInv, JudgeInv
<1>2. pc[w] \in RowPc \cup {"review_unsigned"}
  BY DEF ReviewUnsigned, MarkBroadcastUnknown, ReviewExpired, MarkIncluded, MarkFinalized, RowPc
<1>3. cur[w] \in RowView /\ e \in Entitlement
  <2>1. cur[w] \in RowView
    BY <1>1, <1>2 DEF Bytes, QueuePc
  <2> QED BY <2>1 DEF RowView
<1>4. /\ UNCHANGED <<stored, chain>> /\ UNCHANGED <<head, mempool, included, failed>>
  BY DEF ReviewUnsigned, MarkBroadcastUnknown, ReviewExpired, MarkIncluded, MarkFinalized, chain
<1>5. pc[w] \in RowPc => state[e] = cur[w].state /\ cur[w].state \in Reconcilable
  BY <1>1 DEF Current, Phase
<1>6. ASSUME NEW previous, NEW next \in PayoutState, NEW then \in Step,
             Call(w, previous, next, then), state[e] \in previous
      PROVE  state'[e] = next /\ \A x \in Entitlement \ {e} : state'[x] = state[x]
  BY <1>2, <1>6, MovesOn
<1>7. CASE ReviewUnsigned(w)
  <2>1. /\ Call(w, {"queued", "signed", "broadcast_unknown"}, "manual_review", "next_queued")
        /\ pc[w] = "review_unsigned" /\ payments' = payments
    BY <1>7 DEF ReviewUnsigned
  <2>2. state[e] \in {"queued", "signed"} /\ \A t \in mempool : t.id # e
    BY <1>1, <2>1 DEF Current
  <2>3. "manual_review" \in PayoutState /\ "next_queued" \in Step
    BY DEF PayoutState, Step
  <2>4. state'[e] = "manual_review" /\ \A x \in Entitlement \ {e} : state'[x] = state[x]
    BY <1>6, <2>1, <2>2, <2>3
  <2>5. ReviewedIsUnpaid' /\ PaidOnce'
    BY <1>3, <1>4, <2>1, <2>2, <2>4, WrittenOff DEF LeaseInv
  <2> QED BY <1>4, <2>1, <2>2, <2>3, <2>5, CallsKeepLease
<1>8. CASE MarkBroadcastUnknown(w)
  <2>1. /\ Call(w, {"signed"}, "broadcast_unknown", "read_head")
        /\ pc[w] = "mark_unknown" /\ pc[w] \in RowPc /\ payments' = payments
    BY <1>8 DEF MarkBroadcastUnknown, RowPc
  <2>2. state[e] = "signed"
    BY <1>1, <1>5, <2>1 DEF Phase
  <2>3. "broadcast_unknown" \in PayoutState /\ "read_head" \in Step
    BY DEF PayoutState, Step
  <2>4. state'[e] = "broadcast_unknown" /\ \A x \in Entitlement \ {e} : state'[x] = state[x]
    BY <1>6, <2>1, <2>2, <2>3
  <2>5. ReviewedIsUnpaid' /\ PaidOnce'
    BY <1>3, <1>4, <2>1, <2>2, <2>4, Undecided DEF LeaseInv
  <2> QED BY <1>4, <2>1, <2>2, <2>3, <2>5, CallsKeepLease
<1>9. CASE ReviewExpired(w)
  <2>1. /\ Call(w, {"queued", "signed", "broadcast_unknown"}, "manual_review", "next_row")
        /\ pc[w] = "review_expired" /\ pc[w] \in RowPc /\ pc[w] \in JudgePc /\ payments' = payments
    BY <1>9 DEF ReviewExpired, RowPc, JudgePc
  <2>2. state[e] = "broadcast_unknown"
    BY <1>1, <1>5, <2>1 DEF Phase
  <2>3. "manual_review" \in PayoutState /\ "next_row" \in Step
    BY DEF PayoutState, Step
  <2>4. state'[e] = "manual_review" /\ \A x \in Entitlement \ {e} : state'[x] = state[x]
    BY <1>6, <2>1, <2>2, <2>3
  <2>5. ASSUME NEW t \in mempool, t.id = e PROVE included[t] = 0 /\ head >= t.start + Window
    <3>1. t = cur[w].tx /\ t \in Tx
      BY <1>1, <2>1, <2>5 DEF Ledger, Bytes, BytesInv, TypeOK
    <3>2. included[t] = 0 /\ seen[w].head > t.start + Window /\ seen[w].head <= head
      BY <1>1, <2>1, <3>1 DEF Judged, Expired
    <3>3. head \in Nat /\ seen[w].head \in Nat /\ t.start \in Nat /\ Window \in Nat
      BY <3>1, NumbersTyped, ChainAssumption
    <3> QED BY <3>2, <3>3
  <2>6. ReviewedIsUnpaid' /\ PaidOnce'
    BY <1>3, <1>4, <2>1, <2>2, <2>4, <2>5, WrittenOff DEF LeaseInv
  <2> QED BY <1>4, <2>1, <2>2, <2>3, <2>6, CallsKeepLease
<1>10. CASE MarkIncluded(w)
  <2> DEFINE s == IF SeenFinal(w) THEN "mark_finalized" ELSE "next_row"
  <2>1. /\ Call(w, {"signed", "broadcast_unknown"}, "included", s)
        /\ pc[w] = "mark_included" /\ pc[w] \in RowPc /\ payments' = payments
    BY <1>10 DEF MarkIncluded, RowPc
  <2>2. state[e] \in {"signed", "broadcast_unknown"}
    BY <1>1, <1>5, <2>1 DEF Phase
  <2>3. "included" \in PayoutState /\ s \in Step /\ s \in {"mark_finalized", "next_row"}
    BY DEF PayoutState, Step
  <2> HIDE DEF s
  <2>4. state'[e] = "included" /\ \A x \in Entitlement \ {e} : state'[x] = state[x]
    BY <1>6, <2>1, <2>2, <2>3
  <2>5. ReviewedIsUnpaid' /\ PaidOnce'
    BY <1>3, <1>4, <2>1, <2>2, <2>4, Undecided DEF LeaseInv
  <2> QED BY <1>4, <2>1, <2>2, <2>3, <2>5, CallsKeepLease
<1>11. CASE MarkFinalized(w)
  <2>1. pc[w] = "mark_finalized" /\ pc[w] \in RowPc
    BY <1>11 DEF MarkFinalized, RowPc
  <2>2. state[e] = "included"
    BY <1>1, <1>5, <2>1 DEF Phase
  <2>3. "finalized" \in PayoutState /\ "next_row" \in Step
    BY DEF PayoutState, Step
  <2>4. CASE /\ Call(w, {"included"}, "finalized", "next_row")
             /\ payments' = IF state'[cur[w].id] = "finalized"
                            THEN [payments EXCEPT ![cur[w].id] = @ + 1] ELSE payments
    <3>1. state'[e] = "finalized" /\ \A x \in Entitlement \ {e} : state'[x] = state[x]
      BY <1>6, <2>2, <2>3, <2>4
    <3>2. payments \in [Entitlement -> Nat] /\ payments' = [payments EXCEPT ![e] = @ + 1]
      BY <2>4, <3>1 DEF BytesInv, TypeOK
    <3>3. PaidOnce'
      BY <1>3, <2>2, <3>1, <3>2 DEF LeaseInv, PaidOnce
    <3>4. \A t \in mempool : t.id \in Entitlement
      BY DEF BytesInv, TypeOK, Tx
    <3>5. ReviewedIsUnpaid'
      BY <1>4, <3>1, <3>4 DEF LeaseInv, ReviewedIsUnpaid
    <3> QED BY <1>4, <2>1, <2>2, <2>3, <2>4, <3>3, <3>5, CallsKeepLease
  <2>5. CASE EndPass(w) /\ UNCHANGED <<state, payments>>
    BY <1>4, <2>5, EndKeepsLease DEF ledger
  <2> QED BY <1>11, <2>4, <2>5 DEF MarkFinalized
<1> QED BY <1>7, <1>8, <1>9, <1>10, <1>11

LEMMA SigningKeepsLease ==
  ASSUME BytesInv, LeaseInv, NEW w \in Worker, MarkSigned(w)
  PROVE  LeaseInv'
<1> DEFINE e == cur[w].id
<1>1. LocalTyped /\ Bytes(w) /\ Current(w) /\ Phase(w) /\ (pc[w] # "idle" <=> lease = w)
  BY DEF BytesInv, TypeOK, LocalTyped, LeaseInv, Alone
<1>2. pc[w] = "mark_signed" /\ lease = w /\ e \in Entitlement /\ state[e] = "queued"
  <2>1. pc[w] = "mark_signed"
    BY DEF MarkSigned
  <2> QED BY <1>1, <2>1 DEF Bytes, QueuePc, Current, RowView
<1>3. PICK s \in {"next_queued", "review_unsigned"} : Goto(w, s)
  BY DEF MarkSigned
<1>4. /\ UNCHANGED <<payments, lease, todo, cur, seen, paused, crashes>>
      /\ UNCHANGED <<head, mempool, included, failed>>
  BY DEF MarkSigned, chain
<1>5. /\ Only(w) /\ pc'[w] = s /\ todo'[w] = todo[w] /\ cur'[w] = cur[w]
      /\ s \notin RowPc \cup {"next_row", "mark_signed", "idle"}
  BY <1>1, <1>3, <1>4, GotoMoves DEF Step, RowPc
<1>6. /\ state'[e] \in {"queued", "signed"}
      /\ \A x \in Entitlement \ {e} : state'[x] = state[x]
  BY <1>2 DEF MarkSigned, BytesInv, TypeOK
<1>7. \A t \in mempool : t.id # e
  BY <1>2, NoneAssumption DEF BytesInv, Stored, Ledger, TypeOK
<1>8. \A r \in todo[w] : r.id # e /\ state'[r.id] = r.state /\ r.state = "queued"
  <2>1. \A r \in todo[w] : r.id \in Entitlement
    BY <1>1 DEF LocalTyped, RowView
  <2> QED BY <1>1, <1>2, <1>6, <2>1 DEF Current, QueuePc
<1>9. \A r, q \in todo[w] : r.id = q.id => r = q
  BY <1>1, <1>2 DEF Current, QueuePc
<1>10. Phase(w)' /\ Current(w)'
  BY <1>4, <1>5, <1>6, <1>7, <1>8, <1>9 DEF Phase, Current, QueuePc, RowPc
<1>11. ReviewedIsUnpaid' /\ PaidOnce'
  BY <1>2, <1>4, <1>6, Undecided DEF LeaseInv
<1> QED BY <1>2, <1>4, <1>5, <1>10, <1>11, WorkerKeepsLease

\* What goes out belongs to a row that is neither paid nor written off.
LEMMA SendKeepsLease ==
  ASSUME BytesInv, LeaseInv, NEW w \in Worker, Broadcast(w) \/ Rebroadcast(w)
  PROVE  LeaseInv'
<1> DEFINE e == cur[w].id
<1>1. LocalTyped /\ Bytes(w) /\ Current(w) /\ Phase(w) /\ (pc[w] # "idle" <=> lease = w)
  BY DEF BytesInv, TypeOK, LocalTyped, LeaseInv, Alone
<1>2. pc[w] \in {"broadcast", "rebroadcast"} /\ pc[w] \in RowPc /\ lease = w
  BY <1>1 DEF Broadcast, Rebroadcast, RowPc
<1>3. /\ e \in Entitlement /\ state[e] = cur[w].state /\ state[e] \in {"signed", "broadcast_unknown"}
      /\ cur[w].tx.id = e
  BY <1>1, <1>2 DEF Bytes, Current, Phase, RowView, BytesInv, Stored
<1>4. PICK s \in {"mark_unknown", "next_row"} : Send(w, s) /\ (s = "mark_unknown" => pc[w] = "broadcast")
  BY DEF Broadcast, Rebroadcast
<1>5. /\ mempool' \subseteq mempool \cup {cur[w].tx} /\ Goto(w, s)
      /\ UNCHANGED <<state, payments, lease, todo, cur, seen, head, included>>
  BY <1>4 DEF Send, ledger
<1>6. /\ Only(w) /\ pc'[w] = s /\ todo'[w] = todo[w] /\ cur'[w] = cur[w] /\ s # "idle"
  BY <1>1, <1>5, GotoMoves DEF Step
<1>7. Phase(w)' /\ Current(w)'
  BY <1>1, <1>2, <1>4, <1>5, <1>6 DEF Phase, Current, QueuePc, RowPc
<1>8. ReviewedIsUnpaid'
  BY <1>3, <1>5 DEF LeaseInv, ReviewedIsUnpaid
<1>9. PaidOnce'
  BY <1>5 DEF LeaseInv, PaidOnce
<1> QED BY <1>2, <1>5, <1>6, <1>7, <1>8, <1>9, WorkerKeepsLease DEF RowPc

LEMMA ChainKeepsLease ==
  ASSUME BytesInv, LeaseInv, (\E S \in SUBSET mempool : Block(S)) \/ Revert
  PROVE  LeaseInv'
<1>1. /\ state' = state /\ payments' = payments /\ mempool' = mempool /\ lease' = lease
      /\ pc' = pc /\ todo' = todo /\ cur' = cur
  BY DEF Block, Revert, ledger, local
<1>2. Alone' /\ PaidOnce' /\ \A w \in Worker : Phase(w)' /\ Current(w)'
  BY <1>1 DEF LeaseInv, Alone, PaidOnce, Phase, Current
<1>3. head \in Nat /\ Window \in Nat /\ \A t \in mempool : t \in Tx /\ t.start \in Nat
  BY NumbersTyped, ChainAssumption DEF BytesInv, TypeOK
<1>4. ASSUME NEW S \in SUBSET mempool, Block(S) PROVE ReviewedIsUnpaid'
  <2>1. /\ head' = head + 1
        /\ \A t \in Tx : included'[t] = IF t \in S THEN head + 1 ELSE included[t]
        /\ \A t \in S : included[t] = 0 /\ head + 1 <= t.start + Window
    BY <1>4 DEF Block, Includable
  <2> QED BY <1>1, <1>3, <2>1 DEF LeaseInv, ReviewedIsUnpaid
<1>5. ASSUME Revert PROVE ReviewedIsUnpaid'
  <2>1. head' = head /\ \A t \in Tx : included[t] = 0 => included'[t] = 0
    BY <1>5 DEF Revert
  <2> QED BY <1>1, <1>3, <2>1 DEF LeaseInv, ReviewedIsUnpaid
<1>6. ReviewedIsUnpaid'
  BY <1>4, <1>5
<1> QED BY <1>2, <1>6 DEF LeaseInv

LEMMA LeaseInit == Init => LeaseInv
<1> SUFFICES ASSUME Init PROVE LeaseInv
  OBVIOUS
<1>1. Alone /\ ReviewedIsUnpaid /\ PaidOnce
  BY NoneAssumption DEF Init, Alone, ReviewedIsUnpaid, PaidOnce
<1>2. \A w \in Worker : Phase(w) /\ Current(w)
  BY DEF Init, Phase, Current, QueuePc, RowPc
<1> QED BY <1>1, <1>2 DEF LeaseInv

LEMMA LeaseStep ==
  ASSUME ~LeaseCanDrop
  PROVE  BytesInv /\ JudgeInv /\ LeaseInv /\ [Next]_vars => LeaseInv'
<1> SUFFICES ASSUME BytesInv, JudgeInv, LeaseInv, [Next]_vars PROVE LeaseInv'
  OBVIOUS
<1>1. CASE UNCHANGED vars
  <2>1. /\ state' = state /\ payments' = payments /\ lease' = lease
        /\ pc' = pc /\ todo' = todo /\ cur' = cur
        /\ head' = head /\ mempool' = mempool /\ included' = included
    BY <1>1 DEF vars, ledger, local, chain
  <2>2. Alone' /\ ReviewedIsUnpaid' /\ PaidOnce'
    BY <2>1 DEF LeaseInv, Alone, ReviewedIsUnpaid, PaidOnce
  <2>3. \A w \in Worker : Phase(w)' /\ Current(w)'
    BY <2>1 DEF LeaseInv, Phase, Current
  <2> QED BY <2>2, <2>3 DEF LeaseInv
<1>2. ~DropLease
  BY DEF DropLease
<1>3. ASSUME NEW w \in Worker, WorkerStep(w) \/ Crash(w) PROVE LeaseInv'
  BY <1>3, LooksKeepLease, TablesKeepLease, SigningKeepsLease, SendKeepsLease DEF WorkerStep
<1> QED BY <1>1, <1>2, <1>3, ChainKeepsLease DEF Next

LEMMA LeaseHolds ==
  ASSUME ~LeaseCanDrop
  PROVE  Spec => [](BytesInv /\ JudgeInv /\ LeaseInv)
<1>1. LeaseInv /\ BytesInv /\ JudgeInv /\ [Next]_vars => LeaseInv'
  BY LeaseStep
<1> QED BY <1>1, LeaseInit, BytesHold, JudgeHolds, PTL DEF Spec

\* As long as the lease holds, a row sent to manual review has not been paid
\* and no transaction that is out can pay it.
THEOREM ReviewedAreUnpaid ==
  ASSUME ~LeaseCanDrop
  PROVE  Spec => []ReviewedIsUnpaid
<1>1. LeaseInv => ReviewedIsUnpaid
  BY DEF LeaseInv
<1> QED BY <1>1, LeaseHolds, PTL

\* As long as the lease holds, the day's paid Luna counts a reward once.
THEOREM PaidOnceUnderLease ==
  ASSUME ~LeaseCanDrop
  PROVE  Spec => []PaidOnce
<1>1. LeaseInv => PaidOnce
  BY DEF LeaseInv
<1> QED BY <1>1, LeaseHolds, PTL

-----------------------------------------------------------------------------
(* Under the lease the worker keeps the promise of PayoutPromise           *)

received == [e \in Entitlement |-> Cardinality(Executed(e))]
book     == [e \in Entitlement |-> Verdict(state[e])]

LEMMA OneOrNone ==
  ASSUME NEW x, NEW S \in SUBSET {x}
  PROVE  Cardinality(S) = IF x \in S THEN 1 ELSE 0
<1>1. S = {} \/ S = {x}
  OBVIOUS
<1> QED BY <1>1, FS_EmptySet, FS_Singleton

\* Only what the row has stored can be executed for it.
LEMMA ExecutedIsStored ==
  ASSUME BytesInv, NEW e \in Entitlement
  PROVE  Executed(e) \in SUBSET {stored[e]}
  BY DEF BytesInv, Ledger, Executed

LEMMA Received ==
  ASSUME BytesInv, BytesInv', NEW e \in Entitlement
  PROVE  /\ received[e] = IF stored[e] \in Executed(e) THEN 1 ELSE 0
         /\ received'[e] = IF stored'[e] \in Executed(e)' THEN 1 ELSE 0
<1>1. Executed(e) \in SUBSET {stored[e]}
  BY ExecutedIsStored
<1>2. Executed(e)' \in SUBSET {stored'[e]}
  BY DEF BytesInv, Ledger, Executed
<1>3. Cardinality(Executed(e)) = IF stored[e] \in Executed(e) THEN 1 ELSE 0
  BY <1>1, OneOrNone
<1>4. Cardinality(Executed(e)') = IF stored'[e] \in Executed(e)' THEN 1 ELSE 0
  BY <1>2, OneOrNone
<1> QED BY <1>3, <1>4 DEF received

\* Where the chain stays, the wallets hold what they held.
LEMMA ReceivedStays ==
  ASSUME UNCHANGED <<included, failed>>
  PROVE  received' = received
  BY DEF received, Executed

LEMMA Verdicts ==
  /\ Verdict("finalized") = "paid" /\ Verdict("manual_review") = "written_off"
  /\ \A s \in PayoutState : Verdict(s) = "open" <=> s \notin {"finalized", "manual_review"}
  BY DEF Verdict, PayoutState

\* A step that moves one row.
LEMMA Booked ==
  ASSUME BytesInv, NEW e \in Entitlement,
         \A x \in Entitlement \ {e} : state'[x] = state[x]
  PROVE  book' = [book EXCEPT ![e] = Verdict(state'[e])]
  BY DEF book

\* A row that is open before and after the step, or is left alone.
LEMMA StaysOpen ==
  ASSUME BytesInv, BytesInv', NEW e \in Entitlement, UNCHANGED <<included, failed>>,
         \A x \in Entitlement \ {e} : state'[x] = state[x],
         \/ state'[e] = state[e]
         \/ {state[e], state'[e]} \cap {"finalized", "manual_review"} = {}
  PROVE  UNCHANGED Promise!promise
<1>1. state[e] \in PayoutState /\ state'[e] \in PayoutState
  BY DEF BytesInv, TypeOK
<1>2. Verdict(state'[e]) = Verdict(state[e])
  BY <1>1, Verdicts
<1>3. book' = book
  BY <1>2, Booked DEF book
<1>4. received' = received
  BY ReceivedStays
<1> QED BY <1>3, <1>4 DEF Promise!promise, received, book

\* A row in review that its wallet has not got.
LEMMA WritesOff ==
  ASSUME BytesInv, BytesInv', NEW e \in Entitlement, UNCHANGED <<included, failed>>,
         \A x \in Entitlement \ {e} : state'[x] = state[x],
         state[e] \notin {"finalized", "manual_review"}, state'[e] = "manual_review",
         stored[e] \notin Executed(e)
  PROVE  Promise!PromiseNext
<1>1. book[e] = "open"
  BY Verdicts DEF BytesInv, TypeOK, book
<1>2. book' = [book EXCEPT ![e] = "written_off"]
  BY Booked, Verdicts
<1>3. received[e] = 0 /\ received' = received
  BY Received, ReceivedStays
<1>4. Promise!WriteOff(e)
  BY <1>1, <1>2, <1>3 DEF Promise!WriteOff, received, book
<1> QED BY <1>4 DEF Promise!PromiseNext

LEMMA BooksPaid ==
  ASSUME BytesInv, BytesInv', NEW e \in Entitlement, UNCHANGED <<included, failed>>,
         \A x \in Entitlement \ {e} : state'[x] = state[x],
         state[e] \notin {"finalized", "manual_review"}, state'[e] = "finalized",
         stored[e] \in Executed(e)
  PROVE  Promise!PromiseNext
<1>1. book[e] = "open"
  BY Verdicts DEF BytesInv, TypeOK, book
<1>2. book' = [book EXCEPT ![e] = "paid"]
  BY Booked, Verdicts
<1>3. received[e] = 1 /\ received' = received
  BY Received, ReceivedStays
<1>4. Promise!BookPaid(e)
  BY <1>1, <1>2, <1>3 DEF Promise!BookPaid, received, book
<1> QED BY <1>4 DEF Promise!PromiseNext

\* A block transfers rewards that are neither paid nor written off.
LEMMA BlockTransfers ==
  ASSUME BytesInv, BytesInv', FinalizedIsPaid, ReviewedIsUnpaid,
         NEW S \in SUBSET mempool, Block(S)
  PROVE  Promise!PromiseNext
<1> DEFINE R == {t.id : t \in S \ failed'}
<1>1. /\ state' = state /\ stored' = stored /\ head \in Nat /\ Window \in Nat
      /\ mempool \subseteq Tx /\ \A t \in Tx : t.id \in Entitlement /\ t.start \in Nat
  BY NumbersTyped, ChainAssumption DEF Block, ledger, BytesInv, TypeOK, Tx
<1>2. /\ head' = head + 1 /\ (failed' = failed \/ failed' = failed \cup S)
      /\ \A t \in Tx : included'[t] = IF t \in S THEN head + 1 ELSE included[t]
      /\ \A t \in S : included[t] = 0 /\ head + 1 <= t.start + Window
  BY DEF Block, Includable
<1>3. \A t \in S : t \in Tx /\ t.id \in Entitlement /\ stored[t.id] = t
  BY <1>1 DEF BytesInv, Ledger
<1>4. ASSUME NEW e \in R
      PROVE  /\ e \in Entitlement /\ book[e] = "open"
             /\ stored[e] \notin Executed(e) /\ stored'[e] \in Executed(e)'
  <2>1. PICK t \in S : t \notin failed' /\ t.id = e
    OBVIOUS
  <2>2. e \in Entitlement /\ t \in Tx /\ t \in mempool /\ stored[e] = t /\ included[t] = 0
    BY <1>2, <1>3, <2>1
  <2>3. t \in Executed(e)'
    BY <1>1, <1>2, <2>1, <2>2 DEF Executed
  <2>4. state[e] \notin {"finalized", "manual_review"}
    <3>1. state[e] # "finalized"
      BY <2>2 DEF FinalizedIsPaid
    <3>2. ~(head >= t.start + Window)
      BY <1>1, <1>2, <2>1, <2>2
    <3> QED BY <2>1, <2>2, <3>1, <3>2 DEF ReviewedIsUnpaid
  <2>5. book[e] = "open"
    BY <2>2, <2>4, Verdicts DEF book, BytesInv, TypeOK
  <2> QED BY <1>1, <2>2, <2>3, <2>5 DEF Executed
<1>5. ASSUME NEW e \in Entitlement \ R PROVE Executed(e)' = Executed(e)
  <2>1. ASSUME NEW t \in Tx, t.id = e PROVE t \in Executed(e)' <=> t \in Executed(e)
    <3>1. CASE t \in S
      BY <1>2, <2>1, <3>1 DEF Executed
    <3>2. CASE t \notin S
      BY <1>2, <2>1, <3>2 DEF Executed
    <3> QED BY <3>1, <3>2
  <2> QED BY <2>1 DEF Executed
<1> HIDE DEF R
<1>6. \A e \in R : received[e] = 0 /\ received'[e] = 1
  BY <1>4, Received
<1>7. \A e \in Entitlement \ R : received'[e] = received[e]
  BY <1>5 DEF received
<1>8. received' = [e \in Entitlement |-> IF e \in R THEN 1 ELSE received[e]]
  BY <1>6, <1>7 DEF received
<1>9. book' = book
  BY <1>1 DEF book
<1>10. R \in SUBSET Promise!Open
  BY <1>4 DEF Promise!Open, book
<1>11. Promise!Transfer(R)
  BY <1>6, <1>8, <1>9 DEF Promise!Transfer, received, book
<1> QED BY <1>10, <1>11 DEF Promise!PromiseNext

\* What a replaced tip takes back is neither booked as paid nor written off.
LEMMA RevertTakesBack ==
  ASSUME BytesInv, BytesInv', FinalizedIsPaid, ReviewedIsUnpaid, Revert
  PROVE  Promise!PromiseNext
<1> DEFINE R == {e \in Entitlement : stored[e] \in Executed(e) /\ included[stored[e]] = head}
<1>1. state' = state /\ stored' = stored /\ head' = head
  BY DEF Revert, ledger
<1>2. /\ \A t \in Tx : included'[t] = IF included[t] = head THEN 0 ELSE included[t]
      /\ \A t \in Tx : t \in failed' <=> t \in failed /\ included[t] # head
  BY DEF Revert, BytesInv, TypeOK
<1>3. ASSUME NEW e \in R
      PROVE  e \in Entitlement /\ book[e] = "open" /\ stored'[e] \notin Executed(e)'
  <2>1. /\ e \in Entitlement /\ stored[e] \in Tx /\ stored[e].id = e
        /\ included[stored[e]] = head /\ included[stored[e]] # 0
    BY DEF Executed
  <2>2. stored[e] \in mempool /\ included[stored[e]] \in Nat
    BY <2>1, NumbersTyped DEF BytesInv, Ledger
  <2>3. state[e] # "finalized"
    BY <2>1, <2>2, MacroAfter DEF FinalizedIsPaid
  <2>4. state[e] # "manual_review"
    BY <2>1, <2>2 DEF ReviewedIsUnpaid
  <2>5. book[e] = "open"
    BY <2>1, <2>3, <2>4, Verdicts DEF book, BytesInv, TypeOK
  <2>6. stored'[e] \notin Executed(e)'
    BY <1>1, <1>2, <2>1 DEF Executed
  <2> QED BY <2>1, <2>5, <2>6
<1>4. ASSUME NEW e \in Entitlement \ R PROVE Executed(e)' = Executed(e)
  <2>1. ASSUME NEW t \in Tx, t.id = e PROVE t \in Executed(e)' <=> t \in Executed(e)
    <3>1. t \in Executed(e) => included[t] # head
      BY ExecutedIsStored
    <3> QED BY <1>2, <2>1, <3>1 DEF Executed
  <2> QED BY <2>1 DEF Executed
<1> HIDE DEF R
<1>5. \A e \in R : received'[e] = 0
  BY <1>3, Received
<1>6. \A e \in Entitlement \ R : received'[e] = received[e]
  BY <1>4 DEF received
<1>7. received' = [e \in Entitlement |-> IF e \in R THEN 0 ELSE received[e]]
  BY <1>5, <1>6 DEF received
<1>8. book' = book
  BY <1>1 DEF book
<1>9. R \in SUBSET Promise!Open
  BY <1>3 DEF Promise!Open, book
<1>10. Promise!TakeBack(R)
  BY <1>7, <1>8 DEF Promise!TakeBack, received, book
<1> QED BY <1>9, <1>10 DEF Promise!PromiseNext

\* Every call of the ledger books what the chain has settled, or nothing.
LEMMA TablesKeepPromise ==
  ASSUME BytesInv, BytesInv', JudgeInv, LeaseInv, NEW w \in Worker,
         \/ ReviewUnsigned(w) \/ MarkBroadcastUnknown(w) \/ ReviewExpired(w)
         \/ MarkIncluded(w) \/ MarkFinalized(w)
  PROVE  Promise!PromiseNext \/ UNCHANGED Promise!promise
<1> DEFINE e == cur[w].id
<1>1. Bytes(w) /\ Current(w) /\ Phase(w) /\ Judged(w) /\ Ledger
  BY DEF BytesInv, LeaseInv, JudgeInv
<1>2. pc[w] \in RowPc \cup {"review_unsigned"} /\ UNCHANGED <<included, failed>>
  BY DEF ReviewUnsigned, MarkBroadcastUnknown, ReviewExpired, MarkIncluded, MarkFinalized,
         RowPc, chain
<1>3. pc[w] \in RowPc => /\ state[e] = cur[w].state /\ stored[e] = cur[w].tx
                         /\ cur[w].tx # NoTx /\ cur[w] \in RowView
  BY <1>1 DEF Current, Bytes
<1>4. pc[w] \in RowPc => e \in Entitlement /\ stored[e] \in Tx /\ stored[e].id = e
  BY <1>3 DEF RowView, BytesInv, Stored
<1>5. CASE ReviewUnsigned(w)
  <2>1. /\ Call(w, {"queued", "signed", "broadcast_unknown"}, "manual_review", "next_queued")
        /\ pc[w] = "review_unsigned"
    BY <1>5 DEF ReviewUnsigned
  <2>2. state[e] \in {"queued", "signed"} /\ \A t \in mempool : t.id # e
    BY <1>1, <2>1 DEF Current
  <2>3. "manual_review" \in PayoutState /\ "next_queued" \in Step
    BY DEF PayoutState, Step
  <2>4. /\ e \in Entitlement /\ state'[e] = "manual_review"
        /\ \A x \in Entitlement \ {e} : state'[x] = state[x]
    BY <1>2, <2>1, <2>2, <2>3, MovesOn
  <2>5. stored[e] \notin Executed(e)
    BY <1>1, <2>2 DEF Executed, Ledger
  <2> QED BY <1>2, <2>2, <2>4, <2>5, WritesOff
<1>6. CASE MarkBroadcastUnknown(w)
  <2>1. /\ Call(w, {"signed"}, "broadcast_unknown", "read_head")
        /\ pc[w] = "mark_unknown" /\ pc[w] \in RowPc
    BY <1>6 DEF MarkBroadcastUnknown, RowPc
  <2>2. state[e] = "signed"
    BY <1>1, <1>3, <2>1 DEF Phase
  <2>3. "broadcast_unknown" \in PayoutState /\ "read_head" \in Step
    BY DEF PayoutState, Step
  <2>4. /\ e \in Entitlement /\ state'[e] = "broadcast_unknown"
        /\ \A x \in Entitlement \ {e} : state'[x] = state[x]
    BY <1>2, <2>1, <2>2, <2>3, MovesOn
  <2> QED BY <1>2, <2>2, <2>4, StaysOpen
<1>7. CASE ReviewExpired(w)
  <2>1. /\ Call(w, {"queued", "signed", "broadcast_unknown"}, "manual_review", "next_row")
        /\ pc[w] = "review_expired" /\ pc[w] \in RowPc /\ pc[w] \in JudgePc
    BY <1>7 DEF ReviewExpired, RowPc, JudgePc
  <2>2. state[e] = "broadcast_unknown"
    BY <1>1, <1>3, <2>1 DEF Phase
  <2>3. "manual_review" \in PayoutState /\ "next_row" \in Step
    BY DEF PayoutState, Step
  <2>4. /\ e \in Entitlement /\ state'[e] = "manual_review"
        /\ \A x \in Entitlement \ {e} : state'[x] = state[x]
    BY <1>2, <2>1, <2>2, <2>3, MovesOn
  <2>5. stored[e] \notin Executed(e)
    BY <1>1, <1>3, <2>1 DEF Judged, Executed
  <2> QED BY <1>2, <2>2, <2>4, <2>5, WritesOff
<1>8. CASE MarkIncluded(w)
  <2> DEFINE s == IF SeenFinal(w) THEN "mark_finalized" ELSE "next_row"
  <2>1. /\ Call(w, {"signed", "broadcast_unknown"}, "included", s)
        /\ pc[w] = "mark_included" /\ pc[w] \in RowPc
    BY <1>8 DEF MarkIncluded, RowPc
  <2>2. state[e] \in {"signed", "broadcast_unknown"}
    BY <1>1, <1>3, <2>1 DEF Phase
  <2>3. "included" \in PayoutState /\ s \in Step
    BY DEF PayoutState, Step
  <2> HIDE DEF s
  <2>4. /\ e \in Entitlement /\ state'[e] = "included"
        /\ \A x \in Entitlement \ {e} : state'[x] = state[x]
    BY <1>2, <2>1, <2>2, <2>3, MovesOn
  <2> QED BY <1>2, <2>2, <2>4, StaysOpen
<1>9. CASE MarkFinalized(w)
  <2>1. pc[w] = "mark_finalized" /\ pc[w] \in RowPc /\ pc[w] \in JudgePc
    BY <1>9 DEF MarkFinalized, RowPc, JudgePc
  <2>2. state[e] = "included"
    BY <1>1, <1>3, <2>1 DEF Phase
  <2>3. "finalized" \in PayoutState /\ "next_row" \in Step
    BY DEF PayoutState, Step
  <2>4. CASE Call(w, {"included"}, "finalized", "next_row")
    <3>1. /\ e \in Entitlement /\ state'[e] = "finalized"
          /\ \A x \in Entitlement \ {e} : state'[x] = state[x]
      BY <1>2, <2>2, <2>3, <2>4, MovesOn
    <3>2. stored[e] \in Executed(e)
      BY <1>1, <1>3, <1>4, <2>1 DEF Judged, SeenFinal, Executed
    <3> QED BY <1>2, <2>2, <3>1, <3>2, BooksPaid
  <2>5. CASE UNCHANGED state
    BY <1>2, <1>4, <2>1, <2>5, StaysOpen
  <2> QED BY <1>9, <2>4, <2>5 DEF MarkFinalized
<1> QED BY <1>5, <1>6, <1>7, <1>8, <1>9

LEMMA PromiseInitially == Init => Promise!PromiseInit
<1> SUFFICES ASSUME Init PROVE Promise!PromiseInit
  OBVIOUS
<1>1. \A e \in Entitlement : Executed(e) = {}
  BY DEF Init, Executed
<1>2. received = [e \in Entitlement |-> 0]
  BY <1>1, FS_EmptySet DEF received
<1>3. book = [e \in Entitlement |-> "open"]
  BY Verdicts DEF book, Init, PayoutState
<1> QED BY <1>2, <1>3 DEF Promise!PromiseInit, received, book

LEMMA PromiseStep ==
  ASSUME BytesInv, BytesInv', JudgeInv, LeaseInv, [Next]_vars
  PROVE  [Promise!PromiseNext]_(Promise!promise)
<1>1. ASSUME UNCHANGED <<state, included, failed>> PROVE UNCHANGED Promise!promise
  BY <1>1, ReceivedStays DEF Promise!promise, received, Verdict
<1>2. CASE UNCHANGED vars \/ DropLease
  BY <1>1, <1>2 DEF vars, DropLease, ledger, chain
<1>3. ASSUME NEW w \in Worker,
             \/ Kick(w) \/ ListQueued(w) \/ Prepare(w) \/ QueueDone(w)
             \/ ListReconcilable(w) \/ NextRow(w) \/ PassDone(w) \/ Broadcast(w)
             \/ ReadHead(w) \/ ReadTx(w) \/ Judge(w) \/ Rebroadcast(w) \/ Crash(w)
      PROVE  UNCHANGED Promise!promise
  <2>1. UNCHANGED <<state, included, failed>>
    BY <1>3 DEF Kick, ListQueued, Prepare, QueueDone, ListReconcilable, NextRow, PassDone,
                Broadcast, ReadHead, ReadTx, Judge, Rebroadcast, Crash, Send, ledger, chain
  <2> QED BY <1>1, <2>1
<1>4. ASSUME NEW w \in Worker, MarkSigned(w) PROVE UNCHANGED Promise!promise
  <2>1. pc[w] = "mark_signed" /\ Bytes(w) /\ Current(w)
    BY <1>4 DEF MarkSigned, BytesInv, LeaseInv
  <2>2. cur[w].id \in Entitlement /\ state[cur[w].id] = "queued"
    BY <2>1 DEF Bytes, QueuePc, RowView, Current
  <2>3. /\ state'[cur[w].id] \in {"queued", "signed"}
        /\ \A x \in Entitlement \ {cur[w].id} : state'[x] = state[x]
    BY <1>4, <2>2 DEF MarkSigned, BytesInv, TypeOK
  <2>4. UNCHANGED <<included, failed>>
    BY <1>4 DEF MarkSigned, chain
  <2> QED BY <2>2, <2>3, <2>4, StaysOpen
<1>5. FinalizedIsPaid /\ ReviewedIsUnpaid
  BY DEF JudgeInv, LeaseInv
<1>6. ASSUME NEW w \in Worker, WorkerStep(w) \/ Crash(w)
      PROVE  Promise!PromiseNext \/ UNCHANGED Promise!promise
  BY <1>3, <1>4, <1>6, TablesKeepPromise DEF WorkerStep
<1>7. ASSUME NEW S \in SUBSET mempool, Block(S) PROVE Promise!PromiseNext
  BY <1>5, <1>7, BlockTransfers
<1>8. CASE Revert
  BY <1>5, <1>8, RevertTakesBack
<1> QED BY <1>2, <1>6, <1>7, <1>8 DEF Next

\* As long as the lease holds, the worker implements the promise: a wallet is
\* paid once, booked as paid when it has the reward for good, and written off
\* only when it has not got it and never will.
THEOREM WorkerKeepsPromise ==
  ASSUME ~LeaseCanDrop
  PROVE  Spec => KeepsPayoutPromise
<1>1. LeaseInv /\ BytesInv /\ BytesInv' /\ JudgeInv /\ [Next]_vars
        => [Promise!PromiseNext]_(Promise!promise)
  BY PromiseStep
<1> QED BY <1>1, PromiseInitially, LeaseHolds, BytesHold, PTL
        DEF Spec, KeepsPayoutPromise, Promise!PromiseSpec

(***************************************************************************)
(* The kill switch                                                         *)
(***************************************************************************)

\* Where a worker signs and broadcasts, or is on its way to sign.
SigningPc == {"list_queued", "next_queued", "mark_signed", "review_unsigned",
              "broadcast", "rebroadcast"}

\* No paused worker is there.
Silent == \A w \in Worker : paused[w] => pc[w] \notin SigningPc

\* A step comes there from there, or from a test of the switch, which holds
\* for as long as the process does.
LEMMA ReachesSigning ==
  ASSUME TypeOK, NEW w \in Worker, WorkerStep(w), pc'[w] \in SigningPc
  PROVE  pc[w] \in SigningPc \/ ~paused[w]
<1> USE DEF TypeOK, SigningPc
<1>1. CASE \/ Kick(w) \/ ListQueued(w) \/ Prepare(w) \/ MarkSigned(w)
           \/ ReviewUnsigned(w) \/ Broadcast(w) \/ Rebroadcast(w) \/ QueueDone(w)
  BY <1>1 DEF Kick, ListQueued, Prepare, MarkSigned, ReviewUnsigned, Broadcast,
              Rebroadcast, QueueDone, Send, Goto
<1>2. CASE \/ ListReconcilable(w) \/ PassDone(w) \/ ReadHead(w) \/ ReadTx(w)
  BY <1>2 DEF ListReconcilable, PassDone, ReadHead, ReadTx, EndPass, Goto
<1>3. CASE NextRow(w)
  BY <1>3 DEF NextRow, FirstStep, Goto
<1>4. CASE Judge(w)
  <2>1. pc'[w] = AfterStatus(w)  BY <1>4 DEF Judge, Goto
  <2>2. AfterStatus(w) \in {"review_expired", "next_row", "mark_included",
                            "mark_finalized"}
          \/ ~paused[w]
    BY DEF AfterStatus
  <2> QED  BY <2>1, <2>2
<1>5. CASE \/ MarkBroadcastUnknown(w) \/ ReviewExpired(w) \/ MarkIncluded(w)
           \/ MarkFinalized(w)
  <2>1. pc'[w] \in {"idle", "read_head", "next_row", "mark_finalized"}
    BY <1>5 DEF MarkBroadcastUnknown, ReviewExpired, MarkIncluded, MarkFinalized,
                Call, EndPass, Goto
  <2> QED  BY <2>1
<1> QED  BY <1>1, <1>2, <1>3, <1>4, <1>5 DEF WorkerStep

\* Each process changes its own counter alone.
LEMMA OwnCounter ==
  ASSUME TypeOK, NEW w \in Worker, WorkerStep(w) \/ Crash(w)
  PROVE  \A v \in Worker \ {w} : pc'[v] = pc[v] /\ paused'[v] = paused[v]
BY DEF TypeOK, WorkerStep, Crash, Kick, ListQueued, Prepare, MarkSigned,
       ReviewUnsigned, QueueDone, ListReconcilable, NextRow, PassDone, Broadcast,
       MarkBroadcastUnknown, ReadHead, ReadTx, Judge, Rebroadcast, ReviewExpired,
       MarkIncluded, MarkFinalized, Send, Call, EndPass, Goto

LEMMA SilentStep == TypeOK /\ Silent /\ [Next]_vars => Silent'
<1> SUFFICES ASSUME TypeOK, Silent, [Next]_vars PROVE Silent'
  OBVIOUS
<1>1. ASSUME NEW w \in Worker, WorkerStep(w) PROVE Silent'
  <2>1. paused' = paused
    BY <1>1 DEF WorkerStep, Kick, ListQueued, Prepare, MarkSigned,
       ReviewUnsigned, QueueDone, ListReconcilable, NextRow, PassDone, Broadcast,
       MarkBroadcastUnknown, ReadHead, ReadTx, Judge, Rebroadcast, ReviewExpired,
       MarkIncluded, MarkFinalized, Send
  <2> QED  BY <1>1, <2>1, ReachesSigning, OwnCounter DEF Silent
<1>2. ASSUME NEW w \in Worker, Crash(w) PROVE Silent'
  <2>1. pc'[w] = "idle"  BY <1>2 DEF Crash, EndPass, Goto, TypeOK
  <2> QED  BY <1>2, <2>1, OwnCounter DEF Silent, SigningPc
<1>3. CASE DropLease \/ (\E S \in SUBSET mempool : Block(S)) \/ Revert \/ UNCHANGED vars
  <2>1. UNCHANGED <<pc, paused>>
    BY <1>3 DEF DropLease, Block, Revert, vars, local
  <2> QED  BY <2>1 DEF Silent
<1> QED  BY <1>1, <1>2, <1>3 DEF Next

\* A process started with the kill switch neither signs nor broadcasts.
THEOREM PausedIsSilent == Spec => KillSwitch
<1>1. Init => Silent
  BY DEF Init, Silent, SigningPc
<1>2. ASSUME TypeOK, Silent, [Next]_vars, mempool' # mempool \/ stored' # stored
      PROVE  \E w \in Worker : ~paused[w] /\ pc'[w] # pc[w]
  <2>1. PICK w \in Worker : WorkerStep(w)
    BY <1>2 DEF Next, Crash, DropLease, Block, Revert, vars, ledger, chain
  <2>2. MarkSigned(w) \/ Broadcast(w) \/ Rebroadcast(w)
    BY <1>2, <2>1 DEF WorkerStep, Kick, ListQueued, Prepare,
       ReviewUnsigned, QueueDone, ListReconcilable, NextRow, PassDone,
       MarkBroadcastUnknown, ReadHead, ReadTx, Judge, ReviewExpired,
       MarkIncluded, MarkFinalized, ledger, chain
  <2>3. pc[w] \in SigningPc /\ pc'[w] # pc[w]
    <3>1. pc \in [Worker -> Step]  BY <1>2 DEF TypeOK
    <3>2. CASE MarkSigned(w)
      BY <3>1, <3>2 DEF MarkSigned, Goto, SigningPc
    <3>3. CASE Broadcast(w)
      BY <3>1, <3>3 DEF Broadcast, Send, Goto, SigningPc
    <3>4. CASE Rebroadcast(w)
      BY <3>1, <3>4 DEF Rebroadcast, Send, Goto, SigningPc
    <3> QED  BY <2>2, <3>2, <3>3, <3>4
  <2> QED  BY <1>2, <2>3 DEF Silent, TypeOK
<1>3. TypeOK /\ Silent /\ [Next]_vars
        => [mempool' # mempool \/ stored' # stored =>
              \E w \in Worker : ~paused[w] /\ pc'[w] # pc[w]]_vars
  BY <1>2
<1> QED  BY <1>1, <1>3, SilentStep, PayoutIsTyped, PTL DEF Spec, KillSwitch
=============================================================================
