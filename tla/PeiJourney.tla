---------------------------- MODULE PeiJourney ----------------------------
(***************************************************************************)
(* The "proof of earn" journeys of the game server: begin, acceptEarn and  *)
(* complete of server/src/pei/coordinator.ts over the PostgreSQL table of  *)
(* server/src/pei/store.ts, the verifier's view of the chain, and the      *)
(* receipt at the end.  Every await is a step; calls of several sessions   *)
(* and processes run side by side, may throw or die, and are repeated.     *)
(***************************************************************************)
EXTENDS Integers, FiniteSets

CONSTANTS
  Wallet,     \* authorized wallets
  MaxJourney, \* bound on earn requests; a number is the request's commitment
  MaxSpend,   \* bound on spend requests; a number is the nonce of one
  MaxTx,      \* bound on transactions; a number is the hash of one
  Call,       \* calls in flight at a time
  Ttl,        \* config.requestTtlSeconds
  MaxTime,    \* bound on the clock
  None

ASSUME JourneyAssumption ==
  /\ MaxJourney \in Nat /\ MaxSpend \in Nat /\ MaxTx \in Nat /\ MaxTime \in Nat
  /\ Ttl \in Nat \ {0}
  /\ None \notin Nat \cup Wallet

VARIABLES
  now,       \* wall clock
  began,     \* earn requests: their wallet and issuedAt
  row,       \* pei_journeys_v0: earn_proof (its transaction), spend_request
  nonces,    \* spend requests made so far
  launched,  \* earn requests a player has been sent to the helper with
  asked,     \* spend requests a player has been sent to the helper with
  chain,     \* transactions: the request in their data, the wallet, their state
  receipts,  \* pei_admission_grants
  call       \* the calls in flight

chainVars == <<chain, launched>>
vars == <<now, began, row, nonces, launched, asked, chain, receipts, call>>

Time    == 0 .. MaxTime
Journey == 1 .. MaxJourney
Tx      == 1 .. MaxTx
SpendRequest ==
  [nonce: 1 .. MaxSpend, journey: Journey, parent: Tx, issued: Time]
TxState == {"pending", "included", "failed", "final"}
Receipt ==
  [id: Nat, wallet: Wallet, journey: Journey, spend: SpendRequest, return: Tx]
Pc == {"idle", "insert", "launch", "check_earn", "store_earn",
       "check_first", "check_return", "issue"}
Idle == [pc |-> "idle", wallet |-> None, journey |-> None, earn |-> None,
         spend |-> None, return |-> None]

\* What is looked up and may be missing is not missing when it is there.
ASSUME NoneAssumption ==
  /\ None \notin [wallet: Wallet, issued: Time] \cup SpendRequest
  /\ None \notin [journey: Journey, spend: SpendRequest \cup {None},
                 wallet: Wallet, state: TxState]

\* A row pairs an earn proof with a spend request.
RowOK(r) ==
  /\ DOMAIN r = {"earn", "spend"}
  /\ r.earn = None <=> r.spend = None
  /\ r.earn # None => r.earn \in Tx /\ r.spend \in SpendRequest

\* A transaction's data names a journey, and the spend request if it is a return.
TransactionOK(x) ==
  /\ DOMAIN x = {"journey", "spend", "wallet", "state"}
  /\ x.journey \in Journey /\ x.wallet \in Wallet /\ x.state \in TxState
  /\ x.spend # None => x.spend \in asked

\* What is stored, asked for, paid and being worked on has its type; a row
\* always holds an earn proof and a spend request or neither.
TypeOK ==
  /\ now \in Time
  /\ \A j \in Journey : /\ began[j] # None => began[j] \in [wallet: Wallet, issued: Time]
                        /\ row[j] # None => began[j] # None /\ RowOK(row[j])
  /\ nonces \in 0 .. MaxSpend
  /\ launched \subseteq Journey /\ asked \subseteq SpendRequest
  /\ \A t \in Tx : chain[t] # None => TransactionOK(chain[t])
  /\ receipts \subseteq Receipt
  /\ \A k \in Call : call[k].pc \in Pc
       /\ (call[k].pc # "idle" => call[k].wallet \in Wallet /\ call[k].journey \in Journey)

Init ==
  /\ now = 0
  /\ began = [j \in Journey |-> None]
  /\ row = [j \in Journey |-> None]
  /\ nonces = 0
  /\ launched = {} /\ asked = {} /\ receipts = {}
  /\ chain = [t \in Tx |-> None]
  /\ call = [k \in Call |-> Idle]

At(k, pc) == call[k].pc = pc
Ends(k)   == call' = [call EXCEPT ![k] = Idle]

\* A journey, and with it its row, expires with its earn request.
Expires(j) == began[j].issued + Ttl

-----------------------------------------------------------------------------
(* begin *)

Expired(j) == row[j] # None /\ Expires(j) <= now

\* A fresh request is made, and expired rows of all wallets are deleted.
Begin(k, w, j) ==
  /\ At(k, "idle")
  /\ began[j] = None /\ \A i \in 1 .. j - 1 : began[i] # None
  /\ began' = [began EXCEPT ![j] = [wallet |-> w, issued |-> now]]
  /\ row' = [i \in Journey |-> IF Expired(i) THEN None ELSE row[i]]
  /\ call' = [call EXCEPT ![k] = [Idle EXCEPT !.pc = "insert", !.wallet = w, !.journey = j]]
  /\ UNCHANGED <<now, nonces, chainVars, asked, receipts>>

Insert(k) ==
  /\ At(k, "insert")
  /\ row' = [row EXCEPT ![call[k].journey] = [earn |-> None, spend |-> None]]
  /\ call' = [call EXCEPT ![k].pc = "launch"]
  /\ UNCHANGED <<now, began, nonces, chainVars, asked, receipts>>

\* The row is read back; only then is the player sent to the helper.
Launch(k) ==
  /\ At(k, "launch") /\ row[call[k].journey] # None
  /\ launched' = launched \cup {call[k].journey}
  /\ Ends(k)
  /\ UNCHANGED <<now, began, row, nonces, chain, asked, receipts>>

-----------------------------------------------------------------------------
(* acceptEarn *)

\* requirePending, for a session authorized for wallet w.
Pending(w, j) == row[j] # None /\ began[j].wallet = w /\ now < Expires(j)

\* What the player brings back names a journey and a transaction; the row is
\* read before the chain is asked.
AcceptEarn(k, w, j, t) ==
  /\ At(k, "idle") /\ j \in launched /\ Pending(w, j)
  /\ call' = [call EXCEPT ![k] =
       [pc |-> "check_earn", wallet |-> w, journey |-> j,
        earn |-> t, spend |-> row[j].spend, return |-> None]]
  /\ UNCHANGED <<now, began, row, nonces, chainVars, asked, receipts>>

\* Mutant: an inclusion is taken for final.
Verified_Included(t, j, s, w) ==
  /\ chain[t] # None /\ chain[t].journey = j /\ chain[t].spend = s
  /\ chain[t].wallet = w /\ chain[t].state \in {"included", "final"}

\* verifyEdge: the commitment in its data, the wallet and finality.
Verified(t, j, s, w) ==
  /\ chain[t] # None /\ chain[t].journey = j /\ chain[t].spend = s
  /\ chain[t].wallet = w /\ chain[t].state = "final"

\* A journey that was accepted already is asked to go on as it was.
CheckEarnAgain(k) ==
  LET c == call[k] IN
  /\ At(k, "check_earn") /\ Verified(c.earn, c.journey, None, c.wallet)
  /\ c.spend # None /\ c.spend.parent = c.earn
  /\ asked' = asked \cup {c.spend}
  /\ Ends(k)
  /\ UNCHANGED <<now, began, row, nonces, chainVars, receipts>>

\* Otherwise a spend request is made, with a nonce of its own.
CheckEarn(k) ==
  LET c == call[k] IN
  /\ At(k, "check_earn") /\ Verified(c.earn, c.journey, None, c.wallet)
  /\ c.spend = None /\ nonces < MaxSpend
  /\ nonces' = nonces + 1
  /\ call' = [call EXCEPT ![k].pc = "store_earn",
       ![k].spend = [nonce |-> nonces + 1, journey |-> c.journey,
                     parent |-> c.earn, issued |-> now]]
  /\ UNCHANGED <<now, began, row, chainVars, asked, receipts>>

\* Mutant: the update does not look at what is stored.
Accepted_Latest(k) == [earn |-> call[k].earn, spend |-> call[k].spend]

\* Mutant: the spend request is stored by a statement of its own.
Accepted_Unpaired(k) ==
  LET stored == row[call[k].journey]
  IN IF stored.earn = None THEN [earn |-> call[k].earn, spend |-> None] ELSE stored

\* The first call to store its pair wins.
Accepted(k) ==
  LET stored == row[call[k].journey]
  IN IF stored.earn = None THEN [earn |-> call[k].earn, spend |-> call[k].spend] ELSE stored

\* The others answer with the pair that is stored, if the proof is the same;
\* the answer may be lost.
StoreEarn(k) ==
  LET c == call[k]
      accepted == Accepted(k)
  IN /\ At(k, "store_earn") /\ row[c.journey] # None
     /\ row' = [row EXCEPT ![c.journey] = accepted]
     /\ \/ asked' = asked
        \/ /\ accepted.earn = c.earn /\ accepted.spend # None
           /\ asked' = asked \cup {accepted.spend}
     /\ Ends(k)
     /\ UNCHANGED <<now, began, nonces, chainVars, receipts>>

-----------------------------------------------------------------------------
(* complete *)

\* The journey that came back is the stored pair and a transaction.
Complete(k, w, j, t) ==
  /\ At(k, "idle") /\ j \in launched /\ Pending(w, j)
  /\ row[j].earn # None /\ row[j].spend \in asked /\ row[j].earn # t
  /\ call' = [call EXCEPT ![k] =
       [pc |-> "check_first", wallet |-> w, journey |-> j,
        earn |-> row[j].earn, spend |-> row[j].spend, return |-> t]]
  /\ UNCHANGED <<now, began, row, nonces, chainVars, asked, receipts>>

CheckFirst(k) ==
  LET c == call[k] IN
  /\ At(k, "check_first") /\ Verified(c.earn, c.journey, None, c.wallet)
  /\ call' = [call EXCEPT ![k].pc = "check_return"]
  /\ UNCHANGED <<now, began, row, nonces, chainVars, asked, receipts>>

\* The reward service looks at the clock again, before it issues a receipt
\* for what has been verified; the earn request is the first to expire.
CheckReturn(k) ==
  LET c == call[k] IN
  /\ At(k, "check_return") /\ Verified(c.return, c.journey, c.spend, c.wallet)
  /\ now < Expires(c.journey)
  /\ call' = [call EXCEPT ![k].pc = "issue"]
  /\ UNCHANGED <<now, began, row, nonces, chainVars, asked, receipts>>

\* The qualification digest stands for both proofs.
SameQualification(r, c) ==
  r.wallet = c.wallet /\ r.journey = c.journey /\ r.spend = c.spend /\ r.return = c.return

NewReceipt(c) ==
  [id |-> Cardinality(receipts), wallet |-> c.wallet, journey |-> c.journey,
   spend |-> c.spend, return |-> c.return]

\* Mutant: a repeated delivery is not recognised.
Issue_Again(k) ==
  /\ At(k, "issue")
  /\ receipts' = receipts \cup {NewReceipt(call[k])}
  /\ Ends(k)
  /\ UNCHANGED <<now, began, row, nonces, chainVars, asked>>

\* issuePeiReceipt: a repeated delivery returns the receipt that exists.
Issue(k) ==
  /\ At(k, "issue")
  /\ receipts' = IF \E r \in receipts : SameQualification(r, call[k])
                 THEN receipts ELSE receipts \cup {NewReceipt(call[k])}
  /\ Ends(k)
  /\ UNCHANGED <<now, began, row, nonces, chainVars, asked>>

\* A call is refused, throws, or ends with its process.
Fail(k) ==
  /\ ~At(k, "idle") /\ Ends(k)
  /\ UNCHANGED <<now, began, row, nonces, chainVars, asked, receipts>>

-----------------------------------------------------------------------------
(* The helper, the player and the chain *)

\* A transaction with a request's commitment in its data, from the helper to
\* the wallet for an earn request, from a wallet for a spend request.
Pay(t, j, s, w) ==
  /\ chain[t] = None /\ \A u \in 1 .. t - 1 : chain[u] # None
  /\ chain' = [chain EXCEPT ![t] =
                 [journey |-> j, spend |-> s, wallet |-> w, state |-> "pending"]]
  /\ UNCHANGED <<now, began, row, nonces, launched, asked, receipts, call>>

\* The helper pays an earn request that has not expired, once (PeiHelper); a
\* player pays a return whenever, from whichever wallet.
PayEarn(t, j) ==
  /\ j \in launched /\ now < Expires(j)
  /\ \A u \in Tx : chain[u] # None => chain[u].journey # j \/ chain[u].spend # None
  /\ Pay(t, j, None, began[j].wallet)

PayReturn(t, s, w) == s \in asked /\ Pay(t, s.journey, s, w)

\* Blocks include a transaction, fail it, are replaced, and become final.
MovesOn(t, from, to) ==
  /\ chain[t] # None /\ chain[t].state \in from
  /\ chain' = [chain EXCEPT ![t].state = to]
  /\ UNCHANGED <<now, began, row, nonces, launched, asked, receipts, call>>

Block(t) ==
  \/ MovesOn(t, {"pending"}, "included") \/ MovesOn(t, {"pending"}, "failed")
  \/ MovesOn(t, {"included", "failed"}, "pending") \/ MovesOn(t, {"included"}, "final")

Tick ==
  /\ now < MaxTime /\ now' = now + 1
  /\ UNCHANGED <<began, row, nonces, chainVars, asked, receipts, call>>

Step(k) ==
  \/ Insert(k) \/ Launch(k)
  \/ CheckEarnAgain(k) \/ CheckEarn(k) \/ StoreEarn(k)
  \/ CheckFirst(k) \/ CheckReturn(k) \/ Issue(k) \/ Fail(k)

Next ==
  \/ \E k \in Call, w \in Wallet, j \in Journey :
       \/ Begin(k, w, j)
       \/ \E t \in Tx : AcceptEarn(k, w, j, t) \/ Complete(k, w, j, t)
  \/ \E k \in Call : Step(k)
  \/ \E t \in Tx : \/ \E j \in Journey : PayEarn(t, j)
                   \/ \E s \in asked, w \in Wallet : PayReturn(t, s, w)
                   \/ Block(t)
  \/ Tick

Spec == Init /\ [][Next]_vars
-----------------------------------------------------------------------------
\* A receipt stands for two final transfers of its wallet, the earn of its
\* journey and the return it was asked for, whatever the chain replaced and
\* whichever calls crossed in between.
ReceiptIsEarned ==
  \A r \in receipts :
    /\ r.wallet = began[r.journey].wallet
    /\ r.spend.journey = r.journey
    /\ Verified(r.spend.parent, r.journey, None, r.wallet)
    /\ Verified(r.return, r.journey, r.spend, r.wallet)

\* A return is good for one receipt, however often its journey is delivered.
OneReceiptPerReturn ==
  \A r, q \in receipts : r.return = q.return => r = q

\* Until its journey expires, the return a player was asked for is the one
\* that is stored: no second acceptance, no purge by another wallet's begin
\* and no failed call makes the server forget or replace it.
ReturnIsHonoured ==
  \A s \in asked : now < Expires(s.journey) =>
    row[s.journey] = [earn |-> s.parent, spend |-> s]
=============================================================================
