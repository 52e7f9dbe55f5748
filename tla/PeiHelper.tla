---------------------------- MODULE PeiHelper ----------------------------
(***************************************************************************)
(* The PEI helper's sponsored earn transfers: send of                      *)
(* server/src/pei/earn-transfer.ts over the PostgreSQL store of            *)
(* server/src/pei/transfer-store.ts.  Calls of one or several proxy        *)
(* processes run side by side; each works in one database transaction      *)
(* under an advisory lock on its request and one on the day whose budget   *)
(* it draws on, commits the signed bytes, and only then submits them.  A   *)
(* call may throw, die with its process, or miss the answer to its commit, *)
(* and the request is simply sent again.                                   *)
(***************************************************************************)
EXTENDS Integers, FiniteSets

CONSTANTS
  Call,       \* calls of send in flight at a time, over all processes
  Process,    \* proxy processes on the database
  ProcessOf,  \* the process a call runs in
  Clients,    \* database clients of a process's pool
  Request,    \* authenticated earn requests, by their commitment
  Expires,    \* request.expiresAt
  DayLength,  \* length of a UTC day
  Limit,      \* transfers of the configured amount the daily budget allows
  MaxTime,    \* bound on the clock
  MaxSigned,  \* bound on the transactions signed
  None

ASSUME HelperAssumption ==
  /\ IsFiniteSet(Request) /\ IsFiniteSet(Call)
  /\ ProcessOf \in [Call -> Process]
  /\ Clients \in Nat \ {0}
  /\ Expires \in [Request -> Nat]
  /\ DayLength \in Nat \ {0} /\ Limit \in Nat
  /\ MaxTime \in Nat /\ MaxSigned \in Nat
  /\ None \notin Call \cup Request \cup Nat

VARIABLES
  now,          \* wall clock
  issued,       \* pei_proxy_issuances_v0: the day a request is booked on
  transfer,     \* pei_proxy_transfers_v0: the stored transaction
  status,       \* its state column
  requestLock,  \* advisory lock on a request: the call that holds it
  dayLock,      \* advisory lock on a day: the call that holds it
  call,         \* the calls in flight
  signed,       \* transactions signed so far; a number names each
  sent          \* <<request, transaction>> handed to the network

tables == <<issued, transfer, status>>
locks  == <<requestLock, dayLock>>
vars   == <<now, tables, locks, call, signed, sent>>

DayOf(t) == t \div DayLength
Day == 0 .. DayOf(MaxTime)

\* Where a call is: waiting for a client of the pool, for the lock on its
\* request, for the lock on its day; at the network; committing.
Pc == {"idle", "connect", "read", "reserve", "prepare", "save",
       "submit", "reconnect", "mark"}
Idle == [pc |-> "idle", req |-> None, day |-> 0, tx |-> None]
CallState ==
  [pc: Pc, req: Request \cup {None}, day: Day, tx: Nat \cup {None}]

TypeOK ==
  /\ now \in 0 .. MaxTime
  /\ issued \in [Request -> Day \cup {None}]
  /\ transfer \in [Request -> Nat \cup {None}]
  /\ status \in [Request -> {"none", "signed", "broadcast_unknown"}]
  /\ \A r \in Request : transfer[r] = None <=> status[r] = "none"
  /\ requestLock \in [Request -> Call \cup {None}]
  /\ dayLock \in [Day -> Call \cup {None}]
  /\ call \in [Call -> CallState]
  /\ \A k \in Call : call[k].pc # "idle" => call[k].req \in Request
  /\ signed \in 0 .. MaxSigned
  /\ sent \subseteq Request \X Nat

Init ==
  /\ now = 0
  /\ issued = [r \in Request |-> None]
  /\ transfer = [r \in Request |-> None]
  /\ status = [r \in Request |-> "none"]
  /\ requestLock = [r \in Request |-> None]
  /\ dayLock = [d \in Day |-> None]
  /\ call = [k \in Call |-> Idle]
  /\ signed = 0
  /\ sent = {}

At(k, pc) == call[k].pc = pc
Booked(d) == {r \in Request : issued[r] = d}

\* The pool has a client for one more transaction of the call's process.
ClientFor(k) ==
  Cardinality({l \in Call : /\ ProcessOf[l] = ProcessOf[k]
                            /\ call[l].pc \in {"read", "reserve", "prepare", "save", "mark"}})
    < Clients

\* The end of a transaction, by COMMIT, ROLLBACK or a dead connection,
\* frees what the call has locked.
Free(k) ==
  /\ requestLock' = [r \in Request |-> IF requestLock[r] = k THEN None ELSE requestLock[r]]
  /\ dayLock' = [d \in Day |-> IF dayLock[d] = k THEN None ELSE dayLock[d]]

\* The call throws or its process dies: nothing it wrote in an open
\* transaction is kept.
Throw(k) ==
  /\ call' = [call EXCEPT ![k] = Idle]
  /\ Free(k)
  /\ UNCHANGED <<now, tables, signed, sent>>

\* The earn or verify route, with a request that has not expired.
Send(k, r) ==
  /\ At(k, "idle") /\ now < Expires[r]
  /\ call' = [call EXCEPT ![k] = [Idle EXCEPT !.pc = "connect", !.req = r]]
  /\ UNCHANGED <<now, tables, locks, signed, sent>>

\* withRequestLock takes a client of the pool, to read and to mark.
Connect(k) ==
  /\ ClientFor(k)
  /\ \/ At(k, "connect") /\ call' = [call EXCEPT ![k].pc = "read"]
     \/ At(k, "reconnect") /\ call' = [call EXCEPT ![k].pc = "mark"]
  /\ UNCHANGED <<now, tables, locks, signed, sent>>

\* Mutant: the stored transaction is taken for stale and built anew.
Found_Rebuilt(k) ==
  LET r == call[k].req IN
  /\ At(k, "read") /\ requestLock[r] = None
  /\ transfer[r] # None /\ signed < MaxSigned
  /\ signed' = signed + 1
  /\ call' = [call EXCEPT ![k].pc = "submit", ![k].tx = signed]
  /\ UNCHANGED <<now, tables, locks, sent>>

\* The stored transaction is found: the same bytes are submitted again.
Found(k) ==
  LET r == call[k].req IN
  /\ At(k, "read") /\ requestLock[r] = None
  /\ transfer[r] # None
  /\ call' = [call EXCEPT ![k].pc = "submit", ![k].tx = transfer[r]]
  /\ UNCHANGED <<now, tables, locks, signed, sent>>

\* There is none: the lock is held, and the clock read for the booking.
Missing(k) ==
  LET r == call[k].req IN
  /\ At(k, "read") /\ requestLock[r] = None
  /\ transfer[r] = None /\ now < Expires[r]
  /\ requestLock' = [requestLock EXCEPT ![r] = k]
  /\ call' = [call EXCEPT ![k].pc = "reserve", ![k].day = DayOf(now)]
  /\ UNCHANGED <<now, tables, dayLock, signed, sent>>

\* Mutant: an advisory lock on the day is not taken.
Reserve_NoDayLock(k) ==
  /\ At(k, "reserve")
  /\ Cardinality(Booked(call[k].day)) < Limit
  /\ call' = [call EXCEPT ![k].pc = "prepare"]
  /\ UNCHANGED <<now, tables, locks, signed, sent>>

\* The budget is checked with the day locked, until the transaction ends.
Reserve(k) ==
  LET d == call[k].day IN
  /\ At(k, "reserve") /\ dayLock[d] = None
  /\ Cardinality(Booked(d)) < Limit
  /\ dayLock' = [dayLock EXCEPT ![d] = k]
  /\ call' = [call EXCEPT ![k].pc = "prepare"]
  /\ UNCHANGED <<now, tables, requestLock, signed, sent>>

\* Mutant: a failure to sign goes unnoticed.
Prepare_Unsigned(k) ==
  /\ At(k, "prepare")
  /\ call' = [call EXCEPT ![k].pc = "save"]
  /\ UNCHANGED <<now, tables, locks, signed, sent>>

\* A transaction is built at the height of the moment and signed.
Prepare(k) ==
  /\ At(k, "prepare") /\ signed < MaxSigned
  /\ signed' = signed + 1
  /\ call' = [call EXCEPT ![k].pc = "save", ![k].tx = signed]
  /\ UNCHANGED <<now, tables, locks, sent>>

\* saveSigned and COMMIT: the booking and the bytes become visible together;
\* bytes that are stored already stay, and are the ones to submit.
Stored(k) ==
  LET c == call[k] IN IF transfer[c.req] = None THEN c.tx ELSE transfer[c.req]

Store(k) ==
  LET r == call[k].req IN
  /\ issued' = [issued EXCEPT ![r] = call[k].day]
  /\ transfer' = [transfer EXCEPT ![r] = Stored(k)]
  /\ status' = [status EXCEPT ![r] = IF @ = "none" THEN "signed" ELSE @]
  /\ Free(k)
  /\ UNCHANGED <<now, signed, sent>>

\* Mutant: the bytes are written through the pool, past the transaction.
Save_OtherClient(k) ==
  /\ At(k, "save") /\ ClientFor(k)
  /\ call' = [call EXCEPT ![k].pc = "submit", ![k].tx = Stored(k)]
  /\ Store(k)

Save(k) ==
  /\ At(k, "save")
  /\ call' = [call EXCEPT ![k].pc = "submit", ![k].tx = Stored(k)]
  /\ Store(k)

\* The commit succeeds; its answer, or the process, is lost.
SaveUnanswered(k) ==
  /\ At(k, "save")
  /\ call' = [call EXCEPT ![k] = Idle]
  /\ Store(k)

\* The call waits for both to be submitted before it is recorded; an error
\* of the network says nothing about the fate of the transaction.
Submit(k) ==
  /\ At(k, "submit")
  /\ call' = [call EXCEPT ![k].pc = "reconnect"]
  /\ \/ sent' = sent \cup {<<call[k].req, call[k].tx>>}
     \/ UNCHANGED sent
  /\ UNCHANGED <<now, tables, locks, signed>>

\* markBroadcastUnknown, in a transaction of its own.
Mark(k) ==
  LET r == call[k].req IN
  /\ At(k, "mark") /\ requestLock[r] = None
  /\ status' = [status EXCEPT ![r] = "broadcast_unknown"]
  /\ call' = [call EXCEPT ![k] = Idle]
  /\ UNCHANGED <<now, issued, transfer, locks, signed, sent>>

\* A call whose request expires, whose day is spent or whose transaction
\* cannot be built throws, once it holds the lock it waits for.
Refused(k) ==
  LET c == call[k] IN
  /\ \/ /\ At(k, "read") /\ requestLock[c.req] = None
        /\ transfer[c.req] = None /\ now >= Expires[c.req]
     \/ /\ At(k, "reserve") /\ dayLock[c.day] = None
        /\ Cardinality(Booked(c.day)) >= Limit
     \/ At(k, "prepare")
  /\ Throw(k)

\* A call throws or dies anywhere else.
Dies(k) == ~At(k, "idle") /\ Throw(k)

Step(k) ==
  \/ Connect(k) \/ Found(k) \/ Missing(k) \/ Reserve(k) \/ Prepare(k)
  \/ Save(k) \/ Submit(k) \/ Mark(k) \/ Refused(k)

Tick ==
  /\ now < MaxTime /\ now' = now + 1
  /\ UNCHANGED <<tables, locks, call, signed, sent>>

Next ==
  \/ \E k \in Call : Step(k) \/ SaveUnanswered(k) \/ Dies(k) \/ \E r \in Request : Send(k, r)
  \/ Tick

Spec == Init /\ [][Next]_vars

\* Every await of a call is bounded by a timeout of its own, except the waits
\* for a lock and for a client, which PostgreSQL and the pool serve in turn.
FairSpec == Spec /\ \A k \in Call : SF_vars(Step(k))
-----------------------------------------------------------------------------
\* What has left the helper is what the tables say: the bytes are stored and
\* booked on a day.  So however often and by however many processes a
\* request is sent, and wherever they fail, the sponsor pays it once.
SentIsBooked ==
  \A a \in sent : transfer[a[1]] = a[2] /\ issued[a[1]] # None

\* No day books more transfers than its budget allows, though the check and
\* the commit are far apart and calls for other requests run in between.
BudgetKept ==
  \A d \in Day : Cardinality(Booked(d)) <= Limit

\* Every call ends: no order of the waits for clients and for locks, no spent
\* day and no call that failed leaves another waiting for ever.
EveryCallEnds ==
  \A k \in Call : ~At(k, "idle") ~> At(k, "idle")
=============================================================================
