--------------------------- MODULE SequenceLane ---------------------------
(***************************************************************************)
(* The ordered mutations of one session: sequence and sequenceAsync of     *)
(* server/src/session/registry.ts.  Handlers whose operation awaits (the   *)
(* ledger, PEI, versioned matches) queue on a promise chain; handlers that *)
(* do not await (practice creation, command, pause, leave) run at once and *)
(* never look at the chain.  Both share the session's next number and the  *)
(* cache of answered requests.  Promise callbacks run before the next      *)
(* socket event, so nothing arrives between the end of one operation and   *)
(* the admission of the next.                                              *)
(***************************************************************************)
EXTENDS Integers, Sequences, SequencesExt

CONSTANTS
  Request,      \* requests a client may send: id, number, kind of handler
  ReplayLimit,  \* REPLAY_LIMIT
  MaxSends      \* bound on deliveries, duplicates included

ASSUME LaneAssumption ==
  /\ \A r \in Request : r.number \in Nat /\ r.kind \in {"sync", "async"}
  /\ ReplayLimit \in Nat \ {0} /\ MaxSends \in Nat

VARIABLES
  next,     \* session.nextSequence
  replay,   \* session.replay, oldest first; the request is its content hash
  lane,     \* sequenceAsync calls, in the order of the promise chain
  running,  \* the first of them awaits its operation
  applied,  \* history: requests that consumed a number, in order
  answers,  \* history: <<request, what its sender was told>>
  sends     \* deliveries so far

vars == <<next, replay, lane, running, applied, answers, sends>>

Verdict == {"applied", "cached", "conflict", "stale", "gap", "failed"}

TypeOK ==
  /\ next \in Nat
  /\ replay \in Seq(Request) /\ Len(replay) <= ReplayLimit
  /\ lane \in Seq(Request)
  /\ running \in BOOLEAN
  /\ applied \in Seq(Request)
  /\ answers \subseteq Request \X Verdict
  /\ sends \in 0 .. MaxSends

Init ==
  /\ next = 0 /\ replay = <<>> /\ lane = <<>> /\ running = FALSE
  /\ applied = <<>> /\ answers = {} /\ sends = 0

\* A promise callback is due: the head of the lane looks at the session.
Admitting == lane # <<>> /\ ~running

Cached(r) == {q \in ToSet(replay) : q.id = r.id}

\* What the checks make of a request, in their order.
\* Mutant: any request with a known id gets the answer stored under it.
Judge_NoHash(r) ==
  IF Cached(r) # {} THEN "cached"
  ELSE IF r.number < next THEN "stale"
  ELSE IF r.number > next THEN "gap"
  ELSE "applied"

\* Mutant: a number that was used is not told from the next one.
Judge_NoStale(r) ==
  IF Cached(r) # {} THEN IF r \in Cached(r) THEN "cached" ELSE "conflict"
  ELSE IF r.number > next THEN "gap" ELSE "applied"

Judge(r) ==
  IF Cached(r) # {} THEN IF r \in Cached(r) THEN "cached" ELSE "conflict"
  ELSE IF r.number < next THEN "stale"
  ELSE IF r.number > next THEN "gap"
  ELSE "applied"

Answer(r, verdict) == answers' = answers \cup {<<r, verdict>>}

\* Map.set keeps the place of a key it holds; the oldest entries are dropped.
\* Mutant: the limit is checked before the entry is added.
Remember_Late(r) ==
  LET at == SelectInSeq(replay, LAMBDA q : q.id = r.id)
      kept == IF Len(replay) > ReplayLimit THEN Tail(replay) ELSE replay
  IN IF at # 0 THEN [replay EXCEPT ![at] = r] ELSE Append(kept, r)

Remember(r) ==
  LET at == SelectInSeq(replay, LAMBDA q : q.id = r.id)
      all == IF at # 0 THEN [replay EXCEPT ![at] = r] ELSE Append(replay, r)
  IN IF Len(all) > ReplayLimit THEN Tail(all) ELSE all

Consume(r) ==
  /\ next' = next + 1
  /\ replay' = Remember(r)
  /\ applied' = Append(applied, r)

Arrives(r) ==
  /\ ~Admitting /\ sends < MaxSends /\ sends' = sends + 1

\* registry.sequence: judged and applied in one go, whatever the lane holds.
SyncArrives(r) ==
  /\ r.kind = "sync" /\ Arrives(r)
  /\ IF Judge(r) = "applied" THEN Consume(r)
                             ELSE UNCHANGED <<next, replay, applied>>
  /\ Answer(r, Judge(r))
  /\ UNCHANGED <<lane, running>>

\* registry.sequenceAsync, up to `await previous'.
AsyncArrives(r) ==
  /\ r.kind = "async" /\ Arrives(r)
  /\ lane' = Append(lane, r)
  /\ UNCHANGED <<next, replay, running, applied, answers>>

\* Mutant: an early return outside the finally block keeps the lane.
Admit_KeepsLane ==
  LET r == Head(lane) IN
  /\ Admitting
  /\ IF Judge(r) = "applied"
     THEN running' = TRUE /\ UNCHANGED answers
     ELSE Answer(r, Judge(r)) /\ UNCHANGED running
  /\ UNCHANGED <<next, replay, lane, applied, sends>>

\* After it: the session is looked at only now, and the operation begins.
Admit ==
  LET r == Head(lane) IN
  /\ Admitting
  /\ IF Judge(r) = "applied"
     THEN running' = TRUE /\ UNCHANGED <<lane, answers>>
     ELSE lane' = Tail(lane) /\ Answer(r, Judge(r)) /\ UNCHANGED running
  /\ UNCHANGED <<next, replay, applied, sends>>

Release ==
  /\ lane' = Tail(lane) /\ running' = FALSE
  /\ UNCHANGED sends

\* The operation's promise resolves, with success or a failure answer.
Complete ==
  /\ running
  /\ Consume(Head(lane)) /\ Answer(Head(lane), "applied")
  /\ Release

\* The operation throws: the lane is released in the finally block, no
\* number is consumed and nothing remembered.
Throw ==
  /\ running
  /\ Answer(Head(lane), "failed")
  /\ UNCHANGED <<next, replay, applied>>
  /\ Release

Next ==
  \/ \E r \in Request : SyncArrives(r) \/ AsyncArrives(r)
  \/ Admit
  \/ Complete \/ Throw

Spec == Init /\ [][Next]_vars

\* The operations of the lane are bounded database and timer waits.
FairSpec == Spec /\ WF_vars(Admit) /\ WF_vars(Complete \/ Throw)
-----------------------------------------------------------------------------
\* "Replay caches make exact duplicates idempotent": a request consumes one
\* number however often it is delivered, also after its answer has been
\* dropped from the cache and while its first copy is still running.
AppliedOnce == \A i, j \in DOMAIN applied : applied[i] = applied[j] => i = j

\* A stored answer is only given to the request it was the answer to.
AnswersAreOwn ==
  \A r \in Request : <<r, "cached">> \in answers => r \in ToSet(applied)

\* The protocol document says that sequences "reject conflicts, stale
\* commands, and gaps": the n-th operation of a session is the one sent under
\* number n, so no number is applied twice and none is passed over.
EachNumberOnce == \A i \in DOMAIN applied : applied[i].number = i - 1

\* A queued request is answered, whatever becomes of those before it.
LaneDrains == \A r \in Request : r \in ToSet(lane) ~> r \notin ToSet(lane)
=============================================================================
