------------------------- MODULE LiveCoordinator -------------------------
(***************************************************************************)
(* A live V10 match and the promises around it: the timer that pumps it,   *)
(* the lane of session/registry.ts in which each request of its owner      *)
(* first waits for the match to catch up with the clock, the connection    *)
(* that may go while it waits, and the settlement of what comes out.       *)
(*                                                                         *)
(* Between two batches of a catch-up the lane yields, and everything else  *)
(* may happen; the last batch and what follows it are one step, since only *)
(* promise callbacks run between them.  A request is in the lane as soon   *)
(* as it is sent, with the match as it is then: its way to the server is   *)
(* part of the time it waits there.                                        *)
(***************************************************************************)
EXTENDS LiveMatch, FiniteSets

CONSTANT
  Scenario   \* of a match: its mode, its world, the requests its owner may
             \* send, and bounds on how many and over how many connections
             \* (the only one there is is not lost)

ASSUME CoordinatorAssumption ==
  \A s \in Scenario :
    /\ s.mode \in {"reward", "practice"} /\ s.world \in World
    /\ s.sends \in Nat /\ s.connections \in Nat \ {0}
    /\ \A r \in s.requests :
         /\ r.kind \in {"intent", "cancel", "walk_stop", "pause", "resume"}
         /\ r.kind = "intent" => r.intent \in Intents
         /\ r.kind \in {"pause", "resume"} => s.mode = "practice"

VARIABLES
  scenario,   \* of the challenge
  entry,      \* the match in the coordinator
  due,        \* ticks it was owed at the last pump and did not advance
  challenge,  \* its status in the registry, and settlementEmitted
  socket,     \* session.socketId, 0 when there is none
  sockets,    \* connections so far
  cursor,     \* next input sequence
  answered,   \* request ids of the caches of inputs and of neutral inputs
  lane,       \* requests of the serial lane, each with its socket
  waiting,    \* the first of them yields in a catch-up
  last,       \* the last request, to be sent again
  sends       \* requests sent

Practice == scenario.mode = "practice"

vars == <<scenario, entry, due, challenge, socket, sockets, cursor, answered,
          lane, waiting, last, sends>>

Status == {"active", "completed", "expired", "left"}

-----------------------------------------------------------------------------
(* What the registry makes of a transition                                 *)

\* onSimulationTransitionV10, publishV10 and settleV10.
Observed(e, c) ==
  IF ~Terminal(e) THEN c
  ELSE [status  |-> IF c.status # "active" THEN c.status
                    ELSE IF e.unavailable THEN "expired" ELSE "completed",
        settled |-> TRUE]

Moved(e, d) ==
  /\ entry' = e
  /\ due' = IF Terminal(e) \/ e.paused THEN 0 ELSE d

\* Records after which an input that was sent before them means nothing.
Boundary(op)    == op.kind \in {"barrier", "automatic", "safety"}
Boundaries(log) == Cardinality({k \in DOMAIN log : Boundary(log[k].op)})

\* Ticks the clock may have run between two looks at it: with what is still
\* owed they may exceed the debt.
Elapsed == 0 .. Debt

NoRequest == [id |-> 0]

Init ==
  /\ scenario \in Scenario /\ entry = Create(scenario.world)
  /\ due = 0
  /\ challenge = [status |-> "active", settled |-> FALSE]
  /\ socket = 1 /\ sockets = 1
  /\ cursor = 0 /\ answered = {} /\ lane = <<>> /\ waiting = FALSE
  /\ last = NoRequest /\ sends = 0

-----------------------------------------------------------------------------
(* The timer                                                               *)

\* pumpAll gives the match its next batch, after accrue has read the clock;
\* an exception stops the match for good.
Becomes(e, d) == Moved(e, d) /\ challenge' = Observed(e, challenge)

Pumped(p) ==
  Becomes(IF Threw(entry, p.entry) THEN Safety(p.entry, "expiry") ELSE p.entry,
          p.due)

Timer ==
  /\ ~Terminal(entry) /\ ~entry.paused
  /\ \E t \in Elapsed \ {0} : Pumped(Pump(entry, due + t))
  /\ UNCHANGED <<scenario, socket, sockets, cursor, answered, lane, waiting,
                 last, sends>>

-----------------------------------------------------------------------------
(* The client and its connection                                           *)

\* A request for the match as its owner sees it.
Request(r) ==
  [id |-> sends + 1, kind |-> r.kind,
   seq |-> cursor + Len(SelectSeq(lane, LAMBDA j : j.request.kind = "intent")),
   intent |-> [r.intent EXCEPT !.aimId = IF r.intent.type = "fire"
                                         THEN entry.match.aimId ELSE 0],
   seen |-> Seen(entry.match), boundaries |-> Boundaries(entry.log)]

Post(r) ==
  /\ socket # 0 /\ sends < scenario.sends /\ ~Terminal(entry)
  /\ lane' = Append(lane, [request |-> r, socket |-> socket])
  /\ last' = r /\ sends' = sends + 1
  /\ UNCHANGED <<scenario, entry, due, challenge, socket, sockets, cursor,
                 answered, waiting>>

Send == \E r \in scenario.requests : Post(Request(r))

\* The answer was lost: the same request goes out on the present connection.
Repeat == last # NoRequest /\ Post(last)

Live == challenge.status = "active"

\* connectionBarrierV10.
AtConnection(reason) ==
  Becomes(ApplyBarrier(entry, BarrierOp(reason, "player", entry.match), due), due)

\* Connections of a match that is over are left out.
Disconnect ==
  /\ socket # 0 /\ socket' = 0 /\ Live /\ scenario.connections > 1
  /\ AtConnection("disconnect")
  /\ UNCHANGED <<scenario, sockets, cursor, answered, lane, waiting, last, sends>>

\* A resume, of a session whose connection is gone or is being replaced.
Reconnect ==
  /\ sockets < scenario.connections /\ Live
  /\ sockets' = sockets + 1 /\ socket' = sockets + 1
  /\ AtConnection("reconnect")
  /\ UNCHANGED <<scenario, cursor, answered, lane, waiting, last, sends>>

-----------------------------------------------------------------------------
(* The serial lane                                                         *)

Job     == Head(lane)
Present == socket # 0 /\ socket = Job.socket
Neutral(kind) == kind \in {"cancel", "walk_stop"}
Pauses(kind)  == kind \in {"pause", "resume"}

\* What a request must pass before it waits for the match to catch up.
Admitted ==
  LET r == Job.request
  IN IF r.kind = "intent"
     THEN Present /\ r.id \notin answered /\ r.seq = cursor
     ELSE IF Neutral(r.kind) THEN Present /\ Live /\ r.id \notin answered
     ELSE Live /\ Practice

\* A pause, a resume and a neutral barrier act on the match as it is now, if
\* there is something to do.
Applies(e, r) ==
  IF Pauses(r.kind) THEN e.paused # (r.kind = "pause")
  ELSE /\ e.match.actor = "player" /\ Moves(e.match)
       /\ e.match.turn = r.seen.turn /\ e.match.epoch = r.seen.epoch

Handled(e, r) ==
  IF r.kind = "intent" THEN Apply(e, IntentOp("player", r.intent, r.seen))
  ELSE IF ~Applies(e, r) THEN e
  ELSE ApplyBarrier(e, BarrierOp(r.kind, "player", e.match), 0)

\* The request is off the lane, and what it did is done.
AnsweredWith(acts, f, seen) ==
  LET r == Job.request
  IN /\ Moved(f, 0)
     /\ challenge' = Observed(f, seen)
     /\ cursor' = IF acts /\ r.kind = "intent" THEN cursor + 1 ELSE cursor
     /\ answered' = IF acts /\ ~Pauses(r.kind) THEN answered \cup {r.id}
                    ELSE answered

\* The rest of the handler, once the match has caught up: the connection and
\* the match are looked at again before anything is spent.
\* Mutant: what was checked before the wait is not checked again.
Finished_Unfenced(e) == AnsweredWith(TRUE, Handled(e, Job.request), challenge)

Finished(e) ==
  LET seen == Observed(e, challenge)
      acts == Present /\ (Job.request.kind = "intent" => seen.status = "active")
  IN AnsweredWith(acts, IF acts THEN Handled(e, Job.request) ELSE e, seen)

Refuse ==
  /\ waiting' = FALSE /\ lane' = Tail(lane)
  /\ UNCHANGED <<cursor, answered>>

\* One batch of catchUp: it yields while ticks are left, and an exception
\* fails the request only.
CaughtUp(p) ==
  LET threw  == Threw(entry, p.entry)
      yields == p.due > 0 /\ ~Terminal(p.entry) /\ ~p.entry.paused
  IN IF threw \/ yields
     THEN /\ Becomes(p.entry, p.due)
          /\ IF threw THEN Refuse
             ELSE waiting' = TRUE /\ UNCHANGED <<cursor, answered, lane>>
     ELSE /\ Finished(p.entry)
          /\ waiting' = FALSE /\ lane' = Tail(lane)

Serve ==
  /\ lane # <<>>
  /\ IF waiting \/ Admitted THEN \E t \in Elapsed : CaughtUp(Pump(entry, due + t))
     ELSE Refuse /\ UNCHANGED <<entry, due, challenge>>
  /\ UNCHANGED <<scenario, socket, sockets, last, sends>>

-----------------------------------------------------------------------------
(* Ends from outside                                                       *)

\* leaveChallengeV10 runs outside the lane.
Leave ==
  /\ socket # 0 /\ Live
  /\ Moved(Safety(entry, "left"), due)
  /\ challenge' = [status |-> "left", settled |-> TRUE]
  /\ UNCHANGED <<scenario, socket, sockets, cursor, answered, lane, waiting,
                 last, sends>>

\* expireChallenge, of a sweep or of a handler that meets an old match.
Expire ==
  /\ Live
  /\ Moved(Safety(entry, "expiry"), due)
  /\ challenge' = [status |-> "expired", settled |-> TRUE]
  /\ UNCHANGED <<scenario, socket, sockets, cursor, answered, lane, waiting,
                 last, sends>>

Next ==
  \/ Timer \/ Serve
  \/ Send \/ Repeat \/ Disconnect \/ Reconnect
  \/ Leave \/ Expire

Spec == Init /\ [][Next]_vars

-----------------------------------------------------------------------------
(* Properties                                                              *)

\* The assertions the kernel makes of every state it hands out hold of the
\* match (each would throw and stop it), the types of what surrounds it do, and
\* the registry has settled the match exactly when it is over.
StateIsValid ==
  /\ Valid(entry.match)
  /\ challenge.status \in Status
  /\ Terminal(entry) = (challenge.status # "active")
  /\ Terminal(entry) = challenge.settled
  /\ due \in 0 .. Debt /\ cursor <= sends
  /\ waiting => lane # <<>>

\* The opponent's script, which looks at the match before each operation but
\* asks for the next with what it decided several operations and ticks ago,
\* asks for none the kernel refuses, unless the barriers of the match are spent.
ScriptIsLegal == entry.throws > 0 => entry.match.barriers = MaxBarriers

\* An input of the player that takes effect was sent for the match as it was
\* at its last boundary: no phase change, expired lease, barrier or turn of
\* the opponent has come between the view it answers and the moment it is
\* applied, however long it waited in the lane.
NoStaleInput ==
  [][\A k \in DOMAIN entry'.log \ DOMAIN entry.log :
       LET op == entry'.log[k].op
       IN op.kind = "intent" /\ op.actor = "player" =>
            /\ lane # <<>> /\ Present
            /\ Boundaries(SubSeq(entry'.log, 1, k - 1)) = Job.request.boundaries
    ]_vars

\* A match that is over can be proved: playing its log again gives the same
\* log, the same plans and the same match, unless the opponent's planner
\* failed or its script did.
ReplayProves ==
  Terminal(entry) =>
    \/ \E i \in DOMAIN entry.plans : entry.plans[i].status = "work_failure"
    \/ entry.throws > 0
    \/ Verify(entry)

=============================================================================
