------------------------- MODULE MatchSettlement -------------------------
(***************************************************************************)
(* The life of one wallet's rewarded V10 matches between the socket        *)
(* handlers, the session registry, the runtime and the ledger: a create    *)
(* handler awaits rewards.start and looks at the world again before it     *)
(* builds the match; a match ends by a result, a leave, its deadline, the  *)
(* close of its session or the close of the server; the result is settled  *)
(* in the ledger by a task nobody waits for, whose failure is swallowed.   *)
(* Practice matches reach no ledger and are left out.                      *)
(***************************************************************************)
EXTENDS Integers, FiniteSets

CONSTANTS
  Session,      \* sessions the server may hold at a time
  Challenge,    \* reward challenges the wallet may reserve
  MaxFaults,    \* bound on failed or unanswered calls of the reward store
  MaxCrashes,   \* bound on crashes and closes of the server
  None          \* no challenge, no session, no result

ASSUME SettlementAssumption ==
  /\ MaxFaults \in Nat /\ MaxCrashes \in Nat
  /\ None \notin Session \cup Challenge

VARIABLES
  row,       \* reward_entitlements.state, up to the end of the match
  conn,      \* how the registry holds each session
  handler,   \* the create handler that owns the session's sequence lane
  match,     \* the match of each challenge in the registry
  tasks,     \* rewardSettlementTasks: results on their way to the ledger
  server,    \* up, closing (runtime close() is awaiting) or down
  result,    \* history: the outcome the registry settled for the challenge
  faulted,   \* history: challenges one of whose store calls failed
  faults, crashes

volatile == <<conn, handler, match, tasks>>
vars == <<row, volatile, server, result, faulted, faults, crashes>>

RowState == {"none", "reserved", "in_progress", "claimable", "forfeited",
             "lost", "expired"}
Winner  == {"player_win", "loomkeeper_win", "draw"}
Outcome == Winner \cup {"left", "expired"}
Conn    == {"unopened", "bound", "detached", "lapsed", "closed"}
Handler == [pc: {"idle", "start", "started", "left"},
            id: Challenge \cup {None}, transport: BOOLEAN]
Match   == [status: {"none", "active", "completed", "left", "expired"},
            owner: Session \cup {None}, settled: BOOLEAN]

ASSUME NoneAssumption == None \notin Outcome

Idle    == [pc |-> "idle", id |-> None, transport |-> FALSE]
NoMatch == [status |-> "none", owner |-> None, settled |-> FALSE]

TypeOK ==
  /\ row \in [Challenge -> RowState]
  /\ conn \in [Session -> Conn]
  /\ handler \in [Session -> Handler]
  /\ match \in [Challenge -> Match]
  /\ tasks \subseteq [id: Challenge, outcome: Outcome]
  /\ server \in {"up", "closing", "down"}
  /\ result \in [Challenge -> Outcome \cup {None}]
  /\ faulted \subseteq Challenge
  /\ faults \in 0 .. MaxFaults /\ crashes \in 0 .. MaxCrashes

Init ==
  /\ row = [c \in Challenge |-> "none"]
  /\ conn = [s \in Session |-> "unopened"]
  /\ handler = [s \in Session |-> Idle]
  /\ match = [c \in Challenge |-> NoMatch]
  /\ tasks = {}
  /\ server = "up"
  /\ result = [c \in Challenge |-> None]
  /\ faulted = {} /\ faults = 0 /\ crashes = 0

Active(c)  == match[c].status = "active"
\* The registry finds the session, whether or not its time has run out.
Known(s)   == conn[s] \in {"bound", "detached", "lapsed"}
Unchanged  == UNCHANGED <<server, faulted, faults, crashes>>
-----------------------------------------------------------------------------
(* The ledger as the match sees it                                         *)

\* Mutant: the outcome is stored as it was reported.
StateOf_Raw(o) == o

StateOf(o) ==
  CASE o = "player_win" -> "claimable"
    [] o = "left"       -> "forfeited"
    [] o = "expired"    -> "expired"
    [] OTHER            -> "lost"

\* completeMatch: only an entitlement in progress is moved; any later result
\* is answered with the row as it stands.
Recorded(c, o) ==
  IF row[c] = "in_progress" THEN [row EXCEPT ![c] = StateOf(o)] ELSE row

Open(c) == row[c] \in {"reserved", "in_progress"}

Reserve(c) ==
  /\ server = "up"
  /\ row[c] = "none"
  /\ \A d \in Challenge : ~Open(d)
  /\ row' = [row EXCEPT ![c] = "reserved"]
  /\ UNCHANGED <<volatile, result>> /\ Unchanged

\* The reservation is cancelled, or runs out and is swept.
Release(c) ==
  /\ server # "down"
  /\ row[c] = "reserved"
  /\ row' = [row EXCEPT ![c] = "expired"]
  /\ UNCHANGED <<volatile, result>> /\ Unchanged
-----------------------------------------------------------------------------
(* Sessions                                                                *)

OpenSession(s) ==
  /\ server = "up"
  /\ conn[s] \in {"unopened", "closed"}
  /\ handler[s] = Idle
  /\ conn' = [conn EXCEPT ![s] = "bound"]
  /\ UNCHANGED <<row, handler, match, tasks, result>> /\ Unchanged

\* A running handler keeps the socket it came in by: once that one is gone
\* or replaced, getBound(socket.id) no longer answers with the session.
LoseTransport(s, state) ==
  /\ conn' = [conn EXCEPT ![s] = state]
  /\ handler' = [handler EXCEPT ![s].transport = FALSE]

Disconnect(s) ==
  /\ server = "up" /\ conn[s] = "bound"
  /\ LoseTransport(s, "detached")
  /\ UNCHANGED <<row, match, tasks, result>> /\ Unchanged

Resume(s) ==
  /\ server = "up" /\ conn[s] \in {"bound", "detached"}
  /\ LoseTransport(s, "bound")
  /\ UNCHANGED <<row, match, tasks, result>> /\ Unchanged

\* expiresAt or the reconnect deadline passes; the registry notices at the
\* next sweep.
Lapse(s) ==
  /\ server = "up" /\ conn[s] \in {"bound", "detached"}
  /\ LoseTransport(s, "lapsed")
  /\ UNCHANGED <<row, match, tasks, result>> /\ Unchanged
-----------------------------------------------------------------------------
(* The end of a match, settled once                                        *)

\* settleV10 for each match of `ended' that has not been settled.
Settle(ended, status, o) ==
  LET now == {c \in ended : ~match[c].settled} IN
  /\ match' = [c \in Challenge |->
       IF c \in ended THEN [match[c] EXCEPT !.status = status, !.settled = TRUE]
                      ELSE match[c]]
  /\ tasks' = tasks \cup {[id |-> c, outcome |-> o] : c \in now}
  /\ result' = [c \in Challenge |-> IF c \in now THEN o ELSE result[c]]

ActiveOf(s) == {c \in Challenge : Active(c) /\ match[c].owner = s}

\* The simulation finishes on a tick of the coordinator's timer, connected
\* or not.
Finish(c, o) ==
  /\ server = "up" /\ Active(c) /\ Known(match[c].owner)
  /\ Settle({c}, "completed", o)
  /\ UNCHANGED <<row, conn, handler>> /\ Unchanged

Leave(c) ==
  /\ server = "up" /\ Active(c)
  /\ conn[match[c].owner] = "bound" /\ handler[match[c].owner] = Idle
  /\ Settle({c}, "left", "left")
  /\ UNCHANGED <<row, conn, handler>> /\ Unchanged

\* Mutant: the deadline is only looked at for a session in touch.
ExpireMatch_Bound(c) ==
  /\ server = "up" /\ Active(c) /\ conn[match[c].owner] = "bound"
  /\ Settle({c}, "expired", "expired")
  /\ UNCHANGED <<row, conn, handler>> /\ Unchanged

\* sweep() or a safety stop of the coordinator ends an unfinished match.
ExpireMatch(c) ==
  /\ server = "up" /\ Active(c) /\ Known(match[c].owner)
  /\ Settle({c}, "expired", "expired")
  /\ UNCHANGED <<row, conn, handler>> /\ Unchanged

CloseSession(s) ==
  /\ server = "up" /\ conn[s] = "lapsed"
  /\ Settle(ActiveOf(s), "expired", "expired")
  /\ conn' = [conn EXCEPT ![s] = "closed"]
  /\ UNCHANGED <<row, handler>> /\ Unchanged
-----------------------------------------------------------------------------
(* The create handler                                                      *)

\* admitChallengeAutomatedV10: bound, and no match of the session runs.
Admitted(s) == conn[s] = "bound" /\ ActiveOf(s) = {}

Create(s, c) ==
  /\ server = "up" /\ handler[s] = Idle
  /\ Admitted(s) /\ match[c].owner # s
  /\ handler' = [handler EXCEPT ![s] =
       [pc |-> "start", id |-> c, transport |-> TRUE]]
  /\ UNCHANGED <<row, conn, match, tasks, result>> /\ Unchanged

\* Mutant: a start that finds the match in progress is answered with it.
StartCommits_Again(s) ==
  LET c == handler[s].id IN
  /\ server # "down" /\ handler[s].pc = "start" /\ row[c] \in {"reserved", "in_progress"}
  /\ row' = [row EXCEPT ![c] = "in_progress"]
  /\ handler' = [handler EXCEPT ![s].pc = "started"]
  /\ UNCHANGED <<conn, match, tasks, result>> /\ Unchanged

\* rewards.start: the eligibility token is spent with the reservation, so a
\* second start of the same challenge is refused.
StartCommits(s) ==
  LET c == handler[s].id IN
  /\ server # "down" /\ handler[s].pc = "start" /\ row[c] = "reserved"
  /\ row' = [row EXCEPT ![c] = "in_progress"]
  /\ handler' = [handler EXCEPT ![s].pc = "started"]
  /\ UNCHANGED <<conn, match, tasks, result>> /\ Unchanged

\* The reservation ran out or is closed, or the store fails before it
\* commits: the handler answers with an error and nothing has changed.
StartRefused(s) ==
  /\ server # "down" /\ handler[s].pc = "start"
  /\ handler' = [handler EXCEPT ![s] = Idle]
  /\ UNCHANGED <<row, conn, match, tasks, result>> /\ Unchanged

Fault(c) ==
  /\ faults < MaxFaults /\ faults' = faults + 1
  /\ faulted' = faulted \cup {c}
  /\ UNCHANGED <<server, crashes>>

\* The commit succeeds and its answer is lost: without an entitlement in
\* hand the catch block has nothing to give back.
StartUnanswered(s) ==
  LET c == handler[s].id IN
  /\ server # "down" /\ handler[s].pc = "start" /\ row[c] = "reserved"
  /\ row' = [row EXCEPT ![c] = "in_progress"]
  /\ handler' = [handler EXCEPT ![s] = Idle]
  /\ Fault(c)
  /\ UNCHANGED <<conn, match, tasks, result>>

\* After the await: the same transport must still hold the session, and the
\* session be admitted again; the match is built in the same turn, or the
\* attempt is given up as left.
StillHeld(s) == handler[s].transport /\ Admitted(s)

BuildMatch(s) ==
  LET c == handler[s].id IN
  /\ server # "down" /\ handler[s].pc = "started"
  /\ StillHeld(s) /\ ~Active(c)
  /\ match' = [match EXCEPT ![c] =
       [status |-> "active", owner |-> s, settled |-> FALSE]]
  /\ handler' = [handler EXCEPT ![s] = Idle]
  /\ UNCHANGED <<row, conn, tasks, result>> /\ Unchanged

\* Mutant: a handler whose session is gone simply returns.
GiveUp_Returns(s) ==
  /\ server # "down" /\ handler[s].pc = "started"
  /\ ~StillHeld(s) \/ Active(handler[s].id)
  /\ handler' = [handler EXCEPT ![s] = Idle]
  /\ UNCHANGED <<row, conn, match, tasks, result>> /\ Unchanged

GiveUp(s) ==
  /\ server # "down" /\ handler[s].pc = "started"
  /\ ~StillHeld(s) \/ Active(handler[s].id)
  /\ handler' = [handler EXCEPT ![s].pc = "left"]
  /\ UNCHANGED <<row, conn, match, tasks, result>> /\ Unchanged

LeftRecorded(s) ==
  /\ server # "down" /\ handler[s].pc = "left"
  /\ row' = Recorded(handler[s].id, "left")
  /\ handler' = [handler EXCEPT ![s] = Idle]
  /\ UNCHANGED <<conn, match, tasks, result>> /\ Unchanged

\* completeMatch(...).catch(() => undefined)
LeftFails(s) ==
  /\ server # "down" /\ handler[s].pc = "left"
  /\ handler' = [handler EXCEPT ![s] = Idle]
  /\ Fault(handler[s].id)
  /\ UNCHANGED <<row, conn, match, tasks, result>>
-----------------------------------------------------------------------------
(* Settlement tasks                                                        *)

\* The replay is verified and the result committed.
SettlementRecorded(t) ==
  /\ server # "down" /\ t \in tasks
  /\ row' = Recorded(t.id, t.outcome)
  /\ tasks' = tasks \ {t}
  /\ UNCHANGED <<conn, handler, match, result>> /\ Unchanged

\* The store fails, or the replay records a policy work failure and is no
\* proof: the task's catch drops the result.
SettlementFails(t) ==
  /\ server # "down" /\ t \in tasks
  /\ tasks' = tasks \ {t}
  /\ Fault(t.id)
  /\ UNCHANGED <<row, conn, handler, match, result>>
-----------------------------------------------------------------------------
(* The server                                                              *)

Forget ==
  /\ conn' = [s \in Session |-> "unopened"]
  /\ handler' = [s \in Session |-> Idle]
  /\ match' = [c \in Challenge |-> NoMatch]
  /\ tasks' = {}

Crash ==
  /\ server # "down" /\ crashes < MaxCrashes
  /\ server' = "down" /\ crashes' = crashes + 1
  /\ faulted' = faulted \cup {t.id : t \in tasks}
  /\ Forget
  /\ UNCHANGED <<row, result, faults>>

\* close(): sessions.dispose() expires every running match, then the
\* runtime awaits the settlement tasks.  A create handler is not awaited.
\* Sessions that connections still open at that point might start again are
\* left out: no new work begins once the server is closing.
BeginClose ==
  /\ server = "up" /\ crashes < MaxCrashes
  /\ server' = "closing" /\ crashes' = crashes + 1
  /\ Settle({c \in Challenge : Active(c)}, "expired", "expired")
  /\ conn' = [s \in Session |-> "closed"]
  /\ UNCHANGED <<row, handler, faulted, faults>>

\* Mutant: close() does not wait for the settlement tasks.
Drained_Assumed == TRUE

Drained == tasks = {}

FinishClose ==
  /\ server = "closing" /\ Drained
  /\ server' = "down"
  /\ Forget
  /\ UNCHANGED <<row, result, faulted, faults, crashes>>

\* rewards.initialize(): what the last process left in progress is forfeited
\* before the server listens.
Initialize ==
  /\ server = "down"
  /\ server' = "up"
  /\ row' = [c \in Challenge |-> IF row[c] = "in_progress" THEN "forfeited" ELSE row[c]]
  /\ UNCHANGED <<volatile, result, faulted, faults, crashes>>

HandlerStep(s) ==
  \/ StartCommits(s) \/ StartRefused(s) \/ StartUnanswered(s)
  \/ BuildMatch(s) \/ GiveUp(s) \/ LeftRecorded(s) \/ LeftFails(s)

SettlementStep ==
  \E t \in tasks : SettlementRecorded(t) \/ SettlementFails(t)

Next ==
  \/ \E c \in Challenge :
       \/ Reserve(c) \/ Release(c) \/ Leave(c) \/ ExpireMatch(c)
       \/ \E o \in Winner : Finish(c, o)
  \/ \E s \in Session :
       \/ OpenSession(s) \/ Disconnect(s) \/ Resume(s) \/ Lapse(s) \/ CloseSession(s)
       \/ \E c \in Challenge : Create(s, c)
       \/ HandlerStep(s)
  \/ SettlementStep
  \/ Crash \/ BeginClose \/ FinishClose \/ Initialize

Spec == Init /\ [][Next]_vars

\* Awaited calls are answered, the sweep and challenge deadlines come, and a
\* stopped server is started again.
FairSpec ==
  /\ Spec
  /\ \A s \in Session : WF_vars(HandlerStep(s))
  /\ WF_vars(SettlementStep)
  /\ \A c \in Challenge : WF_vars(ExpireMatch(c))
  /\ WF_vars(FinishClose) /\ WF_vars(Initialize)
-----------------------------------------------------------------------------
Handled(c) ==
  \E s \in Session : handler[s].id = c /\ handler[s].pc \in {"started", "left"}
Running(c) == Active(c) /\ Known(match[c].owner)
Settling(c) == \E t \in tasks : t.id = c

\* A wallet with a match in progress may reserve no other.  So while the
\* server runs, somebody is always going to end an entitlement in progress:
\* a create handler that holds it, a match the registry still drives, or a
\* settlement on its way.  The exceptions are the store calls that failed.
InProgressIsOwned ==
  server # "down" =>
    \A c \in Challenge : row[c] = "in_progress" /\ c \notin faulted =>
      Handled(c) \/ Running(c) \/ Settling(c)

\* A match is played for a prize that is still open: while it runs, its
\* entitlement is in progress, whatever other sessions of the wallet,
\* handlers and restarts do.
MatchIsBacked ==
  \A c \in Challenge : Active(c) => row[c] = "in_progress" /\ result[c] = None

\* What the registry settled first is what the ledger records: once the
\* task has run without a fault, the row holds that outcome for good.
LedgerAgrees ==
  \A c \in Challenge : result[c] # None /\ ~Settling(c) /\ c \notin faulted =>
    row[c] = StateOf(result[c])

\* Every started match is closed in the ledger, unless a store call failed.
MatchesClose ==
  \A c \in Challenge :
    row[c] = "in_progress" ~> row[c] # "in_progress" \/ c \in faulted
=============================================================================
