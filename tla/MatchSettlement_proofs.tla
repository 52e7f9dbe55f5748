----------------------- MODULE MatchSettlement_proofs -----------------------
(***************************************************************************)
(* For any sessions, challenges and bounds on faults and crashes: an       *)
(* entitlement in progress has somebody who will end it, a running match   *)
(* is backed by one, and the ledger records what the registry settled      *)
(* first.                                                                  *)
(*                                                                         *)
(* The argument follows an entitlement from hand to hand.  Until it is     *)
(* started nobody has it (Unplayed); then it is with one create handler    *)
(* (Held, OneHolder), with a match that has no result yet (Played), or     *)
(* with the task that carries its result (Carried), and never with two of  *)
(* them, since its result is None with the first two and the task's with   *)
(* the third.  A stopped server holds nothing (Stopped).                   *)
(***************************************************************************)
EXTENDS MatchSettlement, TLAPS

Holding == {"started", "left"}

Unplayed ==
  \A c \in Challenge : row[c] \in {"none", "reserved"} =>
    /\ ~Active(c) /\ result[c] = None
    /\ \A s \in Session : handler[s].pc \in Holding => handler[s].id # c

Held ==
  \A s \in Session :
    /\ handler[s].pc # "idle" => handler[s].id \in Challenge
    /\ handler[s].pc \in Holding =>
         /\ row[handler[s].id] = "in_progress" /\ result[handler[s].id] = None
         /\ ~Active(handler[s].id)

OneHolder ==
  \A s, r \in Session :
    handler[s].pc \in Holding /\ handler[r].pc \in Holding /\ handler[s].id = handler[r].id
      => s = r

Played ==
  \A c \in Challenge : Active(c) =>
    /\ row[c] = "in_progress" /\ result[c] = None /\ ~match[c].settled
    /\ match[c].owner \in Session /\ Known(match[c].owner)

Carried ==
  \A t \in tasks : result[t.id] = t.outcome /\ row[t.id] = "in_progress"

Stopped ==
  server = "down" =>
    /\ tasks = {} /\ \A c \in Challenge : ~Active(c)
    /\ \A s \in Session : handler[s].pc = "idle"

Inv ==
  /\ TypeOK
  /\ Unplayed /\ Held /\ OneHolder /\ Played /\ Carried /\ Stopped
  /\ InProgressIsOwned /\ LedgerAgrees

-----------------------------------------------------------------------------
LEMMA Starts == Init => Inv
<1> SUFFICES ASSUME Init PROVE Inv
  OBVIOUS
<1> USE SettlementAssumption DEF Init, Idle, NoMatch
<1>1. TypeOK
  BY DEF TypeOK, RowState, Conn, Handler, Match
<1>2. Unplayed /\ Held /\ OneHolder /\ Played /\ Carried /\ Stopped
  BY DEF Unplayed, Held, OneHolder, Played, Carried, Stopped, Active, Holding
<1>3. InProgressIsOwned /\ LedgerAgrees
  BY DEF InProgressIsOwned, LedgerAgrees
<1> QED BY <1>1, <1>2, <1>3 DEF Inv

\* A task's outcome leaves no entitlement open.
LEMMA OutcomeCloses ==
  ASSUME NEW o \in Outcome
  PROVE  StateOf(o) \in RowState \ {"none", "reserved", "in_progress"}
  BY DEF Outcome, Winner, StateOf, RowState

-----------------------------------------------------------------------------
(* Sessions: who holds what stays the same                                 *)

LEMMA HandsStay ==
  ASSUME Inv, server # "down",
         UNCHANGED <<row, match, tasks, result, server, faulted, faults, crashes>>,
         conn' \in [Session -> Conn], handler' \in [Session -> Handler],
         \A s \in Session : Known(s) => Known(s)',
         \A s \in Session :
           /\ handler'[s].pc # "idle" => handler'[s].id \in Challenge
           /\ handler'[s].pc \in Holding \/ handler[s].pc \in Holding =>
                handler'[s].pc = handler[s].pc /\ handler'[s].id = handler[s].id
  PROVE  Inv'
<1> USE DEF Inv
<1>1. TypeOK'
  BY DEF TypeOK
<1>2. Unplayed'
  BY DEF Unplayed, Active
<1>3. Held'
  BY DEF Held, Active
<1>4. OneHolder'
  BY DEF OneHolder
<1>5. Played' /\ Carried' /\ Stopped'
  BY DEF Played, Carried, Stopped, Active
<1>6. InProgressIsOwned'
  BY DEF InProgressIsOwned, Handled, Running, Settling, Active, Holding, Played
<1>7. LedgerAgrees'
  BY DEF LedgerAgrees, Settling
<1> QED BY <1>1, <1>2, <1>3, <1>4, <1>5, <1>6, <1>7

LEMMA SessionKeeps ==
  ASSUME Inv, NEW s \in Session,
         \/ OpenSession(s) \/ Disconnect(s) \/ Resume(s) \/ Lapse(s)
         \/ (\E c \in Challenge : Create(s, c)) \/ StartRefused(s)
  PROVE  Inv'
<1> USE DEF Inv, TypeOK
<1>1. CASE OpenSession(s)
  BY <1>1, HandsStay DEF OpenSession, Unchanged, Conn, Known, Held
<1>2. ASSUME NEW state \in {"bound", "detached", "lapsed"}, LoseTransport(s, state),
             server = "up", conn[s] \in {"bound", "detached"},
             UNCHANGED <<row, match, tasks, result, server, faulted, faults, crashes>>
      PROVE  Inv'
  <2>1. conn' \in [Session -> Conn] /\ \A r \in Session : Known(r) => Known(r)'
    BY <1>2 DEF LoseTransport, Conn, Known
  <2>2. /\ handler' \in [Session -> Handler]
        /\ \A r \in Session : handler'[r].pc = handler[r].pc /\ handler'[r].id = handler[r].id
    BY <1>2 DEF LoseTransport, Handler
  <2> QED BY <1>2, <2>1, <2>2, HandsStay DEF Held
<1>3. CASE Disconnect(s) \/ Resume(s) \/ Lapse(s)
  BY <1>2, <1>3 DEF Disconnect, Resume, Lapse, Unchanged
<1>4. ASSUME NEW c \in Challenge, Create(s, c) PROVE Inv'
  <2>1. /\ handler' \in [Session -> Handler]
        /\ handler'[s].pc = "start" /\ handler'[s].id = c /\ handler[s].pc = "idle"
        /\ \A r \in Session \ {s} : handler'[r] = handler[r]
    BY <1>4 DEF Create, Handler, Idle
  <2> QED BY <1>4, <2>1, HandsStay DEF Create, Unchanged, Held, Holding, Known
<1>5. CASE StartRefused(s)
  <2>1. /\ handler' \in [Session -> Handler] /\ handler'[s] = Idle
        /\ \A r \in Session \ {s} : handler'[r] = handler[r]
    BY <1>5 DEF StartRefused, Handler, Idle
  <2> QED BY <1>5, <2>1, HandsStay DEF StartRefused, Unchanged, Held, Holding, Known, Idle
<1> QED BY <1>1, <1>3, <1>4, <1>5

-----------------------------------------------------------------------------
(* The end of matches                                                      *)

\* Each match that ends becomes a task, and those that run on keep their owner.
LEMMA SettleKeeps ==
  ASSUME Inv, NEW ended \in SUBSET Challenge, \A c \in ended : Active(c),
         NEW status \in {"completed", "left", "expired"}, NEW o \in Outcome,
         Settle(ended, status, o),
         server # "down", server' \in {"up", "closing"},
         crashes' \in 0 .. MaxCrashes,
         conn' \in [Session -> Conn],
         \A c \in Challenge \ ended : Active(c) => Known(match[c].owner)',
         UNCHANGED <<row, handler, faulted, faults>>
  PROVE  Inv'
<1> USE SettlementAssumption, NoneAssumption DEF Inv
<1>0. /\ {c \in ended : ~match[c].settled} = ended
      /\ \A c \in ended : row[c] = "in_progress" /\ result[c] = None
  BY DEF Played
<1>1. /\ \A c \in ended : match'[c].status = status /\ match'[c].settled /\ result'[c] = o
      /\ \A c \in Challenge \ ended : match'[c] = match[c] /\ result'[c] = result[c]
      /\ tasks' = tasks \cup {[id |-> c, outcome |-> o] : c \in ended}
  <2>1. /\ match' = [c \in Challenge |->
              IF c \in ended THEN [match[c] EXCEPT !.status = status, !.settled = TRUE]
                             ELSE match[c]]
        /\ result' = [c \in Challenge |-> IF c \in ended THEN o ELSE result[c]]
        /\ tasks' = tasks \cup {[id |-> c, outcome |-> o] : c \in ended}
    BY <1>0 DEF Settle
  <2>2. ASSUME NEW c \in ended
        PROVE  match'[c].status = status /\ match'[c].settled /\ result'[c] = o
    <3>1. match[c] \in Match /\ match'[c] = [match[c] EXCEPT !.status = status, !.settled = TRUE]
      BY <2>1 DEF TypeOK
    <3>2. match'[c].status = status /\ match'[c].settled = TRUE
      BY <3>1 DEF Match
    <3> QED BY <2>1, <3>2
  <2> QED BY <2>1, <2>2
<1>2. TypeOK'
  <2>1. match' \in [Challenge -> Match]
    BY DEF Settle, TypeOK, Match
  <2>2. result' \in [Challenge -> Outcome \cup {None}]
    BY DEF Settle, TypeOK
  <2>3. tasks' \subseteq [id: Challenge, outcome: Outcome]
    BY <1>1 DEF TypeOK
  <2> QED BY <2>1, <2>2, <2>3 DEF TypeOK
<1>3. \A c \in Challenge : Active(c)' <=> Active(c) /\ c \notin ended
  BY <1>1 DEF Active
<1>4. Unplayed' /\ Held' /\ OneHolder'
  <2>1. Unplayed'
    BY <1>0, <1>1, <1>3 DEF Unplayed
  <2>2. Held'
    BY <1>1, <1>3 DEF Held, Holding
  <2> QED BY <2>1, <2>2 DEF OneHolder
<1>5. Played'
  BY <1>1, <1>3 DEF Played
<1>6. Carried'
  <2>1. ASSUME NEW t \in tasks PROVE result'[t.id] = t.outcome
    <3>1. t.id \in Challenge /\ result[t.id] # None /\ result[t.id] = t.outcome
      BY DEF Carried, TypeOK
    <3> QED BY <3>1, <1>0, <1>1
  <2>2. ASSUME NEW c \in ended
        PROVE  LET t == [id |-> c, outcome |-> o]
               IN result'[t.id] = t.outcome /\ row[t.id] = "in_progress"
    BY <1>0, <1>1
  <2> QED BY <2>1, <2>2, <1>1 DEF Carried
<1>7. Stopped'
  BY DEF Stopped
<1>8. \A c \in Challenge : Settling(c)' <=> Settling(c) \/ c \in ended
  <2>1. \A c \in ended : \E t \in tasks' : t.id = c
    <3> SUFFICES ASSUME NEW c \in ended PROVE \E t \in tasks' : t.id = c
      OBVIOUS
    <3>1. [id |-> c, outcome |-> o] \in tasks'
      BY <1>1
    <3> QED BY <3>1
  <2>2. \A t \in tasks' : t \in tasks \/ t.id \in ended
    BY <1>1
  <2> QED BY <2>1, <2>2, <1>1 DEF Settling
<1>9. InProgressIsOwned'
  BY <1>1, <1>3, <1>8 DEF InProgressIsOwned, Handled, Running, Played
<1>10. LedgerAgrees'
  BY <1>1, <1>8 DEF LedgerAgrees
<1> QED BY <1>2, <1>4, <1>5, <1>6, <1>7, <1>9, <1>10

LEMMA EndKeeps ==
  ASSUME Inv,
         \/ \E c \in Challenge : Leave(c) \/ ExpireMatch(c) \/ \E o \in Winner : Finish(c, o)
         \/ \E s \in Session : CloseSession(s)
         \/ BeginClose
  PROVE  Inv'
<1> USE DEF Inv, TypeOK
<1>1. ASSUME NEW c \in Challenge, Active(c), server = "up",
             NEW status \in {"completed", "left", "expired"}, NEW o \in Outcome,
             Settle({c}, status, o), UNCHANGED <<row, conn, handler>>, Unchanged
      PROVE  Inv'
  <2>1. \A d \in Challenge \ {c} : Active(d) => Known(match[d].owner)'
    BY <1>1 DEF Settle, Played, Known, Match
  <2> QED BY <1>1, <2>1, SettleKeeps DEF Unchanged
<1>2. ASSUME NEW c \in Challenge,
             Leave(c) \/ ExpireMatch(c) \/ \E o \in Winner : Finish(c, o)
      PROVE  Inv'
  BY <1>1, <1>2 DEF Leave, ExpireMatch, Finish, Outcome
<1>3. ASSUME NEW s \in Session, CloseSession(s) PROVE Inv'
  <2>1. /\ ActiveOf(s) \in SUBSET Challenge /\ \A c \in ActiveOf(s) : Active(c)
        /\ conn' \in [Session -> Conn]
        /\ \A c \in Challenge \ ActiveOf(s) : match'[c] = match[c]
        /\ \A r \in Session \ {s} : conn'[r] = conn[r]
    BY <1>3 DEF CloseSession, ActiveOf, Conn, Settle
  <2>2. \A c \in Challenge \ ActiveOf(s) : Active(c) => Known(match[c].owner)'
    BY <2>1 DEF Played, Known, ActiveOf
  <2> QED BY <1>3, <2>1, <2>2, SettleKeeps DEF CloseSession, Unchanged, Outcome
<1>4. CASE BeginClose
  <2>1. crashes' \in 0 .. MaxCrashes /\ conn' \in [Session -> Conn]
    BY <1>4, SettlementAssumption DEF BeginClose, Conn
  <2> DEFINE ended == {c \in Challenge : Active(c)}
  <2>2. /\ ended \in SUBSET Challenge /\ \A c \in ended : Active(c)
        /\ \A c \in Challenge \ ended : Active(c) => Known(match[c].owner)'
        /\ Settle(ended, "expired", "expired") /\ server = "up" /\ server' = "closing"
        /\ UNCHANGED <<row, handler, faulted, faults>>
    BY <1>4 DEF BeginClose
  <2> HIDE DEF ended
  <2> QED BY <2>1, <2>2, SettleKeeps DEF Outcome
<1> QED BY <1>2, <1>3, <1>4

-----------------------------------------------------------------------------
(* The create handler                                                      *)

LEMMA ReservationKeeps ==
  ASSUME Inv, NEW c \in Challenge, Reserve(c) \/ Release(c)
  PROVE  Inv'
<1> USE DEF Inv
<1>1. /\ row[c] \in {"none", "reserved"} /\ row'[c] \in {"reserved", "expired"}
      /\ row' = [row EXCEPT ![c] = row'[c]] /\ \A d \in Challenge \ {c} : row'[d] = row[d]
      /\ UNCHANGED <<volatile, result>> /\ Unchanged
  BY DEF Reserve, Release, TypeOK
<1>2. TypeOK'
  BY <1>1 DEF TypeOK, RowState, volatile, Unchanged
<1>3. /\ ~Active(c) /\ result[c] = None
      /\ \A s \in Session : handler[s].pc \in Holding => handler[s].id # c
  BY <1>1 DEF Unplayed
<1>4. Unplayed' /\ Held' /\ OneHolder' /\ Played' /\ Stopped'
  <2>1. UNCHANGED <<conn, handler, match, tasks, result, server>>
    BY <1>1 DEF volatile, Unchanged
  <2>2. Unplayed'
    BY <1>1, <1>3, <2>1 DEF Unplayed, Active
  <2>3. Held' /\ OneHolder'
    BY <1>1, <1>3, <2>1 DEF Held, OneHolder, Active, Holding
  <2>4. Played' /\ Stopped'
    BY <1>1, <1>3, <2>1 DEF Played, Stopped, Active, Known
  <2> QED BY <2>2, <2>3, <2>4
<1>5. Carried'
  BY <1>1 DEF Carried, TypeOK, volatile
<1>6. InProgressIsOwned'
  BY <1>1 DEF InProgressIsOwned, Handled, Running, Settling, Active, Known, volatile, Unchanged
<1>7. LedgerAgrees'
  BY <1>1, <1>3 DEF LedgerAgrees, Settling, volatile, Unchanged
<1> QED BY <1>2, <1>4, <1>5, <1>6, <1>7

\* The start commits, and its answer reaches the handler or not.
LEMMA StartKeeps ==
  ASSUME Inv, NEW s \in Session, StartCommits(s) \/ StartUnanswered(s)
  PROVE  Inv'
<1> USE DEF Inv
<1> DEFINE c == handler[s].id
<1>1. /\ handler[s].pc = "start" /\ c \in Challenge /\ row[c] = "reserved" /\ server # "down"
      /\ row' = [row EXCEPT ![c] = "in_progress"]
      /\ UNCHANGED <<conn, match, tasks, result, server, crashes>>
      /\ \/ /\ handler' = [handler EXCEPT ![s].pc = "started"] /\ UNCHANGED <<faulted, faults>>
         \/ /\ handler' = [handler EXCEPT ![s] = Idle]
            /\ faulted' = faulted \cup {c} /\ faults' \in 0 .. MaxFaults
  BY SettlementAssumption DEF StartCommits, StartUnanswered, Fault, Unchanged, Held, TypeOK
<1>2. /\ ~Active(c) /\ result[c] = None
      /\ \A r \in Session : handler[r].pc \in Holding => handler[r].id # c
  BY <1>1 DEF Unplayed
<1>3. row'[c] = "in_progress" /\ \A d \in Challenge \ {c} : row'[d] = row[d]
  BY <1>1 DEF TypeOK
<1>4. /\ \A r \in Session \ {s} : handler'[r] = handler[r]
      /\ \/ handler'[s].pc = "started" /\ handler'[s].id = c /\ faulted' = faulted
         \/ handler'[s] = Idle /\ faulted' = faulted \cup {c}
  BY <1>1 DEF TypeOK, Handler
<1>5. TypeOK'
  <2>1. row' \in [Challenge -> RowState]
    BY <1>1 DEF TypeOK, RowState
  <2>2. handler' \in [Session -> Handler]
    <3>1. handler[s] \in Handler /\ Idle \in Handler
      BY DEF TypeOK, Handler, Idle
    <3>2. [handler[s] EXCEPT !.pc = "started"] \in Handler
      BY <3>1 DEF Handler
    <3> QED BY <3>1, <3>2, <1>1 DEF TypeOK
  <2>3. faulted' \subseteq Challenge /\ faults' \in 0 .. MaxFaults
    BY <1>1 DEF TypeOK
  <2> QED BY <1>1, <2>1, <2>2, <2>3 DEF TypeOK
<1>6. Unplayed'
  BY <1>1, <1>2, <1>3, <1>4 DEF Unplayed, Active, Holding, Idle
<1>7. Held' /\ OneHolder'
  BY <1>1, <1>2, <1>3, <1>4 DEF Held, OneHolder, Active, Holding, Idle
<1>8. Played' /\ Stopped'
  BY <1>1, <1>3 DEF Played, Stopped, Active, Known
<1>9. Carried'
  BY <1>1, <1>3 DEF Carried, TypeOK
<1>10. InProgressIsOwned'
  BY <1>1, <1>3, <1>4 DEF InProgressIsOwned, Handled, Running, Settling, Active, Known
<1>11. LedgerAgrees'
  BY <1>1, <1>2, <1>3, <1>4 DEF LedgerAgrees, Settling
<1> QED BY <1>5, <1>6, <1>7, <1>8, <1>9, <1>10, <1>11

LEMMA BuildKeeps ==
  ASSUME Inv, NEW s \in Session, BuildMatch(s)
  PROVE  Inv'
<1> USE DEF Inv
<1> DEFINE c == handler[s].id
<1>1. /\ handler[s].pc = "started" /\ c \in Challenge /\ row[c] = "in_progress"
      /\ result[c] = None /\ ~Active(c) /\ conn[s] = "bound" /\ server # "down"
      /\ match' = [match EXCEPT ![c] = [status |-> "active", owner |-> s, settled |-> FALSE]]
      /\ handler' = [handler EXCEPT ![s] = Idle]
      /\ UNCHANGED <<row, conn, tasks, result, server, faulted, faults, crashes>>
  BY DEF BuildMatch, StillHeld, Admitted, Unchanged, Held, Holding
<1>2. /\ match'[c].status = "active" /\ match'[c].owner = s /\ ~match'[c].settled
      /\ \A d \in Challenge \ {c} : match'[d] = match[d]
      /\ handler'[s] = Idle /\ \A r \in Session \ {s} : handler'[r] = handler[r]
  BY <1>1 DEF TypeOK
<1>3. TypeOK'
  BY <1>1 DEF TypeOK, Match, Handler, Idle
<1>4. Unplayed'
  BY <1>1, <1>2 DEF Unplayed, Active, Holding, Idle
<1>5. Held' /\ OneHolder'
  <2>1. \A r \in Session \ {s} : handler[r].pc \in Holding => handler[r].id # c
    BY <1>1 DEF OneHolder, Holding
  <2> QED BY <2>1, <1>1, <1>2 DEF Held, OneHolder, Active, Idle, Holding
<1>6. Played' /\ Carried' /\ Stopped'
  BY <1>1, <1>2 DEF Played, Carried, Stopped, Active, Known
<1>7. InProgressIsOwned'
  BY <1>1, <1>2 DEF InProgressIsOwned, Handled, Running, Settling, Active, Known, Idle
<1>8. LedgerAgrees'
  BY <1>1 DEF LedgerAgrees, Settling
<1> QED BY <1>3, <1>4, <1>5, <1>6, <1>7, <1>8

LEMMA GiveUpKeeps ==
  ASSUME Inv, NEW s \in Session, GiveUp(s)
  PROVE  Inv'
<1> USE DEF Inv
<1>1. /\ handler[s].pc = "started"
      /\ handler'[s].pc = "left" /\ handler'[s].id = handler[s].id
      /\ \A r \in Session \ {s} : handler'[r] = handler[r]
      /\ UNCHANGED <<row, conn, match, tasks, result, server, faulted, faults, crashes>>
  BY DEF GiveUp, Unchanged, TypeOK, Handler
<1>2. TypeOK'
  BY <1>1 DEF TypeOK, GiveUp, Handler
<1>3. Unplayed' /\ Held' /\ OneHolder'
  BY <1>1 DEF Unplayed, Held, OneHolder, Active, Holding
<1>4. Played' /\ Carried' /\ Stopped'
  BY <1>1 DEF Played, Carried, Stopped, Active, Known, GiveUp
<1>5. InProgressIsOwned'
  BY <1>1 DEF InProgressIsOwned, Handled, Running, Settling, Active, Known
<1>6. LedgerAgrees'
  BY <1>1 DEF LedgerAgrees, Settling
<1> QED BY <1>2, <1>3, <1>4, <1>5, <1>6

\* What the handler gives up is recorded as left, or the store fails.
LEMMA LeftKeeps ==
  ASSUME Inv, NEW s \in Session, LeftRecorded(s) \/ LeftFails(s)
  PROVE  Inv'
<1> USE DEF Inv
<1> DEFINE c == handler[s].id
<1>1. /\ handler[s].pc = "left" /\ c \in Challenge /\ row[c] = "in_progress"
      /\ result[c] = None /\ ~Active(c) /\ server # "down"
      /\ handler' = [handler EXCEPT ![s] = Idle]
      /\ UNCHANGED <<conn, match, tasks, result, server, crashes>>
      /\ \/ row' = [row EXCEPT ![c] = "forfeited"] /\ UNCHANGED <<faulted, faults>>
         \/ row' = row /\ faulted' = faulted \cup {c} /\ faults' \in 0 .. MaxFaults
  BY SettlementAssumption
     DEF LeftRecorded, LeftFails, Recorded, StateOf, Fault, Unchanged, Held, Holding, TypeOK
<1>2. /\ handler'[s] = Idle /\ \A r \in Session \ {s} : handler'[r] = handler[r]
      /\ \A d \in Challenge \ {c} : row'[d] = row[d]
      /\ \/ row'[c] = "forfeited" /\ faulted' = faulted
         \/ row'[c] = "in_progress" /\ faulted' = faulted \cup {c}
  BY <1>1 DEF TypeOK
<1>3. TypeOK'
  BY <1>1 DEF TypeOK, RowState, Handler, Idle
<1>4. Unplayed'
  BY <1>1, <1>2 DEF Unplayed, Active, Holding, Idle
<1>5. Held' /\ OneHolder'
  <2>1. \A r \in Session \ {s} : handler[r].pc \in Holding => handler[r].id # c
    BY <1>1 DEF OneHolder, Holding
  <2> QED BY <2>1, <1>1, <1>2 DEF Held, OneHolder, Active, Idle, Holding
<1>6. Played' /\ Stopped'
  BY <1>1, <1>2 DEF Played, Stopped, Active, Known
<1>7. Carried'
  <2>1. \A t \in tasks : t.id \in Challenge \ {c}
    BY <1>1, NoneAssumption DEF Carried, TypeOK
  <2> QED BY <2>1, <1>1, <1>2 DEF Carried
<1>8. InProgressIsOwned'
  BY <1>1, <1>2 DEF InProgressIsOwned, Handled, Running, Settling, Active, Known, Idle
<1>9. LedgerAgrees'
  BY <1>1, <1>2 DEF LedgerAgrees, Settling
<1> QED BY <1>3, <1>4, <1>5, <1>6, <1>7, <1>8, <1>9

-----------------------------------------------------------------------------
(* Settlement tasks and the server                                         *)

LEMMA SettlementKeeps ==
  ASSUME Inv, SettlementStep
  PROVE  Inv'
<1> USE DEF Inv
<1>1. PICK t \in tasks : SettlementRecorded(t) \/ SettlementFails(t)
  BY DEF SettlementStep
<1> DEFINE c == t.id
<1>2. /\ c \in Challenge /\ t.outcome \in Outcome /\ result[c] = t.outcome
      /\ result[c] # None /\ row[c] = "in_progress" /\ server # "down"
      /\ tasks' = tasks \ {t}
      /\ UNCHANGED <<conn, handler, match, result, server, crashes>>
      /\ \/ row' = [row EXCEPT ![c] = StateOf(t.outcome)] /\ UNCHANGED <<faulted, faults>>
         \/ row' = row /\ faulted' = faulted \cup {c} /\ faults' \in 0 .. MaxFaults
  BY <1>1, SettlementAssumption, NoneAssumption
     DEF SettlementRecorded, SettlementFails, Recorded, Fault, Unchanged, Carried, TypeOK
<1>3. StateOf(t.outcome) \in RowState \ {"none", "reserved", "in_progress"}
  BY <1>2, OutcomeCloses
<1>4. /\ \A d \in Challenge \ {c} : row'[d] = row[d]
      /\ \/ row'[c] = StateOf(t.outcome) /\ faulted' = faulted
         \/ row'[c] = "in_progress" /\ faulted' = faulted \cup {c}
  BY <1>2 DEF TypeOK
<1>5. \A u \in tasks : u # t => u.id \in Challenge \ {c}
  BY <1>2 DEF Carried, TypeOK
<1>6. TypeOK'
  BY <1>2, <1>3 DEF TypeOK
<1>7. Unplayed'
  BY <1>2, <1>3, <1>4 DEF Unplayed, Active
<1>8. Held' /\ OneHolder'
  <2>1. \A s \in Session : handler[s].pc \in Holding => handler[s].id \in Challenge \ {c}
    BY <1>2 DEF Held, Holding
  <2> QED BY <2>1, <1>2, <1>4 DEF Held, OneHolder, Active, Holding
<1>9. Played' /\ Stopped'
  BY <1>2, <1>4 DEF Played, Stopped, Active, Known
<1>10. Carried'
  BY <1>2, <1>4, <1>5 DEF Carried
<1>11. \A d \in Challenge \ {c} : Settling(d) => Settling(d)'
  BY <1>2 DEF Settling
<1>12. InProgressIsOwned'
  BY <1>2, <1>3, <1>4, <1>11 DEF InProgressIsOwned, Handled, Running, Active, Known
<1>13. \A d \in Challenge : Settling(d)' => Settling(d)
  BY <1>2 DEF Settling
<1>14. LedgerAgrees'
  BY <1>2, <1>4, <1>11, <1>13 DEF LedgerAgrees
<1> QED BY <1>6, <1>7, <1>8, <1>9, <1>10, <1>12, <1>14

\* What a stopping server was doing is forgotten, and its tasks are faults.
LEMMA StopKeeps ==
  ASSUME Inv, Crash \/ FinishClose
  PROVE  Inv'
<1> USE DEF Inv
<1>1. /\ Forget /\ server' = "down" /\ UNCHANGED <<row, result, faults>>
      /\ faulted' \subseteq Challenge /\ crashes' \in 0 .. MaxCrashes
      /\ faulted \subseteq faulted' /\ \A t \in tasks : t.id \in faulted'
  BY SettlementAssumption DEF Crash, FinishClose, Drained, TypeOK
<1>2. TypeOK'
  BY <1>1 DEF TypeOK, Forget, Conn, Handler, Match, Idle, NoMatch
<1>3. /\ \A c \in Challenge : ~Active(c)'
      /\ \A s \in Session : handler'[s].pc = "idle"
      /\ tasks' = {}
  BY <1>1 DEF Forget, Active, NoMatch, Idle
<1>4. Unplayed' /\ Held' /\ OneHolder' /\ Played' /\ Carried' /\ Stopped'
  <2>1. Unplayed'
    BY <1>1, <1>3 DEF Unplayed, Holding
  <2>2. Held' /\ OneHolder'
    BY <1>3 DEF Held, OneHolder, Holding
  <2>3. Played' /\ Carried' /\ Stopped'
    BY <1>3 DEF Played, Carried, Stopped
  <2> QED BY <2>1, <2>2, <2>3
<1>5. InProgressIsOwned'
  BY <1>1 DEF InProgressIsOwned
<1>6. LedgerAgrees'
  BY <1>1 DEF LedgerAgrees, Settling
<1> QED BY <1>2, <1>4, <1>5, <1>6

LEMMA InitializeKeeps ==
  ASSUME Inv, Initialize
  PROVE  Inv'
<1> USE DEF Inv
<1>1. /\ server = "down" /\ server' = "up"
      /\ \A c \in Challenge :
           row'[c] = IF row[c] = "in_progress" THEN "forfeited" ELSE row[c]
      /\ UNCHANGED <<conn, handler, match, tasks, result, faulted, faults, crashes>>
  BY DEF Initialize, volatile
<1>2. TypeOK'
  BY <1>1 DEF TypeOK, Initialize, RowState
<1>3. /\ tasks = {} /\ \A c \in Challenge : ~Active(c)
      /\ \A s \in Session : handler[s].pc = "idle"
  BY <1>1 DEF Stopped
<1>4. Unplayed' /\ Held' /\ OneHolder' /\ Played' /\ Carried' /\ Stopped'
  BY <1>1, <1>3 DEF Unplayed, Held, OneHolder, Played, Carried, Stopped, Holding, Active
<1>5. InProgressIsOwned'
  BY <1>1 DEF InProgressIsOwned
<1>6. LedgerAgrees'
  <2> SUFFICES ASSUME NEW c \in Challenge, result[c] # None, c \notin faulted
               PROVE  row'[c] = StateOf(result[c])
    BY <1>1 DEF LedgerAgrees
  <2>1. row[c] = StateOf(result[c])
    BY <1>3 DEF LedgerAgrees, Settling
  <2>2. row[c] # "in_progress"
    BY <2>1, OutcomeCloses DEF TypeOK
  <2> QED BY <2>1, <2>2, <1>1
<1> QED BY <1>2, <1>4, <1>5, <1>6

-----------------------------------------------------------------------------
LEMMA StepKeeps ==
  ASSUME Inv, [Next]_vars
  PROVE  Inv'
<1>1. CASE UNCHANGED vars
  BY <1>1 DEF vars, volatile, Inv, TypeOK, Unplayed, Held, OneHolder, Played, Carried, Stopped,
    InProgressIsOwned, LedgerAgrees, Handled, Running, Settling, Active, Known
<1>2. ASSUME NEW c \in Challenge,
             \/ Reserve(c) \/ Release(c) \/ Leave(c) \/ ExpireMatch(c)
             \/ \E o \in Winner : Finish(c, o)
      PROVE  Inv'
  BY <1>2, ReservationKeeps, EndKeeps
<1>3. ASSUME NEW s \in Session,
             \/ OpenSession(s) \/ Disconnect(s) \/ Resume(s) \/ Lapse(s) \/ CloseSession(s)
             \/ \E c \in Challenge : Create(s, c)
             \/ HandlerStep(s)
      PROVE  Inv'
  BY <1>3, SessionKeeps, EndKeeps, StartKeeps, BuildKeeps, GiveUpKeeps, LeftKeeps
     DEF HandlerStep
<1>4. CASE SettlementStep
  BY <1>4, SettlementKeeps
<1>5. CASE Crash \/ BeginClose \/ FinishClose \/ Initialize
  BY <1>5, EndKeeps, StopKeeps, InitializeKeeps
<1> QED BY <1>1, <1>2, <1>3, <1>4, <1>5 DEF Next

LEMMA InvHolds == Spec => []Inv
BY Starts, StepKeeps, PTL DEF Spec

\* Rows, sessions, handlers, matches and tasks are well typed whatever the
\* players, the store and the server do.
THEOREM SettlementIsTyped == Spec => []TypeOK
<1>1. Inv => TypeOK
  BY DEF Inv
<1> QED BY <1>1, InvHolds, PTL

\* While the server runs, an entitlement in progress is with a create
\* handler, a match or a settlement task, unless a store call failed.
THEOREM NothingIsOrphaned == Spec => []InProgressIsOwned
<1>1. Inv => InProgressIsOwned
  BY DEF Inv
<1> QED BY <1>1, InvHolds, PTL

\* A match that runs has an entitlement in progress and no result yet.
THEOREM MatchesAreBacked == Spec => []MatchIsBacked
<1>1. Inv => MatchIsBacked
  BY DEF Inv, Played, MatchIsBacked
<1> QED BY <1>1, InvHolds, PTL

\* The outcome the registry settles first is the one the ledger records.
THEOREM FirstResultIsRecorded == Spec => []LedgerAgrees
<1>1. Inv => LedgerAgrees
  BY DEF Inv
<1> QED BY <1>1, InvHolds, PTL

=============================================================================
