---------------------------- MODULE TurnInput ----------------------------
(***************************************************************************)
(* What may be done to a match between two ticks: the intents of its       *)
(* active actor and the barriers that take an input back, with the checks  *)
(* of shared/simulation-v8.ts and -v9.ts in the order the code makes them, *)
(* and the assertions those files make of every state.                     *)
(*                                                                         *)
(* A sender expects a turn, a phase and an input epoch; the record it      *)
(* expects them in is called seen.                                         *)
(***************************************************************************)
EXTENDS ActionTurns

Seen(m) == [turn |-> m.turn, phase |-> m.phase, epoch |-> m.epoch]

Answer(verdict, m) == [verdict |-> verdict, match |-> m]
Done(before, after) == Answer("done", Resources(before, after))

-----------------------------------------------------------------------------
(* Intents                                                                 *)

\* SimulationIntentV9: the operations a client, or the opponent, may send; the
\* guards of the protocol let no other through.
Intents ==
  {i \in [type: {"walk_start", "walk_refresh", "walk_stop", "jump", "face",
                 "select_relic", "aim", "fire", "threadguard", "threadleap"},
          dir: -1 .. 1, aimId: Nat] : i.type = "walk_start" => i.dir # 0}

Utility == {"threadguard", "threadleap"}
Offence == {"select_relic", "aim", "fire"}

\* The sender sees the match as it is, and it is the sender's turn.
Current(m, actor, seen) ==
  m.phase # "finished" /\ actor = m.actor /\ seen = Seen(m)

InputOpen(m) == Moves(m) /\ m.tick < m.deadline /\ Active(m).alive

\* What each intent needs of the state it meets.
Allowed(m, i) ==
  CASE i.type = "walk_start" -> m.held = 0 \/ (i.dir # m.held /\ m.tick < m.lease)
    [] i.type = "walk_refresh" -> /\ m.held # 0 /\ m.tick < m.lease
                                  /\ m.tick - m.refreshed >= RefreshTicks
    [] i.type = "jump" -> Active(m).grounded /\ (i.dir = 0 => m.held = 0)
    [] i.type \in Offence ->
         /\ m.phase = "action" /\ m.held = 0 /\ Steady(m)
         /\ i.type = "fire" => /\ ~m.cast /\ m.aim /\ i.aimId = m.aimId
                               /\ Active(m).thread >= ShotPrice
    [] i.type \in Utility ->
         /\ m.phase = "action" /\ m.tick < m.deadline
         /\ ~m.cast /\ ~m.utility /\ m.held = 0 /\ Steady(m)
         /\ Active(m).thread >= UtilityPrice
    [] OTHER -> TRUE                                   \* face, walk_stop

WithActive(m, u) == [m EXCEPT !.units[m.actor] = u]

Airborne(u, moving) ==
  [u EXCEPT !.grounded = FALSE, !.moving = moving, !.drive = "jump", !.air = 0]

\* A walk that starts or turns: its lease is renewed when it may be.
Walk(m, dir) ==
  LET renews == m.held = 0 \/ m.tick - m.refreshed >= RefreshTicks
  IN [m EXCEPT !.held = dir, !.aim = FALSE,
               !.lease = IF renews THEN m.tick + LeaseTicks ELSE @,
               !.refreshed = IF renews THEN m.tick ELSE @]

StopWalking(m) ==
  [Halt(m, IF Jumping(m) THEN {} ELSE {m.actor})
     EXCEPT !.held = 0, !.lease = Never, !.refreshed = Never, !.aim = FALSE]

Fire(m) ==
  EnterPhase([WithActive(m, [Active(m) EXCEPT !.thread = @ - ShotPrice])
                EXCEPT !.shot = TRUE, !.cast = TRUE], "projectile", None)

UseThread(m, type) ==
  LET u == [Active(m) EXCEPT !.thread = @ - UtilityPrice, !.moving = FALSE]
  IN ClearInput([WithActive(m, IF type = "threadguard"
                               THEN [u EXCEPT !.shield = ShieldPoints,
                                              !.expires = m.turn + 2]
                               ELSE u) EXCEPT !.utility = TRUE], {m.actor})

\* The impulse of a leap outlives the clearing of the input.
Leap(m) ==
  LET c == UseThread(m, "threadleap")
  IN WithActive(c, [Airborne(Active(c), TRUE) EXCEPT !.leap = TRUE])

Effect(m, i) ==
  CASE i.type = "walk_start" -> Walk(m, i.dir)
    [] i.type = "walk_refresh" -> [m EXCEPT !.lease = m.tick + LeaseTicks,
                                            !.refreshed = m.tick]
    [] i.type = "walk_stop" -> StopWalking(m)
    [] i.type = "jump" ->
         [WithActive(m, Airborne(Active(m), i.dir # 0))
            EXCEPT !.aim = FALSE, !.held = IF @ = 0 THEN 0 ELSE i.dir]
    [] i.type = "aim" -> [m EXCEPT !.aimId = @ + 1, !.aim = TRUE]
    [] i.type = "fire" -> Fire(m)
    [] i.type = "threadguard" -> UseThread(m, i.type)
    [] i.type = "threadleap" -> Leap(m)
    [] OTHER -> [m EXCEPT !.aim = FALSE]               \* face, select_relic

Intent(m, actor, i, seen) ==
  IF ~Current(m, actor, seen) \/ ~(i.type \in Utility \/ InputOpen(m))
  THEN Answer("rejected", m)
  ELSE IF m.intents >= MaxIntents THEN Answer("intent_limit", m)
  ELSE IF ~Allowed(m, i) THEN Answer("rejected", m)
  ELSE LET done == [Effect([m EXCEPT !.events = Quiet], i) EXCEPT !.intents = @ + 1]
       IN IF i.type \in Utility THEN Answer("done", done) ELSE Done(m, done)

-----------------------------------------------------------------------------
(* Barriers                                                                *)

Forced == {"reconnect", "pause", "resume", "walk_stop"}

\* A barrier of an actor who is not at turn, or for another epoch, is moot.
Meets(m, b) == /\ m.phase # "finished" /\ b.actor = m.actor
               /\ b.turn = m.turn /\ b.epoch = m.epoch

\* A pause may interrupt a committed leap: it falls on without its impulse.
StopsLeap(m, b) == /\ b.reason = "pause" /\ m.phase = "action"
                   /\ Active(m).leap /\ Meets(m, b)

Counted(m) == [m EXCEPT !.barriers = @ + 1, !.events = Quiet]

Barrier(m, b) ==
  LET idle == m.held = 0 /\ ~Active(m).moving /\ ~m.aim
      kept == b.reason = "walk_stop" /\ Jumping(m)
  IN IF StopsLeap(m, b)
     THEN IF m.barriers >= MaxBarriers THEN Answer("lifecycle_limit", m)
          ELSE Answer("done", ClearInput(Counted(m), {m.actor}))
     ELSE IF ~Meets(m, b) \/ ~Moves(m) THEN Answer("unchanged", m)
     ELSE IF b.reason = "pause" /\ ~(/\ m.actor = "player"
                                     /\ m.phase = "action"
                                     /\ AllAlive(m) /\ ~Unsupported(m))
          THEN Answer("rejected", m)
     ELSE IF b.reason \notin Forced /\ idle THEN Answer("unchanged", m)
     ELSE IF m.barriers >= MaxBarriers THEN Answer("lifecycle_limit", m)
     ELSE Done(m, ClearInput(Counted(m), IF kept THEN {} ELSE {m.actor}))

-----------------------------------------------------------------------------
(* assertSimulationInvariantsV8Family and V9, as named parts               *)

ClockValid(m) ==
  /\ m.tick <= CombatTicks /\ m.turn \in 0 .. MaxTurns
  /\ m.started <= m.tick /\ m.deadline = m.started + Duration(m.phase)
  /\ IF m.phase = "finished" THEN m.deadline = m.tick
     ELSE m.tick < m.deadline /\ m.turn < MaxTurns

CastValid(m) ==
  /\ (m.phase = "settling") = (m.settling # None)
  /\ m.phase = "action" => ~m.cast
  /\ m.phase \in {"projectile", "retreat"} => m.cast
  /\ m.settling \in {"post_shot", "retreat_timeout"} => m.cast
  /\ m.settling = "action_timeout" => ~m.cast
  /\ (m.phase = "projectile") = m.shot

InputValid(m) ==
  /\ IF m.held = 0 THEN m.lease = Never /\ m.refreshed = Never
     ELSE m.refreshed \in 0 .. m.tick /\ m.lease = m.refreshed + LeaseTicks
  /\ m.aim => m.aimId > 0 /\ m.phase = "action" /\ m.held = 0 /\ Steady(m)
  /\ m.intents <= MaxIntents /\ m.barriers <= MaxBarriers
  /\ ~Moves(m) => /\ m.held = 0 /\ ~m.aim
                  /\ \A a \in Actor : m.units[a].moving =>
                       m.phase = "settling" /\ m.units[a].drive = "blast"

UnitValid(u) ==
  /\ u.alive = (u.stitching > 0)
  /\ u.grounded => u.air = 0 /\ u.drive = None
  /\ ~u.alive => ~u.grounded /\ ~u.moving /\ u.air = 0 /\ u.drive = None
  /\ (u.shield = 0) = (u.expires = Never)
  /\ ~u.alive => u.shield = 0 /\ ~u.leap
  /\ u.leap => ~u.grounded /\ u.drive = "jump"

ResultValid(m) ==
  /\ (m.phase = "finished") = (m.winner # None)
  /\ (m.winner # None) = (m.why # None)
  /\ m.why \in {"simulation_limit", "turn_limit"} => m.winner = "draw"
  /\ m.why = "turn_limit" => m.turn = MaxTurns
  /\ m.why = "unravelled" => ~AllAlive(m) /\ ~Unsupported(m) /\ m.winner = Survivor(m)

Valid(m) ==
  /\ ClockValid(m) /\ CastValid(m) /\ InputValid(m) /\ ResultValid(m)
  /\ \A a \in Actor : m.units[a] \in Unit /\ UnitValid(m.units[a])

=============================================================================
