--------------------------- MODULE ActionTurns ---------------------------
(***************************************************************************)
(* The turn kernel of a live match, as functions from match to match: the  *)
(* intents, barriers and ticks of shared/simulation-v8.ts, the resources   *)
(* shared/simulation-v9.ts lays over them, and the R7 dynamics of          *)
(* shared/simulation-v10.ts.  A match is a record m; an intent or barrier  *)
(* answers with what became of it.                                         *)
(*                                                                         *)
(* Geometry is given by a landscape w, fixed with the seed: what walking   *)
(* meets, where and after how many ticks a fall ends, and what a shot of   *)
(* each actor does.  Positions, facing, angles and powers are left out.    *)
(***************************************************************************)
EXTENDS Integers, Sequences

CONSTANTS
  ActionTicks, RetreatTicks, ProjectileTicks, SettlingTicks,
  MaxAirTicks,     \* maximumAirTicks
  MaxTurns,        \* maximumTurns
  LeaseTicks, RefreshTicks,
  MaxIntents,      \* maximumIntentsPerTurn
  MaxBarriers,     \* lifecycle barriers of one match
  MaxStitching, ShieldPoints,
  FirstThread,     \* the Thread each actor begins with
  ShotPrice, UtilityPrice, TurnCredit, MaxThread

ASSUME TurnAssumption ==
  /\ {ActionTicks, RetreatTicks, ProjectileTicks, SettlingTicks, MaxAirTicks,
      MaxTurns, LeaseTicks, RefreshTicks, MaxStitching, ShieldPoints}
       \subseteq Nat \ {0}
  /\ {MaxIntents, MaxBarriers, ShotPrice, UtilityPrice, TurnCredit, MaxThread}
       \subseteq Nat
  /\ RefreshTicks < LeaseTicks
  /\ FirstThread \in [{"player", "loomkeeper"} -> 0 .. MaxThread]

Actor == {"player", "loomkeeper"}
Phase == {"action", "projectile", "settling", "retreat", "finished"}
None  == "none"      \* null where the code has a string
Never == -1          \* null where the code has a tick or a turn

\* What the seed fixes: what each actor walks into; after how many ticks, and
\* where, each way of falling ends; what a shot of each actor does to whom, and
\* no relic takes all of a full Stitching; the plan of the opponent, and
\* whether it is a long way to the player.  A plan walks at most 180 ticks, and
\* its walk, a retreat and eight intents more are within one turn's intents.
World ==
  [walk: [Actor -> {"floor", "wall", "ledge"}],
   fall: [{"jump", "walk_fall", "blast"} ->
            [ticks: Nat \ {0}, into: {"floor", "pit"}]],
   shot: [Actor -> [flight: 1 .. ProjectileTicks,
                    raw: [Actor -> 0 .. MaxStitching - 1],
                    thrown: SUBSET Actor, undermined: SUBSET Actor]],
   plan: [status: {"selected", "no_legal_plan", "work_failure"},
          walk: {n \in Nat : n + RetreatTicks + 8 <= MaxIntents},
          jumpAfter: Nat \cup {Never}],
   far: BOOLEAN]

Other(a) == CHOOSE b \in Actor : b # a
Least(x, y) == IF x < y THEN x ELSE y
Lost(x, y) == IF x > y THEN x - y ELSE 0

-----------------------------------------------------------------------------
(* The state                                                               *)

Events == [boundaries: Seq({"lease_expired", "phase"}), raw: [Actor -> Nat]]
Quiet  == [boundaries |-> <<>>, raw |-> [a \in Actor |-> 0]]

Unit == [stitching: 0 .. MaxStitching, alive: BOOLEAN, grounded: BOOLEAN,
         moving: BOOLEAN,        \* vxFp is not zero
         drive: {None, "jump", "walk_fall", "blast"}, air: 0 .. MaxAirTicks,
         thread: 0 .. MaxThread, credited: Never .. MaxTurns,
         shield: 0 .. ShieldPoints, expires: Never .. MaxTurns + 2,
         leap: BOOLEAN]

FreshUnit(a) ==
  [stitching |-> MaxStitching, alive |-> TRUE, grounded |-> TRUE,
   moving |-> FALSE, drive |-> None, air |-> 0, thread |-> FirstThread[a],
   credited |-> IF a = "player" THEN 0 ELSE Never,
   shield |-> 0, expires |-> Never, leap |-> FALSE]

NewMatch ==
  [tick |-> 0, turn |-> 0, actor |-> "player", phase |-> "action",
   started |-> 0, deadline |-> ActionTicks, settling |-> None,
   cast |-> FALSE, utility |-> FALSE, epoch |-> 0,
   held |-> 0, lease |-> Never, refreshed |-> Never,
   intents |-> 0, barriers |-> 0, aimId |-> 0, aim |-> FALSE, shot |-> FALSE,
   winner |-> None, why |-> None,
   units |-> [a \in Actor |-> FreshUnit(a)], events |-> Quiet]

Moves(m)       == m.phase \in {"action", "retreat"}
Active(m)      == m.units[m.actor]
Steady(m)      == \A a \in Actor : /\ m.units[a].alive /\ m.units[a].grounded
                                   /\ ~m.units[a].moving
Unsupported(m) == \E a \in Actor : m.units[a].alive /\ ~m.units[a].grounded
AllAlive(m)    == \A a \in Actor : m.units[a].alive

Duration(phase) ==
  CASE phase = "action" -> ActionTicks [] phase = "retreat" -> RetreatTicks
    [] phase = "projectile" -> ProjectileTicks
    [] phase = "settling" -> SettlingTicks [] OTHER -> 0

-----------------------------------------------------------------------------
(* Input and phases                                                        *)

Halt(m, stopped) ==
  [m EXCEPT !.units = [a \in Actor |-> IF a \in stopped
                                       THEN [@[a] EXCEPT !.moving = FALSE]
                                       ELSE @[a]]]

\* clearInput: the hold, its lease and the aim are gone, and the epoch says so.
ClearInput(m, stopped) ==
  [Halt(m, stopped) EXCEPT !.held = 0, !.lease = Never, !.refreshed = Never,
                           !.aim = FALSE, !.epoch = @ + 1]

Thrown(m)  == {a \in Actor : m.units[a].drive = "blast"}
Jumping(m) == Active(m).drive = "jump"

EnterPhase(m, phase, settling) ==
  [ClearInput(m, IF phase = "settling" THEN Actor \ Thrown(m) ELSE Actor)
     EXCEPT !.phase = phase, !.started = m.tick,
            !.deadline = m.tick + Duration(phase), !.settling = settling,
            !.events.boundaries = Append(@, "phase")]

Finish(m, winner, why) ==
  IF m.phase = "finished" THEN m
  ELSE [EnterPhase([m EXCEPT !.shot = FALSE], "finished", None)
          EXCEPT !.winner = winner, !.why = why]

\* Somebody is dead and nobody still falls.
\* Mutant: a death decides the match while the survivor is in the air.
Decided_Airborne(m) == ~AllAlive(m)
Decided(m) == ~AllAlive(m) /\ ~Unsupported(m)

Survivor(m) ==
  IF m.units["player"].alive THEN "player"
  ELSE IF m.units["loomkeeper"].alive THEN "loomkeeper" ELSE "draw"

Handover(m) ==
  LET next == [m EXCEPT !.turn = @ + 1]
  IN IF Decided(m) THEN Finish(m, Survivor(m), "unravelled")
     ELSE IF next.turn >= MaxTurns THEN Finish(next, "draw", "turn_limit")
     ELSE EnterPhase([next EXCEPT !.actor = Other(@), !.cast = FALSE,
                                  !.intents = 0], "action", None)

-----------------------------------------------------------------------------
(* One tick                                                                *)

ExpireLease(m) ==
  IF m.lease # Never /\ m.tick >= m.lease
  THEN [ClearInput(m, IF Jumping(m) THEN {} ELSE {m.actor})
          EXCEPT !.events.boundaries = Append(@, "lease_expired")]
  ELSE m

\* The horizontal drive of a body at the start of a tick.
Driven(m, a) ==
  LET u == m.units[a]
  IN IF u.drive = "blast" THEN u.moving
     ELSE IF ~Moves(m) \/ a # m.actor THEN FALSE
     ELSE IF u.grounded THEN m.held # 0
     ELSE u.moving \/ (u.drive = "jump" /\ m.held # 0)

Fallen(w, u) == ~u.grounded /\ u.air >= w.fall[u.drive].ticks

\* A body in the air: it lands, it is about to leave the world, or it falls on.
Fall(w, u) ==
  LET v == [u EXCEPT !.air = @ + 1]
  IN IF Fallen(w, v) /\ w.fall[v.drive].into = "floor"
     THEN [v EXCEPT !.grounded = TRUE, !.moving = FALSE, !.drive = None,
                    !.air = 0]
     ELSE v

Integrate(w, m) ==
  LET walks(a) == m.units[a].grounded /\ Driven(m, a)
      body(a) ==
        LET u == [m.units[a] EXCEPT !.moving = Driven(m, a)]
        IN IF ~u.alive THEN m.units[a]
           ELSE IF ~u.grounded THEN Fall(w, u)
           ELSE IF ~walks(a) THEN u
           ELSE IF w.walk[a] = "wall" THEN [u EXCEPT !.moving = FALSE]
           ELSE IF w.walk[a] = "ledge"
                THEN Fall(w, [u EXCEPT !.grounded = FALSE,
                                       !.drive = "walk_fall", !.air = 0])
                ELSE u
      shifted == \E a \in Actor : /\ m.units[a].alive /\ Driven(m, a)
                                  /\ ~(walks(a) /\ w.walk[a] = "wall")
  IN [m EXCEPT !.units = [a \in Actor |-> body(a)],
               !.aim = @ /\ ~shifted]

\* A dead body keeps no motion.
Buried(u) == [u EXCEPT !.stitching = 0, !.alive = FALSE, !.grounded = FALSE,
                       !.moving = FALSE, !.drive = None, !.air = 0]

\* removeBelowWorld with reevaluateSupports.
RemoveBelowWorld(w, m) ==
  LET gone(u) == \/ ~u.alive
                 \/ Fallen(w, u) /\ w.fall[u.drive].into = "pit"
  IN [m EXCEPT !.units = [a \in Actor |-> IF gone(@[a]) THEN Buried(@[a])
                                          ELSE @[a]]]

BodyBoundaries(w, m0) ==
  LET m == RemoveBelowWorld(w, m0)
  IN IF Decided(m) THEN Finish(m, Survivor(m), "unravelled")
     ELSE IF \E a \in Actor : /\ m.units[a].alive /\ ~m.units[a].grounded
                              /\ m.units[a].air >= MaxAirTicks
          THEN Finish(m, "draw", "simulation_limit")
     ELSE IF m.phase = "settling"
          THEN IF Unsupported(m) THEN m
               ELSE IF m.settling = "post_shot"
                    THEN EnterPhase(m, "retreat", None)
                    ELSE Handover(m)
     ELSE IF ~AllAlive(m) THEN EnterPhase(m, "settling", "death") ELSE m

\* The shot ends: every body in its radius is hurt, thrown or undermined.
\* V8 reckons with the shield as if it were Stitching.
Impact(w, m) ==
  LET s == w.shot[m.actor]
      struck(a) ==
        LET u == m.units[a]
            left == Lost(Least(MaxStitching, u.stitching + u.shield), s.raw[a])
        IN IF ~u.alive THEN u
           ELSE IF left = 0 THEN [u EXCEPT !.alive = FALSE]
           ELSE IF a \in s.thrown
                THEN [u EXCEPT !.grounded = FALSE, !.moving = TRUE,
                               !.drive = "blast", !.air = 0]
           ELSE IF a \in s.undermined
                THEN [u EXCEPT !.grounded = FALSE, !.drive = "walk_fall",
                               !.air = 0]
                ELSE u
      hit == RemoveBelowWorld(w,
               [m EXCEPT !.shot = FALSE,
                         !.units = [a \in Actor |-> struck(a)],
                         !.events.raw = [a \in Actor |->
                            IF m.units[a].alive THEN s.raw[a] ELSE 0]])
  IN IF Decided(hit) THEN Finish(hit, Survivor(hit), "unravelled")
     ELSE IF Unsupported(hit) THEN EnterPhase(hit, "settling", "post_shot")
     ELSE EnterPhase(hit, "retreat", None)

\* advanceProjectile: in flight until it meets something or its life is over.
Fly(w, m) ==
  IF m.tick - m.started < w.shot[m.actor].flight THEN m ELSE Impact(w, m)

PhaseDeadline(m) ==
  IF m.winner # None \/ m.tick < m.deadline THEN m
  ELSE IF m.phase = "settling" THEN Finish(m, "draw", "simulation_limit")
  ELSE IF ~Moves(m) THEN m
  ELSE IF Unsupported(m)
       THEN EnterPhase(m, "settling", IF m.phase = "action"
                                      THEN "action_timeout"
                                      ELSE "retreat_timeout")
       ELSE Handover(m)

-----------------------------------------------------------------------------
(* Thread, shield and leap: fromV8                                         *)

\* The shield takes its part of a blow before the Stitching does.
Absorb(before, after, raw) ==
  LET absorbed  == Least(before.shield, raw)
      stitching == IF raw = 0 THEN IF after.alive THEN before.stitching ELSE 0
                   ELSE Lost(before.stitching, raw - absorbed)
      alive     == IF raw = 0 THEN after.alive ELSE stitching > 0
      shield    == IF alive THEN before.shield - absorbed ELSE 0
  IN [after EXCEPT !.stitching = stitching, !.alive = alive,
                   !.shield = shield,
                   !.expires = IF shield > 0 THEN before.expires ELSE Never]

\* The actor whose turn begins is credited, and its old shield runs out.
Credit(u, turn) ==
  LET v == IF u.expires = turn THEN [u EXCEPT !.shield = 0, !.expires = Never]
           ELSE u
  IN IF u.credited = turn THEN v
     ELSE [v EXCEPT !.thread = Least(MaxThread, @ + TurnCredit),
                    !.credited = turn]

Resources(before, after) ==
  LET unit(a) ==
        LET u == Absorb(before.units[a], after.units[a], after.events.raw[a])
        IN [u EXCEPT !.leap = /\ before.units[a].leap /\ u.alive
                              /\ ~u.grounded /\ after.phase = "action"]
      begins == after.phase = "action" /\ after.turn # before.turn
  IN [after EXCEPT
        !.units = [a \in Actor |-> IF begins /\ a = after.actor
                                   THEN Credit(unit(a), after.turn)
                                   ELSE unit(a)],
        !.utility = @ /\ ~begins]

CombatTicks == MaxTurns * (ActionTicks + ProjectileTicks + RetreatTicks
                            + 2 * SettlingTicks)

Limited(m) == IF m.winner = None /\ m.tick >= CombatTicks
              THEN Finish(m, "draw", "simulation_limit") ELSE m

Tick(w, before) ==
  LET m    == ExpireLease([before EXCEPT !.events = Quiet])
      body == IF m.phase = "projectile" THEN m ELSE Integrate(w, m)
      late == [body EXCEPT !.tick = @ + 1]
      done == IF late.phase = "projectile" THEN Fly(w, late)
              ELSE BodyBoundaries(w, late)
  IN IF before.phase = "finished" THEN before
     ELSE Resources(before, Limited(PhaseDeadline(done)))

ForceLimit(m) ==
  Resources(m, Finish([m EXCEPT !.events = Quiet], "draw", "simulation_limit"))

=============================================================================
