---------------------------- MODULE LiveInvariant ----------------------------
(*****************************************************************************)
(* The inductive invariant of LiveCoordinator, and the relations between a   *)
(* match, or an entry, before and after a step in which its proof is told.   *)
(*                                                                           *)
(* Four layers.  The kernel: a match is Sound, which is stronger than        *)
(* Valid; a tick, an intent and a barrier take it through matches that are   *)
(* Between, for within a step a body may be dead and not yet removed, or     *)
(* hurt and not yet credited.  The match with its log: an entry is Proper,   *)
(* and Whole if the log makes it; it only ever goes Onward, and each method  *)
(* says by which records (Silent, Extended, Ticked).  The server around it:  *)
(* the registry agrees that the match is over, and every request in the lane *)
(* Fits the log as it was when the request was sent.  The opponent's script: *)
(* it Rests after a tick and is Busy in the next, with fewer operations to   *)
(* make the further it is, and each stage says what it needs of the match.   *)
(*****************************************************************************)
EXTENDS LiveCoordinator

-----------------------------------------------------------------------------
(* What a match is made of                                                   *)

\* The values a field of a match, a body or its events may take.
Drive == {None, "jump", "walk_fall", "blast"}
Mark  == {"lease_expired", "phase"}
Settling == {None, "post_shot", "death", "action_timeout", "retreat_timeout"}
Winner == {None, "player", "loomkeeper", "draw"}
Why == {None, "unravelled", "turn_limit", "simulation_limit"}

IsRecord(u) == u = [f \in DOMAIN u |-> u[f]]

IsBody(u) ==
  /\ IsRecord(u)
  /\ DOMAIN u = {"stitching", "alive", "grounded", "moving", "drive", "air",
                 "thread", "credited", "shield", "expires", "leap"}
  /\ u.stitching \in Nat /\ u.alive \in BOOLEAN /\ u.grounded \in BOOLEAN
  /\ u.moving \in BOOLEAN /\ u.drive \in Drive /\ u.air \in Nat
  /\ u.thread \in Nat /\ u.credited \in Int /\ u.shield \in Nat
  /\ u.expires \in Int /\ u.leap \in BOOLEAN

IsEvents(e) ==
  /\ DOMAIN e = {"boundaries", "raw"}
  /\ e.boundaries \in Seq(Mark)
  /\ e.raw \in [Actor -> Nat]

\* A match, field by field.
Typed(m) ==
  /\ DOMAIN m = {"tick", "turn", "actor", "phase", "started", "deadline",
                 "settling", "cast", "utility", "epoch", "held", "lease",
                 "refreshed", "intents", "barriers", "aimId", "aim", "shot",
                 "winner", "why", "units", "events"}
  /\ m.tick \in Nat /\ m.turn \in Nat /\ m.actor \in Actor /\ m.phase \in Phase
  /\ m.started \in Nat /\ m.deadline \in Nat /\ m.settling \in Settling
  /\ m.cast \in BOOLEAN /\ m.utility \in BOOLEAN /\ m.epoch \in Nat
  /\ m.held \in -1 .. 1 /\ m.lease \in Int /\ m.refreshed \in Int
  /\ m.intents \in Nat /\ m.barriers \in Nat /\ m.aimId \in Nat
  /\ m.aim \in BOOLEAN /\ m.shot \in BOOLEAN
  /\ m.winner \in Winner /\ m.why \in Why
  /\ DOMAIN m.units = Actor /\ \A a \in Actor : IsBody(m.units[a])
  /\ IsEvents(m.events)

\* h differs from m in the parts named.
SameClock(h, m) == /\ h.tick = m.tick /\ h.turn = m.turn /\ h.actor = m.actor
                   /\ h.cast = m.cast /\ h.intents = m.intents
SameCount(h, m) == /\ h.utility = m.utility /\ h.barriers = m.barriers
                   /\ h.aimId = m.aimId
SamePhase(h, m) == /\ h.phase = m.phase /\ h.started = m.started
                   /\ h.deadline = m.deadline /\ h.settling = m.settling
SameInput(h, m) == /\ h.held = m.held /\ h.lease = m.lease
                   /\ h.refreshed = m.refreshed /\ h.aim = m.aim
SameEnd(h, m)   == h.winner = m.winner /\ h.why = m.why
NoInput(h)      == /\ h.held = 0 /\ h.lease = Never /\ h.refreshed = Never
                   /\ h.aim = FALSE

\* v differs from u in whether and how it moves.
SameStores(v, u) == /\ v.thread = u.thread /\ v.credited = u.credited
                    /\ v.shield = u.shield /\ v.expires = u.expires
                    /\ v.leap = u.leap
SameStand(v, u)  == /\ v.stitching = u.stitching /\ v.alive = u.alive
                    /\ v.grounded = u.grounded /\ v.drive = u.drive
                    /\ v.air = u.air

\* Bodies stand as they stood, and those in stopped have come to a halt.
Halted(h, m, stopped) ==
  \A a \in Actor :
    /\ SameStores(h.units[a], m.units[a]) /\ SameStand(h.units[a], m.units[a])
    /\ h.units[a].moving = (m.units[a].moving /\ a \notin stopped)

\* The bodies that come to a halt when a phase is entered.
Stops(m, phase) == IF phase = "settling" THEN Actor \ Thrown(m) ELSE Actor

-----------------------------------------------------------------------------
(* A sound match, and a match in the middle of a step                        *)

\* A body that stands is not in motion through the air; the dead are removed.
Still(u) ==
  /\ u.grounded => u.air = 0 /\ u.drive = None
  /\ ~u.alive => ~u.grounded /\ ~u.moving /\ u.air = 0 /\ u.drive = None
  /\ u.air <= MaxAirTicks

\* The stores of a body agree with each other and with its life.
Rich(u) ==
  /\ u.stitching <= MaxStitching /\ u.alive = (u.stitching > 0)
  /\ u.thread <= MaxThread /\ u.credited \in Never .. MaxTurns
  /\ u.shield <= ShieldPoints /\ u.expires \in Never .. MaxTurns + 2
  /\ (u.shield = 0) = (u.expires = Never)
  /\ ~u.alive => u.shield = 0 /\ ~u.leap
  /\ u.leap => ~u.grounded /\ u.drive = "jump"

Bodies(m) == \A a \in Actor : Still(m.units[a])

\* The bodies are where the phase allows them to be.
Placed(m) ==
  m.phase # "finished" =>
    /\ \A a \in Actor : m.units[a].alive /\ ~m.units[a].grounded
                          => m.units[a].air < MaxAirTicks
    /\ m.phase # "settling" => AllAlive(m)
    /\ m.phase = "projectile" => Steady(m)
    /\ Moves(m) => \A a \in Actor \ {m.actor} :
                      m.units[a].grounded /\ ~m.units[a].moving

\* What holds of a match between two steps.
Sound(m) ==
  /\ Typed(m) /\ ClockValid(m) /\ CastValid(m) /\ InputValid(m) /\ ResultValid(m)
  /\ Bodies(m) /\ Placed(m) /\ \A a \in Actor : Rich(m.units[a])
  /\ m.phase # "finished" => m.tick < CombatTicks

\* Who lives after a blow by V8's reckoning is who lives after it by V9's.
Hurt(u, v, raw) ==
  IF raw = 0 THEN v.alive => u.alive
  ELSE v.alive = (u.stitching > raw - Least(u.shield, raw))

\* m is on its way from b within one step.
From(b, m) ==
  /\ \A a \in Actor :
       /\ m.units[a].thread <= MaxThread
       /\ m.units[a].credited \in Never .. MaxTurns
       /\ Hurt(b.units[a], m.units[a], m.events.raw[a])
       /\ b.units[a].leap /\ m.units[a].alive /\ ~m.units[a].grounded
            => m.units[a].drive = "jump"
  /\ b.epoch <= m.epoch
  /\ m.events.boundaries # <<>> => b.epoch < m.epoch

\* Phase, turn and tick are within their deadlines.
Paced(h) ==
  /\ h.turn <= MaxTurns /\ h.started <= h.tick
  /\ h.deadline = h.started + Duration(h.phase)
  /\ IF h.phase = "finished" THEN h.deadline = h.tick
     ELSE h.tick <= h.deadline /\ h.turn < MaxTurns

Between(b, h) ==
  /\ Typed(h) /\ Paced(h) /\ CastValid(h) /\ InputValid(h) /\ ResultValid(h)
  /\ Bodies(h) /\ Placed(h) /\ From(b, h)

\* A phase may be entered from here.
Open(b, m) ==
  /\ Typed(m) /\ Bodies(m) /\ From(b, m)
  /\ m.phase # "finished" /\ m.turn <= MaxTurns
  /\ m.intents <= MaxIntents /\ m.barriers <= MaxBarriers

-----------------------------------------------------------------------------
(* On the way through a step                                                 *)

\* On a body's way the stores and the Stitching stay.
SameLife(v, u) == /\ SameStores(v, u)
                  /\ v.stitching = u.stitching /\ v.alive = u.alive

\* In the air, not yet for too long.
Aloft(m) == \A a \in Actor : m.units[a].alive /\ ~m.units[a].grounded
                               => m.units[a].air < MaxAirTicks

\* Only the active actor is on its way.
Strays(m) == Moves(m) => \A a \in Actor \ {m.actor} :
                           m.units[a].grounded /\ ~m.units[a].moving

\* Nothing has ended yet.
Going(b, m) ==
  /\ Typed(m) /\ m.phase # "finished" /\ m.turn < MaxTurns
  /\ m.started <= m.tick /\ m.deadline = m.started + Duration(m.phase)
  /\ m.tick <= m.deadline
  /\ CastValid(m) /\ InputValid(m) /\ ResultValid(m)
  /\ Bodies(m) /\ Strays(m) /\ From(b, m)

\* What is left of Stitching and shield when V8 has reckoned with a blow.
Left(u, raw) == Lost(Least(MaxStitching, u.stitching + u.shield), raw)

\* What a blow does to a body that stands.
Struck(s, u, a) ==
  IF ~u.alive THEN u
  ELSE IF Left(u, s.raw[a]) = 0 THEN [u EXCEPT !.alive = FALSE]
  ELSE IF a \in s.thrown
       THEN [u EXCEPT !.grounded = FALSE, !.moving = TRUE,
                      !.drive = "blast", !.air = 0]
  ELSE IF a \in s.undermined
       THEN [u EXCEPT !.grounded = FALSE, !.drive = "walk_fall", !.air = 0]
       ELSE u

\* v stands and moves as u does.
SameMotion(v, u) == /\ v.alive = u.alive /\ v.grounded = u.grounded
                    /\ v.moving = u.moving /\ v.drive = u.drive /\ v.air = u.air

\* What is left of a body that has been given its resources.
Stocked(v) ==
  /\ v.stitching <= MaxStitching /\ v.alive = (v.stitching > 0)
  /\ v.thread <= MaxThread /\ v.credited \in Never .. MaxTurns
  /\ v.shield <= ShieldPoints /\ v.expires \in Never .. MaxTurns + 2
  /\ (v.shield = 0) = (v.expires = Never)
  /\ ~v.alive => v.shield = 0

-----------------------------------------------------------------------------
(* The course of a turn                                                      *)

\* One match is in the turn of another, with the same stores.
Kin(b, h) ==
  /\ h.turn = b.turn /\ h.actor = b.actor /\ h.intents = b.intents
  /\ h.utility = b.utility /\ h.barriers = b.barriers /\ h.aimId = b.aimId
  /\ \A a \in Actor : h.units[a].thread = b.units[a].thread

\* A tick leaves a match in its phase: the input stays unless its lease is
\* over, and where everybody stands still everybody goes on doing so.
Holds(b, h) ==
  /\ Kin(b, h)
  /\ h.phase = b.phase /\ h.started = b.started /\ h.settling = b.settling
  /\ b.lease = Never \/ b.tick < b.lease =>
       h.held = b.held /\ h.lease = b.lease /\ h.refreshed = b.refreshed
  /\ Ready(b) => Steady(h) /\ h.aim = b.aim

\* A phase of the same turn begins.
Shifts(b, h) ==
  /\ Kin(b, h) /\ h.held = 0
  /\ \/ b.phase = "projectile" /\ h.phase = "settling" /\ h.settling = "post_shot"
     \/ b.phase = "projectile" /\ h.phase = "retreat"
     \/ b.phase = "settling" /\ b.settling = "post_shot" /\ h.phase = "retreat"
     \/ /\ b.phase \in {"action", "retreat"} /\ h.phase = "settling"
        /\ h.settling \notin {None, "post_shot"}

\* The next turn begins.
Begins(b, h) ==
  /\ h.turn = b.turn + 1 /\ h.phase = "action" /\ h.held = 0 /\ Steady(h)
  /\ h.intents = 0 /\ h.barriers = b.barriers

Ends(b, h) == h.phase = "finished" /\ h.barriers = b.barriers

\* What becomes of a turn.
Course(b, h) == Ends(b, h) \/ Holds(b, h) \/ Shifts(b, h) \/ Begins(b, h)

-----------------------------------------------------------------------------
(* An intent or a barrier                                                    *)

\* What an operation makes of a match.
Kept(b, g) == /\ Sound(g) /\ b.epoch <= g.epoch /\ b.barriers <= g.barriers
              /\ g.events.boundaries # <<>> => b.epoch < g.epoch

\* A body that stands as it stood, or has just jumped.
Jumps(v) == v.alive /\ ~v.grounded /\ v.drive = "jump" /\ v.air = 0
Stands(v, u) == /\ v.grounded = u.grounded /\ v.drive = u.drive /\ v.air = u.air
                /\ v.moving => u.moving \/ v.alive

\* What an input leaves of the match it meets.
InputStep(b, h) ==
  /\ Typed(h) /\ h.tick = b.tick /\ h.turn = b.turn /\ h.actor = b.actor /\ h.cast = b.cast
  /\ SamePhase(h, b) /\ SameEnd(h, b) /\ h.shot = b.shot /\ InputValid(h)
  /\ b.epoch <= h.epoch /\ h.events.boundaries = <<>>
  /\ \A a \in Actor :
       /\ h.events.raw[a] = 0
       /\ h.units[a].thread <= b.units[a].thread /\ h.units[a].credited = b.units[a].credited
       /\ h.units[a].alive = b.units[a].alive
       /\ Stands(h.units[a], b.units[a]) \/ (a = b.actor /\ Jumps(h.units[a]))
       /\ a # b.actor /\ h.units[a].moving => b.units[a].moving

\* The match an effect starts from.
Before(b, q) ==
  /\ Sound(b) /\ Moves(b) /\ b.intents < MaxIntents
  /\ b.tick < b.deadline /\ Active(b).alive
  /\ Typed(q) /\ SameClock(q, b) /\ SameCount(q, b) /\ SamePhase(q, b)
  /\ SameInput(q, b) /\ SameEnd(q, b) /\ q.shot = b.shot /\ q.epoch = b.epoch
  /\ q.units = b.units /\ q.events.boundaries = <<>>
  /\ \A a \in Actor : q.events.raw[a] = 0

\* An intent of the actor at turn that stays in its phase.
Took(b, g) ==
  /\ Sound(g)
  /\ g.turn = b.turn /\ g.actor = b.actor /\ g.tick = b.tick /\ g.phase = b.phase
  /\ g.started = b.started /\ g.settling = b.settling /\ g.barriers = b.barriers
  /\ g.intents = b.intents + 1

\* The active body has its Thread still, and who stood still does.
Stays(b, g) ==
  /\ Active(g).thread = Active(b).thread
  /\ Ready(b) /\ g.held = 0 => Ready(g)

-----------------------------------------------------------------------------
(* The pace of a walk                                                        *)

\* el ticks after its start a refresh of the walk is due and not yet made.
Owed(c, m, el) == el > 0 /\ (el % RefreshTicks) = 0 /\ c.refreshed # m.tick

\* The walk was refreshed when the last refresh was due that has been made,
\* and no tick of it has cost more than one intent beyond n.
Pacing(c, m, n, el) ==
  /\ m.held # 0 => m.refreshed = m.tick - (IF Owed(c, m, el) THEN RefreshTicks
                                           ELSE (el % RefreshTicks))
  /\ m.intents <= n + el + (IF el > 0 /\ c.refreshed # m.tick THEN 0 ELSE 1)

-----------------------------------------------------------------------------
(* Logs                                                                      *)

\* A log is a sequence of records.
IsLog(l) == \E S : l \in Seq(S)

\* The record a player's intent leaves.
Theirs(op) == op.kind = "intent" /\ op.actor = "player"

\* h is l with more records; the last of l may have counted further ticks.
Grows(l, h) ==
  /\ IsLog(h) /\ Len(l) <= Len(h)
  /\ \A i \in 1 .. Len(l) :
       \/ h[i] = l[i]
       \/ i = Len(l) /\ l[i].op.kind = "ticks" /\ h[i].op.kind = "ticks"

\* None of the new records is a player's intent.
Silent(l, h) == \A i \in Len(l) + 1 .. Len(h) : ~Theirs(h[i].op)

-----------------------------------------------------------------------------
(* The opponent's script                                                     *)

\* What the opponent's script may say, and what a script is.
Sayings == [kind: {"intent"}, intent: Intents]

IsScript(c) ==
  /\ DOMAIN c = {"plan", "prefix", "turn", "pending", "stage", "queue", "begun",
                 "jumped", "aimedAt", "refreshed", "retreat"}
  /\ c.queue \in Seq(Sayings) /\ c.prefix \in {None, "threadguard", "threadleap"}

IsStep(s) ==
  /\ s.op.kind \in {"none", "barrier", "intent"}
  /\ s.op.kind = "intent" => s.op.intent \in Intents
  /\ s.op.kind = "barrier" => s.op.reason = "cancel"
  /\ IsScript(s.script)

-----------------------------------------------------------------------------
(* The script by stages                                                      *)

\* The fields of a script.
Fit(c) ==
  /\ IsScript(c) /\ c.turn \in Nat /\ c.begun \in Int /\ c.refreshed \in Int
  /\ c.retreat \in Int /\ c.pending \in BOOLEAN /\ c.jumped \in BOOLEAN
  /\ c.plan.walk \in Nat /\ c.plan.walk + RetreatTicks + 8 <= MaxIntents
  /\ c.plan.jumpAfter \in Int

\* It is the turn the script was made for, and the script says queue next.
Runs(c, m, queue) ==
  /\ Fit(c) /\ c.turn = m.turn /\ m.actor = "loomkeeper" /\ c.queue = queue
  /\ c.refreshed <= m.tick

\* It is at a stage before the shot, which can be paid.
Acts(c, m, stage, queue) ==
  /\ Runs(c, m, queue) /\ m.phase = "action" /\ c.stage = stage
  /\ c.retreat = Never /\ Active(m).thread >= ShotPrice

\* The turn has begun, and nothing has been done in it.
Begun(m) == Ready(m) /\ ~m.utility /\ m.intents = 0

Pending(c, m) ==
  /\ Acts(c, m, "prefix", <<>>) /\ c.pending /\ ~c.jumped /\ Begun(m)
  /\ c.prefix # None => Active(m).thread >= ShotPrice + UtilityPrice

Prefixed(c, m) ==
  /\ Acts(c, m, "prefix", <<>>) /\ ~c.pending /\ ~c.jumped
  /\ m.held = 0 /\ m.intents <= 1

Facing(c, m) ==
  /\ Acts(c, m, "motion", <<Say("walk_start", Toward, 0)>>) /\ ~c.jumped
  /\ c.begun = m.tick /\ c.plan.walk > 0 /\ m.held = 0 /\ m.intents <= 2

\* el ticks of the walk are over.
Walking(c, m, el) ==
  /\ Acts(c, m, "motion", <<>>) /\ m.tick = c.begun + el
  /\ el \in 0 .. c.plan.walk /\ c.plan.walk > 0
  /\ el = c.plan.walk => c.refreshed # m.tick
  /\ Pacing(c, m, IF c.jumped THEN 3 ELSE 2, el)

Standing(c, m) ==
  /\ Acts(c, m, "ground", <<>>) /\ m.held = 0 /\ m.intents <= 3 + c.plan.walk

Aiming(c, m, queue, n) ==
  /\ Acts(c, m, "aim", queue) /\ Ready(m) /\ m.intents <= n + c.plan.walk
  /\ queue = <<>> => m.aim

Dwelling(c, m) ==
  /\ Acts(c, m, "dwell", <<>>) /\ Ready(m) /\ m.aim /\ m.intents <= 6 + c.plan.walk

\* The shot is out, or the turn has run into its deadline or a death.
Over(c, m) ==
  /\ Runs(c, m, <<>>) /\ m.phase \in {"projectile", "settling"}
  /\ m.settling \in {None, "post_shot"} => c.retreat = Never /\ m.intents <= 7 + c.plan.walk

Landed(c, m) ==
  /\ Runs(c, m, <<>>) /\ m.phase = "retreat" /\ c.retreat = Never
  /\ m.held = 0 /\ m.intents <= 7 + c.plan.walk

Turning(c, m) ==
  /\ Runs(c, m, <<Say("walk_start", Away, 0)>>) /\ m.phase = "retreat"
  /\ c.retreat = m.tick /\ m.held = 0 /\ m.intents <= 8 + c.plan.walk

\* el ticks of the retreat are over.
Retreating(c, m, el) ==
  /\ Runs(c, m, <<>>) /\ m.phase = "retreat" /\ el \in Nat
  /\ m.tick = c.retreat + el /\ m.started <= c.retreat
  /\ Pacing(c, m, 8 + c.plan.walk, el)

\* At most k more operations are made before the next tick.
WalkRank(c, m, el) ==
  (IF c.jumped THEN 0 ELSE 1)
    + (IF el = c.plan.walk THEN 5 ELSE IF c.refreshed = m.tick THEN 1 ELSE 2)

Busy(c, m, k) ==
  \/ k >= 6 /\ Pending(c, m)
  \/ k >= 5 /\ Prefixed(c, m)
  \/ k >= 4 /\ Facing(c, m)
  \/ \E el \in Nat : Walking(c, m, el) /\ k >= WalkRank(c, m, el)
  \/ k >= 4 /\ Standing(c, m)
  \/ k >= 3 /\ Aiming(c, m, <<Say("select_relic", 0, 0), Say("aim", 0, 0)>>, 4)
  \/ k >= 2 /\ Aiming(c, m, <<Say("aim", 0, 0)>>, 5)
  \/ k >= 1 /\ Aiming(c, m, <<>>, 6)
  \/ k >= 2 /\ Dwelling(c, m)
  \/ k >= 1 /\ Over(c, m)
  \/ k >= 4 /\ Landed(c, m)
  \/ k >= 3 /\ Turning(c, m)
  \/ \E el \in Nat : /\ Retreating(c, m, el)
                     /\ k >= (IF c.refreshed = m.tick THEN 1 ELSE 2)

\* The script waits for the next tick.
Rests(c, m) ==
  \/ Prefixed(c, m) /\ ~Ready(m)
  \/ \E el \in Nat : /\ Walking(c, m, el) /\ el < c.plan.walk
                     /\ ~Refreshes(c, m, el)
  \/ Standing(c, m) /\ ~Ready(m)
  \/ Dwelling(c, m) \/ Over(c, m)
  \/ \E el \in Nat : Retreating(c, m, el) /\ ~Refreshes(c, m, el)

\* An operation the script asks for is done, and the script goes on with it;
\* or it rests; or the barriers of the match are spent.
AnswerTo(m, s) == Intent(m, "loomkeeper", s.op.intent, Seen(m))
Serves(m, s, k) ==
  \/ s.op.kind = "none" /\ Rests(s.script, m)
  \/ /\ s.op.kind = "intent"
     /\ AnswerTo(m, s).verdict = "done" /\ Busy(s.script, AnswerTo(m, s).match, k)
  \/ /\ s.op.kind = "barrier"
     /\ LET ans == Barrier(m, BarrierOp(s.op.reason, "loomkeeper", m))
        IN \/ ans.verdict = "done" /\ Busy(s.script, ans.match, k)
           \/ ans.verdict = "unchanged" /\ Busy(s.script, m, k)
           \/ ans.verdict = "lifecycle_limit" /\ m.barriers = MaxBarriers

-----------------------------------------------------------------------------
(* Entries                                                                   *)

\* The fields of an entry.
Parts == {"world", "match", "log", "paused", "unavailable", "throws", "ai",
          "script", "plans"}

\* What holds of an entry between two operations.
Proper(e) ==
  /\ DOMAIN e = Parts
  /\ e.world \in World /\ Sound(e.match) /\ IsLog(e.log) /\ e.throws \in Nat
  /\ DOMAIN e.ai = {"turn", "elapsed", "failed"}
  /\ e.script = <<>> \/ \E c : IsScript(c) /\ e.script = <<c>>

\* h is l with records that are not of ticks.
Extended(l, h) ==
  /\ IsLog(h) /\ Len(l) <= Len(h) /\ \A i \in 1 .. Len(l) : h[i] = l[i]
  /\ \A i \in Len(l) + 1 .. Len(h) : h[i].op.kind # "ticks"

\* What an operation of the coordinator makes of an entry.
Onward(e, f) ==
  /\ Proper(f) /\ f.world = e.world /\ Grows(e.log, f.log)
  /\ e.match.epoch <= f.match.epoch /\ e.throws <= f.throws
  /\ e.match.barriers <= f.match.barriers
  /\ e.match.epoch = f.match.epoch => Boundaries(e.log) = Boundaries(f.log)

\* A match that only thinks goes nowhere.
Same(e, f) ==
  /\ f.world = e.world /\ f.match = e.match /\ f.log = e.log /\ f.throws = e.throws

\* What Accept leaves alone.
Beside(e, f) ==
  /\ f.world = e.world /\ f.throws = e.throws /\ f.script = e.script /\ f.ai = e.ai
  /\ f.plans = e.plans /\ f.unavailable = e.unavailable

\* Nothing but records of its own, and no exception.
Plainly(e, f) ==
  Onward(e, f) /\ Silent(e.log, f.log) /\ Extended(e.log, f.log) /\ f.throws = e.throws

\* What one tick of the match makes of its log: it is counted in the k-th
\* record, and what follows is the opponent's.
Ticked(l, h, k) ==
  /\ IsLog(h) /\ k \in Nat \ {0} /\ k <= Len(h)
  /\ \A i \in 1 .. k - 1 : h[i] = l[i]
  /\ \/ k = Len(l) + 1 /\ h[k].op = Ticks(1)
     \/ /\ k = Len(l) /\ l[k].op.kind = "ticks"
        /\ h[k].op = Ticks(l[k].op.count + 1)
  /\ \A i \in k + 1 .. Len(h) : h[i].op.kind # "ticks"

-----------------------------------------------------------------------------
(* A log played again                                                        *)

\* The verifier before the first record, and one that agrees.
Start(w) == [entry |-> Create(w), ok |-> TRUE]
Good(e) == [entry |-> e, ok |-> TRUE]
PlayStep(v, l, k) == Verifies(v, [log |-> l], k)
PlayRun(w, l, n, r) ==
  r = [k \in 0 .. n |-> IF k = 0 THEN Start(w) ELSE PlayStep(r[k - 1], l, k)]

\* Playing n records of l in the world w makes v.
Reaches(w, l, n, v) == \E r : PlayRun(w, l, n, r) /\ r[n] = v

\* The log of a match whose script was never refused makes the match again;
\* if it ends in ticks, without them it makes the match they were ticks of.
Counts(e, g, c) ==
  /\ c \in Nat \ {0} /\ e.log[Len(e.log)].op = Ticks(c)
  /\ Reaches(e.world, e.log, Len(e.log) - 1, Good(g)) /\ Len(g.log) = Len(e.log) - 1
  /\ ~Terminal(g) /\ g.throws = 0 /\ e = Advance(g, c)

Whole(e) ==
  e.throws = 0 =>
    /\ Reaches(e.world, e.log, Len(e.log), Good(e))
    /\ Len(e.log) # 0 /\ e.log[Len(e.log)].op.kind = "ticks" => \E g, c : Counts(e, g, c)

\* What a request knows of the match is no news, and right if nothing came
\* between.
Fits(r, e) ==
  /\ r.kind = "intent" => r.intent \in Intents
  /\ r.seen.epoch \in Nat /\ r.seen.epoch <= e.match.epoch
  /\ r.seen.epoch = e.match.epoch => r.boundaries = Boundaries(e.log)

-----------------------------------------------------------------------------
(* The script and the match it was made for                                  *)

\* The script is of the turn the match is in, for which a plan was retained.
Scripted(e) == e.script # <<>> /\ e.script[1].turn = e.match.turn
Chosen(e) ==
  /\ e.ai.turn = e.match.turn
  /\ \E i \in DOMAIN e.plans : e.plans[i].turn = e.match.turn

\* No script is of a turn to come; without one the opponent has done nothing.
Timely(e) ==
  /\ e.script # <<>> => e.script[1].turn \in Nat /\ e.script[1].turn <= e.match.turn
  /\ IsLog(e.plans)
  /\ Scripted(e) => Chosen(e)
  /\ ~Scripted(e) /\ LoomsTurn(e.match) => Begun(e.match)

\* The script rests, or has at most k operations to make.
Tuned(e)    == Timely(e) /\ (Scripted(e) => Rests(e.script[1], e.match))
Alert(e, k) == Timely(e) /\ (Scripted(e) => Busy(e.script[1], e.match, k))

\* What the script needs to be served.
Legal(e) ==
  IF e.throws > 0 THEN e.match.barriers = MaxBarriers ELSE Terminal(e) \/ Tuned(e)

\* v may go on with at most k operations.
Drains(v, k) ==
  /\ Proper(v.entry) /\ v.on \in BOOLEAN
  /\ v.on => v.entry.script # <<>>
  /\ IF v.entry.throws > 0 THEN ~v.on /\ v.entry.match.barriers = MaxBarriers
     ELSE IF v.on THEN Alert(v.entry, k) ELSE Tuned(v.entry)

-----------------------------------------------------------------------------
(* The registry around the match                                             *)

\* The registry has noticed the end of the match, and nothing else.
Agrees(e, c) ==
  /\ c.status \in Status /\ c.settled \in BOOLEAN
  /\ Terminal(e) <=> c.status # "active"
  /\ Terminal(e) <=> c.settled

\* What the coordinator keeps.
EntryGood == Proper(entry) /\ Whole(entry)

\* What the registry keeps.
RegistryGood ==
  /\ Agrees(entry, challenge)
  /\ due \in 0 .. Debt
  /\ cursor \in Nat /\ sends \in Nat /\ IsLog(lane) /\ cursor + Len(lane) <= sends
  /\ waiting => lane # <<>>
  /\ waiting \in BOOLEAN

\* Every request that may still come to the match fits it.
Laned(l, e)  == IsLog(l) /\ \A i \in 1 .. Len(l) : Fits(l[i].request, e)
RequestsGood == Laned(lane, entry) /\ (last # NoRequest => Fits(last, entry))

\* The inductive invariant.
IInv == scenario \in Scenario /\ EntryGood /\ RegistryGood /\ RequestsGood
=============================================================================
