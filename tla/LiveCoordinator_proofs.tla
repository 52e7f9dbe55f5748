------------------------ MODULE LiveCoordinator_proofs ------------------------
(*****************************************************************************)
(* For any durations, landscapes and requests: the assertions of the kernel  *)
(* hold in every state of a live match, every log that ends without an       *)
(* exception makes the match again, no intent of the player takes effect in  *)
(* a turn, phase or epoch it was not sent for, and nothing the opponent's    *)
(* script asks for is refused while barriers are left.                       *)
(*                                                                           *)
(* LiveInvariant holds what the proofs are about and names its four layers:  *)
(* the kernel, a match with its log, the server, the opponent's script.      *)
(*                                                                           *)
(* A log is played again by a recursive function.  Reaches names its value   *)
(* after some records without the function, so that one record more is one   *)
(* step more; Induction carries a set of natural numbers from n to n + 1.    *)
(*****************************************************************************)
EXTENDS LiveInvariant, FiniteSetTheorems, SequenceTheorems, TLAPS

-----------------------------------------------------------------------------
(* What a match is made of                                                   *)

\* A field of a record may be replaced.
LEMMA ExceptRecord ==
  ASSUME NEW u, IsRecord(u), NEW f, NEW v
  PROVE  IsRecord([u EXCEPT ![f] = v])
BY DEF IsRecord

\* Halt brings the bodies named to a stop and touches nothing else.
LEMMA HaltIs ==
  ASSUME NEW m, Typed(m), NEW stopped,
         NEW h, h = Halt(m, stopped)
  PROVE     /\ Typed(h) /\ Halted(h, m, stopped)
            /\ SameClock(h, m) /\ SameCount(h, m) /\ SamePhase(h, m)
            /\ SameInput(h, m) /\ SameEnd(h, m)
            /\ h.epoch = m.epoch /\ h.shot = m.shot /\ h.events = m.events
<1>1. ASSUME NEW a \in Actor
      PROVE  /\ IsBody(h.units[a])
             /\ SameStores(h.units[a], m.units[a])
             /\ SameStand(h.units[a], m.units[a])
             /\ h.units[a].moving = (m.units[a].moving /\ a \notin stopped)
  <2>1. h.units[a] = IF a \in stopped THEN [m.units[a] EXCEPT !.moving = FALSE]
                     ELSE m.units[a]
    BY DEF Halt, Typed
  <2>2. IsBody(m.units[a])  BY DEF Typed
  <2>3. IsRecord([m.units[a] EXCEPT !.moving = FALSE])
    BY <2>2, ExceptRecord DEF IsBody
  <2> QED BY <2>1, <2>2, <2>3 DEF IsBody, SameStores, SameStand
<1>2. /\ Typed(h) /\ SameClock(h, m) /\ SameCount(h, m) /\ SamePhase(h, m)
      /\ SameInput(h, m) /\ SameEnd(h, m)
      /\ h.epoch = m.epoch /\ h.shot = m.shot /\ h.events = m.events
  BY <1>1 DEF Halt, Typed, SameClock, SameCount, SamePhase, SameInput, SameEnd
<1> QED BY <1>1, <1>2 DEF Halted

\* ClearInput takes back the input and begins an epoch.
LEMMA ClearInputIs ==
  ASSUME NEW m, Typed(m), NEW stopped,
         NEW h, h = ClearInput(m, stopped)
  PROVE     /\ Typed(h) /\ Halted(h, m, stopped)
            /\ SameClock(h, m) /\ SameCount(h, m) /\ SamePhase(h, m)
            /\ NoInput(h) /\ SameEnd(h, m)
            /\ h.epoch = m.epoch + 1 /\ h.shot = m.shot /\ h.events = m.events
<1> DEFINE g == Halt(m, stopped)
<1>1. /\ Typed(g) /\ Halted(g, m, stopped)
      /\ SameClock(g, m) /\ SameCount(g, m) /\ SamePhase(g, m)
      /\ SameInput(g, m) /\ SameEnd(g, m)
      /\ g.epoch = m.epoch /\ g.shot = m.shot /\ g.events = m.events
  BY HaltIs, Zenon
<1>2. h = [g EXCEPT !.held = 0, !.lease = Never, !.refreshed = Never,
                    !.aim = FALSE, !.epoch = @ + 1]
  BY DEF ClearInput
<1> HIDE DEF g
<1>3. Typed(h) /\ h.units = g.units
  BY <1>1, <1>2 DEF Typed, Never
<1>4. /\ SameClock(h, m) /\ SameCount(h, m) /\ SamePhase(h, m)
      /\ NoInput(h) /\ SameEnd(h, m)
      /\ h.epoch = m.epoch + 1 /\ h.shot = m.shot /\ h.events = m.events
  BY <1>1, <1>2 DEF Typed, SameClock, SameCount, SamePhase, NoInput, SameEnd
<1> QED BY <1>1, <1>3, <1>4 DEF Halted

\* EnterPhase sets the phase, its start and its deadline, and clears the input.
LEMMA EnterPhaseIs ==
  ASSUME NEW m, Typed(m), NEW phase \in Phase, NEW settling \in Settling,
         NEW h, h = EnterPhase(m, phase, settling)
  PROVE     /\ Typed(h)
            /\ Halted(h, m, Stops(m, phase))
            /\ SameClock(h, m) /\ SameCount(h, m) /\ SameEnd(h, m)
            /\ h.phase = phase /\ h.started = m.tick
            /\ h.deadline = m.tick + Duration(phase) /\ h.settling = settling
            /\ NoInput(h) /\ h.epoch = m.epoch + 1 /\ h.shot = m.shot
            /\ h.events.raw = m.events.raw
            /\ h.events.boundaries = Append(m.events.boundaries, "phase")
<1> DEFINE stopped == Stops(m, phase)
           c == ClearInput(m, stopped)
<1>1. /\ Typed(c) /\ Halted(c, m, stopped)
      /\ SameClock(c, m) /\ SameCount(c, m) /\ SamePhase(c, m)
      /\ NoInput(c) /\ SameEnd(c, m)
      /\ c.epoch = m.epoch + 1 /\ c.shot = m.shot /\ c.events = m.events
  BY ClearInputIs, Zenon
<1>2. h = [c EXCEPT !.phase = phase, !.started = m.tick,
                    !.deadline = m.tick + Duration(phase),
                    !.settling = settling,
                    !.events.boundaries = Append(@, "phase")]
  BY DEF EnterPhase, Stops
<1>3. Duration(phase) \in Nat
  BY TurnAssumption DEF Duration
<1>4. IsEvents(c.events)  BY <1>1 DEF Typed
<1> HIDE DEF c, stopped
<1>5. /\ h.events.boundaries = Append(c.events.boundaries, "phase")
      /\ h.events.raw = c.events.raw /\ IsEvents(h.events)
  <2>1. Append(c.events.boundaries, "phase") \in Seq(Mark)
    BY <1>4, AppendProperties DEF IsEvents, Mark
  <2>2. h.events = [c.events EXCEPT !.boundaries = Append(@, "phase")]
    BY <1>1, <1>2 DEF Typed
  <2> QED BY <1>4, <2>1, <2>2 DEF IsEvents
<1>6. /\ h.phase = phase /\ h.started = m.tick
      /\ h.deadline = m.tick + Duration(phase) /\ h.settling = settling
      /\ SameClock(h, c) /\ SameCount(h, c) /\ SameEnd(h, c)
      /\ SameInput(h, c) /\ h.epoch = c.epoch /\ h.shot = c.shot
      /\ h.units = c.units /\ DOMAIN h = DOMAIN c
  BY <1>1, <1>2 DEF Typed, SameClock, SameCount, SameEnd, SameInput
<1>a. m.tick + Duration(phase) \in Nat /\ m.tick \in Nat
  BY <1>3 DEF Typed
<1>7. Typed(h)
  BY <1>1, <1>a, <1>5, <1>6 DEF Typed, SameClock, SameCount, SameEnd, SameInput
<1>8. /\ SameClock(h, m) /\ SameCount(h, m) /\ SameEnd(h, m)
      /\ NoInput(h) /\ h.epoch = m.epoch + 1 /\ h.shot = m.shot
  BY <1>1, <1>6 DEF SameClock, SameCount, SameEnd, SameInput, NoInput
<1>9. Halted(h, m, stopped)
  BY <1>1, <1>6 DEF Halted
<1> QED BY <1>1, <1>5, <1>6, <1>7, <1>8, <1>9 DEF stopped

\* Finish ends the match, with a winner and a reason.
LEMMA FinishIs ==
  ASSUME NEW m, Typed(m), m.phase # "finished", NEW winner \in Winner, NEW why \in Why,
         NEW h, h = Finish(m, winner, why)
  PROVE     /\ Typed(h) /\ Halted(h, m, Actor)
            /\ SameClock(h, m) /\ SameCount(h, m)
            /\ h.phase = "finished" /\ h.started = m.tick
            /\ h.deadline = m.tick /\ h.settling = None
            /\ NoInput(h) /\ h.epoch = m.epoch + 1 /\ ~h.shot
            /\ h.winner = winner /\ h.why = why
            /\ h.events.raw = m.events.raw
            /\ h.events.boundaries = Append(m.events.boundaries, "phase")
<1> DEFINE s == [m EXCEPT !.shot = FALSE]
           p == EnterPhase(s, "finished", None)
<1>1. /\ Typed(s) /\ s.units = m.units /\ s.events = m.events
      /\ SameClock(s, m) /\ SameCount(s, m) /\ s.shot = FALSE
      /\ s.epoch = m.epoch
  BY DEF Typed, SameClock, SameCount
<1> HIDE DEF s
<1>a. "finished" \in Phase /\ None \in Settling /\ "finished" # "settling"
  BY DEF Phase, Settling
<1>2. /\ Typed(p) /\ Halted(p, s, Actor)
      /\ SameClock(p, s) /\ SameCount(p, s) /\ SameEnd(p, s)
      /\ p.phase = "finished" /\ p.started = s.tick
      /\ p.deadline = s.tick + Duration("finished") /\ p.settling = None
      /\ NoInput(p) /\ p.epoch = s.epoch + 1 /\ p.shot = s.shot
      /\ p.events.raw = s.events.raw
      /\ p.events.boundaries = Append(s.events.boundaries, "phase")
  <2>1. /\ Typed(p) /\ Halted(p, s, Stops(s, "finished"))
        /\ SameClock(p, s) /\ SameCount(p, s) /\ SameEnd(p, s)
        /\ p.phase = "finished" /\ p.started = s.tick
        /\ p.deadline = s.tick + Duration("finished") /\ p.settling = None
        /\ NoInput(p) /\ p.epoch = s.epoch + 1 /\ p.shot = s.shot
        /\ p.events.raw = s.events.raw
        /\ p.events.boundaries = Append(s.events.boundaries, "phase")
    BY <1>1, <1>a, EnterPhaseIs
  <2>2. Stops(s, "finished") = Actor  BY <1>a DEF Stops
  <2> QED BY <2>1, <2>2
<1>3. h = [p EXCEPT !.winner = winner, !.why = why]
  BY DEF Finish, s
<1> HIDE DEF p
<1>4. /\ Typed(h) /\ SameClock(h, p) /\ SameCount(h, p) /\ SamePhase(h, p)
      /\ SameInput(h, p) /\ h.epoch = p.epoch /\ h.shot = p.shot
      /\ h.winner = winner /\ h.why = why /\ h.events = p.events
      /\ h.units = p.units
  BY Zenon, <1>2, <1>3 DEF Typed, SameClock, SameCount, SamePhase, SameInput
<1>5. Duration("finished") = 0  BY DEF Duration
<1>6. m.tick \in Nat  BY DEF Typed
<1>7. Halted(h, m, Actor)  BY <1>1, <1>2, <1>4 DEF Halted
<1> QED BY <1>1, <1>2, <1>4, <1>5, <1>6, <1>7
        DEF SameClock, SameCount, SamePhase, SameInput, NoInput

-----------------------------------------------------------------------------
(* A sound match, and a match in the middle of a step                        *)

\* The constants are natural numbers, the durations of phases positive ones.
LEMMA Positive ==
  /\ {ActionTicks, RetreatTicks, ProjectileTicks, SettlingTicks, MaxAirTicks,
      MaxTurns, LeaseTicks, RefreshTicks, MaxStitching, ShieldPoints,
      MaxIntents, MaxBarriers, ShotPrice, UtilityPrice, TurnCredit, MaxThread} \subseteq Nat
  /\ ActionTicks > 0 /\ RetreatTicks > 0 /\ ProjectileTicks > 0
  /\ SettlingTicks > 0 /\ MaxAirTicks > 0 /\ MaxTurns > 0 /\ LeaseTicks > 0
  /\ RefreshTicks > 0 /\ MaxStitching > 0 /\ ShieldPoints > 0
BY TurnAssumption

\* Every phase but the last takes time.
LEMMA Durations ==
  /\ \A p \in Phase : Duration(p) \in Nat
  /\ Duration("finished") = 0
  /\ \A p \in Phase \ {"finished"} : Duration(p) > 0
BY Positive DEF Duration, Phase

\* Entering a phase keeps what a step has established.
LEMMA Enters ==
  ASSUME NEW b, NEW m, Typed(b), Open(b, m), NEW phase \in {"action", "retreat", "settling"},
         NEW settling \in Settling, NEW h, h = EnterPhase(m, phase, settling),
         m.winner = None, m.why = None, ~m.shot, m.turn < MaxTurns,
         (phase = "settling") = (settling # None),
         phase = "action" => ~m.cast,
         phase = "retreat" => m.cast,
         settling \in {"post_shot", "retreat_timeout"} => m.cast,
         settling = "action_timeout" => ~m.cast,
         \A a \in Actor : m.units[a].alive /\ ~m.units[a].grounded
                            => m.units[a].air < MaxAirTicks,
         phase # "settling" => AllAlive(m) /\ ~Unsupported(m)
  PROVE  Between(b, h) /\ h.tick = m.tick /\ (h.phase # "finished" => h.tick < h.deadline)
<1>0. phase \in Phase /\ phase # "projectile" /\ phase # "finished"  BY DEF Phase
<1>1. /\ Typed(h)
      /\ Halted(h, m, Stops(m, phase))
      /\ SameClock(h, m) /\ SameCount(h, m) /\ SameEnd(h, m)
      /\ h.phase = phase /\ h.started = m.tick
      /\ h.deadline = m.tick + Duration(phase) /\ h.settling = settling
      /\ NoInput(h) /\ h.epoch = m.epoch + 1 /\ h.shot = m.shot
      /\ h.events.raw = m.events.raw
      /\ h.events.boundaries = Append(m.events.boundaries, "phase")
  BY <1>0, EnterPhaseIs DEF Open
<1>2. h.tick \in Nat /\ Duration(phase) \in Nat /\ Duration(phase) > 0
  BY <1>0, <1>1, Durations DEF Typed
<1>3. Paced(h) /\ h.tick < h.deadline
  <2>1. h.tick = m.tick /\ h.turn = m.turn  BY <1>1 DEF SameClock
  <2>2. h.turn \in Nat /\ MaxTurns \in Nat  BY <1>1, Positive DEF Typed
  <2>3. h.deadline = h.started + Duration(h.phase) /\ h.started = h.tick
    BY <1>1, <2>1
  <2> QED BY <1>0, <1>1, <1>2, <2>1, <2>2, <2>3 DEF Paced
<1>4. CastValid(h)
  <2>1. h.shot = FALSE /\ h.cast = m.cast  BY <1>1 DEF SameClock, Typed
  <2> QED BY <1>0, <1>1, <2>1 DEF CastValid, None
<1>5. \A a \in Actor : h.units[a].moving => m.units[a].moving /\ phase = "settling" /\ m.units[a].drive = "blast"
  BY <1>1 DEF Halted, Stops, Thrown
<1>6. InputValid(h)
  <2>1. h.intents <= MaxIntents /\ h.barriers <= MaxBarriers
    BY <1>1 DEF SameClock, SameCount, Open
  <2>2. \A a \in Actor : h.units[a].moving =>
           h.phase = "settling" /\ h.units[a].drive = "blast"
    BY <1>1, <1>5 DEF Halted, SameStand
  <2> QED BY <1>1, <2>1, <2>2 DEF InputValid, NoInput
<1>7. ResultValid(h)
  <2>1. h.winner = None /\ h.why = None  BY <1>1 DEF SameEnd
  <2> QED BY <1>0, <1>1, <2>1 DEF ResultValid, None
<1>8. Bodies(h)
  BY <1>1, <1>5 DEF Bodies, Still, Halted, SameStand, Open
<1>9. Placed(h)
  <2>1. ASSUME phase # "settling" PROVE AllAlive(h) /\ ~Unsupported(h)
    BY <1>1, <2>1 DEF AllAlive, Unsupported, Halted, SameStand
  <2>2. \A a \in Actor : h.units[a].alive /\ ~h.units[a].grounded
                            => h.units[a].air < MaxAirTicks
    BY <1>1 DEF Halted, SameStand
  <2>3. Moves(h) => \A a \in Actor : h.units[a].grounded /\ ~h.units[a].moving
    BY <1>1, <1>5, <2>1 DEF Moves, AllAlive, Unsupported
  <2> QED BY <1>0, <1>1, <2>1, <2>2, <2>3 DEF Placed
<1>10. From(b, h)
  <2>2. b.epoch \in Nat /\ m.epoch \in Nat  BY DEF Typed, Open
  <2>3. b.epoch <= m.epoch  BY DEF Open, From
  <2>1. b.epoch < h.epoch /\ b.epoch <= h.epoch  BY <1>1, <2>2, <2>3
  <2> QED BY <1>1, <2>1 DEF From, Open, Halted, SameStores, SameStand, Hurt
<1> QED BY <1>1, <1>3, <1>4, <1>6, <1>7, <1>8, <1>9, <1>10 DEF Between, SameClock

\* So does finishing, for a reason that fits the bodies and the turn.
LEMMA Finishes ==
  ASSUME NEW b, NEW m, Typed(b), Open(b, m),
         NEW winner \in Winner \ {None}, NEW why \in Why \ {None},
         why = "unravelled" => Decided(m) /\ winner = Survivor(m),
         why # "unravelled" => winner = "draw",
         why = "turn_limit" => m.turn = MaxTurns,
         NEW h, h = Finish(m, winner, why)
  PROVE  Between(b, h) /\ h.tick = m.tick /\ h.phase = "finished"
<1>0. Typed(m) /\ m.phase # "finished" /\ winner \in Winner /\ why \in Why
  BY DEF Open
<1>1. /\ Typed(h) /\ Halted(h, m, Actor)
      /\ SameClock(h, m) /\ SameCount(h, m)
      /\ h.phase = "finished" /\ h.started = m.tick
      /\ h.deadline = m.tick /\ h.settling = None
      /\ NoInput(h) /\ h.epoch = m.epoch + 1 /\ ~h.shot
      /\ h.winner = winner /\ h.why = why
      /\ h.events.raw = m.events.raw
      /\ h.events.boundaries = Append(m.events.boundaries, "phase")
  BY <1>0, FinishIs
<1>2. h.tick \in Nat  BY <1>1 DEF Typed
<1>3. Paced(h)
  BY <1>1, <1>2, Durations DEF Paced, SameClock, Open
<1>4. CastValid(h)
  <2>1. h.shot = FALSE  BY <1>1 DEF Typed
  <2> QED BY <1>1, <2>1 DEF CastValid, None
<1>5. \A a \in Actor : ~h.units[a].moving
  BY <1>1 DEF Halted
<1>6. InputValid(h)
  BY <1>1, <1>5 DEF InputValid, NoInput, SameClock, SameCount, Open, Moves
<1>7. ResultValid(h)
  <2>1. AllAlive(h) = AllAlive(m) /\ Unsupported(h) = Unsupported(m) /\ Survivor(h) = Survivor(m)
    BY <1>1 DEF AllAlive, Unsupported, Halted, SameStand, Survivor, Actor
  <2> QED BY <1>1, <2>1 DEF ResultValid, Decided, SameClock, Why, Winner
<1>8. Bodies(h)
  BY <1>1, <1>5 DEF Bodies, Still, Halted, SameStand, Open
<1>9. Placed(h)
  BY <1>1 DEF Placed
<1>10. From(b, h)
  <2>2. b.epoch \in Nat /\ m.epoch \in Nat  BY DEF Typed, Open
  <2>3. b.epoch <= m.epoch  BY DEF Open, From
  <2>1. b.epoch < h.epoch /\ b.epoch <= h.epoch  BY <1>1, <2>2, <2>3
  <2> QED BY <1>1, <2>1 DEF From, Open, Halted, SameStores, SameStand, Hurt
<1> QED BY <1>1, <1>3, <1>4, <1>6, <1>7, <1>8, <1>9, <1>10 DEF Between, SameClock

-----------------------------------------------------------------------------
(* Motion                                                                    *)

\* The updates of a body that the kernel makes keep it a body.
LEMMA BodyExcept ==
  ASSUME NEW u, IsBody(u)
  PROVE  /\ \A x \in BOOLEAN : IsBody([u EXCEPT !.moving = x])
         /\ IsBody([u EXCEPT !.air = @ + 1])
         /\ IsBody([u EXCEPT !.grounded = TRUE, !.moving = FALSE, !.drive = None, !.air = 0])
         /\ IsBody([u EXCEPT !.grounded = FALSE, !.drive = "walk_fall", !.air = 0])
         /\ IsBody([u EXCEPT !.stitching = 0, !.alive = FALSE, !.grounded = FALSE,
                       !.moving = FALSE, !.drive = None, !.air = 0])
<1>1. IsRecord(u)  BY DEF IsBody
<1>2. \A x \in BOOLEAN : IsBody([u EXCEPT !.moving = x])
  <2> TAKE x \in BOOLEAN
  <2>1. IsRecord([u EXCEPT !.moving = x])  BY <1>1, ExceptRecord
  <2> QED BY <2>1 DEF IsBody
<1>3. IsBody([u EXCEPT !.air = @ + 1])
  <2>1. IsRecord([u EXCEPT !.air = @ + 1])  BY <1>1 DEF IsRecord
  <2> QED BY <2>1 DEF IsBody
<1>4. IsBody([u EXCEPT !.grounded = TRUE, !.moving = FALSE, !.drive = None, !.air = 0])
  <2>1. IsRecord([u EXCEPT !.grounded = TRUE, !.moving = FALSE, !.drive = None, !.air = 0])
    BY <1>1 DEF IsRecord
  <2> QED BY <2>1 DEF IsBody, Drive
<1>5. IsBody([u EXCEPT !.grounded = FALSE, !.drive = "walk_fall", !.air = 0])
  <2>1. IsRecord([u EXCEPT !.grounded = FALSE, !.drive = "walk_fall", !.air = 0])
    BY <1>1 DEF IsRecord
  <2> QED BY <2>1 DEF IsBody, Drive
<1>6. IsBody([u EXCEPT !.stitching = 0, !.alive = FALSE, !.grounded = FALSE,
                       !.moving = FALSE, !.drive = None, !.air = 0])
  <2>1. IsRecord([u EXCEPT !.stitching = 0, !.alive = FALSE, !.grounded = FALSE,
                       !.moving = FALSE, !.drive = None, !.air = 0])
    BY Zenon, <1>1 DEF IsRecord
  <2> QED BY <2>1 DEF IsBody, Drive
<1> QED BY <1>2, <1>3, <1>4, <1>5, <1>6

\* A tick of falling ends on the ground, goes on, or ends in the pit.
LEMMA FallIs ==
  ASSUME NEW w, NEW u, IsBody(u), ~u.grounded, NEW v, v = Fall(w, u)
  PROVE  /\ IsBody(v) /\ SameLife(v, u)
         /\ \/ v.grounded /\ ~v.moving /\ v.drive = None /\ v.air = 0
            \/ ~v.grounded /\ v.moving = u.moving /\ v.drive = u.drive /\ v.air = u.air + 1
<1> DEFINE x == [u EXCEPT !.air = @ + 1]
           y == [x EXCEPT !.grounded = TRUE, !.moving = FALSE, !.drive = None, !.air = 0]
<1>1. IsBody(x) /\ IsBody(y)  BY Zenon, BodyExcept
<1>2. v = x \/ v = y  BY DEF Fall
<1>3. SameLife(x, u) /\ ~x.grounded /\ x.moving = u.moving /\ x.drive = u.drive /\ x.air = u.air + 1
  BY DEF SameLife, SameStores, IsBody
<1>4. SameLife(y, u) /\ y.grounded /\ ~y.moving /\ y.drive = None /\ y.air = 0
  BY DEF SameLife, SameStores, IsBody
<1> HIDE DEF x, y
<1> QED BY <1>1, <1>2, <1>3, <1>4

\* A lease that has run out is taken back; what is left of the input is valid.
LEMMA ExpireIs ==
  ASSUME NEW b, Sound(b), b.phase # "finished",
         NEW h, h = ExpireLease([b EXCEPT !.events = Quiet])
  PROVE  /\ Typed(h) /\ SameClock(h, b) /\ SameCount(h, b) /\ SamePhase(h, b)
         /\ SameEnd(h, b) /\ h.shot = b.shot
         /\ InputValid(h)
         /\ \A a \in Actor : /\ SameStores(h.units[a], b.units[a])
                             /\ SameStand(h.units[a], b.units[a])
                             /\ h.units[a].moving => b.units[a].moving
                             /\ h.events.raw[a] = 0
         /\ b.epoch <= h.epoch
         /\ h.events.boundaries # <<>> => b.epoch < h.epoch
<1> DEFINE m == [b EXCEPT !.events = Quiet]
<1>0. Typed(b) /\ InputValid(b)  BY DEF Sound
<1>a. IsEvents(Quiet) /\ Quiet.boundaries = <<>> /\ \A a \in Actor : Quiet.raw[a] = 0
  BY DEF IsEvents, Quiet, Actor, Mark
<1>1. /\ Typed(m) /\ SameClock(m, b) /\ SameCount(m, b) /\ SamePhase(m, b)
      /\ SameInput(m, b) /\ SameEnd(m, b) /\ m.shot = b.shot /\ m.epoch = b.epoch
      /\ m.units = b.units /\ m.events = Quiet
  BY <1>0, <1>a DEF Typed, SameClock, SameCount, SamePhase, SameInput, SameEnd
<1>2. b.epoch \in Nat /\ \A a \in Actor : b.units[a].moving \in BOOLEAN
  BY <1>0 DEF Typed, IsBody
<1>3. CASE h = m
  <2>1. InputValid(h)
    BY Zenon, <1>0, <1>1, <1>3 DEF InputValid, SameClock, SameCount, SamePhase, SameInput, Steady, Moves
  <2>2. \A a \in Actor : /\ SameStores(h.units[a], b.units[a])
                         /\ SameStand(h.units[a], b.units[a])
                         /\ h.units[a].moving => b.units[a].moving
                         /\ h.events.raw[a] = 0
    BY <1>1, <1>2, <1>3, <1>a DEF SameStores, SameStand
  <2> HIDE DEF m
  <2>3. h.events.boundaries = <<>> /\ h.epoch = b.epoch  BY <1>1, <1>3, <1>a
  <2>4. b.epoch <= h.epoch  BY <1>2, <2>3
  <2>5. /\ Typed(h) /\ SameClock(h, b) /\ SameCount(h, b) /\ SamePhase(h, b)
        /\ SameEnd(h, b) /\ h.shot = b.shot
    BY <1>1, <1>3
  <2> QED BY <2>1, <2>2, <2>3, <2>4, <2>5
<1>4. CASE h # m
  <2> DEFINE S == IF Jumping(m) THEN {} ELSE {m.actor}
             c == ClearInput(m, S)
  <2>1. h = [c EXCEPT !.events.boundaries = Append(@, "lease_expired")]
    BY <1>4 DEF ExpireLease
  <2> HIDE DEF m, S
  <2>2. /\ Typed(c) /\ Halted(c, m, S)
        /\ SameClock(c, m) /\ SameCount(c, m) /\ SamePhase(c, m)
        /\ NoInput(c) /\ SameEnd(c, m)
        /\ c.epoch = m.epoch + 1 /\ c.shot = m.shot /\ c.events = m.events
    BY <1>1, ClearInputIs
  <2> HIDE DEF c
  <2>3. /\ DOMAIN h = DOMAIN c /\ SameClock(h, c) /\ SameCount(h, c) /\ SamePhase(h, c)
        /\ SameInput(h, c) /\ SameEnd(h, c) /\ h.epoch = c.epoch /\ h.shot = c.shot
        /\ h.units = c.units
        /\ h.events = [c.events EXCEPT !.boundaries = Append(@, "lease_expired")]
    BY <2>1, <2>2 DEF Typed, SameClock, SameCount, SamePhase, SameInput, SameEnd
  <2>4. IsEvents(h.events) /\ h.events.raw = Quiet.raw
    <3>1. IsEvents(c.events)  BY <2>2 DEF Typed
    <3>2. Append(c.events.boundaries, "lease_expired") \in Seq(Mark)
      BY <3>1, AppendProperties DEF IsEvents, Mark
    <3> QED BY <1>1, <2>2, <2>3, <3>1, <3>2 DEF IsEvents
  <2>5. Typed(h)
    BY <2>2, <2>3, <2>4 DEF Typed, SameClock, SameCount, SamePhase, SameInput, SameEnd
  <2>6. SameClock(h, b) /\ SameCount(h, b) /\ SamePhase(h, b) /\ SameEnd(h, b) /\ h.shot = b.shot
        /\ NoInput(h) /\ h.epoch = b.epoch + 1
    BY <1>1, <2>2, <2>3 DEF SameClock, SameCount, SamePhase, SameInput, SameEnd, NoInput
  <2>7. \A a \in Actor : /\ SameStores(h.units[a], b.units[a])
                         /\ SameStand(h.units[a], b.units[a])
                         /\ h.units[a].moving => b.units[a].moving
    BY <1>1, <1>2, <2>2, <2>3 DEF Halted
  <2>8. InputValid(h)
    BY <1>0, <2>6, <2>7 DEF InputValid, SameClock, SameCount, SamePhase, NoInput, Moves, SameStand
  <2>9. b.epoch <= h.epoch /\ b.epoch < h.epoch  BY <1>2, <2>6
  <2> QED BY <1>a, <2>4, <2>5, <2>6, <2>7, <2>8, <2>9
<1> QED BY <1>3, <1>4

\* What the horizontal drive of one body is made of.
LEMMA DrivenIs ==
  ASSUME NEW m, Typed(m), NEW a \in Actor
  PROVE  /\ Driven(m, a) \in BOOLEAN
         /\ m.units[a].drive = "blast" => Driven(m, a) = m.units[a].moving
         /\ m.units[a].drive # "blast" /\ (~Moves(m) \/ a # m.actor) => ~Driven(m, a)
         /\ m.units[a].drive # "blast" /\ m.units[a].grounded /\ m.held = 0 => ~Driven(m, a)
<1>1. IsBody(m.units[a])  BY DEF Typed
<1>2. m.units[a].moving \in BOOLEAN  BY <1>1 DEF IsBody
<1> QED BY <1>2 DEF Driven

\* One tick of motion of one body.
LEMMA IntegrateBody ==
  ASSUME NEW m, Typed(m), NEW w, NEW a \in Actor, Still(m.units[a]),
         m.units[a].alive /\ ~m.units[a].grounded => m.units[a].air < MaxAirTicks,
         NEW h, h = Integrate(w, m), NEW u, u = m.units[a], NEW v, v = h.units[a]
  PROVE  /\ IsBody(v) /\ SameLife(v, u) /\ Still(v)
         /\ v.moving => u.alive /\ Driven(m, a)
         /\ ~u.grounded /\ ~v.grounded => v.drive = u.drive
         /\ ~u.grounded /\ v.grounded => ~v.moving
         /\ ~Driven(m, a) /\ u.grounded => v.grounded
<1>0. IsBody(u) /\ Still(u)  BY DEF Typed
<1>1. Driven(m, a) \in BOOLEAN  BY DrivenIs
<1> DEFINE x == [u EXCEPT !.moving = Driven(m, a)]
           y == [x EXCEPT !.moving = FALSE]
           z == [x EXCEPT !.grounded = FALSE, !.drive = "walk_fall", !.air = 0]
<1>2. IsBody(x) /\ IsBody(y) /\ IsBody(z)
  <2>1. IsBody(x)  BY Zenon, <1>0, <1>1, BodyExcept
  <2> HIDE DEF x
  <2> QED BY Zenon, <2>1, BodyExcept
<1>3. \/ v = u /\ ~u.alive
      \/ v = Fall(w, x) /\ u.alive /\ ~u.grounded
      \/ v = x /\ u.alive /\ u.grounded
      \/ v = y /\ u.alive /\ u.grounded
      \/ v = Fall(w, z) /\ u.alive /\ u.grounded /\ Driven(m, a)
  <2>1. v = IF ~u.alive THEN u
           ELSE IF ~u.grounded THEN Fall(w, x)
           ELSE IF ~(u.grounded /\ Driven(m, a)) THEN x
           ELSE IF w.walk[a] = "wall" THEN y
           ELSE IF w.walk[a] = "ledge"
                THEN Fall(w, [x EXCEPT !.grounded = FALSE,
                                       !.drive = "walk_fall", !.air = 0])
                ELSE x
    BY DEF Integrate, Typed
  <2> HIDE DEF x, y
  <2> QED BY <2>1
<1>4. /\ SameLife(x, u) /\ x.moving = Driven(m, a) /\ x.grounded = u.grounded /\ x.drive = u.drive /\ x.air = u.air
      /\ SameLife(y, u) /\ ~y.moving /\ y.grounded = u.grounded /\ y.drive = u.drive /\ y.air = u.air
      /\ SameLife(z, u) /\ z.moving = Driven(m, a) /\ ~z.grounded /\ z.drive = "walk_fall" /\ z.air = 0
  BY <1>0 DEF SameLife, SameStores, IsBody
<1>5. MaxAirTicks \in Nat /\ MaxAirTicks > 0 /\ u.air \in Nat  BY <1>0, Positive DEF IsBody
<1> HIDE DEF x, y, z
<1>6. CASE v = u /\ ~u.alive
  BY <1>0, <1>6 DEF SameLife, SameStores, Still
<1>7. CASE v = Fall(w, x) /\ u.alive /\ ~u.grounded
  <2>1. /\ IsBody(v) /\ SameLife(v, x)
        /\ \/ v.grounded /\ ~v.moving /\ v.drive = None /\ v.air = 0
           \/ ~v.grounded /\ v.moving = x.moving /\ v.drive = x.drive /\ v.air = x.air + 1
    BY <1>2, <1>4, <1>7, FallIs
  <2>2. v.air <= MaxAirTicks  BY <1>4, <1>5, <1>7, <2>1
  <2>3. SameLife(v, u)  BY <1>4, <2>1 DEF SameLife, SameStores
  <2>4. v.alive  BY <1>7, <2>3 DEF SameLife
  <2> QED BY <1>4, <1>7, <2>1, <2>2, <2>3, <2>4 DEF Still
<1>8. CASE (v = x \/ v = y) /\ u.alive /\ u.grounded
  BY <1>0, <1>2, <1>4, <1>5, <1>8 DEF Still, SameLife
<1>9. CASE v = Fall(w, z) /\ u.alive /\ u.grounded /\ Driven(m, a)
  <2>0. IsBody(z) /\ ~z.grounded /\ v = Fall(w, z)  BY <1>2, <1>4, <1>9
  <2>1. /\ IsBody(v) /\ SameLife(v, z)
        /\ \/ v.grounded /\ ~v.moving /\ v.drive = None /\ v.air = 0
           \/ ~v.grounded /\ v.moving = z.moving /\ v.drive = z.drive /\ v.air = z.air + 1
    BY <2>0, FallIs
  <2>2. v.air <= MaxAirTicks  BY <1>4, <1>5, <2>1
  <2>3. SameLife(v, u)  BY <1>4, <2>1 DEF SameLife, SameStores
  <2>4. v.alive  BY <1>9, <2>3 DEF SameLife
  <2> QED BY <1>4, <1>9, <2>1, <2>2, <2>3, <2>4 DEF Still
<1> QED BY <1>3, <1>6, <1>7, <1>8, <1>9

\* One tick of motion leaves bodies that stand, or fall within their time.
LEMMA IntegrateIs ==
  ASSUME NEW m, Typed(m), NEW w, Bodies(m), Aloft(m), Strays(m), InputValid(m),
         m.phase # "projectile", m.phase # "finished",
         NEW h, h = Integrate(w, m)
  PROVE  /\ Typed(h) /\ SameClock(h, m) /\ SameCount(h, m) /\ SamePhase(h, m)
         /\ SameEnd(h, m) /\ h.shot = m.shot /\ h.epoch = m.epoch /\ h.events = m.events
         /\ InputValid(h) /\ Bodies(h) /\ Strays(h)
         /\ \A a \in Actor : /\ SameLife(h.units[a], m.units[a])
                             /\ ~m.units[a].grounded /\ ~h.units[a].grounded
                                  => h.units[a].drive = m.units[a].drive
<1>1. \A a \in Actor :
         /\ IsBody(h.units[a]) /\ SameLife(h.units[a], m.units[a]) /\ Still(h.units[a])
         /\ h.units[a].moving => m.units[a].alive /\ Driven(m, a)
         /\ ~m.units[a].grounded /\ ~h.units[a].grounded => h.units[a].drive = m.units[a].drive
         /\ ~m.units[a].grounded /\ h.units[a].grounded => ~h.units[a].moving
         /\ ~Driven(m, a) /\ m.units[a].grounded => h.units[a].grounded
  BY IntegrateBody DEF Bodies, Aloft
<1>2. \A a \in Actor : IsBody(m.units[a]) /\ Still(m.units[a])  BY DEF Bodies, Typed
<1> DEFINE shifted == \E a \in Actor : /\ m.units[a].alive /\ Driven(m, a)
                                  /\ ~(m.units[a].grounded /\ Driven(m, a) /\ w.walk[a] = "wall")
<1>3. /\ DOMAIN h = DOMAIN m /\ SameClock(h, m) /\ SameCount(h, m) /\ SamePhase(h, m)
      /\ SameEnd(h, m) /\ h.shot = m.shot /\ h.epoch = m.epoch /\ h.events = m.events
      /\ h.held = m.held /\ h.lease = m.lease /\ h.refreshed = m.refreshed
      /\ h.aim = (m.aim /\ ~shifted) /\ DOMAIN h.units = Actor
  BY DEF Integrate, Typed, SameClock, SameCount, SamePhase, SameEnd
<1>4. h.aim \in BOOLEAN /\ (h.aim => m.aim)  BY <1>3
<1> HIDE DEF shifted
<1>5. Typed(h)
  BY <1>1, <1>3, <1>4 DEF Typed, SameClock, SameCount, SamePhase, SameEnd
<1>6. Bodies(h)  BY <1>1 DEF Bodies
<1>7. Moves(h) = Moves(m)  BY <1>3 DEF Moves, SamePhase
<1>8. Strays(h)
  <2> SUFFICES ASSUME Moves(m), NEW a \in Actor \ {m.actor}
               PROVE h.units[a].grounded /\ ~h.units[a].moving
    BY <1>3, <1>7 DEF Strays, SameClock
  <2>1. m.units[a].grounded  BY DEF Strays
  <2>2. m.units[a].drive # "blast"  BY <1>2, <2>1 DEF Still, None
  <2>3. ~Driven(m, a)  BY <2>2, DrivenIs
  <2> QED BY <1>1, <2>1, <2>3
<1>9. InputValid(h)
  <2>1. ASSUME m.aim PROVE Steady(h)
    <3>1. Steady(m) /\ m.held = 0  BY <2>1 DEF InputValid
    <3>2. \A a \in Actor : ~Driven(m, a)
      BY <1>2, <3>1, DrivenIs DEF Steady, Still, None
    <3> QED BY <1>1, <3>1, <3>2 DEF Steady, SameLife
  <2>2. ASSUME ~Moves(m), NEW a \in Actor, h.units[a].moving
        PROVE h.phase = "settling" /\ h.units[a].drive = "blast"
    <3>1. m.phase = "settling"  BY <2>2 DEF Moves, Typed, Phase
    <3>2. m.units[a].drive = "blast"  BY <1>1, <2>2, DrivenIs
    <3>3. ~m.units[a].grounded  BY <1>2, <3>2 DEF Still, None
    <3>4. h.units[a].drive = m.units[a].drive  BY <1>1, <2>2, <3>3
    <3> QED BY <1>3, <3>1, <3>2, <3>4 DEF SamePhase
  <2>3. h.phase = m.phase /\ h.tick = m.tick /\ h.aimId = m.aimId
        /\ h.intents = m.intents /\ h.barriers = m.barriers
    BY <1>3 DEF SameClock, SameCount, SamePhase
  <2> QED BY <1>3, <1>4, <1>7, <2>1, <2>2, <2>3 DEF InputValid
<1> QED BY <1>1, <1>3, <1>5, <1>6, <1>8, <1>9

\* There are two actors.
LEMMA OtherActor == \A a \in Actor : Other(a) \in Actor /\ Other(a) # a
<1> SUFFICES ASSUME NEW a \in Actor PROVE Other(a) \in Actor /\ Other(a) # a
  OBVIOUS
<1>1. \E b \in Actor : b # a  BY DEF Actor
<1> QED BY <1>1 DEF Other

-----------------------------------------------------------------------------
(* Deaths, handover and deadlines                                            *)

\* A match in which nothing has ended may enter a phase.
LEMMA GoingOpen ==
  ASSUME NEW b, NEW m, Going(b, m)
  PROVE  Open(b, m) /\ m.winner = None /\ m.why = None
<1>1. m.turn \in Nat /\ MaxTurns \in Nat  BY Positive DEF Going, Typed
<1> QED BY <1>1 DEF Going, Open, InputValid, ResultValid, None

\* Removing the fallen changes who lives, and nothing else.
LEMMA RemoveIs ==
  ASSUME NEW w, NEW m, Typed(m), NEW h, h = RemoveBelowWorld(w, m)
  PROVE  /\ Typed(h) /\ SameClock(h, m) /\ SameCount(h, m) /\ SamePhase(h, m)
         /\ SameInput(h, m) /\ SameEnd(h, m) /\ h.shot = m.shot
         /\ h.epoch = m.epoch /\ h.events = m.events
         /\ \A a \in Actor :
              /\ SameStores(h.units[a], m.units[a])
              /\ \/ h.units[a] = m.units[a] /\ m.units[a].alive
                 \/ /\ ~h.units[a].alive /\ ~h.units[a].grounded /\ ~h.units[a].moving
                    /\ h.units[a].drive = None /\ h.units[a].air = 0
                    /\ \/ ~m.units[a].alive
                       \/ /\ ~m.units[a].grounded
                          /\ m.units[a].air >= w.fall[m.units[a].drive].ticks
<1> DEFINE gone(u) == \/ ~u.alive
                      \/ Fallen(w, u) /\ w.fall[u.drive].into = "pit"
<1>1. ASSUME NEW a \in Actor
      PROVE  /\ IsBody(h.units[a]) /\ SameStores(h.units[a], m.units[a])
             /\ \/ h.units[a] = m.units[a] /\ m.units[a].alive
                \/ /\ ~h.units[a].alive /\ ~h.units[a].grounded /\ ~h.units[a].moving
                   /\ h.units[a].drive = None /\ h.units[a].air = 0
                   /\ \/ ~m.units[a].alive
                      \/ /\ ~m.units[a].grounded
                         /\ m.units[a].air >= w.fall[m.units[a].drive].ticks
  <2> DEFINE u == m.units[a]
             x == [u EXCEPT !.stitching = 0, !.alive = FALSE, !.grounded = FALSE,
                       !.moving = FALSE, !.drive = None, !.air = 0]
  <2>1. IsBody(u)  BY DEF Typed
  <2>2. h.units[a] = IF gone(u) THEN x ELSE u
    BY Zenon DEF RemoveBelowWorld, Buried, Typed
  <2>3. IsBody(x)  BY Zenon, <2>1, BodyExcept
  <2>4. SameStores(x, u) /\ ~x.alive /\ ~x.grounded /\ ~x.moving /\ x.drive = None /\ x.air = 0
    BY <2>1 DEF SameStores, IsBody
  <2>5. gone(u) => ~u.alive \/ (~u.grounded /\ u.air >= w.fall[u.drive].ticks)
    BY DEF Fallen
  <2>6. ~gone(u) => u.alive
    <3> HIDE DEF u
    <3> QED BY <2>1, Zenon
  <2>7. SameStores(u, u)  BY DEF SameStores
  <2> HIDE DEF x, u, gone
  <2>8. CASE gone(u)
    <3>1. h.units[a] = x  BY <2>2, <2>8
    <3> QED BY <2>3, <2>4, <2>5, <2>8, <3>1 DEF u
  <2>9. CASE ~gone(u)
    <3>1. h.units[a] = u  BY <2>2, <2>9
    <3> QED BY <2>1, <2>6, <2>7, <2>9, <3>1 DEF u
  <2> QED BY <2>8, <2>9
<1>2. /\ DOMAIN h = DOMAIN m /\ SameClock(h, m) /\ SameCount(h, m) /\ SamePhase(h, m)
      /\ SameInput(h, m) /\ SameEnd(h, m) /\ h.shot = m.shot
      /\ h.epoch = m.epoch /\ h.events = m.events /\ DOMAIN h.units = Actor
  BY DEF RemoveBelowWorld, Typed, SameClock, SameCount, SamePhase, SameInput, SameEnd
<1>3. Typed(h)
  BY <1>1, <1>2 DEF Typed, SameClock, SameCount, SamePhase, SameInput, SameEnd
<1> QED BY <1>1, <1>2, <1>3

\* It ends nothing yet.
LEMMA RemoveGoing ==
  ASSUME NEW w, NEW b, NEW m, Going(b, m), \A a \in Actor : m.events.raw[a] = 0,
         NEW h, h = RemoveBelowWorld(w, m)
  PROVE  /\ Going(b, h) /\ h.tick = m.tick /\ h.phase = m.phase
         /\ h.settling = m.settling /\ h.cast = m.cast
<1>1. /\ Typed(h) /\ SameClock(h, m) /\ SameCount(h, m) /\ SamePhase(h, m)
      /\ SameInput(h, m) /\ SameEnd(h, m) /\ h.shot = m.shot
      /\ h.epoch = m.epoch /\ h.events = m.events
  BY RemoveIs DEF Going
<1>2. \A a \in Actor :
        /\ SameStores(h.units[a], m.units[a])
        /\ \/ h.units[a] = m.units[a] /\ m.units[a].alive
           \/ /\ ~h.units[a].alive /\ ~h.units[a].grounded /\ ~h.units[a].moving
              /\ h.units[a].drive = None /\ h.units[a].air = 0
              /\ ~m.units[a].alive \/ ~m.units[a].grounded
  BY RemoveIs DEF Going
<1>3. Bodies(h)
  <2>1. MaxAirTicks \in Nat  BY Positive
  <2>2. Bodies(m)  BY DEF Going
  <2> QED BY <1>2, <2>1, <2>2 DEF Bodies, Still
<1>4. Moves(h) = Moves(m) /\ h.actor = m.actor  BY <1>1 DEF Moves, SamePhase, SameClock
<1>5. Strays(h)
  <2> SUFFICES ASSUME Moves(m), NEW a \in Actor \ {m.actor}
               PROVE h.units[a].grounded /\ ~h.units[a].moving
    BY <1>4 DEF Strays
  <2>1. m.units[a].grounded /\ ~m.units[a].moving  BY DEF Strays, Going
  <2>2. m.units[a].alive  BY <2>1 DEF Going, Bodies, Still
  <2> QED BY <1>2, <2>1, <2>2
<1>6. InputValid(h)
  <2>1. InputValid(m)  BY DEF Going
  <2>2. Steady(m) => Steady(h)  BY <1>2 DEF Steady
  <2>3. \A a \in Actor : h.units[a].moving => m.units[a].moving /\ h.units[a].drive = m.units[a].drive
    BY <1>2
  <2> QED BY <1>1, <1>4, <2>1, <2>2, <2>3 DEF InputValid, SameClock, SameCount, SamePhase, SameInput
<1>7. From(b, h)
  <2>1. From(b, m)  BY DEF Going
  <2>2. \A a \in Actor : Hurt(b.units[a], h.units[a], h.events.raw[a])
    BY <1>1, <1>2, <2>1 DEF Hurt, From
  <2>3. \A a \in Actor :
       /\ h.units[a].thread <= MaxThread
       /\ h.units[a].credited \in Never .. MaxTurns
    BY <1>2, <2>1 DEF From, SameStores
  <2>4. \A a \in Actor :
       b.units[a].leap /\ h.units[a].alive /\ ~h.units[a].grounded
            => h.units[a].drive = "jump"
    BY <1>2, <2>1 DEF From
  <2> QED BY <1>1, <2>1, <2>2, <2>3, <2>4 DEF From
<1>8. CastValid(h)  BY <1>1 DEF Going, CastValid, SameClock, SamePhase
<1>9. ResultValid(h)
  BY <1>1, GoingOpen DEF Going, ResultValid, SameEnd, SamePhase, None
<1> QED BY <1>1, <1>3, <1>5, <1>6, <1>7, <1>8, <1>9 DEF Going, SameClock, SamePhase

\* The turn passes to a living body on the ground, or the match ends.
LEMMA HandoverIs ==
  ASSUME NEW b, NEW m, Typed(b), Open(b, m), m.winner = None, m.why = None,
         ~m.shot, m.turn < MaxTurns, Aloft(m), ~Unsupported(m),
         NEW h, h = Handover(m)
  PROVE  Between(b, h) /\ h.tick = m.tick /\ (h.phase # "finished" => h.tick < h.deadline)
<1> DEFINE n == [m EXCEPT !.turn = @ + 1]
           k == [n EXCEPT !.actor = Other(@), !.cast = FALSE, !.intents = 0]
<1>0. Typed(m) /\ m.turn \in Nat /\ MaxTurns \in Nat /\ MaxIntents \in Nat
  BY Positive DEF Open, Typed
<1>1. CASE Decided(m)
  <2>1. h = Finish(m, Survivor(m), "unravelled")  BY <1>1 DEF Handover
  <2>2. Survivor(m) \in Winner \ {None} /\ "unravelled" \in Why \ {None}
    BY DEF Survivor, Winner, Why, None
  <2> QED BY <1>1, <2>1, <2>2, Finishes
<1>2. CASE ~Decided(m) /\ n.turn >= MaxTurns
  <2>1. h = Finish(n, "draw", "turn_limit")  BY <1>2 DEF Handover
  <2>2. "draw" \in Winner \ {None} /\ "turn_limit" \in Why \ {None} /\ "turn_limit" # "unravelled"
    BY DEF Winner, Why, None
  <2>3. n.turn = MaxTurns  BY <1>0, <1>2 DEF Typed
  <2>4. Typed(n) /\ n.units = m.units /\ n.events = m.events /\ n.epoch = m.epoch /\ n.tick = m.tick
        /\ n.phase = m.phase /\ n.intents = m.intents /\ n.barriers = m.barriers
    BY <1>0 DEF Typed
  <2>5. Open(b, n)
    <3>1. From(b, n) /\ Bodies(n)  BY <2>4 DEF Open, From, Bodies
    <3> QED BY <1>0, <2>3, <2>4, <3>1 DEF Open
  <2> HIDE DEF n
  <2> QED BY <2>1, <2>2, <2>3, <2>4, <2>5, Finishes
<1>3. CASE ~Decided(m) /\ ~(n.turn >= MaxTurns)
  <2>1. h = EnterPhase(k, "action", None)  BY <1>3 DEF Handover
  <2>2. Typed(k) /\ k.units = m.units /\ k.events = m.events /\ k.epoch = m.epoch /\ k.tick = m.tick
        /\ k.phase = m.phase /\ k.intents = 0 /\ k.barriers = m.barriers
        /\ k.turn = m.turn + 1 /\ k.winner = m.winner /\ k.why = m.why /\ k.shot = m.shot
        /\ ~k.cast
    BY <1>0, OtherActor DEF Typed
  <2>3. k.turn < MaxTurns
    <3>1. n.turn = m.turn + 1  BY <1>0 DEF Typed
    <3> QED BY <1>0, <1>3, <2>2, <3>1
  <2>5. Open(b, k)
    <3>1. From(b, k) /\ Bodies(k)  BY <2>2 DEF Open, From, Bodies
    <3> QED BY <1>0, <2>2, <2>3, <3>1 DEF Open
  <2>6. AllAlive(k) /\ ~Unsupported(k)  BY <1>3, <2>2 DEF Decided, AllAlive, Unsupported
  <2>7. \A a \in Actor : k.units[a].alive /\ ~k.units[a].grounded => k.units[a].air < MaxAirTicks
    BY <2>2 DEF Aloft
  <2>8. None \in Settling /\ None \notin {"post_shot", "retreat_timeout"} /\ None # "action_timeout"
        /\ "action" \in {"action", "retreat", "settling"} /\ "action" # "settling" /\ "action" # "retreat"
    BY DEF Settling, None
  <2> HIDE DEF k
  <2> QED BY <2>1, <2>2, <2>3, <2>5, <2>6, <2>7, <2>8, Enters
<1> QED BY <1>1, <1>2, <1>3

\* Phases and reasons for settling have different names.
LEMMA Names ==
  /\ None \in Settling /\ None \notin {"post_shot", "retreat_timeout", "death", "action_timeout"}
  /\ {"death", "action_timeout", "retreat_timeout", "post_shot"} \subseteq Settling \ {None}
  /\ {"action", "retreat", "settling"} \subseteq Phase \ {"finished", "projectile"}
  /\ "draw" \in Winner \ {None}
  /\ {"simulation_limit", "turn_limit", "unravelled"} \subseteq Why \ {None}
  /\ \A m : Survivor(m) \in Winner \ {None}
BY DEF Settling, None, Phase, Winner, Why, Survivor

\* After deaths and landings the match is in a phase that fits its bodies.
LEMMA BoundariesIs ==
  ASSUME NEW w, NEW b, NEW m, Typed(b), Going(b, m), \A a \in Actor : m.events.raw[a] = 0,
         m.phase # "projectile", NEW h, h = BodyBoundaries(w, m)
  PROVE  /\ Between(b, h) /\ h.tick = m.tick
         /\ h.phase = "projectile" => h.tick < h.deadline
<1> DEFINE r == RemoveBelowWorld(w, m)
<1>1. Going(b, r) /\ r.tick = m.tick /\ r.phase = m.phase
      /\ r.settling = m.settling /\ r.cast = m.cast
  BY RemoveGoing
<1>2. h = IF Decided(r) THEN Finish(r, Survivor(r), "unravelled")
     ELSE IF \E a \in Actor : /\ r.units[a].alive /\ ~r.units[a].grounded
                              /\ r.units[a].air >= MaxAirTicks
          THEN Finish(r, "draw", "simulation_limit")
     ELSE IF r.phase = "settling"
          THEN IF Unsupported(r) THEN r
               ELSE IF r.settling = "post_shot"
                    THEN EnterPhase(r, "retreat", None)
                    ELSE Handover(r)
     ELSE IF ~AllAlive(r) THEN EnterPhase(r, "settling", "death") ELSE r
  BY DEF BodyBoundaries
<1> HIDE DEF r
<1>3. Open(b, r) /\ r.winner = None /\ r.why = None  BY <1>1, GoingOpen
<1>4. r.shot \in BOOLEAN /\ MaxAirTicks \in Nat /\ \A a \in Actor : r.units[a].air \in Nat
  BY <1>1, Positive DEF Going, Typed, IsBody
<1>5. ~r.shot /\ r.turn < MaxTurns  BY <1>1, <1>4 DEF Going, CastValid
<1>6. CASE Decided(r)
  <2>1. h = Finish(r, Survivor(r), "unravelled")  BY <1>2, <1>6
  <2> QED BY <1>1, <1>3, <1>6, <2>1, Names, Finishes
<1>7. CASE ~Decided(r) /\ \E a \in Actor : /\ r.units[a].alive /\ ~r.units[a].grounded
                                           /\ r.units[a].air >= MaxAirTicks
  <2>1. h = Finish(r, "draw", "simulation_limit")  BY <1>2, <1>7
  <2> QED BY <1>1, <1>3, <2>1, Names, Finishes
<1>8. CASE ~Decided(r) /\ ~\E a \in Actor : /\ r.units[a].alive /\ ~r.units[a].grounded
                                            /\ r.units[a].air >= MaxAirTicks
  <2>1. Aloft(r)  BY <1>4, <1>8 DEF Aloft
  <2>2. CASE h = r /\ (r.phase # "settling" => AllAlive(r))
    <3>1. Placed(r)
      BY <1>1, <2>1, <2>2 DEF Placed, Going, Aloft, Strays
    <3>2. Paced(r)
      <4>1. r.turn \in Nat /\ MaxTurns \in Nat  BY <1>1, Positive DEF Going, Typed
      <4> QED BY <1>1, <4>1 DEF Paced, Going
    <3> QED BY <1>1, <2>2, <3>1, <3>2 DEF Between, Going
  <2>3. CASE r.phase = "settling" /\ ~Unsupported(r) /\ r.settling = "post_shot"
    <3>1. h = EnterPhase(r, "retreat", None)  BY <1>2, <1>8, <2>3
    <3>2. AllAlive(r)  BY <1>8, <2>3 DEF Decided
    <3>3. r.cast  BY <1>1, <2>3 DEF Going, CastValid
    <3>4. \A a \in Actor : r.units[a].alive /\ ~r.units[a].grounded => r.units[a].air < MaxAirTicks
      BY <2>1 DEF Aloft
    <3>5. "retreat" # "settling" /\ "retreat" # "action" /\ "retreat" \in {"action", "retreat", "settling"}
      OBVIOUS
    <3> QED BY <1>1, <1>3, <1>5, <2>3, <3>1, <3>2, <3>3, <3>4, <3>5, Names, Enters
  <2>4. CASE r.phase = "settling" /\ ~Unsupported(r) /\ r.settling # "post_shot"
    <3>1. h = Handover(r)  BY <1>2, <1>8, <2>4
    <3> QED BY <1>1, <1>3, <1>5, <2>1, <2>4, <3>1, HandoverIs
  <2>5. CASE r.phase # "settling" /\ ~AllAlive(r)
    <3>1. h = EnterPhase(r, "settling", "death")  BY <1>2, <1>8, <2>5
    <3>4. \A a \in Actor : r.units[a].alive /\ ~r.units[a].grounded => r.units[a].air < MaxAirTicks
      BY <2>1 DEF Aloft
    <3>5. "death" \notin {"post_shot", "retreat_timeout"} /\ "death" # "action_timeout"
          /\ "settling" \in {"action", "retreat", "settling"}
          /\ "settling" # "action" /\ "settling" # "retreat"
      OBVIOUS
    <3> QED BY <1>1, <1>3, <1>5, <3>1, <3>4, <3>5, Names, Enters
  <2>6. CASE r.phase = "settling" /\ Unsupported(r)
    <3>1. h = r  BY <1>2, <1>8, <2>6
    <3> QED BY <2>2, <2>6, <3>1
  <2>7. CASE r.phase # "settling" /\ AllAlive(r)
    <3>1. h = r  BY <1>2, <1>8, <2>7
    <3> QED BY <2>2, <2>7, <3>1
  <2> QED BY <2>3, <2>4, <2>5, <2>6, <2>7
<1> QED BY <1>6, <1>7, <1>8

\* No phase outlives its deadline.
LEMMA DeadlineIs ==
  ASSUME NEW b, NEW m, Typed(b), Between(b, m), m.phase = "projectile" => m.tick < m.deadline,
         NEW h, h = PhaseDeadline(m)
  PROVE  Between(b, h) /\ h.tick = m.tick /\ (h.phase # "finished" => h.tick < h.deadline)
<1>1. Typed(m) /\ m.tick \in Nat /\ m.deadline \in Int /\ Paced(m) /\ ResultValid(m) /\ CastValid(m)
  BY DEF Between, Typed
<1>2. CASE m.winner # None
  <2>1. h = m  BY <1>2 DEF PhaseDeadline
  <2>2. m.phase = "finished"  BY <1>1, <1>2 DEF ResultValid
  <2> QED BY <2>1, <2>2
<1>3. CASE m.winner = None
  <2>1. m.phase # "finished" /\ m.why = None  BY <1>1, <1>3 DEF ResultValid
  <2>2. m.turn < MaxTurns /\ m.turn \in Nat /\ MaxTurns \in Nat
    BY <1>1, <2>1, Positive DEF Paced, Typed
  <2>3. Open(b, m)  BY <2>1, <2>2 DEF Between, Open, InputValid
  <2>4. Aloft(m)  BY <2>1 DEF Between, Placed, Aloft
  <2>5. CASE m.tick < m.deadline
    <3>1. h = m  BY <2>5 DEF PhaseDeadline
    <3> QED BY <2>5, <3>1
  <2>6. CASE ~(m.tick < m.deadline) /\ m.phase = "settling"
    <3>1. h = Finish(m, "draw", "simulation_limit")  BY <1>3, <2>6 DEF PhaseDeadline
    <3> QED BY <2>3, <3>1, Names, Finishes
  <2>7. CASE ~(m.tick < m.deadline) /\ m.phase # "settling"
    <3>1. Moves(m) /\ m.phase \in {"action", "retreat"}
      BY <1>1, <2>1, <2>7 DEF Moves, Typed, Phase
    <3>2. ~m.shot
      <4>1. m.shot \in BOOLEAN  BY <1>1 DEF Typed
      <4> QED BY <1>1, <3>1, <4>1 DEF CastValid
    <3>3. CASE Unsupported(m)
      <4> DEFINE s == IF m.phase = "action" THEN "action_timeout" ELSE "retreat_timeout"
      <4>1. h = EnterPhase(m, "settling", s)
        BY <1>3, <2>7, <3>1, <3>3 DEF PhaseDeadline
      <4>2. s \in Settling /\ s # None /\ (s \in {"post_shot", "retreat_timeout"} => m.cast)
            /\ (s = "action_timeout" => ~m.cast)
        BY <1>1, <3>1, Names DEF CastValid
      <4> HIDE DEF s
      <4>4. \A a \in Actor : m.units[a].alive /\ ~m.units[a].grounded => m.units[a].air < MaxAirTicks
        BY <2>4 DEF Aloft
      <4>5. /\ "settling" \in {"action", "retreat", "settling"}
            /\ "settling" # "action" /\ "settling" # "retreat"
        OBVIOUS
      <4> QED BY <1>3, <2>1, <2>2, <2>3, <3>2, <4>1, <4>2, <4>4, <4>5, Enters
    <3>4. CASE ~Unsupported(m)
      <4>1. h = Handover(m)  BY <1>3, <2>7, <3>1, <3>4 DEF PhaseDeadline
      <4> QED BY <1>3, <2>1, <2>2, <2>3, <2>4, <3>2, <3>4, <4>1, HandoverIs
    <3> QED BY <3>3, <3>4
  <2> QED BY <2>5, <2>6, <2>7
<1> QED BY <1>2, <1>3

\* A match has a positive number of ticks.
LEMMA CombatTicksIs == CombatTicks \in Nat /\ CombatTicks > 0
<1> DEFINE s == ActionTicks + ProjectileTicks + RetreatTicks + 2 * SettlingTicks
<1>1. s \in Nat /\ s > 0 /\ MaxTurns \in Nat /\ MaxTurns > 0  BY Positive
<1>2. CombatTicks = MaxTurns * s  BY DEF CombatTicks
<1> HIDE DEF s
<1>3. \A x, y \in Nat : x > 0 /\ y > 0 => x * y \in Nat /\ x * y > 0  OBVIOUS
<1> QED BY <1>1, <1>2, <1>3

\* No match outlives its ticks.
LEMMA LimitedIs ==
  ASSUME NEW b, NEW m, Typed(b), Between(b, m), m.phase # "finished" => m.tick < m.deadline,
         NEW h, h = Limited(m)
  PROVE  /\ Between(b, h) /\ h.tick = m.tick
         /\ h.phase # "finished" => h.tick < h.deadline /\ h.tick < CombatTicks
<1>1. Typed(m) /\ m.tick \in Nat /\ Paced(m) /\ ResultValid(m)
  BY DEF Between, Typed
<1>2. CASE m.winner = None /\ m.tick >= CombatTicks
  <2>1. h = Finish(m, "draw", "simulation_limit")  BY <1>2 DEF Limited
  <2>2. m.phase # "finished"  BY <1>1, <1>2 DEF ResultValid
  <2>3. m.turn <= MaxTurns  BY <1>1 DEF Paced
  <2>4. Open(b, m)  BY <2>2, <2>3 DEF Between, Open, InputValid
  <2> QED BY <2>1, <2>4, Names, Finishes
<1>3. CASE ~(m.winner = None /\ m.tick >= CombatTicks)
  <2>1. h = m  BY <1>3 DEF Limited
  <2>2. m.phase # "finished" => m.winner = None  BY <1>1 DEF ResultValid
  <2> QED BY <1>1, <1>3, <2>1, <2>2, CombatTicksIs
<1> QED BY <1>2, <1>3

\* What a landscape says, field by field.
LEMMA WorldIs ==
  ASSUME NEW w \in World
  PROVE  /\ \A a \in Actor : /\ w.shot[a].flight \in 1 .. ProjectileTicks
                             /\ \A c \in Actor : w.shot[a].raw[c] \in 0 .. MaxStitching - 1
         /\ \A d \in {"jump", "walk_fall", "blast"} : w.fall[d].ticks \in Nat \ {0}
<1>1. w.shot \in [Actor -> [flight: 1 .. ProjectileTicks,
                    raw: [Actor -> 0 .. MaxStitching - 1],
                    thrown: SUBSET Actor, undermined: SUBSET Actor]]
  BY DEF World
<1>2. w.fall \in [{"jump", "walk_fall", "blast"} -> [ticks: Nat \ {0}, into: {"floor", "pit"}]]
  BY DEF World
<1>3. ASSUME NEW a \in Actor
      PROVE  /\ w.shot[a].flight \in 1 .. ProjectileTicks
             /\ \A c \in Actor : w.shot[a].raw[c] \in 0 .. MaxStitching - 1
  <2>1. w.shot[a] \in [flight: 1 .. ProjectileTicks,
                    raw: [Actor -> 0 .. MaxStitching - 1],
                    thrown: SUBSET Actor, undermined: SUBSET Actor]
    BY <1>1
  <2> QED BY <2>1
<1>4. ASSUME NEW d \in {"jump", "walk_fall", "blast"} PROVE w.fall[d].ticks \in Nat \ {0}
  <2>1. w.fall[d] \in [ticks: Nat \ {0}, into: {"floor", "pit"}]  BY <1>2
  <2> QED BY <2>1
<1> QED BY <1>3, <1>4

-----------------------------------------------------------------------------
(* The impact of a shot                                                      *)

\* A body dies of a blow in V8's reckoning when it does in V9's.
LEMMA LeftIs ==
  ASSUME NEW u, u.stitching \in Nat, u.shield \in Nat, u.stitching > 0,
         NEW raw \in 0 .. MaxStitching - 1
  PROVE  /\ (Left(u, raw) # 0) = (u.stitching > raw - Least(u.shield, raw))
         /\ raw = 0 => Left(u, raw) # 0
<1>1. MaxStitching \in Nat  BY Positive
<1> QED BY <1>1 DEF Left, Lost, Least

\* A body that is struck dies, is thrown, loses its ground or stands.
LEMMA StruckIs ==
  ASSUME NEW s, NEW a, NEW u, IsBody(u), u.alive, u.grounded, NEW v, v = Struck(s, u, a)
  PROVE  /\ IsBody(v) /\ SameStores(v, u) /\ v.stitching = u.stitching
         /\ v.alive = (Left(u, s.raw[a]) # 0)
         /\ v.alive => \/ v = u
                       \/ ~v.grounded /\ v.air = 0 /\ v.drive \in {"blast", "walk_fall"}
<1> DEFINE x == [u EXCEPT !.alive = FALSE]
           y == [u EXCEPT !.grounded = FALSE, !.moving = TRUE, !.drive = "blast", !.air = 0]
           z == [u EXCEPT !.grounded = FALSE, !.drive = "walk_fall", !.air = 0]
<1>1. IsRecord(x) /\ IsRecord(y) /\ IsRecord(z)
  BY DEF IsBody, IsRecord
<1>2. IsBody(x) /\ IsBody(y) /\ IsBody(z)
  BY <1>1 DEF IsBody, Drive
<1>3. /\ SameStores(x, u) /\ x.stitching = u.stitching /\ x.alive = FALSE
      /\ SameStores(y, u) /\ y.stitching = u.stitching /\ y.alive = TRUE
         /\ ~y.grounded /\ y.air = 0 /\ y.drive = "blast"
      /\ SameStores(z, u) /\ z.stitching = u.stitching /\ z.alive = TRUE
         /\ ~z.grounded /\ z.air = 0 /\ z.drive = "walk_fall"
  BY DEF SameStores, IsBody
<1>4. SameStores(u, u) /\ u.alive = TRUE  BY DEF SameStores, IsBody
<1>5. v = IF Left(u, s.raw[a]) = 0 THEN x ELSE IF a \in s.thrown THEN y
          ELSE IF a \in s.undermined THEN z ELSE u
  BY DEF Struck
<1> HIDE DEF x, y, z
<1> QED BY <1>2, <1>3, <1>4, <1>5

\* An impact decides the match, or starts retreat or settling.
LEMMA ImpactIs ==
  ASSUME NEW w \in World, NEW b, Sound(b), NEW m, Going(b, m), m.phase = "projectile",
         Steady(m), \A a \in Actor : SameStores(m.units[a], b.units[a])
                                     /\ SameStand(m.units[a], b.units[a]),
         NEW h, h = Impact(w, m)
  PROVE  Between(b, h) /\ h.tick = m.tick /\ (h.phase # "finished" => h.tick < h.deadline)
<1> DEFINE s == w.shot[m.actor]
           k == [m EXCEPT !.shot = FALSE,
                          !.units = [a \in Actor |-> Struck(s, m.units[a], a)],
                          !.events.raw = [a \in Actor |->
                            IF m.units[a].alive THEN s.raw[a] ELSE 0]]
           r == RemoveBelowWorld(w, k)
<1>1. h = IF Decided(r) THEN Finish(r, Survivor(r), "unravelled")
          ELSE IF Unsupported(r) THEN EnterPhase(r, "settling", "post_shot")
          ELSE EnterPhase(r, "retreat", None)
  BY SMTT(20) DEF Impact, Struck, Left
<1>2. Typed(m) /\ Typed(b) /\ Bodies(m) /\ m.actor \in Actor  BY DEF Going, Sound, Typed
<1>3. \A a \in Actor : IsBody(m.units[a]) /\ m.units[a].alive /\ m.units[a].grounded /\ Still(m.units[a])
  BY <1>2 DEF Steady, Typed, Bodies
<1>4. \A a \in Actor : s.raw[a] \in 0 .. MaxStitching - 1  BY <1>2, WorldIs
<1>5. MaxStitching \in Nat /\ MaxAirTicks \in Nat /\ MaxAirTicks > 0 /\ MaxTurns \in Nat  BY Positive
<1> HIDE DEF s
<1>6. \A a \in Actor : /\ k.units[a] = Struck(s, m.units[a], a)
                       /\ k.events.raw[a] = s.raw[a]
  BY <1>2, <1>3 DEF Typed, IsEvents
<1>7. \A a \in Actor :
         LET u == m.units[a]
             v == k.units[a]
         IN /\ IsBody(v) /\ SameStores(v, u) /\ v.stitching = u.stitching
            /\ v.alive = (Left(u, s.raw[a]) # 0)
            /\ v.alive => \/ v = u
                          \/ ~v.grounded /\ v.air = 0 /\ v.drive \in {"blast", "walk_fall"}
  BY <1>3, <1>6, StruckIs
<1>8. /\ DOMAIN k = DOMAIN m /\ SameClock(k, m) /\ SameCount(k, m) /\ SamePhase(k, m)
      /\ SameInput(k, m) /\ SameEnd(k, m) /\ k.epoch = m.epoch
      /\ DOMAIN k.units = Actor /\ k.shot = FALSE
      /\ DOMAIN k.events = {"boundaries", "raw"}
      /\ k.events.boundaries = m.events.boundaries
      /\ DOMAIN k.events.raw = Actor
  BY <1>2 DEF Typed, IsEvents, SameClock, SameCount, SamePhase, SameInput, SameEnd
<1>9. k.events.raw \in [Actor -> Nat]
  <2>1. k.events.raw = [a \in Actor |-> IF m.units[a].alive THEN s.raw[a] ELSE 0]
    BY <1>2 DEF Typed, IsEvents
  <2> HIDE DEF k
  <2> QED BY <1>3, <1>4, <2>1
<1> HIDE DEF k
<1>10. Typed(k)
  <2>1. IsEvents(k.events)  BY <1>2, <1>8, <1>9 DEF IsEvents, Typed
  <2> QED BY <1>2, <1>7, <1>8, <2>1
          DEF Typed, SameClock, SameCount, SamePhase, SameInput, SameEnd
<1>11. /\ Typed(r) /\ SameClock(r, k) /\ SameCount(r, k) /\ SamePhase(r, k)
       /\ SameInput(r, k) /\ SameEnd(r, k) /\ r.shot = k.shot
       /\ r.epoch = k.epoch /\ r.events = k.events
  BY <1>10, RemoveIs
<1>12. \A a \in Actor :
         /\ SameStores(r.units[a], k.units[a])
         /\ \/ r.units[a] = k.units[a] /\ k.units[a].alive
            \/ /\ ~r.units[a].alive /\ ~r.units[a].grounded /\ ~r.units[a].moving
               /\ r.units[a].drive = None /\ r.units[a].air = 0
               /\ \/ ~k.units[a].alive
                  \/ /\ ~k.units[a].grounded
                     /\ k.units[a].air >= w.fall[k.units[a].drive].ticks
  BY <1>10, RemoveIs
<1> HIDE DEF r
<1>13. ASSUME NEW a \in Actor
       PROVE  /\ SameStores(r.units[a], m.units[a])
              /\ r.units[a].alive = (Left(m.units[a], s.raw[a]) # 0)
              /\ r.units[a].alive => \/ r.units[a] = m.units[a]
                                     \/ ~r.units[a].grounded /\ r.units[a].air = 0
              /\ ~r.units[a].alive =>
                   /\ ~r.units[a].grounded /\ ~r.units[a].moving
                   /\ r.units[a].drive = None /\ r.units[a].air = 0
  <2>1. k.units[a].alive \in BOOLEAN /\ r.units[a].alive \in BOOLEAN
    BY <1>10, <1>11 DEF Typed, IsBody
  <2>2. k.units[a].alive => r.units[a] = k.units[a]
    <3> SUFFICES ASSUME k.units[a].alive PROVE r.units[a] = k.units[a]
      OBVIOUS
    <3>1. CASE k.units[a].grounded
      BY <1>12, <3>1
    <3>2. CASE ~k.units[a].grounded
      <4>1. k.units[a].air = 0 /\ k.units[a].drive \in {"blast", "walk_fall"}
        BY <1>3, <1>7, <3>2
      <4>2. w.fall[k.units[a].drive].ticks \in Nat \ {0}  BY <4>1, WorldIs
      <4>3. ~(k.units[a].air >= w.fall[k.units[a].drive].ticks)  BY <4>1, <4>2
      <4> QED BY <1>12, <4>3
    <3> QED BY <3>1, <3>2
  <2>3. ~k.units[a].alive => ~r.units[a].alive  BY <1>12
  <2>4. r.units[a].alive = k.units[a].alive  BY <2>1, <2>2, <2>3
  <2> QED BY <1>7, <1>12, <2>1, <2>2, <2>4 DEF SameStores
<1>14. Bodies(r) /\ Aloft(r)
  BY <1>3, <1>5, <1>13 DEF Bodies, Still, Aloft
<1>15. From(b, r)
  <2>1. From(b, m)  BY DEF Going
  <2>2. \A a \in Actor : Hurt(b.units[a], r.units[a], r.events.raw[a])
    <3> TAKE a \in Actor
    <3>1. r.events.raw[a] = s.raw[a]  BY <1>6, <1>11
    <3>2. /\ m.units[a].stitching = b.units[a].stitching /\ m.units[a].shield = b.units[a].shield
          /\ b.units[a].alive = m.units[a].alive
      BY DEF SameStand, SameStores
    <3>3. /\ b.units[a].stitching \in Nat /\ b.units[a].shield \in Nat
          /\ b.units[a].alive /\ b.units[a].stitching > 0
      BY <1>2, <1>3, <3>2 DEF Sound, Rich, Typed, IsBody
    <3>4. Left(m.units[a], s.raw[a]) = Left(b.units[a], s.raw[a])  BY <3>2 DEF Left
    <3>5. r.units[a].alive = (b.units[a].stitching > s.raw[a] - Least(b.units[a].shield, s.raw[a]))
      BY <1>4, <1>13, <3>3, <3>4, LeftIs
    <3> QED BY <3>1, <3>3, <3>5 DEF Hurt
  <2>3. \A a \in Actor :
       /\ r.units[a].thread <= MaxThread
       /\ r.units[a].credited \in Never .. MaxTurns
    BY <1>13, <2>1 DEF From, SameStores
  <2>4. \A a \in Actor : ~b.units[a].leap
    BY <1>3 DEF Sound, Rich, SameStand
  <2> QED BY <1>8, <1>11, <2>1, <2>2, <2>3, <2>4 DEF From
<1>16. /\ r.tick = m.tick /\ r.turn = m.turn /\ r.cast = m.cast /\ r.phase = "projectile"
       /\ r.intents = m.intents /\ r.barriers = m.barriers /\ r.shot = FALSE
       /\ r.winner = m.winner /\ r.why = m.why
  BY <1>8, <1>11 DEF SameClock, SameCount, SamePhase, SameEnd
<1>17. Open(b, m) /\ m.winner = None /\ m.why = None /\ m.cast
  BY GoingOpen DEF Going, CastValid
<1>18. Open(b, r) /\ r.winner = None /\ r.why = None /\ r.cast /\ ~r.shot /\ r.turn < MaxTurns
  BY <1>11, <1>14, <1>15, <1>16, <1>17 DEF Open, Going
<1>19. \A a \in Actor : r.units[a].alive /\ ~r.units[a].grounded => r.units[a].air < MaxAirTicks
  BY <1>14 DEF Aloft
<1>20. CASE Decided(r)
  <2>1. h = Finish(r, Survivor(r), "unravelled")  BY <1>1, <1>20
  <2> QED BY <1>2, <1>16, <1>18, <1>20, <2>1, Names, Finishes
<1>21. CASE ~Decided(r) /\ Unsupported(r)
  <2>1. h = EnterPhase(r, "settling", "post_shot")  BY <1>1, <1>21
  <2>2. /\ "settling" \in {"action", "retreat", "settling"} /\ "post_shot" # "action_timeout"
        /\ "settling" # "action" /\ "settling" # "retreat"
    OBVIOUS
  <2> QED BY <1>2, <1>16, <1>18, <1>19, <2>1, <2>2, Names, Enters
<1>22. CASE ~Decided(r) /\ ~Unsupported(r)
  <2>1. h = EnterPhase(r, "retreat", None)  BY <1>1, <1>22
  <2>2. /\ "retreat" \in {"action", "retreat", "settling"}
        /\ "retreat" # "action" /\ "retreat" # "settling"
    OBVIOUS
  <2>3. AllAlive(r)  BY <1>22 DEF Decided
  <2> QED BY <1>2, <1>16, <1>18, <1>19, <1>22, <2>1, <2>2, <2>3, Names, Enters
<1> QED BY <1>20, <1>21, <1>22

\* A tick of flight is an impact or nothing.
LEMMA FlyIs ==
  ASSUME NEW w \in World, NEW b, Sound(b), NEW m, Going(b, m), m.phase = "projectile",
         Steady(m), \A a \in Actor : SameStores(m.units[a], b.units[a])
                                     /\ SameStand(m.units[a], b.units[a]),
         NEW h, h = Fly(w, m)
  PROVE  Between(b, h) /\ h.tick = m.tick /\ (h.phase # "finished" => h.tick < h.deadline)
<1>1. CASE m.tick - m.started < w.shot[m.actor].flight
  <2>1. h = m  BY <1>1 DEF Fly
  <2>2. w.shot[m.actor].flight \in 1 .. ProjectileTicks  BY WorldIs DEF Going, Typed
  <2>3. m.tick \in Nat /\ m.started \in Nat /\ ProjectileTicks \in Nat /\ m.turn \in Nat /\ MaxTurns \in Nat
    BY Positive DEF Going, Typed
  <2>4. Duration(m.phase) = ProjectileTicks  BY DEF Duration
  <2>5. m.tick < m.deadline  BY <1>1, <2>2, <2>3, <2>4 DEF Going
  <2>6. Paced(m)  BY <2>3, <2>5 DEF Paced, Going
  <2>7. Placed(m)
    <3>1. \A a \in Actor : m.units[a].grounded /\ m.units[a].alive  BY DEF Steady
    <3> QED BY <3>1 DEF Placed, Moves, AllAlive
  <2> QED BY <2>1, <2>5, <2>6, <2>7 DEF Between, Going
<1>2. CASE ~(m.tick - m.started < w.shot[m.actor].flight)
  <2>1. h = Impact(w, m)  BY <1>2 DEF Fly
  <2> QED BY <2>1, ImpactIs
<1> QED BY <1>1, <1>2

-----------------------------------------------------------------------------
(* V9's resources                                                            *)

\* Shield and Stitching absorb a blow; a body lives as long as Stitching is left.
LEMMA AbsorbIs ==
  ASSUME NEW u, IsBody(u), Rich(u), NEW v, IsBody(v), NEW raw \in Nat, Hurt(u, v, raw),
         v.thread <= MaxThread, v.credited \in Never .. MaxTurns,
         NEW x, x = Absorb(u, v, raw)
  PROVE  IsBody(x) /\ SameMotion(x, v) /\ Stocked(x)
<1> DEFINE absorbed == Least(u.shield, raw)
           stitching == IF raw = 0 THEN IF v.alive THEN u.stitching ELSE 0
                        ELSE Lost(u.stitching, raw - absorbed)
           alive == IF raw = 0 THEN v.alive ELSE stitching > 0
           shield == IF alive THEN u.shield - absorbed ELSE 0
           expires == IF shield > 0 THEN u.expires ELSE Never
<1>1. x = [v EXCEPT !.stitching = stitching, !.alive = alive, !.shield = shield, !.expires = expires]
  BY DEF Absorb
<1>2. /\ u.stitching \in Nat /\ u.shield \in Nat /\ u.expires \in Int /\ v.alive \in BOOLEAN
      /\ u.stitching <= MaxStitching /\ u.alive = (u.stitching > 0) /\ u.shield <= ShieldPoints
      /\ u.expires \in Never .. MaxTurns + 2 /\ (u.shield = 0) = (u.expires = Never)
  BY DEF IsBody, Rich
<1>3. MaxStitching \in Nat /\ ShieldPoints \in Nat /\ MaxTurns \in Nat /\ MaxStitching > 0  BY Positive
<1>4. absorbed \in Nat /\ absorbed <= u.shield /\ absorbed <= raw
  BY <1>2 DEF Least
<1> HIDE DEF absorbed
<1>5. stitching \in Nat /\ stitching <= MaxStitching /\ alive \in BOOLEAN /\ alive = (stitching > 0)
  <2>1. CASE raw = 0
    <3>1. v.alive => u.stitching > 0  BY <1>2, <2>1 DEF Hurt
    <3>2. stitching = (IF v.alive THEN u.stitching ELSE 0) /\ alive = v.alive  BY <2>1
    <3> HIDE DEF stitching, alive
    <3>3. CASE v.alive  BY <1>2, <3>1, <3>2, <3>3
    <3>4. CASE ~v.alive  BY <1>2, <1>3, <3>2, <3>4
    <3> QED BY <3>3, <3>4
  <2>2. CASE raw # 0
    <3>1. raw - absorbed \in Nat  BY <1>4
    <3> QED BY <1>2, <1>3, <2>2, <3>1 DEF Lost
  <2> QED BY <2>1, <2>2
<1>6. alive = v.alive
  <2>1. CASE raw = 0  BY <2>1
  <2>2. CASE raw # 0
    <3>1. v.alive = (u.stitching > raw - absorbed)  BY <2>2 DEF Hurt, absorbed
    <3>2. raw - absorbed \in Nat  BY <1>4
    <3> QED BY <1>2, <2>2, <3>1, <3>2 DEF Lost
  <2> QED BY <2>1, <2>2
<1> HIDE DEF stitching, alive
<1>7. shield \in Nat /\ shield <= ShieldPoints /\ (~alive => shield = 0)
      /\ (shield > 0 => u.shield > 0)
  BY <1>2, <1>3, <1>4, <1>5
<1> HIDE DEF shield
<1>8. expires \in Int /\ expires \in Never .. MaxTurns + 2 /\ (shield = 0) = (expires = Never)
  BY <1>2, <1>3, <1>7 DEF Never
<1> HIDE DEF expires
<1>9. IsRecord(x)  BY <1>1 DEF IsBody, IsRecord
<1>10. IsBody(x)  BY <1>1, <1>5, <1>7, <1>8, <1>9 DEF IsBody
<1>11. SameMotion(x, v) /\ x.thread = v.thread /\ x.credited = v.credited
       /\ x.stitching = stitching /\ x.alive = alive /\ x.shield = shield /\ x.expires = expires
  BY <1>1, <1>6 DEF IsBody, SameMotion
<1> QED BY <1>5, <1>7, <1>8, <1>10, <1>11 DEF Stocked

\* A turn credits its Thread once, up to the limit.
LEMMA CreditIs ==
  ASSUME NEW u, IsBody(u), Stocked(u), NEW turn \in 0 .. MaxTurns, NEW x, x = Credit(u, turn)
  PROVE  IsBody(x) /\ SameMotion(x, u) /\ Stocked(x) /\ x.leap = u.leap
<1> DEFINE v == IF u.expires = turn THEN [u EXCEPT !.shield = 0, !.expires = Never] ELSE u
<1>1. MaxThread \in Nat /\ MaxTurns \in Nat /\ TurnCredit \in Nat /\ ShieldPoints \in Nat  BY Positive
<1>2. IsBody(v) /\ SameMotion(v, u) /\ Stocked(v) /\ v.leap = u.leap
  <2> DEFINE y == [u EXCEPT !.shield = 0, !.expires = Never]
  <2>1. IsRecord(y)  BY DEF IsBody, IsRecord
  <2>2. IsBody(y) /\ SameMotion(y, u) /\ y.leap = u.leap  BY <2>1 DEF IsBody, SameMotion, Never
  <2>3. Stocked(y)  BY <1>1 DEF Stocked, IsBody, Never
  <2>4. SameMotion(u, u)  BY DEF SameMotion
  <2> HIDE DEF y
  <2> QED BY <2>2, <2>3, <2>4 DEF y
<1>3. x = IF u.credited = turn THEN v
          ELSE [v EXCEPT !.thread = Least(MaxThread, @ + TurnCredit), !.credited = turn]
  BY DEF Credit
<1> HIDE DEF v
<1> DEFINE z == [v EXCEPT !.thread = Least(MaxThread, @ + TurnCredit), !.credited = turn]
<1>4. Least(MaxThread, v.thread + TurnCredit) \in Nat /\ Least(MaxThread, v.thread + TurnCredit) <= MaxThread
  BY <1>1, <1>2 DEF Least, IsBody
<1>5. IsRecord(z)  BY <1>2 DEF IsBody, IsRecord
<1>6. IsBody(z) /\ SameMotion(z, v) /\ z.leap = v.leap  BY <1>2, <1>4, <1>5 DEF IsBody, SameMotion
<1>7. Stocked(z)  BY <1>1, <1>2, <1>4 DEF Stocked, IsBody, Never
<1> HIDE DEF z
<1>8. x = v \/ x = z  BY <1>3 DEF z
<1> QED BY <1>2, <1>6, <1>7, <1>8 DEF SameMotion

\* V9's part of a step makes the bodies sound again.
LEMMA ResourcesIs ==
  ASSUME NEW b, Sound(b), NEW h, Between(b, h), h.tick <= CombatTicks,
         h.phase # "finished" => h.tick < h.deadline /\ h.tick < CombatTicks,
         NEW g, g = Resources(b, h)
  PROVE  /\ Sound(g) /\ g.epoch = h.epoch /\ g.events = h.events
         /\ SameClock(g, h) /\ SamePhase(g, h) /\ SameInput(g, h) /\ SameEnd(g, h)
         /\ g.barriers = h.barriers
<1> DEFINE begins == h.phase = "action" /\ h.turn # b.turn
           ab(a) == Absorb(b.units[a], h.units[a], h.events.raw[a])
           un(a) == [ab(a) EXCEPT !.leap = /\ b.units[a].leap /\ ab(a).alive
                                           /\ ~ab(a).grounded /\ h.phase = "action"]
<1>0. Typed(b) /\ Typed(h) /\ From(b, h) /\ h.turn \in 0 .. MaxTurns
      /\ \A a \in Actor : Rich(b.units[a])
  BY Positive DEF Sound, Between, Typed, Paced
<1>1. ASSUME NEW a \in Actor
      PROVE  IsBody(ab(a)) /\ SameMotion(ab(a), h.units[a]) /\ Stocked(ab(a))
  <2>1. /\ IsBody(b.units[a]) /\ Rich(b.units[a]) /\ IsBody(h.units[a]) /\ h.events.raw[a] \in Nat
        /\ Hurt(b.units[a], h.units[a], h.events.raw[a])
        /\ h.units[a].thread <= MaxThread /\ h.units[a].credited \in Never .. MaxTurns
    BY <1>0 DEF Typed, IsEvents, From
  <2> QED BY <2>1, AbsorbIs
<1> HIDE DEF ab
<1>2. ASSUME NEW a \in Actor
      PROVE  /\ IsBody(un(a)) /\ SameMotion(un(a), h.units[a]) /\ Stocked(un(a))
             /\ un(a).leap => b.units[a].leap /\ h.units[a].alive /\ ~h.units[a].grounded
  <2> DEFINE x == ab(a)
             l == /\ b.units[a].leap /\ x.alive /\ ~x.grounded /\ h.phase = "action"
             y == [x EXCEPT !.leap = l]
  <2>1. IsBody(x) /\ SameMotion(x, h.units[a]) /\ Stocked(x)  BY <1>1
  <2>2. l \in BOOLEAN /\ (l => b.units[a].leap /\ x.alive /\ ~x.grounded)
    BY <1>0 DEF Typed, IsBody
  <2> HIDE DEF l, x
  <2>3. IsRecord(y)  BY <2>1 DEF IsBody, IsRecord
  <2>4. IsBody(y) /\ SameMotion(y, x) /\ y.leap = l  BY <2>1, <2>2, <2>3 DEF IsBody, SameMotion
  <2>5. Stocked(y)  BY <2>1 DEF Stocked, IsBody
  <2>6. un(a) = y  BY DEF l, x
  <2> HIDE DEF y, un
  <2> QED BY <2>1, <2>2, <2>4, <2>5, <2>6 DEF SameMotion
<1> HIDE DEF un
<1>3. g = [h EXCEPT !.units = [a \in Actor |-> IF begins /\ a = h.actor
                                   THEN Credit(un(a), h.turn) ELSE un(a)],
                    !.utility = @ /\ ~begins]
  BY DEF Resources, un, ab
<1>4. ASSUME NEW a \in Actor
      PROVE  /\ IsBody(g.units[a]) /\ SameMotion(g.units[a], h.units[a]) /\ Stocked(g.units[a])
             /\ g.units[a].leap => b.units[a].leap /\ h.units[a].alive /\ ~h.units[a].grounded
  <2>1. g.units[a] = un(a) \/ g.units[a] = Credit(un(a), h.turn)
    BY <1>0, <1>3 DEF Typed
  <2>2. CASE g.units[a] = un(a)  BY <1>2, <2>2
  <2>3. CASE g.units[a] = Credit(un(a), h.turn)
    <3>1. /\ IsBody(g.units[a]) /\ SameMotion(g.units[a], un(a)) /\ Stocked(g.units[a])
          /\ g.units[a].leap = un(a).leap
      BY <1>0, <1>2, <2>3, CreditIs
    <3> QED BY <1>2, <3>1 DEF SameMotion
  <2> QED BY <2>1, <2>2, <2>3
<1>5. /\ SameClock(g, h) /\ SamePhase(g, h) /\ SameInput(g, h) /\ SameEnd(g, h)
      /\ g.epoch = h.epoch /\ g.events = h.events /\ g.barriers = h.barriers
      /\ g.aimId = h.aimId /\ g.shot = h.shot /\ g.utility \in BOOLEAN
      /\ DOMAIN g = DOMAIN h /\ DOMAIN g.units = Actor
  BY <1>0, <1>3 DEF Typed, SameClock, SamePhase, SameInput, SameEnd
<1>6. Typed(g)
  BY <1>0, <1>4, <1>5 DEF Typed, SameClock, SamePhase, SameInput, SameEnd
<1>7. \A a \in Actor : SameMotion(g.units[a], h.units[a])  BY <1>4
<1>8. /\ Moves(g) = Moves(h) /\ AllAlive(g) = AllAlive(h) /\ Unsupported(g) = Unsupported(h)
      /\ Steady(g) = Steady(h) /\ Survivor(g) = Survivor(h)
  BY <1>5, <1>7 DEF Moves, AllAlive, Unsupported, Steady, Survivor, SameMotion, SamePhase, Actor
<1>9. CastValid(g)
  BY <1>5 DEF Between, CastValid, SameClock, SamePhase
<1>10. InputValid(g)
  <2>1. \A a \in Actor : g.units[a].moving = h.units[a].moving /\ g.units[a].drive = h.units[a].drive
    BY <1>7 DEF SameMotion
  <2> QED BY <1>5, <1>8, <2>1 DEF Between, InputValid, SameClock, SamePhase, SameInput
<1>11. ResultValid(g)
  BY <1>5, <1>8 DEF Between, ResultValid, SameClock, SamePhase, SameEnd
<1>12. Bodies(g)
  BY <1>7 DEF Between, Bodies, Still, SameMotion
<1>13. Placed(g)
  <2>1. Placed(h) /\ g.phase = h.phase /\ g.actor = h.actor  BY <1>5 DEF Between, SamePhase, SameClock
  <2> QED BY <1>7, <1>8, <2>1 DEF Placed, SameMotion
<1>14. \A a \in Actor : Rich(g.units[a])
  <2> TAKE a \in Actor
  <2>1. b.units[a].leap /\ h.units[a].alive /\ ~h.units[a].grounded => h.units[a].drive = "jump"
    BY <1>0 DEF From
  <2> QED BY <1>4, <2>1 DEF Rich, Stocked, SameMotion
<1>15. ClockValid(g) /\ (g.phase # "finished" => g.tick < CombatTicks)
  <2>1. /\ g.tick = h.tick /\ g.turn = h.turn /\ g.started = h.started /\ g.deadline = h.deadline
        /\ g.phase = h.phase
    BY <1>5 DEF SameClock, SamePhase
  <2>2. Paced(h)  BY DEF Between
  <2> QED BY <1>0, <2>1, <2>2 DEF ClockValid, Paced
<1> QED BY <1>5, <1>6, <1>9, <1>10, <1>11, <1>12, <1>13, <1>14, <1>15 DEF Sound

-----------------------------------------------------------------------------
(* The course of a turn                                                      *)

\* Finishing leaves the barriers.
LEMMA Ended ==
  ASSUME NEW b, NEW m, Typed(m), m.barriers = b.barriers,
         NEW winner \in Winner, NEW why \in Why, NEW h, h = Finish(m, winner, why)
  PROVE  Ends(b, h)
<1>1. CASE m.phase = "finished"
  <2>1. h = m  BY <1>1 DEF Finish
  <2> QED BY <1>1, <2>1 DEF Ends
<1>2. CASE m.phase # "finished"
  <2>1. SameCount(h, m) /\ h.phase = "finished"  BY <1>2, FinishIs
  <2> QED BY <2>1 DEF Ends, SameCount
<1> QED BY <1>1, <1>2

\* A phase that is entered is of the same turn, begins without input and is
\* not over.
LEMMA Entered ==
  ASSUME NEW b, NEW m, Typed(m), Kin(b, m), NEW phase \in Phase \ {"finished"},
         NEW settling \in Settling, NEW h, h = EnterPhase(m, phase, settling)
  PROVE  /\ Kin(b, h) /\ h.held = 0 /\ h.phase = phase /\ h.settling = settling
         /\ h.tick < h.deadline
<1>0. phase \in Phase  OBVIOUS
<1>1. /\ Typed(h) /\ Halted(h, m, Stops(m, phase)) /\ SameClock(h, m) /\ SameCount(h, m)
      /\ h.phase = phase /\ h.deadline = m.tick + Duration(phase)
      /\ h.settling = settling /\ NoInput(h)
  BY <1>0, EnterPhaseIs
<1>2. Duration(phase) \in Nat /\ Duration(phase) > 0 /\ m.tick \in Nat  BY Durations DEF Typed
<1>3. h.tick < h.deadline  BY <1>1, <1>2 DEF SameClock
<1>4. \A a \in Actor : h.units[a].thread = m.units[a].thread  BY <1>1 DEF Halted, SameStores
<1>5. Kin(b, h)  BY <1>1, <1>4 DEF Kin, SameClock, SameCount
<1> QED BY <1>1, <1>3, <1>5 DEF NoInput

\* A turn that is handed over ends the match or begins the next turn.
LEMMA HandedOver ==
  ASSUME NEW b, NEW m, Typed(m), Kin(b, m), ~Unsupported(m), NEW h, h = Handover(m)
  PROVE  Ends(b, h) \/ (Begins(b, h) /\ h.tick < h.deadline)
<1> DEFINE next == [m EXCEPT !.turn = @ + 1]
           n == [next EXCEPT !.actor = Other(@), !.cast = FALSE, !.intents = 0]
<1>0. m.barriers = b.barriers /\ m.turn = b.turn /\ m.turn \in Nat  BY DEF Kin, Typed
<1>1. CASE Decided(m)
  <2>1. h = Finish(m, Survivor(m), "unravelled")  BY <1>1 DEF Handover
  <2>2. Survivor(m) \in Winner /\ "unravelled" \in Why  BY DEF Survivor, Winner, Why
  <2> QED BY <1>0, <2>1, <2>2, Ended
<1>2. CASE ~Decided(m) /\ next.turn >= MaxTurns
  <2>1. h = Finish(next, "draw", "turn_limit")  BY <1>2 DEF Handover
  <2>2. Typed(next) /\ next.barriers = b.barriers  BY <1>0 DEF Typed
  <2>3. "draw" \in Winner /\ "turn_limit" \in Why  BY DEF Winner, Why
  <2> HIDE DEF next
  <2> QED BY <2>1, <2>2, <2>3, Ended
<1>3. CASE ~Decided(m) /\ ~(next.turn >= MaxTurns)
  <2>1. h = EnterPhase(n, "action", None)  BY <1>3 DEF Handover
  <2>2. Other(m.actor) \in Actor  BY OtherActor DEF Typed
  <2>3. /\ Typed(n) /\ n.turn = b.turn + 1 /\ n.intents = 0 /\ n.barriers = b.barriers
        /\ n.units = m.units
    BY <1>0, <2>2 DEF Typed
  <2> HIDE DEF n, next
  <2>4. "action" \in Phase /\ None \in Settling  BY DEF Phase, Settling
  <2>5. /\ Typed(h) /\ Halted(h, n, Stops(n, "action")) /\ SameClock(h, n) /\ SameCount(h, n)
        /\ h.phase = "action" /\ h.deadline = n.tick + Duration("action") /\ NoInput(h)
    BY <2>1, <2>3, <2>4, EnterPhaseIs
  <2>6. Stops(n, "action") = Actor  BY DEF Stops
  <2>7. AllAlive(m)  BY <1>3 DEF Decided
  <2>8. Steady(h)
    <3> SUFFICES ASSUME NEW a \in Actor
                 PROVE  h.units[a].alive /\ h.units[a].grounded /\ ~h.units[a].moving
      BY DEF Steady
    <3>1. m.units[a].alive /\ m.units[a].grounded  BY <2>7 DEF AllAlive, Unsupported
    <3>2. /\ SameStand(h.units[a], n.units[a])
          /\ h.units[a].moving = (n.units[a].moving /\ a \notin Actor)
      BY <2>5, <2>6 DEF Halted
    <3>3. n.units[a] = m.units[a]  BY <2>3
    <3> QED BY <3>1, <3>2, <3>3 DEF SameStand
  <2>9. Duration("action") > 0 /\ Duration("action") \in Nat /\ n.tick \in Nat
    BY <2>3, <2>4, Durations DEF Typed
  <2>10. h.tick < h.deadline  BY <2>5, <2>9 DEF SameClock
  <2>11. h.turn = b.turn + 1 /\ h.intents = 0 /\ h.barriers = b.barriers /\ h.held = 0
    BY <2>3, <2>5 DEF SameClock, SameCount, NoInput
  <2> QED BY <2>5, <2>8, <2>10, <2>11 DEF Begins
<1> QED BY <1>1, <1>2, <1>3

\* After the bodies have moved, a turn goes on, ends or enters a phase that is
\* not over at once.
LEMMA BoundariesCourse ==
  ASSUME NEW w, NEW b, NEW m, Typed(m), Holds(b, m), m.phase # "projectile", m.phase # "finished",
         NEW h, h = BodyBoundaries(w, m)
  PROVE  Course(b, h) /\ (Holds(b, h) \/ h.phase = "finished" \/ h.tick < h.deadline)
<1> DEFINE r == RemoveBelowWorld(w, m)
<1>1. /\ Typed(r) /\ SameClock(r, m) /\ SameCount(r, m) /\ SamePhase(r, m) /\ SameInput(r, m)
      /\ \A a \in Actor :
           /\ SameStores(r.units[a], m.units[a])
           /\ \/ r.units[a] = m.units[a]
              \/ ~m.units[a].alive \/ ~m.units[a].grounded
  <2>1. /\ Typed(r) /\ SameClock(r, m) /\ SameCount(r, m) /\ SamePhase(r, m) /\ SameInput(r, m)
        /\ \A a \in Actor :
             /\ SameStores(r.units[a], m.units[a])
             /\ \/ r.units[a] = m.units[a] /\ m.units[a].alive
                \/ /\ ~r.units[a].alive /\ ~r.units[a].grounded /\ ~r.units[a].moving
                   /\ r.units[a].drive = None /\ r.units[a].air = 0
                   /\ \/ ~m.units[a].alive
                      \/ /\ ~m.units[a].grounded
                         /\ m.units[a].air >= w.fall[m.units[a].drive].ticks
    BY RemoveIs
  <2> QED BY <2>1
<1>2. h = IF Decided(r) THEN Finish(r, Survivor(r), "unravelled")
     ELSE IF \E a \in Actor : /\ r.units[a].alive /\ ~r.units[a].grounded
                              /\ r.units[a].air >= MaxAirTicks
          THEN Finish(r, "draw", "simulation_limit")
     ELSE IF r.phase = "settling"
          THEN IF Unsupported(r) THEN r
               ELSE IF r.settling = "post_shot"
                    THEN EnterPhase(r, "retreat", None)
                    ELSE Handover(r)
     ELSE IF ~AllAlive(r) THEN EnterPhase(r, "settling", "death") ELSE r
  BY DEF BodyBoundaries
<1> HIDE DEF r
<1>3. Kin(b, r)
  BY <1>1 DEF Holds, Kin, SameClock, SameCount, SameStores
<1>4. Holds(b, r)
  <2>1. Steady(m) => Steady(r)  BY <1>1 DEF Steady
  <2> QED BY <1>1, <1>3, <2>1 DEF Holds, SamePhase, SameInput
<1>5. r.phase = b.phase /\ r.settling = b.settling /\ r.phase \in Phase /\ r.barriers = b.barriers
      /\ r.phase # "projectile" /\ r.phase # "finished"
  BY <1>1, <1>3, <1>4 DEF Holds, SamePhase, Kin, Typed
<1>n. /\ Survivor(r) \in Winner /\ "draw" \in Winner
      /\ {"unravelled", "simulation_limit"} \subseteq Why
      /\ {"retreat", "settling"} \subseteq Phase \ {"finished"}
      /\ {None, "death"} \subseteq Settling /\ "death" \notin {None, "post_shot"}
  BY DEF Survivor, Winner, Why, Phase, Settling, None
<1>6. CASE h = Finish(r, Survivor(r), "unravelled") \/ h = Finish(r, "draw", "simulation_limit")
  <2>1. Ends(b, h)  BY <1>1, <1>5, <1>6, <1>n, Ended
  <2> QED BY <2>1 DEF Course, Ends
<1>7. CASE h = r
  BY <1>4, <1>7 DEF Course
<1>8. CASE h = EnterPhase(r, "retreat", None) /\ r.phase = "settling" /\ r.settling = "post_shot"
  <2>1. Kin(b, h) /\ h.held = 0 /\ h.phase = "retreat" /\ h.tick < h.deadline
    BY <1>1, <1>3, <1>8, <1>n, Entered
  <2> QED BY <1>5, <1>8, <2>1 DEF Course, Shifts
<1>9. CASE h = Handover(r) /\ ~Unsupported(r)
  <2>1. Ends(b, h) \/ (Begins(b, h) /\ h.tick < h.deadline)
    BY <1>1, <1>3, <1>9, HandedOver
  <2> QED BY <2>1 DEF Course, Ends
<1>10. CASE h = EnterPhase(r, "settling", "death") /\ r.phase # "settling"
  <2>1. Kin(b, h) /\ h.held = 0 /\ h.phase = "settling" /\ h.settling = "death" /\ h.tick < h.deadline
    BY <1>1, <1>3, <1>10, <1>n, Entered
  <2>2. b.phase \in {"action", "retreat"}  BY <1>5, <1>10 DEF Phase
  <2> QED BY <1>n, <2>1, <2>2 DEF Course, Shifts
<1> QED BY <1>2, <1>6, <1>7, <1>8, <1>9, <1>10

\* A shot that has ended is followed by settling or retreat.
LEMMA ImpactCourse ==
  ASSUME NEW b, b.phase = "projectile", NEW r, Typed(r), Kin(b, r),
         NEW h, h = IF Decided(r) THEN Finish(r, Survivor(r), "unravelled")
                    ELSE IF Unsupported(r) THEN EnterPhase(r, "settling", "post_shot")
                    ELSE EnterPhase(r, "retreat", None)
  PROVE  Course(b, h) /\ (h.phase = "finished" \/ h.tick < h.deadline)
<1>1. r.barriers = b.barriers  BY DEF Kin
<1>n. /\ Survivor(r) \in Winner /\ "unravelled" \in Why
      /\ {"retreat", "settling"} \subseteq Phase \ {"finished"}
      /\ {None, "post_shot"} \subseteq Settling
  BY DEF Survivor, Winner, Why, Phase, Settling, None
<1>2. CASE h = Finish(r, Survivor(r), "unravelled")
  <2>1. Ends(b, h)  BY <1>1, <1>2, <1>n, Ended
  <2> QED BY <2>1 DEF Course, Ends
<1>3. CASE h = EnterPhase(r, "settling", "post_shot")
  <2>1. Kin(b, h) /\ h.held = 0 /\ h.phase = "settling" /\ h.settling = "post_shot" /\ h.tick < h.deadline
    BY <1>3, <1>n, Entered
  <2> QED BY <2>1 DEF Course, Shifts
<1>4. CASE h = EnterPhase(r, "retreat", None)
  <2>1. Kin(b, h) /\ h.held = 0 /\ h.phase = "retreat" /\ h.tick < h.deadline
    BY <1>4, <1>n, Entered
  <2> QED BY <2>1 DEF Course, Shifts
<1> QED BY <1>2, <1>3, <1>4

\* What a shot leaves of a match: hurt bodies, some of them gone.
Blown(w, m) ==
  RemoveBelowWorld(w,
    [m EXCEPT !.shot = FALSE,
              !.units = [a \in Actor |-> Struck(w.shot[m.actor], m.units[a], a)],
              !.events.raw = [a \in Actor |->
                 IF m.units[a].alive THEN w.shot[m.actor].raw[a] ELSE 0]])

\* A blow takes no Thread and no turn.
LEMMA BlownIs ==
  ASSUME NEW w \in World, NEW m, Typed(m), Steady(m), NEW r, r = Blown(w, m)
  PROVE  /\ Typed(r) /\ SameClock(r, m) /\ SameCount(r, m)
         /\ \A a \in Actor : r.units[a].thread = m.units[a].thread
<1> DEFINE s == w.shot[m.actor]
           raw == [a \in Actor |-> IF m.units[a].alive THEN s.raw[a] ELSE 0]
           us == [a \in Actor |-> Struck(s, m.units[a], a)]
           k == [m EXCEPT !.shot = FALSE, !.units = us, !.events.raw = raw]
<1>1. r = RemoveBelowWorld(w, k)  BY DEF Blown
<1>2. \A a \in Actor : IsBody(m.units[a]) /\ m.units[a].alive /\ m.units[a].grounded
  BY DEF Steady, Typed
<1>3. \A a \in Actor : s.raw[a] \in 0 .. MaxStitching - 1  BY WorldIs DEF Typed
<1>4. MaxStitching \in Nat  BY Positive
<1> HIDE DEF s
<1>5. raw \in [Actor -> Nat]  BY <1>3, <1>4
<1>6. \A a \in Actor : IsBody(us[a]) /\ SameStores(us[a], m.units[a])
  BY <1>2, StruckIs
<1>7. DOMAIN us = Actor  OBVIOUS
<1> HIDE DEF raw, us
<1>8. /\ DOMAIN k = DOMAIN m /\ SameClock(k, m) /\ SameCount(k, m) /\ SamePhase(k, m)
      /\ SameInput(k, m) /\ SameEnd(k, m) /\ k.epoch = m.epoch /\ k.units = us /\ k.shot = FALSE
      /\ IsEvents(k.events)
  BY <1>5 DEF Typed, IsEvents, SameClock, SameCount, SamePhase, SameInput, SameEnd
<1> HIDE DEF k
<1>9. Typed(k)
  BY <1>6, <1>7, <1>8 DEF Typed, SameClock, SameCount, SamePhase, SameInput, SameEnd
<1>10. /\ Typed(r) /\ SameClock(r, k) /\ SameCount(r, k)
       /\ \A a \in Actor : SameStores(r.units[a], k.units[a])
  BY <1>1, <1>9, RemoveIs
<1>11. \A a \in Actor : r.units[a].thread = m.units[a].thread
  BY <1>6, <1>8, <1>10 DEF SameStores
<1> QED BY <1>8, <1>10, <1>11 DEF SameClock, SameCount

\* A tick of flight goes on, or ends in retreat or settling.
LEMMA FlyCourse ==
  ASSUME NEW w \in World, NEW b, NEW m, Typed(m), Steady(m), Holds(b, m), m.phase = "projectile",
         NEW h, h = Fly(w, m)
  PROVE  Course(b, h) /\ (Holds(b, h) \/ h.phase = "finished" \/ h.tick < h.deadline)
<1>1. CASE m.tick - m.started < w.shot[m.actor].flight
  <2>1. h = m  BY <1>1 DEF Fly
  <2> QED BY <2>1 DEF Course
<1>2. CASE ~(m.tick - m.started < w.shot[m.actor].flight)
  <2> DEFINE r == Blown(w, m)
  <2>1. h = Impact(w, m)  BY <1>2 DEF Fly
  <2>2. h = IF Decided(r) THEN Finish(r, Survivor(r), "unravelled")
            ELSE IF Unsupported(r) THEN EnterPhase(r, "settling", "post_shot")
            ELSE EnterPhase(r, "retreat", None)
    BY Zenon, <2>1 DEF Impact, Blown, Struck, Left
  <2>3. /\ Typed(r) /\ SameClock(r, m) /\ SameCount(r, m)
        /\ \A a \in Actor : r.units[a].thread = m.units[a].thread
    BY BlownIs
  <2> HIDE DEF r
  <2>4. Kin(b, r) /\ b.phase = "projectile"
    BY <2>3 DEF Holds, Kin, SameClock, SameCount
  <2> QED BY <2>2, <2>3, <2>4, ImpactCourse
<1> QED BY <1>1, <1>2

\* A phase whose time is over is followed by settling or the next turn.
LEMMA DeadlineCourse ==
  ASSUME NEW b, NEW m, Typed(m), Course(b, m),
         Holds(b, m) \/ m.phase = "finished" \/ m.tick < m.deadline,
         m.phase = "finished" => m.winner # None,
         NEW h, h = PhaseDeadline(m)
  PROVE  Course(b, h)
<1>1. CASE m.winner # None \/ m.tick < m.deadline
  <2>1. h = m  BY <1>1 DEF PhaseDeadline
  <2> QED BY <2>1
<1>2. CASE ~(m.winner # None \/ m.tick < m.deadline)
  <2>1. Holds(b, m) /\ m.phase # "finished"  BY <1>2
  <2>2. Kin(b, m) /\ m.phase = b.phase /\ m.barriers = b.barriers  BY <2>1 DEF Holds, Kin
  <2>n. /\ "draw" \in Winner /\ "simulation_limit" \in Why
        /\ "settling" \in Phase \ {"finished"}
        /\ {"action_timeout", "retreat_timeout"} \subseteq Settling \ {None, "post_shot"}
    BY DEF Winner, Why, Phase, Settling, None
  <2>3. CASE m.phase = "settling"
    <3>1. h = Finish(m, "draw", "simulation_limit")  BY <1>2, <2>3 DEF PhaseDeadline
    <3>2. Ends(b, h)  BY <2>2, <2>n, <3>1, Ended
    <3> QED BY <3>2 DEF Course
  <2>4. CASE m.phase # "settling" /\ ~Moves(m)
    <3>1. h = m  BY <1>2, <2>4 DEF PhaseDeadline
    <3> QED BY <3>1
  <2>5. CASE Moves(m) /\ Unsupported(m)
    <3> DEFINE s == IF m.phase = "action" THEN "action_timeout" ELSE "retreat_timeout"
    <3>0. m.phase # "settling"  BY <2>5 DEF Moves
    <3>1. h = EnterPhase(m, "settling", s)  BY <1>2, <2>5, <3>0 DEF PhaseDeadline
    <3>2. s \in Settling /\ s \notin {None, "post_shot"}  BY <2>n
    <3> HIDE DEF s
    <3>3. Kin(b, h) /\ h.held = 0 /\ h.phase = "settling" /\ h.settling = s
      BY <2>2, <2>n, <3>1, <3>2, Entered
    <3> QED BY <2>2, <2>5, <3>2, <3>3 DEF Course, Shifts, Moves
  <2>6. CASE Moves(m) /\ ~Unsupported(m)
    <3>0. m.phase # "settling"  BY <2>6 DEF Moves
    <3>1. h = Handover(m)  BY <1>2, <2>6, <3>0 DEF PhaseDeadline
    <3>2. Ends(b, h) \/ Begins(b, h)  BY <2>2, <2>6, <3>1, HandedOver
    <3> QED BY <3>2 DEF Course
  <2> QED BY <2>3, <2>4, <2>5, <2>6 DEF Moves
<1> QED BY <1>1, <1>2

\* Resources move nobody; Thread and the use of utilities change with the turn
\* only.
LEMMA ResourcesUnits ==
  ASSUME NEW b, NEW h, Typed(h), NEW g, g = Resources(b, h),
         NEW begins, begins = (h.phase = "action" /\ h.turn # b.turn)
  PROVE  /\ SameClock(g, h) /\ SamePhase(g, h) /\ SameInput(g, h)
         /\ g.barriers = h.barriers /\ g.aimId = h.aimId
         /\ begins => ~g.utility
         /\ ~begins => g.utility = h.utility
         /\ \A a \in Actor : /\ g.units[a].grounded = h.units[a].grounded
                             /\ g.units[a].moving = h.units[a].moving
                             /\ ~begins => g.units[a].thread = h.units[a].thread
<1> DEFINE ab(a) == Absorb(b.units[a], h.units[a], h.events.raw[a])
           un(a) == [ab(a) EXCEPT !.leap = /\ b.units[a].leap /\ ab(a).alive
                                           /\ ~ab(a).grounded /\ h.phase = "action"]
           Alike(v, u) == v.grounded = u.grounded /\ v.moving = u.moving
<1>1. ASSUME NEW a \in Actor
      PROVE  /\ DOMAIN ab(a) = DOMAIN h.units[a]
             /\ Alike(ab(a), h.units[a]) /\ ab(a).thread = h.units[a].thread
  BY DEF Absorb, Typed, IsBody
<1> HIDE DEF ab
<1>2. ASSUME NEW a \in Actor
      PROVE  /\ DOMAIN un(a) = DOMAIN h.units[a]
             /\ Alike(un(a), h.units[a]) /\ un(a).thread = h.units[a].thread
  BY <1>1 DEF Typed, IsBody
<1> HIDE DEF un
<1>3. g = [h EXCEPT !.units = [a \in Actor |-> IF begins /\ a = h.actor
                                   THEN Credit(un(a), h.turn) ELSE un(a)],
                    !.utility = @ /\ ~begins]
  BY Zenon DEF Resources, un, ab
<1>4. /\ SameClock(g, h) /\ SamePhase(g, h) /\ SameInput(g, h)
      /\ g.barriers = h.barriers /\ g.aimId = h.aimId
      /\ (begins => ~g.utility) /\ (~begins => g.utility = h.utility)
  BY <1>3 DEF Typed, SameClock, SamePhase, SameInput
<1>5. \A a \in Actor : Alike(g.units[a], h.units[a]) /\ (~begins => g.units[a].thread = h.units[a].thread)
  <2> SUFFICES ASSUME NEW a \in Actor
               PROVE  Alike(g.units[a], h.units[a]) /\ (~begins => g.units[a].thread = h.units[a].thread)
    OBVIOUS
  <2>1. g.units[a] = IF begins /\ a = h.actor THEN Credit(un(a), h.turn) ELSE un(a)
    BY <1>3 DEF Typed
  <2>2. Alike(Credit(un(a), h.turn), un(a))
    BY <1>2 DEF Credit, Typed, IsBody
  <2> QED BY <1>2, <2>1, <2>2
<1> QED BY <1>4, <1>5

\* Resources leave a turn on its course.
LEMMA ResourcesCourse ==
  ASSUME NEW b, Sound(b), NEW h, Typed(h), Course(b, h), NEW g, g = Resources(b, h), Sound(g)
  PROVE  Course(b, g) /\ (Begins(b, g) => ~g.utility)
<1> DEFINE begins == h.phase = "action" /\ h.turn # b.turn
<1>3. /\ SameClock(g, h) /\ SamePhase(g, h) /\ SameInput(g, h) /\ g.barriers = h.barriers
      /\ g.aimId = h.aimId /\ (begins => ~g.utility) /\ (~begins => g.utility = h.utility)
      /\ \A a \in Actor : /\ g.units[a].grounded = h.units[a].grounded
                          /\ g.units[a].moving = h.units[a].moving
                          /\ ~begins => g.units[a].thread = h.units[a].thread
  <2>1. begins = (h.phase = "action" /\ h.turn # b.turn)  OBVIOUS
  <2> HIDE DEF begins
  <2> QED BY <2>1, ResourcesUnits
<1>6. CASE Ends(b, h)
  BY <1>3, <1>6 DEF Ends, Course, SamePhase, Begins
<1>7. ASSUME Kin(b, h) PROVE Kin(b, g) /\ ~Begins(b, g)
  <2>0. b.turn \in Nat  BY DEF Sound, Typed
  <2>1. ~begins /\ g.turn = b.turn  BY <1>3, <1>7 DEF Kin, SameClock
  <2>2. g.turn # b.turn + 1  BY <2>0, <2>1
  <2> QED BY <1>3, <1>7, <2>1, <2>2 DEF Kin, SameClock, Begins
<1>8. CASE Holds(b, h)
  <2>1. Kin(b, g) /\ ~Begins(b, g)  BY <1>7, <1>8 DEF Holds
  <2>2. ASSUME Ready(b) PROVE Steady(g) /\ g.aim = b.aim
    <3>1. AllAlive(g)  BY <1>3, <1>8, <2>2 DEF Ready, Holds, SamePhase, Sound, Placed
    <3>2. Steady(h) /\ h.aim = b.aim  BY <1>8, <2>2 DEF Holds
    <3> QED BY <1>3, <3>1, <3>2 DEF Steady, AllAlive, SameInput
  <2>3. Holds(b, g)  BY <1>3, <1>8, <2>1, <2>2 DEF Holds, SamePhase, SameInput
  <2> QED BY <2>1, <2>3 DEF Course
<1>9. CASE Shifts(b, h)
  <2>1. Kin(b, g) /\ ~Begins(b, g)  BY <1>7, <1>9 DEF Shifts
  <2>2. Shifts(b, g)  BY <1>3, <1>9, <2>1 DEF Shifts, SamePhase, SameInput
  <2> QED BY <2>1, <2>2 DEF Course
<1>10. CASE Begins(b, h)
  <2>0. b.turn \in Nat  BY DEF Sound, Typed
  <2>1. begins  BY <1>10, <2>0 DEF Begins
  <2>2. AllAlive(g)  BY <1>3, <1>10 DEF Begins, SamePhase, Sound, Placed
  <2>3. Steady(g)  BY <1>3, <1>10, <2>2 DEF Steady, AllAlive, Begins
  <2>4. Begins(b, g)  BY <1>3, <1>10, <2>3 DEF Begins, SameClock, SamePhase, SameInput
  <2> QED BY <1>3, <2>1, <2>4 DEF Course
<1> QED BY <1>6, <1>8, <1>9, <1>10 DEF Course

\* The bodies of a ready match stay where they are.
LEMMA IntegrateCourse ==
  ASSUME NEW w, NEW m, Typed(m), Bodies(m), NEW h, h = Integrate(w, m), Typed(h),
         m.held = 0, Steady(m)
  PROVE  Steady(h) /\ h.aim = m.aim
<1>1. ASSUME NEW a \in Actor PROVE ~Driven(m, a) /\ m.units[a].alive /\ m.units[a].grounded
  <2>1. m.units[a].alive /\ m.units[a].grounded /\ m.units[a].drive = None
    BY DEF Steady, Bodies, Still
  <2>2. m.units[a].drive # "blast"  BY <2>1 DEF None
  <2> QED BY <2>1, <2>2, DrivenIs
<1>2. ~\E a \in Actor : m.units[a].alive /\ Driven(m, a)
                        /\ ~((m.units[a].grounded /\ Driven(m, a)) /\ w.walk[a] = "wall")
  BY <1>1
<1>3. h.aim = m.aim
  <2>1. h.aim = (m.aim /\ ~\E a \in Actor : m.units[a].alive /\ Driven(m, a)
                        /\ ~((m.units[a].grounded /\ Driven(m, a)) /\ w.walk[a] = "wall"))
    BY Zenon DEF Integrate, Typed
  <2>2. h.aim = (m.aim /\ TRUE)  BY <1>2, <2>1
  <2> QED BY <2>2 DEF Typed
<1>4. ASSUME NEW a \in Actor
      PROVE  h.units[a].alive /\ h.units[a].grounded /\ ~h.units[a].moving
  <2>1. h.units[a] =
        LET u == [m.units[a] EXCEPT !.moving = Driven(m, a)]
        IN IF ~u.alive THEN m.units[a]
           ELSE IF ~u.grounded THEN Fall(w, u)
           ELSE IF ~(m.units[a].grounded /\ Driven(m, a)) THEN u
           ELSE IF w.walk[a] = "wall" THEN [u EXCEPT !.moving = FALSE]
           ELSE IF w.walk[a] = "ledge"
                THEN Fall(w, [u EXCEPT !.grounded = FALSE,
                                       !.drive = "walk_fall", !.air = 0])
                ELSE u
    BY Zenon DEF Integrate, Typed
  <2>2. IsBody(m.units[a])  BY DEF Typed
  <2>3. h.units[a] = [m.units[a] EXCEPT !.moving = Driven(m, a)]
    BY <1>1, <2>1, <2>2 DEF IsBody
  <2> QED BY <1>1, <2>2, <2>3 DEF IsBody
<1> QED BY <1>3, <1>4 DEF Steady

\* A tick keeps a match sound, notes only what begins an epoch, and takes the
\* turn on its course.
LEMMA TickIs ==
  ASSUME NEW w \in World, NEW b, Sound(b), b.phase # "finished", NEW g, g = Tick(w, b)
  PROVE  /\ Sound(g) /\ b.epoch <= g.epoch
         /\ g.events.boundaries # <<>> => b.epoch < g.epoch
         /\ Course(b, g) /\ (Begins(b, g) => ~g.utility) /\ g.tick = b.tick + 1
<1> DEFINE m == ExpireLease([b EXCEPT !.events = Quiet])
           body == IF m.phase = "projectile" THEN m ELSE Integrate(w, m)
           late == [body EXCEPT !.tick = @ + 1]
           done == IF late.phase = "projectile" THEN Fly(w, late) ELSE BodyBoundaries(w, late)
           q == PhaseDeadline(done)
           l == Limited(q)
<1>1. g = Resources(b, l)  BY DEF Tick
<1>2. /\ Typed(m) /\ SameClock(m, b) /\ SameCount(m, b) /\ SamePhase(m, b)
      /\ SameEnd(m, b) /\ m.shot = b.shot
      /\ InputValid(m)
      /\ \A a \in Actor : /\ SameStores(m.units[a], b.units[a])
                          /\ SameStand(m.units[a], b.units[a])
                          /\ m.units[a].moving => b.units[a].moving
                          /\ m.events.raw[a] = 0
      /\ b.epoch <= m.epoch
      /\ m.events.boundaries # <<>> => b.epoch < m.epoch
  BY ExpireIs
<1>h1. Holds(b, m)
  <2>0. b.lease \in Int /\ b.tick \in Nat  BY DEF Sound, Typed
  <2>1. ASSUME b.lease = Never \/ b.tick < b.lease
        PROVE  m.held = b.held /\ m.lease = b.lease /\ m.refreshed = b.refreshed
               /\ m.aim = b.aim /\ m.units = b.units
    <3>1. m = [b EXCEPT !.events = Quiet]  BY <2>0, <2>1 DEF ExpireLease, Sound, Typed
    <3> QED BY <3>1 DEF Sound, Typed
  <2>2. Ready(b) => b.lease = Never  BY DEF Ready, Sound, InputValid
  <2>3. Ready(b) => Steady(m) /\ m.aim = b.aim  BY <2>1, <2>2 DEF Ready, Steady
  <2>4. Kin(b, m)  BY <1>2 DEF Kin, SameClock, SameCount, SameStores
  <2> QED BY <1>2, <2>1, <2>3, <2>4 DEF Holds, SamePhase
<1> HIDE DEF m
<1>3. /\ Typed(b) /\ ClockValid(b) /\ CastValid(b) /\ ResultValid(b) /\ Bodies(b) /\ Placed(b)
      /\ b.tick < CombatTicks /\ \A a \in Actor : Rich(b.units[a])
  BY DEF Sound
<1>4. /\ b.tick \in Nat /\ b.turn \in Nat /\ MaxTurns \in Nat /\ b.turn < MaxTurns
      /\ b.deadline \in Nat /\ b.started \in Nat /\ b.started <= b.tick /\ b.tick < b.deadline
      /\ b.deadline = b.started + Duration(b.phase) /\ CombatTicks \in Nat
  BY <1>3, Positive, CombatTicksIs DEF Typed, ClockValid
<1>5. Bodies(m)
  BY <1>2, <1>3 DEF Bodies, Still, SameStand
<1>6. /\ Aloft(m) /\ Strays(m) /\ (m.phase = "projectile" => Steady(m))
  <2>1. m.phase = b.phase /\ m.actor = b.actor  BY <1>2 DEF SamePhase, SameClock
  <2>2. Moves(m) = Moves(b)  BY <2>1 DEF Moves
  <2> QED BY <1>2, <1>3, <2>1, <2>2 DEF Placed, Aloft, Strays, Steady, SameStand
<1>7. /\ Typed(body) /\ SameClock(body, m) /\ SameCount(body, m) /\ SamePhase(body, m)
      /\ SameEnd(body, m) /\ body.shot = m.shot /\ body.epoch = m.epoch /\ body.events = m.events
      /\ InputValid(body) /\ Bodies(body) /\ Strays(body)
      /\ \A a \in Actor : /\ SameLife(body.units[a], m.units[a])
                          /\ ~m.units[a].grounded /\ ~body.units[a].grounded
                               => body.units[a].drive = m.units[a].drive
      /\ m.phase = "projectile" => body = m
  <2>1. CASE m.phase = "projectile"
    <3>1. body = m  BY <2>1
    <3> HIDE DEF body
    <3> QED BY <1>2, <1>5, <1>6, <3>1
            DEF SameClock, SameCount, SamePhase, SameEnd, SameLife, SameStores
  <2>2. CASE m.phase # "projectile"
    <3>1. body = Integrate(w, m)  BY <2>2
    <3>2. m.phase # "finished"  BY <1>2 DEF SamePhase
    <3> HIDE DEF body
    <3>3. /\ Typed(body) /\ SameClock(body, m) /\ SameCount(body, m) /\ SamePhase(body, m)
          /\ SameEnd(body, m) /\ body.shot = m.shot /\ body.epoch = m.epoch /\ body.events = m.events
          /\ InputValid(body) /\ Bodies(body) /\ Strays(body)
          /\ \A a \in Actor : /\ SameLife(body.units[a], m.units[a])
                              /\ ~m.units[a].grounded /\ ~body.units[a].grounded
                                   => body.units[a].drive = m.units[a].drive
      BY <1>2, <1>5, <1>6, <2>2, <3>1, <3>2, IntegrateIs
    <3> QED BY <2>2, <3>3
  <2> QED BY <2>1, <2>2
<1>h2. Ready(b) => Steady(body) /\ body.aim = b.aim
  <2> SUFFICES ASSUME Ready(b) PROVE Steady(body) /\ body.aim = b.aim
    OBVIOUS
  <2>1. b.held = 0 /\ b.lease = Never /\ b.phase = "action"
    BY <1>3 DEF Ready, Sound, InputValid
  <2>2. m.held = 0 /\ Steady(m) /\ m.aim = b.aim  BY <1>h1, <2>1 DEF Holds
  <2>3. body = Integrate(w, m)  BY <1>2, <2>1 DEF SamePhase
  <2> HIDE DEF body
  <2>5. Steady(body) /\ body.aim = m.aim
    BY <1>2, <1>5, <1>7, <2>2, <2>3, IntegrateCourse
  <2> QED BY <2>2, <2>5
<1>h3. body.held = m.held /\ body.lease = m.lease /\ body.refreshed = m.refreshed
  BY <1>2 DEF Integrate, Typed
<1> HIDE DEF body
<1>8. /\ Typed(late) /\ late.tick = body.tick + 1 /\ late.turn = body.turn /\ late.actor = body.actor
      /\ late.cast = body.cast /\ late.intents = body.intents /\ SameCount(late, body)
      /\ SamePhase(late, body) /\ SameInput(late, body) /\ SameEnd(late, body)
      /\ late.shot = body.shot /\ late.epoch = body.epoch /\ late.events = body.events
      /\ late.units = body.units
  BY <1>7 DEF Typed, SameCount, SamePhase, SameInput, SameEnd
<1> HIDE DEF late
<1>h4. Holds(b, late) /\ late.phase # "finished" /\ (late.phase = "projectile" => Steady(late))
  <2>1. Kin(b, late)
    BY <1>h1, <1>7, <1>8 DEF Kin, Holds, SameClock, SameCount, SameLife, SameStores
  <2>2. /\ late.phase = b.phase /\ late.started = b.started /\ late.settling = b.settling
    BY <1>2, <1>7, <1>8 DEF SamePhase
  <2>3. late.held = m.held /\ late.lease = m.lease /\ late.refreshed = m.refreshed
        /\ late.aim = body.aim /\ (Steady(body) => Steady(late))
    BY <1>h3, <1>8 DEF SameInput, Steady
  <2>4. b.lease = Never \/ b.tick < b.lease =>
          late.held = b.held /\ late.lease = b.lease /\ late.refreshed = b.refreshed
    BY <1>h1, <2>3 DEF Holds
  <2>5. late.phase = "projectile" => Steady(late)
    BY <1>6, <1>7, <1>8, <2>3 DEF SamePhase
  <2> QED BY <1>h2, <2>1, <2>2, <2>3, <2>4, <2>5 DEF Holds
<1>9. Going(b, late) /\ late.tick = b.tick + 1 /\ late.phase = b.phase
  <2>1. /\ late.tick = b.tick + 1 /\ late.turn = b.turn /\ late.cast = b.cast /\ late.phase = b.phase
        /\ late.started = b.started /\ late.deadline = b.deadline /\ late.settling = b.settling
        /\ late.winner = b.winner /\ late.why = b.why /\ late.shot = b.shot
    BY <1>2, <1>7, <1>8 DEF SameClock, SamePhase, SameEnd
  <2>2. late.started <= late.tick /\ late.tick <= late.deadline  BY <1>4, <2>1
  <2>3. CastValid(late)  BY <1>3, <2>1 DEF CastValid
  <2>4. ResultValid(late)
    <3>1. b.winner = None /\ b.why = None  BY <1>3 DEF ResultValid
    <3> QED BY <2>1, <3>1 DEF ResultValid, None
  <2>5. InputValid(late)
    <3>1. InputValid(body) /\ body.tick \in Nat /\ Moves(late) = Moves(body) /\ Steady(late) = Steady(body)
      BY <1>7, <1>8 DEF Typed, Moves, Steady, SamePhase
    <3>2. body.refreshed \in Int  BY <1>7 DEF Typed
    <3> QED BY <1>8, <3>1, <3>2 DEF InputValid, SameCount, SamePhase, SameInput
  <2>6. Bodies(late) /\ Strays(late)
    BY <1>7, <1>8 DEF Bodies, Strays, Moves, SamePhase
  <2>7. From(b, late)
    <3>1. b.epoch <= late.epoch /\ (late.events.boundaries # <<>> => b.epoch < late.epoch)
      BY <1>2, <1>7, <1>8
    <3>2. ASSUME NEW a \in Actor
          PROVE  /\ late.units[a].thread <= MaxThread
                 /\ late.units[a].credited \in Never .. MaxTurns
                 /\ Hurt(b.units[a], late.units[a], late.events.raw[a])
                 /\ b.units[a].leap /\ late.units[a].alive /\ ~late.units[a].grounded
                      => late.units[a].drive = "jump"
      <4>1. late.units[a].alive = b.units[a].alive /\ late.events.raw[a] = 0
            /\ late.units[a].thread = b.units[a].thread /\ late.units[a].credited = b.units[a].credited
        BY <1>2, <1>7, <1>8 DEF SameLife, SameStores, SameStand
      <4>2. Rich(b.units[a])  BY <1>3
      <4>3. ~m.units[a].grounded = ~b.units[a].grounded /\ m.units[a].drive = b.units[a].drive
        BY <1>2 DEF SameStand
      <4>4. b.units[a].leap /\ ~late.units[a].grounded => late.units[a].drive = "jump"
        BY <1>7, <1>8, <4>2, <4>3 DEF Rich
      <4> QED BY <4>1, <4>2, <4>4 DEF Rich, Hurt
    <3> QED BY <3>1, <3>2 DEF From
  <2> QED BY <1>4, <1>8, <2>1, <2>2, <2>3, <2>4, <2>5, <2>6, <2>7 DEF Going
<1>10. /\ Between(b, done) /\ done.tick = late.tick
       /\ done.phase = "projectile" => done.tick < done.deadline
  <2>1. CASE late.phase = "projectile"
    <3>1. done = Fly(w, late)  BY <2>1
    <3>2. m.phase = "projectile" /\ body = m  BY <1>7, <1>8, <2>1 DEF SamePhase
    <3>3. Steady(late)  BY <1>6, <1>8, <3>2 DEF Steady
    <3>4. \A a \in Actor : SameStores(late.units[a], b.units[a]) /\ SameStand(late.units[a], b.units[a])
      BY <1>2, <1>8, <3>2
    <3> HIDE DEF done
    <3>5. Between(b, done) /\ done.tick = late.tick /\ (done.phase # "finished" => done.tick < done.deadline)
      BY <1>9, <2>1, <3>1, <3>3, <3>4, FlyIs
    <3> QED BY <3>5
  <2>2. CASE late.phase # "projectile"
    <3>1. done = BodyBoundaries(w, late)  BY <2>2
    <3>2. \A a \in Actor : late.events.raw[a] = 0  BY <1>2, <1>7, <1>8
    <3> HIDE DEF done
    <3> QED BY <1>3, <1>9, <2>2, <3>1, <3>2, BoundariesIs
  <2> QED BY <2>1, <2>2
<1>h5. Course(b, done) /\ (Holds(b, done) \/ done.phase = "finished" \/ done.tick < done.deadline)
  <2>1. CASE late.phase = "projectile"
    <3>1. done = Fly(w, late)  BY <2>1
    <3> HIDE DEF done
    <3> QED BY <1>8, <1>h4, <2>1, <3>1, FlyCourse
  <2>2. CASE late.phase # "projectile"
    <3>1. done = BodyBoundaries(w, late)  BY <2>2
    <3> HIDE DEF done
    <3> QED BY <1>8, <1>h4, <2>2, <3>1, BoundariesCourse
  <2> QED BY <2>1, <2>2
<1> HIDE DEF done
<1>h6. Course(b, q)
  <2>1. Typed(done) /\ (done.phase = "finished" => done.winner # None)
    BY <1>10 DEF Between, ResultValid
  <2> QED BY <1>h5, <2>1, DeadlineCourse
<1>11. Between(b, q) /\ q.tick = done.tick /\ (q.phase # "finished" => q.tick < q.deadline)
  BY <1>3, <1>10, DeadlineIs
<1>h7. Course(b, l)
  <2>0. Typed(q) /\ q.winner \in Winner  BY <1>11 DEF Between, Typed
  <2>1. CASE l = q  BY <1>h6, <2>1
  <2>2. CASE l # q
    <3>1. l = Finish(q, "draw", "simulation_limit") /\ q.winner = None  BY <2>2 DEF Limited
    <3>2. q.barriers = b.barriers  BY <1>h6 DEF Course, Ends, Holds, Shifts, Begins, Kin
    <3>3. "draw" \in Winner /\ "simulation_limit" \in Why  BY DEF Winner, Why
    <3> HIDE DEF l, q
    <3>4. Ends(b, l)  BY <2>0, <3>1, <3>2, <3>3, Ended
    <3> QED BY <3>4 DEF Course
  <2> QED BY <2>1, <2>2
<1> HIDE DEF q
<1>12. /\ Between(b, l) /\ l.tick = q.tick
       /\ l.phase # "finished" => l.tick < l.deadline /\ l.tick < CombatTicks
  BY <1>3, <1>11, LimitedIs
<1> HIDE DEF l
<1>13. l.tick <= CombatTicks /\ l.tick = b.tick + 1
  BY <1>3, <1>4, <1>9, <1>10, <1>11, <1>12
<1>14. /\ Sound(g) /\ g.epoch = l.epoch /\ g.events = l.events
       /\ SameClock(g, l) /\ SamePhase(g, l) /\ SameInput(g, l) /\ g.barriers = l.barriers
  BY <1>1, <1>12, <1>13, ResourcesIs
<1>15. Course(b, g) /\ (Begins(b, g) => ~g.utility)
  <2>1. Typed(l)  BY <1>12 DEF Between
  <2> QED BY <1>1, <1>h7, <1>14, <2>1, ResourcesCourse
<1> QED BY <1>12, <1>13, <1>14, <1>15 DEF Between, From, SameClock

-----------------------------------------------------------------------------
(* Intents and barriers                                                      *)

\* An operation that only concerns input is a step on the way.
LEMMA InputBetween ==
  ASSUME NEW b, Sound(b), Moves(b), NEW h, Typed(h),
         h.tick = b.tick, h.turn = b.turn, h.actor = b.actor, h.cast = b.cast,
         SamePhase(h, b), SameEnd(h, b), h.shot = b.shot, InputValid(h),
         b.epoch <= h.epoch, h.events.boundaries # <<>> => b.epoch < h.epoch,
         \A a \in Actor :
           /\ h.events.raw[a] = 0
           /\ h.units[a].thread <= b.units[a].thread /\ h.units[a].credited = b.units[a].credited
           /\ h.units[a].alive = b.units[a].alive
           /\ Stands(h.units[a], b.units[a]) \/ (a = b.actor /\ Jumps(h.units[a]))
           /\ a # b.actor /\ h.units[a].moving => b.units[a].moving
  PROVE  Between(b, h) /\ h.tick < h.deadline /\ h.tick < CombatTicks /\ h.tick <= CombatTicks
<1>1. /\ Typed(b) /\ ClockValid(b) /\ CastValid(b) /\ ResultValid(b) /\ Bodies(b) /\ Placed(b)
      /\ b.phase # "finished" /\ b.phase # "settling" /\ b.phase # "projectile"
      /\ b.tick < CombatTicks /\ \A a \in Actor : Rich(b.units[a])
  BY DEF Sound, Moves
<1>2. /\ h.phase = b.phase /\ h.started = b.started /\ h.deadline = b.deadline /\ h.settling = b.settling
      /\ h.winner = b.winner /\ h.why = b.why
  BY DEF SamePhase, SameEnd
<1>3. /\ b.tick \in Nat /\ b.turn \in Nat /\ MaxTurns \in Nat /\ MaxAirTicks \in Nat /\ MaxAirTicks > 0
      /\ MaxThread \in Nat /\ CombatTicks \in Nat /\ b.deadline \in Nat
  BY <1>1, Positive, CombatTicksIs DEF Typed
<1>4. Paced(h) /\ h.tick < h.deadline
  BY <1>1, <1>2, <1>3 DEF ClockValid, Paced
<1>5. CastValid(h)  BY <1>1, <1>2 DEF CastValid
<1>6. ResultValid(h)
  <2>1. b.winner = None /\ b.why = None  BY <1>1 DEF ResultValid
  <2> QED BY <1>1, <1>2, <2>1 DEF ResultValid, None
<1>7. Bodies(h)
  <2> SUFFICES ASSUME NEW a \in Actor PROVE Still(h.units[a])
    BY DEF Bodies
  <2>1. Still(b.units[a])  BY <1>1 DEF Bodies
  <2> QED BY <1>3, <2>1 DEF Still, Stands, Jumps
<1>8. Placed(h)
  <2>1. AllAlive(h)  BY <1>1 DEF Placed, AllAlive
  <2>2. \A a \in Actor : h.units[a].alive /\ ~h.units[a].grounded => h.units[a].air < MaxAirTicks
    BY <1>1, <1>3 DEF Placed, Stands, Jumps
  <2>3. \A a \in Actor \ {b.actor} : h.units[a].grounded /\ ~h.units[a].moving
    BY <1>1 DEF Placed, Stands
  <2> QED BY <1>1, <1>2, <2>1, <2>2, <2>3 DEF Placed
<1>9. From(b, h)
  <2> SUFFICES ASSUME NEW a \in Actor
      PROVE  /\ h.units[a].thread <= MaxThread
             /\ h.units[a].credited \in Never .. MaxTurns
             /\ Hurt(b.units[a], h.units[a], h.events.raw[a])
             /\ b.units[a].leap /\ h.units[a].alive /\ ~h.units[a].grounded
                  => h.units[a].drive = "jump"
    BY DEF From
  <2>1. Rich(b.units[a]) /\ IsBody(b.units[a]) /\ IsBody(h.units[a])  BY <1>1 DEF Typed
  <2>2. b.units[a].thread \in Nat /\ h.units[a].thread \in Nat  BY <2>1 DEF IsBody
  <2>3. h.units[a].thread <= MaxThread /\ h.units[a].credited \in Never .. MaxTurns
    <3>1. h.units[a].thread <= b.units[a].thread /\ h.units[a].credited = b.units[a].credited
      OBVIOUS
    <3>2. b.units[a].thread <= MaxThread /\ b.units[a].credited \in Never .. MaxTurns
      BY <2>1 DEF Rich
    <3>3. MaxThread \in Nat  BY <1>3
    <3> QED BY ONLY <2>2, <3>1, <3>2, <3>3
  <2>4. Hurt(b.units[a], h.units[a], h.events.raw[a])  BY DEF Hurt
  <2>5. b.units[a].leap /\ h.units[a].alive /\ ~h.units[a].grounded => h.units[a].drive = "jump"
    BY <2>1 DEF Rich, Stands, Jumps
  <2> QED BY <2>3, <2>4, <2>5
<1> QED BY <1>1, <1>3, <1>4, <1>5, <1>6, <1>7, <1>8, <1>9 DEF Between

\* A tick keeps what is between a match and its next one, and spends no barrier.
LEMMA TickKept ==
  ASSUME NEW w \in World, NEW b, Sound(b), b.phase # "finished", NEW g, g = Tick(w, b)
  PROVE  Kept(b, g)
<1>1. /\ Sound(g) /\ b.epoch <= g.epoch
      /\ g.events.boundaries # <<>> => b.epoch < g.epoch
      /\ Course(b, g)
  BY TickIs
<1>2. b.barriers = g.barriers  BY <1>1 DEF Course, Ends, Holds, Shifts, Begins, Kin
<1>3. b.barriers \in Nat  BY DEF Sound, Typed
<1> QED BY <1>1, <1>2, <1>3 DEF Kept

\* Without Resources, what it would see to must hold already.
LEMMA BetweenSound ==
  ASSUME NEW b, NEW h, Between(b, h), h.tick <= CombatTicks, \A a \in Actor : Rich(h.units[a]),
         h.phase # "finished" => h.tick < h.deadline /\ h.tick < CombatTicks,
         b.barriers <= h.barriers
  PROVE  Kept(b, h)
<1>1. Typed(h) /\ Paced(h)  BY DEF Between
<1>2. h.turn \in 0 .. MaxTurns  BY <1>1, Positive DEF Paced, Typed
<1>3. ClockValid(h)  BY <1>1, <1>2 DEF ClockValid, Paced
<1> QED BY <1>3 DEF Between, Sound, Kept, From

\* The same for the step of an operation.
LEMMA ResourcesKept ==
  ASSUME NEW b, Sound(b), NEW h, Between(b, h), h.tick <= CombatTicks,
         h.phase # "finished" => h.tick < h.deadline /\ h.tick < CombatTicks,
         b.barriers <= h.barriers, NEW g, g = Resources(b, h)
  PROVE  Kept(b, g) /\ g.phase = h.phase /\ g.epoch = h.epoch
<1>1. /\ Sound(g) /\ g.epoch = h.epoch /\ g.events = h.events /\ SamePhase(g, h)
      /\ g.barriers = h.barriers
  BY ResourcesIs
<1> QED BY <1>1 DEF Kept, Between, From, SamePhase

\* A match without events is the same match.
LEMMA QuietIs ==
  ASSUME NEW b, Sound(b), NEW q, q = [b EXCEPT !.events = Quiet]
  PROVE  /\ Typed(q) /\ SameClock(q, b) /\ SameCount(q, b) /\ SamePhase(q, b)
         /\ SameInput(q, b) /\ SameEnd(q, b) /\ q.shot = b.shot /\ q.epoch = b.epoch
         /\ q.units = b.units /\ q.events.boundaries = <<>>
         /\ \A a \in Actor : q.events.raw[a] = 0
<1>1. Typed(b)  BY DEF Sound
<1>2. IsEvents(Quiet) /\ Quiet.boundaries = <<>> /\ \A a \in Actor : Quiet.raw[a] = 0
  BY DEF IsEvents, Quiet, Actor, Mark
<1>3. /\ DOMAIN q = DOMAIN b /\ SameClock(q, b) /\ SameCount(q, b) /\ SamePhase(q, b)
      /\ SameInput(q, b) /\ SameEnd(q, b) /\ q.shot = b.shot /\ q.epoch = b.epoch
      /\ q.units = b.units /\ q.events = Quiet
  BY <1>1 DEF Typed, SameClock, SameCount, SamePhase, SameInput, SameEnd
<1>4. Typed(q)
  BY <1>1, <1>2, <1>3 DEF Typed, SameClock, SameCount, SamePhase, SameInput, SameEnd
<1> QED BY <1>2, <1>3, <1>4

\* An end nobody played for is sound.
LEMMA ForceLimitIs ==
  ASSUME NEW b, Sound(b), b.phase # "finished", NEW g, g = ForceLimit(b)
  PROVE  Kept(b, g) /\ g.phase = "finished" /\ b.epoch < g.epoch
<1> DEFINE q == [b EXCEPT !.events = Quiet]
           h == Finish(q, "draw", "simulation_limit")
<1>1. g = Resources(b, h)  BY DEF ForceLimit
<1>2. /\ Typed(q) /\ SameClock(q, b) /\ SameCount(q, b) /\ SamePhase(q, b)
      /\ SameInput(q, b) /\ SameEnd(q, b) /\ q.shot = b.shot /\ q.epoch = b.epoch
      /\ q.units = b.units /\ q.events.boundaries = <<>>
      /\ \A a \in Actor : q.events.raw[a] = 0
  BY QuietIs
<1> HIDE DEF q
<1>3. Typed(b) /\ Bodies(b) /\ ClockValid(b) /\ InputValid(b) /\ \A a \in Actor : Rich(b.units[a])
  BY DEF Sound
<1>4. b.epoch \in Nat /\ b.turn <= MaxTurns /\ b.tick <= CombatTicks
  BY <1>3, Positive DEF Typed, ClockValid
<1>5. From(b, q)  BY <1>2, <1>3, <1>4 DEF From, Hurt, Rich
<1>6. Open(b, q)
  BY <1>2, <1>3, <1>4, <1>5 DEF Open, Bodies, SameClock, SameCount, SamePhase, InputValid
<1>7. Between(b, h) /\ h.tick = q.tick /\ h.phase = "finished"
  BY <1>3, <1>6, Names, Finishes
<1>8. h.epoch = b.epoch + 1 /\ b.barriers <= h.barriers
  <2>1. q.phase # "finished"  BY <1>6 DEF Open
  <2>2. "draw" \in Winner /\ "simulation_limit" \in Why  BY Names
  <2>3. h.epoch = q.epoch + 1 /\ SameCount(h, q)  BY <1>2, <2>1, <2>2, FinishIs
  <2>4. b.barriers \in Nat  BY <1>3 DEF Typed
  <2> QED BY <1>2, <2>3, <2>4 DEF SameCount
<1> HIDE DEF h
<1>9. h.tick <= CombatTicks  BY <1>2, <1>4, <1>7 DEF SameClock
<1>10. Kept(b, g) /\ g.phase = h.phase /\ g.epoch = h.epoch
  BY <1>1, <1>7, <1>8, <1>9, ResourcesKept
<1> QED BY <1>4, <1>7, <1>8, <1>10

\* What an input does is a step on the way, within the deadlines.
LEMMA StepBetween ==
  ASSUME NEW b, Sound(b), Moves(b), NEW h, InputStep(b, h)
  PROVE  Between(b, h) /\ h.tick < h.deadline /\ h.tick < CombatTicks /\ h.tick <= CombatTicks
<1>1. h.events.boundaries # <<>> => b.epoch < h.epoch  BY DEF InputStep
<1> QED BY <1>1, InputBetween DEF InputStep

\* What is known of the match an effect starts from.
LEMMA BeforeIs ==
  ASSUME NEW b, NEW q, Before(b, q)
  PROVE  /\ Typed(b) /\ Typed(q) /\ InputValid(b) /\ Moves(b) /\ b.actor \in Actor
         /\ q.tick = b.tick /\ q.turn = b.turn /\ q.actor = b.actor /\ q.cast = b.cast
         /\ q.phase = b.phase /\ q.started = b.started /\ q.deadline = b.deadline
         /\ q.settling = b.settling /\ q.winner = b.winner /\ q.why = b.why
         /\ q.held = b.held /\ q.lease = b.lease /\ q.refreshed = b.refreshed /\ q.aim = b.aim
         /\ q.intents = b.intents /\ q.utility = b.utility /\ q.barriers = b.barriers
         /\ q.aimId = b.aimId /\ q.shot = b.shot /\ q.epoch = b.epoch
         /\ q.units = b.units /\ q.events.boundaries = <<>>
         /\ \A a \in Actor : q.events.raw[a] = 0
         /\ b.tick \in Nat /\ b.intents \in Nat /\ MaxIntents \in Nat /\ b.intents + 1 <= MaxIntents
         /\ b.intents + 1 \in Nat /\ b.barriers <= MaxBarriers /\ b.epoch \in Nat
         /\ \A a \in Actor : /\ IsBody(b.units[a]) /\ Rich(b.units[a]) /\ Still(b.units[a])
                             /\ b.units[a].thread <= b.units[a].thread
                             /\ Stands(b.units[a], b.units[a])
<1>1. Typed(b) /\ InputValid(b) /\ Bodies(b) /\ \A a \in Actor : Rich(b.units[a])
  BY DEF Before, Sound
<1>2. b.intents \in Nat /\ MaxIntents \in Nat /\ b.tick \in Nat /\ b.actor \in Actor /\ b.epoch \in Nat
      /\ \A a \in Actor : b.units[a].thread \in Nat /\ IsBody(b.units[a])
  BY <1>1, Positive DEF Typed, IsBody
<1>3. b.intents + 1 \in Nat /\ b.intents + 1 <= MaxIntents  BY <1>2 DEF Before
<1>4. \A a \in Actor : Stands(b.units[a], b.units[a])  BY DEF Stands
<1>5. \A a \in Actor : b.units[a].thread <= b.units[a].thread  BY <1>2
<1>6. b.barriers <= MaxBarriers  BY <1>1 DEF InputValid
<1> QED BY <1>1, <1>2, <1>3, <1>4, <1>5, <1>6
        DEF Before, Bodies, SameClock, SameCount, SamePhase, SameInput, SameEnd

\* An input that moves nobody.
LEMMA CalmStep ==
  ASSUME NEW b, NEW q, Before(b, q), NEW d, Typed(d), InputValid(d), d.units = b.units,
         d.tick = b.tick, d.turn = b.turn, d.actor = b.actor, d.cast = b.cast,
         SamePhase(d, b), SameEnd(d, b), d.shot = b.shot, d.epoch = b.epoch, d.events = q.events
  PROVE  InputStep(b, d)
<1>1. b.epoch <= b.epoch  BY BeforeIs
<1>2. \A a \in Actor : /\ b.units[a].thread <= b.units[a].thread
                       /\ Stands(b.units[a], b.units[a])
  BY BeforeIs
<1>3. q.events.boundaries = <<>> /\ \A a \in Actor : q.events.raw[a] = 0  BY BeforeIs
<1> QED BY <1>1, <1>2, <1>3 DEF InputStep

\* A walk that starts, where it is allowed.
LEMMA WalkStep ==
  ASSUME NEW b, NEW q, Before(b, q), NEW i \in Intents, i.type = "walk_start", Allowed(b, i),
         NEW d, d = [Effect(q, i) EXCEPT !.intents = @ + 1]
  PROVE  InputStep(b, d)
<1> DEFINE dir == i.dir
<1>1. dir \in -1 .. 1 /\ dir # 0  BY DEF Intents
<1>2. Effect(q, i) = Walk(q, dir)  BY DEF Effect
<1> DEFINE renews == q.held = 0 \/ q.tick - q.refreshed >= RefreshTicks
           l == IF renews THEN q.tick + LeaseTicks ELSE q.lease
           r == IF renews THEN q.tick ELSE q.refreshed
<1>3. d = [q EXCEPT !.held = dir, !.aim = FALSE, !.lease = l, !.refreshed = r, !.intents = @ + 1]
  BY <1>2, BeforeIs DEF Walk, Typed
<1>4. LeaseTicks \in Nat  BY Positive
<1>5. l \in Int /\ r \in 0 .. b.tick /\ l = r + LeaseTicks
  <2>1. q.tick \in Nat /\ q.tick = b.tick /\ q.held = b.held /\ q.refreshed = b.refreshed
        /\ q.lease = b.lease /\ InputValid(b)
    BY BeforeIs
  <2>2. CASE renews  BY <1>4, <2>1, <2>2
  <2>3. CASE ~renews
    <3>1. l = q.lease /\ r = q.refreshed /\ b.held # 0  BY <2>1, <2>3
    <3> HIDE DEF l, r, renews
    <3> QED BY <1>4, <2>1, <3>1 DEF InputValid
  <2> QED BY <2>2, <2>3
<1> HIDE DEF l, r, renews, dir
<1>6. /\ DOMAIN d = DOMAIN q /\ d.held = dir /\ d.aim = FALSE /\ d.lease = l /\ d.refreshed = r
      /\ d.intents = b.intents + 1
      /\ d.tick = b.tick /\ d.turn = b.turn /\ d.actor = b.actor /\ d.cast = b.cast
      /\ SamePhase(d, b) /\ SameEnd(d, b) /\ SameCount(d, b) /\ d.shot = b.shot
      /\ d.epoch = b.epoch /\ d.events = q.events /\ d.units = b.units
  <2>1. Typed(q)  BY BeforeIs
  <2>2. /\ DOMAIN d = DOMAIN q /\ d.held = dir /\ d.aim = FALSE /\ d.lease = l /\ d.refreshed = r
        /\ d.intents = q.intents + 1
        /\ d.tick = q.tick /\ d.turn = q.turn /\ d.actor = q.actor /\ d.cast = q.cast
        /\ SamePhase(d, q) /\ SameEnd(d, q) /\ SameCount(d, q) /\ d.shot = q.shot
        /\ d.epoch = q.epoch /\ d.events = q.events /\ d.units = q.units
    BY Zenon, <1>3, <2>1 DEF Typed, SamePhase, SameEnd, SameCount
  <2> QED BY <2>2, BeforeIs DEF SamePhase, SameEnd, SameCount
<1>7. Typed(d)
  <2>1. r \in Int /\ Typed(q) /\ Typed(b) /\ b.intents + 1 \in Nat  BY <1>5, BeforeIs
  <2> QED BY <1>1, <1>5, <1>6, <2>1 DEF Typed, SamePhase, SameEnd, SameCount
<1>8. InputValid(d)
  <2>1. Moves(d)  BY <1>6, BeforeIs DEF Moves, SamePhase
  <2>2. d.intents <= MaxIntents /\ d.barriers <= MaxBarriers  BY <1>6, BeforeIs DEF SameCount
  <2> QED BY <1>1, <1>5, <1>6, <2>1, <2>2 DEF InputValid
<1> QED BY <1>6, <1>7, <1>8, CalmStep

\* A lease that is renewed, where it is allowed.
LEMMA RefreshStep ==
  ASSUME NEW b, NEW q, Before(b, q), NEW i \in Intents, i.type = "walk_refresh", Allowed(b, i),
         NEW d, d = [Effect(q, i) EXCEPT !.intents = @ + 1]
  PROVE  InputStep(b, d)
<1>1. d = [q EXCEPT !.lease = q.tick + LeaseTicks, !.refreshed = q.tick, !.intents = @ + 1]
  BY DEF Effect
<1>2. b.held # 0  BY DEF Allowed, Offence, Utility
<1>3. LeaseTicks \in Nat  BY Positive
<1>4. /\ DOMAIN d = DOMAIN q /\ d.held = b.held /\ d.aim = b.aim /\ d.lease = b.tick + LeaseTicks
      /\ d.refreshed = b.tick /\ d.intents = b.intents + 1
      /\ d.tick = b.tick /\ d.turn = b.turn /\ d.actor = b.actor /\ d.cast = b.cast
      /\ SamePhase(d, b) /\ SameEnd(d, b) /\ SameCount(d, b) /\ d.shot = b.shot
      /\ d.epoch = b.epoch /\ d.events = q.events /\ d.units = b.units
  <2>1. Typed(q)  BY BeforeIs
  <2>2. /\ DOMAIN d = DOMAIN q /\ d.held = q.held /\ d.aim = q.aim /\ d.lease = q.tick + LeaseTicks
        /\ d.refreshed = q.tick /\ d.intents = q.intents + 1
        /\ d.tick = q.tick /\ d.turn = q.turn /\ d.actor = q.actor /\ d.cast = q.cast
        /\ SamePhase(d, q) /\ SameEnd(d, q) /\ SameCount(d, q) /\ d.shot = q.shot
        /\ d.epoch = q.epoch /\ d.events = q.events /\ d.units = q.units
    BY Zenon, <1>1, <2>1 DEF Typed, SamePhase, SameEnd, SameCount
  <2> QED BY <2>2, BeforeIs DEF SamePhase, SameEnd, SameCount
<1>5. Typed(d)
  <2>1. Typed(q) /\ Typed(b) /\ b.intents + 1 \in Nat /\ b.tick \in Nat  BY BeforeIs
  <2>2. b.tick + LeaseTicks \in Int /\ b.tick \in Int  BY <1>3, <2>1
  <2> QED BY <1>4, <2>1, <2>2 DEF Typed, SamePhase, SameEnd, SameCount
<1>6. InputValid(d)
  <2>1. Moves(d) /\ InputValid(b) /\ b.tick \in Nat  BY <1>4, BeforeIs DEF Moves, SamePhase
  <2>2. d.intents <= MaxIntents /\ d.barriers <= MaxBarriers  BY <1>4, BeforeIs DEF SameCount
  <2> QED BY <1>2, <1>4, <2>1, <2>2 DEF InputValid
<1> QED BY <1>4, <1>5, <1>6, CalmStep

\* An aim.
LEMMA AimStep ==
  ASSUME NEW b, NEW q, Before(b, q), NEW i \in Intents, i.type = "aim", Allowed(b, i),
         NEW d, d = [Effect(q, i) EXCEPT !.intents = @ + 1]
  PROVE  InputStep(b, d)
<1>1. d = [q EXCEPT !.aimId = @ + 1, !.aim = TRUE, !.intents = @ + 1]
  BY DEF Effect
<1>2. b.held = 0 /\ b.phase = "action" /\ Steady(b)  BY DEF Allowed, Offence
<1>4. /\ DOMAIN d = DOMAIN q /\ d.held = b.held /\ d.aim = TRUE /\ d.lease = b.lease
      /\ d.refreshed = b.refreshed /\ d.intents = b.intents + 1 /\ d.aimId = b.aimId + 1
      /\ d.tick = b.tick /\ d.turn = b.turn /\ d.actor = b.actor /\ d.cast = b.cast
      /\ SamePhase(d, b) /\ SameEnd(d, b) /\ d.utility = b.utility /\ d.barriers = b.barriers
      /\ d.shot = b.shot /\ d.epoch = b.epoch /\ d.events = q.events /\ d.units = b.units
  <2>1. Typed(q)  BY BeforeIs
  <2>2. /\ DOMAIN d = DOMAIN q /\ d.held = q.held /\ d.aim = TRUE /\ d.lease = q.lease
        /\ d.refreshed = q.refreshed /\ d.intents = q.intents + 1 /\ d.aimId = q.aimId + 1
        /\ d.tick = q.tick /\ d.turn = q.turn /\ d.actor = q.actor /\ d.cast = q.cast
        /\ SamePhase(d, q) /\ SameEnd(d, q) /\ d.utility = q.utility /\ d.barriers = q.barriers
        /\ d.shot = q.shot /\ d.epoch = q.epoch /\ d.events = q.events /\ d.units = q.units
    BY Zenon, <1>1, <2>1 DEF Typed, SamePhase, SameEnd
  <2> QED BY <2>2, BeforeIs DEF SamePhase, SameEnd
<1>3. b.aimId + 1 \in Nat /\ b.aimId + 1 > 0
  <2>1. b.aimId \in Nat  BY BeforeIs DEF Typed
  <2> QED BY <2>1
<1>5. Typed(d)
  <2>1. Typed(q) /\ Typed(b) /\ b.intents + 1 \in Nat  BY BeforeIs
  <2> QED BY Zenon, <1>3, <1>4, <2>1 DEF Typed, SamePhase, SameEnd
<1>6. InputValid(d)
  <2>1. Moves(d) /\ InputValid(b) /\ b.tick \in Nat  BY <1>4, BeforeIs DEF Moves, SamePhase
  <2>2. d.intents <= MaxIntents /\ d.barriers <= MaxBarriers  BY <1>4, BeforeIs
  <2>3. Steady(d) /\ d.phase = "action"  BY <1>2, <1>4 DEF Steady, SamePhase
  <2> QED BY <1>2, <1>3, <1>4, <2>1, <2>2, <2>3 DEF InputValid
<1> QED BY <1>4, <1>5, <1>6, CalmStep

\* A turn of the body or a choice of relic.
LEMMA FaceStep ==
  ASSUME NEW b, NEW q, Before(b, q), NEW i \in Intents, i.type \in {"face", "select_relic"},
         NEW d, d = [Effect(q, i) EXCEPT !.intents = @ + 1]
  PROVE  InputStep(b, d)
<1>1. d = [q EXCEPT !.aim = FALSE, !.intents = @ + 1]
  BY DEF Effect
<1>4. /\ DOMAIN d = DOMAIN q /\ d.held = b.held /\ d.aim = FALSE /\ d.lease = b.lease
      /\ d.refreshed = b.refreshed /\ d.intents = b.intents + 1
      /\ d.tick = b.tick /\ d.turn = b.turn /\ d.actor = b.actor /\ d.cast = b.cast
      /\ SamePhase(d, b) /\ SameEnd(d, b) /\ SameCount(d, b)
      /\ d.shot = b.shot /\ d.epoch = b.epoch /\ d.events = q.events /\ d.units = b.units
  <2>1. Typed(q)  BY BeforeIs
  <2>2. /\ DOMAIN d = DOMAIN q /\ d.held = q.held /\ d.aim = FALSE /\ d.lease = q.lease
        /\ d.refreshed = q.refreshed /\ d.intents = q.intents + 1
        /\ d.tick = q.tick /\ d.turn = q.turn /\ d.actor = q.actor /\ d.cast = q.cast
        /\ SamePhase(d, q) /\ SameEnd(d, q) /\ SameCount(d, q)
        /\ d.shot = q.shot /\ d.epoch = q.epoch /\ d.events = q.events /\ d.units = q.units
    BY Zenon, <1>1, <2>1 DEF Typed, SamePhase, SameEnd, SameCount
  <2> QED BY <2>2, BeforeIs DEF SamePhase, SameEnd, SameCount
<1>5. Typed(d)
  <2>1. Typed(q) /\ Typed(b) /\ b.intents + 1 \in Nat  BY BeforeIs
  <2> QED BY <1>4, <2>1 DEF Typed, SamePhase, SameEnd, SameCount
<1>6. InputValid(d)
  <2>1. Moves(d) /\ InputValid(b) /\ b.tick \in Nat  BY <1>4, BeforeIs DEF Moves, SamePhase
  <2>2. d.intents <= MaxIntents /\ d.barriers <= MaxBarriers  BY <1>4, BeforeIs DEF SameCount
  <2> QED BY <1>4, <2>1, <2>2 DEF InputValid
<1> QED BY <1>4, <1>5, <1>6, CalmStep

\* A walk that stops: the input is taken back.
LEMMA StopStep ==
  ASSUME NEW b, NEW q, Before(b, q), NEW i \in Intents, i.type = "walk_stop",
         NEW d, d = [Effect(q, i) EXCEPT !.intents = @ + 1]
  PROVE  InputStep(b, d)
<1> DEFINE S == IF Jumping(q) THEN {} ELSE {q.actor}
           g == Halt(q, S)
<1>1. d = [g EXCEPT !.held = 0, !.lease = Never, !.refreshed = Never, !.aim = FALSE, !.intents = @ + 1]
  BY DEF Effect, StopWalking
<1>2. Typed(q)  BY BeforeIs
<1> HIDE DEF S
<1>3. /\ Typed(g) /\ Halted(g, q, S)
      /\ SameClock(g, q) /\ SameCount(g, q) /\ SamePhase(g, q)
      /\ SameInput(g, q) /\ SameEnd(g, q)
      /\ g.epoch = q.epoch /\ g.shot = q.shot /\ g.events = q.events
  BY <1>2, HaltIs
<1> HIDE DEF g
<1>4. /\ DOMAIN d = DOMAIN g /\ NoInput(d) /\ d.intents = g.intents + 1
      /\ d.tick = g.tick /\ d.turn = g.turn /\ d.actor = g.actor /\ d.cast = g.cast
      /\ SamePhase(d, g) /\ SameEnd(d, g) /\ SameCount(d, g) /\ d.shot = g.shot
      /\ d.epoch = g.epoch /\ d.events = g.events /\ d.units = g.units
  BY <1>1, <1>3 DEF Typed, SamePhase, SameEnd, SameCount, NoInput
<1>5. /\ d.intents = b.intents + 1 /\ d.barriers = b.barriers
      /\ d.tick = b.tick /\ d.turn = b.turn /\ d.actor = b.actor /\ d.cast = b.cast
      /\ SamePhase(d, b) /\ SameEnd(d, b) /\ d.shot = b.shot
      /\ d.epoch = b.epoch /\ d.events = q.events
  <2>1. /\ d.intents = q.intents + 1 /\ d.barriers = q.barriers
        /\ d.tick = q.tick /\ d.turn = q.turn /\ d.actor = q.actor /\ d.cast = q.cast
        /\ SamePhase(d, q) /\ SameEnd(d, q) /\ d.shot = q.shot
        /\ d.epoch = q.epoch /\ d.events = q.events
    BY <1>3, <1>4 DEF SameClock, SamePhase, SameEnd, SameCount
  <2> QED BY <2>1, BeforeIs DEF SamePhase, SameEnd
<1>6. Typed(d)
  <2>1. d.intents \in Nat  BY <1>5, BeforeIs
  <2>2. d.held \in -1 .. 1 /\ d.lease \in Int /\ d.refreshed \in Int /\ d.aim \in BOOLEAN
    <3>1. d.held = 0 /\ d.lease = Never /\ d.refreshed = Never  BY <1>4 DEF NoInput
    <3>2. d.aim \in BOOLEAN  BY <1>4 DEF NoInput
    <3>3. Never \in Int  BY DEF Never
    <3> QED BY <3>1, <3>2, <3>3
  <2> QED BY <1>3, <1>4, <2>1, <2>2 DEF Typed, SamePhase, SameEnd, SameCount
<1>7. \A a \in Actor : /\ d.units[a].moving => b.units[a].moving
                       /\ SameStores(d.units[a], b.units[a]) /\ SameStand(d.units[a], b.units[a])
  <2>1. q.units = b.units /\ \A a \in Actor : IsBody(b.units[a])  BY BeforeIs
  <2> QED BY <1>3, <1>4, <2>1 DEF Halted, IsBody
<1>8. InputValid(d)
  <2>1. Moves(d)  BY <1>5, BeforeIs DEF Moves, SamePhase
  <2>2. d.intents <= MaxIntents /\ d.barriers <= MaxBarriers  BY <1>5, BeforeIs
  <2> QED BY <1>4, <2>1, <2>2 DEF InputValid, NoInput
<1>9. b.epoch <= d.epoch /\ d.events.boundaries = <<>> /\ \A a \in Actor : d.events.raw[a] = 0
  BY <1>5, BeforeIs
<1>10. \A a \in Actor : /\ d.units[a].thread <= b.units[a].thread /\ d.units[a].credited = b.units[a].credited
                        /\ d.units[a].alive = b.units[a].alive /\ Stands(d.units[a], b.units[a])
  <2>1. \A a \in Actor : b.units[a].thread <= b.units[a].thread  BY BeforeIs
  <2> QED BY <1>7, <2>1 DEF SameStores, SameStand, Stands
<1> QED BY <1>5, <1>6, <1>7, <1>8, <1>9, <1>10 DEF InputStep

\* Replacing the active body touches nothing else.
LEMMA WithActiveIs ==
  ASSUME NEW m, Typed(m), NEW u, IsBody(u), NEW g, g = WithActive(m, u)
  PROVE  /\ Typed(g) /\ SameClock(g, m) /\ SameCount(g, m) /\ SamePhase(g, m)
         /\ SameInput(g, m) /\ SameEnd(g, m)
         /\ g.epoch = m.epoch /\ g.shot = m.shot /\ g.events = m.events
         /\ \A a \in Actor : g.units[a] = IF a = m.actor THEN u ELSE m.units[a]
<1>1. /\ DOMAIN g = DOMAIN m /\ SameClock(g, m) /\ SameCount(g, m) /\ SamePhase(g, m)
      /\ SameInput(g, m) /\ SameEnd(g, m)
      /\ g.epoch = m.epoch /\ g.shot = m.shot /\ g.events = m.events
      /\ g.utility = m.utility
      /\ g.units = [m.units EXCEPT ![m.actor] = u]
  BY DEF WithActive, Typed, SameClock, SameCount, SamePhase, SameInput, SameEnd
<1>2. DOMAIN g.units = Actor /\ \A a \in Actor : g.units[a] = IF a = m.actor THEN u ELSE m.units[a]
  BY <1>1 DEF Typed
<1>3. \A a \in Actor : IsBody(g.units[a])  BY <1>2 DEF Typed
<1>4. Typed(g)
  BY <1>1, <1>2, <1>3 DEF Typed, SameClock, SameCount, SamePhase, SameInput, SameEnd
<1> QED BY <1>1, <1>2, <1>4

\* A jump.
LEMMA JumpStep ==
  ASSUME NEW b, NEW q, Before(b, q), NEW i \in Intents, i.type = "jump", Allowed(b, i),
         NEW d, d = [Effect(q, i) EXCEPT !.intents = @ + 1]
  PROVE  InputStep(b, d)
<1> DEFINE dir == i.dir
           u == Airborne(Active(q), dir # 0)
           g == WithActive(q, u)
<1>1. dir \in -1 .. 1 /\ (dir = 0 => b.held = 0)
  BY DEF Intents, Allowed, Offence, Utility
<1>2. d = [g EXCEPT !.aim = FALSE, !.held = IF @ = 0 THEN 0 ELSE dir, !.intents = @ + 1]
  BY DEF Effect
<1>3. Typed(q) /\ q.actor = b.actor /\ q.units = b.units /\ b.actor \in Actor /\ q.held = b.held
      /\ \A a \in Actor : IsBody(b.units[a])
  BY BeforeIs
<1>4. IsBody(u) /\ ~u.grounded /\ u.drive = "jump" /\ u.air = 0 /\ u.alive = b.units[b.actor].alive
      /\ SameStores(u, b.units[b.actor])
  <2> DEFINE x == b.units[b.actor]
  <2>1. IsBody(x)  BY <1>3
  <2> DEFINE mv == dir # 0
  <2>2. u = [x EXCEPT !.grounded = FALSE, !.moving = mv, !.drive = "jump", !.air = 0]
    BY <1>3 DEF Airborne, Active
  <2>3. mv \in BOOLEAN OBVIOUS
  <2> HIDE DEF mv, x, u
  <2>4. IsRecord(u)  BY <2>1, <2>2 DEF IsRecord, IsBody
  <2> QED BY <2>1, <2>2, <2>3, <2>4 DEF IsBody, Drive, SameStores, x
<1> HIDE DEF dir, u
<1>5. /\ Typed(g) /\ SameClock(g, q) /\ SameCount(g, q) /\ SamePhase(g, q)
      /\ SameInput(g, q) /\ SameEnd(g, q)
      /\ g.epoch = q.epoch /\ g.shot = q.shot /\ g.events = q.events
      /\ \A a \in Actor : g.units[a] = IF a = b.actor THEN u ELSE b.units[a]
  <2>1. /\ Typed(g) /\ SameClock(g, q) /\ SameCount(g, q) /\ SamePhase(g, q)
        /\ SameInput(g, q) /\ SameEnd(g, q)
        /\ g.epoch = q.epoch /\ g.shot = q.shot /\ g.events = q.events
        /\ \A a \in Actor : g.units[a] = IF a = q.actor THEN u ELSE q.units[a]
    <3>1. Typed(q) /\ IsBody(u) /\ g = WithActive(q, u)  BY <1>3, <1>4
    <3> HIDE DEF g
    <3> QED BY <3>1, WithActiveIs
  <2>2. q.actor = b.actor /\ q.units = b.units  BY <1>3
  <2> HIDE DEF g
  <2> QED BY <2>1, <2>2
<1> HIDE DEF g
<1> DEFINE held == IF g.held = 0 THEN 0 ELSE dir
<1>6. /\ DOMAIN d = DOMAIN g /\ d.aim = FALSE /\ d.held = held /\ d.lease = g.lease
      /\ d.refreshed = g.refreshed /\ d.intents = g.intents + 1
      /\ d.tick = g.tick /\ d.turn = g.turn /\ d.actor = g.actor /\ d.cast = g.cast
      /\ SamePhase(d, g) /\ SameEnd(d, g) /\ SameCount(d, g) /\ d.shot = g.shot
      /\ d.epoch = g.epoch /\ d.events = g.events /\ d.units = g.units
  <2> HIDE DEF held
  <2>1. d = [g EXCEPT !.aim = FALSE, !.held = held, !.intents = @ + 1]
    BY <1>2, <1>5 DEF Typed, held
  <2> QED BY <1>5, <2>1 DEF Typed, SamePhase, SameEnd, SameCount
<1>7. held \in -1 .. 1 /\ (held = 0) = (b.held = 0)
  BY <1>1, <1>3, <1>5 DEF SameInput
<1> HIDE DEF held
<1>8. /\ d.intents = b.intents + 1 /\ d.barriers = b.barriers /\ d.lease = b.lease
      /\ d.refreshed = b.refreshed
      /\ d.tick = b.tick /\ d.turn = b.turn /\ d.actor = b.actor /\ d.cast = b.cast
      /\ SamePhase(d, b) /\ SameEnd(d, b) /\ d.shot = b.shot
      /\ d.epoch = b.epoch /\ d.events = q.events
  <2>1. /\ d.intents = q.intents + 1 /\ d.barriers = q.barriers /\ d.lease = q.lease
        /\ d.refreshed = q.refreshed
        /\ d.tick = q.tick /\ d.turn = q.turn /\ d.actor = q.actor /\ d.cast = q.cast
        /\ SamePhase(d, q) /\ SameEnd(d, q) /\ d.shot = q.shot
        /\ d.epoch = q.epoch /\ d.events = q.events
    BY <1>5, <1>6 DEF SameClock, SamePhase, SameEnd, SameCount, SameInput
  <2> QED BY <2>1, BeforeIs DEF SamePhase, SameEnd
<1>9. Typed(d)
  <2>1. d.intents \in Nat  BY <1>8, BeforeIs
  <2> QED BY <1>5, <1>6, <1>7, <2>1 DEF Typed, SamePhase, SameEnd, SameCount
<1>10. InputValid(d)
  <2>1. Moves(d) /\ InputValid(b)  BY <1>8, BeforeIs DEF Moves, SamePhase
  <2>2. d.intents <= MaxIntents /\ d.barriers <= MaxBarriers  BY <1>8, BeforeIs
  <2> QED BY <1>6, <1>7, <1>8, <2>1, <2>2 DEF InputValid
<1>11. b.epoch <= d.epoch /\ d.events.boundaries = <<>> /\ \A a \in Actor : d.events.raw[a] = 0
  BY <1>8, BeforeIs
<1>12. \A a \in Actor : /\ d.units[a].thread <= b.units[a].thread /\ d.units[a].credited = b.units[a].credited
                        /\ d.units[a].alive = b.units[a].alive
                        /\ Stands(d.units[a], b.units[a]) \/ (a = b.actor /\ Jumps(d.units[a]))
                        /\ a # b.actor /\ d.units[a].moving => b.units[a].moving
  <2>1. \A a \in Actor : b.units[a].thread <= b.units[a].thread /\ Stands(b.units[a], b.units[a])
    BY BeforeIs
  <2>2. b.units[b.actor].alive  BY DEF Before, Active
  <2> TAKE a \in Actor
  <2>3. d.units[a] = IF a = b.actor THEN u ELSE b.units[a]  BY <1>5, <1>6
  <2>4. CASE a = b.actor
    <3>1. d.units[a] = u  BY <2>3, <2>4
    <3>2. Jumps(u) /\ u.thread = b.units[a].thread /\ u.credited = b.units[a].credited
          /\ u.alive = b.units[a].alive
      BY <1>4, <2>2, <2>4 DEF SameStores, Jumps
    <3> QED BY <2>1, <2>4, <3>1, <3>2
  <2>5. CASE a # b.actor
    <3>1. d.units[a] = b.units[a]  BY <2>3, <2>5
    <3> QED BY <2>1, <2>5, <3>1
  <2> QED BY <2>4, <2>5
<1> QED BY <1>8, <1>9, <1>10, <1>11, <1>12 DEF InputStep

\* A shot: the price is paid and the projectile flies.
LEMMA FireStep ==
  ASSUME NEW b, NEW q, Before(b, q), NEW i \in Intents, i.type = "fire", Allowed(b, i),
         NEW d, d = [Effect(q, i) EXCEPT !.intents = @ + 1]
  PROVE  /\ Between(b, d) /\ d.tick < d.deadline /\ d.tick < CombatTicks /\ d.tick <= CombatTicks
<1> DEFINE u == [Active(q) EXCEPT !.thread = @ - ShotPrice]
           g == WithActive(q, u)
           k == [g EXCEPT !.shot = TRUE, !.cast = TRUE]
           p == EnterPhase(k, "projectile", None)
<1>1. d = [p EXCEPT !.intents = @ + 1]
  BY DEF Effect, Fire
<1>2. b.phase = "action" /\ b.held = 0 /\ Steady(b) /\ b.units[b.actor].thread >= ShotPrice
  BY DEF Allowed, Offence, Utility, Active
<1>3. Typed(q) /\ q.actor = b.actor /\ q.units = b.units /\ b.actor \in Actor /\ Typed(b)
      /\ \A a \in Actor : IsBody(b.units[a]) /\ Rich(b.units[a]) /\ Still(b.units[a])
  BY BeforeIs
<1>a. ShotPrice \in Nat /\ MaxThread \in Nat /\ MaxTurns \in Nat /\ ProjectileTicks \in Nat
      /\ ProjectileTicks > 0 /\ MaxAirTicks \in Nat
  BY Positive
<1>4. IsBody(u) /\ SameStand(u, b.units[b.actor]) /\ u.moving = b.units[b.actor].moving
      /\ u.thread <= b.units[b.actor].thread /\ u.credited = b.units[b.actor].credited
      /\ u.leap = b.units[b.actor].leap
  <2> DEFINE x == b.units[b.actor]
  <2>1. IsBody(x) /\ x.thread \in Nat /\ x.thread >= ShotPrice  BY <1>2, <1>3 DEF IsBody
  <2>2. u = [x EXCEPT !.thread = @ - ShotPrice]
    BY <1>3 DEF Active
  <2> HIDE DEF x, u
  <2>3. x.thread - ShotPrice \in Nat /\ x.thread - ShotPrice <= x.thread  BY <1>a, <2>1
  <2>4. IsRecord(u)  BY <2>1, <2>2 DEF IsRecord, IsBody
  <2> QED BY <2>1, <2>2, <2>3, <2>4 DEF IsBody, SameStand, x
<1> HIDE DEF u
<1>5. /\ Typed(g) /\ SameClock(g, q) /\ SameCount(g, q) /\ SamePhase(g, q)
      /\ SameInput(g, q) /\ SameEnd(g, q)
      /\ g.epoch = q.epoch /\ g.shot = q.shot /\ g.events = q.events
      /\ \A a \in Actor : g.units[a] = IF a = b.actor THEN u ELSE b.units[a]
  <2>1. /\ Typed(g) /\ SameClock(g, q) /\ SameCount(g, q) /\ SamePhase(g, q)
        /\ SameInput(g, q) /\ SameEnd(g, q)
        /\ g.epoch = q.epoch /\ g.shot = q.shot /\ g.events = q.events
        /\ \A a \in Actor : g.units[a] = IF a = q.actor THEN u ELSE q.units[a]
    <3>1. Typed(q) /\ IsBody(u) /\ g = WithActive(q, u)  BY <1>3, <1>4
    <3> HIDE DEF g
    <3> QED BY <3>1, WithActiveIs
  <2>2. q.actor = b.actor /\ q.units = b.units  BY <1>3
  <2> HIDE DEF g
  <2> QED BY <2>1, <2>2
<1> HIDE DEF g
<1>6. /\ Typed(k) /\ k.tick = g.tick /\ k.turn = g.turn /\ k.actor = g.actor /\ k.cast = TRUE
      /\ k.shot = TRUE /\ k.intents = g.intents /\ k.barriers = g.barriers
      /\ SameEnd(k, g) /\ k.epoch = g.epoch /\ k.events = g.events /\ k.units = g.units
  BY <1>5 DEF Typed, SameEnd
<1> HIDE DEF k
<1>7. /\ Typed(p) /\ Halted(p, k, Actor)
      /\ SameClock(p, k) /\ SameCount(p, k) /\ SameEnd(p, k)
      /\ p.phase = "projectile" /\ p.started = k.tick
      /\ p.deadline = k.tick + ProjectileTicks /\ p.settling = None
      /\ NoInput(p) /\ p.epoch = k.epoch + 1 /\ p.shot = k.shot
      /\ p.events.raw = k.events.raw
      /\ p.events.boundaries = Append(k.events.boundaries, "phase")
  <2>1. "projectile" \in Phase /\ None \in Settling  BY DEF Phase, Settling
  <2>2. Stops(k, "projectile") = Actor  BY DEF Stops
  <2>3. Duration("projectile") = ProjectileTicks  BY DEF Duration
  <2>4. p = EnterPhase(k, "projectile", None) /\ Typed(k)  BY <1>6
  <2> HIDE DEF p
  <2>5. /\ Typed(p) /\ Halted(p, k, Stops(k, "projectile"))
        /\ SameClock(p, k) /\ SameCount(p, k) /\ SameEnd(p, k)
        /\ p.phase = "projectile" /\ p.started = k.tick
        /\ p.deadline = k.tick + Duration("projectile") /\ p.settling = None
        /\ NoInput(p) /\ p.epoch = k.epoch + 1 /\ p.shot = k.shot
        /\ p.events.raw = k.events.raw
        /\ p.events.boundaries = Append(k.events.boundaries, "phase")
    BY <2>1, <2>4, EnterPhaseIs
  <2> QED BY <2>2, <2>3, <2>5
<1> HIDE DEF p
<1>8. /\ DOMAIN d = DOMAIN p /\ d.intents = p.intents + 1 /\ d.tick = p.tick /\ d.turn = p.turn
      /\ d.actor = p.actor /\ d.cast = p.cast /\ SameCount(d, p) /\ SamePhase(d, p)
      /\ SameInput(d, p) /\ SameEnd(d, p) /\ d.epoch = p.epoch /\ d.shot = p.shot
      /\ d.events = p.events /\ d.units = p.units
  BY <1>1, <1>7 DEF Typed, SameCount, SamePhase, SameInput, SameEnd
<1>9. /\ d.tick = b.tick /\ d.turn = b.turn /\ d.cast = TRUE /\ d.shot = TRUE
      /\ d.intents = b.intents + 1 /\ d.barriers = b.barriers
      /\ d.winner = b.winner /\ d.why = b.why /\ d.phase = "projectile" /\ d.started = b.tick
      /\ d.deadline = b.tick + ProjectileTicks /\ d.settling = None /\ NoInput(d)
      /\ d.epoch = b.epoch + 1 /\ d.events.raw = q.events.raw
  <2>1. /\ g.tick = b.tick /\ g.turn = b.turn /\ g.intents = b.intents /\ g.barriers = b.barriers
        /\ g.winner = b.winner /\ g.why = b.why /\ g.epoch = b.epoch /\ g.events = q.events
    BY <1>5, BeforeIs DEF SameClock, SameCount, SameEnd
  <2> QED BY <1>6, <1>7, <1>8, <2>1
          DEF SameClock, SameCount, SamePhase, SameInput, SameEnd, NoInput
<1>10. \A a \in Actor : /\ SameStand(d.units[a], b.units[a]) /\ d.units[a].moving = FALSE
                        /\ d.units[a].thread <= b.units[a].thread
                        /\ d.units[a].credited = b.units[a].credited
                        /\ d.units[a].leap = b.units[a].leap
  <2>1. \A a \in Actor : b.units[a].thread <= b.units[a].thread  BY BeforeIs
  <2> TAKE a \in Actor
  <2>2. g.units[a] = IF a = b.actor THEN u ELSE b.units[a]  BY <1>5
  <2>3. /\ SameStores(d.units[a], g.units[a]) /\ SameStand(d.units[a], g.units[a])
        /\ d.units[a].moving = (g.units[a].moving /\ a \notin Actor)
    BY <1>6, <1>7, <1>8 DEF Halted
  <2>4. /\ SameStand(g.units[a], b.units[a]) /\ g.units[a].thread <= b.units[a].thread
        /\ g.units[a].credited = b.units[a].credited /\ g.units[a].leap = b.units[a].leap
    <3>1. CASE a = b.actor
      <4>1. g.units[a] = u  BY <2>2, <3>1
      <4> QED BY <1>4, <3>1, <4>1
    <3>2. CASE a # b.actor
      <4>1. g.units[a] = b.units[a]  BY <2>2, <3>2
      <4> QED BY <2>1, <4>1 DEF SameStand
    <3> QED BY <3>1, <3>2
  <2> QED BY <2>3, <2>4 DEF SameStand, SameStores
<1>11. Typed(d)
  <2>1. d.intents \in Nat  BY <1>9, BeforeIs
  <2> QED BY <1>7, <1>8, <2>1 DEF Typed, SameCount, SamePhase, SameInput, SameEnd
<1>12. ClockValid(b) /\ ResultValid(b) /\ b.tick < CombatTicks /\ b.tick \in Nat /\ CombatTicks \in Nat
       /\ b.turn \in Nat
  BY <1>2, <1>3, CombatTicksIs DEF Before, Sound, Typed
<1>13. Paced(d) /\ d.tick < d.deadline /\ d.tick < CombatTicks /\ d.tick <= CombatTicks
  <2>1. Duration(d.phase) = ProjectileTicks  BY <1>9 DEF Duration
  <2> QED BY <1>2, <1>a, <1>9, <1>12, <2>1 DEF Paced, ClockValid
<1>14. CastValid(d)  BY <1>9 DEF CastValid, None
<1>15. InputValid(d)
  <2>1. d.intents <= MaxIntents /\ d.barriers <= MaxBarriers  BY <1>9, BeforeIs
  <2> QED BY <1>9, <1>10, <2>1 DEF InputValid, NoInput
<1>16. ResultValid(d)
  <2>1. b.winner = None /\ b.why = None  BY <1>2, <1>12 DEF ResultValid
  <2> QED BY <1>9, <2>1 DEF ResultValid, None
<1>17. Bodies(d)  BY <1>3, <1>10 DEF Bodies, Still, SameStand
<1>18. Placed(d)
  <2>1. Steady(d) /\ AllAlive(d) /\ ~Moves(d) /\ \A a \in Actor : d.units[a].grounded
    BY <1>2, <1>9, <1>10 DEF Steady, AllAlive, SameStand, Moves
  <2> QED BY <1>9, <2>1 DEF Placed
<1>19. From(b, d)
  <2>1. b.epoch < d.epoch /\ b.epoch <= d.epoch  BY <1>9, BeforeIs
  <2>2. ASSUME NEW a \in Actor
        PROVE  /\ d.units[a].thread <= MaxThread /\ d.units[a].credited \in Never .. MaxTurns
               /\ Hurt(b.units[a], d.units[a], d.events.raw[a])
               /\ d.units[a].grounded
    <3>1. b.units[a].thread \in Nat /\ d.units[a].thread \in Nat  BY <1>3, <1>11 DEF Typed, IsBody
    <3>2. d.events.raw[a] = 0  BY <1>9, BeforeIs
    <3>3. d.units[a].grounded  BY <1>2, <1>10 DEF Steady, SameStand
    <3> QED BY <1>a, <1>3, <1>10, <3>1, <3>2, <3>3 DEF Rich, Hurt, SameStand
  <2> QED BY <2>1, <2>2 DEF From
<1> QED BY <1>11, <1>13, <1>14, <1>15, <1>16, <1>17, <1>18, <1>19 DEF Between

\* What a utility leaves of the match before anybody leaps.
LEMMA UseIs ==
  ASSUME NEW b, NEW q, Before(b, q), b.units[b.actor].thread >= UtilityPrice,
         NEW type, NEW c, c = UseThread(q, type)
  PROVE  /\ Typed(c) /\ c.tick = b.tick /\ c.turn = b.turn /\ c.actor = b.actor /\ c.cast = b.cast
         /\ SamePhase(c, b) /\ SameEnd(c, b) /\ c.shot = b.shot /\ c.epoch = b.epoch + 1
         /\ c.intents = b.intents /\ c.barriers = b.barriers /\ NoInput(c) /\ c.events = q.events
         /\ \A a \in Actor : /\ SameStand(c.units[a], b.units[a])
                             /\ c.units[a].moving => b.units[a].moving
                             /\ c.units[a].thread <= b.units[a].thread
                             /\ c.units[a].credited = b.units[a].credited
                             /\ c.units[a].leap = b.units[a].leap
                             /\ \/ /\ c.units[a].shield = b.units[a].shield
                                   /\ c.units[a].expires = b.units[a].expires
                                \/ /\ c.units[a].shield = ShieldPoints
                                   /\ c.units[a].expires = b.turn + 2
                                   /\ a = b.actor
<1> DEFINE x == b.units[b.actor]
           u == [x EXCEPT !.thread = @ - UtilityPrice, !.moving = FALSE]
           y == [u EXCEPT !.shield = ShieldPoints, !.expires = b.turn + 2]
           v == IF type = "threadguard" THEN y ELSE u
           g == WithActive(q, v)
           k == [g EXCEPT !.utility = TRUE]
<1>1. Typed(q) /\ q.actor = b.actor /\ q.units = b.units /\ q.turn = b.turn /\ b.actor \in Actor
      /\ Typed(b) /\ \A a \in Actor : IsBody(b.units[a]) /\ b.units[a].thread <= b.units[a].thread
  BY BeforeIs
<1>2. c = ClearInput(k, {b.actor})
  BY <1>1 DEF UseThread, Active
<1>3. UtilityPrice \in Nat /\ ShieldPoints \in Nat /\ b.turn + 2 \in Int
  BY <1>1, Positive DEF Typed
<1>4. IsBody(x) /\ x.thread \in Nat  BY <1>1 DEF IsBody
<1>5. IsBody(u) /\ IsBody(y)
  <2>1. x.thread - UtilityPrice \in Nat  BY <1>3, <1>4
  <2>2. IsRecord(u)  BY <1>4 DEF IsRecord, IsBody
  <2>3. IsBody(u)  BY <1>4, <2>1, <2>2 DEF IsBody
  <2> HIDE DEF u
  <2>4. IsRecord(y)  BY <2>3 DEF IsRecord, IsBody
  <2> QED BY <1>3, <2>3, <2>4 DEF IsBody
<1>6. /\ SameStand(u, x) /\ u.moving = FALSE /\ u.thread <= x.thread /\ u.credited = x.credited
      /\ u.leap = x.leap /\ u.shield = x.shield /\ u.expires = x.expires
  BY <1>3, <1>4 DEF IsBody, SameStand
<1> HIDE DEF u
<1>7. /\ SameStand(y, x) /\ y.moving = FALSE /\ y.thread <= x.thread /\ y.credited = x.credited
      /\ y.leap = x.leap /\ y.shield = ShieldPoints /\ y.expires = b.turn + 2
  BY <1>5, <1>6 DEF IsBody, SameStand
<1> HIDE DEF y
<1>8. /\ IsBody(v) /\ SameStand(v, x) /\ v.moving = FALSE /\ v.thread <= x.thread
      /\ v.credited = x.credited /\ v.leap = x.leap
      /\ \/ v.shield = x.shield /\ v.expires = x.expires
         \/ v.shield = ShieldPoints /\ v.expires = b.turn + 2
  <2> HIDE DEF x
  <2> QED BY <1>5, <1>6, <1>7
<1> HIDE DEF v
<1>9. /\ Typed(g) /\ SameClock(g, q) /\ SameCount(g, q) /\ SamePhase(g, q)
      /\ SameInput(g, q) /\ SameEnd(g, q)
      /\ g.epoch = q.epoch /\ g.shot = q.shot /\ g.events = q.events
      /\ \A a \in Actor : g.units[a] = IF a = q.actor THEN v ELSE q.units[a]
  <2>1. Typed(q) /\ IsBody(v) /\ g = WithActive(q, v)  BY <1>1, <1>8
  <2> HIDE DEF g
  <2> QED BY <2>1, WithActiveIs
<1> HIDE DEF g
<1>10. /\ Typed(k) /\ SameClock(k, g) /\ k.barriers = g.barriers /\ SamePhase(k, g) /\ SameEnd(k, g)
       /\ k.epoch = g.epoch /\ k.shot = g.shot /\ k.events = g.events /\ k.units = g.units
  BY <1>9 DEF Typed, SameClock, SamePhase, SameEnd
<1> HIDE DEF k
<1>11. /\ Typed(c) /\ Halted(c, k, {b.actor})
       /\ SameClock(c, k) /\ SameCount(c, k) /\ SamePhase(c, k)
       /\ NoInput(c) /\ SameEnd(c, k)
       /\ c.epoch = k.epoch + 1 /\ c.shot = k.shot /\ c.events = k.events
  BY <1>2, <1>10, ClearInputIs
<1>12. /\ c.tick = b.tick /\ c.turn = b.turn /\ c.actor = b.actor /\ c.cast = b.cast
       /\ SamePhase(c, b) /\ SameEnd(c, b) /\ c.shot = b.shot /\ c.epoch = b.epoch + 1
       /\ c.intents = b.intents /\ c.barriers = b.barriers /\ c.events = q.events
  <2>1. /\ c.tick = q.tick /\ c.turn = q.turn /\ c.actor = q.actor /\ c.cast = q.cast
        /\ SamePhase(c, q) /\ SameEnd(c, q) /\ c.shot = q.shot /\ c.epoch = q.epoch + 1
        /\ c.intents = q.intents /\ c.barriers = q.barriers /\ c.events = q.events
    BY <1>9, <1>10, <1>11 DEF SameClock, SameCount, SamePhase, SameEnd
  <2> QED BY <2>1, BeforeIs DEF SamePhase, SameEnd
<1>13. ASSUME NEW a \in Actor
       PROVE  /\ SameStand(c.units[a], b.units[a])
              /\ c.units[a].moving => b.units[a].moving
              /\ c.units[a].thread <= b.units[a].thread
              /\ c.units[a].credited = b.units[a].credited
              /\ c.units[a].leap = b.units[a].leap
              /\ \/ /\ c.units[a].shield = b.units[a].shield
                    /\ c.units[a].expires = b.units[a].expires
                 \/ /\ c.units[a].shield = ShieldPoints
                    /\ c.units[a].expires = b.turn + 2
                    /\ a = b.actor
  <2>1. /\ SameStores(c.units[a], k.units[a]) /\ SameStand(c.units[a], k.units[a])
        /\ c.units[a].moving = (k.units[a].moving /\ a \notin {b.actor})
    BY <1>11 DEF Halted
  <2>2. CASE a = b.actor
    <3>1. k.units[a] = v  BY <1>1, <1>9, <1>10, <2>2
    <3> QED BY <1>8, <2>1, <2>2, <3>1 DEF SameStores, SameStand
  <2>3. CASE a # b.actor
    <3>1. k.units[a] = b.units[a]  BY <1>1, <1>9, <1>10, <2>3
    <3>2. b.units[a].moving \in BOOLEAN /\ b.units[a].thread <= b.units[a].thread  BY <1>1 DEF IsBody
    <3> QED BY <2>1, <2>3, <3>1, <3>2 DEF SameStores, SameStand
  <2> QED BY <2>2, <2>3
<1> QED BY <1>11, <1>12, <1>13

\* A shield, or a leap: the price is paid once a turn.
LEMMA GuardStep ==
  ASSUME NEW b, NEW q, Before(b, q), NEW i \in Intents, i.type \in Utility, Allowed(b, i),
         NEW d, d = [Effect(q, i) EXCEPT !.intents = @ + 1]
  PROVE  InputStep(b, d) /\ \A a \in Actor : Rich(d.units[a])
<1> DEFINE c == UseThread(q, i.type)
           w == [Airborne(Active(c), TRUE) EXCEPT !.leap = TRUE]
           l == WithActive(c, w)
<1>1. b.units[b.actor].thread >= UtilityPrice /\ b.phase = "action" /\ Steady(b)
      /\ i.type \in {"threadguard", "threadleap"}
  BY DEF Allowed, Offence, Utility, Active
<1>2. d = [c EXCEPT !.intents = @ + 1] \/ d = [l EXCEPT !.intents = @ + 1]
  <2>1. CASE i.type = "threadguard"
    <3>1. Effect(q, i) = c  BY <2>1 DEF Effect
    <3> HIDE DEF c
    <3> QED BY <3>1
  <2>2. CASE i.type = "threadleap"
    <3>1. Effect(q, i) = Leap(q)  BY <2>2 DEF Effect
    <3>2. Leap(q) = l  BY <2>2 DEF Leap
    <3> HIDE DEF l
    <3> QED BY <3>1, <3>2
  <2> QED BY <1>1, <2>1, <2>2
<1>3. /\ Typed(c) /\ c.tick = b.tick /\ c.turn = b.turn /\ c.actor = b.actor /\ c.cast = b.cast
      /\ SamePhase(c, b) /\ SameEnd(c, b) /\ c.shot = b.shot /\ c.epoch = b.epoch + 1
      /\ c.intents = b.intents /\ c.barriers = b.barriers /\ NoInput(c) /\ c.events = q.events
      /\ \A a \in Actor : /\ SameStand(c.units[a], b.units[a])
                          /\ c.units[a].moving => b.units[a].moving
                          /\ c.units[a].thread <= b.units[a].thread
                          /\ c.units[a].credited = b.units[a].credited
                          /\ c.units[a].leap = b.units[a].leap
                          /\ \/ /\ c.units[a].shield = b.units[a].shield
                                /\ c.units[a].expires = b.units[a].expires
                             \/ /\ c.units[a].shield = ShieldPoints
                                /\ c.units[a].expires = b.turn + 2
                                /\ a = b.actor
  BY <1>1, UseIs
<1> HIDE DEF c
<1>4. /\ b.actor \in Actor /\ \A a \in Actor : IsBody(b.units[a]) /\ IsBody(c.units[a]) /\ Rich(b.units[a])
  BY <1>3, BeforeIs DEF Typed
<1>5. ShieldPoints \in Nat /\ ShieldPoints > 0 /\ MaxTurns \in Nat /\ b.turn \in Nat /\ MaxThread \in Nat
      /\ b.turn < MaxTurns
  <2>1. ClockValid(b) /\ Typed(b)  BY DEF Before, Sound
  <2> QED BY <1>1, <2>1, Positive DEF ClockValid, Typed
<1>6. \A a \in Actor : Rich(c.units[a])
  <2> TAKE a \in Actor
  <2>1. b.units[a].thread \in Nat /\ c.units[a].thread \in Nat  BY <1>4 DEF IsBody
  <2>2. /\ c.units[a].stitching = b.units[a].stitching /\ c.units[a].alive = b.units[a].alive
        /\ c.units[a].grounded = b.units[a].grounded /\ c.units[a].drive = b.units[a].drive
        /\ c.units[a].alive
    BY <1>1, <1>3 DEF SameStand, Steady
  <2>3. c.units[a].shield <= ShieldPoints /\ c.units[a].expires \in Never .. MaxTurns + 2
        /\ (c.units[a].shield = 0) = (c.units[a].expires = Never)
    <3>1. CASE c.units[a].shield = b.units[a].shield /\ c.units[a].expires = b.units[a].expires
      BY <1>4, <3>1 DEF Rich
    <3>2. CASE c.units[a].shield = ShieldPoints /\ c.units[a].expires = b.turn + 2
      BY <1>5, <3>2 DEF Never
    <3> QED BY <1>3, <3>1, <3>2
  <2>4. c.units[a].thread <= MaxThread /\ c.units[a].credited \in Never .. MaxTurns
        /\ c.units[a].leap = b.units[a].leap
    BY <1>3, <1>4, <1>5, <2>1 DEF Rich
  <2> QED BY <1>4, <2>2, <2>3, <2>4 DEF Rich
<1>7. /\ IsBody(w) /\ Jumps(w) /\ Rich(w) /\ w.thread = c.units[b.actor].thread
      /\ w.credited = c.units[b.actor].credited /\ w.alive = c.units[b.actor].alive
  <2> DEFINE x == c.units[b.actor]
  <2>1. IsBody(x) /\ Rich(x) /\ x.alive /\ x.alive = TRUE
    <3>1. b.units[b.actor].alive  BY <1>1, <1>4 DEF Steady
    <3>2. IsBody(x) /\ Rich(x)  BY <1>4, <1>6
    <3>3. x.alive = b.units[b.actor].alive  BY <1>3, <1>4 DEF SameStand
    <3> QED BY <3>1, <3>2, <3>3 DEF IsBody
  <2>2. w = [x EXCEPT !.grounded = FALSE, !.moving = TRUE, !.drive = "jump", !.air = 0, !.leap = TRUE]
    BY <1>3, <2>1 DEF Airborne, Active, IsBody
  <2> HIDE DEF x, w
  <2>3. IsRecord(w)  BY <2>1, <2>2 DEF IsBody, IsRecord
  <2>4. IsBody(w)  BY <2>1, <2>2, <2>3 DEF IsBody, Drive
  <2>5. /\ w.grounded = FALSE /\ w.drive = "jump" /\ w.air = 0 /\ w.alive = x.alive
        /\ w.stitching = x.stitching /\ w.thread = x.thread /\ w.credited = x.credited
        /\ w.shield = x.shield /\ w.expires = x.expires
    BY <2>1, <2>2 DEF IsBody
  <2>6. Jumps(w) /\ Rich(w)  BY <2>1, <2>5 DEF Jumps, Rich
  <2> QED BY <2>4, <2>5, <2>6 DEF x
<1> HIDE DEF w
<1>8. /\ Typed(l) /\ SameClock(l, c) /\ SameCount(l, c) /\ SamePhase(l, c)
      /\ SameInput(l, c) /\ SameEnd(l, c)
      /\ l.epoch = c.epoch /\ l.shot = c.shot /\ l.events = c.events
      /\ \A a \in Actor : l.units[a] = IF a = c.actor THEN w ELSE c.units[a]
  <2>1. Typed(c) /\ IsBody(w) /\ l = WithActive(c, w)  BY <1>3, <1>7
  <2> HIDE DEF l
  <2> QED BY <2>1, WithActiveIs
<1> HIDE DEF l
<1>9. PICK e : d = [e EXCEPT !.intents = @ + 1] /\ (e = c \/ e = l)  BY <1>2
<1>10. /\ Typed(e) /\ e.tick = b.tick /\ e.turn = b.turn /\ e.actor = b.actor /\ e.cast = b.cast
       /\ SamePhase(e, b) /\ SameEnd(e, b) /\ e.shot = b.shot /\ e.epoch = b.epoch + 1
       /\ e.intents = b.intents /\ e.barriers = b.barriers /\ NoInput(e) /\ e.events = q.events
  <2>1. CASE e = c  BY <1>3, <2>1
  <2>2. CASE e = l
    BY <1>3, <1>8, <2>2 DEF SameClock, SameCount, SamePhase, SameInput, SameEnd, NoInput
  <2> QED BY <1>9, <2>1, <2>2
<1>11. ASSUME NEW a \in Actor
       PROVE  /\ Rich(e.units[a])
              /\ e.units[a].thread <= b.units[a].thread /\ e.units[a].credited = b.units[a].credited
              /\ e.units[a].alive = b.units[a].alive
              /\ Stands(e.units[a], b.units[a]) \/ (a = b.actor /\ Jumps(e.units[a]))
              /\ a # b.actor /\ e.units[a].moving => b.units[a].moving
  <2>1. /\ Rich(c.units[a])
        /\ c.units[a].thread <= b.units[a].thread /\ c.units[a].credited = b.units[a].credited
        /\ c.units[a].alive = b.units[a].alive /\ Stands(c.units[a], b.units[a])
        /\ c.units[a].moving => b.units[a].moving
    BY <1>3, <1>6 DEF SameStand, Stands
  <2>2. e.units[a] = c.units[a] \/ (a = b.actor /\ e.units[a] = w)
    BY <1>3, <1>8, <1>9
  <2>3. CASE e.units[a] = c.units[a]  BY <2>1, <2>3
  <2>4. CASE a = b.actor /\ e.units[a] = w  BY <1>7, <2>1, <2>4
  <2> QED BY <2>2, <2>3, <2>4
<1>12. /\ DOMAIN d = DOMAIN e /\ d.intents = e.intents + 1 /\ d.tick = e.tick /\ d.turn = e.turn
       /\ d.actor = e.actor /\ d.cast = e.cast /\ SameCount(d, e) /\ SamePhase(d, e)
       /\ SameInput(d, e) /\ SameEnd(d, e) /\ d.epoch = e.epoch /\ d.shot = e.shot
       /\ d.events = e.events /\ d.units = e.units
  BY <1>9, <1>10 DEF Typed, SameCount, SamePhase, SameInput, SameEnd
<1>13. d.intents \in Nat /\ d.intents <= MaxIntents /\ d.barriers <= MaxBarriers
  BY <1>10, <1>12, BeforeIs DEF SameCount
<1>14. Typed(d)
  BY <1>10, <1>12, <1>13 DEF Typed, SameCount, SamePhase, SameInput, SameEnd
<1>15. InputValid(d)
  <2>1. NoInput(d) /\ d.phase = "action"
    BY <1>1, <1>10, <1>12 DEF NoInput, SameInput, SamePhase
  <2> QED BY <1>13, <2>1 DEF InputValid, NoInput, Moves
<1>16. b.epoch <= d.epoch /\ d.events.boundaries = <<>> /\ \A a \in Actor : d.events.raw[a] = 0
  BY <1>10, <1>12, BeforeIs
<1>17. SamePhase(d, b) /\ SameEnd(d, b) /\ d.tick = b.tick /\ d.turn = b.turn /\ d.actor = b.actor
       /\ d.cast = b.cast /\ d.shot = b.shot
  BY <1>10, <1>12 DEF SamePhase, SameEnd
<1> QED BY <1>11, <1>12, <1>14, <1>15, <1>16, <1>17 DEF InputStep

\* h is in the turn of m, and has its barriers.
Carries(h, m) ==
  /\ DOMAIN h = DOMAIN m /\ h.turn = m.turn /\ h.actor = m.actor /\ h.barriers = m.barriers

Turned(m) == "turn" \in DOMAIN m /\ "actor" \in DOMAIN m /\ "barriers" \in DOMAIN m

\* What is done to the input and the phase of a match carries its turn.
LEMMA StepsCarry ==
  ASSUME NEW m, Turned(m)
  PROVE  /\ \A s : Carries(Halt(m, s), m)
         /\ \A s : Carries(ClearInput(m, s), m)
         /\ \A p, s : Carries(EnterPhase(m, p, s), m)
         /\ \A u : Carries(WithActive(m, u), m)
         /\ \A b : Carries(Resources(b, m), m)
<1>1. \A s : Carries(Halt(m, s), m)  BY DEF Carries, Turned, Halt
<1>2. ASSUME NEW s
      PROVE  Carries(ClearInput(m, s), m)
  <2> DEFINE h == Halt(m, s)
  <2>1. Carries(h, m)  BY <1>1
  <2> HIDE DEF h
  <2>2. ClearInput(m, s) = [h EXCEPT !.held = 0, !.lease = Never, !.refreshed = Never,
                                     !.aim = FALSE, !.epoch = @ + 1]
    BY DEF ClearInput, h
  <2> QED BY <2>1, <2>2 DEF Carries, Turned
<1>3. ASSUME NEW p, NEW s
      PROVE  Carries(EnterPhase(m, p, s), m)
  <2> DEFINE h == ClearInput(m, IF p = "settling" THEN Actor \ Thrown(m) ELSE Actor)
  <2>1. Carries(h, m)  BY <1>2
  <2> HIDE DEF h
  <2>2. EnterPhase(m, p, s) = [h EXCEPT !.phase = p, !.started = m.tick,
                                 !.deadline = m.tick + Duration(p), !.settling = s,
                                 !.events.boundaries = Append(@, "phase")]
    BY DEF EnterPhase, h
  <2> QED BY <2>1, <2>2 DEF Carries, Turned
<1>4. \A u : Carries(WithActive(m, u), m)  BY DEF Carries, Turned, WithActive
<1>5. \A b : Carries(Resources(b, m), m)  BY DEF Carries, Turned, Resources
<1> QED BY <1>1, <1>2, <1>3, <1>4, <1>5

\* A utility carries it.
LEMMA UseCarries ==
  ASSUME NEW m, Turned(m), NEW type
  PROVE  Carries(UseThread(m, type), m)
<1> DEFINE u == [Active(m) EXCEPT !.thread = @ - UtilityPrice, !.moving = FALSE]
           x == IF type = "threadguard"
                THEN [u EXCEPT !.shield = ShieldPoints, !.expires = m.turn + 2] ELSE u
           w == WithActive(m, x)
           k == [w EXCEPT !.utility = TRUE]
<1>1. Carries(w, m)  BY StepsCarry
<1> HIDE DEF w
<1>2. Carries(k, m) /\ Turned(k)  BY <1>1 DEF Carries, Turned
<1>3. UseThread(m, type) = ClearInput(k, {m.actor})  BY DEF UseThread, w
<1> HIDE DEF k
<1>4. Carries(ClearInput(k, {m.actor}), k)  BY <1>2, StepsCarry
<1> QED BY <1>2, <1>3, <1>4 DEF Carries

\* Every intent carries it.
LEMMA EffectCarries ==
  ASSUME NEW q, Turned(q), NEW i \in Intents
  PROVE  Carries(Effect(q, i), q)
<1>1. CASE i.type = "walk_start"
  BY <1>1 DEF Effect, Walk, Carries, Turned
<1>2. CASE i.type = "walk_refresh"
  BY <1>2 DEF Effect, Carries, Turned
<1>3. CASE i.type = "walk_stop"
  <2> DEFINE h == Halt(q, IF Jumping(q) THEN {} ELSE {q.actor})
  <2>1. Carries(h, q)  BY StepsCarry
  <2>2. Effect(q, i) = [h EXCEPT !.held = 0, !.lease = Never, !.refreshed = Never, !.aim = FALSE]
    BY <1>3 DEF Effect, StopWalking
  <2> HIDE DEF h
  <2> QED BY <2>1, <2>2 DEF Carries, Turned
<1>4. CASE i.type = "jump"
  <2> DEFINE h == WithActive(q, Airborne(Active(q), i.dir # 0))
  <2>1. Carries(h, q)  BY StepsCarry
  <2>2. Effect(q, i) = [h EXCEPT !.aim = FALSE, !.held = IF @ = 0 THEN 0 ELSE i.dir]
    BY <1>4 DEF Effect
  <2> HIDE DEF h
  <2> QED BY <2>1, <2>2 DEF Carries, Turned
<1>5. CASE i.type = "aim"
  BY <1>5 DEF Effect, Carries, Turned
<1>6. CASE i.type = "fire"
  <2> DEFINE h == WithActive(q, [Active(q) EXCEPT !.thread = @ - ShotPrice])
             k == [h EXCEPT !.shot = TRUE, !.cast = TRUE]
  <2>1. Carries(h, q)  BY StepsCarry
  <2>2. Effect(q, i) = EnterPhase(k, "projectile", None)  BY <1>6 DEF Effect, Fire
  <2> HIDE DEF h
  <2>3. Carries(k, q) /\ Turned(k)  BY <2>1 DEF Carries, Turned
  <2> HIDE DEF k
  <2>4. Carries(EnterPhase(k, "projectile", None), k)  BY <2>3, StepsCarry
  <2> QED BY <2>2, <2>3, <2>4 DEF Carries
<1>7. CASE i.type = "threadguard"
  <2>1. Effect(q, i) = UseThread(q, i.type)  BY <1>7 DEF Effect
  <2> QED BY <2>1, UseCarries
<1>8. CASE i.type = "threadleap"
  <2> DEFINE c == UseThread(q, "threadleap")
             u == [Airborne(Active(c), TRUE) EXCEPT !.leap = TRUE]
  <2>1. Effect(q, i) = WithActive(c, u)  BY <1>8 DEF Effect, Leap
  <2>2. Carries(c, q)  BY UseCarries
  <2> HIDE DEF c
  <2>3. Turned(c)  BY <2>2 DEF Carries, Turned
  <2>4. Carries(WithActive(c, u), c)  BY <2>3, StepsCarry
  <2> QED BY <2>1, <2>2, <2>4 DEF Carries
<1>9. CASE i.type \in {"face", "select_relic"}
  <2>1. Effect(q, i) = [q EXCEPT !.aim = FALSE]  BY <1>9 DEF Effect
  <2> QED BY <2>1 DEF Carries, Turned
<1> QED BY <1>1, <1>2, <1>3, <1>4, <1>5, <1>6, <1>7, <1>8, <1>9 DEF Intents

\* What the kernel makes of an intent.
LEMMA IntentIs ==
  ASSUME NEW b, Sound(b), NEW i \in Intents, NEW actor, NEW seen,
         NEW ans, ans = Intent(b, actor, i, seen)
  PROVE  /\ ans.verdict \in {"done", "rejected", "intent_limit"}
         /\ ans.verdict = "done" => Kept(b, ans.match)
         /\ ans.verdict # "rejected" => Current(b, actor, seen)
<1> DEFINE q == [b EXCEPT !.events = Quiet]
           d == [Effect(q, i) EXCEPT !.intents = @ + 1]
           open == Current(b, actor, seen) /\ (i.type \in Utility \/ InputOpen(b))
<1>1. CASE ~open
  <2>1. ans = Answer("rejected", b)  BY <1>1 DEF Intent
  <2> QED BY <2>1 DEF Answer
<1>2. CASE open /\ b.intents >= MaxIntents
  <2>1. ans = Answer("intent_limit", b)  BY <1>2 DEF Intent
  <2> QED BY <1>2, <2>1 DEF Answer
<1>3. CASE open /\ ~(b.intents >= MaxIntents) /\ ~Allowed(b, i)
  <2>1. ans = Answer("rejected", b)  BY <1>3 DEF Intent
  <2> QED BY <2>1 DEF Answer
<1>4. CASE open /\ ~(b.intents >= MaxIntents) /\ Allowed(b, i)
  <2>1. ans = IF i.type \in Utility THEN Answer("done", d) ELSE Done(b, d)
    BY <1>4 DEF Intent
  <2>2. /\ Typed(q) /\ SameClock(q, b) /\ SameCount(q, b) /\ SamePhase(q, b)
        /\ SameInput(q, b) /\ SameEnd(q, b) /\ q.shot = b.shot /\ q.epoch = b.epoch
        /\ q.units = b.units /\ q.events.boundaries = <<>>
        /\ \A a \in Actor : q.events.raw[a] = 0
    BY QuietIs
  <2>3. b.intents < MaxIntents
    <3>1. Typed(b)  BY DEF Sound
    <3> QED BY <1>4, <3>1, Positive DEF Typed
  <2>4. Moves(b) /\ b.tick < b.deadline /\ Active(b).alive
    <3>1. CASE i.type \in Utility
      <4>1. b.phase = "action" /\ b.tick < b.deadline /\ Steady(b)
        BY <1>4, <3>1 DEF Allowed, Offence, Utility
      <4>2. b.actor \in Actor  BY DEF Sound, Typed
      <4> QED BY <4>1, <4>2 DEF Moves, Steady, Active
    <3>2. CASE i.type \notin Utility
      BY <1>4, <3>2 DEF InputOpen
    <3> QED BY <3>1, <3>2
  <2> HIDE DEF q
  <2>5. Before(b, q)  BY <2>2, <2>3, <2>4 DEF Before
  <2>6. b.actor = b.actor /\ q = [b EXCEPT !.events = Quiet]  BY DEF q
  <2>9. b.barriers <= d.barriers
    <3> DEFINE h == Effect(q, i)
    <3>1. Turned(q) /\ q.barriers = b.barriers /\ q.barriers \in Nat
      BY <2>2 DEF Turned, Typed, SameCount
    <3>2. Carries(h, q)  BY <3>1, EffectCarries
    <3> HIDE DEF h
    <3>3. d.barriers = h.barriers  BY <3>1, <3>2 DEF Carries, Turned, h
    <3> QED BY <3>1, <3>2, <3>3 DEF Carries
  <2>7. CASE i.type \in Utility
    <3>1. InputStep(b, d) /\ \A a \in Actor : Rich(d.units[a])
      BY <1>4, <2>5, <2>7, GuardStep
    <3> HIDE DEF d
    <3>2. Between(b, d) /\ d.tick < d.deadline /\ d.tick < CombatTicks /\ d.tick <= CombatTicks
      BY <2>4, <3>1, StepBetween
    <3>3. Kept(b, d)  BY <2>9, <3>1, <3>2, BetweenSound
    <3>4. ans = Answer("done", d)  BY <2>1, <2>7
    <3> QED BY <1>4, <3>3, <3>4 DEF Answer
  <2>8. CASE i.type \notin Utility
    <3>1. Between(b, d) /\ d.tick < d.deadline /\ d.tick < CombatTicks /\ d.tick <= CombatTicks
      <4>1. CASE i.type = "fire"  BY <1>4, <2>5, <4>1, FireStep
      <4>2. CASE i.type # "fire"
        <5>1. i.type \in {"walk_start", "walk_refresh", "walk_stop", "jump", "face",
                          "select_relic", "aim"}
          BY <2>8, <4>2 DEF Intents, Utility
        <5>2. CASE i.type = "walk_start"
          <6>1. InputStep(b, d)  BY <1>4, <2>5, <5>2, WalkStep
          <6> QED BY <2>4, <6>1, StepBetween
        <5>3. CASE i.type = "walk_refresh"
          <6>1. InputStep(b, d)  BY <1>4, <2>5, <5>3, RefreshStep
          <6> QED BY <2>4, <6>1, StepBetween
        <5>4. CASE i.type = "walk_stop"
          <6>1. InputStep(b, d)  BY <2>5, <5>4, StopStep
          <6> QED BY <2>4, <6>1, StepBetween
        <5>5. CASE i.type = "jump"
          <6>1. InputStep(b, d)  BY <1>4, <2>5, <5>5, JumpStep
          <6> QED BY <2>4, <6>1, StepBetween
        <5>6. CASE i.type \in {"face", "select_relic"}
          <6>1. InputStep(b, d)  BY <2>5, <5>6, FaceStep
          <6> QED BY <2>4, <6>1, StepBetween
        <5>7. CASE i.type = "aim"
          <6>1. InputStep(b, d)  BY <1>4, <2>5, <5>7, AimStep
          <6> QED BY <2>4, <6>1, StepBetween
        <5> QED BY <5>1, <5>2, <5>3, <5>4, <5>5, <5>6, <5>7
      <4> QED BY <4>1, <4>2
    <3> HIDE DEF d
    <3>2. Kept(b, Resources(b, d))  BY <2>9, <3>1, ResourcesKept
    <3>3. ans = Answer("done", Resources(b, d))  BY <2>1, <2>8 DEF Done
    <3> QED BY <1>4, <3>2, <3>3 DEF Answer
  <2> QED BY <2>7, <2>8
<1> QED BY <1>1, <1>2, <1>3, <1>4

\* The input of the actor at turn is taken back.
LEMMA ClearedIs ==
  ASSUME NEW b, Sound(b), Moves(b), b.barriers < MaxBarriers, NEW stopped,
         NEW h, h = ClearInput(Counted(b), stopped)
  PROVE  /\ InputStep(b, h) /\ h.epoch = b.epoch + 1 /\ b.barriers <= h.barriers
         /\ \A a \in Actor : Rich(h.units[a])
<1> DEFINE c == Counted(b)
<1>1. /\ Typed(b) /\ InputValid(b) /\ Bodies(b) /\ \A a \in Actor : Rich(b.units[a])
      /\ \A a \in Actor : IsBody(b.units[a])
      /\ b.barriers \in Nat /\ b.epoch \in Nat /\ MaxBarriers \in Nat
  BY Positive DEF Sound, Typed
<1>2. IsEvents(Quiet) /\ Quiet.boundaries = <<>> /\ \A a \in Actor : Quiet.raw[a] = 0
  BY DEF IsEvents, Quiet, Actor, Mark
<1>3. /\ DOMAIN c = DOMAIN b /\ SameClock(c, b) /\ SamePhase(c, b) /\ SameInput(c, b)
      /\ SameEnd(c, b) /\ c.shot = b.shot /\ c.epoch = b.epoch /\ c.units = b.units
      /\ c.events = Quiet /\ c.barriers = b.barriers + 1 /\ c.utility = b.utility
      /\ c.aimId = b.aimId
  BY <1>1 DEF Counted, Typed, SameClock, SamePhase, SameInput, SameEnd
<1> HIDE DEF c
<1>4. Typed(c)
  BY <1>1, <1>2, <1>3 DEF Typed, SameClock, SamePhase, SameInput, SameEnd
<1>5. /\ Typed(h) /\ Halted(h, c, stopped)
      /\ SameClock(h, c) /\ SameCount(h, c) /\ SamePhase(h, c)
      /\ NoInput(h) /\ SameEnd(h, c)
      /\ h.epoch = c.epoch + 1 /\ h.shot = c.shot /\ h.events = c.events
  <2>1. h = ClearInput(c, stopped)  BY DEF c
  <2> QED BY <1>4, <2>1, ClearInputIs
<1>6. /\ h.tick = b.tick /\ h.turn = b.turn /\ h.actor = b.actor /\ h.cast = b.cast
      /\ h.intents = b.intents /\ h.barriers = b.barriers + 1
      /\ SamePhase(h, b) /\ SameEnd(h, b) /\ h.shot = b.shot /\ h.epoch = b.epoch + 1
      /\ h.events = Quiet
  BY <1>3, <1>5 DEF SameClock, SameCount, SamePhase, SameEnd
<1>7. \A a \in Actor : /\ SameStores(h.units[a], b.units[a]) /\ SameStand(h.units[a], b.units[a])
                       /\ h.units[a].moving = (b.units[a].moving /\ a \notin stopped)
  BY <1>3, <1>5 DEF Halted
<1>8. InputValid(h)
  <2>1. Moves(h)  BY <1>6 DEF Moves, SamePhase
  <2>2. h.intents <= MaxIntents /\ h.barriers <= MaxBarriers
    BY <1>1, <1>6 DEF InputValid
  <2> QED BY <1>5, <2>1, <2>2 DEF InputValid, NoInput
<1>9. ASSUME NEW a \in Actor
      PROVE  /\ h.units[a].thread <= b.units[a].thread /\ h.units[a].credited = b.units[a].credited
             /\ h.units[a].alive = b.units[a].alive
             /\ Stands(h.units[a], b.units[a])
             /\ a # b.actor /\ h.units[a].moving => b.units[a].moving
             /\ Rich(h.units[a])
  <2>1. b.units[a].thread <= b.units[a].thread  BY <1>1 DEF IsBody
  <2>2. Rich(h.units[a])
    <3>1. /\ h.units[a].stitching = b.units[a].stitching /\ h.units[a].alive = b.units[a].alive
          /\ h.units[a].grounded = b.units[a].grounded /\ h.units[a].drive = b.units[a].drive
          /\ h.units[a].thread = b.units[a].thread /\ h.units[a].credited = b.units[a].credited
          /\ h.units[a].shield = b.units[a].shield /\ h.units[a].expires = b.units[a].expires
          /\ h.units[a].leap = b.units[a].leap
      BY <1>7 DEF SameStores, SameStand
    <3>2. Rich(b.units[a])  BY <1>1
    <3> QED BY <3>1, <3>2 DEF Rich
  <2>3. h.units[a].moving => b.units[a].moving
    <3>1. b.units[a].moving \in BOOLEAN  BY <1>1 DEF IsBody
    <3> QED BY <1>7, <3>1
  <2> QED BY <1>7, <2>1, <2>2, <2>3 DEF SameStores, SameStand, Stands
<1>10. b.epoch <= h.epoch /\ b.barriers <= h.barriers  BY <1>1, <1>6
<1> QED BY <1>2, <1>5, <1>6, <1>8, <1>9, <1>10 DEF InputStep

\* A body that leaps is in the air in the middle of an action.
LEMMA ResumedLeapIs ==
  ASSUME NEW b, Sound(b), Moves(b), b.barriers < MaxBarriers,
         NEW stopped, NEW h, h = ClearInput(Counted(b), stopped)
  PROVE  Kept(b, h) /\ b.epoch < h.epoch
<1>1. /\ InputStep(b, h) /\ h.epoch = b.epoch + 1 /\ b.barriers <= h.barriers
      /\ \A a \in Actor : Rich(h.units[a])
  BY ClearedIs
<1>2. Between(b, h) /\ h.tick < h.deadline /\ h.tick < CombatTicks /\ h.tick <= CombatTicks
  BY <1>1, StepBetween
<1>3. b.epoch \in Nat  BY DEF Sound, Typed
<1> QED BY <1>1, <1>2, <1>3, BetweenSound

\* What the kernel makes of a barrier.
LEMMA BarrierIs ==
  ASSUME NEW b, Sound(b), NEW r, NEW ans, ans = Barrier(b, r)
  PROVE  /\ ans.verdict \in {"done", "unchanged", "rejected", "lifecycle_limit"}
         /\ ans.verdict = "done" => Kept(b, ans.match) /\ b.epoch < ans.match.epoch
         /\ ans.verdict \in {"done", "lifecycle_limit"} => b.phase # "finished"
<1> DEFINE idle == b.held = 0 /\ ~Active(b).moving /\ ~b.aim
           kept == r.reason = "walk_stop" /\ Jumping(b)
           S == IF kept THEN {} ELSE {b.actor}
           h == ClearInput(Counted(b), S)
           full == b.barriers >= MaxBarriers
           moot == ~Meets(b, r) \/ ~Moves(b)
           early == /\ r.reason = "pause"
                    /\ ~(/\ b.actor = "player" /\ b.phase = "action"
                         /\ AllAlive(b) /\ ~Unsupported(b))
           needless == r.reason \notin Forced /\ idle
<1>0. Typed(b) /\ b.barriers \in Nat /\ MaxBarriers \in Nat /\ b.epoch \in Nat
  BY Positive DEF Sound, Typed
<1>1. CASE StopsLeap(b, r)
  <2>1. b.phase = "action" /\ Moves(b) /\ b.phase # "finished"
    BY <1>1 DEF StopsLeap, Moves
  <2>2. CASE full
    <3>1. ans = Answer("lifecycle_limit", b)  BY <1>1, <2>2 DEF Barrier
    <3> QED BY <2>1, <3>1 DEF Answer
  <2>3. CASE ~full
    <3> DEFINE g == ClearInput(Counted(b), {b.actor})
    <3>1. ans = Answer("done", g)  BY <1>1, <2>3 DEF Barrier
    <3>2. b.barriers < MaxBarriers  BY <1>0, <2>3
    <3>3. Kept(b, g) /\ b.epoch < g.epoch  BY <2>1, <3>2, ResumedLeapIs
    <3> HIDE DEF g
    <3> QED BY <2>1, <3>1, <3>3 DEF Answer
  <2> QED BY <2>2, <2>3
<1>2. CASE ~StopsLeap(b, r) /\ (moot \/ early \/ needless)
  <2>1. ans = Answer("unchanged", b) \/ ans = Answer("rejected", b)  BY <1>2 DEF Barrier
  <2> QED BY <2>1 DEF Answer
<1>3. CASE ~StopsLeap(b, r) /\ ~moot /\ ~early /\ ~needless /\ full
  <2>1. ans = Answer("lifecycle_limit", b)  BY <1>3 DEF Barrier
  <2> QED BY <1>3, <2>1 DEF Answer, Meets
<1>4. CASE ~StopsLeap(b, r) /\ ~moot /\ ~early /\ ~needless /\ ~full
  <2>1. ans = Done(b, h)  BY <1>4 DEF Barrier
  <2>2. b.barriers < MaxBarriers /\ Moves(b) /\ b.phase # "finished"
    BY <1>0, <1>4 DEF Meets
  <2>3. InputStep(b, h) /\ h.epoch = b.epoch + 1 /\ b.barriers <= h.barriers  BY <2>2, ClearedIs
  <2> HIDE DEF h
  <2>4. Between(b, h) /\ h.tick < h.deadline /\ h.tick < CombatTicks /\ h.tick <= CombatTicks
    BY <2>2, <2>3, StepBetween
  <2> DEFINE g == Resources(b, h)
  <2>5. Kept(b, g) /\ g.epoch = h.epoch  BY <2>3, <2>4, ResourcesKept
  <2>6. ans = Answer("done", g)  BY <2>1 DEF Done
  <2> HIDE DEF g
  <2> QED BY <1>0, <2>2, <2>3, <2>5, <2>6 DEF Answer
<1> QED BY <1>1, <1>2, <1>3, <1>4

\* An intent leaves the turn and the barriers of a match.
LEMMA IntentStays ==
  ASSUME NEW b, Sound(b), NEW i \in Intents, NEW actor, NEW seen,
         NEW ans, ans = Intent(b, actor, i, seen), ans.verdict = "done"
  PROVE  Carries(ans.match, b)
<1> DEFINE q == [b EXCEPT !.events = Quiet]
           e == Effect(q, i)
           d == [e EXCEPT !.intents = @ + 1]
<1>0. Turned(b)  BY DEF Sound, Typed, Turned
<1>1. ans.match = d \/ ans.match = Resources(b, d)  BY DEF Intent, Answer, Done
<1>2. Carries(q, b) /\ Turned(q)  BY <1>0 DEF Carries, Turned
<1> HIDE DEF q
<1>3. Carries(e, q)  BY <1>2, EffectCarries
<1> HIDE DEF e
<1>4. Carries(d, q) /\ Turned(d)  BY <1>2, <1>3 DEF Carries, Turned
<1> HIDE DEF d
<1>5. Carries(Resources(b, d), d)  BY <1>4, StepsCarry
<1> QED BY <1>1, <1>2, <1>4, <1>5 DEF Carries

\* An input that is taken back is of the same turn, and is a barrier more.
LEMMA ClearedStays ==
  ASSUME NEW b, Sound(b), NEW stopped, NEW h, h = ClearInput(Counted(b), stopped)
  PROVE  /\ h.turn = b.turn /\ h.actor = b.actor /\ h.barriers = b.barriers + 1 /\ Turned(h)
<1> DEFINE k == Counted(b)
<1>1. Turned(b)  BY DEF Sound, Typed, Turned
<1>2. Turned(k) /\ k.turn = b.turn /\ k.actor = b.actor /\ k.barriers = b.barriers + 1
  BY <1>1 DEF Turned, Counted
<1> HIDE DEF k
<1>3. h = ClearInput(k, stopped)  BY DEF k
<1>4. Carries(ClearInput(k, stopped), k)  BY <1>2, StepsCarry
<1> QED BY <1>2, <1>3, <1>4 DEF Carries, Turned

\* A barrier leaves the turn of a match, and is one more; only the actor at
\* turn has barriers.
LEMMA BarrierStays ==
  ASSUME NEW b, Sound(b), NEW r, NEW ans, ans = Barrier(b, r), ans.verdict = "done"
  PROVE  /\ r.actor = b.actor /\ ans.match.turn = b.turn /\ ans.match.actor = b.actor
         /\ ans.match.barriers = b.barriers + 1
<1>1. r.actor = b.actor  BY DEF Barrier, Answer, StopsLeap, Meets
<1>2. \E s : \/ ans.match = ClearInput(Counted(b), s)
             \/ ans.match = Resources(b, ClearInput(Counted(b), s))
  BY DEF Barrier, Answer, Done
<1>3. PICK s : \/ ans.match = ClearInput(Counted(b), s)
               \/ ans.match = Resources(b, ClearInput(Counted(b), s))
  BY <1>2
<1> DEFINE h == ClearInput(Counted(b), s)
<1>4. /\ h.turn = b.turn /\ h.actor = b.actor /\ h.barriers = b.barriers + 1 /\ Turned(h)
  BY ClearedStays
<1>5. ans.match = h \/ ans.match = Resources(b, h)  BY <1>3
<1> HIDE DEF h
<1>6. Carries(Resources(b, h), h)  BY <1>4, StepsCarry
<1> QED BY <1>1, <1>4, <1>5, <1>6 DEF Carries
\* The match a challenge begins with.
LEMMA NewMatchIs == Sound(NewMatch) /\ NewMatch.phase = "action" /\ NewMatch.epoch = 0
<1> DEFINE n == NewMatch
<1>1. \A a \in Actor : IsBody(FreshUnit(a)) /\ Still(FreshUnit(a)) /\ Rich(FreshUnit(a))
                       /\ FreshUnit(a).alive /\ FreshUnit(a).grounded /\ ~FreshUnit(a).moving
  <2> TAKE a \in Actor
  <2>1. FirstThread[a] \in Nat /\ FirstThread[a] <= MaxThread
    BY TurnAssumption DEF Actor
  <2> DEFINE u == FreshUnit(a)
  <2>2. IsRecord(u)  BY DEF FreshUnit, IsRecord
  <2>3. IsBody(u)
    BY <2>1, <2>2, Positive DEF FreshUnit, IsBody, Drive, None, Never
  <2>4. Still(u)  BY Positive DEF FreshUnit, Still, None
  <2>5. Rich(u)
    <3>1. /\ u.stitching = MaxStitching /\ u.alive = TRUE /\ u.thread = FirstThread[a]
          /\ u.credited \in {0, Never} /\ u.shield = 0 /\ u.expires = Never /\ u.leap = FALSE
      BY DEF FreshUnit
    <3>2. /\ MaxStitching \in Nat /\ MaxStitching > 0 /\ MaxTurns \in Nat /\ ShieldPoints \in Nat
          /\ 0 \in Never .. MaxTurns /\ Never \in Never .. MaxTurns /\ Never \in Never .. MaxTurns + 2
      BY Positive DEF Never
    <3> HIDE DEF u
    <3>3. u.stitching <= MaxStitching /\ u.stitching > 0 /\ u.alive  BY <3>1, <3>2
    <3>4. u.credited \in Never .. MaxTurns /\ u.expires \in Never .. MaxTurns + 2  BY <3>1, <3>2
    <3>5. u.thread <= MaxThread /\ u.shield <= ShieldPoints  BY <2>1, <3>1, <3>2
    <3>6. (u.shield = 0) = (u.expires = Never) /\ ~u.leap  BY <3>1
    <3>7. u.alive = (u.stitching > 0)  BY <3>1, <3>3
    <3> QED BY <3>3, <3>4, <3>5, <3>6, <3>7 DEF Rich
  <2> QED BY <2>3, <2>4, <2>5 DEF FreshUnit
<1>2. IsEvents(Quiet)  BY DEF IsEvents, Quiet, Actor, Mark
<1>3. \A a \in Actor : n.units[a] = FreshUnit(a)  BY DEF NewMatch
<1>4. Typed(n)
  BY <1>1, <1>2, Positive DEF Typed, NewMatch, Actor, Phase, Settling, None, Never, Winner, Why
<1>5. ActionTicks \in Nat /\ ActionTicks > 0 /\ MaxTurns \in Nat /\ MaxTurns > 0
      /\ MaxIntents \in Nat /\ MaxBarriers \in Nat /\ MaxAirTicks > 0 /\ MaxAirTicks \in Nat
  BY Positive
<1>6. CombatTicks \in Nat /\ CombatTicks > 0
  BY CombatTicksIs
<1>7. ClockValid(n)  BY <1>5, <1>6 DEF ClockValid, NewMatch, Duration
<1>8. CastValid(n)  BY DEF CastValid, NewMatch, None
<1>9. InputValid(n)  BY <1>5 DEF InputValid, NewMatch, Moves
<1>10. ResultValid(n)  BY DEF ResultValid, NewMatch, None
<1>11. Bodies(n) /\ \A a \in Actor : Rich(n.units[a])  BY <1>1, <1>3 DEF Bodies
<1>12. Placed(n)
  <2>1. \A a \in Actor : n.units[a].alive /\ n.units[a].grounded /\ ~n.units[a].moving  BY <1>1, <1>3
  <2> QED BY <2>1 DEF Placed, AllAlive, Steady
<1>13. n.phase = "action" /\ n.tick = 0 /\ n.epoch = 0  BY DEF NewMatch
<1> QED BY <1>4, <1>6, <1>7, <1>8, <1>9, <1>10, <1>11, <1>12, <1>13 DEF Sound

-----------------------------------------------------------------------------
(* What soundness is for                                                     *)

\* Soundness is more than the assertions of the kernel.
LEMMA SoundValid ==
  ASSUME NEW m, Sound(m)
  PROVE  Valid(m)
<1>1. ASSUME NEW a \in Actor PROVE m.units[a] \in Unit /\ UnitValid(m.units[a])
  <2> DEFINE u == m.units[a]
  <2>1. IsBody(u) /\ Still(u) /\ Rich(u)  BY DEF Sound, Typed, Bodies
  <2> HIDE DEF u
  <2>2. UnitValid(u)  BY <2>1 DEF UnitValid, Still, Rich
  <2>3. u \in Unit
    <3>1. u = [f \in DOMAIN u |-> u[f]]  BY <2>1 DEF IsBody, IsRecord
    <3>2. /\ u.stitching \in 0 .. MaxStitching /\ u.air \in 0 .. MaxAirTicks
          /\ u.thread \in 0 .. MaxThread /\ u.shield \in 0 .. ShieldPoints
          /\ u.credited \in Never .. MaxTurns /\ u.expires \in Never .. MaxTurns + 2
      BY <2>1, Positive DEF IsBody, Still, Rich
    <3> QED BY <2>1, <3>1, <3>2 DEF Unit, IsBody, Drive
  <2> QED BY <2>2, <2>3 DEF u
<1> QED BY <1>1 DEF Valid, Sound

-----------------------------------------------------------------------------
(* What the opponent's operations do                                         *)

\* Before its turn's intents are spent, what is allowed is done.
LEMMA AllowedDone ==
  ASSUME NEW b, Sound(b), Moves(b), b.intents < MaxIntents,
         NEW i \in Intents, Allowed(b, i),
         NEW ans, ans = Intent(b, b.actor, i, Seen(b)),
         NEW d, d = [Effect([b EXCEPT !.events = Quiet], i) EXCEPT !.intents = @ + 1]
  PROVE  /\ ans.verdict = "done" /\ Sound(ans.match)
         /\ ans.match = IF i.type \in Utility THEN d ELSE Resources(b, d)
<1>1. b.phase # "finished" /\ b.phase # "settling"  BY DEF Moves
<1>2. Current(b, b.actor, Seen(b))  BY <1>1 DEF Current
<1>3. InputOpen(b)
  <2>1. b.tick < b.deadline  BY <1>1 DEF Sound, ClockValid
  <2>2. Active(b).alive  BY <1>1 DEF Sound, Placed, AllAlive, Active, Typed
  <2> QED BY <2>1, <2>2 DEF InputOpen
<1>4. b.intents \in Nat /\ MaxIntents \in Nat  BY Positive DEF Sound, Typed
<1>5. ~(b.intents >= MaxIntents)  BY <1>4
<1>6. ans = IF i.type \in Utility THEN Answer("done", d) ELSE Done(b, d)
  BY <1>2, <1>3, <1>5 DEF Intent
<1>7. ans.verdict = "done" /\ ans.match = IF i.type \in Utility THEN d ELSE Resources(b, d)
  BY <1>6 DEF Answer, Done
<1>8. Sound(ans.match)  BY <1>7, IntentIs DEF Kept
<1> QED BY <1>7, <1>8

\* The match without its events, as an effect finds it.
LEMMA QuietBefore ==
  ASSUME NEW b, Sound(b), NEW q, q = [b EXCEPT !.events = Quiet]
  PROVE  /\ Typed(q) /\ SameClock(q, b) /\ SameCount(q, b) /\ SamePhase(q, b)
         /\ SameInput(q, b) /\ q.units = b.units
BY QuietIs

\* What Resources leave of an effect within a turn.
LEMMA EffectTaken ==
  ASSUME NEW b, Sound(b), NEW d, Typed(d), d.turn = b.turn, NEW g, g = Resources(b, d), Sound(g),
         d.actor = b.actor, d.tick = b.tick, d.barriers = b.barriers, d.intents = b.intents + 1,
         SamePhase(d, b), \A a \in Actor : d.units[a].thread = b.units[a].thread
  PROVE  /\ Took(b, g) /\ Active(g).thread = Active(b).thread
         /\ g.held = d.held /\ g.lease = d.lease /\ g.refreshed = d.refreshed
         /\ (d.aim => g.aim) /\ g.aimId = d.aimId
         /\ \A a \in Actor : /\ g.units[a].grounded = d.units[a].grounded
                             /\ g.units[a].moving = d.units[a].moving
<1> DEFINE begins == d.phase = "action" /\ d.turn # b.turn
<1>1. /\ SameClock(g, d) /\ SamePhase(g, d) /\ SameInput(g, d) /\ g.barriers = d.barriers
      /\ g.aimId = d.aimId
      /\ \A a \in Actor : /\ g.units[a].grounded = d.units[a].grounded
                          /\ g.units[a].moving = d.units[a].moving
                          /\ ~begins => g.units[a].thread = d.units[a].thread
  <2>1. begins = (d.phase = "action" /\ d.turn # b.turn)  OBVIOUS
  <2> HIDE DEF begins
  <2> QED BY <2>1, ResourcesUnits
<1>2. ~begins  OBVIOUS
<1> HIDE DEF begins
<1>3. Took(b, g)  BY <1>1 DEF Took, SameClock, SamePhase
<1>4. Active(g).thread = Active(b).thread
  BY <1>1, <1>2 DEF Active, SameClock, Typed
<1> QED BY <1>1, <1>3, <1>4 DEF SameInput

\* If who stands still does so after the effect, it does so after them.
LEMMA EffectKept ==
  ASSUME NEW b, Sound(b), NEW d, Typed(d), d.turn = b.turn, NEW g, g = Resources(b, d), Sound(g),
         d.actor = b.actor, d.tick = b.tick, d.barriers = b.barriers, d.intents = b.intents + 1,
         SamePhase(d, b), d.units = b.units
  PROVE  /\ Took(b, g) /\ Stays(b, g)
         /\ g.held = d.held /\ g.lease = d.lease /\ g.refreshed = d.refreshed
         /\ (d.aim => g.aim) /\ g.aimId = d.aimId
<1>1. /\ Took(b, g) /\ Active(g).thread = Active(b).thread
      /\ g.held = d.held /\ g.lease = d.lease /\ g.refreshed = d.refreshed
      /\ (d.aim => g.aim) /\ g.aimId = d.aimId
      /\ \A a \in Actor : /\ g.units[a].grounded = d.units[a].grounded
                          /\ g.units[a].moving = d.units[a].moving
  BY EffectTaken
<1>2. ASSUME Ready(b), g.held = 0 PROVE Ready(g)
  <2>1. g.phase = "action" /\ AllAlive(g)
    BY <1>1, <1>2 DEF Took, Ready, Sound, Placed
  <2>2. \A a \in Actor : g.units[a].grounded /\ ~g.units[a].moving
    BY <1>1, <1>2 DEF Ready, Steady
  <2> QED BY <1>2, <2>1, <2>2 DEF Ready, Steady, AllAlive
<1> QED BY <1>1, <1>2 DEF Stays

\* Facing about and choosing a relic leave input and bodies as they are.
LEMMA FaceTakes ==
  ASSUME NEW b, Sound(b), Moves(b), b.intents < MaxIntents,
         NEW i \in Intents, i.type \in {"face", "select_relic"}, Allowed(b, i),
         NEW ans, ans = Intent(b, b.actor, i, Seen(b))
  PROVE  /\ ans.verdict = "done" /\ Took(b, ans.match) /\ Stays(b, ans.match)
         /\ ans.match.held = b.held
<1> DEFINE q == [b EXCEPT !.events = Quiet]
           d == [Effect(q, i) EXCEPT !.intents = @ + 1]
           g == Resources(b, d)
<1>0. i.type \notin Utility  BY DEF Utility
<1>1. ans.verdict = "done" /\ ans.match = g /\ Sound(g)
  BY <1>0, AllowedDone
<1>2. /\ Typed(q) /\ SameClock(q, b) /\ SameCount(q, b) /\ SamePhase(q, b)
      /\ SameInput(q, b) /\ q.units = b.units
  BY QuietBefore
<1>3. Effect(q, i) = [q EXCEPT !.aim = FALSE]  BY DEF Effect
<1> HIDE DEF q
<1>4. /\ Typed(d) /\ d.turn = b.turn /\ d.actor = b.actor /\ d.tick = b.tick
      /\ d.barriers = b.barriers /\ d.intents = b.intents + 1 /\ SamePhase(d, b)
      /\ d.units = b.units /\ d.held = b.held
  BY <1>2, <1>3 DEF Typed, SameClock, SameCount, SamePhase, SameInput
<1> HIDE DEF d
<1>5. Took(b, g) /\ Stays(b, g) /\ g.held = d.held
  BY <1>1, <1>4, EffectKept
<1> QED BY <1>1, <1>4, <1>5

\* An aim is an aim, and nothing else changes.
LEMMA AimTakes ==
  ASSUME NEW b, Sound(b), Moves(b), b.intents < MaxIntents,
         NEW i \in Intents, i.type = "aim", Allowed(b, i),
         NEW ans, ans = Intent(b, b.actor, i, Seen(b))
  PROVE  /\ ans.verdict = "done" /\ Took(b, ans.match) /\ Stays(b, ans.match)
         /\ ans.match.held = b.held /\ ans.match.aim
<1> DEFINE q == [b EXCEPT !.events = Quiet]
           d == [Effect(q, i) EXCEPT !.intents = @ + 1]
           g == Resources(b, d)
<1>0. i.type \notin Utility  BY DEF Utility
<1>1. ans.verdict = "done" /\ ans.match = g /\ Sound(g)
  BY <1>0, AllowedDone
<1>2. /\ Typed(q) /\ SameClock(q, b) /\ SameCount(q, b) /\ SamePhase(q, b)
      /\ SameInput(q, b) /\ q.units = b.units
  BY QuietBefore
<1>3. Effect(q, i) = [q EXCEPT !.aimId = @ + 1, !.aim = TRUE]  BY DEF Effect
<1> HIDE DEF q
<1>4. /\ Typed(d) /\ d.turn = b.turn /\ d.actor = b.actor /\ d.tick = b.tick
      /\ d.barriers = b.barriers /\ d.intents = b.intents + 1 /\ SamePhase(d, b)
      /\ d.units = b.units /\ d.held = b.held /\ d.aim
  BY <1>2, <1>3 DEF Typed, SameClock, SameCount, SamePhase, SameInput
<1> HIDE DEF d
<1>5. Took(b, g) /\ Stays(b, g) /\ g.held = d.held /\ (d.aim => g.aim)
  BY <1>1, <1>4, EffectKept
<1> QED BY <1>1, <1>4, <1>5

\* A walk that starts from rest is refreshed at once.
LEMMA WalkTakes ==
  ASSUME NEW b, Sound(b), Moves(b), b.intents < MaxIntents, b.held = 0,
         NEW i \in Intents, i.type = "walk_start",
         NEW ans, ans = Intent(b, b.actor, i, Seen(b))
  PROVE  /\ ans.verdict = "done" /\ Took(b, ans.match) /\ Stays(b, ans.match)
         /\ ans.match.refreshed = b.tick
<1> DEFINE q == [b EXCEPT !.events = Quiet]
           d == [Effect(q, i) EXCEPT !.intents = @ + 1]
           g == Resources(b, d)
<1>0. i.type \notin Utility /\ Allowed(b, i)
  <2>1. i.type \notin Utility  BY DEF Utility
  <2>2. Allowed(b, i) <=> (b.held = 0 \/ (i.dir # b.held /\ b.tick < b.lease))
    BY DEF Allowed, Offence, Utility
  <2> QED BY <2>1, <2>2
<1>1. ans.verdict = "done" /\ ans.match = g /\ Sound(g)
  BY <1>0, AllowedDone
<1>2. /\ Typed(q) /\ SameClock(q, b) /\ SameCount(q, b) /\ SamePhase(q, b)
      /\ SameInput(q, b) /\ q.units = b.units
  BY QuietBefore
<1>3. i.dir \in {-1, 1}  BY DEF Intents
<1>4. Effect(q, i) = Walk(q, i.dir)  BY DEF Effect
<1> HIDE DEF q
<1>5. Effect(q, i) = [q EXCEPT !.held = i.dir, !.aim = FALSE, !.lease = b.tick + LeaseTicks,
                               !.refreshed = b.tick]
  BY <1>2, <1>4 DEF Walk, SameClock, SameInput
<1>6. b.tick \in Nat /\ LeaseTicks \in Nat  BY Positive DEF Sound, Typed
<1>7. /\ Typed(d) /\ d.turn = b.turn /\ d.actor = b.actor /\ d.tick = b.tick
      /\ d.barriers = b.barriers /\ d.intents = b.intents + 1 /\ SamePhase(d, b)
      /\ d.units = b.units /\ d.refreshed = b.tick
  BY <1>2, <1>3, <1>5, <1>6 DEF Typed, SameClock, SameCount, SamePhase, SameInput
<1> HIDE DEF d
<1>8. Took(b, g) /\ Stays(b, g) /\ g.refreshed = d.refreshed
  BY <1>1, <1>7, EffectKept
<1> QED BY <1>1, <1>7, <1>8

\* A refresh is due after its time and before the lease is over.
LEMMA RefreshTakes ==
  ASSUME NEW b, Sound(b), Moves(b), b.intents < MaxIntents, b.held # 0,
         b.refreshed = b.tick - RefreshTicks,
         NEW i \in Intents, i.type = "walk_refresh",
         NEW ans, ans = Intent(b, b.actor, i, Seen(b))
  PROVE  /\ ans.verdict = "done" /\ Took(b, ans.match) /\ Stays(b, ans.match)
         /\ ans.match.refreshed = b.tick
<1> DEFINE q == [b EXCEPT !.events = Quiet]
           d == [Effect(q, i) EXCEPT !.intents = @ + 1]
           g == Resources(b, d)
<1>6. b.tick \in Nat /\ LeaseTicks \in Nat /\ RefreshTicks \in Nat /\ RefreshTicks < LeaseTicks
  BY Positive, TurnAssumption DEF Sound, Typed
<1>0. i.type \notin Utility /\ Allowed(b, i)
  <2>1. b.lease = b.refreshed + LeaseTicks  BY DEF Sound, InputValid
  <2>2. b.tick < b.lease /\ b.tick - b.refreshed >= RefreshTicks  BY <1>6, <2>1
  <2>3. i.type \notin Utility  BY DEF Utility
  <2>4. Allowed(b, i) <=> (b.held # 0 /\ b.tick < b.lease /\ b.tick - b.refreshed >= RefreshTicks)
    BY DEF Allowed, Offence, Utility
  <2> QED BY <2>2, <2>3, <2>4
<1>1. ans.verdict = "done" /\ ans.match = g /\ Sound(g)
  BY <1>0, AllowedDone
<1>2. /\ Typed(q) /\ SameClock(q, b) /\ SameCount(q, b) /\ SamePhase(q, b)
      /\ SameInput(q, b) /\ q.units = b.units
  BY QuietBefore
<1>3. Effect(q, i) = [q EXCEPT !.lease = q.tick + LeaseTicks, !.refreshed = q.tick]
  BY DEF Effect
<1> HIDE DEF q
<1>7. /\ Typed(d) /\ d.turn = b.turn /\ d.actor = b.actor /\ d.tick = b.tick
      /\ d.barriers = b.barriers /\ d.intents = b.intents + 1 /\ SamePhase(d, b)
      /\ d.units = b.units /\ d.refreshed = b.tick
  BY <1>2, <1>3, <1>6 DEF Typed, SameClock, SameCount, SamePhase, SameInput
<1> HIDE DEF d
<1>8. Took(b, g) /\ Stays(b, g) /\ g.refreshed = d.refreshed
  BY <1>1, <1>7, EffectKept
<1> QED BY <1>1, <1>7, <1>8

\* A jump keeps the walk it interrupts, with its lease.
LEMMA JumpTakes ==
  ASSUME NEW b, Sound(b), Moves(b), b.intents < MaxIntents, Active(b).grounded,
         NEW i \in Intents, i.type = "jump", i.dir = 1,
         NEW ans, ans = Intent(b, b.actor, i, Seen(b))
  PROVE  /\ ans.verdict = "done" /\ Took(b, ans.match)
         /\ Active(ans.match).thread = Active(b).thread
         /\ (ans.match.held = 0) = (b.held = 0) /\ ans.match.refreshed = b.refreshed
<1> DEFINE q == [b EXCEPT !.events = Quiet]
           d == [Effect(q, i) EXCEPT !.intents = @ + 1]
           g == Resources(b, d)
           u == Airborne(Active(q), i.dir # 0)
           k == WithActive(q, u)
<1>0. i.type \notin Utility /\ Allowed(b, i)
  <2>1. i.type \notin Utility  BY DEF Utility
  <2>2. Allowed(b, i) <=> (Active(b).grounded /\ (i.dir = 0 => b.held = 0))
    BY DEF Allowed, Offence, Utility
  <2> QED BY <2>1, <2>2
<1>1. ans.verdict = "done" /\ ans.match = g /\ Sound(g)
  BY <1>0, AllowedDone
<1>2. /\ Typed(q) /\ SameClock(q, b) /\ SameCount(q, b) /\ SamePhase(q, b)
      /\ SameInput(q, b) /\ q.units = b.units
  BY QuietBefore
<1>3. Effect(q, i) = [k EXCEPT !.aim = FALSE, !.held = IF @ = 0 THEN 0 ELSE i.dir]
  BY DEF Effect
<1> HIDE DEF q
<1>4. q.actor \in Actor /\ IsBody(Active(q)) /\ Active(q) = q.units[q.actor]
  BY <1>2 DEF Typed, Active
<1>5. IsBody(u) /\ u.thread = Active(q).thread
  BY <1>4, ExceptRecord DEF Airborne, IsBody, Drive
<1> HIDE DEF u
<1>6. /\ Typed(k) /\ SameClock(k, q) /\ SameCount(k, q) /\ SamePhase(k, q)
      /\ SameInput(k, q) /\ \A a \in Actor : k.units[a] = IF a = q.actor THEN u ELSE q.units[a]
  BY <1>2, <1>5, WithActiveIs
<1> HIDE DEF k
<1>7. \A a \in Actor : k.units[a].thread = b.units[a].thread
  BY <1>2, <1>4, <1>5, <1>6
<1>8. /\ Typed(d) /\ d.turn = b.turn /\ d.actor = b.actor /\ d.tick = b.tick
      /\ d.barriers = b.barriers /\ d.intents = b.intents + 1 /\ SamePhase(d, b)
      /\ d.units = k.units /\ d.refreshed = b.refreshed /\ (d.held = 0) = (b.held = 0)
  BY <1>2, <1>3, <1>6 DEF Typed, SameClock, SameCount, SamePhase, SameInput
<1> HIDE DEF d
<1>9. /\ Took(b, g) /\ Active(g).thread = Active(b).thread
      /\ g.held = d.held /\ g.refreshed = d.refreshed
  BY <1>1, <1>7, <1>8, EffectTaken
<1> QED BY <1>1, <1>8, <1>9

\* A shot that is aimed, paid and taken at rest flies.
LEMMA FireTakes ==
  ASSUME NEW b, Sound(b), Ready(b), b.intents < MaxIntents, b.aim, Active(b).thread >= ShotPrice,
         NEW i \in Intents, i.type = "fire", i.aimId = b.aimId,
         NEW ans, ans = Intent(b, b.actor, i, Seen(b))
  PROVE  /\ ans.verdict = "done" /\ Sound(ans.match)
         /\ ans.match.turn = b.turn /\ ans.match.actor = b.actor /\ ans.match.tick = b.tick
         /\ ans.match.phase = "projectile" /\ ans.match.settling = None
         /\ ans.match.barriers = b.barriers /\ ans.match.intents = b.intents + 1
<1> DEFINE q == [b EXCEPT !.events = Quiet]
           d == [Effect(q, i) EXCEPT !.intents = @ + 1]
           g == Resources(b, d)
           u == [Active(q) EXCEPT !.thread = @ - ShotPrice]
           k == WithActive(q, u)
           n == [k EXCEPT !.shot = TRUE, !.cast = TRUE]
<1>p. b.phase = "action" /\ b.held = 0 /\ Steady(b) /\ ~b.cast /\ Moves(b)
  BY DEF Ready, Moves, Sound, CastValid
<1>0. i.type \notin Utility /\ Allowed(b, i)
  <2>1. i.type \notin Utility  BY DEF Utility
  <2>2. Allowed(b, i) <=>
         /\ b.phase = "action" /\ b.held = 0 /\ Steady(b)
         /\ ~b.cast /\ b.aim /\ i.aimId = b.aimId
         /\ Active(b).thread >= ShotPrice
    BY DEF Allowed, Offence, Utility
  <2> QED BY <1>p, <2>1, <2>2
<1>1. ans.verdict = "done" /\ ans.match = g /\ Sound(g)
  BY <1>p, <1>0, AllowedDone
<1>2. /\ Typed(q) /\ SameClock(q, b) /\ SameCount(q, b) /\ SamePhase(q, b)
      /\ SameInput(q, b) /\ q.units = b.units
  BY QuietBefore
<1>3. Effect(q, i) = EnterPhase(n, "projectile", None)
  BY DEF Effect, Fire
<1> HIDE DEF q
<1>4. q.actor \in Actor /\ IsBody(Active(q)) /\ Active(q).thread >= ShotPrice /\ ShotPrice \in Nat
  BY <1>2, Positive DEF Typed, Active, SameClock
<1>5. IsBody(u)
  BY <1>4, ExceptRecord DEF IsBody
<1> HIDE DEF u
<1>6. Typed(k) /\ SameClock(k, q) /\ SameCount(k, q)
  BY <1>2, <1>5, WithActiveIs
<1> HIDE DEF k
<1>7. Typed(n) /\ n.turn = b.turn /\ n.actor = b.actor /\ n.tick = b.tick /\ n.barriers = b.barriers
      /\ n.intents = b.intents
  BY <1>2, <1>6 DEF Typed, SameClock, SameCount
<1> HIDE DEF n
<1>8. "projectile" \in Phase /\ None \in Settling  BY DEF Phase, Settling
<1>9. /\ Typed(Effect(q, i)) /\ SameClock(Effect(q, i), n) /\ SameCount(Effect(q, i), n)
      /\ Effect(q, i).phase = "projectile" /\ Effect(q, i).settling = None
  BY <1>3, <1>7, <1>8, EnterPhaseIs
<1>10. /\ Typed(d) /\ d.turn = b.turn /\ d.actor = b.actor /\ d.tick = b.tick
       /\ d.barriers = b.barriers /\ d.intents = b.intents + 1
       /\ d.phase = "projectile" /\ d.settling = None
  BY <1>7, <1>9 DEF Typed, SameClock, SameCount
<1> HIDE DEF d
<1>11. SameClock(g, d) /\ SamePhase(g, d) /\ g.barriers = d.barriers
  <2> DEFINE begins == d.phase = "action" /\ d.turn # b.turn
  <2>1. begins = (d.phase = "action" /\ d.turn # b.turn)  OBVIOUS
  <2> HIDE DEF begins
  <2> QED BY <1>10, <2>1, ResourcesUnits
<1> QED BY <1>1, <1>10, <1>11 DEF SameClock, SamePhase

\* What a utility costs, and that it ends the input.
LEMMA UseTakes ==
  ASSUME NEW q, Typed(q), Active(q).thread >= UtilityPrice, NEW type, NEW c, c = UseThread(q, type)
  PROVE  /\ Typed(c) /\ SameClock(c, q) /\ SamePhase(c, q) /\ c.barriers = q.barriers
         /\ c.held = 0 /\ Active(c).thread = Active(q).thread - UtilityPrice
<1> DEFINE x == Active(q)
           u == [x EXCEPT !.thread = @ - UtilityPrice, !.moving = FALSE]
           v == IF type = "threadguard"
                THEN [u EXCEPT !.shield = ShieldPoints, !.expires = q.turn + 2]
                ELSE u
           k == WithActive(q, v)
           n == [k EXCEPT !.utility = TRUE]
<1>1. q.actor \in Actor /\ IsBody(x) /\ x.thread >= UtilityPrice /\ UtilityPrice \in Nat /\ ShieldPoints \in Nat
      /\ q.turn \in Nat
  BY Positive DEF Typed, Active
<1> HIDE DEF x
<1>2. IsBody(u) /\ u.thread = x.thread - UtilityPrice
  <2>1. x.thread - UtilityPrice \in Nat  BY <1>1 DEF IsBody, x
  <2>2. IsRecord(u)  BY <1>1 DEF IsRecord, IsBody
  <2> QED BY <1>1, <2>1, <2>2 DEF IsBody
<1>3. IsBody([u EXCEPT !.shield = ShieldPoints, !.expires = q.turn + 2])
      /\ [u EXCEPT !.shield = ShieldPoints, !.expires = q.turn + 2].thread = u.thread
  <2> HIDE DEF u
  <2>1. IsRecord([u EXCEPT !.shield = ShieldPoints, !.expires = q.turn + 2])
    BY <1>2 DEF IsRecord, IsBody
  <2> QED BY <1>1, <1>2, <2>1 DEF IsBody
<1>4. IsBody(v) /\ v.thread = u.thread  BY <1>2, <1>3
<1>5. c = ClearInput(n, {q.actor})  BY DEF UseThread, x
<1> HIDE DEF u, v
<1>6. /\ Typed(k) /\ SameClock(k, q) /\ SameCount(k, q) /\ SamePhase(k, q)
      /\ \A a \in Actor : k.units[a] = IF a = q.actor THEN v ELSE q.units[a]
  BY <1>4, WithActiveIs
<1> HIDE DEF k
<1>7. /\ Typed(n) /\ SameClock(n, q) /\ n.barriers = q.barriers /\ SamePhase(n, q)
      /\ n.units[q.actor] = v
  BY <1>1, <1>6 DEF Typed, SameClock, SameCount, SamePhase
<1> HIDE DEF n
<1>8. /\ Typed(c) /\ Halted(c, n, {q.actor}) /\ SameClock(c, n) /\ SameCount(c, n) /\ SamePhase(c, n)
      /\ NoInput(c)
  BY <1>5, <1>7, ClearInputIs
<1>9. Active(c).thread = v.thread
  BY <1>1, <1>7, <1>8 DEF Active, Halted, SameStores, SameClock
<1> QED BY <1>2, <1>4, <1>7, <1>8, <1>9 DEF SameClock, SameCount, SamePhase, NoInput, x

\* A guard or a leap at the beginning of a turn.
LEMMA UtilityTakes ==
  ASSUME NEW b, Sound(b), Ready(b), ~b.utility, b.intents < MaxIntents,
         Active(b).thread >= UtilityPrice,
         NEW i \in Intents, i.type \in Utility,
         NEW ans, ans = Intent(b, b.actor, i, Seen(b))
  PROVE  /\ ans.verdict = "done" /\ Took(b, ans.match) /\ ans.match.held = 0
         /\ Active(ans.match).thread = Active(b).thread - UtilityPrice
<1> DEFINE q == [b EXCEPT !.events = Quiet]
           c == UseThread(q, i.type)
           u == [Airborne(Active(c), TRUE) EXCEPT !.leap = TRUE]
           h == IF i.type = "threadguard" THEN c ELSE WithActive(c, u)
           d == [Effect(q, i) EXCEPT !.intents = @ + 1]
<1>p. /\ b.phase = "action" /\ b.held = 0 /\ Steady(b) /\ ~b.cast /\ Moves(b)
      /\ b.tick < b.deadline
  BY DEF Ready, Moves, Sound, CastValid, ClockValid
<1>0. Allowed(b, i)
  <2>2. Allowed(b, i) <=>
         /\ b.phase = "action" /\ b.tick < b.deadline
         /\ ~b.cast /\ ~b.utility /\ b.held = 0 /\ Steady(b)
         /\ Active(b).thread >= UtilityPrice
    BY DEF Allowed, Offence, Utility
  <2> QED BY <1>p, <2>2
<1>1. ans.verdict = "done" /\ ans.match = d /\ Sound(d)
  <2>1. /\ ans.verdict = "done" /\ Sound(ans.match)
        /\ ans.match = IF i.type \in Utility THEN d ELSE Resources(b, d)
    BY <1>p, <1>0, AllowedDone
  <2> QED BY <2>1
<1>2. /\ Typed(q) /\ SameClock(q, b) /\ SameCount(q, b) /\ SamePhase(q, b)
      /\ SameInput(q, b) /\ q.units = b.units
  BY QuietBefore
<1>3. Effect(q, i) = h
  <2>1. CASE i.type = "threadguard"  BY <2>1 DEF Effect
  <2>2. CASE i.type = "threadleap"   BY <2>2 DEF Effect, Leap
  <2> QED BY <2>1, <2>2 DEF Utility
<1> HIDE DEF q
<1>4. Active(q) = Active(b)  BY <1>2 DEF Active, SameClock
<1>5. /\ Typed(c) /\ SameClock(c, q) /\ SamePhase(c, q) /\ c.barriers = q.barriers
      /\ c.held = 0 /\ Active(c).thread = Active(b).thread - UtilityPrice
  BY <1>2, <1>4, UseTakes
<1> HIDE DEF c
<1>6. c.actor \in Actor /\ IsBody(Active(c))  BY <1>5 DEF Typed, Active
<1>7. IsBody(u) /\ u.thread = Active(c).thread
  BY <1>6, ExceptRecord DEF Airborne, IsBody, Drive
<1> HIDE DEF u
<1>8. /\ Typed(h) /\ SameClock(h, q) /\ SamePhase(h, q) /\ h.barriers = q.barriers
      /\ h.held = 0 /\ Active(h).thread = Active(b).thread - UtilityPrice
  <2>1. CASE h = c  BY <1>5, <2>1
  <2>2. CASE h = WithActive(c, u)
    <3> HIDE DEF h
    <3>1. /\ Typed(h) /\ SameClock(h, c) /\ SameCount(h, c) /\ SamePhase(h, c) /\ SameInput(h, c)
          /\ \A a \in Actor : h.units[a] = IF a = c.actor THEN u ELSE c.units[a]
      BY <1>5, <1>7, <2>2, WithActiveIs
    <3>2. Active(h) = u  BY <1>6, <3>1 DEF Active, SameClock
    <3> QED BY <1>5, <1>7, <3>1, <3>2 DEF SameClock, SameCount, SamePhase, SameInput
  <2> QED BY <2>1, <2>2
<1> HIDE DEF h
<1>9. /\ d.turn = b.turn /\ d.actor = b.actor /\ d.tick = b.tick /\ SamePhase(d, b)
      /\ d.barriers = b.barriers /\ d.intents = b.intents + 1 /\ d.held = 0
      /\ Active(d).thread = Active(b).thread - UtilityPrice
  BY <1>2, <1>3, <1>8 DEF Typed, SameClock, SameCount, SamePhase, Active
<1> QED BY <1>1, <1>9 DEF Took, SamePhase

\* What the opponent's cancel does.
LEMMA CancelIs ==
  ASSUME NEW b, Sound(b), b.phase = "action",
         NEW r, r = BarrierOp("cancel", b.actor, b), NEW ans, ans = Barrier(b, r)
  PROVE  \/ /\ ans.verdict = "done" /\ Sound(ans.match) /\ ans.match.held = 0
            /\ ans.match.turn = b.turn /\ ans.match.actor = b.actor /\ ans.match.tick = b.tick
            /\ ans.match.phase = b.phase /\ ans.match.intents = b.intents
            /\ Active(ans.match).thread = Active(b).thread
         \/ ans.verdict = "unchanged" /\ b.held = 0
         \/ ans.verdict = "lifecycle_limit" /\ b.barriers = MaxBarriers
<1> DEFINE c == Counted(b)
           h == ClearInput(c, {b.actor})
<1>1. ~StopsLeap(b, r) /\ Meets(b, r) /\ Moves(b) /\ r.reason = "cancel" /\ "cancel" \notin Forced
  BY DEF StopsLeap, Meets, Moves, BarrierOp, Forced
<1>2. r.reason # "pause" /\ r.reason # "walk_stop"  BY <1>1
<1>3. ans = IF b.held = 0 /\ ~Active(b).moving /\ ~b.aim THEN Answer("unchanged", b)
            ELSE IF b.barriers >= MaxBarriers THEN Answer("lifecycle_limit", b)
            ELSE Done(b, h)
  BY <1>1, <1>2 DEF Barrier
<1>4. b.barriers <= MaxBarriers /\ b.barriers \in Nat /\ MaxBarriers \in Nat
  BY Positive DEF Sound, InputValid, Typed
<1>5. CASE b.held = 0 /\ ~Active(b).moving /\ ~b.aim
  BY <1>3, <1>5 DEF Answer
<1>6. CASE ~(b.held = 0 /\ ~Active(b).moving /\ ~b.aim) /\ b.barriers >= MaxBarriers
  BY <1>3, <1>4, <1>6 DEF Answer
<1>7. CASE ~(b.held = 0 /\ ~Active(b).moving /\ ~b.aim) /\ ~(b.barriers >= MaxBarriers)
  <2> DEFINE g == Resources(b, h)
  <2>1. ans.verdict = "done" /\ ans.match = g  BY <1>3, <1>7 DEF Done, Answer
  <2>2. Sound(g)
    <3>1. Kept(b, ans.match)  BY <2>1, BarrierIs
    <3> QED BY <2>1, <3>1 DEF Kept
  <2>3. /\ Typed(c) /\ SameClock(c, b) /\ SamePhase(c, b) /\ c.units = b.units
    <3>1. IsEvents(Quiet)  BY DEF Quiet, IsEvents, Mark
    <3> QED BY <3>1 DEF Counted, Sound, Typed, SameClock, SamePhase
  <2> HIDE DEF c
  <2>4. Typed(h) /\ Halted(h, c, {b.actor}) /\ SameClock(h, c) /\ SamePhase(h, c) /\ NoInput(h)
    BY <2>3, ClearInputIs
  <2> HIDE DEF h
  <2> DEFINE begins == h.phase = "action" /\ h.turn # b.turn
  <2>5. begins = (h.phase = "action" /\ h.turn # b.turn)  OBVIOUS
  <2>6. ~begins  BY <2>3, <2>4 DEF SameClock
  <2> HIDE DEF begins
  <2>7. /\ SameClock(g, h) /\ SamePhase(g, h) /\ SameInput(g, h)
        /\ \A a \in Actor : ~begins => g.units[a].thread = h.units[a].thread
    BY <2>4, <2>5, ResourcesUnits
  <2>8. b.actor \in Actor  BY DEF Sound, Typed
  <2>9. Active(g).thread = Active(b).thread
    BY <2>3, <2>4, <2>6, <2>7, <2>8 DEF Active, Halted, SameStores, SameClock
  <2> QED BY <2>1, <2>2, <2>3, <2>4, <2>7, <2>9 DEF SameClock, SamePhase, SameInput, NoInput
<1> QED BY <1>5, <1>6, <1>7

-----------------------------------------------------------------------------
(* Remainders                                                                *)

\* A number is a multiple of r and a remainder.
LEMMA DivMod ==
  ASSUME NEW n \in Nat, NEW r \in Nat \ {0}
  PROVE  (n % r) \in 0 .. r - 1 /\ (n \div r) \in Nat /\ n = r * (n \div r) + (n % r)
OBVIOUS

\* Multiples of r are r apart.
LEMMA Apart ==
  ASSUME NEW r \in Nat, NEW a \in Nat, NEW b \in Nat, a < b
  PROVE  r * a + r <= r * b
<1>1. PICK d \in Nat : b = a + 1 + d
  <2>1. b - a - 1 \in Nat /\ b = a + 1 + (b - a - 1)  OBVIOUS
  <2> QED BY <2>1
<1>2. r * b = r * a + r + r * d  BY <1>1
<1>3. r * d \in Nat /\ r * a \in Nat  BY <1>1
<1> QED BY <1>2, <1>3

\* So a number has one remainder.
LEMMA OneRemainder ==
  ASSUME NEW r \in Nat \ {0}, NEW a \in Nat, NEW b \in Nat,
         NEW s \in 0 .. r - 1, NEW t \in 0 .. r - 1, r * a + s = r * b + t
  PROVE  s = t
<1>0. r * a \in Nat /\ r * b \in Nat  OBVIOUS
<1>1. CASE a < b
  <2>1. r * a + r <= r * b  BY <1>1, Apart
  <2> QED BY <1>0, <2>1
<1>2. CASE b < a
  <2>1. r * b + r <= r * a  BY <1>2, Apart
  <2> QED BY <1>0, <2>1
<1>3. CASE a = b  BY <1>0, <1>3
<1> QED BY <1>1, <1>2, <1>3

\* The next number has the next remainder, or none.
LEMMA NextRemainder ==
  ASSUME NEW n \in Nat, NEW r \in Nat \ {0}
  PROVE  \/ ((n + 1) % r) = (n % r) + 1
         \/ ((n + 1) % r) = 0 /\ (n % r) = r - 1
<1> DEFINE q == n \div r
           s == n % r
           p == (n + 1) \div r
           t == (n + 1) % r
<1>1. s \in 0 .. r - 1 /\ q \in Nat /\ n = r * q + s  BY DivMod
<1>2. t \in 0 .. r - 1 /\ p \in Nat /\ n + 1 = r * p + t
  <2>1. n + 1 \in Nat  OBVIOUS
  <2> QED BY <2>1, DivMod
<1> SUFFICES t = s + 1 \/ (t = 0 /\ s = r - 1)
  OBVIOUS
<1> HIDE DEF q, s, p, t
<1>3. CASE s + 1 < r
  <2>1. s + 1 \in 0 .. r - 1 /\ r * q \in Nat /\ r * q + (s + 1) = r * p + t  BY <1>1, <1>2, <1>3
  <2>2. s + 1 = t  BY <1>1, <1>2, <2>1, OneRemainder
  <2> QED BY <2>2
<1>4. CASE s + 1 = r
  <2>1. q + 1 \in Nat /\ 0 \in 0 .. r - 1 /\ r * (q + 1) = r * q + r  BY <1>1
  <2>2. r * (q + 1) + 0 = r * p + t  BY <1>1, <1>2, <1>4, <2>1
  <2>3. 0 = t  BY <1>1, <1>2, <2>1, <2>2, OneRemainder
  <2> QED BY <1>1, <1>4, <2>3
<1> QED BY <1>1, <1>3, <1>4

\* Nothing has no remainder.
LEMMA NoRemainder ==
  ASSUME NEW r \in Nat \ {0}
  PROVE  (0 % r) = 0
OBVIOUS

-----------------------------------------------------------------------------
(* The pace of a walk                                                        *)

\* A walk that has just been started.
LEMMA PacingStarts ==
  ASSUME NEW c, NEW m, Typed(m), NEW n \in Nat, m.refreshed = m.tick, m.intents <= n + 1
  PROVE  Pacing(c, m, n, 0)
<1>1. RefreshTicks \in Nat \ {0}  BY Positive
<1>2. (0 % RefreshTicks) = 0  BY <1>1, NoRemainder
<1>3. m.tick \in Nat /\ m.intents \in Nat  BY DEF Typed
<1> QED BY <1>2, <1>3 DEF Pacing, Owed

\* A refresh that is due may be made, and is made.
LEMMA PacingRefresh ==
  ASSUME NEW c, NEW m, Sound(m), Moves(m), NEW n \in Nat, NEW el \in Nat, Pacing(c, m, n, el),
         Refreshes(c, m, el), n + el < MaxIntents,
         NEW ans, ans = Intent(m, m.actor, Say("walk_refresh", 0, 0).intent, Seen(m)),
         NEW d, d.refreshed = m.tick
  PROVE  /\ ans.verdict = "done" /\ Took(m, ans.match)
         /\ Active(ans.match).thread = Active(m).thread
         /\ Pacing(d, ans.match, n, el)
<1> DEFINE i == Say("walk_refresh", 0, 0).intent
           g == ans.match
<1>1. m.tick \in Nat /\ m.intents \in Nat /\ RefreshTicks \in Nat \ {0} /\ m.refreshed \in Int
  BY Positive DEF Sound, Typed
<1>2. el > 0 /\ (el % RefreshTicks) = 0 /\ m.held # 0 /\ c.refreshed # m.tick
  BY DEF Refreshes
<1>3. m.refreshed = m.tick - RefreshTicks /\ m.intents <= n + el
  BY <1>1, <1>2 DEF Pacing, Owed
<1>4. m.intents < MaxIntents  BY <1>1, <1>3, Positive
<1>5. i \in Intents /\ i.type = "walk_refresh"  BY DEF Say, Intents
<1>6. ans.verdict = "done" /\ Took(m, g) /\ Stays(m, g) /\ g.refreshed = m.tick
  <2> HIDE DEF i
  <2> QED BY <1>2, <1>3, <1>4, <1>5, RefreshTakes DEF i
<1>7. g.tick = m.tick /\ g.intents = m.intents + 1  BY <1>6 DEF Took
<1>8. Pacing(d, g, n, el)  BY <1>1, <1>2, <1>3, <1>6, <1>7 DEF Pacing, Owed
<1> QED BY <1>6, <1>8 DEF Stays

\* A tick in which no refresh is due.
LEMMA PacingTick ==
  ASSUME NEW c, NEW b, Sound(b), c.refreshed \in Int, c.refreshed <= b.tick,
         NEW n \in Nat, NEW el \in Nat, Pacing(c, b, n, el), ~Refreshes(c, b, el),
         NEW g, Sound(g), Holds(b, g), g.tick = b.tick + 1
  PROVE  Pacing(c, g, n, el + 1)
<1>1. /\ b.tick \in Nat /\ b.intents \in Nat /\ RefreshTicks \in Nat \ {0} /\ b.refreshed \in Int
      /\ LeaseTicks \in Nat /\ RefreshTicks < LeaseTicks
  BY Positive, TurnAssumption DEF Sound, Typed
<1>2. c.refreshed # g.tick  BY <1>1
<1>3. b.intents <= n + el + 1 /\ g.intents = b.intents  BY <1>1 DEF Pacing, Holds, Kin
<1>4. (el % RefreshTicks) \in 0 .. RefreshTicks - 1  BY <1>1, DivMod
<1>5. ASSUME g.held # 0
      PROVE  g.refreshed = g.tick - (IF Owed(c, g, el + 1) THEN RefreshTicks
                                     ELSE ((el + 1) % RefreshTicks))
  <2>1. b.held # 0
    <3>1. CASE b.held = 0
      <4>1. b.lease = Never  BY <3>1 DEF Sound, InputValid
      <4> QED BY <1>5, <3>1, <4>1 DEF Holds
    <3> QED BY <3>1
  <2>2. ~Owed(c, b, el)  BY <2>1 DEF Owed, Refreshes
  <2>3. b.refreshed = b.tick - (el % RefreshTicks)  BY <2>1, <2>2 DEF Pacing
  <2>4. b.lease = b.refreshed + LeaseTicks  BY <2>1 DEF Sound, InputValid
  <2>5. b.tick < b.lease  BY <1>1, <1>4, <2>3, <2>4
  <2>6. g.refreshed = b.refreshed  BY <2>5 DEF Holds
  <2>7. \/ ((el + 1) % RefreshTicks) = (el % RefreshTicks) + 1
        \/ ((el + 1) % RefreshTicks) = 0 /\ (el % RefreshTicks) = RefreshTicks - 1
    BY <1>1, NextRemainder
  <2>8. Owed(c, g, el + 1) <=> ((el + 1) % RefreshTicks) = 0
    BY <1>2 DEF Owed
  <2> QED BY <1>1, <1>4, <2>3, <2>6, <2>7, <2>8
<1>6. g.intents <= n + (el + 1) + (IF el + 1 > 0 /\ c.refreshed # g.tick THEN 0 ELSE 1)
  BY <1>1, <1>2, <1>3
<1> QED BY <1>5, <1>6 DEF Pacing

-----------------------------------------------------------------------------
(* Logs                                                                      *)

\* A log is a sequence.
LEMMA LogIs ==
  ASSUME NEW l, IsLog(l)
  PROVE  Len(l) \in Nat /\ DOMAIN l = 1 .. Len(l) /\ (l = <<>>) = (Len(l) = 0)
<1>1. PICK S : l \in Seq(S)  BY DEF IsLog
<1> QED BY <1>1, LenProperties, EmptySeq

\* Growing twice is growing.
LEMMA GrowsTrans ==
  ASSUME NEW l, NEW h, NEW g, IsLog(l), Grows(l, h), Grows(h, g)
  PROVE  Grows(l, g) /\ (Silent(l, h) /\ Silent(h, g) => Silent(l, g))
<1>1. Len(l) \in Nat /\ Len(h) \in Nat /\ Len(g) \in Nat /\ Len(l) <= Len(h) /\ Len(h) <= Len(g)
      /\ IsLog(g)
  BY LogIs DEF Grows
<1>2. ASSUME NEW i \in 1 .. Len(l)
      PROVE  \/ g[i] = l[i]
             \/ i = Len(l) /\ l[i].op.kind = "ticks" /\ g[i].op.kind = "ticks"
  <2>1. \/ h[i] = l[i]
        \/ i = Len(l) /\ l[i].op.kind = "ticks" /\ h[i].op.kind = "ticks"
    BY DEF Grows
  <2>2. \/ g[i] = h[i]
        \/ i = Len(h) /\ h[i].op.kind = "ticks" /\ g[i].op.kind = "ticks"
    BY <1>1 DEF Grows
  <2>3. i = Len(h) => i = Len(l)  BY <1>1
  <2> QED BY <2>1, <2>2, <2>3
<1>3. ASSUME Silent(l, h), Silent(h, g), NEW i \in Len(l) + 1 .. Len(g) PROVE ~Theirs(g[i].op)
  <2>1. CASE i > Len(h)  BY <1>1, <1>3, <2>1 DEF Silent
  <2>2. CASE i <= Len(h)
    <3>1. i \in 1 .. Len(h) /\ i \in Len(l) + 1 .. Len(h)  BY <1>1, <2>2
    <3>2. ~Theirs(h[i].op)  BY <1>3, <3>1 DEF Silent
    <3>3. g[i] = h[i] \/ g[i].op.kind = "ticks"  BY <3>1 DEF Grows
    <3> QED BY <3>2, <3>3 DEF Theirs
  <2> QED BY <1>1, <2>1, <2>2
<1> QED BY <1>1, <1>2, <1>3 DEF Grows, Silent

\* More records are no fewer boundaries.
LEMMA BoundariesGrow ==
  ASSUME NEW l, NEW h, IsLog(l), Grows(l, h)
  PROVE  /\ Boundaries(l) \in Nat /\ Boundaries(h) \in Nat /\ Boundaries(l) <= Boundaries(h)
         /\ (\A i \in Len(l) + 1 .. Len(h) : ~Boundary(h[i].op)) => Boundaries(l) = Boundaries(h)
<1> DEFINE A == {k \in DOMAIN l : Boundary(l[k].op)}
           B == {k \in DOMAIN h : Boundary(h[k].op)}
<1>1. Len(l) \in Nat /\ Len(h) \in Nat /\ Len(l) <= Len(h) /\ DOMAIN l = 1 .. Len(l) /\ DOMAIN h = 1 .. Len(h)
  BY LogIs DEF Grows
<1>2. \A i \in 1 .. Len(l) : Boundary(h[i].op) <=> Boundary(l[i].op)
  BY DEF Grows, Boundary
<1>3. A \subseteq B  BY <1>1, <1>2
<1>4. IsFiniteSet(B)
  <2>1. IsFiniteSet(1 .. Len(h))  BY <1>1, FS_Interval
  <2> QED BY <1>1, <2>1, FS_Subset
<1>5. IsFiniteSet(A) /\ Cardinality(A) <= Cardinality(B) /\ Cardinality(A) \in Nat /\ Cardinality(B) \in Nat
  <2> HIDE DEF A, B
  <2> QED BY <1>3, <1>4, FS_Subset, FS_CardinalityType
<1>6. ASSUME \A i \in Len(l) + 1 .. Len(h) : ~Boundary(h[i].op) PROVE A = B
  BY <1>1, <1>2, <1>6
<1>7. Boundaries(l) = Cardinality(A) /\ Boundaries(h) = Cardinality(B)  BY DEF Boundaries
<1> HIDE DEF A, B
<1> QED BY <1>5, <1>6, <1>7

\* u is s and then t.
Both(u, s, t) ==
  /\ Len(u) = Len(s) + Len(t) /\ Len(s) \in Nat /\ Len(t) \in Nat
  /\ \A i \in 1 .. Len(s) : u[i] = s[i]
  /\ \A i \in 1 .. Len(t) : u[Len(s) + i] = t[i]

\* Two sequences, joined.
LEMMA Joined ==
  ASSUME NEW S, NEW s, NEW t, s \in Seq(S), t \in Seq(S)
  PROVE  s \o t \in Seq(S) /\ Both(s \o t, s, t)
<1>1. /\ s \o t \in Seq(S) /\ Len(s \o t) = Len(s) + Len(t)
      /\ \A i \in 1 .. Len(s) + Len(t) :
           (s \o t)[i] = IF i <= Len(s) THEN s[i] ELSE t[i - Len(s)]
  BY ConcatProperties, Zenon
<1>2. Len(s) \in Nat /\ Len(t) \in Nat  BY LenProperties
<1> QED BY <1>1, <1>2 DEF Both

\* The record joins the ticks before it.
Joins(l, op, bs) ==
  op.kind = "ticks" /\ bs = <<>> /\ l # <<>> /\ Last(l).op.kind = "ticks"

\* h is l with the record of op, its k-th, and the notes of bs after it.
IsLogged(l, op, bs, h, k) ==
  /\ IsLog(h) /\ Len(h) = k + Len(bs) /\ Len(bs) \in Nat /\ k \in Nat \ {0}
  /\ \A i \in 1 .. k - 1 : h[i] = l[i]
  /\ Joins(l, op, bs) => h[k].op = Ticks(Last(l).op.count + 1)
  /\ ~Joins(l, op, bs) => h[k].op = op
  /\ \A i \in k + 1 .. Len(h) : h[i].op.kind = "automatic"

\* A record joins the last one or becomes the next; notes come after it.
LEMMA LoggedIs ==
  ASSUME NEW e, IsLog(e.log), NEW op, NEW m, NEW bs \in Seq(Mark),
         NEW h, h = Logged(e, op, m, bs),
         NEW k, k = IF Joins(e.log, op, bs) THEN Len(e.log) ELSE Len(e.log) + 1
  PROVE  IsLogged(e.log, op, bs, h, k)
<1> DEFINE l == e.log
           J == Joins(l, op, bs)
           r == IF J THEN Record(Ticks(Last(l).op.count + 1), m) ELSE Record(op, m)
           notes == [i \in DOMAIN bs |-> Record(Automatic(m, bs[i]), m)]
           base == IF J THEN Front(l) ELSE l
           S == {l[i] : i \in 1 .. Len(l)} \cup {r} \cup {notes[i] : i \in DOMAIN bs}
<1>1. h = base \o <<r>> \o notes
  BY DEF Logged, Joins
<1>2. Len(l) \in Nat /\ DOMAIN l = 1 .. Len(l) /\ (l = <<>>) = (Len(l) = 0)  BY LogIs
<1>3. l \in Seq(S)
  <2>1. PICK T : l \in Seq(T)  BY DEF IsLog
  <2>2. l \in [1 .. Len(l) -> T]  BY <2>1, LenProperties
  <2>3. \A i \in 1 .. Len(l) : l[i] \in S  OBVIOUS
  <2> HIDE DEF S, l
  <2>4. l \in [1 .. Len(l) -> S]  BY <2>2, <2>3
  <2> QED BY <1>2, <2>4
<1>4. Len(bs) \in Nat /\ DOMAIN bs = 1 .. Len(bs)  BY LenProperties
<1>5. notes \in Seq(S) /\ Len(notes) = Len(bs) /\ \A i \in 1 .. Len(bs) : notes[i].op.kind = "automatic"
  <2>1. \A i \in DOMAIN bs : notes[i] \in S /\ notes[i].op.kind = "automatic"
    BY DEF Record, Automatic
  <2>2. notes = [i \in 1 .. Len(bs) |-> notes[i]]  BY <1>4
  <2> HIDE DEF S, notes
  <2>3. notes \in [1 .. Len(bs) -> S]  BY <1>4, <2>1, <2>2
  <2> QED BY <1>4, <2>1, <2>3
<1>6. <<r>> \in Seq(S) /\ Len(<<r>>) = 1 /\ <<r>>[1] = r
  <2>1. r \in S  OBVIOUS
  <2> HIDE DEF S, r
  <2> QED BY <2>1
<1>7. /\ base \in Seq(S) /\ Len(base) = k - 1 /\ k \in Nat \ {0}
      /\ \A i \in 1 .. k - 1 : base[i] = l[i]
  <2>1. CASE J
    <3>1. Len(l) # 0 /\ base = SubSeq(l, 1, Len(l) - 1) /\ k = Len(l)  BY <1>2, <2>1 DEF Joins, Front
    <3>2. \A i \in 1 .. Len(l) - 1 : l[i] \in S  BY <1>2
    <3> HIDE DEF S, l, base
    <3>3. /\ base \in Seq(S) /\ Len(base) = IF 1 <= Len(l) - 1 THEN Len(l) - 1 - 1 + 1 ELSE 0
          /\ \A i \in 1 .. Len(l) - 1 - 1 + 1 : base[i] = l[1 + i - 1]
      <4>1. Len(l) - 1 \in Int /\ 1 \in Int  BY <1>2
      <4> QED BY <3>1, <3>2, <4>1, SubSeqProperties
    <3> QED BY <1>2, <3>1, <3>3
  <2>2. CASE ~J
    <3>1. base = l /\ k = Len(l) + 1  BY <2>2
    <3> HIDE DEF S, l, base
    <3> QED BY <1>2, <1>3, <3>1
  <2> QED BY <2>1, <2>2
<1>8. /\ h[k].op = IF J THEN Ticks(Last(l).op.count + 1) ELSE op
      /\ h \in Seq(S) /\ Len(h) = k + Len(bs)
      /\ \A i \in 1 .. k - 1 : h[i] = l[i]
      /\ \A i \in k + 1 .. Len(h) : h[i].op.kind = "automatic"
  <2>1. r.op = IF J THEN Ticks(Last(l).op.count + 1) ELSE op  BY DEF Record
  <2> HIDE DEF S, l, base, r, notes, J
  <2> DEFINE x == base \o <<r>>
  <2>2. /\ x \in Seq(S) /\ Len(x) = k /\ x[k] = r /\ \A i \in 1 .. k - 1 : x[i] = base[i]
    <3>1. PICK o : o = <<r>>  OBVIOUS
    <3>2. o \in Seq(S) /\ Len(o) = 1 /\ o[1] = r /\ x = base \o o  BY <1>6, <3>1
    <3> HIDE DEF x
    <3>3. x \in Seq(S) /\ Both(x, base, o)
      <4>1. base \in Seq(S) /\ o \in Seq(S) /\ x = base \o o  BY <1>7, <3>2
      <4> QED BY <4>1, Joined
    <3> QED BY <1>7, <3>2, <3>3 DEF Both
  <2> HIDE DEF x
  <2>3. h = x \o notes  BY <1>1 DEF x
  <2>4. /\ h \in Seq(S) /\ Len(h) = Len(x) + Len(notes)
        /\ \A i \in 1 .. Len(x) : h[i] = x[i]
        /\ \A i \in 1 .. Len(notes) : h[Len(x) + i] = notes[i]
    <3>1. x \in Seq(S) /\ notes \in Seq(S) /\ h = x \o notes  BY <1>5, <2>2, <2>3
    <3>2. h \in Seq(S) /\ Both(h, x, notes)  BY <3>1, Joined
    <3> QED BY <3>2 DEF Both
  <2>5. ASSUME NEW i \in k + 1 .. Len(h) PROVE h[i].op.kind = "automatic"
    <3>1. i - k \in 1 .. Len(notes) /\ k + (i - k) = i /\ i - k \in 1 .. Len(bs)
      BY <1>4, <1>5, <1>7, <2>2, <2>4
    <3>2. h[k + (i - k)] = notes[i - k]  BY <2>2, <2>4, <3>1
    <3> QED BY <1>5, <3>1, <3>2
  <2>6. h[k] = r /\ \A i \in 1 .. k - 1 : h[i] = x[i]  BY <1>7, <2>2, <2>4
  <2> QED BY <1>4, <1>5, <1>7, <2>1, <2>2, <2>4, <2>5, <2>6
<1> HIDE DEF S
<1> QED BY <1>4, <1>7, <1>8 DEF IsLog, IsLogged

-----------------------------------------------------------------------------
(* The opponent's script                                                     *)

\* What the script says is an intent of the protocol.
LEMMA SayIs ==
  ASSUME NEW type, NEW dir \in -1 .. 1, NEW aimId \in Nat,
         type \in {"walk_start", "walk_refresh", "walk_stop", "jump", "face",
                   "select_relic", "aim", "fire", "threadguard", "threadleap"},
         type = "walk_start" => dir # 0
  PROVE  Say(type, dir, aimId) \in Sayings
BY DEF Say, Sayings, Intents

\* An operation with its script is a step.
LEMMA StepIs ==
  ASSUME NEW op, NEW c, IsScript(c), op \in Sayings \cup {Rest, Cancel}
  PROVE  IsStep(Step(op, c))
<1>1. Step(op, c).op = op /\ Step(op, c).script = c  BY DEF Step
<1>2. CASE op \in Sayings
  <2>1. op.kind = "intent" /\ op.intent \in Intents  BY <1>2 DEF Sayings
  <2> QED BY <1>1, <2>1 DEF IsStep
<1>3. CASE op = Rest
  <2>1. op.kind = "none"  BY <1>3 DEF Rest
  <2> QED BY <1>1, <2>1 DEF IsStep
<1>4. CASE op = Cancel
  <2>1. op.kind = "barrier" /\ op.reason = "cancel"  BY <1>4 DEF Cancel
  <2> QED BY <1>1, <2>1 DEF IsStep
<1> QED BY <1>2, <1>3, <1>4

\* So is the next of a queue.
LEMMA DequeueIs ==
  ASSUME NEW c, IsScript(c), c.queue # <<>>
  PROVE  IsStep(Dequeue(c))
<1>1. Head(c.queue) \in Sayings /\ Tail(c.queue) \in Seq(Sayings)
  BY HeadTailProperties DEF IsScript
<1> DEFINE d == [c EXCEPT !.queue = Tail(@)]
<1>2. DOMAIN d = DOMAIN c /\ d.queue = Tail(c.queue) /\ d.prefix = c.prefix
  BY DEF IsScript
<1>3. IsScript(d)  BY <1>1, <1>2 DEF IsScript
<1>4. Dequeue(c) = Step(Head(c.queue), d)  BY DEF Dequeue
<1> HIDE DEF d
<1> QED BY <1>1, <1>3, <1>4, StepIs

\* The queues of the script hold what it may say.
LEMMA QueueIs ==
  /\ <<Say("face", Away, 0), Say("walk_start", Away, 0)>> \in Seq(Sayings) \ {<<>>}
  /\ <<Say("face", Toward, 0), Say("walk_start", Toward, 0)>> \in Seq(Sayings) \ {<<>>}
  /\ <<Say("face", Toward, 0), Say("select_relic", 0, 0), Say("aim", 0, 0)>> \in Seq(Sayings) \ {<<>>}
<1>1. /\ Say("face", Away, 0) \in Sayings /\ Say("walk_start", Away, 0) \in Sayings
      /\ Say("face", Toward, 0) \in Sayings /\ Say("walk_start", Toward, 0) \in Sayings
      /\ Say("select_relic", 0, 0) \in Sayings /\ Say("aim", 0, 0) \in Sayings
  BY SayIs DEF Away, Toward
<1> QED BY <1>1

\* The script asks for nothing but what it may say.
LEMMA NextOperationIs ==
  ASSUME NEW c, IsScript(c), NEW m, Typed(m)
  PROVE  IsStep(NextOperation(c, m))
<1>0. m.aimId \in Nat /\ m.tick \in Nat  BY DEF Typed
<1>1. \A v : IsScript([c EXCEPT !.refreshed = v])  BY DEF IsScript
<1>2. IsStep(Step(Rest, c))  BY StepIs
<1>3. ASSUME NEW d, IsScript(d) PROVE IsStep(Refresh(d, m))
  <2>1. IsScript([d EXCEPT !.refreshed = m.tick])  BY <1>3 DEF IsScript
  <2>2. Say("walk_refresh", 0, 0) \in Sayings  BY SayIs
  <2> QED BY <2>1, <2>2, StepIs DEF Refresh
<1>4. ASSUME NEW d, IsScript(d) PROVE IsStep(Ground(d, m))
  <2> DEFINE q == <<Say("face", Toward, 0), Say("select_relic", 0, 0), Say("aim", 0, 0)>>
             g == [d EXCEPT !.stage = "aim", !.queue = q]
  <2>1. q \in Seq(Sayings) /\ q # <<>>  BY QueueIs
  <2>2. Ground(d, m) = IF ~Ready(m) THEN Step(Rest, d) ELSE Dequeue(g)  BY DEF Ground
  <2> HIDE DEF q
  <2>3. IsScript(g) /\ g.queue = q  BY <1>4, <2>1 DEF IsScript
  <2> HIDE DEF g
  <2>4. IsStep(Dequeue(g))  BY <2>1, <2>3, DequeueIs
  <2>5. IsStep(Step(Rest, d))  BY <1>4, StepIs
  <2> QED BY <2>2, <2>4, <2>5
<1>5. ASSUME NEW d, IsScript(d) PROVE IsStep(Begin(d, m))
  <2> DEFINE b == [d EXCEPT !.begun = m.tick]
             q == <<Say("face", Toward, 0), Say("walk_start", Toward, 0)>>
             h == [b EXCEPT !.stage = "ground"]
             g == [b EXCEPT !.stage = "motion", !.queue = q]
  <2>1. q \in Seq(Sayings) /\ q # <<>>  BY QueueIs
  <2>2. Begin(d, m) = IF d.plan.walk = 0 THEN Ground(h, m) ELSE Dequeue(g)
    <3>1. b.plan = d.plan  BY <1>5 DEF IsScript
    <3> QED BY <3>1 DEF Begin
  <2> HIDE DEF q
  <2>3. IsScript(b)  BY <1>5 DEF IsScript
  <2> HIDE DEF b
  <2>4. IsScript(h) /\ IsScript(g) /\ g.queue = q  BY <2>1, <2>3 DEF IsScript
  <2> HIDE DEF g, h
  <2>5. IsStep(Dequeue(g))  BY <2>1, <2>4, DequeueIs
  <2>6. IsStep(Ground(h, m))  BY <1>4, <2>4
  <2> QED BY <2>2, <2>5, <2>6
<1>6. IsStep(Prefix(c, m))
  <2> DEFINE p == [c EXCEPT !.pending = FALSE]
  <2>1. IsScript(p)  BY DEF IsScript
  <2>2. Prefix(c, m) = IF c.pending /\ c.prefix # None THEN Step(Say(c.prefix, Toward, 0), p)
                       ELSE IF c.pending \/ Ready(m) THEN Begin(p, m) ELSE Step(Rest, c)
    BY DEF Prefix
  <2> HIDE DEF p
  <2>3. ASSUME c.prefix # None PROVE IsStep(Step(Say(c.prefix, Toward, 0), p))
    <3>1. Say(c.prefix, Toward, 0) \in Sayings
      <4>1. c.prefix \in {"threadguard", "threadleap"}  BY <2>3 DEF IsScript
      <4>2. Toward \in -1 .. 1  BY DEF Toward
      <4>3. CASE c.prefix = "threadguard"  BY <4>2, <4>3, SayIs
      <4>4. CASE c.prefix = "threadleap"  BY <4>2, <4>4, SayIs
      <4> QED BY <4>1, <4>3, <4>4
    <3> QED BY <2>1, <3>1, StepIs
  <2>4. IsStep(Begin(p, m))  BY <1>5, <2>1
  <2> QED BY <1>2, <2>2, <2>3, <2>4
<1>7. IsStep(Motion(c, m))
  <2> DEFINE elapsed == m.tick - c.begun
             jumps   == /\ c.plan.jumpAfter # Never /\ ~c.jumped
                        /\ elapsed >= c.plan.jumpAfter
             d       == [c EXCEPT !.jumped = @ \/ jumps]
             g       == [d EXCEPT !.stage = "ground"]
  <2>1. Motion(c, m) = IF jumps /\ Active(m).grounded THEN Step(Say("jump", Toward, 0), d)
                       ELSE IF elapsed >= c.plan.walk THEN Step(Cancel, g)
                       ELSE IF Refreshes(d, m, elapsed) THEN Refresh(d, m)
                       ELSE Step(Rest, d)
    <3>1. d.plan = c.plan  BY DEF IsScript
    <3> QED BY <3>1 DEF Motion
  <2> HIDE DEF elapsed, jumps
  <2>2. IsScript(d)  BY DEF IsScript
  <2> HIDE DEF d
  <2>3. IsScript(g)  BY <2>2 DEF IsScript
  <2> HIDE DEF g
  <2>4. Say("jump", Toward, 0) \in Sayings  BY SayIs DEF Toward
  <2>5. IsStep(Step(Say("jump", Toward, 0), d))  BY <2>2, <2>4, StepIs
  <2>6. IsStep(Step(Cancel, g))  BY <2>3, StepIs
  <2>7. IsStep(Refresh(d, m)) /\ IsStep(Step(Rest, d))  BY <1>3, <2>2, StepIs
  <2> QED BY <2>1, <2>5, <2>6, <2>7
<1>8. IsStep(Dwell(c, m))
  <2>1. IsScript([c EXCEPT !.stage = "resolution"])  BY DEF IsScript
  <2>2. Say("fire", 0, m.aimId) \in Sayings  BY <1>0, SayIs
  <2>3. IsStep(Step(Say("fire", 0, m.aimId), [c EXCEPT !.stage = "resolution"]))
    BY <2>1, <2>2, StepIs
  <2> QED BY <1>2, <2>3 DEF Dwell
<1>9. IsStep(Retreat(c, m))
  <2> DEFINE q == <<Say("face", Away, 0), Say("walk_start", Away, 0)>>
             g == [c EXCEPT !.retreat = m.tick, !.queue = q]
  <2>1. q \in Seq(Sayings) /\ q # <<>>  BY QueueIs
  <2>2. Retreat(c, m) = IF c.retreat = Never THEN Dequeue(g)
                        ELSE IF Refreshes(c, m, m.tick - c.retreat) THEN Refresh(c, m)
                        ELSE Step(Rest, c)
    BY DEF Retreat
  <2> HIDE DEF q
  <2>3. IsScript(g) /\ g.queue = q  BY <2>1 DEF IsScript
  <2> HIDE DEF g
  <2>4. IsStep(Dequeue(g))  BY <2>1, <2>3, DequeueIs
  <2> QED BY <1>2, <1>3, <2>2, <2>4
<1>10. IsStep(Step(Rest, [c EXCEPT !.aimedAt = m.tick, !.stage = "dwell"]))
  <2>1. IsScript([c EXCEPT !.aimedAt = m.tick, !.stage = "dwell"])  BY DEF IsScript
  <2> QED BY <2>1, StepIs
<1>11. c.queue # <<>> => IsStep(Dequeue(c))  BY DequeueIs
<1>12. IsStep(Ground(c, m))  BY <1>4
<1> QED BY <1>2, <1>6, <1>7, <1>8, <1>9, <1>10, <1>11, <1>12 DEF NextOperation

-----------------------------------------------------------------------------
(* The script by stages                                                      *)

\* The intents of the script are those of the protocol.
LEMMA SaidIs ==
  /\ \A type \in {"threadguard", "threadleap"} :
       Say(type, Toward, 0).intent \in Intents /\ Say(type, Toward, 0).intent.type = type
  /\ \A dir \in {-1, 1} : /\ Say("face", dir, 0).intent \in Intents
                          /\ Say("walk_start", dir, 0).intent \in Intents
                          /\ Say("walk_start", dir, 0).intent.dir = dir
  /\ Say("jump", Toward, 0).intent \in Intents /\ Say("jump", Toward, 0).intent.dir = 1
  /\ Say("select_relic", 0, 0).intent \in Intents
  /\ Say("aim", 0, 0).intent \in Intents
  /\ \A n \in Nat : Say("fire", 0, n).intent \in Intents /\ Say("fire", 0, n).intent.aimId = n
  /\ \A type, dir, n : /\ Say(type, dir, n).kind = "intent"
                       /\ Say(type, dir, n).intent.type = type
BY DEF Say, Intents, Toward

-----------------------------------------------------------------------------
(* Serving a stage                                                           *)

\* A script that differs in what changes while it runs is a script.
LEMMA FitAfter ==
  ASSUME NEW c, Fit(c), NEW d, DOMAIN d = DOMAIN c, d.plan = c.plan, d.prefix = c.prefix,
         d.turn = c.turn, d.queue \in Seq(Sayings), d.begun \in Int, d.refreshed \in Int,
         d.retreat \in Int, d.pending \in BOOLEAN, d.jumped \in BOOLEAN
  PROVE  Fit(d)
BY DEF Fit, IsScript

\* The fields of an intent that has been done, and of the script after it.
Alike(c, d) == d.plan = c.plan /\ d.prefix = c.prefix /\ d.turn = c.turn /\ d.begun = c.begun
               /\ d.jumped = c.jumped /\ d.refreshed = c.refreshed /\ d.retreat = c.retreat

\* Everything the script puts in its queue it may say.
LEMMA QueuesAre ==
  /\ <<>> \in Seq(Sayings)
  /\ <<Say("walk_start", Away, 0)>> \in Seq(Sayings)
  /\ <<Say("walk_start", Toward, 0)>> \in Seq(Sayings)
  /\ <<Say("select_relic", 0, 0), Say("aim", 0, 0)>> \in Seq(Sayings)
  /\ <<Say("aim", 0, 0)>> \in Seq(Sayings)
  /\ <<Say("face", Away, 0), Say("walk_start", Away, 0)>> \in Seq(Sayings)
  /\ <<Say("face", Toward, 0), Say("walk_start", Toward, 0)>> \in Seq(Sayings)
  /\ <<Say("face", Toward, 0), Say("select_relic", 0, 0), Say("aim", 0, 0)>> \in Seq(Sayings)
<1>1. /\ Say("walk_start", Away, 0) \in Sayings /\ Say("walk_start", Toward, 0) \in Sayings
      /\ Say("face", Away, 0) \in Sayings /\ Say("face", Toward, 0) \in Sayings
      /\ Say("select_relic", 0, 0) \in Sayings /\ Say("aim", 0, 0) \in Sayings
  BY SayIs DEF Away, Toward
<1>2. \A S, x, y, z : x \in S /\ y \in S /\ z \in S =>
        <<>> \in Seq(S) /\ <<x>> \in Seq(S) /\ <<x, y>> \in Seq(S) /\ <<x, y, z>> \in Seq(S)
  OBVIOUS
<1> QED BY ONLY <1>1, <1>2

\* The next of three operations in the queue.
LEMMA QueueThree ==
  ASSUME NEW c, Fit(c), NEW x, NEW y, NEW z, c.queue = <<x, y, z>>, NEW s, s = Dequeue(c)
  PROVE  s.op = x /\ s.script = [c EXCEPT !.queue = <<y, z>>]
<1>1. Head(c.queue) = x /\ Tail(c.queue) = <<y, z>> /\ "queue" \in DOMAIN c  BY DEF Fit, IsScript
<1> QED BY <1>1 DEF Dequeue, Step

\* And of two.
LEMMA QueueTwo ==
  ASSUME NEW c, Fit(c), NEW x, NEW y, c.queue = <<x, y>>, NEW s, s = Dequeue(c)
  PROVE  s.op = x /\ s.script = [c EXCEPT !.queue = <<y>>]
<1>1. Head(c.queue) = x /\ Tail(c.queue) = <<y>> /\ "queue" \in DOMAIN c  BY DEF Fit, IsScript
<1> QED BY <1>1 DEF Dequeue, Step

\* And of one.
LEMMA QueueOne ==
  ASSUME NEW c, Fit(c), NEW x, c.queue = <<x>>, NEW s, s = Dequeue(c)
  PROVE  s.op = x /\ s.script = [c EXCEPT !.queue = <<>>]
<1>1. Head(c.queue) = x /\ Tail(c.queue) = <<>> /\ "queue" \in DOMAIN c  BY DEF Fit, IsScript
<1> QED BY <1>1 DEF Dequeue, Step

\* A match before the shot has intents and time left.
LEMMA Room ==
  ASSUME NEW c, Fit(c), NEW m, Sound(m)
  PROVE  /\ c.plan.walk + 8 < MaxIntents /\ c.plan.walk \in Nat /\ m.intents \in Nat
         /\ MaxIntents \in Nat /\ m.tick \in Nat
BY Positive DEF Fit, Sound, Typed

\* Somebody who stands still turns round and prepares the shot.
LEMMA GroundServes ==
  ASSUME NEW m, Sound(m), Ready(m), NEW c, Fit(c), c.turn = m.turn, m.actor = "loomkeeper",
         c.refreshed <= m.tick, c.retreat = Never, Active(m).thread >= ShotPrice,
         m.intents <= 3 + c.plan.walk, NEW k \in Nat, k >= 3, NEW s, s = Ground(c, m)
  PROVE  Serves(m, s, k)
<1> DEFINE q == <<Say("face", Toward, 0), Say("select_relic", 0, 0), Say("aim", 0, 0)>>
           q2 == <<Say("select_relic", 0, 0), Say("aim", 0, 0)>>
           b == [c EXCEPT !.stage = "aim", !.queue = q]
           i == Say("face", Toward, 0).intent
           g == AnswerTo(m, s).match
<1>1. s = Dequeue(b)  BY DEF Ground
<1>2. DOMAIN b = DOMAIN c /\ b.queue = q /\ b.stage = "aim" /\ Alike(c, b) /\ b.pending = c.pending
  BY DEF Fit, IsScript, Alike
<1>3. Fit(b)  BY <1>2, FitAfter, QueuesAre DEF Alike, Fit
<1> HIDE DEF b
<1>4. s.op = Say("face", Toward, 0) /\ s.script = [b EXCEPT !.queue = q2]
  BY <1>1, <1>2, <1>3, QueueThree
<1> DEFINE d == s.script
<1>5. DOMAIN d = DOMAIN c /\ d.queue = q2 /\ d.stage = "aim" /\ Alike(c, d) /\ d.pending = c.pending
  BY <1>2, <1>3, <1>4 DEF Fit, IsScript, Alike
<1>6. Fit(d)  BY <1>5, FitAfter, QueuesAre DEF Alike, Fit
<1>7. i \in Intents /\ i.type \in {"face", "select_relic"} /\ Allowed(m, i)
  BY SaidIs DEF Toward, Allowed, Offence, Utility
<1>8. Moves(m) /\ m.intents < MaxIntents  BY Room DEF Ready, Moves
<1>9. AnswerTo(m, s) = Intent(m, m.actor, i, Seen(m))  BY <1>4 DEF AnswerTo
<1> HIDE DEF i, d
<1>10. AnswerTo(m, s).verdict = "done" /\ Took(m, g) /\ Stays(m, g) /\ g.held = m.held
  BY <1>7, <1>8, <1>9, FaceTakes
<1> HIDE DEF g
<1>11. Ready(g)  BY <1>10 DEF Stays, Ready
<1>12. g.intents <= 4 + c.plan.walk  BY <1>10, Room DEF Took
<1>13. Aiming(d, g, q2, 4)
  BY <1>5, <1>6, <1>10, <1>11, <1>12 DEF Aiming, Acts, Runs, Took, Stays, Alike, Ready
<1>14. Busy(d, g, k)  BY <1>13 DEF Busy
<1>15. s.op.kind = "intent"  BY <1>4, SaidIs
<1> QED BY <1>10, <1>14, <1>15 DEF Serves, d, g

\* The turn's plan begins: with a walk, or at once with the shot.
LEMMA BeginServes ==
  ASSUME NEW m, Sound(m), Ready(m), NEW c, Fit(c), c.turn = m.turn, m.actor = "loomkeeper",
         c.refreshed <= m.tick, c.retreat = Never, Active(m).thread >= ShotPrice,
         m.intents <= 1, ~c.jumped, NEW k \in Nat, k >= 4, NEW s, s = Begin(c, m)
  PROVE  Serves(m, s, k)
<1> DEFINE b == [c EXCEPT !.begun = m.tick]
<1>0. m.tick \in Nat /\ c.plan.walk \in Nat /\ m.intents \in Nat  BY Room
<1>1. CASE c.plan.walk = 0
  <2> DEFINE e == [b EXCEPT !.stage = "ground"]
  <2>1. s = Ground(e, m)  BY <1>1 DEF Begin
  <2>2. DOMAIN e = DOMAIN c /\ e.plan = c.plan /\ e.prefix = c.prefix /\ e.turn = c.turn
        /\ e.queue = c.queue /\ e.begun = m.tick /\ e.refreshed = c.refreshed
        /\ e.retreat = c.retreat /\ e.pending = c.pending /\ e.jumped = c.jumped
    BY DEF Fit, IsScript
  <2>3. Fit(e)  BY <1>0, <2>2, FitAfter DEF Fit, IsScript
  <2> HIDE DEF e
  <2> QED BY <1>0, <2>1, <2>2, <2>3, GroundServes
<1>2. CASE c.plan.walk # 0
  <2> DEFINE q == <<Say("face", Toward, 0), Say("walk_start", Toward, 0)>>
             e == [b EXCEPT !.stage = "motion", !.queue = q]
             d == s.script
             i == Say("face", Toward, 0).intent
             g == AnswerTo(m, s).match
  <2>1. s = Dequeue(e)  BY <1>2 DEF Begin
  <2>2. DOMAIN e = DOMAIN c /\ e.plan = c.plan /\ e.prefix = c.prefix /\ e.turn = c.turn
        /\ e.queue = q /\ e.begun = m.tick /\ e.refreshed = c.refreshed /\ e.stage = "motion"
        /\ e.retreat = c.retreat /\ e.pending = c.pending /\ e.jumped = c.jumped
    BY DEF Fit, IsScript
  <2>3. Fit(e)
    <3>1. e.queue \in Seq(Sayings)  BY <2>2, QueuesAre
    <3>2. e.begun \in Int /\ e.refreshed \in Int /\ e.retreat \in Int /\ e.pending \in BOOLEAN
          /\ e.jumped \in BOOLEAN
      BY <1>0, <2>2 DEF Fit
    <3> HIDE DEF e, b
    <3> QED BY <2>2, <3>1, <3>2, FitAfter
  <2> HIDE DEF e
  <2>4. s.op = Say("face", Toward, 0) /\ d = [e EXCEPT !.queue = <<Say("walk_start", Toward, 0)>>]
    BY <2>1, <2>2, <2>3, QueueTwo
  <2>5. DOMAIN d = DOMAIN c /\ d.plan = c.plan /\ d.prefix = c.prefix /\ d.turn = c.turn
        /\ d.queue = <<Say("walk_start", Toward, 0)>> /\ d.begun = m.tick
        /\ d.refreshed = c.refreshed /\ d.stage = "motion"
        /\ d.retreat = c.retreat /\ d.pending = c.pending /\ d.jumped = c.jumped
    BY <2>2, <2>3, <2>4 DEF Fit, IsScript
  <2>6. Fit(d)
    <3>1. d.queue \in Seq(Sayings)  BY <2>5, QueuesAre
    <3>2. d.begun \in Int /\ d.refreshed \in Int /\ d.retreat \in Int /\ d.pending \in BOOLEAN
          /\ d.jumped \in BOOLEAN
      BY <1>0, <2>5 DEF Fit
    <3> HIDE DEF d
    <3> QED BY <2>5, <3>1, <3>2, FitAfter
  <2>7. i \in Intents /\ i.type \in {"face", "select_relic"} /\ Allowed(m, i)
    BY SaidIs DEF Toward, Allowed, Offence, Utility
  <2>8. Moves(m) /\ m.intents < MaxIntents  BY Room DEF Ready, Moves
  <2>9. AnswerTo(m, s) = Intent(m, m.actor, i, Seen(m))  BY <2>4 DEF AnswerTo
  <2> HIDE DEF i, d
  <2>10. AnswerTo(m, s).verdict = "done" /\ Took(m, g) /\ Stays(m, g) /\ g.held = m.held
    BY <2>7, <2>8, <2>9, FaceTakes
  <2> HIDE DEF g
  <2>11. g.intents <= 2  BY <1>0, <2>10 DEF Took
  <2>12. Facing(d, g)
    BY <1>0, <1>2, <2>5, <2>6, <2>10, <2>11 DEF Facing, Acts, Runs, Took, Stays, Ready
  <2>13. Busy(d, g, k)  BY <2>12 DEF Busy
  <2>14. s.op.kind = "intent"  BY <2>4, SaidIs
  <2> QED BY <2>10, <2>13, <2>14 DEF Serves, d, g
<1> QED BY <1>1, <1>2

\* A script that has not begun says its prefix, or begins.
LEMMA PendingServes ==
  ASSUME NEW m, Sound(m), NEW c, Pending(c, m), NEW k \in Nat, k >= 5,
         NEW s, s = NextOperation(c, m)
  PROVE  Serves(m, s, k)
<1> DEFINE d == [c EXCEPT !.pending = FALSE]
<1>0. Fit(c) /\ m.intents = 0 /\ Ready(m) /\ ~m.utility /\ m.actor = "loomkeeper"
      /\ m.phase = "action" /\ c.turn = m.turn /\ c.queue = <<>> /\ c.stage = "prefix"
      /\ c.pending /\ ~c.jumped /\ c.retreat = Never /\ Active(m).thread >= ShotPrice
      /\ c.refreshed <= m.tick
  BY DEF Pending, Acts, Runs, Begun
<1>1. s = Prefix(c, m)  BY <1>0 DEF NextOperation
<1>2. DOMAIN d = DOMAIN c /\ d.plan = c.plan /\ d.prefix = c.prefix /\ d.turn = c.turn
        /\ d.queue = c.queue /\ d.begun = c.begun /\ d.refreshed = c.refreshed
        /\ d.stage = "prefix" /\ d.retreat = c.retreat /\ ~d.pending /\ d.pending \in BOOLEAN
        /\ d.jumped = c.jumped
  BY <1>0 DEF Fit, IsScript
<1>3. Fit(d)  BY <1>0, <1>2, FitAfter DEF Fit, IsScript
<1>4. CASE c.prefix = None
  <2>1. s = Begin(d, m)  BY <1>0, <1>1, <1>4 DEF Prefix
  <2> HIDE DEF d
  <2> QED BY <1>0, <1>2, <1>3, <2>1, BeginServes
<1>5. CASE c.prefix # None
  <2> DEFINE i == Say(c.prefix, Toward, 0).intent
             g == AnswerTo(m, s).match
  <2>1. s.op = Say(c.prefix, Toward, 0) /\ s.script = d  BY <1>0, <1>1, <1>5 DEF Prefix, Step
  <2> HIDE DEF d
  <2>2. c.prefix \in {"threadguard", "threadleap"}  BY <1>0, <1>5 DEF Fit, IsScript
  <2>3. i \in Intents /\ i.type \in Utility  BY <2>2, SaidIs DEF Utility
  <2>4. m.intents < MaxIntents /\ m.intents \in Nat  BY <1>0, Room
  <2>5. AnswerTo(m, s) = Intent(m, m.actor, i, Seen(m))  BY <1>0, <2>1 DEF AnswerTo
  <2>6. /\ Active(m).thread >= ShotPrice + UtilityPrice
        /\ Active(m).thread \in Nat /\ ShotPrice \in Nat /\ UtilityPrice \in Nat
    <3>1. Active(m).thread >= ShotPrice + UtilityPrice  BY <1>5 DEF Pending
    <3>2. IsBody(Active(m))  BY DEF Sound, Typed, Active
    <3> QED BY <3>1, <3>2, Positive DEF IsBody
  <2>7. Active(m).thread >= UtilityPrice  BY <2>6
  <2> HIDE DEF i
  <2>8. AnswerTo(m, s).verdict = "done" /\ Took(m, g) /\ g.held = 0
        /\ Active(g).thread = Active(m).thread - UtilityPrice
    BY <1>0, <2>3, <2>4, <2>5, <2>7, UtilityTakes
  <2> HIDE DEF g
  <2>9. Active(g).thread >= ShotPrice  BY <2>6, <2>8
  <2>10. g.intents <= 1  BY <1>0, <2>8 DEF Took
  <2>11. Prefixed(d, g)  BY <1>0, <1>2, <1>3, <2>8, <2>9, <2>10 DEF Prefixed, Acts, Runs, Took
  <2>12. Busy(d, g, k)  BY <2>11 DEF Busy
  <2>13. s.op.kind = "intent"  BY <2>1, SaidIs
  <2> QED BY <2>1, <2>8, <2>12, <2>13 DEF Serves, g
<1> QED BY <1>4, <1>5

\* After the prefix it begins when everybody stands still.
LEMMA PrefixedServes ==
  ASSUME NEW m, Sound(m), NEW c, Prefixed(c, m), NEW k \in Nat, k >= 4,
         NEW s, s = NextOperation(c, m)
  PROVE  Serves(m, s, k)
<1> DEFINE d == [c EXCEPT !.pending = FALSE]
<1>0. Fit(c) /\ m.intents <= 1 /\ m.actor = "loomkeeper"
      /\ m.phase = "action" /\ c.turn = m.turn /\ c.queue = <<>> /\ c.stage = "prefix"
      /\ ~c.pending /\ ~c.jumped /\ c.retreat = Never /\ Active(m).thread >= ShotPrice
      /\ c.refreshed <= m.tick
  BY DEF Prefixed, Acts, Runs
<1>1. s = Prefix(c, m)  BY <1>0 DEF NextOperation
<1>2. CASE Ready(m)
  <2>1. s = Begin(d, m)  BY <1>0, <1>1, <1>2 DEF Prefix
  <2>2. DOMAIN d = DOMAIN c /\ d.plan = c.plan /\ d.prefix = c.prefix /\ d.turn = c.turn
          /\ d.queue = c.queue /\ d.begun = c.begun /\ d.refreshed = c.refreshed
          /\ d.retreat = c.retreat /\ d.pending \in BOOLEAN /\ d.jumped = c.jumped
    BY <1>0 DEF Fit, IsScript
  <2>3. Fit(d)  BY <1>0, <2>2, FitAfter DEF Fit, IsScript
  <2> HIDE DEF d
  <2> QED BY <1>0, <1>2, <2>1, <2>2, <2>3, BeginServes
<1>3. CASE ~Ready(m)
  <2>1. s.op.kind = "none" /\ s.script = c  BY <1>0, <1>1, <1>3 DEF Prefix, Step, Rest
  <2> QED BY <1>3, <2>1 DEF Serves, Rests
<1> QED BY <1>2, <1>3

\* It walks once it has turned.
LEMMA FacingServes ==
  ASSUME NEW m, Sound(m), NEW c, Facing(c, m), NEW k \in Nat, k >= 3,
         NEW s, s = NextOperation(c, m)
  PROVE  Serves(m, s, k)
<1> DEFINE d == s.script
           i == Say("walk_start", Toward, 0).intent
           g == AnswerTo(m, s).match
<1>0. Fit(c) /\ m.intents <= 2 /\ m.actor = "loomkeeper" /\ m.held = 0 /\ c.begun = m.tick
      /\ m.phase = "action" /\ c.turn = m.turn /\ c.queue = <<Say("walk_start", Toward, 0)>>
      /\ c.stage = "motion" /\ c.plan.walk > 0
      /\ ~c.jumped /\ c.retreat = Never /\ Active(m).thread >= ShotPrice
      /\ c.refreshed <= m.tick
  BY DEF Facing, Acts, Runs
<1>1. s = Dequeue(c)  BY <1>0 DEF NextOperation
<1>2. s.op = Say("walk_start", Toward, 0) /\ d = [c EXCEPT !.queue = <<>>]
  BY <1>0, <1>1, QueueOne
<1>3. DOMAIN d = DOMAIN c /\ d.plan = c.plan /\ d.prefix = c.prefix /\ d.turn = c.turn
      /\ d.queue = <<>> /\ d.begun = m.tick /\ d.refreshed = c.refreshed /\ d.stage = "motion"
      /\ d.retreat = c.retreat /\ d.pending = c.pending /\ d.jumped = c.jumped
  BY <1>0, <1>2 DEF Fit, IsScript
<1>4. m.intents < MaxIntents /\ m.intents \in Nat /\ m.tick \in Nat /\ c.plan.walk \in Nat
  BY <1>0, Room
<1>5. Fit(d)
  <2>1. d.queue \in Seq(Sayings)  BY <1>3, QueuesAre
  <2>2. d.begun \in Int /\ d.refreshed \in Int /\ d.retreat \in Int /\ d.pending \in BOOLEAN
        /\ d.jumped \in BOOLEAN
    BY <1>0, <1>3, <1>4 DEF Fit
  <2> HIDE DEF d
  <2> QED BY <1>0, <1>3, <2>1, <2>2, FitAfter
<1>6. i \in Intents /\ i.type = "walk_start"  BY SaidIs DEF Toward
<1>7. AnswerTo(m, s) = Intent(m, m.actor, i, Seen(m))  BY <1>0, <1>2 DEF AnswerTo
<1>8. Moves(m)  BY <1>0 DEF Moves
<1> HIDE DEF i, d
<1>9. AnswerTo(m, s).verdict = "done" /\ Took(m, g) /\ Stays(m, g) /\ g.refreshed = m.tick
  BY <1>0, <1>4, <1>6, <1>7, <1>8, WalkTakes
<1> HIDE DEF g
<1>10. g.tick = m.tick /\ g.intents <= 3 /\ Typed(g)  BY <1>0, <1>4, <1>9 DEF Took, Sound
<1>11. Pacing(d, g, 2, 0)  BY <1>9, <1>10, PacingStarts
<1>12. Walking(d, g, 0)
  BY <1>0, <1>3, <1>4, <1>5, <1>9, <1>10, <1>11 DEF Walking, Acts, Runs, Took, Stays
<1>13. WalkRank(d, g, 0) <= 3  BY <1>0, <1>3, <1>4 DEF WalkRank
<1>14. WalkRank(d, g, 0) \in Nat  BY DEF WalkRank
<1>15. Busy(d, g, k)
  <2>1. 0 \in Nat /\ k >= WalkRank(d, g, 0)  BY <1>13, <1>14
  <2> QED BY <1>12, <2>1 DEF Busy
<1>16. s.op.kind = "intent"  BY <1>2, SaidIs
<1> QED BY <1>9, <1>15, <1>16 DEF Serves, d, g

\* A script that has gone on in its queue.
LEMMA QueueLeft ==
  ASSUME NEW c, Fit(c), NEW q \in Seq(Sayings), NEW d, d = [c EXCEPT !.queue = q]
  PROVE  /\ Fit(d) /\ d.queue = q /\ d.stage = c.stage /\ d.plan = c.plan /\ d.turn = c.turn
         /\ d.begun = c.begun /\ d.refreshed = c.refreshed /\ d.retreat = c.retreat
         /\ d.jumped = c.jumped
<1>1. DOMAIN d = DOMAIN c /\ d.plan = c.plan /\ d.prefix = c.prefix /\ d.turn = c.turn
      /\ d.queue = q /\ d.begun = c.begun /\ d.refreshed = c.refreshed /\ d.stage = c.stage
      /\ d.retreat = c.retreat /\ d.pending = c.pending /\ d.jumped = c.jumped
  BY DEF Fit, IsScript
<1>2. d.begun \in Int /\ d.refreshed \in Int /\ d.retreat \in Int /\ d.pending \in BOOLEAN
      /\ d.jumped \in BOOLEAN
  BY <1>1 DEF Fit
<1>3. Fit(d)  BY ONLY <1>1, <1>2, FitAfter, Fit(c), q \in Seq(Sayings)
<1> QED BY <1>1, <1>3

\* A script whose queue is spent.
LEMMA QueueSpent ==
  ASSUME NEW c, Fit(c), NEW d, d = [c EXCEPT !.queue = <<>>]
  PROVE  /\ Fit(d) /\ d.queue = <<>> /\ d.stage = c.stage /\ d.plan = c.plan /\ d.turn = c.turn
         /\ d.begun = c.begun /\ d.refreshed = c.refreshed /\ d.retreat = c.retreat
         /\ d.jumped = c.jumped
<1> DEFINE q == <<>>
<1>1. q \in Seq(Sayings) /\ d = [c EXCEPT !.queue = q]  BY QueuesAre
<1>3. q = <<>>  OBVIOUS
<1> HIDE DEF q
<1>2. /\ Fit(d) /\ d.queue = q /\ d.stage = c.stage /\ d.plan = c.plan /\ d.turn = c.turn
      /\ d.begun = c.begun /\ d.refreshed = c.refreshed /\ d.retreat = c.retreat
      /\ d.jumped = c.jumped
  BY ONLY <1>1, Fit(c), QueueLeft
<1> QED BY <1>2, <1>3

\* It shoots as soon as everybody stands still.
LEMMA StandingServes ==
  ASSUME NEW m, Sound(m), NEW c, Standing(c, m), NEW k \in Nat, k >= 3,
         NEW s, s = NextOperation(c, m)
  PROVE  Serves(m, s, k)
<1>0. Fit(c) /\ m.intents <= 3 + c.plan.walk /\ m.actor = "loomkeeper"
      /\ m.phase = "action" /\ c.turn = m.turn /\ c.queue = <<>> /\ c.stage = "ground"
      /\ c.retreat = Never /\ Active(m).thread >= ShotPrice /\ c.refreshed <= m.tick
  BY DEF Standing, Acts, Runs
<1>1. s = Ground(c, m)  BY <1>0 DEF NextOperation
<1>2. CASE Ready(m)  BY <1>0, <1>1, <1>2, GroundServes
<1>3. CASE ~Ready(m)
  <2>1. s.op.kind = "none" /\ s.script = c  BY <1>1, <1>3 DEF Ground, Step, Rest
  <2> QED BY <1>3, <2>1 DEF Serves, Rests
<1> QED BY <1>2, <1>3

\* It selects its relic.
LEMMA SelectServes ==
  ASSUME NEW m, Sound(m), NEW c,
         Aiming(c, m, <<Say("select_relic", 0, 0), Say("aim", 0, 0)>>, 4),
         NEW k \in Nat, k >= 2, NEW s, s = NextOperation(c, m)
  PROVE  Serves(m, s, k)
<1> DEFINE d == s.script
           i == Say("select_relic", 0, 0).intent
           g == AnswerTo(m, s).match
           q == <<Say("aim", 0, 0)>>
<1>0. Fit(c) /\ m.intents <= 4 + c.plan.walk /\ m.actor = "loomkeeper" /\ Ready(m)
      /\ m.phase = "action" /\ c.turn = m.turn
      /\ c.queue = <<Say("select_relic", 0, 0), Say("aim", 0, 0)>> /\ c.stage = "aim"
      /\ c.retreat = Never /\ Active(m).thread >= ShotPrice /\ c.refreshed <= m.tick
  BY DEF Aiming, Acts, Runs
<1>1. s = Dequeue(c)  BY <1>0 DEF NextOperation
<1>2. s.op = Say("select_relic", 0, 0) /\ d = [c EXCEPT !.queue = q]
  BY <1>0, <1>1, QueueTwo
<1>3. q \in Seq(Sayings) /\ q # <<>>  BY QueuesAre
<1>4. i \in Intents /\ i.type = "select_relic"  BY SaidIs
<1>5. AnswerTo(m, s) = Intent(m, m.actor, i, Seen(m))  BY <1>0, <1>2 DEF AnswerTo
<1> HIDE DEF i, d, q
<1>6. Fit(d) /\ d.queue = q /\ d.stage = c.stage /\ d.plan = c.plan /\ d.turn = c.turn
      /\ d.refreshed = c.refreshed /\ d.retreat = c.retreat
  BY <1>0, <1>2, <1>3, QueueLeft
<1>7. Moves(m) /\ m.intents < MaxIntents /\ c.plan.walk \in Nat /\ m.intents \in Nat
  BY <1>0, Room DEF Ready, Moves
<1>8. Allowed(m, i)  BY <1>0, <1>4 DEF Allowed, Offence, Utility, Ready
<1>9. AnswerTo(m, s).verdict = "done" /\ Took(m, g) /\ Stays(m, g) /\ g.held = m.held
  BY <1>4, <1>5, <1>7, <1>8, FaceTakes
<1> HIDE DEF g
<1>10. Ready(g) /\ g.intents <= 5 + c.plan.walk  BY <1>0, <1>7, <1>9 DEF Took, Stays, Ready
<1>11. Aiming(d, g, q, 5)
  BY <1>0, <1>3, <1>6, <1>9, <1>10 DEF Aiming, Acts, Runs, Took, Stays
<1>12. Busy(d, g, k)  BY <1>11 DEF Busy, q
<1>13. s.op.kind = "intent"  BY <1>2, SaidIs
<1> QED BY <1>9, <1>12, <1>13 DEF Serves, d, g

\* It aims.
LEMMA AimServes ==
  ASSUME NEW m, Sound(m), NEW c, Aiming(c, m, <<Say("aim", 0, 0)>>, 5),
         NEW k \in Nat, k >= 1, NEW s, s = NextOperation(c, m)
  PROVE  Serves(m, s, k)
<1> DEFINE d == s.script
           i == Say("aim", 0, 0).intent
           g == AnswerTo(m, s).match
<1>0. Fit(c) /\ m.intents <= 5 + c.plan.walk /\ m.actor = "loomkeeper" /\ Ready(m)
      /\ m.phase = "action" /\ c.turn = m.turn
      /\ c.queue = <<Say("aim", 0, 0)>> /\ c.stage = "aim"
      /\ c.retreat = Never /\ Active(m).thread >= ShotPrice /\ c.refreshed <= m.tick
  BY DEF Aiming, Acts, Runs
<1>1. s = Dequeue(c)  BY <1>0 DEF NextOperation
<1>2. s.op = Say("aim", 0, 0) /\ d = [c EXCEPT !.queue = <<>>]
  BY <1>0, <1>1, QueueOne
<1>4. i \in Intents /\ i.type = "aim"  BY SaidIs
<1>5. AnswerTo(m, s) = Intent(m, m.actor, i, Seen(m))  BY <1>0, <1>2 DEF AnswerTo
<1> HIDE DEF i, d
<1>6. Fit(d) /\ d.queue = <<>> /\ d.stage = c.stage /\ d.plan = c.plan /\ d.turn = c.turn
      /\ d.refreshed = c.refreshed /\ d.retreat = c.retreat
  BY <1>0, <1>2, QueueSpent
<1>7. Moves(m) /\ m.intents < MaxIntents /\ c.plan.walk \in Nat /\ m.intents \in Nat
  BY <1>0, Room DEF Ready, Moves
<1>8. Allowed(m, i)  BY <1>0, <1>4 DEF Allowed, Offence, Utility, Ready
<1>9. AnswerTo(m, s).verdict = "done" /\ Took(m, g) /\ Stays(m, g) /\ g.held = m.held /\ g.aim
  BY <1>4, <1>5, <1>7, <1>8, AimTakes
<1> HIDE DEF g
<1>10. Ready(g) /\ g.intents <= 6 + c.plan.walk  BY <1>0, <1>7, <1>9 DEF Took, Stays, Ready
<1>11. Aiming(d, g, <<>>, 6)
  BY <1>0, <1>6, <1>9, <1>10 DEF Aiming, Acts, Runs, Took, Stays
<1>12. Busy(d, g, k)  BY <1>11 DEF Busy
<1>13. s.op.kind = "intent"  BY <1>2, SaidIs
<1> QED BY <1>9, <1>12, <1>13 DEF Serves, d, g

\* It dwells on its aim.
LEMMA AimedServes ==
  ASSUME NEW m, Sound(m), NEW c, Aiming(c, m, <<>>, 6), NEW k,
         NEW s, s = NextOperation(c, m)
  PROVE  Serves(m, s, k)
<1> DEFINE d == [c EXCEPT !.aimedAt = m.tick, !.stage = "dwell"]
<1>0. Fit(c) /\ m.intents <= 6 + c.plan.walk /\ m.actor = "loomkeeper" /\ Ready(m)
      /\ m.phase = "action" /\ c.turn = m.turn /\ c.queue = <<>> /\ c.stage = "aim" /\ m.aim
      /\ c.retreat = Never /\ Active(m).thread >= ShotPrice /\ c.refreshed <= m.tick
  BY DEF Aiming, Acts, Runs
<1>1. s.op.kind = "none" /\ s.script = d  BY <1>0 DEF NextOperation, Step, Rest
<1>2. DOMAIN d = DOMAIN c /\ d.plan = c.plan /\ d.prefix = c.prefix /\ d.turn = c.turn
      /\ d.queue = c.queue /\ d.begun = c.begun /\ d.refreshed = c.refreshed /\ d.stage = "dwell"
      /\ d.retreat = c.retreat /\ d.pending = c.pending /\ d.jumped = c.jumped
  BY <1>0 DEF Fit, IsScript
<1>3. Fit(d)
  <2>1. d.begun \in Int /\ d.refreshed \in Int /\ d.retreat \in Int /\ d.pending \in BOOLEAN
        /\ d.jumped \in BOOLEAN /\ d.queue \in Seq(Sayings)
    BY <1>0, <1>2 DEF Fit, IsScript
  <2> HIDE DEF d
  <2> QED BY <1>0, <1>2, <2>1, FitAfter
<1> HIDE DEF d
<1>4. Dwelling(d, m)  BY <1>0, <1>2, <1>3 DEF Dwelling, Acts, Runs
<1> QED BY <1>1, <1>4 DEF Serves, Rests

\* It fires when it has dwelt.
LEMMA DwellingServes ==
  ASSUME NEW m, Sound(m), NEW c, Dwelling(c, m), NEW k \in Nat, k >= 1,
         NEW s, s = NextOperation(c, m)
  PROVE  Serves(m, s, k)
<1>0. Fit(c) /\ m.intents <= 6 + c.plan.walk /\ m.actor = "loomkeeper" /\ Ready(m)
      /\ m.phase = "action" /\ c.turn = m.turn /\ c.queue = <<>> /\ c.stage = "dwell" /\ m.aim
      /\ c.retreat = Never /\ Active(m).thread >= ShotPrice /\ c.refreshed <= m.tick
  BY DEF Dwelling, Acts, Runs
<1>1. s = Dwell(c, m)  BY <1>0 DEF NextOperation
<1>2. CASE ~(m.tick >= c.aimedAt + DwellTicks)
  <2>1. s.op.kind = "none" /\ s.script = c  BY <1>1, <1>2 DEF Dwell, Step, Rest
  <2> QED BY <2>1 DEF Serves, Rests
<1>3. CASE m.tick >= c.aimedAt + DwellTicks
  <2> DEFINE d == [c EXCEPT !.stage = "resolution"]
             i == Say("fire", 0, m.aimId).intent
             g == AnswerTo(m, s).match
  <2>1. s.op = Say("fire", 0, m.aimId) /\ s.script = d  BY <1>1, <1>3 DEF Dwell, Step
  <2>2. DOMAIN d = DOMAIN c /\ d.plan = c.plan /\ d.prefix = c.prefix /\ d.turn = c.turn
        /\ d.queue = c.queue /\ d.begun = c.begun /\ d.refreshed = c.refreshed
        /\ d.retreat = c.retreat /\ d.pending = c.pending /\ d.jumped = c.jumped
    BY <1>0 DEF Fit, IsScript
  <2>3. Fit(d)
    <3>1. d.begun \in Int /\ d.refreshed \in Int /\ d.retreat \in Int /\ d.pending \in BOOLEAN
          /\ d.jumped \in BOOLEAN /\ d.queue \in Seq(Sayings)
      BY <1>0, <2>2 DEF Fit, IsScript
    <3> HIDE DEF d
    <3> QED BY <1>0, <2>2, <3>1, FitAfter
  <2> HIDE DEF d
  <2>4. i \in Intents /\ i.type = "fire" /\ i.aimId = m.aimId
    <3>1. m.aimId \in Nat  BY DEF Sound, Typed
    <3>2. i.type = "fire"  BY SaidIs
    <3> QED BY <3>1, <3>2, SaidIs
  <2>5. AnswerTo(m, s) = Intent(m, m.actor, i, Seen(m))  BY <1>0, <2>1 DEF AnswerTo
  <2>6. m.intents < MaxIntents /\ c.plan.walk \in Nat /\ m.intents \in Nat
    BY <1>0, Room
  <2> HIDE DEF i
  <2>7. /\ AnswerTo(m, s).verdict = "done" /\ Sound(g)
        /\ g.turn = m.turn /\ g.actor = m.actor /\ g.tick = m.tick
        /\ g.phase = "projectile" /\ g.settling = None /\ g.intents = m.intents + 1
    BY <1>0, <2>4, <2>5, <2>6, FireTakes
  <2> HIDE DEF g
  <2>8. g.intents <= 7 + c.plan.walk  BY <1>0, <2>6, <2>7
  <2>9. Over(d, g)  BY <1>0, <2>2, <2>3, <2>7, <2>8 DEF Over, Runs
  <2>10. Busy(d, g, k)  BY <2>9 DEF Busy
  <2>11. s.op.kind = "intent"  BY <2>1, SaidIs
  <2> QED BY <2>1, <2>7, <2>10, <2>11 DEF Serves, g
<1> QED BY <1>2, <1>3

\* It waits while the shot flies and the bodies settle.
LEMMA OverServes ==
  ASSUME NEW m, Sound(m), NEW c, Over(c, m), NEW k, NEW s, s = NextOperation(c, m)
  PROVE  Serves(m, s, k)
<1>1. c.queue = <<>> /\ m.phase \in {"projectile", "settling"}  BY DEF Over, Runs
<1>2. s.op.kind = "none" /\ s.script = c  BY <1>1 DEF NextOperation, Step, Rest
<1> QED BY <1>2 DEF Serves, Rests

\* It turns away.
LEMMA LandedServes ==
  ASSUME NEW m, Sound(m), NEW c, Landed(c, m), NEW k \in Nat, k >= 3,
         NEW s, s = NextOperation(c, m)
  PROVE  Serves(m, s, k)
<1> DEFINE q == <<Say("face", Away, 0), Say("walk_start", Away, 0)>>
           p == <<Say("walk_start", Away, 0)>>
           b == [c EXCEPT !.retreat = m.tick, !.queue = q]
           d == s.script
           i == Say("face", Away, 0).intent
           g == AnswerTo(m, s).match
<1>0. Fit(c) /\ m.intents <= 7 + c.plan.walk /\ m.actor = "loomkeeper" /\ m.held = 0
      /\ m.phase = "retreat" /\ c.turn = m.turn /\ c.queue = <<>>
      /\ c.retreat = Never /\ c.refreshed <= m.tick
  BY DEF Landed, Runs
<1>1. s = Dequeue(b)  BY <1>0 DEF NextOperation, Retreat
<1>2. m.intents < MaxIntents /\ c.plan.walk \in Nat /\ m.intents \in Nat /\ m.tick \in Nat
  BY <1>0, Room
<1>3. DOMAIN b = DOMAIN c /\ b.plan = c.plan /\ b.prefix = c.prefix /\ b.turn = c.turn
      /\ b.queue = q /\ b.begun = c.begun /\ b.refreshed = c.refreshed
      /\ b.retreat = m.tick /\ b.pending = c.pending /\ b.jumped = c.jumped
  BY <1>0 DEF Fit, IsScript
<1>4. Fit(b)
  <2>1. b.begun \in Int /\ b.refreshed \in Int /\ b.retreat \in Int /\ b.pending \in BOOLEAN
        /\ b.jumped \in BOOLEAN
    BY <1>0, <1>2, <1>3 DEF Fit
  <2>2. b.queue \in Seq(Sayings)  BY <1>3, QueuesAre
  <2> HIDE DEF b
  <2> QED BY <1>0, <1>3, <2>1, <2>2, FitAfter
<1> HIDE DEF b
<1>5. s.op = Say("face", Away, 0) /\ d = [b EXCEPT !.queue = p]
  BY <1>1, <1>3, <1>4, QueueTwo
<1>6. p \in Seq(Sayings)  BY QueuesAre
<1>7. i \in Intents /\ i.type \in {"face", "select_relic"} /\ Allowed(m, i)
  BY SaidIs DEF Away, Allowed, Offence, Utility
<1>8. AnswerTo(m, s) = Intent(m, m.actor, i, Seen(m))  BY <1>0, <1>5 DEF AnswerTo
<1>9. Moves(m)  BY <1>0 DEF Moves
<1> HIDE DEF i, d, p
<1>10. Fit(d) /\ d.queue = p /\ d.plan = c.plan /\ d.turn = c.turn
      /\ d.refreshed = c.refreshed /\ d.retreat = m.tick
  BY <1>3, <1>4, <1>5, <1>6, QueueLeft
<1>11. AnswerTo(m, s).verdict = "done" /\ Took(m, g) /\ Stays(m, g) /\ g.held = m.held
  BY <1>2, <1>7, <1>8, <1>9, FaceTakes
<1> HIDE DEF g
<1>12. g.intents <= 8 + c.plan.walk  BY <1>0, <1>2, <1>11 DEF Took
<1>13. Turning(d, g)  BY <1>0, <1>10, <1>11, <1>12 DEF Turning, Runs, Took, p
<1>14. Busy(d, g, k)  BY <1>13 DEF Busy
<1>15. s.op.kind = "intent"  BY <1>5, SaidIs
<1> QED BY <1>11, <1>14, <1>15 DEF Serves, d, g

\* It walks away.
LEMMA TurningServes ==
  ASSUME NEW m, Sound(m), NEW c, Turning(c, m), NEW k \in Nat, k >= 2,
         NEW s, s = NextOperation(c, m)
  PROVE  Serves(m, s, k)
<1> DEFINE d == s.script
           i == Say("walk_start", Away, 0).intent
           g == AnswerTo(m, s).match
<1>0. Fit(c) /\ m.intents <= 8 + c.plan.walk /\ m.actor = "loomkeeper" /\ m.held = 0
      /\ m.phase = "retreat" /\ c.turn = m.turn /\ c.queue = <<Say("walk_start", Away, 0)>>
      /\ c.retreat = m.tick /\ c.refreshed <= m.tick
  BY DEF Turning, Runs
<1>1. s = Dequeue(c)  BY <1>0 DEF NextOperation
<1>2. m.intents < MaxIntents /\ c.plan.walk \in Nat /\ m.intents \in Nat /\ m.tick \in Nat
      /\ m.started <= m.tick /\ Moves(m)
  <2>1. c.plan.walk + 8 < MaxIntents  BY <1>0, Room
  <2> QED BY <1>0, <2>1, Room DEF Sound, ClockValid, Moves
<1>3. s.op = Say("walk_start", Away, 0) /\ d = [c EXCEPT !.queue = <<>>]
  BY <1>0, <1>1, QueueOne
<1>5. i \in Intents /\ i.type = "walk_start"  BY SaidIs DEF Away
<1>6. AnswerTo(m, s) = Intent(m, m.actor, i, Seen(m))  BY <1>0, <1>3 DEF AnswerTo
<1> HIDE DEF i, d
<1>7. Fit(d) /\ d.queue = <<>> /\ d.plan = c.plan /\ d.turn = c.turn
      /\ d.refreshed = c.refreshed /\ d.retreat = c.retreat
  BY <1>0, <1>3, QueueSpent
<1>8. AnswerTo(m, s).verdict = "done" /\ Took(m, g) /\ Stays(m, g) /\ g.refreshed = m.tick
  BY <1>0, <1>2, <1>5, <1>6, WalkTakes
<1> HIDE DEF g
<1>9. g.tick = m.tick /\ g.intents <= (8 + c.plan.walk) + 1 /\ Typed(g) /\ 8 + c.plan.walk \in Nat
  BY <1>0, <1>2, <1>8 DEF Took, Sound
<1>10. Pacing(d, g, 8 + d.plan.walk, 0)  BY <1>7, <1>8, <1>9, PacingStarts
<1>11. Retreating(d, g, 0)
  BY <1>0, <1>2, <1>7, <1>8, <1>9, <1>10 DEF Retreating, Runs, Took
<1>12. Busy(d, g, k)
  <2>1. 0 \in Nat /\ k >= (IF d.refreshed = g.tick THEN 1 ELSE 2)  OBVIOUS
  <2> QED BY <1>11, <2>1 DEF Busy
<1>13. s.op.kind = "intent"  BY <1>3, SaidIs
<1> QED BY <1>8, <1>12, <1>13 DEF Serves, d, g

\* A script that has just refreshed its walk.
LEMMA RefreshedIs ==
  ASSUME NEW c, Fit(c), NEW t \in Nat, NEW d, d = [c EXCEPT !.refreshed = t]
  PROVE  /\ Fit(d) /\ d.queue = c.queue /\ d.stage = c.stage /\ d.plan = c.plan /\ d.turn = c.turn
         /\ d.begun = c.begun /\ d.refreshed = t /\ d.retreat = c.retreat
         /\ d.jumped = c.jumped
<1>1. DOMAIN d = DOMAIN c /\ d.plan = c.plan /\ d.prefix = c.prefix /\ d.turn = c.turn
      /\ d.queue = c.queue /\ d.begun = c.begun /\ d.refreshed = t /\ d.stage = c.stage
      /\ d.retreat = c.retreat /\ d.pending = c.pending /\ d.jumped = c.jumped
  BY DEF Fit, IsScript
<1>2. d.begun \in Int /\ d.refreshed \in Int /\ d.retreat \in Int /\ d.pending \in BOOLEAN
      /\ d.jumped \in BOOLEAN /\ d.queue \in Seq(Sayings)
  BY <1>1 DEF Fit, IsScript
<1>3. Fit(d)  BY ONLY <1>1, <1>2, FitAfter, Fit(c)
<1> QED BY <1>1, <1>3

\* It refreshes its retreat when that is due.
LEMMA RetreatingServes ==
  ASSUME NEW m, Sound(m), NEW c, NEW el \in Nat, Retreating(c, m, el),
         NEW k \in Nat, k + 1 >= (IF c.refreshed = m.tick THEN 1 ELSE 2),
         NEW s, s = NextOperation(c, m)
  PROVE  Serves(m, s, k)
<1>0. Fit(c) /\ m.actor = "loomkeeper" /\ m.phase = "retreat" /\ c.turn = m.turn /\ c.queue = <<>>
      /\ c.refreshed <= m.tick /\ m.tick = c.retreat + el /\ m.started <= c.retreat
      /\ Pacing(c, m, 8 + c.plan.walk, el)
  BY DEF Retreating, Runs
<1>1. /\ c.plan.walk \in Nat /\ m.tick \in Nat /\ m.started \in Nat /\ m.deadline \in Nat
      /\ c.retreat \in Int /\ MaxIntents \in Nat /\ RetreatTicks \in Nat
      /\ c.plan.walk + RetreatTicks + 8 <= MaxIntents
  BY <1>0, Room, Positive DEF Fit, Sound, Typed
<1>2. c.retreat # Never  BY <1>0, <1>1 DEF Never
<1>3. m.tick - c.retreat = el  BY <1>0, <1>1
<1>4. s = IF Refreshes(c, m, el) THEN Refresh(c, m) ELSE Step(Rest, c)
  BY <1>0, <1>2, <1>3 DEF NextOperation, Retreat
<1>5. CASE ~Refreshes(c, m, el)
  <2>1. s.op.kind = "none" /\ s.script = c  BY <1>4, <1>5 DEF Step, Rest
  <2> QED BY <1>5, <2>1 DEF Serves, Rests
<1>6. CASE Refreshes(c, m, el)
  <2> DEFINE d == [c EXCEPT !.refreshed = m.tick]
             g == AnswerTo(m, s).match
             n == 8 + c.plan.walk
  <2>1. s.op = Say("walk_refresh", 0, 0) /\ s.script = d  BY <1>4, <1>6 DEF Refresh, Step
  <2>2. AnswerTo(m, s) = Intent(m, m.actor, Say("walk_refresh", 0, 0).intent, Seen(m))
    BY <1>0, <2>1 DEF AnswerTo
  <2>3. el < RetreatTicks
    <3>1. m.deadline = m.started + RetreatTicks /\ m.tick < m.deadline
      BY <1>0 DEF Sound, ClockValid, Duration
    <3> QED BY <1>0, <1>1, <3>1
  <2>4. n \in Nat /\ n + el < MaxIntents  BY <1>1, <2>3
  <2>5. Moves(m) /\ c.refreshed # m.tick  BY <1>0, <1>6 DEF Moves, Refreshes
  <2>6. /\ Fit(d) /\ d.queue = c.queue /\ d.plan = c.plan /\ d.turn = c.turn
        /\ d.refreshed = m.tick /\ d.retreat = c.retreat
    <3>1. d = [c EXCEPT !.refreshed = m.tick]  OBVIOUS
    <3> HIDE DEF d
    <3> QED BY <1>0, <1>1, <3>1, RefreshedIs
  <2> HIDE DEF d, n
  <2>7. Pacing(c, m, n, el)  BY <1>0 DEF n
  <2>8. AnswerTo(m, s).verdict = "done" /\ Took(m, g) /\ Pacing(d, g, n, el)
    BY <1>6, <2>2, <2>4, <2>5, <2>6, <2>7, PacingRefresh
  <2> HIDE DEF g
  <2>9. Retreating(d, g, el)
    BY <1>0, <1>1, <2>6, <2>8 DEF Retreating, Runs, Took, n
  <2>10. d.refreshed = g.tick /\ k >= 1  BY <2>5, <2>6, <2>8 DEF Took
  <2>11. Busy(d, g, k)  BY <2>9, <2>10 DEF Busy
  <2>12. s.op.kind = "intent"  BY <2>1, SaidIs
  <2> QED BY <2>1, <2>8, <2>11, <2>12 DEF Serves, g
<1> QED BY <1>5, <1>6

\* What is left to do of a walk when no jump is due.
Strides(c, m, el) ==
  IF el >= c.plan.walk THEN Step(Cancel, [c EXCEPT !.stage = "ground"])
  ELSE IF Refreshes(c, m, el) THEN Refresh(c, m)
  ELSE Step(Rest, c)

\* A walk is refreshed, and ends.
LEMMA StridesServe ==
  ASSUME NEW m, Sound(m), NEW c, NEW el \in Nat, Walking(c, m, el),
         NEW k \in Nat, k + 1 >= WalkRank(c, m, el), NEW s, s = Strides(c, m, el)
  PROVE  Serves(m, s, k)
<1> DEFINE n == IF c.jumped THEN 3 ELSE 2
<1>0. Fit(c) /\ m.actor = "loomkeeper" /\ m.phase = "action" /\ c.turn = m.turn /\ c.queue = <<>>
      /\ c.refreshed <= m.tick /\ m.tick = c.begun + el /\ el <= c.plan.walk /\ c.plan.walk > 0
      /\ c.stage = "motion" /\ c.retreat = Never /\ Active(m).thread >= ShotPrice
      /\ (el = c.plan.walk => c.refreshed # m.tick) /\ Pacing(c, m, n, el)
  BY DEF Walking, Acts, Runs, Fit
<1>1. /\ c.plan.walk \in Nat /\ m.tick \in Nat /\ MaxIntents \in Nat /\ m.intents \in Nat
      /\ c.plan.walk + 8 < MaxIntents
  BY <1>0, Room
<1>2. n \in {2, 3}  OBVIOUS
<1>3. CASE el >= c.plan.walk
  <2> DEFINE d == [c EXCEPT !.stage = "ground"]
             r == BarrierOp(s.op.reason, "loomkeeper", m)
             ans == Barrier(m, r)
             g == ans.match
  <2>1. s.op = Cancel /\ s.script = d  BY <1>3 DEF Strides, Step
  <2>2. DOMAIN d = DOMAIN c /\ d.plan = c.plan /\ d.prefix = c.prefix /\ d.turn = c.turn
        /\ d.queue = c.queue /\ d.begun = c.begun /\ d.refreshed = c.refreshed
        /\ d.stage = "ground" /\ d.retreat = c.retreat /\ d.pending = c.pending
        /\ d.jumped = c.jumped
    BY <1>0 DEF Fit, IsScript
  <2>3. Fit(d)
    <3>1. d.begun \in Int /\ d.refreshed \in Int /\ d.retreat \in Int /\ d.pending \in BOOLEAN
          /\ d.jumped \in BOOLEAN /\ d.queue \in Seq(Sayings)
      BY <1>0, <2>2 DEF Fit, IsScript
    <3> HIDE DEF d
    <3> QED BY <1>0, <2>2, <3>1, FitAfter
  <2> HIDE DEF d
  <2>4. el = c.plan.walk /\ c.refreshed # m.tick  BY <1>0, <1>1, <1>3
  <2>5. m.intents <= 3 + c.plan.walk
    <3>1. m.intents <= n + el  BY <1>0, <1>1, <1>2, <2>4 DEF Pacing
    <3> QED BY <1>1, <1>2, <2>4, <3>1
  <2>6. k >= 4
    <3>1. WalkRank(c, m, el) >= 5  BY <2>4 DEF WalkRank
    <3>2. WalkRank(c, m, el) \in Nat  BY DEF WalkRank
    <3> QED BY <3>1, <3>2
  <2>7. s.op.kind = "barrier" /\ r = BarrierOp("cancel", m.actor, m)
    BY <1>0, <2>1 DEF Cancel
  <2> HIDE DEF r, ans
  <2>8. \/ /\ ans.verdict = "done" /\ Sound(g) /\ g.held = 0
           /\ g.turn = m.turn /\ g.actor = m.actor /\ g.tick = m.tick
           /\ g.phase = m.phase /\ g.intents = m.intents
           /\ Active(g).thread = Active(m).thread
        \/ ans.verdict = "unchanged" /\ m.held = 0
        \/ ans.verdict = "lifecycle_limit" /\ m.barriers = MaxBarriers
    BY <1>0, <2>7, CancelIs DEF ans
  <2> HIDE DEF g
  <2>9. CASE /\ ans.verdict = "done" /\ Sound(g) /\ g.held = 0
             /\ g.turn = m.turn /\ g.actor = m.actor /\ g.tick = m.tick
             /\ g.phase = m.phase /\ g.intents = m.intents
             /\ Active(g).thread = Active(m).thread
    <3>1. Standing(d, g)  BY <1>0, <2>2, <2>3, <2>5, <2>9 DEF Standing, Acts, Runs
    <3>2. Busy(d, g, k)  BY <2>6, <3>1 DEF Busy
    <3> QED BY <2>1, <2>7, <2>9, <3>2 DEF Serves, g, ans, r
  <2>10. CASE ans.verdict = "unchanged" /\ m.held = 0
    <3>1. Standing(d, m)  BY <1>0, <2>2, <2>3, <2>5, <2>10 DEF Standing, Acts, Runs
    <3>2. Busy(d, m, k)  BY <2>6, <3>1 DEF Busy
    <3> QED BY <2>1, <2>7, <2>10, <3>2 DEF Serves, g, ans, r
  <2>11. CASE ans.verdict = "lifecycle_limit" /\ m.barriers = MaxBarriers
    BY <2>1, <2>7, <2>11 DEF Serves, g, ans, r
  <2> QED BY <2>8, <2>9, <2>10, <2>11
<1>4. CASE el < c.plan.walk /\ ~Refreshes(c, m, el)
  <2>1. s.op.kind = "none" /\ s.script = c  BY <1>1, <1>4 DEF Strides, Step, Rest
  <2> QED BY <1>4, <2>1 DEF Serves, Rests
<1>5. CASE el < c.plan.walk /\ Refreshes(c, m, el)
  <2> DEFINE d == [c EXCEPT !.refreshed = m.tick]
             g == AnswerTo(m, s).match
  <2>1. s.op = Say("walk_refresh", 0, 0) /\ s.script = d
    BY <1>1, <1>5 DEF Strides, Refresh, Step
  <2>2. AnswerTo(m, s) = Intent(m, m.actor, Say("walk_refresh", 0, 0).intent, Seen(m))
    BY <1>0, <2>1 DEF AnswerTo
  <2>4. n \in Nat /\ n + el < MaxIntents  BY <1>1, <1>2, <1>5
  <2>5. Moves(m) /\ c.refreshed # m.tick  BY <1>0, <1>5 DEF Moves, Refreshes
  <2>6. /\ Fit(d) /\ d.queue = c.queue /\ d.stage = c.stage /\ d.plan = c.plan /\ d.turn = c.turn
        /\ d.begun = c.begun /\ d.refreshed = m.tick /\ d.retreat = c.retreat
        /\ d.jumped = c.jumped
    <3>1. d = [c EXCEPT !.refreshed = m.tick]  OBVIOUS
    <3> HIDE DEF d
    <3> QED BY <1>0, <1>1, <3>1, RefreshedIs
  <2> HIDE DEF d, n
  <2>8. /\ AnswerTo(m, s).verdict = "done" /\ Took(m, g) /\ Pacing(d, g, n, el)
        /\ Active(g).thread = Active(m).thread
    BY <1>0, <1>5, <2>2, <2>4, <2>5, <2>6, PacingRefresh
  <2> HIDE DEF g
  <2>9. n = IF d.jumped THEN 3 ELSE 2  BY <2>6 DEF n
  <2>10. Walking(d, g, el)
    <3>1. el \in 0 .. d.plan.walk /\ d.plan.walk > 0 /\ el # d.plan.walk
      BY <1>0, <1>1, <1>5, <2>6
    <3>2. Pacing(d, g, IF d.jumped THEN 3 ELSE 2, el)  BY <2>8, <2>9
    <3>3. Acts(d, g, "motion", <<>>)  BY <1>0, <1>1, <2>6, <2>8 DEF Acts, Runs, Took
    <3>4. g.tick = d.begun + el  BY <1>0, <2>6, <2>8 DEF Took
    <3> QED BY <3>1, <3>2, <3>3, <3>4 DEF Walking
  <2>11. k >= WalkRank(d, g, el)
    <3>1. g.tick = m.tick  BY <2>8 DEF Took
    <3>2. el # c.plan.walk  BY <1>1, <1>5
    <3>3. WalkRank(c, m, el) = (IF c.jumped THEN 0 ELSE 1) + 2  BY <2>5, <3>2 DEF WalkRank
    <3>4. WalkRank(d, g, el) = (IF c.jumped THEN 0 ELSE 1) + 1
      BY <2>6, <3>1, <3>2 DEF WalkRank
    <3> QED BY <3>3, <3>4
  <2>12. Busy(d, g, k)  BY <2>10, <2>11 DEF Busy
  <2>13. s.op.kind = "intent"  BY <2>1, SaidIs
  <2> QED BY <2>1, <2>8, <2>12, <2>13 DEF Serves, g
<1> QED BY <1>1, <1>3, <1>4, <1>5

\* A walk jumps when its time has come and its body stands.
LEMMA WalkingServes ==
  ASSUME NEW m, Sound(m), NEW c, NEW el \in Nat, Walking(c, m, el),
         NEW k \in Nat, k + 1 >= WalkRank(c, m, el), NEW s, s = NextOperation(c, m)
  PROVE  Serves(m, s, k)
<1> DEFINE jumps == c.plan.jumpAfter # Never /\ ~c.jumped /\ el >= c.plan.jumpAfter
           d == [c EXCEPT !.jumped = @ \/ jumps]
<1>0. Fit(c) /\ m.actor = "loomkeeper" /\ m.phase = "action" /\ c.turn = m.turn /\ c.queue = <<>>
      /\ c.refreshed <= m.tick /\ m.tick = c.begun + el /\ el <= c.plan.walk /\ c.plan.walk > 0
      /\ c.stage = "motion" /\ c.retreat = Never /\ Active(m).thread >= ShotPrice
      /\ (el = c.plan.walk => c.refreshed # m.tick)
      /\ Pacing(c, m, IF c.jumped THEN 3 ELSE 2, el) /\ c.jumped \in BOOLEAN /\ c.begun \in Int
  BY DEF Walking, Acts, Runs, Fit
<1>1. /\ c.plan.walk \in Nat /\ m.tick \in Nat /\ MaxIntents \in Nat /\ m.intents \in Nat
      /\ c.plan.walk + 8 < MaxIntents
  BY <1>0, Room
<1>2. m.tick - c.begun = el  BY <1>0, <1>1
<1>3. s = IF jumps /\ Active(m).grounded THEN Step(Say("jump", Toward, 0), d)
          ELSE Strides(d, m, el)
  <2>1. s = Motion(c, m)  BY <1>0 DEF NextOperation
  <2>2. s = IF jumps /\ Active(m).grounded THEN Step(Say("jump", Toward, 0), d)
            ELSE IF el >= c.plan.walk THEN Step(Cancel, [d EXCEPT !.stage = "ground"])
            ELSE IF Refreshes(d, m, el) THEN Refresh(d, m) ELSE Step(Rest, d)
    BY <1>2, <2>1 DEF Motion
  <2>3. d.plan = c.plan  BY <1>0 DEF Fit, IsScript
  <2> HIDE DEF jumps, d
  <2> QED BY <2>2, <2>3 DEF Strides
<1>4. DOMAIN d = DOMAIN c /\ d.plan = c.plan /\ d.prefix = c.prefix /\ d.turn = c.turn
      /\ d.queue = c.queue /\ d.begun = c.begun /\ d.refreshed = c.refreshed
      /\ d.stage = c.stage /\ d.retreat = c.retreat /\ d.pending = c.pending
      /\ (d.jumped <=> c.jumped \/ jumps) /\ d.jumped \in BOOLEAN
  BY <1>0 DEF Fit, IsScript
<1>5. Fit(d)
  <2>1. d.begun \in Int /\ d.refreshed \in Int /\ d.retreat \in Int /\ d.pending \in BOOLEAN
        /\ d.jumped \in BOOLEAN /\ d.queue \in Seq(Sayings)
    BY <1>0, <1>4 DEF Fit, IsScript
  <2> HIDE DEF d
  <2> QED BY <1>0, <1>4, <2>1, FitAfter
<1>6. jumps => ~c.jumped  OBVIOUS
<1> HIDE DEF jumps, d
<1>7. CASE jumps /\ Active(m).grounded
  <2> DEFINE i == Say("jump", Toward, 0).intent
             g == AnswerTo(m, s).match
  <2>1. s.op = Say("jump", Toward, 0) /\ s.script = d  BY <1>3, <1>7 DEF Step
  <2>2. i \in Intents /\ i.type = "jump" /\ i.dir = 1  BY SaidIs
  <2>3. AnswerTo(m, s) = Intent(m, m.actor, i, Seen(m))  BY <1>0, <2>1 DEF AnswerTo
  <2>4. ~c.jumped /\ d.jumped  BY <1>4, <1>6, <1>7
  <2>5. m.intents <= 2 + el + 1  BY <1>0, <1>1, <2>4 DEF Pacing
  <2>6. m.intents < MaxIntents /\ Moves(m)  BY <1>0, <1>1, <2>5 DEF Moves
  <2> HIDE DEF i
  <2>7. /\ AnswerTo(m, s).verdict = "done" /\ Took(m, g)
        /\ Active(g).thread = Active(m).thread
        /\ (g.held = 0) = (m.held = 0) /\ g.refreshed = m.refreshed
    BY <1>7, <2>2, <2>3, <2>6, JumpTakes
  <2> HIDE DEF g
  <2>8. Pacing(d, g, 3, el)
    <3>1. g.tick = m.tick /\ g.intents = m.intents + 1  BY <2>7 DEF Took
    <3>2. Owed(d, g, el) <=> Owed(c, m, el)  BY <1>4, <3>1 DEF Owed
    <3>3. g.held # 0 => m.held # 0  BY <2>7
    <3>4. g.intents <= 3 + el + (IF el > 0 /\ d.refreshed # g.tick THEN 0 ELSE 1)
      BY <1>0, <1>1, <1>4, <2>4, <3>1 DEF Pacing
    <3>5. g.held # 0 => g.refreshed = g.tick - (IF Owed(d, g, el) THEN RefreshTicks
                                                ELSE (el % RefreshTicks))
      BY <1>0, <2>7, <3>1, <3>2, <3>3 DEF Pacing
    <3> QED BY <3>4, <3>5 DEF Pacing
  <2>9. Walking(d, g, el)
    <3>1. el \in 0 .. d.plan.walk /\ d.plan.walk > 0  BY <1>0, <1>1, <1>4
    <3>2. Acts(d, g, "motion", <<>>)  BY <1>0, <1>4, <1>5, <2>7 DEF Acts, Runs, Took
    <3>3. g.tick = d.begun + el /\ (el = d.plan.walk => d.refreshed # g.tick)
      BY <1>0, <1>4, <2>7 DEF Took
    <3> QED BY <2>4, <2>8, <3>1, <3>2, <3>3 DEF Walking
  <2>10. k >= WalkRank(d, g, el)
    <3>1. g.tick = m.tick  BY <2>7 DEF Took
    <3>2. WalkRank(c, m, el) = 1 + WalkRank(d, g, el)
      BY <1>4, <2>4, <3>1 DEF WalkRank
    <3>3. WalkRank(d, g, el) \in Nat  BY DEF WalkRank
    <3> QED BY <3>2, <3>3
  <2>11. Busy(d, g, k)  BY <2>9, <2>10 DEF Busy
  <2>12. s.op.kind = "intent"  BY <2>1, SaidIs
  <2> QED BY <2>1, <2>7, <2>11, <2>12 DEF Serves, g
<1>8. CASE ~(jumps /\ Active(m).grounded)
  <2>1. s = Strides(d, m, el)  BY <1>3, <1>8
  <2>2. Pacing(d, m, IF d.jumped THEN 3 ELSE 2, el)
    <3>1. Owed(d, m, el) <=> Owed(c, m, el)  BY <1>4 DEF Owed
    <3>2. m.held # 0 => m.refreshed = m.tick - (IF Owed(d, m, el) THEN RefreshTicks
                                                ELSE (el % RefreshTicks))
      BY <1>0, <3>1 DEF Pacing
    <3>3. m.intents <= (IF d.jumped THEN 3 ELSE 2) + el
                         + (IF el > 0 /\ d.refreshed # m.tick THEN 0 ELSE 1)
      <4>1. m.intents <= (IF c.jumped THEN 3 ELSE 2) + el
                         + (IF el > 0 /\ d.refreshed # m.tick THEN 0 ELSE 1)
        BY <1>0, <1>4 DEF Pacing
      <4>2. c.jumped => d.jumped  BY <1>4
      <4> QED BY <1>1, <4>1, <4>2
    <3> QED BY <3>2, <3>3 DEF Pacing
  <2>3. Walking(d, m, el)
    <3>1. el \in 0 .. d.plan.walk /\ d.plan.walk > 0  BY <1>0, <1>1, <1>4
    <3>2. Acts(d, m, "motion", <<>>)  BY <1>0, <1>4, <1>5 DEF Acts, Runs
    <3>3. m.tick = d.begun + el /\ (el = d.plan.walk => d.refreshed # m.tick)
      BY <1>0, <1>4
    <3> QED BY <2>2, <3>1, <3>2, <3>3 DEF Walking
  <2>4. k + 1 >= WalkRank(d, m, el)
    <3>1. WalkRank(d, m, el) <= WalkRank(c, m, el)  BY <1>4 DEF WalkRank
    <3>2. WalkRank(d, m, el) \in Nat /\ WalkRank(c, m, el) \in Nat  BY DEF WalkRank
    <3> QED BY <3>1, <3>2
  <2> QED BY <2>1, <2>3, <2>4, StridesServe
<1> QED BY <1>7, <1>8

\* A busy script is served, and has one operation less to make.
LEMMA BusyServes ==
  ASSUME NEW m, Sound(m), NEW c, NEW k \in Nat, Busy(c, m, k + 1),
         NEW s, s = NextOperation(c, m)
  PROVE  Serves(m, s, k)
<1>1. CASE k + 1 >= 6 /\ Pending(c, m)  BY <1>1, PendingServes
<1>2. CASE k + 1 >= 5 /\ Prefixed(c, m)  BY <1>2, PrefixedServes
<1>3. CASE k + 1 >= 4 /\ Facing(c, m)  BY <1>3, FacingServes
<1>4. CASE \E el \in Nat : Walking(c, m, el) /\ k + 1 >= WalkRank(c, m, el)
  BY <1>4, WalkingServes
<1>5. CASE k + 1 >= 4 /\ Standing(c, m)  BY <1>5, StandingServes
<1>6. CASE k + 1 >= 3 /\ Aiming(c, m, <<Say("select_relic", 0, 0), Say("aim", 0, 0)>>, 4)
  <2>1. k >= 2  BY <1>6
  <2> QED BY <1>6, <2>1, SelectServes
<1>7. CASE k + 1 >= 2 /\ Aiming(c, m, <<Say("aim", 0, 0)>>, 5)
  <2>1. k >= 1  BY <1>7
  <2> QED BY <1>7, <2>1, AimServes
<1>8. CASE k + 1 >= 1 /\ Aiming(c, m, <<>>, 6)  BY <1>8, AimedServes
<1>9. CASE k + 1 >= 2 /\ Dwelling(c, m)  BY <1>9, DwellingServes
<1>10. CASE k + 1 >= 1 /\ Over(c, m)  BY <1>10, OverServes
<1>11. CASE k + 1 >= 4 /\ Landed(c, m)  BY <1>11, LandedServes
<1>12. CASE k + 1 >= 3 /\ Turning(c, m)  BY <1>12, TurningServes
<1>13. CASE \E el \in Nat : /\ Retreating(c, m, el)
                            /\ k + 1 >= (IF c.refreshed = m.tick THEN 1 ELSE 2)
  <2>1. PICK el \in Nat : /\ Retreating(c, m, el)
                          /\ k + 1 >= (IF c.refreshed = m.tick THEN 1 ELSE 2)
    BY <1>13
  <2> QED BY <2>1, RetreatingServes
<1> QED BY <1>1, <1>2, <1>3, <1>4, <1>5, <1>6, <1>7, <1>8, <1>9, <1>10, <1>11, <1>12, <1>13
        DEF Busy

\* A script that is busy has an operation to make.
LEMMA BusyNone ==
  ASSUME NEW m, NEW c, Busy(c, m, 0)
  PROVE  FALSE
<1>1. \A el : WalkRank(c, m, el) >= 1  BY DEF WalkRank
<1>2. \A el : WalkRank(c, m, el) \in Nat  BY DEF WalkRank
<1> QED BY <1>1, <1>2 DEF Busy

-----------------------------------------------------------------------------
(* A script at rest, while the match goes on                                 *)

\* A script that rests has nothing in its queue.
LEMMA RestsRuns ==
  ASSUME NEW c, NEW m, Rests(c, m)
  PROVE  Runs(c, m, <<>>)
BY DEF Rests, Prefixed, Walking, Standing, Dwelling, Over, Retreating, Acts

\* The turn goes on, and with it the script.
LEMMA RunsOn ==
  ASSUME NEW c, NEW b, Sound(b), Runs(c, b, <<>>), NEW g, g.tick = b.tick + 1, Kin(b, g)
  PROVE  /\ Runs(c, g, <<>>) /\ Active(g).thread = Active(b).thread /\ c.refreshed # g.tick
         /\ c.refreshed \in Int /\ b.tick \in Nat /\ g.intents = b.intents
<1>1. b.tick \in Nat /\ c.refreshed \in Int /\ c.refreshed <= b.tick /\ b.actor \in Actor
  BY DEF Sound, Typed, Runs, Fit
<1>2. c.refreshed <= g.tick /\ c.refreshed # g.tick  BY <1>1
<1> QED BY <1>1, <1>2 DEF Runs, Kin, Active

\* A script that rests is busy again when its phase goes on.
LEMMA RestsHold ==
  ASSUME NEW c, NEW b, Sound(b), Rests(c, b), NEW g, Sound(g), g.tick = b.tick + 1, Holds(b, g)
  PROVE  Busy(c, g, 6)
<1>1. /\ Runs(c, g, <<>>) /\ Active(g).thread = Active(b).thread /\ c.refreshed # g.tick
      /\ c.refreshed \in Int /\ b.tick \in Nat /\ g.intents = b.intents /\ c.refreshed <= b.tick
  <2>1. Runs(c, b, <<>>)  BY RestsRuns
  <2> QED BY <2>1, RunsOn DEF Holds, Runs
<1>2. b.held = 0 => g.held = 0
  <2>1. b.held = 0 => b.lease = Never  BY DEF Sound, InputValid
  <2> QED BY <2>1 DEF Holds
<1>3. g.phase = b.phase /\ g.started = b.started /\ g.settling = b.settling  BY DEF Holds
<1>4. CASE Prefixed(c, b)
  <2>1. Prefixed(c, g)  BY <1>1, <1>2, <1>3, <1>4 DEF Prefixed, Acts
  <2> QED BY <2>1 DEF Busy
<1>5. CASE \E el \in Nat : Walking(c, b, el) /\ el < c.plan.walk /\ ~Refreshes(c, b, el)
  <2>1. PICK el \in Nat : Walking(c, b, el) /\ el < c.plan.walk /\ ~Refreshes(c, b, el)
    BY <1>5
  <2> DEFINE n == IF c.jumped THEN 3 ELSE 2
  <2>2. n \in Nat /\ Pacing(c, b, n, el)  BY <2>1 DEF Walking
  <2> HIDE DEF n
  <2>3. Pacing(c, g, n, el + 1)  BY <1>1, <2>1, <2>2, PacingTick
  <2>4. c.plan.walk \in Nat /\ c.begun \in Int  BY <1>1 DEF Runs, Fit
  <2>5. el + 1 \in 0 .. c.plan.walk /\ c.plan.walk > 0  BY <2>1, <2>4
  <2>6. g.tick = c.begun + (el + 1)  BY <1>1, <2>1, <2>4 DEF Walking
  <2>7. Acts(c, g, "motion", <<>>)  BY <1>1, <1>3, <2>1 DEF Walking, Acts
  <2>8. Walking(c, g, el + 1)  BY <1>1, <2>3, <2>5, <2>6, <2>7 DEF Walking, n
  <2>9. WalkRank(c, g, el + 1) <= 6  BY DEF WalkRank
  <2>10. WalkRank(c, g, el + 1) \in Nat  BY DEF WalkRank
  <2>11. el + 1 \in Nat /\ 6 >= WalkRank(c, g, el + 1)  BY <2>9, <2>10
  <2> QED BY <2>8, <2>11 DEF Busy
<1>6. CASE Standing(c, b)
  <2>1. Standing(c, g)  BY <1>1, <1>2, <1>3, <1>6 DEF Standing, Acts
  <2> QED BY <2>1 DEF Busy
<1>7. CASE Dwelling(c, b)
  <2>1. Ready(b) /\ b.aim  BY <1>7 DEF Dwelling
  <2>2. Ready(g) /\ g.aim  BY <1>2, <1>3, <2>1 DEF Holds, Ready
  <2>3. Dwelling(c, g)  BY <1>1, <1>3, <1>7, <2>2 DEF Dwelling, Acts
  <2> QED BY <2>3 DEF Busy
<1>8. CASE Over(c, b)
  <2>1. Over(c, g)  BY <1>1, <1>3, <1>8 DEF Over
  <2> QED BY <2>1 DEF Busy
<1>9. CASE \E el \in Nat : Retreating(c, b, el) /\ ~Refreshes(c, b, el)
  <2>1. PICK el \in Nat : Retreating(c, b, el) /\ ~Refreshes(c, b, el)  BY <1>9
  <2> DEFINE n == 8 + c.plan.walk
  <2>2. c.plan.walk \in Nat /\ c.retreat \in Int  BY <1>1 DEF Runs, Fit
  <2>3. n \in Nat /\ Pacing(c, b, n, el)  BY <2>1, <2>2 DEF Retreating
  <2> HIDE DEF n
  <2>4. Pacing(c, g, n, el + 1)  BY <1>1, <2>1, <2>3, PacingTick
  <2>5. g.tick = c.retreat + (el + 1)  BY <1>1, <2>1, <2>2 DEF Retreating
  <2>6. Retreating(c, g, el + 1)  BY <1>1, <1>3, <2>1, <2>4, <2>5 DEF Retreating, n
  <2>7. el + 1 \in Nat /\ 6 >= (IF c.refreshed = g.tick THEN 1 ELSE 2)  OBVIOUS
  <2> QED BY <2>6, <2>7 DEF Busy
<1> QED BY <1>4, <1>5, <1>6, <1>7, <1>8, <1>9 DEF Rests

\* So it is when the next phase of its turn begins.
LEMMA RestsShift ==
  ASSUME NEW c, NEW b, Sound(b), Rests(c, b), NEW g, Sound(g), g.tick = b.tick + 1, Shifts(b, g)
  PROVE  Busy(c, g, 6)
<1>1. Runs(c, g, <<>>) /\ g.intents = b.intents /\ g.held = 0
  <2>1. Runs(c, b, <<>>)  BY RestsRuns
  <2> QED BY <2>1, RunsOn DEF Shifts
<1>2. CASE b.phase \in {"action", "retreat"}
  <2>1. g.phase = "settling" /\ g.settling \notin {None, "post_shot"}
    BY <1>2 DEF Shifts
  <2>2. Over(c, g)  BY <1>1, <2>1 DEF Over
  <2> QED BY <2>2 DEF Busy
<1>3. CASE b.phase \notin {"action", "retreat"}
  <2>1. Over(c, b)  BY <1>3 DEF Rests, Prefixed, Walking, Standing, Dwelling, Retreating, Acts
  <2>2. b.settling \in {None, "post_shot"}
    <3>1. b.phase = "projectile" => b.settling = None  BY DEF Sound, CastValid, None
    <3> QED BY <1>3, <3>1 DEF Shifts
  <2>3. c.retreat = Never /\ b.intents <= 7 + c.plan.walk  BY <2>1, <2>2 DEF Over
  <2>4. CASE g.phase = "settling"
    <3>1. Over(c, g)  BY <1>1, <2>3, <2>4 DEF Over
    <3> QED BY <3>1 DEF Busy
  <2>5. CASE g.phase = "retreat"
    <3>1. Landed(c, g)  BY <1>1, <2>3, <2>5 DEF Landed
    <3> QED BY <3>1 DEF Busy
  <2>6. g.phase \in {"settling", "retreat"}  BY <1>3 DEF Shifts
  <2> QED BY <2>4, <2>5, <2>6
<1> QED BY <1>2, <1>3

\* After a tick a resting script is busy, or its turn is over.
LEMMA RestsTick ==
  ASSUME NEW c, NEW b, Sound(b), Rests(c, b), NEW g, Sound(g), g.tick = b.tick + 1, Course(b, g)
  PROVE  Ends(b, g) \/ Begins(b, g) \/ (Busy(c, g, 6) /\ g.turn = b.turn)
BY RestsHold, RestsShift DEF Course, Holds, Shifts, Kin

\* A script stays the one of its turn.
LEMMA TurnStays ==
  ASSUME NEW c, IsScript(c), NEW m
  PROVE  NextOperation(c, m).script.turn = c.turn
<1>0. DOMAIN c = {"plan", "prefix", "turn", "pending", "stage", "queue", "begun",
                 "jumped", "aimedAt", "refreshed", "retreat"}
  BY DEF IsScript
<1> DEFINE T(d) == "turn" \in DOMAIN d /\ d.turn = c.turn
<1>1. T(c)  BY <1>0
<1>2. \A d, op : T(d) => Step(op, d).script.turn = c.turn  BY DEF Step
<1>3. \A d : T(d) => Dequeue(d).script.turn = c.turn  BY DEF Dequeue, Step
<1>4. \A d : T(d) => Refresh(d, m).script.turn = c.turn  BY DEF Refresh, Step
<1>5. Retreat(c, m).script.turn = c.turn
  <2>1. T([c EXCEPT !.retreat = m.tick,
                    !.queue = <<Say("face", Away, 0), Say("walk_start", Away, 0)>>])
    BY <1>1
  <2> HIDE DEF T
  <2> QED BY <1>1, <1>2, <1>3, <1>4, <2>1 DEF Retreat
<1>6. ASSUME NEW d, T(d)
      PROVE  Ground(d, m).script.turn = c.turn
  <2>1. T([d EXCEPT !.stage = "aim",
             !.queue = <<Say("face", Toward, 0), Say("select_relic", 0, 0), Say("aim", 0, 0)>>])
    BY <1>6
  <2> HIDE DEF T
  <2> QED BY <1>2, <1>3, <1>6, <2>1 DEF Ground
<1>7. ASSUME NEW d, T(d)
      PROVE  Begin(d, m).script.turn = c.turn
  <2> DEFINE b == [d EXCEPT !.begun = m.tick]
  <2>1. T(b)  BY <1>7
  <2> HIDE DEF b
  <2>2. T([b EXCEPT !.stage = "ground"])  BY <2>1
  <2>3. T([b EXCEPT !.stage = "motion",
                    !.queue = <<Say("face", Toward, 0), Say("walk_start", Toward, 0)>>])
    BY <2>1
  <2>4. Begin(d, m) = IF d.plan.walk = 0 THEN Ground([b EXCEPT !.stage = "ground"], m)
                      ELSE Dequeue([b EXCEPT !.stage = "motion",
                             !.queue = <<Say("face", Toward, 0), Say("walk_start", Toward, 0)>>])
    <3>1. b.plan = d.plan /\ [d EXCEPT !.begun = m.tick] = b  BY DEF b
    <3> QED BY <3>1 DEF Begin
  <2> HIDE DEF T
  <2> QED BY <1>3, <1>6, <2>2, <2>3, <2>4
<1>8. Prefix(c, m).script.turn = c.turn
  <2>1. T([c EXCEPT !.pending = FALSE])  BY <1>1
  <2> HIDE DEF T
  <2> QED BY <1>1, <1>2, <1>7, <2>1 DEF Prefix
<1>9. Motion(c, m).script.turn = c.turn
  <2> DEFINE jumps == /\ c.plan.jumpAfter # Never /\ ~c.jumped
                      /\ m.tick - c.begun >= c.plan.jumpAfter
             d == [c EXCEPT !.jumped = @ \/ jumps]
  <2>1. T(d)  BY <1>1
  <2> HIDE DEF d
  <2>2. T([d EXCEPT !.stage = "ground"])  BY <2>1
  <2>3. \/ Motion(c, m) = Step(Say("jump", Toward, 0), d)
        \/ Motion(c, m) = Step(Cancel, [d EXCEPT !.stage = "ground"])
        \/ Motion(c, m) = Refresh(d, m)
        \/ Motion(c, m) = Step(Rest, d)
    BY DEF Motion, d
  <2> HIDE DEF T
  <2> QED BY <1>2, <1>4, <2>1, <2>2, <2>3
<1>10. Dwell(c, m).script.turn = c.turn
  <2>1. T([c EXCEPT !.stage = "resolution"])  BY <1>1
  <2> HIDE DEF T
  <2> QED BY <1>1, <1>2, <2>1 DEF Dwell
<1>11. T([c EXCEPT !.aimedAt = m.tick, !.stage = "dwell"])  BY <1>1
<1> HIDE DEF T
<1> QED BY <1>1, <1>2, <1>3, <1>5, <1>6, <1>8, <1>9, <1>10, <1>11 DEF NextOperation

-----------------------------------------------------------------------------
(* Entries                                                                   *)

\* A log grows out of itself.
LEMMA GrowsRefl ==
  ASSUME NEW l, IsLog(l)
  PROVE  Grows(l, l) /\ Extended(l, l) /\ Silent(l, l)
<1>1. Len(l) \in Nat  BY LogIs
<1> QED BY <1>1 DEF Grows, Extended, Silent

\* A log that is extended grows.
LEMMA ExtendedGrows ==
  ASSUME NEW l, NEW h, Extended(l, h)
  PROVE  Grows(l, h)
BY DEF Extended, Grows

\* Extending twice is extending.
LEMMA ExtendedTrans ==
  ASSUME NEW l, NEW h, NEW g, IsLog(l), Extended(l, h), Extended(h, g)
  PROVE  Extended(l, g)
<1>1. Len(l) \in Nat /\ Len(h) \in Nat /\ Len(g) \in Nat  BY LogIs DEF Extended
<1>2. Len(l) <= Len(g) /\ \A i \in 1 .. Len(l) : g[i] = l[i]  BY <1>1 DEF Extended
<1>3. ASSUME NEW i \in Len(l) + 1 .. Len(g) PROVE g[i].op.kind # "ticks"
  <2>1. CASE i <= Len(h)
    <3>1. i \in 1 .. Len(h) /\ i \in Len(l) + 1 .. Len(h)  BY <1>1, <2>1
    <3> QED BY <3>1 DEF Extended
  <2>2. CASE i > Len(h)
    <3>1. i \in Len(h) + 1 .. Len(g)  BY <1>1, <2>2
    <3> QED BY <3>1 DEF Extended
  <2> QED BY <1>1, <2>1, <2>2
<1> QED BY <1>2, <1>3 DEF Extended

\* An entry goes on from itself.
LEMMA OnwardRefl ==
  ASSUME NEW e, Proper(e)
  PROVE  Onward(e, e)
<1>1. e.match.epoch \in Nat /\ e.match.barriers \in Nat /\ e.throws \in Nat
  BY DEF Proper, Sound, Typed
<1>2. Grows(e.log, e.log)  BY GrowsRefl DEF Proper
<1> QED BY <1>1, <1>2 DEF Onward

\* Going on twice is going on.
LEMMA OnwardTrans ==
  ASSUME NEW e, Proper(e), NEW f, NEW g, Onward(e, f), Onward(f, g)
  PROVE  Onward(e, g) /\ (Silent(e.log, f.log) /\ Silent(f.log, g.log) => Silent(e.log, g.log))
<1>1. /\ e.match.epoch \in Nat /\ f.match.epoch \in Nat /\ g.match.epoch \in Nat
      /\ e.match.barriers \in Nat /\ f.match.barriers \in Nat /\ g.match.barriers \in Nat
      /\ e.throws \in Nat /\ f.throws \in Nat /\ g.throws \in Nat /\ IsLog(e.log)
  BY DEF Onward, Proper, Sound, Typed
<1>2. /\ Grows(e.log, g.log)
      /\ Silent(e.log, f.log) /\ Silent(f.log, g.log) => Silent(e.log, g.log)
  BY <1>1, GrowsTrans DEF Onward
<1> QED BY <1>1, <1>2 DEF Onward

\* So does one whose match and log stay.
LEMMA SameOnward ==
  ASSUME NEW e, Proper(e), NEW f, Same(e, f), DOMAIN f = Parts,
         f.script = <<>> \/ \E c : IsScript(c) /\ f.script = <<c>>, DOMAIN f.ai = DOMAIN e.ai
  PROVE  Onward(e, f) /\ Silent(e.log, f.log) /\ Extended(e.log, f.log)
<1>1. /\ e.match.epoch \in Nat /\ e.match.barriers \in Nat /\ e.throws \in Nat
      /\ IsLog(e.log)
  BY DEF Proper, Sound, Typed
<1>2. Grows(e.log, e.log) /\ Silent(e.log, e.log) /\ Extended(e.log, e.log)  BY <1>1, GrowsRefl
<1> QED BY <1>1, <1>2 DEF Onward, Same, Proper

\* Accept moves the match on, with a record for it.
LEMMA AcceptIs ==
  ASSUME NEW e, Proper(e), NEW op, NEW m, Kept(e.match, m),
         Boundary(op) => e.match.epoch < m.epoch, NEW f, f = Accept(e, op, m)
  PROVE  /\ Onward(e, f) /\ f.match = m /\ Beside(e, f)
         /\ f.paused = IF Pausing(op) THEN op.reason = "pause" ELSE e.paused
         /\ ~Theirs(op) => Silent(e.log, f.log)
         /\ \A i \in Len(e.log) + 2 .. Len(f.log) : ~Theirs(f.log[i].op)
         /\ op.kind # "ticks" => /\ Extended(e.log, f.log) /\ Len(f.log) > Len(e.log)
                                 /\ f.log[Len(e.log) + 1].op = op
<1> DEFINE bs == IF op.kind = "safety" THEN <<>> ELSE m.events.boundaries
           l == e.log
           h == Logged(e, op, m, bs)
           J == Joins(l, op, bs)
           k == IF J THEN Len(l) ELSE Len(l) + 1
<1>1. DOMAIN e = Parts /\ Sound(e.match) /\ IsLog(l) /\ Sound(m) /\ Typed(m)
      /\ e.match.epoch \in Nat /\ m.epoch \in Nat /\ e.throws \in Nat
  BY DEF Proper, Kept, Sound, Typed
<1>2. bs \in Seq(Mark)
  <2>1. m.events.boundaries \in Seq(Mark)  BY <1>1 DEF Typed, IsEvents
  <2> QED BY <2>1
<1>3. /\ DOMAIN f = Parts /\ f.match = m /\ f.log = h /\ Beside(e, f)
      /\ f.paused = IF Pausing(op) THEN op.reason = "pause" ELSE e.paused
  BY <1>1 DEF Accept, Parts, Beside
<1> HIDE DEF bs
<1>4. Len(l) \in Nat /\ (l = <<>>) = (Len(l) = 0)  BY <1>1, LogIs
<1>5. /\ IsLog(h) /\ Len(h) = k + Len(bs) /\ Len(bs) \in Nat /\ k \in Nat \ {0}
      /\ \A i \in 1 .. k - 1 : h[i] = l[i]
      /\ J => h[k].op = Ticks(Last(l).op.count + 1)
      /\ ~J => h[k].op = op
      /\ \A i \in k + 1 .. Len(h) : h[i].op.kind = "automatic"
  <2>1. IsLog(e.log) /\ h = Logged(e, op, m, bs)
        /\ k = IF Joins(e.log, op, bs) THEN Len(e.log) ELSE Len(e.log) + 1
    BY <1>1
  <2>2. J = Joins(e.log, op, bs) /\ l = e.log  OBVIOUS
  <2> HIDE DEF h, k, J, l
  <2>3. IsLogged(e.log, op, bs, h, k)
    BY <1>2, <2>1, LoggedIs
  <2> QED BY <2>2, <2>3 DEF IsLogged
<1> HIDE DEF h
<1>6. J => op.kind = "ticks" /\ bs = <<>> /\ Len(bs) = 0 /\ Last(l).op.kind = "ticks" /\ Len(l) # 0
  BY <1>4 DEF Joins
<1> HIDE DEF J
<1>7. Grows(l, h)
  <2>1. CASE J
    <3>1. h[k].op.kind = "ticks"  BY <1>5, <2>1 DEF Ticks
    <3>2. l[k].op.kind = "ticks" /\ k = Len(l)  BY <1>6, <2>1 DEF Last
    <3>3. \A i \in 1 .. Len(l) : i = k \/ i \in 1 .. k - 1  BY <1>4, <3>2
    <3>4. Len(l) <= Len(h)  BY <1>4, <1>5, <3>2
    <3> HIDE DEF k
    <3> QED BY <1>5, <3>1, <3>2, <3>3, <3>4 DEF Grows
  <2>2. CASE ~J
    <3>1. k = Len(l) + 1 /\ Len(l) <= Len(h)  BY <1>4, <1>5, <2>2
    <3>2. \A i \in 1 .. Len(l) : i \in 1 .. k - 1  BY <1>4, <3>1
    <3> HIDE DEF k
    <3> QED BY <1>5, <3>1, <3>2 DEF Grows
  <2> QED BY <2>1, <2>2
<1>8. \A i \in Len(l) + 2 .. Len(h) : ~Theirs(h[i].op)
  <2>1. \A i \in Len(l) + 2 .. Len(h) : i \in k + 1 .. Len(h)  BY <1>4, <1>5
  <2> QED BY <1>5, <2>1 DEF Theirs
<1>9. ASSUME ~Theirs(op) PROVE Silent(l, h)
  <2> SUFFICES ASSUME NEW i \in Len(l) + 1 .. Len(h) PROVE ~Theirs(h[i].op)
    BY DEF Silent
  <2>1. i = Len(l) + 1 \/ i \in Len(l) + 2 .. Len(h)  BY <1>4, <1>5
  <2>2. CASE i = Len(l) + 1 /\ ~J
    <3>1. h[i].op = op  BY <1>5, <2>2
    <3> QED BY <1>9, <3>1
  <2>3. CASE i = Len(l) + 1 /\ J
    <3>1. i \in k + 1 .. Len(h)  BY <1>4, <1>5, <2>3
    <3> QED BY <1>5, <3>1 DEF Theirs
  <2> QED BY <1>8, <2>1, <2>2, <2>3
<1>10. ASSUME op.kind # "ticks"
       PROVE  Extended(l, h) /\ Len(h) > Len(l) /\ h[Len(l) + 1].op = op
  <2>1. ~J /\ k = Len(l) + 1 /\ k - 1 = Len(l)  BY <1>4, <1>6, <1>10
  <2>2. h[Len(l) + 1].op = op /\ Len(h) > Len(l) /\ Len(l) <= Len(h)  BY <1>4, <1>5, <2>1
  <2>3. \A i \in Len(l) + 1 .. Len(h) : h[i].op.kind # "ticks"
    <3> TAKE i \in Len(l) + 1 .. Len(h)
    <3>1. i = Len(l) + 1 \/ i \in k + 1 .. Len(h)  BY <1>4, <1>5, <2>1
    <3> QED BY <1>5, <1>10, <2>2, <3>1
  <2> HIDE DEF k
  <2> QED BY <1>5, <2>1, <2>2, <2>3 DEF Extended
<1>11. ASSUME e.match.epoch = m.epoch PROVE Boundaries(l) = Boundaries(h)
  <2>1. ~Boundary(op)  BY <1>1, <1>11
  <2>2. op.kind # "safety"  BY <2>1 DEF Boundary
  <2>3. bs = <<>> /\ Len(bs) = 0
    <3>1. bs = m.events.boundaries  BY <2>2 DEF bs
    <3>2. m.events.boundaries # <<>> => e.match.epoch < m.epoch  BY DEF Kept
    <3> QED BY <1>1, <1>11, <3>1, <3>2
  <2>4. \A i \in Len(l) + 1 .. Len(h) : ~Boundary(h[i].op)
    <3> TAKE i \in Len(l) + 1 .. Len(h)
    <3>1. ~J /\ i = k  BY <1>4, <1>5, <2>3
    <3> QED BY <1>5, <2>1, <3>1
  <2> QED BY <1>1, <1>7, <2>4, BoundariesGrow
<1>12. Proper(f)
  <2>1. /\ f.script = e.script /\ f.world = e.world /\ f.throws = e.throws /\ f.ai = e.ai
    BY <1>3 DEF Beside
  <2> QED BY <1>1, <1>3, <1>5, <2>1 DEF Proper
<1>13. e.match.epoch <= m.epoch /\ e.match.barriers <= m.barriers  BY DEF Kept
<1>14. Onward(e, f)
  <2>1. f.world = e.world /\ e.throws <= f.throws  BY <1>1, <1>3 DEF Beside
  <2> QED BY <1>3, <1>7, <1>11, <1>12, <1>13, <2>1 DEF Onward
<1> QED BY <1>3, <1>8, <1>9, <1>10, <1>14

\* Doing nothing is plain.
LEMMA PlainlyRefl ==
  ASSUME NEW e, Proper(e)
  PROVE  Plainly(e, e)
<1>1. IsLog(e.log)  BY DEF Proper
<1>2. Silent(e.log, e.log) /\ Extended(e.log, e.log)  BY <1>1, GrowsRefl
<1> QED BY <1>2, OnwardRefl DEF Plainly

\* A safety stop ends the match, and nothing is thrown.
LEMMA SafetyIs ==
  ASSUME NEW e, Proper(e), NEW reason, NEW f, f = Safety(e, reason)
  PROVE  Plainly(e, f) /\ Terminal(f) /\ (~Terminal(e) => ~f.paused)
<1>1. CASE Terminal(e)
  <2>1. f = e  BY <1>1 DEF Safety
  <2> QED BY <1>1, <2>1, PlainlyRefl
<1>2. CASE ~Terminal(e)
  <2> DEFINE g == [e EXCEPT !.unavailable = reason # "left", !.paused = FALSE]
             op == [kind |-> "safety", reason |-> reason]
             m == ForceLimit(e.match)
  <2>1. f = Accept(g, op, m)  BY <1>2 DEF Safety
  <2>2. /\ DOMAIN g = Parts /\ g.world = e.world /\ g.match = e.match /\ g.log = e.log
        /\ g.throws = e.throws /\ g.script = e.script /\ g.ai = e.ai /\ ~g.paused
    BY DEF Proper, Parts
  <2> HIDE DEF g
  <2>3. Proper(g)  BY <2>2 DEF Proper
  <2>4. Kept(e.match, m) /\ m.phase = "finished" /\ e.match.epoch < m.epoch
    <3>1. Sound(e.match) /\ e.match.phase # "finished"  BY <1>2 DEF Proper, Terminal
    <3> QED BY <3>1, ForceLimitIs
  <2>5. op.kind = "safety" /\ op.kind # "ticks" /\ ~Theirs(op) /\ ~Pausing(op)
    BY DEF Theirs, Pausing
  <2> HIDE DEF op, m
  <2>6. /\ Onward(g, f) /\ f.match = m /\ Beside(g, f)
        /\ f.paused = IF Pausing(op) THEN op.reason = "pause" ELSE g.paused
        /\ ~Theirs(op) => Silent(g.log, f.log)
        /\ op.kind # "ticks" => Extended(g.log, f.log)
    <3>1. Kept(g.match, m) /\ (Boundary(op) => g.match.epoch < m.epoch)  BY <2>2, <2>4
    <3> QED BY <2>1, <2>3, <3>1, AcceptIs
  <2>7. Onward(e, f) /\ f.throws = e.throws  BY <2>2, <2>6 DEF Onward, Beside
  <2> QED BY <2>2, <2>4, <2>5, <2>6, <2>7 DEF Plainly, Terminal
<1> QED BY <1>1, <1>2

\* An answer is accepted, ignored, or ends the match.
LEMMA AnsweredIs ==
  ASSUME NEW e, Proper(e), NEW op, op.kind \in {"barrier", "intent"}, NEW ans,
         ans.verdict = "done" => /\ Kept(e.match, ans.match)
                                 /\ op.kind = "barrier" => e.match.epoch < ans.match.epoch,
         NEW f, f = Answered(e, op, ans)
  PROVE  /\ Onward(e, f) /\ Extended(e.log, f.log) /\ f.throws = e.throws
         /\ ~Theirs(op) => Silent(e.log, f.log)
         /\ ans.verdict # "done" => Silent(e.log, f.log)
         /\ \A i \in Len(e.log) + 2 .. Len(f.log) : ~Theirs(f.log[i].op)
         /\ ans.verdict = "done" => /\ f = Accept(e, op, ans.match)
                                    /\ f.log[Len(e.log) + 1].op = op
<1>1. CASE ans.verdict = "done"
  <2>1. f = Accept(e, op, ans.match)  BY <1>1 DEF Answered
  <2>2. /\ Kept(e.match, ans.match) /\ op.kind # "ticks"
        /\ Boundary(op) => e.match.epoch < ans.match.epoch
    BY <1>1 DEF Boundary
  <2>3. /\ Onward(e, f) /\ Beside(e, f)
        /\ ~Theirs(op) => Silent(e.log, f.log)
        /\ \A i \in Len(e.log) + 2 .. Len(f.log) : ~Theirs(f.log[i].op)
        /\ op.kind # "ticks" => /\ Extended(e.log, f.log)
                                /\ f.log[Len(e.log) + 1].op = op
    BY <2>1, <2>2, AcceptIs
  <2> QED BY <1>1, <2>1, <2>2, <2>3 DEF Beside
<1>2. CASE ans.verdict # "done"
  <2>1. Plainly(e, f)
    <3>1. CASE ans.verdict = "lifecycle_limit"
      <4>1. f = Safety(e, "lifecycle_limit")  BY <3>1 DEF Answered
      <4> QED BY <4>1, SafetyIs
    <3>2. CASE ans.verdict # "lifecycle_limit"
      <4>1. f = e  BY <1>2, <3>2 DEF Answered
      <4> QED BY <4>1, PlainlyRefl
    <3> QED BY <3>1, <3>2
  <2>2. \A i \in Len(e.log) + 2 .. Len(f.log) : ~Theirs(f.log[i].op)
    <3>1. Len(e.log) \in Nat /\ Len(f.log) \in Nat  BY <2>1, LogIs DEF Plainly, Onward, Proper
    <3>2. \A i \in Len(e.log) + 2 .. Len(f.log) : i \in Len(e.log) + 1 .. Len(f.log)  BY <3>1
    <3> QED BY <2>1, <3>2 DEF Plainly, Silent
  <2> QED BY <1>2, <2>1, <2>2 DEF Plainly
<1> QED BY <1>1, <1>2

\* A barrier leaves its own record, if any, and no exception.
LEMMA ApplyBarrierIs ==
  ASSUME NEW e, Proper(e), NEW b, b.kind = "barrier", NEW d, NEW f, f = ApplyBarrier(e, b, d)
  PROVE  Plainly(e, f)
<1>0. ~Theirs(b) /\ b.kind \in {"barrier", "intent"} /\ b.kind # "ticks" /\ Boundary(b)
  BY DEF Theirs, Boundary
<1>1. CASE Pausing(b) /\ ~Pausable(e, b, d)
  <2>1. f = e  BY <1>1 DEF ApplyBarrier
  <2> QED BY <2>1, PlainlyRefl
<1>2. CASE ~(Pausing(b) /\ ~Pausable(e, b, d)) /\ b.reason = "resume" /\ AtPlayersLeap(e, b)
  <2>1. CASE e.match.barriers >= MaxBarriers
    <3>1. f = Safety(e, "lifecycle_limit")  BY <1>2, <2>1 DEF ApplyBarrier
    <3> QED BY <3>1, SafetyIs
  <2>2. CASE ~(e.match.barriers >= MaxBarriers)
    <3> DEFINE m == ResumedLeap(e.match)
    <3>1. f = Accept(e, b, m)  BY <1>2, <2>2 DEF ApplyBarrier
    <3>2. Sound(e.match) /\ Moves(e.match) /\ e.match.barriers < MaxBarriers
      <4>1. Sound(e.match) /\ e.match.phase = "action"  BY <1>2 DEF Proper, AtPlayersLeap
      <4>2. e.match.barriers \in Nat /\ MaxBarriers \in Nat  BY <4>1, Positive DEF Sound, Typed
      <4> QED BY <2>2, <4>1, <4>2 DEF Moves
    <3>3. Kept(e.match, m) /\ e.match.epoch < m.epoch
      BY <3>2, ResumedLeapIs DEF ResumedLeap
    <3> HIDE DEF m
    <3>4. /\ Onward(e, f) /\ Beside(e, f)
          /\ ~Theirs(b) => Silent(e.log, f.log)
          /\ b.kind # "ticks" => Extended(e.log, f.log)
      BY <3>1, <3>3, AcceptIs
    <3> QED BY <1>0, <3>4 DEF Plainly, Beside
  <2> QED BY <2>1, <2>2
<1>3. CASE ~(Pausing(b) /\ ~Pausable(e, b, d)) /\ ~(b.reason = "resume" /\ AtPlayersLeap(e, b))
  <2> DEFINE ans == Barrier(e.match, b)
  <2>1. f = Answered(e, b, ans)  BY <1>3 DEF ApplyBarrier
  <2>2. Sound(e.match)  BY DEF Proper
  <2>3. ans.verdict = "done" => Kept(e.match, ans.match) /\ e.match.epoch < ans.match.epoch
    BY <2>2, BarrierIs
  <2> HIDE DEF ans
  <2>4. /\ Onward(e, f) /\ Extended(e.log, f.log) /\ f.throws = e.throws
        /\ ~Theirs(b) => Silent(e.log, f.log)
    BY <1>0, <2>1, <2>3, AnsweredIs
  <2> QED BY <1>0, <2>4 DEF Plainly
<1> QED BY <1>1, <1>2, <1>3

\* An intent leaves at most one record of its own, the next one, and only if
\* its sender has seen the match as it is.
LEMMA ApplyIs ==
  ASSUME NEW e, Proper(e), NEW actor, NEW i \in Intents, NEW seen,
         NEW f, f = Apply(e, IntentOp(actor, i, seen))
  PROVE  /\ Onward(e, f) /\ Extended(e.log, f.log) /\ f.throws = e.throws
         /\ \A k \in Len(e.log) + 1 .. Len(f.log) :
              Theirs(f.log[k].op) => k = Len(e.log) + 1 /\ seen = Seen(e.match)
<1> DEFINE op == IntentOp(actor, i, seen)
           ans == Intent(e.match, actor, i, seen)
           b == [kind |-> "barrier", reason |-> "intent_limit", actor |-> op.actor,
                 turn |-> op.seen.turn, epoch |-> op.seen.epoch]
<1>1. op.kind = "intent" /\ op.actor = actor /\ op.intent = i /\ op.seen = seen
  BY DEF IntentOp
<1>2. f = IF e.paused THEN e ELSE Intended(e, op, ans)
  BY <1>1 DEF Apply
<1>3. /\ ans.verdict \in {"done", "rejected", "intent_limit"}
      /\ ans.verdict = "done" => Kept(e.match, ans.match)
      /\ ans.verdict # "rejected" => Current(e.match, actor, seen)
  <2>1. Sound(e.match)  BY DEF Proper
  <2> QED BY <2>1, IntentIs
<1>4. ASSUME Plainly(e, f)
      PROVE  /\ Onward(e, f) /\ Extended(e.log, f.log) /\ f.throws = e.throws
             /\ \A k \in Len(e.log) + 1 .. Len(f.log) :
                  Theirs(f.log[k].op) => k = Len(e.log) + 1 /\ seen = Seen(e.match)
  BY <1>4 DEF Plainly, Silent
<1>5. CASE e.paused
  <2>1. f = e  BY <1>2, <1>5
  <2> QED BY <1>4, <2>1, PlainlyRefl
<1>6. CASE ~e.paused /\ ans.verdict = "intent_limit"
  <2>1. f = ApplyBarrier(e, b, 0)  BY <1>2, <1>6 DEF Intended
  <2>2. b.kind = "barrier"  OBVIOUS
  <2> HIDE DEF b
  <2>3. Plainly(e, f)  BY <2>1, <2>2, ApplyBarrierIs
  <2> QED BY <1>4, <2>3
<1>7. CASE ~e.paused /\ ans.verdict # "intent_limit"
  <2>1. f = Answered(e, op, ans)  BY <1>2, <1>7 DEF Intended
  <2> HIDE DEF op, ans
  <2>2. /\ Onward(e, f) /\ Extended(e.log, f.log) /\ f.throws = e.throws
        /\ ans.verdict # "done" => Silent(e.log, f.log)
        /\ \A k \in Len(e.log) + 2 .. Len(f.log) : ~Theirs(f.log[k].op)
    <3>1. op.kind \in {"barrier", "intent"} /\ op.kind # "barrier"  BY <1>1
    <3>2. ans.verdict = "done" => /\ Kept(e.match, ans.match)
                                  /\ op.kind = "barrier" => e.match.epoch < ans.match.epoch
      BY <1>3, <3>1
    <3> QED BY <2>1, <3>1, <3>2, AnsweredIs
  <2>3. CASE ans.verdict # "done"
    <3>1. Plainly(e, f)  BY <2>2, <2>3 DEF Plainly
    <3> QED BY <1>4, <3>1
  <2>4. CASE ans.verdict = "done"
    <3>1. seen = Seen(e.match)  BY <1>3, <2>4 DEF Current
    <3>2. Len(e.log) \in Nat /\ Len(f.log) \in Nat  BY <2>2, LogIs DEF Onward, Proper
    <3>3. \A k \in Len(e.log) + 1 .. Len(f.log) : k = Len(e.log) + 1 \/ k \in Len(e.log) + 2 .. Len(f.log)
      BY <3>2
    <3> QED BY <2>2, <3>1, <3>3
  <2> QED BY <2>3, <2>4
<1> QED BY <1>5, <1>6, <1>7

-----------------------------------------------------------------------------
(* Recursion over the natural numbers                                        *)

\* Induction over the natural numbers, for the members of a set.
LEMMA Induction ==
  ASSUME NEW S, 0 \in S, \A n \in Nat : n \in S => n + 1 \in S
  PROVE  \A n \in Nat : n \in S
<1>1. SUFFICES ASSUME NEW k \in Nat, k \notin S PROVE FALSE
  OBVIOUS
<1> DEFINE T == {n \in 0 .. k : n \notin S}
           f == [n \in T |-> n - 1]
<1>2. IsFiniteSet(T)
  <2>1. IsFiniteSet(0 .. k)  BY FS_Interval
  <2> QED BY <2>1, FS_Subset
<1>3. k \in T  BY <1>1
<1>4. /\ IsFiniteSet(T \ {k}) /\ Cardinality(T) \in Nat
      /\ Cardinality(T \ {k}) = Cardinality(T) - 1
  BY <1>2, <1>3, FS_RemoveElement, FS_CardinalityType
<1>5. \A n \in T : n - 1 \in T \ {k}
  <2> TAKE n \in T
  <2>1. n \in Nat /\ n <= k /\ n \notin S /\ n # 0  OBVIOUS
  <2>2. n - 1 \in Nat  BY <2>1
  <2>3. n - 1 \in S => n - 1 + 1 \in S  BY <2>2
  <2>4. n - 1 + 1 = n  BY <2>1
  <2> QED BY <2>1, <2>2, <2>3, <2>4
<1>6. f \in [T -> T \ {k}]  BY <1>5
<1>7. \E x, y \in T : x # y /\ f[x] = f[y]
  <2> HIDE DEF f, T
  <2> QED BY <1>2, <1>4, <1>6, FS_PigeonHole
<1> QED BY <1>7

-----------------------------------------------------------------------------
(* Advance                                                                   *)

\* One more tick of Advance, and the function that repeats it.
AdvanceStep(e, f) == IF Threw(e, f) THEN f ELSE AdvanceOnce(f)
AdvanceRun(e, n, r) == r = [i \in 0 .. n |-> IF i = 0 THEN e ELSE AdvanceStep(e, r[i - 1])]

\* For every number of ticks there is a run.
LEMMA AdvanceRuns ==
  ASSUME NEW e
  PROVE  \A n \in Nat : \E r : AdvanceRun(e, n, r)
<1> DEFINE S == {n \in Nat : \E r : AdvanceRun(e, n, r)}
<1>1. 0 \in S
  <2> DEFINE r == [i \in 0 .. 0 |-> e]
  <2>1. AdvanceRun(e, 0, r)  BY DEF AdvanceRun
  <2> QED BY <2>1
<1>2. ASSUME NEW n \in Nat, n \in S PROVE n + 1 \in S
  <2>1. PICK r : AdvanceRun(e, n, r)  BY <1>2
  <2> DEFINE g == [i \in 0 .. n + 1 |-> IF i <= n THEN r[i] ELSE AdvanceStep(e, r[n])]
  <2>2. g = [i \in 0 .. n + 1 |-> IF i = 0 THEN e ELSE AdvanceStep(e, g[i - 1])]
    <3>1. ASSUME NEW i \in 0 .. n + 1
          PROVE  g[i] = IF i = 0 THEN e ELSE AdvanceStep(e, g[i - 1])
      BY <2>1, <3>1 DEF AdvanceRun
    <3> QED BY <3>1
  <2> HIDE DEF g
  <2>3. AdvanceRun(e, n + 1, g)  BY <2>2 DEF AdvanceRun
  <2> QED BY <2>3
<1> HIDE DEF S
<1>3. \A n \in Nat : n \in S  BY <1>1, <1>2, Induction
<1> QED BY <1>3 DEF S

\* Advance ends such a run.
LEMMA AdvanceRunIs ==
  ASSUME NEW e, NEW n \in Nat
  PROVE  \E r : AdvanceRun(e, n, r) /\ Advance(e, n) = r[n]
<1> DEFINE r == CHOOSE r : r = [i \in 0 .. n |-> IF i = 0 THEN e ELSE AdvanceStep(e, r[i - 1])]
<1>1. Advance(e, n) = r[n]  BY Zenon DEF Advance, AdvanceStep
<1>2. r = [i \in 0 .. n |-> IF i = 0 THEN e ELSE AdvanceStep(e, r[i - 1])]
  <2>1. \E q : q = [i \in 0 .. n |-> IF i = 0 THEN e ELSE AdvanceStep(e, q[i - 1])]
    BY AdvanceRuns DEF AdvanceRun
  <2> QED BY <2>1, Zenon
<1> HIDE DEF r
<1> QED BY <1>1, <1>2 DEF AdvanceRun

\* Advancing by one tick more is a step more, unless there was an exception.
LEMMA AdvanceNext ==
  ASSUME NEW e, NEW n \in Nat
  PROVE  Advance(e, 0) = e /\ Advance(e, n + 1) = AdvanceStep(e, Advance(e, n))
<1>1. Advance(e, 0) = e
  <2>1. PICK r : AdvanceRun(e, 0, r) /\ Advance(e, 0) = r[0]  BY AdvanceRunIs
  <2> QED BY <2>1 DEF AdvanceRun
<1>2. PICK r : AdvanceRun(e, n, r) /\ Advance(e, n) = r[n]  BY AdvanceRunIs
<1>3. n + 1 \in Nat  OBVIOUS
<1>4. PICK q : AdvanceRun(e, n + 1, q) /\ Advance(e, n + 1) = q[n + 1]
  BY <1>3, AdvanceRunIs
<1> DEFINE S == {i \in Nat : i <= n => r[i] = q[i]}
<1>5. 0 \in S  BY <1>2, <1>4 DEF AdvanceRun
<1>6. ASSUME NEW i \in Nat, i \in S PROVE i + 1 \in S
  <2> SUFFICES ASSUME i + 1 <= n PROVE r[i + 1] = q[i + 1]
    OBVIOUS
  <2>1. i + 1 \in 0 .. n /\ i + 1 \in 0 .. n + 1 /\ i + 1 # 0 /\ i + 1 - 1 = i /\ r[i] = q[i]
    BY <1>6
  <2>2. r[i + 1] = AdvanceStep(e, r[i])  BY <1>2, <2>1 DEF AdvanceRun
  <2>3. q[i + 1] = AdvanceStep(e, q[i])  BY <1>4, <2>1 DEF AdvanceRun
  <2> QED BY <2>1, <2>2, <2>3
<1> HIDE DEF S
<1>7. \A i \in Nat : i \in S  BY <1>5, <1>6, Induction
<1>8. r[n] = q[n]  BY <1>7 DEF S
<1>9. q[n + 1] = AdvanceStep(e, q[n])
  <2>1. n + 1 \in 0 .. n + 1 /\ n + 1 # 0 /\ n + 1 - 1 = n  OBVIOUS
  <2> QED BY <1>4, <2>1 DEF AdvanceRun
<1> QED BY <1>1, <1>2, <1>4, <1>8, <1>9

-----------------------------------------------------------------------------
(* Drain                                                                     *)

\* One more operation of Drain, and the function that repeats it.
DrainStep(v) ==
  IF ~v.on THEN v
  ELSE Perform(v.entry, NextOperation(v.entry.script[1], v.entry.match))
DrainRun(v, n, r) == r = [i \in 0 .. n |-> IF i = 0 THEN v ELSE DrainStep(r[i - 1])]

\* For every number of operations there is a run.
LEMMA DrainRuns ==
  ASSUME NEW v
  PROVE  \A n \in Nat : \E r : DrainRun(v, n, r)
<1> DEFINE S == {n \in Nat : \E r : DrainRun(v, n, r)}
<1>1. 0 \in S
  <2> DEFINE r == [i \in 0 .. 0 |-> v]
  <2>1. DrainRun(v, 0, r)  BY DEF DrainRun
  <2> QED BY <2>1
<1>2. ASSUME NEW n \in Nat, n \in S PROVE n + 1 \in S
  <2>1. PICK r : DrainRun(v, n, r)  BY <1>2
  <2> DEFINE g == [i \in 0 .. n + 1 |-> IF i <= n THEN r[i] ELSE DrainStep(r[n])]
  <2>2. g = [i \in 0 .. n + 1 |-> IF i = 0 THEN v ELSE DrainStep(g[i - 1])]
    <3>1. ASSUME NEW i \in 0 .. n + 1
          PROVE  g[i] = IF i = 0 THEN v ELSE DrainStep(g[i - 1])
      BY <2>1, <3>1 DEF DrainRun
    <3> QED BY <3>1
  <2> HIDE DEF g
  <2>3. DrainRun(v, n + 1, g)  BY <2>2 DEF DrainRun
  <2> QED BY <2>3
<1> HIDE DEF S
<1>3. \A n \in Nat : n \in S  BY <1>1, <1>2, Induction
<1> QED BY <1>3 DEF S

\* Drain ends one of eight operations.
LEMMA DrainRunIs ==
  ASSUME NEW e, ~Terminal(e), NEW v, v = [entry |-> Choose(e), on |-> Choose(e).script # <<>>]
  PROVE  \E r : DrainRun(v, 8, r) /\ Drain(e) = r[8].entry
<1> DEFINE r == CHOOSE r : r = [i \in 0 .. 8 |-> IF i = 0 THEN v ELSE DrainStep(r[i - 1])]
<1>1. Drain(e) = r[8].entry  BY Zenon DEF Drain, DrainStep
<1>2. r = [i \in 0 .. 8 |-> IF i = 0 THEN v ELSE DrainStep(r[i - 1])]
  <2>1. \E q : q = [i \in 0 .. 8 |-> IF i = 0 THEN v ELSE DrainStep(q[i - 1])]
    <3>1. \E q : DrainRun(v, 8, q)  BY DrainRuns
    <3> QED BY <3>1 DEF DrainRun
  <2> QED BY <2>1, Zenon
<1> HIDE DEF r
<1> QED BY <1>1, <1>2 DEF DrainRun

\* Thinking changes the opponent's thoughts and script alone.
LEMMA ThinkIs ==
  ASSUME NEW e, Proper(e), NEW t, t = Think(e)
  PROVE  /\ Onward(e, t) /\ Silent(e.log, t.log) /\ Extended(e.log, t.log) /\ Same(e, t)
         /\ t.paused = e.paused /\ t.unavailable = e.unavailable /\ t.plans = e.plans
         /\ t.script = e.script \/ t.script = <<>>
<1> DEFINE fresh == e.ai.turn # e.match.turn
           ai == IF fresh THEN [NoThought EXCEPT !.turn = e.match.turn] ELSE e.ai
           bi == IF ai.elapsed >= PlanTicks THEN ai
                 ELSE [ai EXCEPT !.elapsed = @ + 1,
                                 !.failed = @ \/ e.world.plan.status = "work_failure"]
           s == IF fresh THEN <<>> ELSE e.script
           g == [e EXCEPT !.script = s, !.ai = bi]
<1>1. t = e \/ t = g
  BY DEF Think
<1>7. DOMAIN bi = DOMAIN e.ai
  <2>1. DOMAIN ai = {"turn", "elapsed", "failed"} /\ DOMAIN ai = DOMAIN e.ai
    BY DEF Proper, NoThought
  <2> HIDE DEF ai
  <2> QED BY <2>1
<1> HIDE DEF s, bi
<1>2. /\ Same(e, g) /\ DOMAIN g = Parts /\ g.script = s /\ g.paused = e.paused
      /\ g.unavailable = e.unavailable /\ g.plans = e.plans /\ g.ai = bi
  BY DEF Proper, Same, Parts
<1>3. Same(e, e) /\ DOMAIN e = Parts  BY DEF Proper, Same
<1> HIDE DEF g
<1>4. s = e.script \/ s = <<>>  BY DEF s
<1>5. /\ Same(e, t) /\ DOMAIN t = Parts /\ t.paused = e.paused
      /\ t.unavailable = e.unavailable /\ t.plans = e.plans /\ DOMAIN t.ai = DOMAIN e.ai
      /\ t.script = e.script \/ t.script = <<>>
  BY <1>1, <1>2, <1>3, <1>4, <1>7
<1>6. t.script = <<>> \/ \E c : IsScript(c) /\ t.script = <<c>>  BY <1>5 DEF Proper
<1> QED BY <1>5, <1>6, SameOnward

\* A script begins as one.
LEMMA ScriptIs ==
  ASSUME NEW plan, NEW prefix \in {None, "threadguard", "threadleap"}, NEW turn
  PROVE  IsScript(Script(plan, prefix, turn))
<1>1. <<>> \in Seq(Sayings)  OBVIOUS
<1> QED BY <1>1 DEF Script, IsScript

\* A decision changes the opponent's thoughts and script alone.
LEMMA ChooseIs ==
  ASSUME NEW e, Proper(e), NEW t, t = Choose(e)
  PROVE  /\ Onward(e, t) /\ Silent(e.log, t.log) /\ Extended(e.log, t.log) /\ Same(e, t)
         /\ t.paused = e.paused /\ t.unavailable = e.unavailable /\ t.ai = e.ai
<1> DEFINE s == Selection(e)
           c == Script(e.world.plan, s.prefix, e.match.turn)
           z == IF s.status = "selected" THEN <<c>> ELSE e.script
           p == Append(e.plans, [turn |-> e.match.turn, status |-> s.status])
           g == [e EXCEPT !.plans = p, !.script = z]
<1>1. t = e \/ t = g
  BY DEF Choose
<1>2. s.prefix \in {None, "threadguard", "threadleap"}
  BY DEF Selection, PrefixFor
<1> HIDE DEF s
<1>3. IsScript(c)  BY <1>2, ScriptIs
<1> HIDE DEF c
<1>4. z = <<>> \/ \E d : IsScript(d) /\ z = <<d>>  BY <1>3 DEF Proper
<1> HIDE DEF z, p
<1>5. /\ Same(e, g) /\ DOMAIN g = Parts /\ g.script = z /\ g.paused = e.paused
      /\ g.unavailable = e.unavailable /\ g.ai = e.ai
  BY DEF Proper, Same, Parts
<1>6. Same(e, e) /\ DOMAIN e = Parts  BY DEF Proper, Same
<1> HIDE DEF g
<1>7. /\ Same(e, t) /\ DOMAIN t = Parts /\ t.paused = e.paused
      /\ t.unavailable = e.unavailable /\ t.ai = e.ai
      /\ t.script = z \/ t.script = e.script
  BY <1>1, <1>5, <1>6
<1>8. t.script = <<>> \/ \E d : IsScript(d) /\ t.script = <<d>>  BY <1>4, <1>7 DEF Proper
<1> QED BY <1>7, <1>8, SameOnward

\* An operation of the opponent's and its records, or an exception.
LEMMA PerformIs ==
  ASSUME NEW e, Proper(e), NEW s, IsStep(s), NEW v, v = Perform(e, s)
  PROVE  /\ Onward(e, v.entry) /\ Silent(e.log, v.entry.log) /\ Extended(e.log, v.entry.log)
         /\ v.entry.script = <<s.script>> /\ v.entry.paused = e.paused
<1> DEFINE f == [e EXCEPT !.script = <<s.script>>]
           seen == Seen(e.match)
           b == BarrierOp(s.op.reason, "loomkeeper", e.match)
           i == IntentOp("loomkeeper", s.op.intent, seen)
<1>1. /\ Same(e, f) /\ DOMAIN f = Parts /\ f.script = <<s.script>> /\ f.paused = e.paused
      /\ f.ai = e.ai
  BY DEF Proper, Same, Parts
<1> HIDE DEF f
<1>2. Onward(e, f) /\ Silent(e.log, f.log) /\ Extended(e.log, f.log) /\ Proper(f)
  <2>1. f.script = <<>> \/ \E c : IsScript(c) /\ f.script = <<c>>  BY <1>1 DEF IsStep
  <2>2. Onward(e, f) /\ Silent(e.log, f.log) /\ Extended(e.log, f.log)
    BY <1>1, <2>1, SameOnward
  <2> QED BY <2>2 DEF Onward
<1>3. ASSUME NEW op, op.kind \in {"barrier", "intent"}, ~Theirs(op), ~Pausing(op), NEW ans,
             ans.verdict = "done" => /\ Kept(e.match, ans.match)
                                     /\ op.kind = "barrier" => e.match.epoch < ans.match.epoch,
             v = Performed(f, op, ans)
      PROVE  /\ Onward(f, v.entry) /\ Silent(f.log, v.entry.log) /\ Extended(f.log, v.entry.log)
             /\ v.entry.script = f.script /\ v.entry.paused = f.paused
  <2>1. CASE ans.verdict = "done"
    <3>1. v.entry = Accept(f, op, ans.match)  BY <1>3, <2>1 DEF Performed
    <3>2. /\ Kept(f.match, ans.match) /\ op.kind # "ticks"
          /\ Boundary(op) => f.match.epoch < ans.match.epoch
      BY <1>1, <1>3, <2>1 DEF Boundary, Same
    <3> DEFINE g == v.entry
    <3> HIDE DEF g
    <3>3. g = Accept(f, op, ans.match)  BY <3>1 DEF g
    <3>4. /\ Onward(f, g) /\ Beside(f, g)
          /\ g.paused = IF Pausing(op) THEN op.reason = "pause" ELSE f.paused
          /\ ~Theirs(op) => Silent(f.log, g.log)
          /\ op.kind # "ticks" => Extended(f.log, g.log)
      BY <1>2, <3>2, <3>3, AcceptIs
    <3> QED BY <1>3, <3>2, <3>4 DEF Beside, g
  <2>2. CASE ans.verdict = "unchanged"
    <3>1. v.entry = f  BY <1>3, <2>2 DEF Performed
    <3>2. Plainly(f, f)  BY <1>2, PlainlyRefl
    <3> QED BY <3>1, <3>2 DEF Plainly
  <2>3. CASE ans.verdict \notin {"done", "unchanged"}
    <3> DEFINE g == [f EXCEPT !.throws = @ + 1]
    <3>1. v.entry = g  BY <1>3, <2>3 DEF Performed
    <3>2. /\ DOMAIN g = Parts /\ g.world = f.world /\ g.match = f.match /\ g.log = f.log
          /\ g.throws = f.throws + 1 /\ g.script = f.script /\ g.paused = f.paused
          /\ g.ai = f.ai
      BY <1>1 DEF Parts
    <3> HIDE DEF g
    <3>3. Plainly(f, f)  BY <1>2, PlainlyRefl
    <3>4. f.throws \in Nat  BY <1>2 DEF Proper
    <3>5. Proper(g)  BY <1>2, <3>2, <3>4 DEF Proper
    <3>6. Onward(f, g)  BY <3>2, <3>3, <3>4, <3>5 DEF Plainly, Onward
    <3> QED BY <3>1, <3>2, <3>3, <3>6 DEF Plainly
  <2> QED BY <2>1, <2>2, <2>3
<1>4. Sound(e.match) /\ IsLog(e.log)  BY DEF Proper
<1>5. \/ v.entry = f
      \/ /\ Onward(f, v.entry) /\ Silent(f.log, v.entry.log) /\ Extended(f.log, v.entry.log)
         /\ v.entry.script = f.script /\ v.entry.paused = f.paused
  <2>1. CASE s.op.kind = "none"
    <3>1. v = [entry |-> f, on |-> FALSE]  BY <2>1 DEF Perform, f
    <3> QED BY <3>1
  <2>2. CASE s.op.kind = "barrier"
    <3> DEFINE ans == Barrier(e.match, b)
    <3>1. v = Performed(f, b, ans)  BY <2>2 DEF Perform, f
    <3>2. b.kind = "barrier" /\ b.reason = "cancel" /\ ~Theirs(b) /\ ~Pausing(b)
      BY <2>2 DEF BarrierOp, IsStep, Theirs, Pausing
    <3>3. ans.verdict = "done" => Kept(e.match, ans.match) /\ e.match.epoch < ans.match.epoch
      BY <1>4, BarrierIs
    <3> HIDE DEF ans, b
    <3> QED BY <1>3, <3>1, <3>2, <3>3
  <2>3. CASE s.op.kind = "intent"
    <3> DEFINE ans == Intent(e.match, "loomkeeper", s.op.intent, seen)
    <3>1. v = Performed(f, i, ans)  BY <2>3 DEF Perform, f
    <3>2. i.kind = "intent" /\ i.actor = "loomkeeper" /\ ~Theirs(i) /\ ~Pausing(i)
      BY DEF IntentOp, Theirs, Pausing
    <3>3. ans.verdict = "done" => Kept(e.match, ans.match)
      <4>1. s.op.intent \in Intents  BY <2>3 DEF IsStep
      <4> QED BY <1>4, <4>1, IntentIs
    <3> HIDE DEF ans, i
    <3>4. i.kind # "barrier" /\ i.kind \in {"barrier", "intent"}  BY <3>2
    <3> QED BY <1>3, <3>1, <3>2, <3>3, <3>4
  <2> QED BY <2>1, <2>2, <2>3 DEF IsStep
<1>6. CASE v.entry = f  BY <1>1, <1>2, <1>6
<1>7. CASE /\ Onward(f, v.entry) /\ Silent(f.log, v.entry.log) /\ Extended(f.log, v.entry.log)
           /\ v.entry.script = f.script /\ v.entry.paused = f.paused
  <2> DEFINE g == v.entry
  <2> HIDE DEF g
  <2>1. /\ Onward(f, g) /\ Silent(f.log, g.log) /\ Extended(f.log, g.log)
        /\ g.script = f.script /\ g.paused = f.paused
    BY <1>7 DEF g
  <2>2. Onward(e, g) /\ Silent(e.log, g.log)  BY <1>2, <2>1, OnwardTrans
  <2>3. Extended(e.log, g.log)  BY <1>2, <1>4, <2>1, ExtendedTrans
  <2> QED BY <1>1, <2>1, <2>2, <2>3 DEF g
<1> QED BY <1>5, <1>6, <1>7

\* What the opponent does after a tick.
LEMMA DrainIs ==
  ASSUME NEW e, Proper(e), NEW f, f = Drain(e)
  PROVE  Onward(e, f) /\ Silent(e.log, f.log) /\ Extended(e.log, f.log) /\ f.paused = e.paused
<1> DEFINE Q(w) == /\ Onward(e, w.entry) /\ Silent(e.log, w.entry.log)
                   /\ Extended(e.log, w.entry.log) /\ w.entry.paused = e.paused
                   /\ w.on => w.entry.script # <<>>
<1>0. IsLog(e.log)  BY DEF Proper
<1>1. CASE Terminal(e)
  <2>1. f = e  BY Zenon, <1>1 DEF Drain
  <2> QED BY <2>1, PlainlyRefl DEF Plainly
<1>2. CASE ~Terminal(e)
  <2> DEFINE v == [entry |-> Choose(e), on |-> Choose(e).script # <<>>]
  <2>1. PICK r : DrainRun(v, 8, r) /\ f = r[8].entry  BY <1>2, DrainRunIs
  <2>2. Q(v)
    <3>1. v.entry = Choose(e) /\ (v.on => v.entry.script # <<>>)  OBVIOUS
    <3> HIDE DEF v
    <3> QED BY <3>1, ChooseIs
  <2>3. ASSUME NEW w, Q(w) PROVE Q(DrainStep(w))
    <3>1. CASE ~w.on
      <4>1. DrainStep(w) = w  BY <3>1 DEF DrainStep
      <4> QED BY <2>3, <4>1
    <3>2. CASE w.on
      <4> DEFINE g == w.entry
                 s == NextOperation(g.script[1], g.match)
                 x == Perform(g, s)
      <4>1. DrainStep(w) = x  BY <3>2 DEF DrainStep
      <4>2. /\ Onward(e, g) /\ Silent(e.log, g.log) /\ Extended(e.log, g.log)
            /\ g.paused = e.paused /\ g.script # <<>>
        BY <2>3, <3>2
      <4> HIDE DEF g
      <4>3. Proper(g)  BY <4>2 DEF Onward
      <4>4. PICK c : IsScript(c) /\ g.script = <<c>>  BY <4>2, <4>3 DEF Proper
      <4>5. g.script[1] = c  BY <4>4
      <4>6. Typed(g.match)  BY <4>3 DEF Proper, Sound
      <4>7. IsStep(s)  BY <4>4, <4>5, <4>6, NextOperationIs
      <4> HIDE DEF s
      <4> DEFINE h == x.entry
      <4>8. /\ Onward(g, h) /\ Silent(g.log, h.log) /\ Extended(g.log, h.log)
            /\ h.script = <<s.script>> /\ h.paused = g.paused
        BY <4>3, <4>7, PerformIs
      <4> HIDE DEF x, h
      <4>9. Onward(e, h) /\ Silent(e.log, h.log)  BY <4>2, <4>8, OnwardTrans
      <4>10. Extended(e.log, h.log)  BY <1>0, <4>2, <4>8, ExtendedTrans
      <4>11. h.script # <<>>  BY <4>8
      <4> QED BY <4>1, <4>2, <4>8, <4>9, <4>10, <4>11 DEF h
    <3> QED BY <3>1, <3>2
  <2> DEFINE T == {i \in Nat : i <= 8 => Q(r[i])}
  <2>4. 0 \in T
    <3>1. r[0] = v  BY <2>1 DEF DrainRun
    <3> HIDE DEF v, Q
    <3> QED BY <2>2, <3>1
  <2>5. ASSUME NEW i \in Nat, i \in T PROVE i + 1 \in T
    <3> HIDE DEF v, Q
    <3> SUFFICES ASSUME i + 1 <= 8 PROVE Q(r[i + 1])
      OBVIOUS
    <3>1. i + 1 \in 0 .. 8 /\ i + 1 # 0 /\ i + 1 - 1 = i /\ Q(r[i])  BY <2>5
    <3>2. r[i + 1] = DrainStep(r[i])  BY <2>1, <3>1 DEF DrainRun
    <3> QED BY <2>3, <3>1, <3>2
  <2>6. Q(r[8])
    <3> HIDE DEF T
    <3>1. \A i \in Nat : i \in T  BY <2>4, <2>5, Induction
    <3>2. 8 \in T  BY <3>1
    <3> HIDE DEF Q
    <3> QED BY <3>2 DEF T
  <2> QED BY <2>1, <2>6
<1> QED BY <1>1, <1>2

\* The match takes ticks.
Goes(e) == ~Terminal(e) /\ ~e.paused

\* A tick is counted in one record; the player says nothing in it.
LEMMA AdvanceOnceIs ==
  ASSUME NEW e, Proper(e), NEW f, f = AdvanceOnce(e)
  PROVE  /\ Onward(e, f) /\ Silent(e.log, f.log) /\ f.paused = e.paused
         /\ Goes(e) => \E k : Ticked(e.log, f.log, k)
<1>0. IsLog(e.log)  BY DEF Proper
<1>1. CASE ~Goes(e)
  <2>1. f = e  BY <1>1 DEF AdvanceOnce, Goes
  <2> QED BY <1>1, <2>1, PlainlyRefl DEF Plainly
<1>2. CASE Goes(e)
  <2> DEFINE t == Think(e)
             m == Tick(t.world, t.match)
             op == Ticks(1)
             a == Accept(t, op, m)
  <2>1. f = Drain(a)  BY <1>2 DEF AdvanceOnce, Goes
  <2>2. Onward(e, t) /\ Silent(e.log, t.log) /\ Same(e, t) /\ t.paused = e.paused
    BY ThinkIs
  <2> HIDE DEF t
  <2>3. Proper(t) /\ t.match.phase # "finished" /\ Sound(t.match) /\ t.world \in World
        /\ t.log = e.log
    BY <1>2, <2>2 DEF Onward, Proper, Same, Goes, Terminal
  <2>4. Kept(t.match, m)  BY <2>3, TickKept
  <2> HIDE DEF m
  <2>5. op.kind = "ticks" /\ ~Boundary(op) /\ ~Theirs(op) /\ ~Pausing(op)
    BY DEF Ticks, Boundary, Theirs, Pausing
  <2>6. /\ Onward(t, a) /\ a.match = m
        /\ a.paused = IF Pausing(op) THEN op.reason = "pause" ELSE t.paused
        /\ ~Theirs(op) => Silent(t.log, a.log)
    BY <2>3, <2>4, <2>5, AcceptIs
  <2> DEFINE bs == m.events.boundaries
             k == IF Joins(t.log, op, bs) THEN Len(t.log) ELSE Len(t.log) + 1
  <2>7. IsLogged(t.log, op, bs, a.log, k)
    <3>1. a.log = Logged(t, op, m, bs)
      <4>1. op.kind # "safety"  BY <2>5
      <4> QED BY <2>3, <4>1 DEF Accept, Proper, Parts
    <3>2. bs \in Seq(Mark)  BY <2>4 DEF Kept, Sound, Typed, IsEvents
    <3>3. IsLog(t.log)  BY <2>3 DEF Proper
    <3>4. k = IF Joins(t.log, op, bs) THEN Len(t.log) ELSE Len(t.log) + 1  OBVIOUS
    <3> HIDE DEF a, bs, op, k
    <3> QED BY <3>1, <3>2, <3>3, <3>4, LoggedIs
  <2> HIDE DEF a
  <2>8. Proper(a)  BY <2>6 DEF Onward
  <2>9. /\ Onward(a, f) /\ Silent(a.log, f.log) /\ Extended(a.log, f.log)
        /\ f.paused = a.paused
    BY <2>1, <2>8, DrainIs
  <2>10. Onward(e, a) /\ Silent(e.log, a.log)
    BY <2>2, <2>5, <2>6, OnwardTrans
  <2>11. Onward(e, f) /\ Silent(e.log, f.log)
    BY <2>9, <2>10, OnwardTrans
  <2>12. Ticked(e.log, f.log, k)
    <3>1. Len(e.log) \in Nat /\ Len(a.log) \in Nat /\ Len(f.log) \in Nat /\ Len(a.log) <= Len(f.log)
          /\ (e.log = <<>>) = (Len(e.log) = 0) /\ IsLog(f.log)
      BY <1>0, <2>8, <2>9, LogIs DEF Proper, Extended
    <3>2. Joins(e.log, op, bs) => /\ Last(e.log).op.kind = "ticks" /\ Len(e.log) # 0
      BY <3>1 DEF Joins
    <3>3. k = IF Joins(e.log, op, bs) THEN Len(e.log) ELSE Len(e.log) + 1  BY <2>3
    <3>4. /\ Len(a.log) = k + Len(bs) /\ Len(bs) \in Nat /\ k \in Nat \ {0}
          /\ \A i \in 1 .. k - 1 : a.log[i] = e.log[i]
          /\ Joins(e.log, op, bs) => a.log[k].op = Ticks(Last(e.log).op.count + 1)
          /\ ~Joins(e.log, op, bs) => a.log[k].op = op
          /\ \A i \in k + 1 .. Len(a.log) : a.log[i].op.kind = "automatic"
      BY <2>3, <2>7 DEF IsLogged
    <3> HIDE DEF k, bs
    <3>5. k <= Len(a.log) /\ k <= Len(f.log)  BY <3>1, <3>4
    <3>6. \A i \in 1 .. Len(a.log) : f.log[i] = a.log[i]  BY <2>9 DEF Extended
    <3>7. \A i \in 1 .. k - 1 : f.log[i] = e.log[i]  BY <3>1, <3>4, <3>5, <3>6
    <3>8. f.log[k] = a.log[k]  BY <3>1, <3>4, <3>5, <3>6
    <3>9. \A i \in k + 1 .. Len(f.log) : f.log[i].op.kind # "ticks"
      <4> TAKE i \in k + 1 .. Len(f.log)
      <4>1. CASE i <= Len(a.log)
        <5>1. i \in k + 1 .. Len(a.log) /\ i \in 1 .. Len(a.log)  BY <3>1, <3>4, <4>1
        <5> QED BY <3>4, <3>6, <5>1
      <4>2. CASE i > Len(a.log)
        <5>1. i \in Len(a.log) + 1 .. Len(f.log)  BY <3>1, <3>4, <4>2
        <5> QED BY <2>9, <5>1 DEF Extended
      <4> QED BY <3>1, <3>4, <4>1, <4>2
    <3>10. CASE Joins(e.log, op, bs)
      <4>1. k = Len(e.log) /\ e.log[k].op.kind = "ticks" /\ f.log[k].op = Ticks(e.log[k].op.count + 1)
        BY <3>2, <3>3, <3>4, <3>8, <3>10 DEF Last
      <4> QED BY <3>1, <3>4, <3>5, <3>7, <3>9, <4>1 DEF Ticked
    <3>11. CASE ~Joins(e.log, op, bs)
      <4>1. k = Len(e.log) + 1 /\ f.log[k].op = Ticks(1)  BY <3>3, <3>4, <3>8, <3>11
      <4> QED BY <3>1, <3>4, <3>5, <3>7, <3>9, <4>1 DEF Ticked
    <3> QED BY <3>10, <3>11
  <2> QED BY <2>2, <2>5, <2>6, <2>9, <2>11, <2>12
<1> QED BY <1>1, <1>2

-----------------------------------------------------------------------------
(* A log played again                                                        *)

\* Nothing played makes a new match.
LEMMA ReachZero ==
  ASSUME NEW w, NEW l
  PROVE  Reaches(w, l, 0, Start(w))
<1> DEFINE r == [k \in 0 .. 0 |-> Start(w)]
<1>1. PlayRun(w, l, 0, r) /\ r[0] = Start(w)  BY DEF PlayRun
<1> QED BY <1>1 DEF Reaches

\* One record more is one step more.
LEMMA ReachNext ==
  ASSUME NEW w, NEW l, NEW n \in Nat, NEW v, Reaches(w, l, n, v)
  PROVE  Reaches(w, l, n + 1, PlayStep(v, l, n + 1))
<1>1. PICK r : PlayRun(w, l, n, r) /\ r[n] = v  BY DEF Reaches
<1> DEFINE g == [k \in 0 .. n + 1 |-> IF k <= n THEN r[k] ELSE PlayStep(r[n], l, n + 1)]
<1>2. g = [k \in 0 .. n + 1 |-> IF k = 0 THEN Start(w) ELSE PlayStep(g[k - 1], l, k)]
  <2>1. ASSUME NEW k \in 0 .. n + 1
        PROVE  g[k] = IF k = 0 THEN Start(w) ELSE PlayStep(g[k - 1], l, k)
    <3>1. CASE k = 0  BY <1>1, <3>1 DEF PlayRun
    <3>2. CASE k # 0 /\ k <= n
      <4>1. k \in 0 .. n /\ k - 1 \in 0 .. n /\ k - 1 <= n /\ k - 1 \in 0 .. n + 1  BY <3>2
      <4>2. g[k] = r[k] /\ g[k - 1] = r[k - 1]  BY <3>2, <4>1
      <4>3. r[k] = PlayStep(r[k - 1], l, k)  BY <1>1, <3>2, <4>1 DEF PlayRun
      <4> HIDE DEF g
      <4> QED BY <3>2, <4>2, <4>3
    <3>3. CASE k = n + 1
      <4>1. ~(k <= n) /\ k # 0 /\ k - 1 = n /\ n \in 0 .. n + 1 /\ n <= n  BY <3>3
      <4>2. g[k] = PlayStep(r[n], l, n + 1) /\ g[n] = r[n]  BY <4>1
      <4> HIDE DEF g
      <4> QED BY <3>3, <4>1, <4>2
    <3> QED BY <3>1, <3>2, <3>3
  <2> QED BY <2>1
<1>3. g[n + 1] = PlayStep(r[n], l, n + 1)
  <2>1. n + 1 \in 0 .. n + 1 /\ ~(n + 1 <= n)  OBVIOUS
  <2> QED BY <2>1
<1> HIDE DEF g
<1>4. PlayRun(w, l, n + 1, g)  BY <1>2 DEF PlayRun
<1>5. g[n + 1] = PlayStep(v, l, n + 1)  BY <1>1, <1>3
<1> QED BY <1>4, <1>5 DEF Reaches

\* Only the records played matter.
LEMMA ReachSame ==
  ASSUME NEW w, NEW l, NEW h, NEW n \in Nat, NEW v, Reaches(w, l, n, v),
         \A i \in 1 .. n : h[i] = l[i]
  PROVE  Reaches(w, h, n, v)
<1>1. PICK r : PlayRun(w, l, n, r) /\ r[n] = v  BY DEF Reaches
<1>2. ASSUME NEW x, NEW k \in 1 .. n PROVE PlayStep(x, h, k) = PlayStep(x, l, k)
  <2>1. [log |-> h].log[k] = l[k] /\ [log |-> l].log[k] = l[k]  OBVIOUS
  <2> QED BY <2>1 DEF PlayStep, Verifies, Compared
<1>3. r = [k \in 0 .. n |-> IF k = 0 THEN Start(w) ELSE PlayStep(r[k - 1], h, k)]
  <2>1. ASSUME NEW k \in 0 .. n
        PROVE  (IF k = 0 THEN Start(w) ELSE PlayStep(r[k - 1], l, k))
                 = (IF k = 0 THEN Start(w) ELSE PlayStep(r[k - 1], h, k))
    <3>1. k # 0 => k \in 1 .. n  OBVIOUS
    <3> QED BY <1>2, <3>1
  <2> QED BY <1>1, <2>1 DEF PlayRun
<1>4. PlayRun(w, h, n, r)  BY <1>3 DEF PlayRun
<1> QED BY <1>1, <1>4 DEF Reaches

\* A log makes one match.
LEMMA ReachUnique ==
  ASSUME NEW w, NEW l, NEW n \in Nat, NEW v, NEW u, Reaches(w, l, n, v), Reaches(w, l, n, u)
  PROVE  v = u
<1>1. PICK r : PlayRun(w, l, n, r) /\ r[n] = v  BY DEF Reaches
<1>2. PICK q : PlayRun(w, l, n, q) /\ q[n] = u  BY DEF Reaches
<1> DEFINE S == {i \in Nat : i <= n => r[i] = q[i]}
<1>3. 0 \in S  BY <1>1, <1>2 DEF PlayRun
<1>4. ASSUME NEW i \in Nat, i \in S PROVE i + 1 \in S
  <2> SUFFICES ASSUME i + 1 <= n PROVE r[i + 1] = q[i + 1]
    OBVIOUS
  <2>1. i + 1 \in 0 .. n /\ i + 1 # 0 /\ i + 1 - 1 = i /\ r[i] = q[i]  BY <1>4
  <2>2. r[i + 1] = PlayStep(r[i], l, i + 1)  BY <1>1, <2>1 DEF PlayRun
  <2>3. q[i + 1] = PlayStep(q[i], l, i + 1)  BY <1>2, <2>1 DEF PlayRun
  <2> QED BY <2>1, <2>2, <2>3
<1> HIDE DEF S
<1>5. \A i \in Nat : i \in S  BY <1>3, <1>4, Induction
<1>6. r[n] = q[n]  BY <1>5 DEF S
<1> QED BY <1>1, <1>2, <1>6

\* A coordinator that has the whole log need only compare.
LEMMA ReachRest ==
  ASSUME NEW w, NEW l, IsLog(l), NEW k \in Nat, k <= Len(l), NEW f, f.log = l, f.throws \in Nat,
         Reaches(w, l, k, Good(f))
  PROVE  Reaches(w, l, Len(l), Good(f))
<1>0. Len(l) \in Nat  BY LogIs
<1> DEFINE S == {i \in Nat : k + i <= Len(l) => Reaches(w, l, k + i, Good(f))}
<1>1. 0 \in S
  <2>1. k + 0 = k  OBVIOUS
  <2> QED BY <2>1
<1>2. ASSUME NEW i \in Nat, i \in S PROVE i + 1 \in S
  <2> SUFFICES ASSUME k + (i + 1) <= Len(l) PROVE Reaches(w, l, k + (i + 1), Good(f))
    OBVIOUS
  <2> DEFINE j == k + i
  <2>1. j \in Nat /\ k + (i + 1) = j + 1 /\ j + 1 <= Len(l) /\ j <= Len(l)  BY <1>0
  <2>2. Reaches(w, l, j, Good(f))  BY <1>2, <2>1
  <2> HIDE DEF j
  <2>3. PlayStep(Good(f), l, j + 1) = Good(f)
    <3>1. Good(f).ok = TRUE /\ Good(f).entry = f  BY DEF Good
    <3>2. ~Threw(f, f)  BY DEF Threw
    <3>3. PlayStep(Good(f), l, j + 1) = Compared(Good(f), f, [log |-> l], j + 1)
      BY <2>1, <3>1 DEF PlayStep, Verifies
    <3>4. Compared(Good(f), f, [log |-> l], j + 1)
            = [entry |-> f, ok |-> ~Threw(f, f) /\ j + 1 <= Len(l) /\ l[j + 1] = l[j + 1]]
      BY <3>1 DEF Compared
    <3>5. (~Threw(f, f) /\ j + 1 <= Len(l) /\ l[j + 1] = l[j + 1]) = TRUE
      BY <2>1, <3>2
    <3> QED BY <3>3, <3>4, <3>5 DEF Good
  <2>4. Reaches(w, l, j + 1, Good(f))
    <3>1. Reaches(w, l, j + 1, PlayStep(Good(f), l, j + 1))  BY <2>1, <2>2, ReachNext
    <3> QED BY <2>3, <3>1
  <2> QED BY <2>1, <2>4
<1> HIDE DEF S
<1>3. \A i \in Nat : i \in S  BY <1>1, <1>2, Induction
<1>4. Len(l) - k \in Nat /\ k + (Len(l) - k) = Len(l)  BY <1>0
<1> QED
  <2>1. Len(l) - k \in S  BY <1>3, <1>4
  <2> QED BY <1>4, <2>1 DEF S

\* An operation made again makes the rest of the log.
LEMMA PlayOperation ==
  ASSUME NEW w, NEW l, IsLog(l), NEW k \in Nat \ {0}, k <= Len(l), NEW g,
         Reaches(w, l, k - 1, Good(g)), Len(g.log) = k - 1, ~Terminal(g), g.throws = 0,
         NEW op, op = l[k].op, External(op), NEW f, f = Replayed(g, op), f.log = l, f.throws = 0
  PROVE  Reaches(w, l, Len(l), Good(f))
<1>1. PlayStep(Good(g), l, k) = Good(f)
  <2>1. Good(g).ok = TRUE /\ Good(g).entry = g  BY DEF Good
  <2>2. ~Threw(g, f)  BY DEF Threw
  <2>3. ~(k <= Len(g.log))  OBVIOUS
  <2>4. PlayStep(Good(g), l, k) = Compared(Good(g), f, [log |-> l], k)
    BY <2>1, <2>3 DEF PlayStep, Verifies
  <2>5. Compared(Good(g), f, [log |-> l], k)
          = [entry |-> f, ok |-> ~Threw(g, f) /\ k <= Len(l) /\ l[k] = l[k]]
    BY <2>1 DEF Compared
  <2>6. (~Threw(g, f) /\ k <= Len(l) /\ l[k] = l[k]) = TRUE  BY <2>2
  <2> QED BY <2>4, <2>5, <2>6 DEF Good
<1>2. k - 1 \in Nat /\ k - 1 + 1 = k  OBVIOUS
<1>3. Reaches(w, l, k - 1 + 1, PlayStep(Good(g), l, k - 1 + 1))  BY <1>2, ReachNext
<1>4. Reaches(w, l, k, Good(f))  BY <1>1, <1>2, <1>3
<1> QED BY <1>4, ReachRest

-----------------------------------------------------------------------------
(* A log that makes its match                                                *)

\* A new match has an empty log.
LEMMA WholeCreate ==
  ASSUME NEW w, NEW e, e = Create(w)
  PROVE  Whole(e)
<1>1. e.log = <<>> /\ Len(e.log) = 0 /\ e.world = w  BY DEF Create
<1>2. Start(w) = Good(e)  BY DEF Start, Good
<1>3. Reaches(w, <<>>, 0, Good(e))  BY <1>2, ReachZero
<1> QED BY <1>1, <1>3 DEF Whole

\* A tick keeps the log whole.
LEMMA WholeTick ==
  ASSUME NEW e, Proper(e), Whole(e), Goes(e), NEW f, f = AdvanceOnce(e)
  PROVE  Whole(f)
<1> SUFFICES ASSUME f.throws = 0
    PROVE  /\ Reaches(f.world, f.log, Len(f.log), Good(f))
           /\ Len(f.log) # 0 /\ f.log[Len(f.log)].op.kind = "ticks" => \E g, c : Counts(f, g, c)
  BY DEF Whole
<1>1. Onward(e, f) /\ \E k : Ticked(e.log, f.log, k)  BY AdvanceOnceIs
<1>2. PICK k : Ticked(e.log, f.log, k)  BY <1>1
<1> DEFINE l == f.log
           w == e.world
<1>3. /\ e.throws = 0 /\ f.world = w /\ IsLog(e.log) /\ Len(e.log) \in Nat /\ IsLog(l) /\ Len(l) \in Nat
      /\ k \in Nat \ {0} /\ k <= Len(l) /\ \A i \in 1 .. k - 1 : l[i] = e.log[i]
      /\ \A i \in k + 1 .. Len(l) : l[i].op.kind # "ticks"
  BY <1>1, <1>2, LogIs DEF Onward, Proper, Ticked
<1>4. \E g, c : /\ c \in Nat \ {0} /\ l[k].op = Ticks(c) /\ Reaches(w, l, k - 1, Good(g))
                /\ Len(g.log) = k - 1 /\ ~Terminal(g) /\ g.throws = 0 /\ f = Advance(g, c)
  <2>1. CASE k = Len(e.log) + 1 /\ l[k].op = Ticks(1)
    <3>1. k - 1 = Len(e.log)  BY <1>3, <2>1
    <3>2. Reaches(w, e.log, k - 1, Good(e))  BY <1>3, <3>1 DEF Whole
    <3>3. k - 1 \in Nat  BY <1>3
    <3>4. Reaches(w, l, k - 1, Good(e))  BY <1>3, <3>2, <3>3, ReachSame
    <3>5. f = Advance(e, 1)
      <4>1. Advance(e, 0) = e /\ Advance(e, 0 + 1) = AdvanceStep(e, Advance(e, 0))  BY AdvanceNext
      <4>2. ~Threw(e, e)  BY <1>3 DEF Threw
      <4>3. AdvanceStep(e, e) = f  BY <4>2 DEF AdvanceStep
      <4>4. 0 + 1 = 1  OBVIOUS
      <4> QED BY <4>1, <4>3, <4>4
    <3>6. ~Terminal(e)  BY DEF Goes
    <3> QED BY <1>3, <2>1, <3>1, <3>4, <3>5, <3>6
  <2>2. CASE k = Len(e.log) /\ e.log[k].op.kind = "ticks" /\ l[k].op = Ticks(e.log[k].op.count + 1)
    <3>1. PICK g, c : Counts(e, g, c)  BY <1>3, <2>2 DEF Whole
    <3>2. /\ c \in Nat \ {0} /\ e.log[k].op = Ticks(c) /\ Reaches(w, e.log, k - 1, Good(g))
          /\ Len(g.log) = k - 1 /\ ~Terminal(g) /\ g.throws = 0 /\ e = Advance(g, c)
      BY <2>2, <3>1 DEF Counts
    <3>3. e.log[k].op.count = c  BY <3>2 DEF Ticks
    <3>4. l[k].op = Ticks(c + 1) /\ c + 1 \in Nat \ {0}  BY <2>2, <3>2, <3>3
    <3>5. k - 1 \in Nat  BY <1>3
    <3>6. Reaches(w, l, k - 1, Good(g))
      <4>1. Reaches(w, e.log, k - 1, Good(g)) /\ \A i \in 1 .. k - 1 : l[i] = e.log[i]
        BY <1>3, <3>2
      <4> HIDE DEF w, l
      <4> QED BY <3>5, <4>1, ReachSame
    <3>7. f = Advance(g, c + 1)
      <4>1. Advance(g, c + 1) = AdvanceStep(g, Advance(g, c))  BY <3>2, AdvanceNext
      <4>2. ~Threw(g, e)  BY <1>3, <3>2 DEF Threw
      <4>3. AdvanceStep(g, e) = f  BY <4>2 DEF AdvanceStep
      <4> QED BY <3>2, <4>1, <4>3
    <3> QED BY <3>2, <3>4, <3>6, <3>7
  <2> QED BY <1>2, <2>1, <2>2 DEF Ticked
<1>5. PICK g, c : /\ c \in Nat \ {0} /\ l[k].op = Ticks(c) /\ Reaches(w, l, k - 1, Good(g))
                  /\ Len(g.log) = k - 1 /\ ~Terminal(g) /\ g.throws = 0 /\ f = Advance(g, c)
  BY <1>4
<1>6. Reaches(w, l, Len(l), Good(f))
  <2> DEFINE op == l[k].op
  <2>1. op.kind = "ticks" /\ op.count = c  BY <1>5 DEF Ticks
  <2>2. External(op)  BY <2>1 DEF External
  <2>3. f = Replayed(g, op)  BY <1>5, <2>1 DEF Replayed
  <2>4. op = l[k].op /\ f.log = l  OBVIOUS
  <2> HIDE DEF op, l, w
  <2> QED BY <1>3, <1>5, <2>2, <2>3, <2>4, PlayOperation
<1>7. ASSUME l[Len(l)].op.kind = "ticks" PROVE Counts(f, g, c)
  <2>1. k = Len(l)
    <3>1. k # Len(l) => Len(l) \in k + 1 .. Len(l)  BY <1>3
    <3> QED BY <1>3, <1>7, <3>1
  <2> QED BY <1>3, <1>5, <2>1 DEF Counts
<1> QED BY <1>3, <1>6, <1>7

\* An operation that is recorded, and is the same when it is made again.
LEMMA WholeOperation ==
  ASSUME NEW e, Proper(e), Whole(e), ~Terminal(e), NEW f, Onward(e, f), f.throws = e.throws,
         Extended(e.log, f.log), Len(f.log) > Len(e.log),
         NEW op, f.log[Len(e.log) + 1].op = op, External(op), f = Replayed(e, op)
  PROVE  Whole(f)
<1> SUFFICES ASSUME f.throws = 0
    PROVE  /\ Reaches(f.world, f.log, Len(f.log), Good(f))
           /\ Len(f.log) # 0 /\ f.log[Len(f.log)].op.kind = "ticks" => \E g, c : Counts(f, g, c)
  BY DEF Whole
<1> DEFINE l == f.log
           w == e.world
           k == Len(e.log) + 1
<1>1. /\ e.throws = 0 /\ f.world = w /\ Len(e.log) \in Nat /\ IsLog(l) /\ Len(l) \in Nat
      /\ k \in Nat \ {0} /\ k - 1 = Len(e.log) /\ k - 1 \in Nat /\ k <= Len(l)
  BY LogIs DEF Onward, Proper
<1>2. \A i \in 1 .. k - 1 : l[i] = e.log[i]  BY <1>1 DEF Extended
<1>3. Reaches(w, e.log, k - 1, Good(e))  BY <1>1 DEF Whole
<1>4. Reaches(w, l, k - 1, Good(e))  BY <1>1, <1>2, <1>3, ReachSame
<1>5. Reaches(w, l, Len(l), Good(f))
  <2>1. op = l[k].op /\ f.log = l /\ Len(e.log) = k - 1  BY <1>1
  <2> HIDE DEF l, w, k
  <2> QED BY <1>1, <1>4, <2>1, PlayOperation
<1>6. l[Len(l)].op.kind # "ticks"
  <2>1. Len(l) \in Len(e.log) + 1 .. Len(l)  BY <1>1
  <2> QED BY <2>1 DEF Extended
<1> QED BY <1>1, <1>5, <1>6

\* A safety stop keeps it whole.
LEMMA WholeSafety ==
  ASSUME NEW e, Proper(e), Whole(e), NEW reason, NEW f, f = Safety(e, reason)
  PROVE  Whole(f)
<1>1. CASE Terminal(e)  BY <1>1 DEF Safety
<1>2. CASE ~Terminal(e)
  <2> DEFINE g == [e EXCEPT !.unavailable = reason # "left", !.paused = FALSE]
             op == [kind |-> "safety", reason |-> reason]
             m == ForceLimit(e.match)
  <2>1. f = Accept(g, op, m)  BY <1>2 DEF Safety
  <2>2. /\ DOMAIN g = Parts /\ g.world = e.world /\ g.match = e.match /\ g.log = e.log
        /\ g.throws = e.throws /\ g.script = e.script /\ g.ai = e.ai
    BY DEF Proper, Parts
  <2> HIDE DEF g
  <2>3. Proper(g)  BY <2>2 DEF Proper
  <2>4. Kept(e.match, m) /\ e.match.epoch < m.epoch
    <3>1. Sound(e.match) /\ e.match.phase # "finished"  BY <1>2 DEF Proper, Terminal
    <3> QED BY <3>1, ForceLimitIs
  <2>5. op.kind = "safety" /\ op.kind # "ticks" /\ op.reason = reason  OBVIOUS
  <2>6. External(op) /\ f = Replayed(e, op)  BY <2>5 DEF External, Replayed
  <2> HIDE DEF op, m
  <2>7. Kept(g.match, m) /\ (Boundary(op) => g.match.epoch < m.epoch)  BY <2>2, <2>4
  <2>8. op.kind # "ticks" => /\ Extended(g.log, f.log) /\ Len(f.log) > Len(g.log)
                             /\ f.log[Len(g.log) + 1].op = op
    BY <2>1, <2>3, <2>7, AcceptIs
  <2>9. Onward(e, f) /\ f.throws = e.throws  BY SafetyIs DEF Plainly
  <2> QED BY <1>2, <2>2, <2>5, <2>6, <2>8, <2>9, WholeOperation
<1> QED BY <1>1, <1>2

\* A barrier the owner's side asks for; ticks that are due only forbid.
LEMMA WholeBarrier ==
  ASSUME NEW e, Proper(e), Whole(e), NEW b, b.kind = "barrier", b.actor = "player", NEW d,
         NEW f, f = ApplyBarrier(e, b, d)
  PROVE  Whole(f)
<1>0. Plainly(e, f)  BY ApplyBarrierIs
<1>1. External(b) /\ Replayed(e, b) = ApplyBarrier(e, b, 0) /\ b.kind # "ticks"
  BY DEF External, Replayed
<1>2. Pausable(e, b, d) => Pausable(e, b, 0)  BY DEF Pausable
<1>3. CASE Pausing(b) /\ ~Pausable(e, b, d)  BY <1>3 DEF ApplyBarrier
<1>4. CASE ~(Pausing(b) /\ ~Pausable(e, b, d))
  <2>1. f = ApplyBarrier(e, b, 0)  BY <1>2, <1>4 DEF ApplyBarrier
  <2>2. \/ f = e \/ f = Safety(e, "lifecycle_limit")
        \/ \E m : f = Accept(e, b, m) /\ Kept(e.match, m) /\ e.match.epoch < m.epoch /\ ~Terminal(e)
    <3>1. CASE b.reason = "resume" /\ AtPlayersLeap(e, b)
      <4>1. CASE e.match.barriers >= MaxBarriers  BY <1>4, <3>1, <4>1 DEF ApplyBarrier
      <4>2. CASE ~(e.match.barriers >= MaxBarriers)
        <5> DEFINE m == ResumedLeap(e.match)
        <5>1. f = Accept(e, b, m)  BY <1>4, <3>1, <4>2 DEF ApplyBarrier
        <5>2. Sound(e.match) /\ Moves(e.match) /\ e.match.barriers < MaxBarriers /\ ~Terminal(e)
          <6>1. Sound(e.match) /\ e.match.phase = "action"  BY <3>1 DEF Proper, AtPlayersLeap
          <6>2. e.match.barriers \in Nat /\ MaxBarriers \in Nat  BY <6>1, Positive DEF Sound, Typed
          <6> QED BY <4>2, <6>1, <6>2 DEF Moves, Terminal
        <5>3. Kept(e.match, m) /\ e.match.epoch < m.epoch
          BY <5>2, ResumedLeapIs DEF ResumedLeap
        <5> QED BY <5>1, <5>2, <5>3
      <4> QED BY <4>1, <4>2
    <3>2. CASE ~(b.reason = "resume" /\ AtPlayersLeap(e, b))
      <4> DEFINE ans == Barrier(e.match, b)
      <4>1. f = Answered(e, b, ans)  BY <1>4, <3>2 DEF ApplyBarrier
      <4>2. Sound(e.match)  BY DEF Proper
      <4>3. /\ ans.verdict = "done" => Kept(e.match, ans.match) /\ e.match.epoch < ans.match.epoch
            /\ ans.verdict \in {"done", "lifecycle_limit"} => e.match.phase # "finished"
        BY <4>2, BarrierIs
      <4> HIDE DEF ans
      <4>4. CASE ans.verdict = "done"  BY <4>1, <4>3, <4>4 DEF Answered, Terminal
      <4>5. CASE ans.verdict # "done"  BY <4>1, <4>5 DEF Answered
      <4> QED BY <4>4, <4>5
    <3> QED BY <3>1, <3>2
  <2>3. CASE f = e  BY <2>3
  <2>4. CASE f = Safety(e, "lifecycle_limit")  BY <2>4, WholeSafety
  <2>5. ASSUME NEW m, f = Accept(e, b, m), Kept(e.match, m), e.match.epoch < m.epoch, ~Terminal(e)
        PROVE  Whole(f)
    <3>1. b.kind # "ticks" => /\ Extended(e.log, f.log) /\ Len(f.log) > Len(e.log)
                              /\ f.log[Len(e.log) + 1].op = b
      BY <2>5, AcceptIs
    <3> QED BY <1>0, <1>1, <2>1, <2>5, <3>1, WholeOperation DEF Plainly
  <2> QED BY <2>2, <2>3, <2>4, <2>5
<1> QED BY <1>3, <1>4

\* So does an intent of the owner.
LEMMA WholeApply ==
  ASSUME NEW e, Proper(e), Whole(e), NEW i \in Intents, NEW seen,
         NEW f, f = Apply(e, IntentOp("player", i, seen))
  PROVE  Whole(f)
<1> DEFINE op == IntentOp("player", i, seen)
           ans == Intent(e.match, "player", i, seen)
           b == [kind |-> "barrier", reason |-> "intent_limit", actor |-> op.actor,
                 turn |-> op.seen.turn, epoch |-> op.seen.epoch]
<1>1. op.kind = "intent" /\ op.actor = "player" /\ op.intent = i /\ op.seen = seen
  BY DEF IntentOp
<1>2. f = IF e.paused THEN e ELSE Intended(e, op, ans)
  BY <1>1 DEF Apply
<1>3. /\ ans.verdict \in {"done", "rejected", "intent_limit"}
      /\ ans.verdict = "done" => Kept(e.match, ans.match)
      /\ ans.verdict # "rejected" => Current(e.match, "player", seen)
  <2>1. Sound(e.match)  BY DEF Proper
  <2> QED BY <2>1, IntentIs
<1>4. CASE e.paused \/ ans.verdict = "rejected"
  <2>1. f = e  BY <1>2, <1>4 DEF Intended, Answered
  <2> QED BY <2>1
<1>5. CASE ~e.paused /\ ans.verdict = "intent_limit"
  <2>1. f = ApplyBarrier(e, b, 0)  BY <1>2, <1>5 DEF Intended
  <2>2. b.kind = "barrier" /\ b.actor = "player"  BY <1>1
  <2> HIDE DEF b
  <2> QED BY <2>1, <2>2, WholeBarrier
<1>6. CASE ~e.paused /\ ans.verdict = "done"
  <2>1. f = Accept(e, op, ans.match)  BY <1>2, <1>6 DEF Intended, Answered
  <2>2. ~Terminal(e)  BY <1>3, <1>6 DEF Current, Terminal
  <2>3. External(op) /\ f = Replayed(e, op) /\ op.kind # "ticks" /\ ~Boundary(op)
    BY <1>1 DEF External, Replayed, Boundary
  <2>4. Kept(e.match, ans.match)  BY <1>3, <1>6
  <2> DEFINE m == ans.match
  <2> HIDE DEF op, ans, m
  <2>7. f = Accept(e, op, m) /\ Kept(e.match, m) /\ (Boundary(op) => e.match.epoch < m.epoch)
    BY <2>1, <2>3, <2>4 DEF m
  <2>5. /\ Onward(e, f) /\ Beside(e, f)
        /\ op.kind # "ticks" => /\ Extended(e.log, f.log) /\ Len(f.log) > Len(e.log)
                                /\ f.log[Len(e.log) + 1].op = op
    BY <2>7, AcceptIs
  <2>6. f.throws = e.throws  BY <2>5 DEF Beside
  <2> QED BY <2>2, <2>3, <2>5, <2>6, WholeOperation
<1> QED BY <1>3, <1>4, <1>5, <1>6

\* Any number of ticks.
LEMMA AdvanceIs ==
  ASSUME NEW e, Proper(e), NEW n \in Nat, NEW f, f = Advance(e, n)
  PROVE  /\ Onward(e, f) /\ Silent(e.log, f.log) /\ f.paused = e.paused
         /\ Whole(e) => Whole(f)
<1> DEFINE Q(g) == /\ Onward(e, g) /\ Silent(e.log, g.log) /\ g.paused = e.paused
                   /\ Whole(e) => Whole(g)
           S == {i \in Nat : Q(Advance(e, i))}
<1>1. 0 \in S
  <2>1. Advance(e, 0) = e  BY AdvanceNext
  <2>2. Q(e)  BY PlainlyRefl DEF Plainly
  <2> HIDE DEF Q
  <2> QED BY <2>1, <2>2
<1>2. ASSUME NEW i \in Nat, i \in S PROVE i + 1 \in S
  <2> DEFINE g == Advance(e, i)
             h == AdvanceOnce(g)
  <2>1. Advance(e, i + 1) = AdvanceStep(e, g)  BY AdvanceNext
  <2>2. Q(g)  BY <1>2
  <2> HIDE DEF g
  <2>3. Proper(g)  BY <2>2 DEF Onward
  <2>4. /\ Onward(g, h) /\ Silent(g.log, h.log) /\ h.paused = g.paused
    BY <2>3, AdvanceOnceIs
  <2>5. Whole(g) => Whole(h)
    <3>1. CASE Goes(g)  BY <2>3, <3>1, WholeTick
    <3>2. CASE ~Goes(g)  BY <3>2 DEF AdvanceOnce, Goes
    <3> QED BY <3>1, <3>2
  <2> HIDE DEF h
  <2>6. Onward(e, h) /\ Silent(e.log, h.log)  BY <2>2, <2>4, OnwardTrans
  <2>7. Q(h)  BY <2>2, <2>4, <2>5, <2>6
  <2>8. AdvanceStep(e, g) = g \/ AdvanceStep(e, g) = h  BY DEF AdvanceStep, h
  <2>9. i + 1 \in Nat  OBVIOUS
  <2> HIDE DEF Q
  <2> QED BY <2>1, <2>2, <2>7, <2>8, <2>9
<1> HIDE DEF S
<1>3. \A i \in Nat : i \in S  BY <1>1, <1>2, Induction
<1>4. Q(Advance(e, n))
  <2> HIDE DEF Q
  <2> QED BY <1>3 DEF S
<1> QED BY <1>4

\* A catch-up keeps it whole, and owes no more than the debt allowed.
LEMMA PumpIs ==
  ASSUME NEW e, Proper(e), NEW d \in Nat, NEW p, p = Pump(e, d)
  PROVE  /\ Onward(e, p.entry) /\ Silent(e.log, p.entry.log) /\ (Whole(e) => Whole(p.entry))
         /\ p.due \in Nat /\ (~Terminal(e) /\ ~e.paused => p.due <= Debt)
         /\ (Terminal(e) \/ e.paused => p.entry = e /\ p.due = d)
<1>1. CASE e.paused \/ Terminal(e)
  <2>1. p = [entry |-> e, due |-> d]  BY <1>1 DEF Pump
  <2>2. p.entry = e /\ p.due = d  BY <2>1
  <2> QED BY <1>1, <2>2, PlainlyRefl DEF Plainly
<1>2. CASE ~(e.paused \/ Terminal(e)) /\ d > Debt
  <2> DEFINE f == Safety(e, "expiry")
  <2>1. p = [entry |-> f, due |-> 0]  BY <1>2 DEF Pump
  <2>2. Plainly(e, f) /\ (Whole(e) => Whole(f))  BY SafetyIs, WholeSafety
  <2> HIDE DEF f
  <2>3. p.entry = f /\ p.due = 0  BY <2>1
  <2> QED BY <1>2, <2>2, <2>3, MatchAssumption DEF Plainly
<1>3. CASE ~(e.paused \/ Terminal(e)) /\ ~(d > Debt)
  <2> DEFINE n == Least(Batch, d)
             f == Advance(e, n)
  <2>1. p = [entry |-> f, due |-> Lost(d, Batch)]  BY <1>3 DEF Pump
  <2>2. n \in Nat  BY MatchAssumption DEF Least
  <2>3. /\ Onward(e, f) /\ Silent(e.log, f.log) /\ f.paused = e.paused
        /\ Whole(e) => Whole(f)
    BY <2>2, AdvanceIs
  <2>4. Lost(d, Batch) \in Nat /\ Lost(d, Batch) <= Debt  BY <1>3, MatchAssumption DEF Lost
  <2> HIDE DEF f, n
  <2>5. p.entry = f /\ p.due = Lost(d, Batch)  BY <2>1
  <2> QED BY <1>3, <2>3, <2>4, <2>5
<1> QED BY <1>1, <1>2, <1>3

\* A match that is over answers nothing.
LEMMA OverIs ==
  ASSUME NEW e, Proper(e), Terminal(e), NEW b, b.kind = "barrier", NEW d
  PROVE  ApplyBarrier(e, b, d) = e
<1>1. ~AtPlayersLeap(e, b)  BY DEF AtPlayersLeap, Terminal
<1>2. Barrier(e.match, b).verdict = "unchanged"
  <2>1. ~StopsLeap(e.match, b) /\ ~Meets(e.match, b)  BY DEF StopsLeap, Meets, Terminal
  <2>2. Barrier(e.match, b) = Answer("unchanged", e.match)  BY <2>1 DEF Barrier
  <2> QED BY <2>2 DEF Answer
<1>3. Answered(e, b, Barrier(e.match, b)) = e  BY <1>2 DEF Answered
<1> QED BY <1>1, <1>3 DEF ApplyBarrier

\* What fits a match fits what becomes of it.
LEMMA FitsOnward ==
  ASSUME NEW e, Proper(e), NEW f, Onward(e, f), NEW r, Fits(r, e)
  PROVE  Fits(r, f)
<1>1. e.match.epoch \in Nat /\ f.match.epoch \in Nat  BY DEF Onward, Proper, Sound, Typed
<1> QED BY <1>1 DEF Fits, Onward

\* What the rest of a handler makes of the match.
LEMMA HandledIs ==
  ASSUME NEW e, Proper(e), NEW r, Fits(r, e), NEW f, f = Handled(e, r)
  PROVE  /\ Onward(e, f) /\ Extended(e.log, f.log) /\ f.throws = e.throws
         /\ Whole(e) => Whole(f)
         /\ r.kind # "intent" /\ Terminal(e) => f = e
         /\ \A k \in Len(e.log) + 1 .. Len(f.log) :
              Theirs(f.log[k].op) => /\ k = Len(e.log) + 1 /\ r.seen = Seen(e.match)
                                     /\ r.kind = "intent"
<1>1. CASE r.kind = "intent"
  <2>1. f = Apply(e, IntentOp("player", r.intent, r.seen)) /\ r.intent \in Intents
    BY <1>1 DEF Handled, Fits
  <2>2. /\ Onward(e, f) /\ Extended(e.log, f.log) /\ f.throws = e.throws
        /\ \A k \in Len(e.log) + 1 .. Len(f.log) :
             Theirs(f.log[k].op) => k = Len(e.log) + 1 /\ r.seen = Seen(e.match)
    <3> DEFINE i == r.intent
               seen == r.seen
    <3>1. f = Apply(e, IntentOp("player", i, seen)) /\ i \in Intents  BY <2>1
    <3> HIDE DEF i
    <3>2. Proper(e)  OBVIOUS
    <3> HIDE DEF seen
    <3>3. /\ Onward(e, f) /\ Extended(e.log, f.log) /\ f.throws = e.throws
          /\ \A k \in Len(e.log) + 1 .. Len(f.log) :
               Theirs(f.log[k].op) => k = Len(e.log) + 1 /\ seen = Seen(e.match)
      BY ONLY <3>1, <3>2, ApplyIs
    <3> QED BY <3>3 DEF seen
  <2>3. Whole(e) => Whole(f)  BY <2>1, WholeApply
  <2> QED BY <1>1, <2>2, <2>3
<1>2. CASE r.kind # "intent" /\ ~Applies(e, r)
  <2>1. f = e  BY <1>2 DEF Handled
  <2>2. Plainly(e, e)  BY PlainlyRefl
  <2> QED BY <1>2, <2>1, <2>2 DEF Plainly, Silent
<1>3. CASE r.kind # "intent" /\ Applies(e, r)
  <2> DEFINE b == BarrierOp(r.kind, "player", e.match)
  <2>1. f = ApplyBarrier(e, b, 0) /\ b.kind = "barrier" /\ b.actor = "player"
    BY <1>3 DEF Handled, BarrierOp
  <2> HIDE DEF b
  <2>2. Plainly(e, f) /\ (Whole(e) => Whole(f))  BY <2>1, ApplyBarrierIs, WholeBarrier
  <2>3. Terminal(e) => f = e  BY <2>1, OverIs
  <2> QED BY <1>3, <2>2, <2>3 DEF Plainly, Silent
<1> QED BY <1>1, <1>2, <1>3

-----------------------------------------------------------------------------
(* The script and the match it was made for                                  *)

\* Thinking leaves a script that is of this turn.
LEMMA ThinkTuned ==
  ASSUME NEW e, Proper(e), Tuned(e), NEW t, t = Think(e)
  PROVE  Tuned(t)
<1> DEFINE fresh == e.ai.turn # e.match.turn
           ai == IF fresh THEN [NoThought EXCEPT !.turn = e.match.turn] ELSE e.ai
           aj == IF ai.elapsed >= PlanTicks THEN ai
                 ELSE [ai EXCEPT !.elapsed = @ + 1,
                                 !.failed = \/ @
                                            \/ e.world.plan.status = "work_failure"]
<1>1. CASE ~LoomsTurn(e.match)
  <2>1. t = e  BY <1>1 DEF Think
  <2> QED BY <2>1
<1>2. CASE LoomsTurn(e.match)
  <2>0. DOMAIN e = Parts /\ DOMAIN e.ai = {"turn", "elapsed", "failed"}  BY DEF Proper
  <2>1. t = [e EXCEPT !.script = IF fresh THEN <<>> ELSE @, !.ai = aj]
    BY <1>2 DEF Think
  <2>2. aj.turn = e.match.turn
    <3>1. ai.turn = e.match.turn /\ "turn" \in DOMAIN ai  BY <2>0 DEF NoThought
    <3> HIDE DEF ai
    <3> QED BY <3>1
  <2> HIDE DEF aj
  <2>3. /\ t.script = (IF fresh THEN <<>> ELSE e.script) /\ t.match = e.match
        /\ t.plans = e.plans /\ t.ai = aj
    BY <2>0, <2>1 DEF Parts
  <2>4. CASE fresh
    <3>1. ~Scripted(e)  BY <2>4 DEF Tuned, Timely, Chosen
    <3>2. Begun(t.match)  BY <1>2, <2>3, <3>1 DEF Tuned, Timely
    <3>3. t.script = <<>>  BY <2>3, <2>4
    <3> QED BY <2>3, <3>2, <3>3 DEF Tuned, Timely, Scripted
  <2>5. CASE ~fresh
    <3>1. t.script = e.script  BY <2>3, <2>5
    <3> QED BY <2>2, <2>3, <3>1 DEF Tuned, Timely, Scripted, Chosen
  <2> QED BY <2>4, <2>5
<1> QED BY <1>1, <1>2

\* A turn in which nothing has been done is still one after a tick, and so is
\* a turn that begins.
LEMMA BegunTick ==
  ASSUME NEW b, Sound(b), NEW g, Sound(g), Course(b, g), Begins(b, g) => ~g.utility,
         LoomsTurn(b) => Begun(b) \/ g.turn # b.turn, LoomsTurn(g)
  PROVE  Begun(g)
<1>1. CASE Begins(b, g)  BY <1>1 DEF Begins, Begun, Ready
<1>2. CASE Holds(b, g)
  <2>1. LoomsTurn(b) /\ g.turn = b.turn  BY <1>2 DEF LoomsTurn, Holds, Kin
  <2>2. Begun(b)  BY <2>1
  <2>3. g.held = b.held
    <3>1. b.held = 0  BY <2>2 DEF Begun, Ready
    <3>2. b.lease = Never  BY <3>1 DEF Sound, InputValid
    <3> QED BY <1>2, <3>2 DEF Holds
  <2>4. Steady(g) /\ g.phase = b.phase /\ g.utility = b.utility /\ g.intents = b.intents
    BY <1>2, <2>2 DEF Holds, Kin, Begun
  <2> QED BY <2>2, <2>3, <2>4 DEF Begun, Ready
<1>3. CASE Shifts(b, g)  BY <1>3 DEF Shifts, LoomsTurn
<1>4. CASE Ends(b, g)  BY <1>4 DEF Ends, LoomsTurn
<1> QED BY <1>1, <1>2, <1>3, <1>4 DEF Course

\* After a tick the match is over, or the script has at most six operations to
\* make.
LEMMA TickAlert ==
  ASSUME NEW e, Proper(e), ~Terminal(e), Tuned(e), NEW g, g = Tick(e.world, e.match),
         NEW f, f.match = g, f.script = e.script, f.ai = e.ai, f.plans = e.plans
  PROVE  Terminal(f) \/ Alert(f, 6)
<1> DEFINE b == e.match
<1>1. /\ Sound(b) /\ Sound(g) /\ Course(b, g) /\ (Begins(b, g) => ~g.utility)
      /\ g.tick = b.tick + 1
  <2>1. e.world \in World /\ Sound(b) /\ b.phase # "finished"  BY DEF Proper, Terminal
  <2> HIDE DEF b
  <2>2. g = Tick(e.world, b)  BY DEF b
  <2> QED BY <2>1, <2>2, TickIs
<1>2. b.turn \in Nat /\ g.turn \in Nat  BY <1>1 DEF Sound, Typed
<1> SUFFICES ASSUME ~Terminal(f)
             PROVE  Alert(f, 6)
  OBVIOUS
<1>3. ~Ends(b, g)  BY DEF Terminal, Ends
<1>4. g.turn = b.turn \/ (Begins(b, g) /\ g.turn = b.turn + 1)
  BY <1>1, <1>3 DEF Course, Holds, Shifts, Kin, Begins
<1>5. e.script # <<>> => e.script[1].turn \in Nat /\ e.script[1].turn <= b.turn
  BY DEF Tuned, Timely
<1>6. ASSUME Scripted(f)
      PROVE  Scripted(e) /\ g.turn = b.turn /\ Chosen(f) /\ Busy(f.script[1], f.match, 6)
  <2>1. g.turn = b.turn  BY <1>2, <1>4, <1>5, <1>6 DEF Scripted
  <2>2. Scripted(e)  BY <1>6, <2>1 DEF Scripted
  <2>3. Chosen(e) /\ Rests(e.script[1], b)  BY <2>2 DEF Tuned, Timely
  <2>4. Chosen(f)  BY <2>1, <2>3 DEF Chosen
  <2>5. ~Begins(b, g)  BY <1>2, <2>1 DEF Begins
  <2>6. Busy(e.script[1], g, 6)
    <3> DEFINE c == e.script[1]
    <3>1. Rests(c, b)  BY <2>3
    <3> HIDE DEF c, b
    <3>2. Busy(c, g, 6)  BY <1>1, <1>3, <2>5, <3>1, RestsTick
    <3> QED BY <3>2 DEF c
  <2> QED BY <2>1, <2>2, <2>4, <2>6
<1>7. ASSUME ~Scripted(f), LoomsTurn(g)
      PROVE  Begun(g)
  <2>1. LoomsTurn(b) => Begun(b) \/ g.turn # b.turn
    <3>1. CASE Scripted(e)  BY <1>7, <3>1 DEF Scripted
    <3>2. CASE ~Scripted(e)  BY <3>2 DEF Tuned, Timely
    <3> QED BY <3>1, <3>2
  <2> HIDE DEF b
  <2> QED BY <1>1, <1>7, <2>1, BegunTick
<1>8. f.script # <<>> => f.script[1].turn \in Nat /\ f.script[1].turn <= g.turn
  BY <1>2, <1>4, <1>5
<1>9. IsLog(f.plans)  BY DEF Tuned, Timely
<1> QED BY <1>6, <1>7, <1>8, <1>9 DEF Alert, Timely

\* The script of a new plan is pending.
LEMMA ChooseAlert ==
  ASSUME NEW e, Proper(e), Alert(e, 6), NEW t, t = Choose(e)
  PROVE  Alert(t, 6)
<1> DEFINE s == Selection(e)
           ask == /\ LoomsTurn(e.match) /\ e.ai.turn = e.match.turn
                  /\ e.ai.elapsed = PlanTicks
                  /\ \A i \in DOMAIN e.plans : e.plans[i].turn # e.match.turn
           record == [turn |-> e.match.turn, status |-> s.status]
           c == Script(e.world.plan, s.prefix, e.match.turn)
           m == e.match
<1>1. CASE ~ask
  <2>1. t = e  BY <1>1 DEF Choose
  <2> QED BY <2>1
<1>2. CASE ask
  <2>1. ~Scripted(e)  BY <1>2 DEF Alert, Timely, Chosen
  <2>2. Begun(m)  BY <1>2, <2>1 DEF Alert, Timely
  <2>3. DOMAIN e = Parts  BY DEF Proper
  <2>4. t = [e EXCEPT !.plans = Append(e.plans, record),
                      !.script = IF s.status = "selected" THEN <<c>> ELSE e.script]
    BY <1>2 DEF Choose
  <2>5. IsLog(e.plans)  BY DEF Alert, Timely
  <2>6. IsLog(Append(e.plans, record)) /\ \E i \in DOMAIN Append(e.plans, record) :
                                            Append(e.plans, record)[i].turn = m.turn
    <3> DEFINE r == record
    <3>1. r.turn = m.turn  OBVIOUS
    <3> HIDE DEF r, m
    <3>2. PICK S : e.plans \in Seq(S)  BY <2>5 DEF IsLog
    <3>3. e.plans \in Seq(S \cup {r})  BY <3>2
    <3>4. Append(e.plans, r) \in Seq(S \cup {r})  BY <3>3
    <3>5. Len(e.plans) \in Nat /\ Len(Append(e.plans, r)) = Len(e.plans) + 1
          /\ Append(e.plans, r)[Len(e.plans) + 1] = r
          /\ DOMAIN Append(e.plans, r) = 1 .. Len(e.plans) + 1
      BY <3>3
    <3>6. Len(e.plans) + 1 \in DOMAIN Append(e.plans, r)  BY <3>5
    <3> QED BY <3>1, <3>4, <3>5, <3>6 DEF IsLog, r
  <2> HIDE DEF record
  <2>7. /\ t.match = m /\ t.ai = e.ai /\ t.plans = Append(e.plans, record)
        /\ t.script = IF s.status = "selected" THEN <<c>> ELSE e.script
    BY <2>3, <2>4 DEF Parts
  <2>8. CASE s.status # "selected"
    <3>1. t.script = e.script  BY <2>7, <2>8
    <3>2. ~Scripted(t)  BY <2>1, <2>7, <3>1 DEF Scripted
    <3> QED BY <2>2, <2>6, <2>7, <3>1, <3>2 DEF Alert, Timely
  <2>9. CASE s.status = "selected"
    <3>1. t.script = <<c>> /\ t.script[1] = c  BY <2>7, <2>9
    <3>2. Pending(c, m)
      <4> DEFINE prefix == PrefixFor(e.world, Active(m))
      <4>1. /\ s.prefix = prefix
            /\ Active(m).thread >= ShotPrice + (IF prefix = None THEN 0 ELSE UtilityPrice)
        BY <2>9 DEF Selection
      <4>2. prefix \in {None, "threadguard", "threadleap"}  BY DEF PrefixFor
      <4>3. IsBody(Active(m)) /\ m.turn \in Nat /\ m.tick \in Nat
        BY DEF Proper, Sound, Typed, Active
      <4>4. Active(m).thread \in Nat /\ ShotPrice \in Nat /\ UtilityPrice \in Nat
        BY <4>3, Positive DEF IsBody
      <4>5. /\ c.prefix = prefix /\ c.plan = e.world.plan /\ c.turn = m.turn /\ c.pending
            /\ c.pending \in BOOLEAN /\ c.stage = "prefix" /\ c.queue = <<>> /\ c.begun = -1
            /\ ~c.jumped /\ c.jumped \in BOOLEAN /\ c.refreshed = -1 /\ c.retreat = -1
        BY <4>1 DEF Script, Never
      <4>6. IsScript(c)
        <5>1. s.prefix \in {None, "threadguard", "threadleap"}  BY <4>1, <4>2
        <5> HIDE DEF s
        <5> QED BY <5>1, ScriptIs
      <4>7. e.world.plan.walk \in Nat /\ e.world.plan.walk + RetreatTicks + 8 <= MaxIntents
            /\ e.world.plan.jumpAfter \in Int
        BY DEF Proper, World, Never
      <4> HIDE DEF c, prefix
      <4>8. Fit(c)  BY <4>3, <4>5, <4>6, <4>7 DEF Fit
      <4>9. LoomsTurn(m)  BY <1>2
      <4>10. Acts(c, m, "prefix", <<>>)
        BY <4>1, <4>3, <4>4, <4>5, <4>8, <4>9 DEF Acts, Runs, LoomsTurn, Never
      <4>11. c.prefix # None => Active(m).thread >= ShotPrice + UtilityPrice
        BY <4>1, <4>5
      <4> QED BY <2>2, <4>5, <4>10, <4>11 DEF Pending
    <3>3. c.turn = m.turn /\ m.turn \in Nat  BY DEF Script, Proper, Sound, Typed
    <3> HIDE DEF c, s
    <3>4. Busy(c, m, 6)  BY <3>2 DEF Busy
    <3>5. Chosen(t)  BY <1>2, <2>6, <2>7 DEF Chosen
    <3>6. Scripted(t)  BY <2>7, <3>1, <3>3 DEF Scripted
    <3> QED BY <2>6, <2>7, <3>1, <3>3, <3>4, <3>5, <3>6 DEF Alert, Timely
  <2> QED BY <2>8, <2>9
<1> QED BY <1>1, <1>2

-----------------------------------------------------------------------------
(* The operations after a tick                                               *)

\* An entry whose script is served.
LEMMA ServedAlert ==
  ASSUME NEW e, Timely(e), Scripted(e), NEW m, m.turn = e.match.turn, NEW c, c.turn = m.turn,
         NEW f, f.match = m, f.script = <<c>>, f.ai = e.ai, f.plans = e.plans
  PROVE  /\ Timely(f)
         /\ Rests(c, m) => Tuned(f)
         /\ \A k : Busy(c, m, k) => Alert(f, k)
<1>1. f.script[1] = c /\ f.script # <<>>  OBVIOUS
<1>2. e.script[1].turn \in Nat /\ e.script[1].turn = m.turn  BY DEF Timely, Scripted
<1>3. m.turn \in Nat  BY <1>2
<1>4. Scripted(f)  BY <1>1 DEF Scripted
<1>5. Chosen(f)  BY DEF Timely, Chosen
<1>6. c.turn <= m.turn  BY <1>3
<1>7. Timely(f)  BY <1>1, <1>3, <1>4, <1>5, <1>6 DEF Timely
<1> QED BY <1>1, <1>7 DEF Tuned, Alert

\* What goes on, stops and throws.
LEMMA GoingOn ==
  ASSUME NEW k, NEW h, Proper(h), h.throws = 0, h.script # <<>>, Alert(h, k),
         NEW w, w = [entry |-> h, on |-> TRUE]
  PROVE  Drains(w, k)
<1>1. w.entry = h /\ w.on = TRUE  OBVIOUS
<1> QED BY <1>1 DEF Drains

\* And if it ends there.
LEMMA GoingOff ==
  ASSUME NEW k, NEW h, Proper(h), h.throws = 0, Tuned(h),
         NEW w, w = [entry |-> h, on |-> FALSE]
  PROVE  Drains(w, k)
<1>1. w.entry = h /\ w.on = FALSE  OBVIOUS
<1> QED BY <1>1 DEF Drains

\* Or has thrown, when all barriers are spent.
LEMMA GoingThrown ==
  ASSUME NEW k, NEW h, Proper(h), h.throws > 0, h.match.barriers = MaxBarriers,
         NEW w, w = [entry |-> h, on |-> FALSE]
  PROVE  Drains(w, k)
<1>1. w.entry = h /\ w.on = FALSE  OBVIOUS
<1> QED BY <1>1 DEF Drains

\* One operation more.
LEMMA PerformTuned ==
  ASSUME NEW v, NEW k \in Nat, Drains(v, k + 1), v.on, Scripted(v.entry),
         NEW w, w = DrainStep(v)
  PROVE  Drains(w, k)
<1> DEFINE e == v.entry
           m == e.match
           s == NextOperation(e.script[1], m)
           f == [e EXCEPT !.script = <<s.script>>]
<1>0. Proper(e) /\ e.throws = 0 /\ Alert(e, k + 1) /\ e.script # <<>> /\ e.throws \in Nat
  BY DEF Drains, Proper
<1>1. IsScript(e.script[1])  BY <1>0 DEF Proper
<1>2. Sound(m) /\ Typed(m)  BY <1>0 DEF Proper, Sound
<1>3. w = Perform(e, s)  BY DEF DrainStep
<1>4. Busy(e.script[1], m, k + 1) /\ Timely(e)  BY <1>0 DEF Alert
<1> HIDE DEF e, m
<1>5. IsStep(s) /\ s.script.turn = e.script[1].turn  BY <1>1, <1>2, NextOperationIs, TurnStays
<1>6. Serves(m, s, k)  BY <1>2, <1>4, BusyServes
<1>7. e.script[1].turn = m.turn  BY DEF Scripted, e, m
<1> HIDE DEF s
<1>8. Proper(w.entry)  BY <1>0, <1>3, <1>5, PerformIs DEF Onward
<1>9. DOMAIN e = Parts  BY <1>0 DEF Proper
<1>10. /\ f.script = <<s.script>> /\ f.match = m /\ f.ai = e.ai /\ f.plans = e.plans
       /\ f.throws = 0 /\ f.world = e.world /\ f.log = e.log /\ DOMAIN f = Parts
  BY <1>0, <1>9 DEF Parts, m
<1>11. Proper(f)
  <2>1. IsScript(s.script)  BY <1>5 DEF IsStep
  <2> HIDE DEF f
  <2> QED BY <1>0, <1>10, <2>1 DEF Proper, m
<1>12. Scripted(e) /\ m = e.match  BY DEF e, m
<1>13. CASE s.op.kind = "none"
  <2>1. w = [entry |-> f, on |-> FALSE]  BY <1>3, <1>13 DEF Perform
  <2>2. Rests(s.script, m)  BY <1>6, <1>13 DEF Serves
  <2> HIDE DEF f
  <2>3. Tuned(f)  BY <1>4, <1>5, <1>7, <1>10, <1>12, <2>2, ServedAlert
  <2> QED BY <1>10, <1>11, <2>1, <2>3, GoingOff
<1>14. CASE s.op.kind = "intent"
  <2> DEFINE op == IntentOp("loomkeeper", s.op.intent, Seen(m))
             ans == AnswerTo(m, s)
             g == ans.match
             h == Accept(f, op, g)
  <2>1. ans.verdict = "done" /\ Busy(s.script, g, k)  BY <1>6, <1>14 DEF Serves
  <2>2. s.op.intent \in Intents  BY <1>5, <1>14 DEF IsStep
  <2>3. w = Performed(f, op, ans)  BY <1>3, <1>14 DEF Perform, AnswerTo, m
  <2>4. w = [entry |-> h, on |-> TRUE]  BY <2>1, <2>3 DEF Performed
  <2>5. ans = Intent(m, "loomkeeper", s.op.intent, Seen(m))  BY DEF AnswerTo
  <2>6. ~Boundary(op)  BY DEF Boundary, IntentOp
  <2> HIDE DEF ans, f, op
  <2>7. Kept(m, g)  BY <1>2, <2>1, <2>2, <2>5, IntentIs
  <2>8. g.turn = m.turn  BY <1>2, <2>1, <2>2, <2>5, IntentStays DEF Carries
  <2>9. h.match = g /\ Beside(f, h)
    <3> HIDE DEF g
    <3>1. Kept(f.match, g)  BY <1>10, <2>7
    <3> QED BY <1>11, <2>6, <3>1, AcceptIs
  <2> HIDE DEF h, g
  <2>10. h.script = <<s.script>> /\ h.ai = e.ai /\ h.plans = e.plans /\ h.throws = 0
    BY <1>10, <2>9 DEF Beside
  <2>11. Alert(h, k)
    BY <1>4, <1>5, <1>7, <1>12, <2>1, <2>8, <2>9, <2>10, ServedAlert
  <2>12. h.script # <<>>  BY <2>10
  <2>13. Proper(h)  BY <1>8, <2>4
  <2> QED BY <2>4, <2>10, <2>11, <2>12, <2>13, GoingOn
<1>15. CASE s.op.kind = "barrier"
  <2> DEFINE op == BarrierOp(s.op.reason, "loomkeeper", m)
             ans == Barrier(m, op)
             g == ans.match
             h == Accept(f, op, g)
  <2>1. \/ ans.verdict = "done" /\ Busy(s.script, g, k)
        \/ ans.verdict = "unchanged" /\ Busy(s.script, m, k)
        \/ ans.verdict = "lifecycle_limit" /\ m.barriers = MaxBarriers
    BY <1>6, <1>15 DEF Serves
  <2>2. w = Performed(f, op, ans)  BY <1>3, <1>15 DEF Perform, m
  <2> HIDE DEF f, op
  <2>3. CASE ans.verdict = "done" /\ Busy(s.script, g, k)
    <3>1. w = [entry |-> h, on |-> TRUE]  BY <2>2, <2>3 DEF Performed
    <3> HIDE DEF ans
    <3>2. Kept(m, g) /\ m.epoch < g.epoch  BY <1>2, <2>3, BarrierIs DEF ans
    <3>3. g.turn = m.turn  BY <1>2, <2>3, BarrierStays DEF ans
    <3>4. h.match = g /\ Beside(f, h)
      <4> HIDE DEF g
      <4>1. Kept(f.match, g) /\ f.match.epoch < g.epoch  BY <1>10, <3>2
      <4> QED BY <1>11, <4>1, AcceptIs
    <3> HIDE DEF h, g
    <3>5. h.script = <<s.script>> /\ h.ai = e.ai /\ h.plans = e.plans /\ h.throws = 0
      BY <1>10, <3>4 DEF Beside
    <3>6. Alert(h, k)
      BY <1>4, <1>5, <1>7, <1>12, <2>3, <3>3, <3>4, <3>5, ServedAlert
    <3>7. h.script # <<>>  BY <3>5
    <3>8. Proper(h)  BY <1>8, <3>1
    <3> QED BY <3>1, <3>5, <3>6, <3>7, <3>8, GoingOn
  <2>4. CASE ans.verdict = "unchanged" /\ Busy(s.script, m, k)
    <3>1. w = [entry |-> f, on |-> TRUE]  BY <2>2, <2>4 DEF Performed
    <3>2. Alert(f, k)  BY <1>4, <1>5, <1>7, <1>10, <1>12, <2>4, ServedAlert
    <3>3. f.script # <<>>  BY <1>10
    <3> HIDE DEF f
    <3> QED BY <1>10, <1>11, <3>1, <3>2, <3>3, GoingOn
  <2>5. CASE ans.verdict = "lifecycle_limit" /\ m.barriers = MaxBarriers
    <3>1. w = [entry |-> [f EXCEPT !.throws = @ + 1], on |-> FALSE]
      BY <2>2, <2>5 DEF Performed
    <3>2. w.entry.throws = 1 /\ w.entry.match = m  BY <1>10, <3>1 DEF Parts
    <3>3. w.entry.throws > 0 /\ w.entry.match.barriers = MaxBarriers /\ w.on = FALSE
      BY <2>5, <3>1, <3>2
    <3> HIDE DEF f
    <3>4. Proper(w.entry)  BY <1>8
    <3> QED BY <3>3, <3>4 DEF Drains
  <2> QED BY <2>1, <2>3, <2>4, <2>5
<1> QED BY <1>5, <1>13, <1>14, <1>15 DEF IsStep

\* A script of a turn that is over makes no operation more.
LEMMA PerformSpent ==
  ASSUME NEW v, NEW k, NEW n, Drains(v, k), v.on, ~Scripted(v.entry),
         NEW w, w = DrainStep(v)
  PROVE  Drains(w, n)
<1> DEFINE e == v.entry
           c == e.script[1]
           f == [e EXCEPT !.script = <<c>>]
<1>1. Proper(e) /\ e.throws = 0 /\ Timely(e) /\ e.script # <<>>
  BY DEF Drains, Proper, Alert
<1>2. w = Perform(e, NextOperation(c, e.match))  BY DEF DrainStep
<1>3. ~Scripted(e)  OBVIOUS
<1> HIDE DEF e
<1>4. c.turn # e.match.turn  BY <1>1, <1>3 DEF Scripted
<1>5. NextOperation(c, e.match) = Step(Rest, c)  BY <1>4 DEF NextOperation
<1>6. w = [entry |-> f, on |-> FALSE]  BY <1>2, <1>5 DEF Perform, Step, Rest
<1>7. DOMAIN e = Parts  BY <1>1 DEF Proper
<1>8. IsScript(c)  BY <1>1 DEF Proper
<1>9. /\ f.script = <<c>> /\ f.match = e.match /\ f.ai = e.ai /\ f.plans = e.plans
      /\ f.throws = 0 /\ f.world = e.world /\ f.log = e.log /\ DOMAIN f = Parts
  BY <1>1, <1>7 DEF Parts
<1> HIDE DEF f
<1>10. Proper(f)  BY <1>1, <1>8, <1>9 DEF Proper
<1>11. f.script # <<>> /\ f.script[1] = c  BY <1>9
<1>12. ~Scripted(f)  BY <1>4, <1>9, <1>11 DEF Scripted
<1>13. Tuned(f)
  <2>1. c.turn \in Nat /\ c.turn <= e.match.turn  BY <1>1 DEF Timely
  <2> HIDE DEF c
  <2> QED BY <1>1, <1>3, <1>9, <1>11, <1>12, <2>1 DEF Tuned, Timely
<1> QED BY <1>1, <1>6, <1>9, <1>10, <1>13, GoingOff

\* A step of Drain, whether there is an operation to make or not.
LEMMA StepTuned ==
  ASSUME NEW v, NEW k \in Nat, Drains(v, k + 1), NEW w, w = DrainStep(v)
  PROVE  Drains(w, k)
<1>1. CASE ~v.on
  <2>1. w = v  BY <1>1 DEF DrainStep
  <2> QED BY <1>1, <2>1 DEF Drains
<1>2. CASE v.on /\ Scripted(v.entry)  BY <1>2, PerformTuned
<1>3. CASE v.on /\ ~Scripted(v.entry)  BY <1>3, PerformSpent
<1> QED BY <1>1, <1>2, <1>3

\* When no operation is left the script is of no turn that goes on.
LEMMA NoneLeft ==
  ASSUME NEW v, Drains(v, 0), NEW w, w = DrainStep(v)
  PROVE  Drains(w, 0)
<1>1. CASE ~v.on
  <2>1. w = v  BY <1>1 DEF DrainStep
  <2> QED BY <1>1, <2>1 DEF Drains
<1>2. CASE v.on
  <2>1. ~Scripted(v.entry)
    <3>1. Alert(v.entry, 0)  BY <1>2 DEF Drains, Proper
    <3> QED BY <3>1, BusyNone DEF Alert
  <2> QED BY <1>2, <2>1, PerformSpent
<1> QED BY <1>1, <1>2

\* What is left after no operation more is legal.
LEMMA LeftLegal ==
  ASSUME NEW v, Drains(v, 0)
  PROVE  Legal(v.entry)
<1>1. CASE v.entry.throws > 0  BY <1>1 DEF Drains, Legal
<1>2. CASE ~(v.entry.throws > 0) /\ ~v.on  BY <1>2 DEF Drains, Legal
<1>3. CASE ~(v.entry.throws > 0) /\ v.on
  <2>1. Alert(v.entry, 0)  BY <1>3 DEF Drains
  <2>2. ~Scripted(v.entry)  BY <2>1, BusyNone DEF Alert
  <2>3. Tuned(v.entry)  BY <2>1, <2>2 DEF Alert, Tuned
  <2> QED BY <1>3, <2>3 DEF Legal
<1>4. v.on \in BOOLEAN  BY DEF Drains
<1> QED BY <1>1, <1>2, <1>3, <1>4

\* Drain never runs out of its eight operations while the script has more to do.
LEMMA DrainLegal ==
  ASSUME NEW e, Proper(e), ~Terminal(e), e.throws = 0, Alert(e, 6), NEW f, f = Drain(e)
  PROVE  Legal(f)
<1> DEFINE a == Choose(e)
           v == [entry |-> a, on |-> a.script # <<>>]
<1>1. Proper(a) /\ a.throws = 0  BY ChooseIs DEF Onward, Same
<1>2. Alert(a, 6)  BY ChooseAlert
<1>3. PICK r : DrainRun(v, 8, r) /\ Drain(e) = r[8].entry  BY DrainRunIs
<1>4. Drains(v, 6)
  <2> HIDE DEF a
  <2>1. CASE a.script # <<>>
    <3>1. v = [entry |-> a, on |-> TRUE]  BY <2>1
    <3> QED BY <1>1, <1>2, <2>1, <3>1, GoingOn
  <2>2. CASE a.script = <<>>
    <3>1. v = [entry |-> a, on |-> FALSE]  BY <2>2
    <3>2. ~Scripted(a)  BY <2>2 DEF Scripted
    <3>3. Tuned(a)  BY <1>2, <3>2 DEF Alert, Tuned
    <3> QED BY <1>1, <3>1, <3>3, GoingOff
  <2> QED BY <2>1, <2>2
<1> HIDE DEF v
<1>5. r[0] = v /\ \A i \in 1 .. 8 : r[i] = DrainStep(r[i - 1])
  BY <1>3 DEF DrainRun
<1>6. Drains(r[0], 5 + 1)  BY <1>4, <1>5
<1>7. Drains(r[1], 4 + 1)  BY <1>5, <1>6, StepTuned
<1>8. Drains(r[2], 3 + 1)  BY <1>5, <1>7, StepTuned
<1>9. Drains(r[3], 2 + 1)  BY <1>5, <1>8, StepTuned
<1>10. Drains(r[4], 1 + 1)  BY <1>5, <1>9, StepTuned
<1>11. Drains(r[5], 0 + 1)  BY <1>5, <1>10, StepTuned
<1>12. Drains(r[6], 0)  BY <1>5, <1>11, StepTuned
<1>13. Drains(r[7], 0)  BY <1>5, <1>12, NoneLeft
<1>14. Drains(r[8], 0)  BY <1>5, <1>13, NoneLeft
<1> QED BY <1>3, <1>14, LeftLegal

-----------------------------------------------------------------------------
(* A tick, and any number of them                                            *)

\* The barriers of a match are never taken back.
LEMMA LegalThrown ==
  ASSUME NEW e, Proper(e), Legal(e), e.throws > 0, NEW f, Onward(e, f)
  PROVE  Legal(f)
<1>1. e.match.barriers = MaxBarriers /\ e.match.barriers <= f.match.barriers
  BY DEF Legal, Onward
<1>2. f.match.barriers \in Nat /\ f.match.barriers <= MaxBarriers
  BY DEF Onward, Proper, Sound, Typed, InputValid
<1>3. f.throws > 0  BY DEF Onward, Proper
<1>4. MaxBarriers \in Nat  BY TurnAssumption
<1> QED BY <1>1, <1>2, <1>3, <1>4 DEF Legal

\* A tick keeps the script legal.
LEMMA AdvanceOnceLegal ==
  ASSUME NEW e, Proper(e), Legal(e), NEW f, f = AdvanceOnce(e)
  PROVE  Legal(f)
<1>1. Onward(e, f)  BY AdvanceOnceIs
<1>2. CASE e.throws > 0  BY <1>1, <1>2, LegalThrown
<1>3. CASE Terminal(e) \/ e.paused
  <2>1. f = e  BY <1>3 DEF AdvanceOnce
  <2> QED BY <2>1
<1>4. CASE e.throws = 0 /\ ~Terminal(e) /\ ~e.paused
  <2> DEFINE t == Think(e)
             g == Tick(t.world, t.match)
             a == Accept(t, Ticks(1), g)
  <2>1. f = Drain(a)  BY <1>4 DEF AdvanceOnce
  <2>2. Tuned(e)  BY <1>4 DEF Legal
  <2>3. Tuned(t)  BY <2>2, ThinkTuned
  <2>4. Proper(t) /\ t.throws = 0 /\ t.match = e.match
    BY <1>4, ThinkIs DEF Onward, Same
  <2>5. ~Terminal(t)  BY <1>4, <2>4 DEF Terminal
  <2> HIDE DEF t
  <2>6. Kept(t.match, g)
    <3>1. t.world \in World /\ Sound(t.match) /\ t.match.phase # "finished"
      BY <2>4, <2>5 DEF Proper, Terminal
    <3> DEFINE b == t.match
    <3>2. Sound(b) /\ b.phase # "finished" /\ g = Tick(t.world, b)  BY <3>1
    <3> HIDE DEF b, g
    <3>3. Kept(b, g)  BY <3>1, <3>2, TickKept
    <3> QED BY <3>3 DEF b
  <2>7. ~Boundary(Ticks(1))  BY DEF Boundary, Ticks
  <2>8. g = Tick(t.world, t.match)  OBVIOUS
  <2> HIDE DEF g
  <2>9. Onward(t, a) /\ a.match = g /\ Beside(t, a)  BY <2>4, <2>6, <2>7, AcceptIs
  <2> HIDE DEF a
  <2>10. Proper(a) /\ a.throws = 0 /\ a.script = t.script /\ a.ai = t.ai /\ a.plans = t.plans
    BY <2>4, <2>9 DEF Onward, Beside
  <2>11. Terminal(a) \/ Alert(a, 6)
    BY <2>3, <2>4, <2>5, <2>8, <2>9, <2>10, TickAlert
  <2>12. CASE Terminal(a)
    <3>1. f = a  BY Zenon, <2>1, <2>12 DEF Drain
    <3> QED BY <2>10, <2>12, <3>1 DEF Legal
  <2>13. CASE ~Terminal(a) /\ Alert(a, 6)  BY <2>1, <2>10, <2>13, DrainLegal
  <2> QED BY <2>11, <2>12, <2>13
<1>5. e.throws \in Nat  BY DEF Proper
<1> QED BY <1>2, <1>3, <1>4, <1>5

\* So do any number of ticks, with an exception among them.
LEMMA AdvanceLegal ==
  ASSUME NEW e, Proper(e), Legal(e)
  PROVE  \A n \in Nat : Legal(Advance(e, n))
<1> DEFINE S == {n \in Nat : Proper(Advance(e, n)) /\ Legal(Advance(e, n))}
<1>1. 0 \in S
  <2>1. Advance(e, 0) = e  BY AdvanceNext
  <2> QED BY <2>1
<1>2. ASSUME NEW n \in Nat, n \in S
      PROVE  n + 1 \in S
  <2> DEFINE f == Advance(e, n)
             h == AdvanceStep(e, f)
  <2>1. Advance(e, n + 1) = h  BY AdvanceNext
  <2>2. Proper(f) /\ Legal(f)  BY <1>2
  <2> HIDE DEF f
  <2>3. Proper(AdvanceOnce(f))  BY <2>2, AdvanceOnceIs DEF Onward
  <2>4. Legal(AdvanceOnce(f))  BY <2>2, AdvanceOnceLegal
  <2>5. Proper(h) /\ Legal(h)  BY <2>2, <2>3, <2>4 DEF AdvanceStep
  <2> HIDE DEF h
  <2> QED BY <1>2, <2>1, <2>5
<1> HIDE DEF S
<1>3. \A n \in Nat : n \in S  BY <1>1, <1>2, Induction
<1> QED BY <1>3 DEF S

\* A match that is over is legal.
LEMMA OverLegal ==
  ASSUME NEW e, Proper(e), Legal(e), NEW f, Onward(e, f), Terminal(f), f.throws = e.throws
  PROVE  Legal(f)
<1>1. CASE e.throws > 0  BY <1>1, LegalThrown
<1>2. CASE ~(e.throws > 0)  BY <1>2 DEF Legal
<1> QED BY <1>1, <1>2

\* A safety stop does.
LEMMA SafetyLegal ==
  ASSUME NEW e, Proper(e), Legal(e), NEW reason, NEW f, f = Safety(e, reason)
  PROVE  Legal(f)
BY SafetyIs, OverLegal DEF Plainly

\* And a catch-up.
LEMMA PumpLegal ==
  ASSUME NEW e, Proper(e), Legal(e), NEW d \in Nat, NEW p, p = Pump(e, d)
  PROVE  Legal(p.entry)
<1>1. p.entry \in {e, Safety(e, "expiry"), Advance(e, Least(Batch, d))}  BY DEF Pump
<1>2. Least(Batch, d) \in Nat  BY MatchAssumption DEF Least
<1> QED BY <1>1, <1>2, AdvanceLegal, SafetyLegal

-----------------------------------------------------------------------------
(* What the owner does                                                       *)

\* Nothing of the script's is touched, in a turn of the player's.
LEMMA PlayersTurn ==
  ASSUME NEW e, Proper(e), ~Terminal(e), Legal(e), e.match.actor = "player",
         NEW f, Onward(e, f), Beside(e, f),
         f.match.turn = e.match.turn, f.match.actor = "player"
  PROVE  Legal(f)
<1>0. f.throws = e.throws  BY DEF Beside
<1>1. CASE e.throws > 0  BY <1>1, LegalThrown
<1>2. CASE ~(e.throws > 0)
  <2>1. Tuned(e)  BY <1>2 DEF Legal
  <2>2. ~Scripted(e)
    <3>1. "player" # "loomkeeper"  OBVIOUS
    <3> QED BY <2>1, <3>1, RestsRuns DEF Tuned, Runs
  <2>3. ~Scripted(f) /\ ~LoomsTurn(f.match)  BY <2>2 DEF Scripted, LoomsTurn, Beside
  <2>4. Tuned(f)  BY <2>1, <2>3 DEF Tuned, Timely, Beside
  <2> QED BY <1>0, <1>2, <2>4 DEF Legal
<1> QED BY <1>1, <1>2

\* A barrier of the player's.
LEMMA BarrierLegal ==
  ASSUME NEW e, Proper(e), Legal(e), NEW b, b.kind = "barrier", b.actor = "player", NEW d,
         NEW f, f = ApplyBarrier(e, b, d)
  PROVE  Legal(f)
<1>1. Plainly(e, f)  BY ApplyBarrierIs
<1>2. CASE f = e  BY <1>2
<1>3. CASE Terminal(f)  BY <1>1, <1>3, OverLegal DEF Plainly
<1>4. CASE Terminal(e)  BY <1>2, <1>4, OverIs
<1>5. ASSUME ~Terminal(e), ~Terminal(f), f # e
      PROVE  Legal(f)
  <2> DEFINE m == e.match
             g == ResumedLeap(m)
             ans == Barrier(m, b)
  <2>1. \/ m.actor = "player" /\ f = Accept(e, b, g)
        \/ f = Answered(e, b, ans)
    <3>1. f # Safety(e, "lifecycle_limit")  BY <1>5, SafetyIs
    <3> HIDE DEF ans, g
    <3> QED BY <1>5, <3>1 DEF ApplyBarrier, AtPlayersLeap, g, ans
  <2>2. Sound(m)  BY DEF Proper
  <2>3. CASE m.actor = "player" /\ f = Accept(e, b, g)
    <3>1. g.turn = m.turn /\ g.actor = m.actor
      <4> HIDE DEF m
      <4>1. g = ClearInput(Counted(m), {"player"})  BY DEF ResumedLeap
      <4> HIDE DEF g
      <4> QED BY <2>2, <4>1, ClearedStays
    <3> HIDE DEF g
    <3>2. f.match = g /\ Beside(e, f)
      BY <2>3 DEF Accept, Beside, Proper, Parts
    <3> QED BY <1>1, <1>5, <2>3, <3>1, <3>2, PlayersTurn DEF Plainly
  <2>4. CASE f = Answered(e, b, ans)
    <3>1. f # Safety(e, "lifecycle_limit")  BY <1>5, SafetyIs
    <3>2. ans.verdict = "done" /\ f = Accept(e, b, ans.match)
      BY <1>5, <2>4, <3>1 DEF Answered
    <3>3. ans.match.turn = m.turn /\ m.actor = "player" /\ ans.match.actor = m.actor
      <4> HIDE DEF m
      <4>1. ans = Barrier(m, b)  OBVIOUS
      <4> HIDE DEF ans
      <4> QED BY <2>2, <3>2, <4>1, BarrierStays
    <3> DEFINE h == ans.match
    <3> HIDE DEF ans
    <3>4. f = Accept(e, b, h)  BY <3>2
    <3>5. h.turn = m.turn /\ m.actor = "player" /\ h.actor = m.actor  BY <3>3
    <3> HIDE DEF h
    <3>6. f.match = h /\ Beside(e, f)
      BY <3>4 DEF Accept, Beside, Proper, Parts
    <3> QED BY <1>1, <1>5, <3>5, <3>6, PlayersTurn DEF Plainly
  <2> QED BY <2>1, <2>3, <2>4
<1> QED BY <1>2, <1>3, <1>4, <1>5

\* An intent of the player's.
LEMMA ApplyLegal ==
  ASSUME NEW e, Proper(e), Legal(e), NEW i \in Intents, NEW seen,
         NEW f, f = Apply(e, IntentOp("player", i, seen))
  PROVE  Legal(f)
<1> DEFINE m == e.match
           op == IntentOp("player", i, seen)
           ans == Intent(m, "player", i, seen)
<1>1. Onward(e, f) /\ f.throws = e.throws
  <2> HIDE DEF m, op, ans
  <2>1. f = Apply(e, IntentOp("player", i, seen))  OBVIOUS
  <2> QED BY ONLY Proper(e), i \in Intents, <2>1, ApplyIs
<1>2. CASE f = e  BY <1>2
<1>3. CASE Terminal(f)  BY <1>1, <1>3, OverLegal
<1>4. CASE Terminal(e)
  <2>1. ans.verdict = "rejected"
    BY <1>4 DEF Terminal, Intent, InputOpen, Current, Answer, Moves
  <2>2. f = e  BY <2>1 DEF Apply, Intended, Answered, IntentOp
  <2> QED BY <2>2
<1>5. ASSUME ~Terminal(e), ~Terminal(f), f # e
      PROVE  Legal(f)
  <2>1. Sound(m)  BY DEF Proper
  <2>2. f = Intended(e, op, ans)
    <3> HIDE DEF m
    <3> QED BY <1>5 DEF Apply, IntentOp, m
  <2>3. op.actor = "player" /\ op.seen = seen /\ op.kind = "intent"  BY DEF IntentOp
  <2> HIDE DEF op
  <2>4. CASE ans.verdict = "intent_limit"
    <3> DEFINE b == [kind |-> "barrier", reason |-> "intent_limit", actor |-> op.actor,
                     turn |-> op.seen.turn, epoch |-> op.seen.epoch]
    <3>1. f = ApplyBarrier(e, b, 0)  BY <2>2, <2>4 DEF Intended
    <3>2. b.kind = "barrier" /\ b.actor = "player"  BY <2>3
    <3> HIDE DEF b
    <3> QED BY <3>1, <3>2, BarrierLegal
  <2>5. CASE ans.verdict # "intent_limit"
    <3>0. f = Answered(e, op, ans)  BY <2>2, <2>5 DEF Intended
    <3>1. f # Safety(e, "lifecycle_limit")  BY <1>5, SafetyIs
    <3>2. ans.verdict = "done" /\ f = Accept(e, op, ans.match)
      BY <1>5, <3>0, <3>1 DEF Answered
    <3>3. Carries(ans.match, m) /\ m.actor = "player"
      <4> HIDE DEF m
      <4>1. ans = Intent(m, "player", i, seen)  OBVIOUS
      <4> HIDE DEF ans
      <4>2. Carries(ans.match, m)  BY <2>1, <3>2, <4>1, IntentStays
      <4>3. m.actor = "player"  BY <3>2, <4>1 DEF Intent, Current, Answer
      <4> QED BY <4>2, <4>3
    <3> DEFINE h == ans.match
    <3> HIDE DEF ans
    <3>4. f = Accept(e, op, h)  BY <3>2
    <3>5. h.turn = m.turn /\ m.actor = "player" /\ h.actor = m.actor  BY <3>3 DEF Carries
    <3> HIDE DEF h
    <3>6. f.match = h /\ Beside(e, f)
      BY <3>4 DEF Accept, Beside, Proper, Parts
    <3> QED BY <1>1, <1>5, <3>5, <3>6, PlayersTurn
  <2> QED BY <2>4, <2>5
<1> QED BY <1>2, <1>3, <1>4, <1>5

\* What the rest of a handler does.
LEMMA HandledLegal ==
  ASSUME NEW e, Proper(e), Legal(e), NEW r, r.kind = "intent" => r.intent \in Intents,
         NEW f, f = Handled(e, r)
  PROVE  Legal(f)
<1> DEFINE b == BarrierOp(r.kind, "player", e.match)
<1>1. b.kind = "barrier" /\ b.actor = "player"  BY DEF BarrierOp
<1> HIDE DEF b
<1>2. CASE r.kind = "intent"  BY <1>2, ApplyLegal DEF Handled
<1>3. CASE r.kind # "intent"
  <2>1. f = e \/ f = ApplyBarrier(e, b, 0)  BY <1>3 DEF Handled, b
  <2> QED BY <1>1, <2>1, BarrierLegal
<1> QED BY <1>2, <1>3

-----------------------------------------------------------------------------
(* The registry around the match                                           *)

\* An observation makes the registry agree.
LEMMA ObservedAgrees ==
  ASSUME NEW e, NEW c, Agrees(e, c), NEW f, Terminal(e) => Terminal(f),
         NEW s, s = Observed(f, c)
  PROVE  Agrees(f, s)
<1>1. CASE ~Terminal(f)
  <2>1. s = c  BY <1>1 DEF Observed
  <2> QED BY <1>1, <2>1 DEF Agrees
<1>2. CASE Terminal(f)
  <2>1. s = [status  |-> IF c.status # "active" THEN c.status
                         ELSE IF f.unavailable THEN "expired" ELSE "completed",
             settled |-> TRUE]
    BY <1>2 DEF Observed
  <2>2. s.settled = TRUE /\ s.status \in Status /\ s.status # "active"
    BY <2>1 DEF Agrees, Status
  <2> QED BY <1>2, <2>2 DEF Agrees
<1> QED BY <1>1, <1>2

\* What is behind the head of the lane fits still.
LEMMA LanedTail ==
  ASSUME NEW l, NEW e, Laned(l, e), l # <<>>
  PROVE  /\ Laned(Tail(l), e) /\ Len(Tail(l)) = Len(l) - 1 /\ Len(l) \in Nat
         /\ Fits(Head(l).request, e)
<1>1. PICK S : l \in Seq(S)  BY DEF Laned, IsLog
<1>2. Len(l) \in Nat /\ Len(l) # 0  BY <1>1, LenProperties, EmptySeq
<1>3. /\ Tail(l) \in Seq(S) /\ Len(Tail(l)) = Len(l) - 1 /\ Head(l) = l[1]
      /\ \A i \in 1 .. Len(l) - 1 : Tail(l)[i] = l[i + 1]
  BY <1>1, HeadTailProperties
<1>4. 1 \in 1 .. Len(l) /\ \A i \in 1 .. Len(l) - 1 : i + 1 \in 1 .. Len(l)  BY <1>2
<1> QED BY <1>2, <1>3, <1>4 DEF Laned, IsLog

\* A fitting request may join.
LEMMA LanedAppend ==
  ASSUME NEW l, NEW e, Laned(l, e), NEW j, Fits(j.request, e)
  PROVE  /\ Laned(Append(l, j), e) /\ Len(Append(l, j)) = Len(l) + 1 /\ Len(l) \in Nat
         /\ Append(l, j) # <<>>
<1>1. PICK S : l \in Seq(S)  BY DEF Laned, IsLog
<1> DEFINE T == S \cup {j}
<1>2. l \in Seq(T) /\ j \in T /\ Len(l) \in Nat
  <2>1. DOMAIN l = 1 .. Len(l) /\ Len(l) \in Nat /\ \A i \in 1 .. Len(l) : l[i] \in S
    BY <1>1, ElementOfSeq, LenProperties
  <2> QED BY <1>1, <2>1
<1>3. /\ Append(l, j) \in Seq(T) /\ Len(Append(l, j)) = Len(l) + 1
      /\ \A i \in 1 .. Len(l) : Append(l, j)[i] = l[i]
      /\ Append(l, j)[Len(l) + 1] = j
  BY <1>2, AppendProperties
<1>4. Append(l, j) # <<>>  BY <1>2, <1>3, EmptySeq
<1>5. \A i \in 1 .. Len(l) + 1 : i \in 1 .. Len(l) \/ i = Len(l) + 1  BY <1>2
<1> QED BY <1>2, <1>3, <1>4, <1>5 DEF Laned, IsLog

\* A lane fits what becomes of the match.
LEMMA LanedOnward ==
  ASSUME NEW e, Proper(e), NEW f, Onward(e, f), NEW l, Laned(l, e)
  PROVE  Laned(l, f)
<1>1. \A i \in 1 .. Len(l) : Fits(l[i].request, f)  BY FitsOnward DEF Laned
<1> QED BY <1>1 DEF Laned

\* The match goes on, and every request fits it still.
LEMMA MovedIs ==
  ASSUME IInv, NEW f, NEW d, Onward(entry, f), Whole(f), Moved(f, d),
         ~Terminal(f) /\ ~f.paused => d \in 0 .. Debt,
         last' = last, scenario' = scenario
  PROVE  /\ EntryGood' /\ due' \in 0 .. Debt /\ scenario' \in Scenario /\ entry' = f
         /\ Laned(lane, entry') /\ (last' # NoRequest => Fits(last', entry'))
<1>1. entry' = f /\ due' = IF Terminal(f) \/ f.paused THEN 0 ELSE d  BY DEF Moved
<1>2. Proper(f) /\ Proper(entry) /\ Laned(lane, entry) /\ (last # NoRequest => Fits(last, entry))
  BY DEF Onward, IInv, EntryGood, RequestsGood
<1>3. Laned(lane, f)  BY <1>2, LanedOnward
<1>4. last # NoRequest => Fits(last, f)  BY <1>2, FitsOnward
<1>5. due' \in 0 .. Debt  BY <1>1, MatchAssumption
<1>6. EntryGood'  BY <1>1, <1>2 DEF EntryGood
<1>7. scenario' \in Scenario  BY DEF IInv
<1> QED BY <1>1, <1>3, <1>4, <1>5, <1>6, <1>7

\* The registry stands by and observes.
LEMMA BecomesIs ==
  ASSUME IInv, NEW f, NEW d, Onward(entry, f), Whole(f), Becomes(f, d),
         ~Terminal(f) /\ ~f.paused => d \in 0 .. Debt, Terminal(entry) => Terminal(f),
         last' = last, scenario' = scenario
  PROVE  /\ EntryGood' /\ due' \in 0 .. Debt /\ scenario' \in Scenario /\ entry' = f
         /\ Agrees(entry', challenge')
         /\ Laned(lane, entry') /\ (last' # NoRequest => Fits(last', entry'))
<1>1. Moved(f, d) /\ challenge' = Observed(f, challenge)  BY DEF Becomes
<1>2. Agrees(entry, challenge)  BY DEF IInv, RegistryGood
<1>3. Agrees(f, challenge')  BY <1>1, <1>2, ObservedAgrees
<1>4. /\ EntryGood' /\ due' \in 0 .. Debt /\ scenario' \in Scenario /\ entry' = f
      /\ Laned(lane, entry') /\ (last' # NoRequest => Fits(last', entry'))
  BY <1>1, MovedIs
<1> QED BY <1>3, <1>4

\* The invariant after a step that leaves the lane alone.
LEMMA StandsBy ==
  ASSUME IInv, EntryGood', due' \in 0 .. Debt, scenario' \in Scenario,
         Agrees(entry', challenge'), Laned(lane, entry'), last' # NoRequest => Fits(last', entry'),
         UNCHANGED <<cursor, lane, waiting, sends>>
  PROVE  IInv'
BY DEF IInv, RegistryGood, RequestsGood

-----------------------------------------------------------------------------
(* Steps of the server                                                       *)

\* The invariant holds when a match is created.
LEMMA InitGood ==
  ASSUME Init
  PROVE  IInv
<1>1. scenario \in Scenario /\ scenario.world \in World /\ entry = Create(scenario.world)
  BY CoordinatorAssumption DEF Init
<1>2. EntryGood
  <2>1. /\ entry.world = scenario.world /\ entry.match = NewMatch /\ entry.log = <<>>
        /\ entry.throws = 0 /\ entry.script = <<>> /\ DOMAIN entry = Parts
        /\ DOMAIN entry.ai = {"turn", "elapsed", "failed"}
    BY <1>1 DEF Create, Parts, NoThought
  <2>2. IsLog(<<>>)
    <3>1. <<>> \in Seq({})  BY EmptySeq
    <3> QED BY <3>1 DEF IsLog
  <2>3. Proper(entry)  BY <1>1, <2>1, <2>2, NewMatchIs DEF Proper
  <2>4. Whole(entry)  BY <1>1, WholeCreate
  <2> QED BY <2>3, <2>4 DEF EntryGood
<1>3. ~Terminal(entry)
  <2>1. entry.match = NewMatch  BY <1>1 DEF Create
  <2> QED BY <2>1, NewMatchIs DEF Terminal
<1>4. IsLog(<<>>) /\ Len(<<>>) = 0
  <2>1. <<>> \in Seq({}) /\ Len(<<>>) = 0  BY EmptySeq
  <2> QED BY <2>1 DEF IsLog
<1>5. Agrees(entry, challenge)  BY <1>3 DEF Init, Agrees, Status
<1>6. RegistryGood
  <2>1. due = 0 /\ cursor = 0 /\ sends = 0 /\ lane = <<>> /\ waiting = FALSE  BY DEF Init
  <2>2. IsLog(lane) /\ Len(lane) = 0  BY <1>4, <2>1
  <2>3. 0 \in 0 .. Debt /\ cursor + Len(lane) <= sends /\ cursor \in Nat /\ sends \in Nat
    BY <2>1, <2>2, MatchAssumption
  <2> QED BY <1>5, <2>1, <2>2, <2>3 DEF RegistryGood
<1>7. RequestsGood  BY <1>4 DEF Init, RequestsGood, Laned
<1> QED BY <1>1, <1>2, <1>6, <1>7 DEF IInv

(* Each action keeps the invariant; only the serving of a request leaves   *)
(* a player's intent in the log.                                           *)

\* After an exception in the timer the match is stopped, its log whole.
LEMMA AfterAnException ==
  ASSUME NEW e, Proper(e), Whole(e), NEW f, f = Safety(e, "expiry")
  PROVE  Plainly(e, f) /\ Terminal(f) /\ Whole(f)
BY SafetyIs, WholeSafety

\* The timer.
LEMMA TimerGood ==
  ASSUME IInv, Timer
  PROVE  IInv' /\ Silent(entry.log, entry'.log)
<1>1. PICK t \in Elapsed \ {0} : Pumped(Pump(entry, due + t))  BY DEF Timer
<1> DEFINE p == Pump(entry, due + t)
<1>2. /\ Proper(entry) /\ Whole(entry) /\ ~Terminal(entry) /\ ~entry.paused
      /\ due + t \in Nat /\ last' = last /\ scenario' = scenario
      /\ UNCHANGED <<cursor, lane, waiting, sends>>
  BY MatchAssumption DEF Timer, IInv, EntryGood, RegistryGood, Elapsed
<1>3. /\ Onward(entry, p.entry) /\ Silent(entry.log, p.entry.log) /\ Whole(p.entry)
      /\ p.due \in Nat /\ p.due <= Debt
  BY <1>2, PumpIs
<1>4. p.due \in 0 .. Debt  BY <1>3, MatchAssumption
<1>5. Pumped(p)  BY <1>1
<1> HIDE DEF p
<1>6. CASE Threw(entry, p.entry)
  <2> DEFINE f == Safety(p.entry, "expiry")
  <2>1. Becomes(f, p.due)  BY <1>5, <1>6 DEF Pumped
  <2>2. Proper(p.entry)  BY <1>3 DEF Onward
  <2>3. Plainly(p.entry, f) /\ Terminal(f) /\ Whole(f)  BY <1>3, <2>2, AfterAnException
  <2> HIDE DEF f
  <2>4. Onward(p.entry, f) /\ Silent(p.entry.log, f.log)  BY <2>3 DEF Plainly
  <2>5. Onward(entry, f) /\ Silent(entry.log, f.log)  BY <1>2, <1>3, <2>4, OnwardTrans
  <2>6. /\ EntryGood' /\ due' \in 0 .. Debt /\ scenario' \in Scenario /\ entry' = f
        /\ Agrees(entry', challenge')
        /\ Laned(lane, entry') /\ (last' # NoRequest => Fits(last', entry'))
    BY <1>2, <1>4, <2>1, <2>3, <2>5, BecomesIs
  <2> QED BY <1>2, <2>5, <2>6, StandsBy
<1>7. CASE ~Threw(entry, p.entry)
  <2> DEFINE f == p.entry
  <2>1. Becomes(f, p.due)  BY <1>5, <1>7 DEF Pumped
  <2>2. Onward(entry, f) /\ Silent(entry.log, f.log) /\ Whole(f)  BY <1>3
  <2> HIDE DEF f
  <2>6. /\ EntryGood' /\ due' \in 0 .. Debt /\ scenario' \in Scenario /\ entry' = f
        /\ Agrees(entry', challenge')
        /\ Laned(lane, entry') /\ (last' # NoRequest => Fits(last', entry'))
    BY <1>2, <1>4, <2>1, <2>2, BecomesIs
  <2> QED BY <1>2, <2>2, <2>6, StandsBy
<1> QED BY <1>6, <1>7

\* A match the registry plays is not over.
LEMMA LiveIs ==
  ASSUME IInv, Live
  PROVE  ~Terminal(entry)
BY DEF IInv, RegistryGood, Agrees, Live

\* A disconnect, and a connection that replaces another.
LEMMA ConnectionGood ==
  ASSUME IInv, Live, NEW reason, AtConnection(reason),
         last' = last, scenario' = scenario, UNCHANGED <<cursor, lane, waiting, sends>>
  PROVE  IInv' /\ Silent(entry.log, entry'.log)
<1> DEFINE b == BarrierOp(reason, "player", entry.match)
           f == ApplyBarrier(entry, b, due)
<1>1. Becomes(f, due)  BY DEF AtConnection
<1>2. b.kind = "barrier" /\ b.actor = "player"  BY DEF BarrierOp
<1>3. Proper(entry) /\ Whole(entry) /\ due \in 0 .. Debt /\ ~Terminal(entry)
  BY LiveIs DEF IInv, EntryGood, RegistryGood
<1> HIDE DEF b
<1>4. Plainly(entry, f) /\ Whole(f)  BY <1>2, <1>3, ApplyBarrierIs, WholeBarrier
<1> HIDE DEF f
<1>5. Onward(entry, f) /\ Silent(entry.log, f.log)  BY <1>4 DEF Plainly
<1>6. /\ EntryGood' /\ due' \in 0 .. Debt /\ scenario' \in Scenario /\ entry' = f
      /\ Agrees(entry', challenge')
      /\ Laned(lane, entry') /\ (last' # NoRequest => Fits(last', entry'))
  BY <1>1, <1>3, <1>4, <1>5, BecomesIs
<1> QED BY <1>5, <1>6, StandsBy

\* A match that is left, expires or loses its session.
LEMMA EndGood ==
  ASSUME IInv, NEW reason, NEW s \in Status \ {"active"},
         Moved(Safety(entry, reason), due), challenge' = [status |-> s, settled |-> TRUE],
         last' = last, scenario' = scenario, UNCHANGED <<cursor, lane, waiting, sends>>
  PROVE  IInv' /\ Silent(entry.log, entry'.log)
<1> DEFINE f == Safety(entry, reason)
<1>1. Proper(entry) /\ Whole(entry) /\ due \in 0 .. Debt  BY DEF IInv, EntryGood, RegistryGood
<1>2. Plainly(entry, f) /\ Terminal(f) /\ Whole(f)  BY <1>1, SafetyIs, WholeSafety
<1>3. Moved(f, due)  OBVIOUS
<1> HIDE DEF f
<1>4. Onward(entry, f) /\ Silent(entry.log, f.log)  BY <1>2 DEF Plainly
<1>5. /\ EntryGood' /\ due' \in 0 .. Debt /\ scenario' \in Scenario /\ entry' = f
      /\ Laned(lane, entry') /\ (last' # NoRequest => Fits(last', entry'))
  BY <1>1, <1>2, <1>3, <1>4, MovedIs
<1>6. Agrees(entry', challenge')  BY <1>2, <1>5 DEF Agrees
<1> QED BY <1>4, <1>5, <1>6, StandsBy

\* A new request fits the match it is sent for.
LEMMA RequestFits ==
  ASSUME IInv, NEW r \in scenario.requests
  PROVE  Fits(Request(r), entry)
<1> DEFINE q == Request(r)
           i == [r.intent EXCEPT !.aimId = IF r.intent.type = "fire"
                                           THEN entry.match.aimId ELSE 0]
<1>1. /\ q.kind = r.kind /\ q.intent = i /\ q.seen = Seen(entry.match)
      /\ q.boundaries = Boundaries(entry.log)
  BY DEF Request
<1>2. r.kind = "intent" => r.intent \in Intents  BY CoordinatorAssumption DEF IInv
<1>3. entry.match.aimId \in Nat /\ entry.match.epoch \in Nat
  BY DEF IInv, EntryGood, Proper, Sound, Typed
<1>4. ASSUME r.intent \in Intents PROVE i \in Intents
  <2>1. i.type = r.intent.type /\ i.dir = r.intent.dir /\ i.aimId \in Nat
    BY <1>3, <1>4 DEF Intents
  <2> QED BY <1>3, <1>4 DEF Intents
<1>5. q.seen.epoch = entry.match.epoch  BY <1>1 DEF Seen
<1> HIDE DEF q, i
<1> QED BY <1>1, <1>2, <1>3, <1>4, <1>5 DEF Fits, q

\* A request that joins the lane.
LEMMA PostGood ==
  ASSUME IInv, NEW r, Fits(r, entry), Post(r)
  PROVE  IInv' /\ entry' = entry
<1> DEFINE j == [request |-> r, socket |-> socket]
<1>1. /\ lane' = Append(lane, j) /\ last' = r /\ sends' = sends + 1 /\ scenario' = scenario
      /\ entry' = entry /\ due' = due /\ challenge' = challenge /\ cursor' = cursor
      /\ waiting' = waiting
  BY DEF Post
<1>2. Laned(lane, entry) /\ j.request = r  BY DEF IInv, RequestsGood
<1> HIDE DEF j
<1>3. /\ Laned(lane', entry) /\ Len(lane') = Len(lane) + 1 /\ Len(lane) \in Nat
      /\ lane' # <<>>
  BY <1>1, <1>2, LanedAppend
<1>4. EntryGood'  BY <1>1 DEF IInv, EntryGood
<1>5. RequestsGood'  BY <1>1, <1>3 DEF RequestsGood
<1>6. cursor \in Nat /\ sends \in Nat /\ cursor + Len(lane) <= sends  BY DEF IInv, RegistryGood
<1>7. RegistryGood'
  <2>1. IsLog(lane') /\ cursor' + Len(lane') <= sends' /\ sends' \in Nat
    BY <1>1, <1>3, <1>6 DEF Laned
  <2> QED BY <1>1, <1>3, <2>1 DEF IInv, RegistryGood
<1> QED BY <1>1, <1>4, <1>5, <1>7 DEF IInv

\* What a step makes of the log: a player's intent only for the request that
\* is served, in a log that has grown no boundary since that was sent.
Fresh(l, h) ==
  \A k \in Len(l) + 1 .. Len(h) :
    Theirs(h[k].op) => /\ lane # <<>> /\ Present
                       /\ Boundaries(SubSeq(h, 1, k - 1)) = Job.request.boundaries

\* Where the player says nothing nothing is stale.
LEMMA SilentFresh ==
  ASSUME NEW l, NEW h, Silent(l, h)
  PROVE  Fresh(l, h)
BY DEF Silent, Fresh

\* A log that is extended begins as it did.
LEMMA PrefixIs ==
  ASSUME NEW l, IsLog(l), NEW h, Extended(l, h)
  PROVE  SubSeq(h, 1, Len(l)) = l
<1>1. PICK S : h \in Seq(S)  BY DEF Extended, IsLog
<1>2. PICK T : l \in Seq(T)  BY DEF IsLog
<1>3. /\ Len(l) \in Nat /\ Len(h) \in Nat /\ Len(l) <= Len(h)
      /\ \A i \in 1 .. Len(l) : h[i] = l[i]
  BY <1>1, <1>2, LenProperties DEF Extended
<1> DEFINE s == SubSeq(h, 1, Len(l))
<1>4. /\ s = [i \in 1 .. Len(l) |-> h[i]]
  <2>1. s = [i \in 1 .. (1 + Len(l) - 1) |-> h[i + 1 - 1]]  OBVIOUS
  <2> QED BY <1>3, <2>1
<1>5. l = [i \in 1 .. Len(l) |-> l[i]]  BY <1>2, LenProperties
<1>6. [i \in 1 .. Len(l) |-> h[i]] = [i \in 1 .. Len(l) |-> l[i]]  BY <1>3
<1> HIDE DEF s
<1> QED BY <1>4, <1>5, <1>6 DEF s

\* The serving of a request that has caught up.
LEMMA ServeMovesGood ==
  ASSUME IInv, lane # <<>>, NEW d \in Nat, CaughtUp(Pump(entry, d)),
         last' = last, scenario' = scenario, sends' = sends
  PROVE  IInv' /\ Fresh(entry.log, entry'.log)
<1> DEFINE p == Pump(entry, d)
           e == p.entry
           r == Job.request
<1>1. /\ Proper(entry) /\ Whole(entry) /\ Agrees(entry, challenge) /\ Laned(lane, entry)
      /\ cursor \in Nat /\ sends \in Nat /\ cursor + Len(lane) <= sends
      /\ waiting \in BOOLEAN
  BY DEF IInv, EntryGood, RegistryGood, RequestsGood
<1>2. /\ Onward(entry, e) /\ Silent(entry.log, e.log) /\ Whole(e)
      /\ p.due \in Nat /\ (~Terminal(entry) /\ ~entry.paused => p.due <= Debt)
      /\ Terminal(entry) \/ entry.paused => e = entry
  BY <1>1, PumpIs
<1>3. Terminal(entry) => Terminal(e)
  <2>1. Terminal(entry) => e = entry  BY <1>2
  <2> HIDE DEF e
  <2> QED BY <2>1
<1>4. ~Terminal(e) /\ ~e.paused => p.due \in 0 .. Debt
  <2> HIDE DEF p
  <2>1. (Terminal(entry) \/ entry.paused) => (Terminal(e) \/ e.paused)
    <3>1. Terminal(entry) \/ entry.paused => e = entry  BY <1>2
    <3> HIDE DEF e
    <3> QED BY <3>1
  <2> HIDE DEF e
  <2>2. ~Terminal(e) /\ ~e.paused => p.due <= Debt  BY <1>2, <2>1
  <2> QED BY <1>2, <2>2, MatchAssumption
<1>5. CaughtUp(p)  OBVIOUS
<1>6. /\ Laned(Tail(lane), entry) /\ Len(Tail(lane)) = Len(lane) - 1 /\ Len(lane) \in Nat
      /\ Fits(r, entry)
  BY <1>1, LanedTail DEF Job
<1> DEFINE stays == /\ p.due > 0 /\ ~Terminal(e) /\ ~e.paused
<1>7. CASE Threw(entry, e) \/ stays
  <2>1. /\ Becomes(e, p.due)
        /\ IF Threw(entry, e) THEN Refuse
           ELSE waiting' = TRUE /\ UNCHANGED <<cursor, answered, lane>>
    BY <1>5, <1>7 DEF CaughtUp
  <2> HIDE DEF p
  <2> HIDE DEF e, stays
  <2>2. /\ EntryGood' /\ due' \in 0 .. Debt /\ scenario' \in Scenario /\ entry' = e
        /\ Agrees(entry', challenge')
        /\ Laned(lane, entry') /\ (last' # NoRequest => Fits(last', entry'))
    BY <1>2, <1>3, <1>4, <2>1, BecomesIs
  <2>3. CASE Threw(entry, e)
    <3>1. waiting' = FALSE /\ lane' = Tail(lane) /\ cursor' = cursor
      BY <2>1, <2>3 DEF Refuse
    <3>2. Laned(lane', entry') /\ cursor' + Len(lane') <= sends'
      <4>1. Laned(Tail(lane), entry')  BY <1>1, <1>2, <1>6, <2>2, LanedOnward
      <4> QED BY <1>1, <1>6, <3>1, <4>1
    <3>3. RegistryGood'  BY <1>1, <2>2, <3>1, <3>2 DEF RegistryGood, Laned
    <3> QED BY <1>2, <2>2, <3>2, <3>3, SilentFresh DEF IInv, RequestsGood
  <2>4. CASE ~Threw(entry, e)
    <3>1. waiting' = TRUE /\ lane' = lane /\ cursor' = cursor  BY <2>1, <2>4
    <3>2. RegistryGood'  BY <1>1, <2>2, <3>1 DEF RegistryGood, Laned
    <3> QED BY <1>2, <2>2, <3>1, <3>2, SilentFresh DEF IInv, RequestsGood
  <2> QED BY <2>3, <2>4
<1>8. CASE ~(Threw(entry, e) \/ stays)
  <2> DEFINE seen == Observed(e, challenge)
             acts == Present /\ (r.kind = "intent" => seen.status = "active")
             f == IF acts THEN Handled(e, r) ELSE e
  <2>1. /\ AnsweredWith(acts, f, seen) /\ waiting' = FALSE /\ lane' = Tail(lane)
    BY <1>5, <1>8 DEF CaughtUp, Finished
  <2>2. /\ Moved(f, 0) /\ challenge' = Observed(f, seen)
        /\ cursor' = IF acts /\ r.kind = "intent" THEN cursor + 1 ELSE cursor
    BY <2>1 DEF AnsweredWith
  <2> HIDE DEF p
  <2> HIDE DEF e, stays, r
  <2>3. Proper(e) /\ Fits(r, e)  BY <1>1, <1>2, <1>6, FitsOnward DEF Onward
  <2>4. Agrees(e, seen)  BY <1>1, <1>3, ObservedAgrees
  <2> HIDE DEF seen
  <2> DEFINE g == Handled(e, r)
  <2>5. /\ Onward(e, g) /\ Extended(e.log, g.log) /\ Whole(g)
        /\ r.kind # "intent" /\ Terminal(e) => g = e
        /\ \A k \in Len(e.log) + 1 .. Len(g.log) :
             Theirs(g.log[k].op) => /\ k = Len(e.log) + 1 /\ r.seen = Seen(e.match)
                                    /\ r.kind = "intent"
    BY <1>2, <2>3, HandledIs
  <2>6. Terminal(e) => f = e
    <3>1. CASE r.kind = "intent"
      <4>1. Terminal(e) => seen.status # "active"  BY <2>4 DEF Agrees
      <4> QED BY <3>1, <4>1
    <3>2. CASE r.kind # "intent"
      <4>1. Terminal(e) => g = e  BY <2>5, <3>2
      <4> HIDE DEF g
      <4> QED BY <4>1 DEF g
    <3> QED BY <3>1, <3>2
  <2>7. Onward(e, f) /\ Whole(f)
    <3>1. Onward(e, e) /\ Whole(e)  BY <1>2, <2>3, OnwardRefl
    <3>2. f = g \/ f = e  OBVIOUS
    <3> HIDE DEF f, g
    <3> QED BY <2>5, <3>1, <3>2
  <2>8. Fresh(entry.log, f.log)
    <3>1. CASE acts
      <4>1. f = g  BY <3>1
      <4>2. ASSUME NEW k \in Len(entry.log) + 1 .. Len(g.log), Theirs(g.log[k].op)
            PROVE  Boundaries(SubSeq(g.log, 1, k - 1)) = r.boundaries
        <5>1. IsLog(entry.log) /\ IsLog(e.log) /\ IsLog(g.log) /\ Len(entry.log) \in Nat
              /\ Len(e.log) \in Nat /\ Len(g.log) \in Nat
          BY <1>1, <2>3, <2>5, LogIs DEF Proper, Onward
        <5>2. k \in Len(e.log) + 1 .. Len(g.log)
          <6>1. CASE k <= Len(e.log)
            <7>1. k \in Len(entry.log) + 1 .. Len(e.log) /\ k \in 1 .. Len(e.log)
              BY <4>2, <5>1, <6>1
            <7>2. ~Theirs(e.log[k].op)  BY <1>2, <7>1 DEF Silent
            <7>3. g.log[k] = e.log[k]  BY <2>5, <7>1 DEF Extended
            <7> HIDE DEF g
            <7> QED BY <4>2, <7>2, <7>3
          <6>2. CASE ~(k <= Len(e.log))  BY <4>2, <5>1, <6>2
          <6> QED BY <6>1, <6>2
        <5>3. k = Len(e.log) + 1 /\ r.seen = Seen(e.match)  BY <2>5, <4>2, <5>2
        <5>4. SubSeq(g.log, 1, Len(e.log)) = e.log /\ k - 1 = Len(e.log)
          BY <2>5, <5>1, <5>3, PrefixIs
        <5>5. r.seen.epoch = e.match.epoch  BY <5>3 DEF Seen
        <5>6. r.boundaries = Boundaries(e.log)  BY <2>3, <5>5 DEF Fits
        <5> HIDE DEF g
        <5> QED BY <5>4, <5>6
      <4>3. Present  BY <3>1
      <4> HIDE DEF f, g
      <4> QED BY <4>1, <4>2, <4>3 DEF Fresh, r
    <3>2. CASE ~acts
      <4>1. f = e  BY <3>2
      <4> HIDE DEF f
      <4> QED BY <1>2, <4>1, SilentFresh
    <3> QED BY <3>1, <3>2
  <2>9. Onward(entry, f)  BY <1>1, <1>2, <2>7, OnwardTrans
  <2> HIDE DEF f
  <2>10. /\ EntryGood' /\ due' \in 0 .. Debt /\ scenario' \in Scenario /\ entry' = f
         /\ Laned(lane, entry') /\ (last' # NoRequest => Fits(last', entry'))
    <3>1. 0 \in 0 .. Debt  BY MatchAssumption
    <3> QED BY <2>2, <2>7, <2>9, <3>1, MovedIs
  <2>11. Agrees(f, challenge')
    <3>1. Terminal(e) => Terminal(f)  BY <2>6
    <3> QED BY <2>2, <2>4, <3>1, ObservedAgrees
  <2>12. Laned(lane', entry')
    <3>1. Laned(Tail(lane), f)  BY <1>1, <1>6, <2>9, LanedOnward
    <3> QED BY <2>1, <2>10, <3>1
  <2>13. cursor' \in Nat /\ cursor' + Len(lane') <= sends' /\ waiting' = FALSE
    BY <1>1, <1>6, <2>1, <2>2
  <2>14. RegistryGood'  BY <1>1, <2>10, <2>11, <2>12, <2>13 DEF RegistryGood, Laned
  <2> QED BY <2>8, <2>10, <2>12, <2>14 DEF IInv, RequestsGood
<1> QED BY <1>7, <1>8

\* The serving of a request, whether it catches up at once or yields.
LEMMA ServeGood ==
  ASSUME IInv, Serve
  PROVE  IInv' /\ Fresh(entry.log, entry'.log)
<1>1. lane # <<>> /\ last' = last /\ scenario' = scenario /\ sends' = sends
  BY DEF Serve
<1>2. CASE waiting \/ Admitted
  <2>1. PICK t \in Elapsed : CaughtUp(Pump(entry, due + t))  BY <1>2 DEF Serve
  <2>2. due + t \in Nat  BY MatchAssumption DEF IInv, RegistryGood, Elapsed
  <2> QED BY <1>1, <2>1, <2>2, ServeMovesGood
<1>3. CASE ~(waiting \/ Admitted)
  <2>1. /\ waiting' = FALSE /\ lane' = Tail(lane)
        /\ UNCHANGED <<cursor, entry, due, challenge>>
    BY <1>3 DEF Serve, Refuse
  <2>2. /\ Laned(Tail(lane), entry) /\ Len(Tail(lane)) = Len(lane) - 1 /\ Len(lane) \in Nat
        /\ IsLog(entry.log) /\ cursor \in Nat /\ sends \in Nat /\ cursor + Len(lane) <= sends
    BY <1>1, LanedTail DEF IInv, RequestsGood, EntryGood, RegistryGood, Proper
  <2>3. EntryGood' /\ RequestsGood'
    BY <1>1, <2>1, <2>2 DEF IInv, EntryGood, RequestsGood
  <2>4. cursor' + Len(lane') <= sends' /\ IsLog(lane')  BY <1>1, <2>1, <2>2 DEF Laned
  <2>5. RegistryGood'  BY <1>1, <2>1, <2>2, <2>4 DEF IInv, RegistryGood
  <2>6. Fresh(entry.log, entry'.log)  BY <2>1, <2>2, GrowsRefl, SilentFresh
  <2> QED BY <1>1, <2>3, <2>5, <2>6 DEF IInv
<1> QED BY <1>2, <1>3

\* Every step.
LEMMA StepGood ==
  ASSUME IInv, [Next]_vars
  PROVE  IInv' /\ Fresh(entry.log, entry'.log)
<1>0. /\ IsLog(entry.log)
      /\ entry' = entry => Fresh(entry.log, entry'.log)
  <2>1. IsLog(entry.log)  BY DEF IInv, EntryGood, Proper
  <2> QED BY <2>1, GrowsRefl, SilentFresh
<1>1. CASE Timer  BY <1>1, TimerGood, SilentFresh
<1>2. CASE Serve  BY <1>2, ServeGood
<1>3. CASE Send
  <2>1. PICK r \in scenario.requests : Post(Request(r))  BY <1>3 DEF Send
  <2>2. Fits(Request(r), entry)  BY RequestFits
  <2> QED BY <1>0, <2>1, <2>2, PostGood
<1>4. CASE Repeat
  <2>1. Post(last) /\ Fits(last, entry)  BY <1>4 DEF Repeat, IInv, RequestsGood
  <2> QED BY <1>0, <2>1, PostGood
<1>5. CASE Disconnect
  <2>1. /\ Live /\ AtConnection("disconnect") /\ last' = last /\ scenario' = scenario
        /\ UNCHANGED <<cursor, lane, waiting, sends>>
    BY <1>5 DEF Disconnect
  <2> QED BY <2>1, ConnectionGood, SilentFresh
<1>6. CASE Reconnect
  <2>1. /\ Live /\ AtConnection("reconnect") /\ last' = last /\ scenario' = scenario
        /\ UNCHANGED <<cursor, lane, waiting, sends>>
    BY <1>6 DEF Reconnect
  <2> QED BY <2>1, ConnectionGood, SilentFresh
<1>7. CASE Leave
  <2>1. /\ Moved(Safety(entry, "left"), due)
        /\ challenge' = [status |-> "left", settled |-> TRUE] /\ last' = last
        /\ scenario' = scenario /\ UNCHANGED <<cursor, lane, waiting, sends>>
    BY <1>7 DEF Leave
  <2>2. "left" \in Status \ {"active"}  BY DEF Status
  <2> QED BY <2>1, <2>2, EndGood, SilentFresh
<1>8. CASE Expire
  <2>1. /\ Moved(Safety(entry, "expiry"), due)
        /\ challenge' = [status |-> "expired", settled |-> TRUE] /\ last' = last
        /\ scenario' = scenario /\ UNCHANGED <<cursor, lane, waiting, sends>>
    BY <1>8 DEF Expire
  <2>2. "expired" \in Status \ {"active"}  BY DEF Status
  <2> QED BY <2>1, <2>2, EndGood, SilentFresh
<1>9. CASE UNCHANGED vars
  <2>1. IInv'
    BY <1>9 DEF vars, IInv, EntryGood, RegistryGood, RequestsGood
  <2> QED BY <1>0, <1>9, <2>1 DEF vars
<1> QED BY <1>1, <1>2, <1>3, <1>4, <1>5, <1>6, <1>7, <1>8, <1>9 DEF Next

\* The inductive invariant: the match is sound, its log makes it again, the
\* registry has noticed its end, and every request fits the log it was sent for.
THEOREM Inductive == Spec => []IInv
<1>1. Init => IInv  BY InitGood
<1>2. IInv /\ [Next]_vars => IInv'  BY StepGood
<1> QED BY <1>1, <1>2, PTL DEF Spec

\* An intent of the player that takes effect was sent for the match as it is:
\* no boundary, be it a phase, an expired lease, a barrier or a turn of the
\* opponent, came between the view it answers and its application.
THEOREM InputIsFresh == Spec => NoStaleInput
<1> DEFINE A == \A k \in DOMAIN entry'.log \ DOMAIN entry.log :
                  LET op == entry'.log[k].op
                  IN op.kind = "intent" /\ op.actor = "player" =>
                       /\ lane # <<>> /\ Present
                       /\ Boundaries(SubSeq(entry'.log, 1, k - 1)) = Job.request.boundaries
<1>1. IInv /\ [Next]_vars => [A]_vars
  <2> SUFFICES ASSUME IInv, [Next]_vars PROVE A
    OBVIOUS
  <2>1. IInv' /\ Fresh(entry.log, entry'.log)  BY StepGood
  <2>2. /\ DOMAIN entry.log = 1 .. Len(entry.log) /\ Len(entry.log) \in Nat
        /\ DOMAIN entry'.log = 1 .. Len(entry'.log) /\ Len(entry'.log) \in Nat
    BY <2>1, LogIs DEF IInv, EntryGood, Proper
  <2>3. \A k \in DOMAIN entry'.log \ DOMAIN entry.log : k \in Len(entry.log) + 1 .. Len(entry'.log)
    BY <2>2
  <2> QED BY <2>1, <2>3 DEF Fresh, Theirs
<1>2. Spec => [][A]_vars  BY <1>1, Inductive, PTL DEF Spec
<1> QED BY <1>2 DEF NoStaleInput

\* A new match has no script.
LEMMA InitLegal ==
  ASSUME Init
  PROVE  Legal(entry)
<1>1. PICK w : entry = Create(w)  BY DEF Init
<1>2. entry.script = <<>> /\ entry.throws = 0 /\ entry.plans = <<>>
      /\ entry.match.actor = "player"
  BY <1>1 DEF Create, NewMatch
<1>3. ~Scripted(entry) /\ ~LoomsTurn(entry.match)  BY <1>2 DEF Scripted, LoomsTurn
<1>4. IsLog(entry.plans)  BY <1>2 DEF IsLog
<1>5. Tuned(entry)  BY <1>2, <1>3, <1>4 DEF Tuned, Timely
<1> QED BY <1>2, <1>5 DEF Legal

\* The serving of a request that has caught up.
LEMMA CaughtUpLegal ==
  ASSUME IInv, Legal(entry), lane # <<>>, NEW d \in Nat, CaughtUp(Pump(entry, d))
  PROVE  Legal(entry')
<1> DEFINE p == Pump(entry, d)
           r == Job.request
<1>1. Proper(entry)  BY DEF IInv, EntryGood
<1>2. Onward(entry, p.entry) /\ Proper(p.entry)  BY <1>1, PumpIs DEF Onward
<1>3. Legal(p.entry)  BY <1>1, PumpLegal
<1>4. Fits(r, entry)  BY LanedTail DEF IInv, RequestsGood, Job
<1>5. entry' = p.entry \/ entry' = Handled(p.entry, r)
  BY DEF CaughtUp, Becomes, Finished, AnsweredWith, Moved
<1>6. r.kind = "intent" => r.intent \in Intents  BY <1>4 DEF Fits
<1> HIDE DEF p, r
<1> QED BY <1>2, <1>3, <1>5, <1>6, HandledLegal

\* Every step of the server keeps the script legal.
LEMMA StepLegal ==
  ASSUME IInv, Legal(entry), [Next]_vars
  PROVE  Legal(entry')
<1>1. Proper(entry)  BY DEF IInv, EntryGood
<1>2. due \in Nat /\ Elapsed \subseteq Nat
  BY MatchAssumption DEF IInv, RegistryGood, Elapsed
<1>3. CASE Timer
  <2>1. PICK t \in Elapsed \ {0} : Pumped(Pump(entry, due + t))  BY <1>3 DEF Timer
  <2> DEFINE d == due + t
             p == Pump(entry, d)
  <2>2. d \in Nat  BY <1>2
  <2>3. entry' = p.entry \/ entry' = Safety(p.entry, "expiry")
    BY <2>1 DEF Pumped, Becomes, Moved
  <2> HIDE DEF d
  <2>4. Proper(p.entry) /\ Legal(p.entry)  BY <1>1, <2>2, PumpIs, PumpLegal DEF Onward
  <2> HIDE DEF p
  <2> QED BY <2>3, <2>4, SafetyLegal
<1>4. CASE Serve
  <2>1. CASE \E t \in Elapsed : CaughtUp(Pump(entry, due + t))
    <3>1. PICK t \in Elapsed : CaughtUp(Pump(entry, due + t))  BY <2>1
    <3>2. due + t \in Nat  BY <1>2
    <3>3. lane # <<>>  BY <1>4 DEF Serve
    <3> QED BY <3>1, <3>2, <3>3, CaughtUpLegal
  <2>2. CASE entry' = entry  BY <2>2
  <2> QED BY <1>4, <2>1, <2>2 DEF Serve
<1>5. CASE Send \/ Repeat
  <2>1. entry' = entry  BY <1>5 DEF Send, Repeat, Post
  <2> QED BY <2>1
<1>6. CASE Disconnect \/ Reconnect
  <2>1. PICK reason : AtConnection(reason)  BY <1>6 DEF Disconnect, Reconnect
  <2> DEFINE b == BarrierOp(reason, "player", entry.match)
  <2>2. entry' = ApplyBarrier(entry, b, due)  BY <2>1 DEF AtConnection, Becomes, Moved
  <2>3. b.kind = "barrier" /\ b.actor = "player"  BY DEF BarrierOp
  <2> HIDE DEF b
  <2> QED BY <1>1, <2>2, <2>3, BarrierLegal
<1>7. CASE Leave \/ Expire
  <2>1. entry' = Safety(entry, "left") \/ entry' = Safety(entry, "expiry")
    BY <1>7 DEF Leave, Expire, Moved
  <2> QED BY <1>1, <2>1, SafetyLegal
<1>8. CASE UNCHANGED vars  BY <1>8 DEF vars
<1> QED BY <1>3, <1>4, <1>5, <1>6, <1>7, <1>8 DEF Next

-----------------------------------------------------------------------------
(* Results                                                                   *)

\* Verify accepts an entry whose log makes it.
LEMMA VerifyIs ==
  ASSUME NEW e, Proper(e), Reaches(e.world, e.log, Len(e.log), Good(e)),
         \A i \in DOMAIN e.plans : e.plans[i].status # "work_failure"
  PROVE  Verify(e)
<1> DEFINE start == [entry |-> Create(e.world), ok |-> TRUE]
           n == Len(e.log)
           R(r) == r = [k \in 0 .. n |-> IF k = 0 THEN start ELSE Verifies(r[k - 1], e, k)]
           after == CHOOSE r : R(r)
<1>1. Verify(e) = Proves(after[n], e)  BY Zenon DEF Verify
<1>2. n \in Nat  BY LogIs DEF Proper
<1>3. PICK q : PlayRun(e.world, e.log, n, q) /\ q[n] = Good(e)  BY DEF Reaches
<1>4. ASSUME NEW v, NEW k PROVE Verifies(v, e, k) = PlayStep(v, e.log, k)
  <2>1. [log |-> e.log].log = e.log  OBVIOUS
  <2> QED BY <2>1 DEF PlayStep, Verifies, Compared
<1>5. start = Start(e.world)  BY DEF Start
<1>6. ASSUME NEW r PROVE R(r) <=> PlayRun(e.world, e.log, n, r)
  BY <1>4, <1>5 DEF PlayRun
<1> HIDE DEF R
<1>7. R(after)  BY <1>3, <1>6
<1>8. PlayRun(e.world, e.log, n, after)  BY <1>6, <1>7
<1> HIDE DEF after
<1>9. Reaches(e.world, e.log, n, after[n])  BY <1>8 DEF Reaches
<1>10. after[n] = Good(e)
  <2> DEFINE v == after[n]
             w == e.world
             l == e.log
  <2>1. Reaches(w, l, n, v) /\ Reaches(w, l, n, Good(e))  BY <1>9
  <2> HIDE DEF v, w, l, n
  <2>2. v = Good(e)  BY <1>2, <2>1, ReachUnique
  <2> QED BY <2>2 DEF v
<1>11. Proves(Good(e), e)  BY DEF Proves, Good
<1> QED BY <1>1, <1>10, <1>11

\* A match that ended without an exception or a failure of the planner is
\* verified by playing its log again: reconstructAutomated never refuses a log
\* that the coordinator wrote, however its operations interleaved.
THEOREM LogProves == Spec => []ReplayProves
<1>1. IInv => ReplayProves
  <2> SUFFICES ASSUME IInv, Terminal(entry), ~(entry.throws > 0),
                      ~\E i \in DOMAIN entry.plans : entry.plans[i].status = "work_failure"
               PROVE  Verify(entry)
    BY DEF ReplayProves
  <2>1. Proper(entry) /\ Whole(entry) /\ entry.throws = 0
    BY DEF IInv, EntryGood, Proper
  <2> QED BY <2>1, VerifyIs DEF Whole
<1> QED BY <1>1, Inductive, PTL

\* Every match the coordinator keeps passes the kernel's assertions, and the
\* registry has settled it exactly when it is over (registry.ts:1303); the debt
\* of ticks is bounded, and nobody waits in an empty lane.
THEOREM StateHolds == Spec => []StateIsValid
<1>1. IInv => StateIsValid
  <2> SUFFICES ASSUME IInv PROVE StateIsValid
    OBVIOUS
  <2>1. Valid(entry.match)  BY SoundValid DEF IInv, EntryGood, Proper
  <2>2. Agrees(entry, challenge)  BY DEF IInv, RegistryGood
  <2>3. Terminal(entry) \in BOOLEAN  BY DEF Terminal
  <2>4. Terminal(entry) = (challenge.status # "active") /\ Terminal(entry) = challenge.settled
    BY <2>2, <2>3, Zenon DEF Agrees
  <2>5. cursor <= sends
    <3>1. Len(lane) \in Nat  BY LogIs DEF IInv, RegistryGood
    <3> QED BY <3>1 DEF IInv, RegistryGood
  <2> QED BY <2>1, <2>2, <2>4, <2>5 DEF IInv, RegistryGood, Agrees, StateIsValid
<1>2. [](IInv => StateIsValid)  BY <1>1, PTL
<1> QED BY <1>2, Inductive, PTL

\* An operation of the script is an intent the match takes, made for the turn
\* it is in: Loomkeeper's script (loomkeeper-v9.ts) is served from Drain
\* (coordinator-v10-live.ts), which throws when V10 answers anything but an
\* acceptance; it never does, unless the barriers of the match are spent.
THEOREM ScriptHolds == Spec => []ScriptIsLegal
<1> DEFINE I == IInv /\ Legal(entry)
<1>1. Init => I  BY InitGood, InitLegal
<1>2. I /\ [Next]_vars => I'  BY StepGood, StepLegal
<1>3. I => ScriptIsLegal  BY DEF Legal, ScriptIsLegal
<1> HIDE DEF I
<1> QED BY <1>1, <1>2, <1>3, PTL DEF Spec
=============================================================================
