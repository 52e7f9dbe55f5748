------------------------- MODULE LoomkeeperScript -------------------------
(***************************************************************************)
(* LoomkeeperExecutionV9 of shared/loomkeeper-v9.ts: the cursor that turns *)
(* the plan chosen for one turn into operations, one per call, looking at  *)
(* the match each time.  A plan is what is left of a candidate: how many   *)
(* ticks it walks, after how many of them it jumps, and its prefix.        *)
(***************************************************************************)
EXTENDS TurnInput

CONSTANT DwellTicks   \* between the aim and the shot

Toward == 1
Away   == -1

Say(type, dir, aimId) ==
  [kind |-> "intent",
   intent |-> [type |-> type, dir |-> dir, aimId |-> aimId]]
Cancel == [kind |-> "barrier", reason |-> "cancel"]
Rest   == [kind |-> "none"]

Script(plan, prefix, turn) ==
  [plan |-> plan, prefix |-> prefix, turn |-> turn, pending |-> TRUE,
   stage |-> "prefix", queue |-> <<>>, begun |-> Never, jumped |-> FALSE,
   aimedAt |-> Never, refreshed |-> Never, retreat |-> Never]

Step(op, c) == [op |-> op, script |-> c]
Dequeue(c)  == Step(Head(c.queue), [c EXCEPT !.queue = Tail(@)])

\* Between the prefix and the shot everybody must stand still.
Ready(m) == m.phase = "action" /\ m.held = 0 /\ Steady(m)

Refreshes(c, m, elapsed) ==
  elapsed > 0 /\ elapsed % RefreshTicks = 0 /\ m.held # 0 /\ c.refreshed # m.tick

Refresh(c, m) ==
  Step(Say("walk_refresh", 0, 0), [c EXCEPT !.refreshed = m.tick])

Retreat(c, m) ==
  IF c.retreat = Never
  THEN Dequeue([c EXCEPT !.retreat = m.tick,
                  !.queue = <<Say("face", Away, 0), Say("walk_start", Away, 0)>>])
  ELSE IF Refreshes(c, m, m.tick - c.retreat) THEN Refresh(c, m)
  ELSE Step(Rest, c)

\* Mutant: the shot is prepared while a body still moves or falls.
Ground_Hasty(c, m) ==
  Dequeue([c EXCEPT !.stage = "aim",
             !.queue = <<Say("face", Toward, 0), Say("select_relic", 0, 0),
                         Say("aim", 0, 0)>>])
Ground(c, m) ==
  IF ~Ready(m) THEN Step(Rest, c)
  ELSE Dequeue([c EXCEPT !.stage = "aim",
                  !.queue = <<Say("face", Toward, 0), Say("select_relic", 0, 0),
                              Say("aim", 0, 0)>>])

Begin(c, m) ==
  LET b == [c EXCEPT !.begun = m.tick]
  IN IF c.plan.walk = 0 THEN Ground([b EXCEPT !.stage = "ground"], m)
     ELSE Dequeue([b EXCEPT !.stage = "motion",
                     !.queue = <<Say("face", Toward, 0),
                                 Say("walk_start", Toward, 0)>>])

Motion(c, m) ==
  LET elapsed == m.tick - c.begun
      jumps   == /\ c.plan.jumpAfter # Never /\ ~c.jumped
                 /\ elapsed >= c.plan.jumpAfter
      d       == [c EXCEPT !.jumped = @ \/ jumps]
  IN IF jumps /\ Active(m).grounded THEN Step(Say("jump", Toward, 0), d)
     ELSE IF elapsed >= c.plan.walk
          THEN Step(Cancel, [d EXCEPT !.stage = "ground"])
     ELSE IF Refreshes(d, m, elapsed) THEN Refresh(d, m)
     ELSE Step(Rest, d)

Dwell(c, m) ==
  IF m.tick >= c.aimedAt + DwellTicks
  THEN Step(Say("fire", 0, m.aimId), [c EXCEPT !.stage = "resolution"])
  ELSE Step(Rest, c)

Prefix(c, m) ==
  IF c.pending /\ c.prefix # None
  THEN Step(Say(c.prefix, Toward, 0), [c EXCEPT !.pending = FALSE])
  ELSE IF c.pending \/ Ready(m)
       THEN Begin([c EXCEPT !.pending = FALSE], m)
       ELSE Step(Rest, c)

NextOperation(c, m) ==
  IF c.turn # m.turn \/ m.phase = "finished" THEN Step(Rest, c)
  ELSE IF c.queue # <<>> THEN Dequeue(c)
  ELSE IF m.phase = "retreat" THEN Retreat(c, m)
  ELSE IF m.phase # "action" THEN Step(Rest, c)
  ELSE CASE c.stage = "prefix" -> Prefix(c, m)
         [] c.stage = "motion" -> Motion(c, m)
         [] c.stage = "ground" -> Ground(c, m)
         [] c.stage = "aim"    -> Step(Rest, [c EXCEPT !.aimedAt = m.tick,
                                                       !.stage = "dwell"])
         [] c.stage = "dwell"  -> Dwell(c, m)
         [] OTHER              -> Step(Rest, c)

\* prefixFor: what little Thread and Stitching, or a great distance, suggest.
PrefixFor(w, u) ==
  IF u.thread < 2 * UtilityPrice THEN None
  ELSE IF 2 * u.stitching < MaxStitching THEN "threadguard"
  ELSE IF w.far THEN "threadleap" ELSE None

=============================================================================
