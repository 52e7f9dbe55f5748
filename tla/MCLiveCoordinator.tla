------------------------ MODULE MCLiveCoordinator ------------------------
(* Seven landscapes, a few ticks per phase and three turns.                *)
EXTENDS LiveCoordinator, TLC

Thread0 == [player |-> 5, loomkeeper |-> 4]

Fate(t, i) == [ticks |-> t, into |-> i]
Shot(f, p, l, t, u) ==
  [flight |-> f, raw |-> [player |-> p, loomkeeper |-> l], thrown |-> t,
   undermined |-> u]
Land(wp, wl, jump, walked, blast, sp, sl, status, walk, after, far) ==
  [walk |-> [player |-> wp, loomkeeper |-> wl],
   fall |-> [jump |-> jump, walk_fall |-> walked, blast |-> blast],
   shot |-> [player |-> sp, loomkeeper |-> sl],
   plan |-> [status |-> status, walk |-> walk, jumpAfter |-> after],
   far |-> far]

\* Open ground; a blow throws the loomkeeper; the opponent walks and shoots,
\* and a second blow is the last.
Meadow == Land("floor", "floor", Fate(2, "floor"), Fate(1, "floor"),
               Fate(1, "floor"), Shot(1, 1, 2, {"loomkeeper"}, {}),
               Shot(2, 2, 0, {}, {"player"}), "selected", 1, Never, FALSE)
\* The opponent retreats over a ledge.
Brink  == [Meadow EXCEPT !.walk.loomkeeper = "ledge", !.plan.walk = 0,
                         !.fall.walk_fall = Fate(2, "floor")]
\* Ledges over an abyss; a jump outlasts its phase; a thrown body is lost.
Cliff  == Land("ledge", "wall", Fate(3, "floor"), Fate(2, "pit"),
               Fate(2, "pit"), Shot(2, 0, 1, {"loomkeeper"}, {}),
               Shot(1, 2, 1, {"player"}, {}), "selected", 2, 1, FALSE)
\* The shooter is in the air as the other dies; falls without end; the opponent
\* leaps.
Chasm  == Land("ledge", "floor", Fate(9, "pit"), Fate(1, "pit"),
               Fate(2, "floor"), Shot(1, 1, 2, {"player"}, {"loomkeeper"}),
               Shot(1, 2, 2, {}, {}), "selected", 0, Never, TRUE)
\* Both are lost at once.
Gulf   == [Chasm EXCEPT !.fall.blast = Fate(1, "pit")]
\* The planner gives up, or has nothing to propose.
Fog    == [Meadow EXCEPT !.plan.status = "work_failure"]
Mist   == [Meadow EXCEPT !.plan.status = "no_legal_plan"]

Ask(kind, type, dir) ==
  [kind |-> kind, intent |-> [type |-> type, dir |-> dir, aimId |-> 0]]
I(type, dir) == Ask("intent", type, dir)
B(kind)      == Ask(kind, "none", 0)
Match(kind, world, requests, number, connections) ==
  [mode |-> kind, world |-> world, requests |-> requests, sends |-> number,
   connections |-> connections]

\* In each world what is worth doing there.
Matches ==
  {Match("reward", Meadow, {I("walk_start", 1), I("aim", 0), I("fire", 0)}, 2, 1),
   Match("reward", Meadow, {I("walk_start", 1), B("walk_stop")}, 1, 2),
   Match("reward", Brink, {I("jump", 1)}, 1, 1),
   Match("reward", Cliff, {I("walk_start", 1), I("jump", 1), I("threadleap", 1),
                           B("cancel")}, 2, 1),
   Match("reward", Chasm, {I("aim", 0), I("fire", 0), I("threadguard", 0)}, 2, 1),
   Match("reward", Gulf, {I("aim", 0), I("fire", 0)}, 2, 1),
   Match("reward", Fog, {I("jump", 0)}, 1, 2),
   Match("reward", Mist, {I("threadguard", 0), I("jump", 0)}, 2, 1),
   Match("practice", Mist, {I("threadleap", 1), B("pause"), B("resume")}, 3, 1)}
=============================================================================
