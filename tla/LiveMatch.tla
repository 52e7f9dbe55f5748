---------------------------- MODULE LiveMatch ----------------------------
(***************************************************************************)
(* One match of the live V10 coordinator, coordinator-v10-live.ts, as      *)
(* functions on its entry: the operations it accepts, the log it keeps of  *)
(* them, the automated opponent it runs between ticks, and the verifier    *)
(* that plays the log again before a reward is paid.                       *)
(*                                                                         *)
(* The hash in a record is the part of the match it would give away.  The  *)
(* bounds on records and bytes are out of reach of a match and left out.   *)
(***************************************************************************)
EXTENDS LoomkeeperScript, SequencesExt

CONSTANTS
  PlanTicks,   \* ticks of thinking before a plan is retained
  Batch,       \* most ticks one pump advances
  Debt         \* most ticks the clock may be ahead of the match

ASSUME MatchAssumption == PlanTicks \in Nat \ {0} /\ Batch \in Nat \ {0} /\ Debt \in Nat

NoThought == [turn |-> Never, elapsed |-> 0, failed |-> FALSE]

Create(w) ==
  [world |-> w, match |-> NewMatch, log |-> <<>>, paused |-> FALSE,
   unavailable |-> FALSE, throws |-> 0, ai |-> NoThought, script |-> <<>>,
   plans |-> <<>>]

Terminal(e) == e.match.phase = "finished"
Hash(m) == <<m.tick, m.phase, m.epoch, m.intents, m.barriers>>

-----------------------------------------------------------------------------
(* accept: the match moves and the log says how                            *)

Record(op, m) == [op |-> op, hash |-> Hash(m)]
Ticks(n)      == [kind |-> "ticks", count |-> n]
Automatic(m, reason) ==
  [kind |-> "automatic", reason |-> reason, tick |-> m.tick, epoch |-> m.epoch]

Pausing(op) == op.kind = "barrier" /\ op.reason \in {"pause", "resume"}

\* Ticks join the record of the ticks before them unless a boundary came up.
Logged(e, op, m, boundaries) ==
  LET coalesce == /\ op.kind = "ticks" /\ boundaries = <<>> /\ e.log # <<>>
                  /\ Last(e.log).op.kind = "ticks"
      record == IF coalesce THEN Record(Ticks(Last(e.log).op.count + 1), m)
                ELSE Record(op, m)
      notes == [i \in DOMAIN boundaries |->
                  Record(Automatic(m, boundaries[i]), m)]
  IN (IF coalesce THEN Front(e.log) ELSE e.log) \o <<record>> \o notes

\* Mutant: a barrier changes the match and leaves no record.
Accept_BarrierUnlogged(e, op, m) ==
  [e EXCEPT !.match = m,
            !.log = IF op.kind = "barrier" THEN @
                    ELSE Logged(e, op, m, IF op.kind = "safety" THEN <<>>
                                          ELSE m.events.boundaries),
            !.paused = IF Pausing(op) THEN op.reason = "pause" ELSE @]
Accept(e, op, m) ==
  [e EXCEPT !.match = m,
            !.log = Logged(e, op, m, IF op.kind = "safety" THEN <<>>
                                     ELSE m.events.boundaries),
            !.paused = IF Pausing(op) THEN op.reason = "pause" ELSE @]

\* safety: the match ends in a draw nobody played for.
Safety(e, reason) ==
  IF Terminal(e) THEN e
  ELSE Accept([e EXCEPT !.unavailable = reason # "left", !.paused = FALSE],
              [kind |-> "safety", reason |-> reason], ForceLimit(e.match))

-----------------------------------------------------------------------------
(* Barriers and intents                                                    *)

BarrierOp(reason, actor, m) ==
  [kind |-> "barrier", reason |-> reason, actor |-> actor,
   turn |-> m.turn, epoch |-> m.epoch]

AtPlayersLeap(e, b) ==
  e.match.actor = "player" /\ e.match.phase = "action" /\ Active(e.match).leap
    /\ Meets(e.match, b)

\* A pause needs a standing player with no ticks due, or a leap to interrupt.
Pausable(e, b, due) ==
  LET pause  == b.reason = "pause"
      stable == /\ e.match.phase = "action" /\ e.match.actor = "player"
                /\ ~Unsupported(e.match)
  IN /\ pause # e.paused
     /\ AtPlayersLeap(e, b) \/ stable
     /\ e.paused \/ due = 0

\* resumeInterruptedThreadleap: the body is in the air and keeps its leap.
ResumedLeap(m) == ClearInput(Counted(m), {"player"})

\* What the kernel's answer to a barrier or an intent makes of the entry; a
\* barrier too many ends the match.
Answered(e, op, answer) ==
  CASE answer.verdict = "done" -> Accept(e, op, answer.match)
    [] answer.verdict = "lifecycle_limit" -> Safety(e, "lifecycle_limit")
    [] OTHER -> e

ApplyBarrier(e, b, due) ==
  IF Pausing(b) /\ ~Pausable(e, b, due) THEN e
  ELSE IF b.reason = "resume" /\ AtPlayersLeap(e, b)
       THEN IF e.match.barriers >= MaxBarriers
            THEN Safety(e, "lifecycle_limit")
            ELSE Accept(e, b, ResumedLeap(e.match))
  ELSE Answered(e, b, Barrier(e.match, b))

IntentOp(actor, i, seen) ==
  [kind |-> "intent", actor |-> actor, intent |-> i, seen |-> seen]

\* apply: an exhausted intent budget becomes a barrier.
Intended(e, op, answer) ==
  IF answer.verdict # "intent_limit" THEN Answered(e, op, answer)
  ELSE ApplyBarrier(e, [kind |-> "barrier", reason |-> "intent_limit",
                        actor |-> op.actor, turn |-> op.seen.turn,
                        epoch |-> op.seen.epoch], 0)

Apply(e, op) ==
  IF e.paused THEN e
  ELSE Intended(e, op, Intent(e.match, op.actor, op.intent, op.seen))

-----------------------------------------------------------------------------
(* The automated opponent                                                  *)

LoomsTurn(m) == m.phase = "action" /\ m.actor = "loomkeeper"

\* prepareAutomatedTick: one more batch of thinking, charged to the turn.
Think(e) ==
  LET fresh == e.ai.turn # e.match.turn
      ai    == IF fresh THEN [NoThought EXCEPT !.turn = e.match.turn] ELSE e.ai
  IN IF ~LoomsTurn(e.match) THEN e
     ELSE [e EXCEPT !.script = IF fresh THEN <<>> ELSE @,
                    !.ai = IF ai.elapsed >= PlanTicks THEN ai
                           ELSE [ai EXCEPT
                                   !.elapsed = @ + 1,
                                   !.failed = \/ @
                                              \/ e.world.plan.status = "work_failure"]]

Selection(e) ==
  LET u      == Active(e.match)
      prefix == PrefixFor(e.world, u)
      price  == ShotPrice + (IF prefix = None THEN 0 ELSE UtilityPrice)
  IN IF e.ai.failed THEN [status |-> "work_failure", prefix |-> None]
     ELSE IF e.world.plan.status = "selected" /\ u.thread >= price
     THEN [status |-> "selected", prefix |-> prefix]
     ELSE [status |-> "no_legal_plan", prefix |-> None]

\* The plan is retained before anything is done about it.
Choose(e) ==
  LET s   == Selection(e)
      due == /\ LoomsTurn(e.match) /\ e.ai.turn = e.match.turn
             /\ e.ai.elapsed = PlanTicks
             /\ \A i \in DOMAIN e.plans : e.plans[i].turn # e.match.turn
  IN IF ~due THEN e
     ELSE [e EXCEPT !.plans = Append(@, [turn |-> e.match.turn,
                                         status |-> s.status]),
                    !.script = IF s.status = "selected"
                               THEN <<Script(e.world.plan, s.prefix, e.match.turn)>>
                               ELSE @]

\* What the kernel made of an operation, and whether the script goes on; one
\* the kernel refuses is thrown.
Performed(e, op, answer) ==
  CASE answer.verdict = "done" -> [entry |-> Accept(e, op, answer.match), on |-> TRUE]
    [] answer.verdict = "unchanged" -> [entry |-> e, on |-> TRUE]
    [] OTHER -> [entry |-> [e EXCEPT !.throws = @ + 1], on |-> FALSE]

\* The operation a step of the script asks for.
Perform(e, step) ==
  LET f    == [e EXCEPT !.script = <<step.script>>]
      seen == Seen(e.match)
      b    == BarrierOp(step.op.reason, "loomkeeper", e.match)
  IN CASE step.op.kind = "none" -> [entry |-> f, on |-> FALSE]
       [] step.op.kind = "barrier" -> Performed(f, b, Barrier(e.match, b))
       [] OTHER -> Performed(f, IntentOp("loomkeeper", step.op.intent, seen),
                             Intent(e.match, "loomkeeper", step.op.intent, seen))

Threw(e, f) == f.throws > e.throws

\* drainAutomated: at most eight operations after a tick.
Drain(e) ==
  LET chosen == Choose(e)
      after[i \in 0 .. 8] ==
        IF i = 0 THEN [entry |-> chosen, on |-> chosen.script # <<>>]
        ELSE LET v == after[i - 1]
             IN IF ~v.on THEN v
                ELSE Perform(v.entry, NextOperation(v.entry.script[1], v.entry.match))
  IN IF Terminal(e) THEN e ELSE after[8].entry

AdvanceOnce(e) ==
  IF Terminal(e) \/ e.paused THEN e
  ELSE LET t == Think(e)
       IN Drain(Accept(t, Ticks(1), Tick(t.world, t.match)))

\* advance stops at an exception, with what was done before it done.
Advance(e, count) ==
  LET after[i \in 0 .. count] ==
        IF i = 0 THEN e
        ELSE LET f == after[i - 1] IN IF Threw(e, f) THEN f ELSE AdvanceOnce(f)
  IN after[count]

\* pump, with the ticks that were due: what becomes of the match and of them.
Pump(e, due) ==
  IF e.paused \/ Terminal(e) THEN [entry |-> e, due |-> due]
  ELSE IF due > Debt THEN [entry |-> Safety(e, "expiry"), due |-> 0]
  ELSE [entry |-> Advance(e, Least(Batch, due)), due |-> Lost(due, Batch)]

-----------------------------------------------------------------------------
(* reconstructAutomated: the log is played again by a coordinator of its   *)
(* own, which makes the automatic records and those of the opponent anew.  *)

Replayed(e, op) ==
  CASE op.kind = "ticks"   -> Advance(e, op.count)
    [] op.kind = "intent"  -> Apply(e, op)
    [] op.kind = "barrier" -> ApplyBarrier(e, op, 0)
    [] OTHER               -> Safety(e, op.reason)

External(op) ==
  op.kind # "automatic" /\ (op.kind \in {"intent", "barrier"} => op.actor = "player")

\* Record k, replayed as f, must be the next one of the log made anew.
Compared(v, f, e, k) ==
  [entry |-> f, ok |-> ~Threw(v.entry, f) /\ k <= Len(f.log) /\ f.log[k] = e.log[k]]

Verifies(v, e, k) ==
  IF ~v.ok THEN v
  ELSE IF k <= Len(v.entry.log) THEN Compared(v, v.entry, e, k)
  ELSE IF ~External(e.log[k].op) \/ Terminal(v.entry) THEN [v EXCEPT !.ok = FALSE]
  ELSE Compared(v, Replayed(v.entry, e.log[k].op), e, k)

Proves(end, e) ==
  /\ \A i \in DOMAIN e.plans : e.plans[i].status # "work_failure"
  /\ end.ok /\ end.entry.log = e.log /\ end.entry.plans = e.plans
  /\ end.entry.match = e.match

Verify(e) ==
  LET start == [entry |-> Create(e.world), ok |-> TRUE]
      after[k \in 0 .. Len(e.log)] ==
        IF k = 0 THEN start ELSE Verifies(after[k - 1], e, k)
  IN Proves(after[Len(e.log)], e)

=============================================================================
