# Nimble Knots: a verification project

TLA+ models of the Nimble Knots server (the repository's `server/`): the daily
reward ledger and its payouts in NIM, the sessions and matches that decide who
is owed a reward, the turn-based match itself with its automated opponent and
its replayable log, and the helper that sponsors "proof of earn" transfers. TLC
checks each model on small instances; TLAPS proves the central properties for
every value of the constants.

Paths below are relative to the repository's `server/src/` unless they begin
with `shared/`, `client/`, `docs/` or `server/`.

## 1. The system

### Parts, their state and their operations

| Part | Source | State | Operations |
|---|---|---|---|
| Reward ledger | `reward/postgres-store.ts`, `migrations/*.sql` | one row per entitlement (a state machine from `reserved` to `finalized`, `manual_review` or a released state), two counters per day, claims, PEI receipts | `reserve`, `start`, `cancelReserved`, `expireReservations`, `completeMatch`, `rotateClaimNonce`, `claim`, `mark*`, `forfeitInProgressOnStartup`, `issuePeiReceipt`: one SERIALIZABLE transaction each |
| Reward service | `reward/service.ts` | none of its own | turns match results into ledger states, verifies claims, runs `initialize` at start |
| Payout worker | `reward/payout.ts` | a pass in progress, a database lease | sign, store, broadcast, reconcile with the chain, finalize or hand over to manual review |
| Session registry | `session/registry.ts` | sessions by id, by token digest and by socket; per session a sequence number, a replay cache and a lane; matches | open, resume (rotates the token), disconnect, sweep, `sequence`, `sequenceAsync`, create, leave and settle a match |
| Socket protocol | `protocol/socket.ts`, `protocol/guards.ts` | token buckets | one handler per message, several of which await the ledger |
| Runtime | `runtime.ts` | the set of running settlement tasks | connects the parts, settles results, starts and stops |
| Live coordinator | `simulation/coordinator-v10-live.ts` | running matches: state, log, due ticks, the opponent's thoughts and script | a timer that catches up ticks in batches, intents, barriers, pause and resume, safety stops, replay and verification |
| Older coordinators | `simulation/coordinator.ts`, `-v8`, `-v9`, `-v10` | the same in simpler forms | the same, for superseded rule sets |
| PEI journeys | `pei/coordinator.ts`, `pei/store.ts` | one row per earn request | `begin`, `acceptEarn`, `complete` |
| PEI helper | `pei/earn-transfer.ts`, `pei/transfer-store.ts`, `pei/proxy-runtime.ts` | issuances and transfers in PostgreSQL | `send`, called by the earn and the verify route |
| Identity | `identity/registry.ts` | pending authorizations, rate windows | `begin`, `complete`, `cancel*`, `sweep` |
| Rooms and games | `room/`, `game/` | the original multiplayer game | join, leave, watch |
| Turn kernel | `shared/simulation-v8.ts`, `-v9.ts`, `-v10.ts` | none: functions on a match's state | step a tick, apply an intent or a barrier, force an end, validate |
| Loomkeeper | `shared/loomkeeper-v9.ts`, `-v10.ts` | a plan's cursor | choose a plan in bounded work, turn it into operations |
| Terrain, older rules, R8 objectives | `shared/terrain*.ts`, `shared/simulation.ts`, `shared/*-r8.ts` | none | numeric geometry, superseded and practice-only rules |
| Client | `client/src/` | the stored token, the retry state of each dialogue | everything the player sees |

### How they interact

A player's socket opens or resumes a *session*. Every later message carries a
sequence number; the registry either handles it at once (`sequence`) or in the
session's lane (`sequenceAsync`), so a handler that awaits the database holds
up the next one. A request for a live match first waits, in that lane, until the
match has caught up with the clock. A wallet, once authorized, *reserves* an entitlement in the
ledger, optionally backed by a PEI receipt; the V10 create handler *starts* it
and, back from the await, looks at the session again and builds the match. The
coordinator plays the match, ticks from its timer and operations of both actors
in one log, and reports its result to the registry, which verifies the log by
playing it again and settles the match once; the runtime records the settlement in the ledger by a task
nobody waits for. A won entitlement is *claimed* with a signature, and queued
for the payout worker, which runs passes under a lease that only one process
can hold. The PEI helper is a process of its own; it pays small earn transfers
on request, from a daily budget.

Only PostgreSQL survives a restart. Sessions, matches, inputs and settlement
tasks live in the memory of one Node process (`README.md` says so), and the
next start forfeits the entitlements that were in progress.

### What is hard

* **Interleaving.** Handlers await; sockets drop, sessions are resumed or
  swept, and the server closes in between. Several database connections move
  one day's budget. Two payout passes overlap when a lease connection dies.
* **Failure.** A process ends at any await. A commit may succeed without its
  answer. Settlement failures are swallowed. The RPC fails, or lags behind.
* **Ordering.** Blocks are reverted after they were seen. Four ways to end a
  match race to settle it. A replaced socket's disconnect comes late. An intent
  arrives after the phase it was meant for.
* **Replay.** A match may be paid only if its log, played again with the
  opponent made anew, gives the same match: any state change without a record,
  or any record that depends on the clock, costs a player the reward.
* **Time.** Reservations outlive their day; receipts, claim challenges,
  recovery windows, transactions and sessions all expire.

What makes each part correct is stated with its module in section 3;
`PROJECT.json` lists the hazards one by one, at the line where they bite, with
the properties that guard them.

## 2. The plan

The order of work, most important behaviour first, and how far it went.

| # | Module | Composes / refines | Status |
|---|---|---|---|
| 1 | `RewardLedger` | refines `PrizeLoom` | checked, every invariant proved |
| 2 | `PrizeLoom` | what one day's prizes are promised to be | refinement checked and proved |
| 3 | `PayoutWorker` | composes worker, ledger rows and chain; refines `PayoutPromise` | checked, every safety property and the refinement proved |
| 4 | `MatchSettlement` | composes create handler, registry, runtime and ledger state | checked, every invariant proved |
| 5 | `SessionTokens` | registry maps, client and sockets | checked, every invariant proved |
| 6 | `SequenceLane` | one session's lane | checked, every invariant proved |
| 7 | `PeiHelper` | helper processes, locks, pool and tables | checked, every invariant proved |
| 8 | `PeiJourney` | coordinator, verifier, journey store and chain, up to the receipt `RewardLedger` takes over | checked, every invariant proved |
| 9 | `ActionTurns`, `TurnInput` | the turn kernel: a tick; an intent or a barrier, and the kernel's assertions | checked through 11; that a tick, an intent or a barrier keeps the assertions proved |
| 10 | `LoomkeeperScript` | the opponent's cursor | checked through 11; that the kernel refuses it nothing proved there |
| 11 | `LiveMatch`, `LiveCoordinator` | one match with its log and verifier; around it timer, lane, connections and settlement | checked, every property proved |

Worth doing next, in this order: the identity authorization around
`SessionTokens`; the client's own retry logic (`client/src/lib/session.ts`) in
place of the environment of `SessionTokens`; that a live match ends, whatever
its owner sends (a bound on the ticks that are left).

## 3. The modules

Names follow the source: an action has the name of the function it models, in
upper case, a variable the name of the field. A definition that ends in
`_Something` with a comment "Mutant:" is a deliberately broken variant of the
definition that follows it; it is part of no specification and records that
the property named in `PROJECT.json` would notice that mistake.

### RewardLedger, PrizeLoom

`row` is the table of entitlements, `committedLuna` and `paidLuna` the two
counters of `reward_days`, `claims` and `receipts` the other two tables. A
claim challenge is kept in its row with its expiry. Each action is one
transaction of the store, so it is atomic (SERIALIZABLE with retries), and does
all of it: `Reserve` first releases what has expired, then checks attempts and
budget, picks a receipt and inserts; `Start` rolls back when the reservation
has expired. Two instants make a day, so reservations, matches and payouts
outlive their day. `MarkFinalized` is guarded by `included` here: what two
workers do to one row is the subject of `PayoutWorker`.

`PrizeLoom` is the abstract promise of a day: a prize is held only when the
budget affords it, returned at most once, and once owed can only be paid.
`KeepsPrizeLoom` states that the ledger implements it; sweeps that release
several rows inside a `reserve` map to one abstract step.

### PayoutWorker, PayoutPromise

Each worker is a process with a program counter through `runOnce`: list the
queued, sign and store each, list the reconcilable, and for each broadcast,
read the head, read the transaction, judge. Between any two steps another
worker, the chain, a crash, or the loss of the lease may come. The chain
includes transactions of the mempool within their validity window, in blocks
that may fail them (`CanFail`) or be reverted (`CanRevert`) until a macro block
seals them. `PayoutPromise` says what a wallet may rely on: at most one
transfer, booked paid only when received for good, written off only when it
was not and never will be.

### MatchSettlement

The rewarded V10 matches of one wallet, over several sessions: the create
handler (`handler`) before and after its await, the registry's `match`, the
sessions' sockets (`conn`), the settlement `tasks`, the `server` going up and
down, and the entitlement's `row`. `faulted` remembers challenges for which a
store call failed or went unanswered: the code gives no guarantee for those, and
the properties say so. Practice matches reach no ledger and are left out, and so
are sessions begun over connections that stay open while the server closes.

### SessionTokens

The registry's three maps, the client's token (`held`), and every deadline as a
counter that runs down. The client may miss any answer: it then keeps its old
token. `lostLeft` is the time since the first of them.

### SequenceLane

One session: `next`, the bounded `replay` cache, the `lane` and whether its
head is `running`. Requests with the same id, or the same number, or both, come
in any order and any number of times; synchronous handlers answer at once,
asynchronous ones queue.

### PeiHelper

Calls of `send` in several processes over one database: the pool's clients, the
advisory locks on a request and on a day, the signing, the commit, the
submission and its record. Uncommitted writes are the state of the call; a
commit publishes the booking and the bytes together. The map of running
attempts that merges simultaneous calls in one process is left out: the store
has to be right without it, for the verify route and other processes pass it by.

### PeiJourney

`row` is the table of journeys, `call` the calls of `begin`, `acceptEarn` and
`complete` in flight, each with what it read before its awaits. A request is
its commitment: an earn request is its number, a spend request its nonce,
journey and parent proof. `chain` holds the transactions with the request in
their data; blocks include them, fail them, are replaced and become final.
`launched` and `asked` are the requests that reached a player, who may pay,
bring them back, repeat and mix them at will, and lose any answer. `began`
records each earn request, so that `ReceiptIsEarned` and `ReturnIsHonoured`
can speak of journeys whose row is gone. That the helper pays a request once is
`PeiHelper`'s result and is taken over in `PayEarn`.

### ActionTurns, TurnInput

The rules of a turn as functions on one match: `Tick` is `stepSimulationV10`,
`Intent` and `Barrier` are what it makes of an input, `ForceLimit` the end
nobody played for. Phases and their deadlines, the lease of a held direction,
the input epoch, the budgets of intents and barriers, bodies in the air, the
impact of a shot, deaths, Thread, shield and leap are as in the code; `Valid` is
`assertSimulationStateV8` with the checks that V9 and V10 add to it. Where a
body is, what it hits and how long it falls is numeric: a *landscape*
(`World`) says for each actor what a step of walking meets, for each way of
leaving the ground how many ticks the fall lasts and where it ends, and for
each shot when it lands and whom it hurts, throws or undermines. Its bounds
are the code's: a shot ends within `projectileTicks`
(`shared/simulation-v8.ts:735`); no relic deals the 100 points of a full
Stitching (the largest damage is 60, `shared/projectile-rules-v10g.ts:11`); a
plan walks 180 ticks at most (`shared/loomkeeper-v9.ts:20`), so that its walk, the 60 ticks
of a retreat and eight intents more stay within the 512 intents of a turn. A held
direction is refreshed every 3 ticks and its lease lasts 9
(`shared/simulation-v8.ts:39`): `RefreshTicks < LeaseTicks`.
`Intents` are the operations the protocol lets through.

### LoomkeeperScript

`LoomkeeperExecutionV9`: the cursor over a plan, one operation per call, each
decided by looking at the match as it is. Which of the candidate plans is best
is given by the landscape, and so is a planner that gives up.

### LiveMatch, LiveCoordinator

`LiveMatch` is one entry of the live coordinator: `Accept` moves the match and
writes the log (ticks coalesce, automatic boundaries get records of their own),
`ApplyBarrier`, `Apply`, `Think`, `Drain`, `Advance`, `Pump` are the methods of
those names, and `Verify` is `reconstructAutomated`: a second entry is played
from the external records of the log and must write the same log. A record's
hash is the part of the match it would give away. An exception that the code
would throw is counted in `throws` and stops the loop it would stop.

`LiveCoordinator` puts a match into the server. `entry` is the match, `due` the
ticks it is owed, `challenge` what the registry knows of it, `socket` and
`sockets` the connections of its owner, `lane` his requests and `waiting`
whether the first of them yields in the middle of a catch-up, `cursor` and
`answered` what has been consumed. Between two batches of a catch-up the timer,
a disconnect, a reconnect and new requests may come; the batch that completes
it and what follows are one step, for only promise callbacks run in between.
`scenario` fixes a match's mode, landscape and the requests its owner may send.

`LiveInvariant` holds the inductive invariant of `LiveCoordinator` and the
relations between a match before and after a step in which its proof is told. It
has no theorem; `LiveCoordinator_proofs` extends it.

## 4. The runs

| Run | Instance | Shows |
|---|---|---|
| `ledger` | 2 wallets, 3 entitlements, 3 receipts, 2 days, budget of two and a half rewards, one wallet with two attempts | types, budget and paid counters, one open attempt, attempt numbers without gaps, each receipt used for one start, claims exactly for queued rows, and the refinement of `PrizeLoom` |
| `payout_lease` | 2 workers, 2 rewards, 4 blocks, crash, failures and reverts, lease holds | nobody is paid twice, reviewed rewards are unpaid, the refinement of `PayoutPromise` |
| `payout_lease_lost` | 2 workers, 1 reward, 4 blocks, the lease connection may die, fairness | still one transaction per reward, finalized means paid, and every queued reward is finalized or reviewed |
| `payout_paid_twice` | lease lost | **finding**: `paid_luna` is increased twice |
| `payout_failed_execution` | failing transactions | **finding**: a failed execution is never reviewed |
| `match_settlement` | 2 sessions, 2 challenges, 1 fault, 1 crash or close, fairness | an entitlement in progress always has someone to end it, a running match is always backed, the ledger holds the first result, every started match is closed there unless a store call failed |
| `session_tokens` | 2 sessions, 2 sockets, fairness | the three maps agree, lost answers are recoverable, sessions without a transport end |
| `sequence_lane` | 5 requests of both kinds, 5 sends, cache of 2, fairness | at most once, no foreign answers, the lane drains |
| `sequence_interleaved` | both kinds | **finding**: a number is applied twice and one passed over |
| `pei_journey` | 2 wallets, 2 journeys, 2 spend requests, 2 transactions, 2 calls, requests that live for 2 of 3 instants | a receipt stands for two final transfers, a return earns one receipt, the return a player was asked for is the one stored |
| `live_coordinator` | 9 scenarios over 7 landscapes; 3 turns of 4 ticks of action and 1 of retreat, debt of 2 ticks, batches of 1, 2 barriers, up to 3 requests and 2 connections | the kernel's assertions hold in every state of a live match, every match that ends without an exception has a log that proves it, the kernel refuses the opponent's script nothing while barriers are left, no input takes effect in a turn, phase or epoch it was not sent for |
| `pei_helper` | 3 calls in 2 processes, one client per process, 2 requests, 2 days, budget of one, fairness | only stored and booked transfers leave, within the budget, and no call waits for ever |

**Bounds.** Every bound is a constant of its module (`MaxTime`,
`MaxReservations`, `MaxHeight`, `MaxCrashes`, `MaxFaults`, `MaxSends`,
`MaxSessions`, `MaxSigned`, `MaxJourney`, `MaxSpend`, `MaxTx`; of a scenario,
`sends` and `connections`). They are chosen so that each hazard occurs: a
third entitlement is refused by budget or attempt limit; a reservation crosses
midnight; four blocks hold an inclusion, a revert, an expiry and a macro block;
a server that crashed or closed starts again over the rows it left; the cache of
two forgets an answer before its repetition comes; two requests compete for the
last transfer of a day; two calls of one process compete for its only client
while one of them waits for a lock that another process holds; two acceptances
of one journey make two spend requests, and a `begin` of one wallet deletes the
expired row of another. In `live_coordinator` the landscapes are chosen so that
matches are won by either side, run into the turn limit and the simulation
limit, end in a draw in which both are lost, stop for debt, end by a barrier too many, by a planner that
gave up and by an
exception; so that an action times out while somebody is in the air, a
retreat does, and a leap is paused and resumed; and so that a socket
changes while a request waits. Three turns give the player a second one, in which
shields run out and Thread is credited again; a match of sixteen turns repeats
them. The phase `settling` for reason `death` does not occur: it takes a death in
a moving phase while another body is in the air, and those that may be are
settled before a phase moves again.
Crashes of a
payout worker are in `payout_lease`, the loss of the lease, which leaves the
pass running, in `payout_lease_lost`. Symmetry is used in `ledger`, whose one temporal
property is a refinement without fairness, and in `pei_journey`, which checks
invariants alone. Runs disable the deadlock check where the bounded clock or
counters let the system stop, or, in `live_coordinator`, the match is over.

**Fairness.** Weak fairness of worker steps: the pass timer (`payout.ts` 66-79)
fires again and every await has a timeout. Strong fairness only for RPC
lookups: an RPC that is asked again and again answers in the end. Weak fairness
of blocks: the chain grows. In `MatchSettlement`: awaited calls are answered or
fail, challenge deadlines fire, a stopped server is started again; none of the
player's own actions is fair. In `SessionTokens`: time and the sweep timer. In
`SequenceLane`: operations of the lane end. In `PeiHelper`: strong fairness of
a call's steps, because PostgreSQL and the pool serve waiters in turn, and
every other await has a timeout; failures and requests are not fair.
`live_coordinator` states safety alone and needs no fairness.

## 5. What is proved

TLAPS checks these for every value of the constants. Assumptions are named where
a constant is declared; beyond finiteness and ranges there is one that matters,
`~LeaseCanDrop`, and the theorems that use it say so.

* **RewardLedger** (`RewardLedger_proofs`): `LedgerTyped`, `BudgetHolds`,
  `PaymentsHold`, `OneAttemptAtATime`, `LiabilityIsKept`, `ReleaseFinal`.
  Assumptions: finitely many entitlements, natural amounts, positive reward.
  `LiabilityIsKept` (no step takes a recorded win back) and `ReleaseFinal` (a
  released row never changes) are the two facts about single rows that
  `KeepsPrizeLoom` rests on. `TypeOK` is inductive by itself; each of the others
  is inductive together with it. The heart is the accounting: a released set
  gives back its size times the reward, so `BudgetConserved` reduces to
  cardinalities of disjoint sets (`Distribution` and the lemmas after it).
  For the other tables there are `NumbersHaveNoGap`, `ReceiptsBackStarts` and
  `ClaimsAreBound`, none of them inductive alone. Attempt numbers have no gap because a start numbers its
  row by the
  count of started rows and `OneOpenAttempt` leaves no other row to start in
  between (`Ready`); a receipt names the one row that reserved it (`Blank`,
  `Routine`); a claim exists exactly for a row past `claimable`.
* **PrizeLoom** (the last part of `RewardLedger_proofs`): `LedgerImplementsLoom`, from an initial
  lemma and one lemma per kind of step. The affordability test of the abstract
  `Hold` speaks of the prizes that are out, the one of `reserve` of a counter;
  `BudgetConserved` is what relates the two, which is why it appears as an
  invariant of the step.
* **PayoutWorker** (`PayoutWorker_proofs`), in three layers.
  1. *Bytes.* Whatever was broadcast is stored in its row, and stored bytes are
     never replaced (`Stored`, `Bytes`, `Ledger`): `PayoutIsTyped` and
     `OneTransactionLeaves`, with or without the lease.
  2. *Judgement.* A worker reads the head before it reads the transaction, so an
     inclusion it judges final is sealed by a macro block (`Judged`):
     `FinalizedArePaid`, also with or without the lease.
  3. *One pass.* While the lease holds, at most one worker is past acquiring it
     (`Alone`), it works on a row as it read it (`Current`) and its phase tells
     what it knows of it (`Phase`): `ReviewedAreUnpaid` and `PaidOnceUnderLease`.
     The same invariant carries `WorkerKeepsPromise`: a block maps to transfers
     of the promise, a revert to taking them back, `MarkFinalized` to the
     booking, a review to writing off, every other step to a stutter. The
     violation run `payout_paid_twice` shows that the assumption is needed.

  `PausedIsSilent` stands by itself, and no run repeats it: a worker comes where
  it signs or broadcasts only from there or past a test of the switch (`Silent`).
* **MatchSettlement** (`MatchSettlement_proofs`): `SettlementIsTyped`,
  `NothingIsOrphaned`, `MatchesAreBacked`, `FirstResultIsRecorded`. The invariant
  follows one entitlement from hand to hand: unplayed before its match exists
  (`Unplayed`), then held by one of handler, match and task (`Held`,
  `OneHolder`), the match without a result until it is settled (`Played`), the
  task with the result that was settled (`Carried`), and nothing but rows while
  the server is down (`Stopped`). `MatchIsBacked` and `InProgressIsOwned` need
  each other: a start may find its session gone only because nobody else owns
  the row.
* **SequenceLane** (`SequenceLane_proofs`): `LaneIsTyped`, `Once`,
  `AnswersStayOwn` and `LaneKeepsOrder`.
  `AppliedOnce` is not inductive: it needs that every request applied so far
  has a number below `next` or is in the cache, and that the running request
  was admitted under `next`. `AnswersAreOwn` needs that an entry of the cache
  names the request that filled it (`CacheInv`). `LaneKeepsOrder` assumes that
  every request is asynchronous and carries the invariant that a running head's
  number is `next`: just what the synchronous path breaks.
* **SessionTokens** (`SessionTokens_proofs`): `SessionsAreTyped`,
  `IndexesStayTrue` and `LostAnswersRecover`. Assumption: there are more than three
  tokens for each session, so that one is always free, which stands for random
  tokens that do not collide. The maps agree only because a session's token and the
  one before it differ (`Rotated`): a sweep that forgets the one before would else
  lose the session. A client's lost answers are recoverable because what it
  holds finds no session but its own (`HeldIsOwn`) and the registry's window
  closes no earlier than its own (`Counting`): it opens with the first lost
  answer, and a resume with the token before does not restart it. Create, resume
  and authorize share one lemma (`Rebuilds`).
* **PeiHelper** (`PeiHelper_proofs`): `HelperIsTyped`, `PaidAsBooked` and
  `BudgetIsKept`. The first needs that a row has a status exactly when its bytes
  are stored, the second that a call at `submit` holds stored bytes and that
  stored means booked, the third `Checked`: a call past the budget check holds
  its day's lock and the day still has room, so that two of them never share a
  day.
* **PeiJourney** (`PeiJourney_proofs`): `JourneysAreTyped`, `ReceiptsAreEarned`,
  `ReturnsAreUsedOnce`, `ReturnsAreHonoured`. A call acts on what it read before
  its awaits; the proofs carry what remains true of it. A begin inserts only
  where no row was and alone (`InsertAlone`); the evidence a call holds is of
  final transactions, which no block replaces (`CallEvidence`, `FoundKept`); a
  row has its earn proof and its spend request together (`RowsPaired`), so that
  of two acceptances only one may write.

* **LiveCoordinator** (`LiveCoordinator_proofs`; the invariant and the relations
  its proof is told in are `LiveInvariant`): `Inductive`, `LogProves`,
  `InputIsFresh`, `StateHolds`, `ScriptHolds`. Assumptions: positive durations,
  natural budgets, a lease longer than the pace of its refreshes, landscapes from
  `World` and requests the protocol admits. In four layers.
  1. *The kernel.* `Valid`, which the code asserts, is not inductive: that a
     projectile's landing finds both alive, or that a body in the air has time
     left, is nowhere asserted. `Sound` adds what is missing (`Still`, `Rich`,
     `Placed`), and `TickIs`, `IntentIs` and `BarrierIs` show that every tick and
     every answer keeps it. Within a step it does not hold: a body may be dead by
     V8's reckoning and not yet by V9's. `Between` is what holds there, and
     `LeftIs` says that the two reckonings agree, which they do because no shot
     takes a full Stitching.
  2. *Match and log.* An entry is `Proper`, and each method of the coordinator
     takes it `Onward`: old records stay, except that the last may count more ticks.
     `Whole` says that the log makes the entry, and, if it ends in ticks,
     that without them it makes a match of which this one is so many ticks
     later; without the second half the next tick could not be joined to the
     record (`WholeTick`). An operation that is recorded is the same when it is
     made again, because the coordinator's ticks, its opponent and its barriers
     depend on nothing but the entry (`WholeOperation`), and what it
     adds to the log besides is never external (`ReachRest`).
  3. *The server.* `Fits` relates a request in the lane to the log: if
     the epoch it was sent for is still the match's, no boundary has been
     written since, for every boundary begins an epoch. Hence `InputIsFresh`.
     `Agrees` says that the registry has settled a match exactly when it is over.
  4. *The script by stages.* `ScriptHolds` says that the kernel refuses nothing
     the opponent's script asks for, unless the barriers of the match are spent.
     The script decides on an operation some operations, or many ticks, before
     the kernel judges it, so the invariant says at each stage of the script
     what the match is like: `Pending`, `Prefixed`, `Facing`, `Walking`,
     `Standing`, `Aiming`, `Dwelling`, `Over`, `Landed`, `Turning`,
     `Retreating`. After a tick the script is `Busy` with at most six operations
     to make, and each is done and leads to a stage with fewer left
     (`BusyServes`): `Drain`, which asks at most eight times a tick, leaves it
     where it `Rests` and never stops at its limit. A tick takes a script at rest
     to a busy one, or ends the turn or the match (`RestsTick`); for this the
     kernel's layer says not only that a tick keeps a match sound, but in which
     ways it moves a turn on (`Course`). The hard stages are the walk and the
     retreat. The intents used there must not outgrow the budget of the turn,
     and a refresh must come neither too early nor after the lease has run out:
     `Pacing` relates the ticks of a walk to the tick of the last refresh. A
     `cancel` of the script is done, or finds the barriers of the match spent.
     Requests of the owner cannot disturb the script: in the opponent's turn the
     kernel takes none of his intents, and his barriers touch nothing the script
     relies on (`PlayersTurn`, `BarrierLegal`).

  `StateHolds` follows from the first and the third. `Verify`, `Advance` and
  `Drain` are recursive functions. The library's induction theorems cannot be
  applied to them, so the module brings its own (`Induction`, from the
  pigeonhole principle: a set of numbers closed under successor is all of them)
  and shows that a run of such a function exists and is unique before it
  reasons about its last value (`AdvanceRunIs`, `DrainRunIs`, `ReachUnique`).

**Only model-checked**: all liveness properties, which depend on fairness and
on `ENABLED`, which the installed provers do not handle. Every safety property
of every passing run is proved.

## 6. Findings

1. `payout_paid_twice`: `markFinalized` adds to `paid_luna` whenever the
   transition returns, also when the row was finalized already.
2. `payout_failed_execution`: a transaction that was included but failed is
   read as "no status" for ever and never reaches manual review.
3. `sequence_interleaved`: the synchronous path ignores the lane. (Where every
   handler takes it, `LaneKeepsOrder` proves that the numbers are in order.)

## 7. Known defects without a run

Met while modelling, not reported as findings because no run of this project
has one of them as its subject.

* **A cancel of the opponent spends the player's barriers.** The contract of V8
  (`docs/planning/wp-015d3a-v8-action-turns-contract.md:352` and `:367`) allows
  128 *external* lifecycle barriers a match, after which it expires without a
  win; V9 has `LIFECYCLE_LIMIT` end the match at once
  (`wp-015d3b-v9-resource-utilities-contract.md:554`). The script's own `cancel` takes
  from the same budget. When it is spent, `drainAutomated`
  (`simulation/coordinator-v10-live.ts:488`) throws instead: in the timer the
  match ends as a `runtime_error`; in a request only the request fails, and the
  match goes on and may be completed with a log that the verifier rejects.
  `ScriptIsLegal` confines the exception to a spent budget, and `ReplayProves`
  leaves such matches out; without those exceptions TLC finds both endings.
* **An elimination in an R8 practice match while the survivor is in the air.**
  `finishObjectiveMatchV10R8` (`shared/simulation-v10-r8.ts:862`) finishes the
  match as `unravelled` at once, and the assertion at `shared/simulation-v8.ts:427`
  forbids that: `advance` throws, the win is never published and the match
  expires. Objectives are not modelled; this one was found by reading.
* **A comment at odds with the restart.** `runtime.ts:141` says that an
  entitlement whose settlement failed stays recoverable for operator review,
  while `initialize` (`reward/service.ts:70`) forfeits it at the next start, won or
  not. `LedgerAgrees` and `MatchesClose` therefore except challenges for which a
  store call failed.

And what turned out not to be one: the bounds on a log (32768 records, 16 MB) and
on the counters of a match are out of reach of any match by arithmetic; the cap
of 2400 ticks a turn is the sum of its phases, so it never cuts one short; the
damage that V8 counts and V9 absorbs agree, since no relic deals more than V9's
limit.

## 8. What is not modelled

* **Numbers and geometry**: positions, collisions, trajectories, terrain
  (`shared/terrain*.ts`), the planner's search over candidates. They are
  fixed-point arithmetic on grids of hundreds of cells; the landscapes of
  `ActionTurns` stand for their outcomes.
* **Older rule sets and coordinators** (V1, V8, V9, and the V10 foundation
  without an opponent): earlier candidates, which a server's configuration may
  still choose. The V10 coordinator and kernel are built from them. **R8
  objectives** belong to practice matches, which pay nothing.
* **Identity authorization** (`identity/registry.ts`): pending attempts, rate
  windows and the four handlers. Each handler is synchronous, so what is left
  are sequential maps with expiry. One interaction remains unchecked: an
  authorization may complete while a create of the same session awaits its
  start, so that the match is played in a session of another wallet than its
  entitlement's; the ledger credits the wallet of the entitlement.
* **Token buckets and payload guards** (`protocol/guards.ts`), **rooms and games**,
  **static routes** and **configuration**: sequential code without shared state
  across awaits.
* **The client** beyond the token it holds, the requests it repeats and the
  answers it misses.
* **The memory stores**: single-threaded stand-ins for tests.
* **Cryptography and formats**: signatures and digests are perfect, carriers and
  payloads are identities. The **PEI chain adapter** only reads the chain.
* **Composition**: a payout pass that dies of a database error takes the server
  with it; the crash is an action of `PayoutWorker` and of `MatchSettlement`, but the
  two are not one model. **Liveness of the live match** (it ends, whatever the
  requests) is not checked: TLC needs hours for it over these scenarios. Every
  phase has a deadline in ticks, and the timer is the only thing it waits for.
* **Analysis, scripts, tests and documents** are offline and were read as
  references.
